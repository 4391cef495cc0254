--------------------------- MODULE MCGogocConfig ---------------------------
(* A small set of values and of files for GogocConfig.                     *)
EXTENDS GogocConfig, TLC

All == {"printable", "server", "dns", "dnslist", "filename", "device"}
Text(s, chars, number) ==
    [trim |-> s, slash |-> s, len |-> 8, hash |-> FALSE, chars |-> chars, number |-> number, dir |-> FALSE, v4 |-> FALSE, v6 |-> FALSE]

Words == {"anonymous", "any", "plain", "yes", "no", "maybe", "host", "router", "v6v4", "v6udpv4", "v4v6",
          "v6anyv4", "dslite", "linux", "auto", "broker", "sit1", "tun", "eth1", "bob", "USER", "web"}
Numbers == [n \in {"0", "1", "30", "64", "300", "32", "3601", "65600"} |->
               CASE n = "0" -> 0 [] n = "1" -> 1 [] n = "30" -> 30 [] n = "64" -> 64 [] n = "300" -> 300
                 [] n = "32" -> 32 [] n = "3601" -> 3601 [] n = "65600" -> 65600]

Known ==
    [s \in Words |-> Text(s, All, 0)]
    @@ [s \in DOMAIN Numbers |-> Text(s, All \cup {"numeric"}, Numbers[s])]
    @@ ("" :> [Text("", All \cup {"numeric", "address"}, 0) EXCEPT !.len = 0])
    \* Too long for a line.
    @@ ("long_name" :> [Text("long_name", {"printable", "filename"}, 0) EXCEPT !.len = 2047])
    \* What a comment after a tab is: a name when it is read, a comment once it is written.
    @@ ("\t# x" :> Text("# x", {}, 0))
    @@ ("# x" :> [Text("# x", {}, 0) EXCEPT !.hash = TRUE])
    @@ (" bob" :> Text("bob", {"printable"}, 0))
    @@ ("192.0.0.1" :> [Text("192.0.0.1", All \cup {"address"}, 192) EXCEPT !.v4 = TRUE])
    @@ ("192.0.0.2" :> [Text("192.0.0.2", All \cup {"address"}, 192) EXCEPT !.v4 = TRUE])
    @@ ("2001::1" :> [Text("2001::1", {"printable", "server", "address"}, 2001) EXCEPT !.v6 = TRUE])
    @@ ("tsp-broker-list.txt" :> Text("tsp-broker-list.txt", All, 0))
    @@ ("tsp-last-server.txt" :> Text("tsp-last-server.txt", All, 0))
    @@ ("gogoc.log" :> Text("gogoc.log", All, 0))
    @@ ("a_b" :> Text("a_b", {"printable", "filename"}, 0))
    @@ ("C:\\web" :> [Text("C:\\web", {"printable"}, 0) EXCEPT !.slash = "C:/web", !.dir = TRUE])
    @@ ("C:/web" :> [Text("C:/web", {"printable"}, 0) EXCEPT !.dir = TRUE])

\* The same, in an order that is quick to look up in.
MCFacts == [s \in DOMAIN Known |-> Known[s]]

\* A configuration that is valid, and files with one thing or another wrong.
Anonymous == <<Comment, NV("server", "broker"), NV("auth_method", "anonymous"), NV("template", "linux"),
               NV("if_tunnel_v6v4", "sit1"), NV("if_tunnel_v6udpv4", "tun")>>
With(line) == Append(Anonymous, line)
Twice(a, b) == Append(With(a), b)

Broken ==
    {With(NV("auth_method", "plain")), Twice(NV("proxy_client", "yes"), NV("tunnel_mode", "v6udpv4")),
     With(NV("proxy_client", "yes")), With(NV("keepalive_interval", "0")), With(NV("tunnel_mode", "v4v6")),
     With(NV("if_tunnel_v6udpv4", "")), With(NV("host_type", "router")), With(NV("retry_delay_max", "1")),
     With(NV("haccess_web_enabled", "yes")), With(NV("auto_retry_connect", "maybe")),
     With(NV("retry_delay", "3601")), With(Separators)}
Plain ==
    {Anonymous, <<>>, <<Led("template", "linux"), NV("auth_method", "anonymous"), NV("if_tunnel_v6v4", "sit1"),
                        NV("if_tunnel_v6udpv4", "tun")>>,
     With(LongLine), Twice(NV("\t# x", "1"), Word("userid")),
     Twice(Indented(2045, Comment), NV("tunnel_mode", "dslite")), Twice(NV("server", "bob"), NV("prefixlen", "65600"))}
MCTexts == [plain |-> Plain, all |-> Plain \cup Broken]
MCDefaultTexts == {Anonymous, With(NV("template", "")), With(Separators)}
MCEdits == {<<"userid", " bob">>, <<"retry_delay_max", "1">>, <<"haccess_document_root", "C:\\web">>,
            <<"keepalive", "maybe">>, <<"if_prefix", "long_name">>}
MCOpenings == {<<"AM_RW", "default">>, <<"AM_RW", "">>, <<"AM_RW", "config">>, <<"AM_READ", "default">>,
               <<"AM_CREATE", "">>}
MCDeviceTexts == {<<NV("web", "192.0.0.1"), NV("a_b", "2001::1")>>, <<NV("web", "2001::1"), Separators>>}
MCMappings == {<<"bob", "2001::1">>, <<"a_b", "192.0.0.2">>}
Calls(client, editor, devices) == [client |-> client, editor |-> editor, devices |-> devices]
Cast(p, options, lines, hands, uses) ==
    [platform |-> p, argv |-> options, texts |-> lines, touches |-> hands, calls |-> uses]
MCCasts == {Cast("unix", <<>>, "all", 1, Calls(3, 0, 0)),
            Cast("unix", [m |-> "v6udpv4"], "all", 0, Calls(1, 0, 0)),
            Cast("unix", [h |-> ""], "plain", 0, Calls(1, 0, 0)),
            Cast("unix", <<>>, "plain", 0, Calls(1, 4, 0)),
            Cast("unix", <<>>, "plain", 1, Calls(0, 0, 4)),
            Cast("android", <<>>, "plain", 1, Calls(2, 0, 0))}
=============================================================================
