--------------------------- MODULE MessageFormat ---------------------------
(***************************************************************************)
(* The messages gogoc and its user interface exchange (gogoc-messaging):   *)
(* how each kind is laid out in a buffer by the message senders and taken  *)
(* out of it by the message translators.                                   *)
(*                                                                         *)
(* A buffer is a sequence of cells.  A character, an integer, a C enum and *)
(* the terminating NUL are one cell each: what matters is where one field  *)
(* ends and the next begins, not how many bytes an int takes.              *)
(***************************************************************************)
EXTENDS Naturals, Sequences, SequencesExt

CONSTANTS
    NUL,      \* the character that ends a string
    NULL,     \* the null pointer
    Garbage   \* a cell behind the data received

ASSUME Distinct == NUL # NULL /\ NUL # Garbage /\ NULL # Garbage

MSG_HEADER_LEN == 2

\* What the data of a message is, by its identifier.
Requests == {"StatusInfoRequest", "TunnelInfoRequest", "BrokerListRequest", "HACCESSStatusInfoRequest"}
FromGUI == Requests \cup {"HACCESSConfigInfo"}
FromClient == {"StatusInfo", "TunnelInfo", "BrokerList", "HACCESSStatusInfo"}

\* Message::CreateMessage(): the header (identifier and length), then the data.
CreateMessage(id, data) == <<id, Len(data)>> \o data

----------------------------------------------------------------------------
(* The senders.                                                            *)

\* A string and its terminator; a null pointer is sent as an empty string.
String(s) == IF s = NULL THEN <<NUL>> ELSE Append(s, NUL)

Send_StatusInfo(i) == CreateMessage("StatusInfo", <<i.eStatus, i.nStatus>>)

Send_TunnelInfo(i) ==
    CreateMessage("TunnelInfo",
        String(i.szBrokerName) \o <<i.eTunnelType>>
        \o String(i.szIPV4AddrLocalEndpoint) \o String(i.szIPV6AddrLocalEndpoint)
        \o String(i.szIPV4AddrRemoteEndpoint) \o String(i.szIPV6AddrRemoteEndpoint)
        \o String(i.szDelegatedPrefix) \o String(i.szUserDomain) \o <<i.tunnelUpTime>>)

Send_BrokerList(list) ==
    CreateMessage("BrokerList",
        FlattenSeq([k \in DOMAIN list |-> Append(String(list[k].szAddress), list[k].nDistance)]))

Send_HACCESSStatusInfo(i) ==
    CreateMessage("HACCESSStatusInfo",
        <<i.proxy_status, i.web_status, i.devmapmod_status>>
        \o FlattenSeq([k \in DOMAIN i.devmap_statuses |->
              Append(String(i.devmap_statuses[k].device_name), i.devmap_statuses[k].mapping_status)]))

Send_HACCESSConfigInfo(i) ==
    CreateMessage("HACCESSConfigInfo",
        String(i.doc_root) \o <<i.proxy_enabled, i.web_enabled, i.devmap_changed>>)

Send_Request(id) == CreateMessage(id, <<>>)

Send(id, i) ==
    CASE id = "StatusInfo" -> Send_StatusInfo(i)
      [] id = "TunnelInfo" -> Send_TunnelInfo(i)
      [] id = "BrokerList" -> Send_BrokerList(i)
      [] id = "HACCESSStatusInfo" -> Send_HACCESSStatusInfo(i)
      [] id = "HACCESSConfigInfo" -> Send_HACCESSConfigInfo(i)
      [] OTHER -> Send_Request(id)

----------------------------------------------------------------------------
(* The translators.  Offsets into the data start at 0, as in the code.     *)

\* The cell at an offset: behind the data lies what the buffer held before.
CellAt(data, at) == IF at < Len(data) THEN data[at + 1] ELSE Garbage

\* strlen() at an offset.
LengthAt(data, at) ==
    CHOOSE n \in 0 .. Len(data) :
        /\ CellAt(data, at + n) \in {NUL, Garbage}
        /\ \A k \in 0 .. n - 1 : CellAt(data, at + k) \notin {NUL, Garbage}

StringAt(data, at) == SubSeq(data, at + 1, at + LengthAt(data, at))

\* Mutant: the terminator is taken for the next field.
AfterText(data, at) == at + LengthAt(data, at)

After(data, at) == at + LengthAt(data, at) + 1

TranslateStatusInfo(data) == [eStatus |-> CellAt(data, 0), nStatus |-> CellAt(data, 1)]

TranslateTunnelInfo(data) ==
    LET type  == After(data, 0)
        local4 == type + 1
        local6 == After(data, local4)
        remote4 == After(data, local6)
        remote6 == After(data, remote4)
        prefix == After(data, remote6)
        domain == After(data, prefix)
        uptime == After(data, domain)
    IN [szBrokerName |-> StringAt(data, 0), eTunnelType |-> CellAt(data, type),
        szIPV4AddrLocalEndpoint |-> StringAt(data, local4),
        szIPV6AddrLocalEndpoint |-> StringAt(data, local6),
        szIPV4AddrRemoteEndpoint |-> StringAt(data, remote4),
        szIPV6AddrRemoteEndpoint |-> StringAt(data, remote6),
        szDelegatedPrefix |-> StringAt(data, prefix),
        szUserDomain |-> StringAt(data, domain), tunnelUpTime |-> CellAt(data, uptime)]

\* The recursion carries a pointer into the data (at) and a cursor from its
\* start.  The distance is read at the cursor's offset from the pointer, which
\* is the right place for the first broker only.
BuildBrokerList(data) ==
    LET build[p \in Nat \X Nat] ==
            LET at == p[1]
                nCursor == p[2]
                nNameLen == LengthAt(data, at) + 1
            IN IF nCursor >= Len(data)
               THEN <<>>
               ELSE <<[szAddress |-> StringAt(data, at),
                       nDistance |-> CellAt(data, at + nCursor + nNameLen)]>>
                    \o build[<<at + nNameLen + 1, nCursor + nNameLen + 1>>]
    IN build[<<0, 0>>]

BuildMappingStatuses(data, first) ==
    LET build[at \in Nat] ==
            IF at >= Len(data)
            THEN <<>>
            ELSE LET nNameLen == LengthAt(data, at) + 1
                 IN <<[device_name |-> StringAt(data, at),
                       mapping_status |-> CellAt(data, at + nNameLen)]>>
                    \o build[at + nNameLen + 1]
    IN build[first]

TranslateHACCESSStatusInfo(data) ==
    [proxy_status |-> CellAt(data, 0), web_status |-> CellAt(data, 1),
     devmapmod_status |-> CellAt(data, 2), devmap_statuses |-> BuildMappingStatuses(data, 3)]

TranslateHACCESSConfigInfo(data) ==
    LET proxy == After(data, 0)
    IN [doc_root |-> StringAt(data, 0), proxy_enabled |-> CellAt(data, proxy),
        web_enabled |-> CellAt(data, proxy + 1), devmap_changed |-> CellAt(data, proxy + 2)]

\* ProcessMessage() of the user interface's translator, up to the handler it
\* calls: which one, and what it is given.
ClientMsgTranslator(raw) ==
    LET data == SubSeq(raw, MSG_HEADER_LEN + 1, MSG_HEADER_LEN + raw[2])
    IN CASE raw[1] = "StatusInfo" -> <<raw[1], TranslateStatusInfo(data)>>
         [] raw[1] = "TunnelInfo" -> <<raw[1], TranslateTunnelInfo(data)>>
         [] raw[1] = "BrokerList" -> <<raw[1], BuildBrokerList(data)>>
         [] raw[1] = "HACCESSStatusInfo" -> <<raw[1], TranslateHACCESSStatusInfo(data)>>
         [] OTHER -> <<"MESSAGENOTIMPL", NULL>>

\* ProcessMessage() of gogoc's translator.
ServerMsgTranslator(raw) ==
    LET data == SubSeq(raw, MSG_HEADER_LEN + 1, MSG_HEADER_LEN + raw[2])
    IN CASE raw[1] \in Requests -> <<raw[1], NULL>>
         [] raw[1] = "HACCESSConfigInfo" -> <<raw[1], TranslateHACCESSConfigInfo(data)>>
         [] OTHER -> <<"MESSAGENOTIMPL", NULL>>

----------------------------------------------------------------------------
(* What a handler should be given: the information that was sent, with    *)
(* empty strings for null pointers.                                        *)

Text(s) == IF s = NULL THEN <<>> ELSE s

Normal(id, i) ==
    CASE id = "StatusInfo" -> i
      [] id = "TunnelInfo" ->
            [f \in DOMAIN i |-> IF f \in {"eTunnelType", "tunnelUpTime"} THEN i[f] ELSE Text(i[f])]
      [] id = "BrokerList" -> [k \in DOMAIN i |-> [i[k] EXCEPT !.szAddress = Text(@)]]
      [] id = "HACCESSStatusInfo" ->
            [i EXCEPT !.devmap_statuses = [k \in DOMAIN @ |-> [@[k] EXCEPT !.device_name = Text(@)]]]
      [] id = "HACCESSConfigInfo" -> [i EXCEPT !.doc_root = Text(@)]
      [] OTHER -> NULL

\* The C types of the information a handler should be given.  A string ends where its
\* first NUL is.
IsText(s) ==
    /\ s # NULL /\ Len(s) \in Nat /\ s = [k \in 1 .. Len(s) |-> s[k]]
    /\ \A k \in 1 .. Len(s) : s[k] \notin {NUL, Garbage}

IsList(l) == Len(l) \in Nat /\ l = [k \in 1 .. Len(l) |-> l[k]]

\* The strings of the information on a tunnel; szIPV6AddrDns is not sent.
TunnelTexts == {"szBrokerName", "szIPV4AddrLocalEndpoint", "szIPV6AddrLocalEndpoint",
                "szIPV4AddrRemoteEndpoint", "szIPV6AddrRemoteEndpoint", "szDelegatedPrefix",
                "szUserDomain"}

WellTyped(id, i) ==
    CASE id = "StatusInfo" -> i = [eStatus |-> i.eStatus, nStatus |-> i.nStatus]
      [] id = "TunnelInfo" ->
            /\ i = [f \in TunnelTexts \cup {"eTunnelType", "tunnelUpTime"} |-> i[f]]
            /\ \A f \in TunnelTexts : IsText(i[f])
      [] id = "BrokerList" ->
            /\ IsList(i)
            /\ \A k \in 1 .. Len(i) :
                  /\ i[k] = [szAddress |-> i[k].szAddress, nDistance |-> i[k].nDistance]
                  /\ IsText(i[k].szAddress)
      [] id = "HACCESSStatusInfo" ->
            /\ i = [proxy_status |-> i.proxy_status, web_status |-> i.web_status,
                    devmapmod_status |-> i.devmapmod_status,
                    devmap_statuses |-> i.devmap_statuses]
            /\ IsList(i.devmap_statuses)
            /\ \A k \in 1 .. Len(i.devmap_statuses) :
                  LET d == i.devmap_statuses[k]
                  IN /\ d = [device_name |-> d.device_name, mapping_status |-> d.mapping_status]
                     /\ IsText(d.device_name)
      [] id = "HACCESSConfigInfo" ->
            /\ i = [doc_root |-> i.doc_root, proxy_enabled |-> i.proxy_enabled,
                    web_enabled |-> i.web_enabled, devmap_changed |-> i.devmap_changed]
            /\ IsText(i.doc_root)
      [] OTHER -> i = NULL
=============================================================================
