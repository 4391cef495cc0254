---------------------------- MODULE MCMessaging ----------------------------
(***************************************************************************)
(* A small instance of Messaging: packets of four cells, so that a request *)
(* takes one and a list of two brokers two; the pipe holds one such list.  *)
(***************************************************************************)
EXTENDS Messaging

CONSTANTS a, b, near, far, yes, no

Brokers == <<[szAddress |-> <<a>>, nDistance |-> near], [szAddress |-> <<b>>, nDistance |-> far]>>
Config == [doc_root |-> NULL, proxy_enabled |-> yes, web_enabled |-> no, devmap_changed |-> no]

Status == [eStatus |-> yes, nStatus |-> no]
StatusInfo == Message("StatusInfo", Send_StatusInfo(Status), Status)
BrokerListRequest == Message("BrokerListRequest", Send_Request("BrokerListRequest"), NULL)
BrokerList == Message("BrokerList", Send_BrokerList(Brokers), Brokers)
ConfigInfo == Message("HACCESSConfigInfo", Send_HACCESSConfigInfo(Config), Config)

MCPostings == [s \in Side |-> IF s = "client" THEN {StatusInfo} ELSE {BrokerListRequest, ConfigInfo}]
MCMaxPosts == [s \in Side |-> IF s = "client" THEN 1 ELSE 2]
MCAnswers == "BrokerListRequest" :> {BrokerList}
=============================================================================
