--------------------------- MODULE MCAndroidClient ---------------------------
(***************************************************************************)
(* Instances of AndroidClient for TLC: two native threads, so that the     *)
(* application is started, stopped and started again, early and late; two  *)
(* questions, so that an answer may come late for the first.               *)
(***************************************************************************)
EXTENDS AndroidClient

CONSTANTS t1, t2

MCThreads == {t1, t2}
==============================================================================
