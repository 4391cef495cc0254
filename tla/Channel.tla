------------------------------ MODULE Channel ------------------------------
(***************************************************************************)
(* What the messaging library promises to the two programs that use it:    *)
(* in each direction, what is handed to the receiving program is what was  *)
(* sent, complete, in order and once.  A connection that ends takes what   *)
(* was under way with it.                                                  *)
(***************************************************************************)
EXTENDS Naturals, Sequences, SequencesExt

CONSTANT Side

VARIABLES
    accepted,   \* by sender: what was given to the channel
    delivered   \* by sender: what the other side was given

vars == <<accepted, delivered>>

Empty == [s \in Side |-> <<>>]

Init == accepted = Empty /\ delivered = Empty

Send(s) ==
    /\ Len(accepted'[s]) = Len(accepted[s]) + 1
    /\ accepted' = [accepted EXCEPT ![s] = Append(@, Last(accepted'[s]))]
    /\ UNCHANGED delivered

Deliver(s) ==
    LET n == Len(delivered[s]) + 1
    IN /\ n \in DOMAIN accepted[s]
       /\ delivered' = [delivered EXCEPT ![s] = Append(@, accepted[s][n])]
       /\ UNCHANGED accepted

Reconnect == accepted' = Empty /\ delivered' = Empty

Next == Reconnect \/ \E s \in Side : Send(s) \/ Deliver(s)

Spec == Init /\ [][Next]_vars
=============================================================================
