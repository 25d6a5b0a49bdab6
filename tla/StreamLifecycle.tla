--------------------------- MODULE StreamLifecycle ---------------------------
(***************************************************************************)
(* What the relay promises of the streams it lists, with no mutex and no   *)
(* connection in sight.  A stream is listed under one name, once, where no *)
(* other is listed; it may be taken off the list, at any time and by       *)
(* anybody; only then does it lose its publisher, and only who lost his    *)
(* publisher is told that his stream is over.  RelayService implements it. *)
(***************************************************************************)
EXTENDS Naturals

CONSTANT Keys    \* the names

VARIABLES
    made,      \* how many streams there were: they are numbered from 1
    listed,    \* the stream of each name, 0 if there is none
    ended,     \* the streams without a publisher
    told       \* those of which that was announced

streamVars == <<made, listed, ended, told>>

StreamInit ==
    /\ made = 0
    /\ listed = [k \in Keys |-> 0]
    /\ ended = {} /\ told = {}

List(k) ==
    /\ listed[k] = 0
    /\ made' = made + 1
    /\ listed' = [listed EXCEPT ![k] = made + 1]
    /\ UNCHANGED <<ended, told>>

Unlist(k) ==
    /\ listed[k] # 0
    /\ listed' = [listed EXCEPT ![k] = 0]
    /\ UNCHANGED <<made, ended, told>>

\* The publisher is let go, and those who watch him may learn of it at once.
End(p) ==
    /\ p \notin ended /\ \A k \in Keys : listed[k] # p
    /\ ended' = ended \cup {p}
    /\ told' \in {told, told \cup {p}}
    /\ UNCHANGED <<made, listed>>

Tell(p) ==
    /\ p \in ended
    /\ told' = told \cup {p}
    /\ UNCHANGED <<made, listed, ended>>

StreamNext ==
    \/ \E k \in Keys : List(k) \/ Unlist(k)
    \/ \E p \in 1..made : End(p) \/ Tell(p)

StreamSpec == StreamInit /\ [][StreamNext]_streamVars
=============================================================================
