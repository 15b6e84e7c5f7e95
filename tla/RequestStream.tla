--------------------------- MODULE RequestStream ---------------------------
(***************************************************************************)
(* What the application is promised of the requests of a target: each is   *)
(* handed over at most once and in the order it was sent.  Requests may be *)
(* lost, when a connection breaks or a call discards them.                 *)
(***************************************************************************)
EXTENDS Naturals

CONSTANT MaxRequests    \* bound: requests the target sends in a run

VARIABLES
  sent,   \* number of the last request sent
  held,   \* the requests sent that can still be handed over
  last    \* number of the last request handed over

vars == <<sent, held, last>>

Init == sent = 0 /\ held = {} /\ last = 0

Send ==
  /\ sent < MaxRequests
  /\ sent' = sent + 1 /\ held' = held \cup {sent + 1}
  /\ UNCHANGED last

HandOver ==
  /\ \E id \in held :
       /\ \A other \in held : id <= other
       /\ held' = held \ {id}
       /\ last' = id
  /\ UNCHANGED sent

Lose ==
  /\ held' \in SUBSET held
  /\ UNCHANGED <<sent, last>>

Next == Send \/ HandOver \/ Lose

Spec == Init /\ [][Next]_vars

=============================================================================
