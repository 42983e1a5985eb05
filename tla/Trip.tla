-------------------------------- MODULE Trip --------------------------------
(***************************************************************************)
(* What a car promises about its travels: it sets off for one floor, comes *)
(* one floor closer with every step, and stops moving only there or where  *)
(* it gives the trip up, which it does sooner or later.  Nothing is said   *)
(* of requests, threads or flags.                                          *)
(***************************************************************************)
EXTENDS Integers

CONSTANTS Cars, Storeys

\* Storeys are numbered from 1: none of them is Nowhere.
Nowhere == 0

VARIABLES
  floor,   \* where each car is
  goal     \* where it is going, or Nowhere

vars == <<floor, goal>>

Init ==
  /\ floor \in [Cars -> Storeys]
  /\ goal = [c \in Cars |-> Nowhere]

SetOff(c) ==
  /\ goal[c] = Nowhere
  /\ \E s \in Storeys \ {floor[c]} : goal' = [goal EXCEPT ![c] = s]
  /\ UNCHANGED floor

Closer(f, g) == IF g > f THEN f + 1 ELSE f - 1

Advance(c) ==
  /\ goal[c] \notin {Nowhere, floor[c]}
  /\ floor' = [floor EXCEPT ![c] = Closer(floor[c], goal[c])]
  /\ UNCHANGED goal

\* At the goal, or short of it.
EndTrip(c) ==
  /\ goal[c] # Nowhere
  /\ goal' = [goal EXCEPT ![c] = Nowhere]
  /\ UNCHANGED floor

Next == \E c \in Cars : SetOff(c) \/ Advance(c) \/ EndTrip(c)

Spec ==
  /\ Init /\ [][Next]_vars
  /\ \A c \in Cars : WF_vars(Advance(c) \/ EndTrip(c))
=============================================================================
