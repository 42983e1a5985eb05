--------------------------- MODULE RequestService ---------------------------
(***************************************************************************)
(* What the simulator promises about a request, whatever threads and       *)
(* queues it is made of: it is pending from the moment it is asked for, it *)
(* is given to one car at most and stays with that car until it is over,   *)
(* and what is over never comes back.                                      *)
(***************************************************************************)
CONSTANTS RequestNames, Cars

VARIABLE place   \* where each request is
Unasked == <<"unasked">>
Pending == <<"pending">>
With(c) == <<"with", c>>
Over == <<"over">>

Init == place = [r \in RequestNames |-> Unasked]

Moves(r, from, to) ==
  /\ place[r] = from
  /\ place' = [place EXCEPT ![r] = to]

Ask(r) == Moves(r, Unasked, Pending)
Assign(r) == \E c \in Cars : Moves(r, Pending, With(c))
Refuse(r) == Moves(r, Pending, Over)
Finish(r) == \E c \in Cars : Moves(r, With(c), Over)

Next == \E r \in RequestNames : Ask(r) \/ Assign(r) \/ Refuse(r) \/ Finish(r)

Spec == Init /\ [][Next]_place
=============================================================================
