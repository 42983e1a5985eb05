---------------------------- MODULE DispatchScan ----------------------------
(***************************************************************************)
(* ElevatorController::findBestElevator as a loop over the cars: each      *)
(* iteration reads the next car as it is at that moment.  The cars move,   *)
(* become busy and are stopped while the loop runs, so what it has read of *)
(* them need never have held at one instant.  The properties compare the   *)
(* loop's answer with a definition of the best car that does not mention   *)
(* the loop.                                                               *)
(***************************************************************************)
EXTENDS Dispatch

VARIABLES
  fleet,   \* what the loop has read: fleet[e] for every car e it has passed
  floor,   \* request.fromFloor
  next,    \* the loop's position in the vector
  scan     \* bestElevator and shortestDistance

vars == <<fleet, floor, next, scan>>

TypeOK ==
  /\ next \in 0..NumElevators
  /\ fleet \in [0..(next - 1) -> Snapshot]
  /\ floor \in Floors
  /\ scan \in [best : Elevators \cup {NoCar}, shortest : Int]

Init ==
  /\ fleet = << >>
  /\ floor \in Floors
  /\ next = 0
  /\ scan = EmptyScan

Iterate ==
  /\ next < NumElevators
  /\ \E car \in Snapshot :
       /\ fleet' = [e \in 0..next |-> IF e = next THEN car ELSE fleet[e]]
       /\ scan' = Consider(scan, next, car, floor)
  /\ next' = next + 1
  /\ UNCHANGED floor

Next == Iterate

Spec == Init /\ [][Next]_vars

-----------------------------------------------------------------------------
Done == next = NumElevators

\* The cars that could be chosen, of those the loop has passed.
Available == {e \in DOMAIN fleet : ~fleet[e].emergencyStop}
CostOf(e) == Cost(fleet[e], floor)

\* e is what findBestElevator should return: no car when all are stopped,
\* otherwise the first of the available cars of least cost.
IsBest(e) ==
  IF Available = {}
  THEN e = NoCar
  ELSE /\ e \in Available
       /\ \A f \in Available : CostOf(e) <= CostOf(f)
       /\ \A f \in Available : CostOf(f) = CostOf(e) => e <= f

\* The answer so far is the best of the cars passed so far: the inductive
\* strengthening of PicksCheapestCar.
ScanInvariant ==
  /\ IsBest(scan.best)
  /\ scan.best # NoCar => scan.shortest = CostOf(scan.best)

\* The loop of findBestElevator (ElevatorController.cpp:188-213) returns a
\* cheapest car that is not stopped, the one with the lowest id among equals
\* (docs/Design.md:27), and no car only when every car is stopped.
PicksCheapestCar == Done => IsBest(scan.best)

\* However far away it is, an idle car is preferred to every busy one: the
\* advantage of numFloors (ElevatorController.cpp:202) exceeds the greatest
\* distance by exactly one floor, and a STOPPED car at the very floor of the
\* call still costs more.
IdleCarFirst ==
  (Done /\ \E e \in Available : fleet[e].status = "IDLE")
    => fleet[scan.best].status = "IDLE"

\* A car that is moving away from the call is chosen only when every car that
\* could be chosen is moving away: the penalty of calculateDistance
\* (Elevator.cpp:185) outweighs any difference of distance.
AwayCarLast ==
  (Done /\ scan.best # NoCar /\ MovingAway(fleet[scan.best], floor))
    => \A e \in Available : MovingAway(fleet[e], floor)

\* What docs/Design.md:26 says: "The elevator with the shortest distance is
\* assigned to handle the request."  The penalty and the idle advantage make
\* the code choose otherwise.
NearestCarAssigned ==
  (Done /\ scan.best # NoCar)
    => \A e \in Available :
         FloorsBetween(fleet[scan.best].floor, floor)
           <= FloorsBetween(fleet[e].floor, floor)
=============================================================================
