------------------------------ MODULE Dispatch ------------------------------
(***************************************************************************)
(* The arithmetic of choosing a car: Elevator::calculateDistance and one   *)
(* iteration of the loop of ElevatorController::findBestElevator, as       *)
(* operators on what the dispatcher reads of a car (a Snapshot).           *)
(***************************************************************************)
EXTENDS Integers

CONSTANTS
  NumFloors,     \* numFloors: floors are numbered from 1
  NumElevators   \* elevators.size(): cars are numbered from 0, as in the vector

\* main.cpp rejects fewer than two floors and fewer than one elevator.
ASSUME FloorsAssumption == NumFloors \in Nat /\ NumFloors >= 2
ASSUME ElevatorsAssumption == NumElevators \in Nat /\ NumElevators >= 1

Floors == 1..NumFloors
Elevators == 0..(NumElevators - 1)

Direction == {"IDLE", "UP", "DOWN"}
ElevatorStatus == {"IDLE", "MOVING", "STOPPED", "EMERGENCY"}

Snapshot == [floor : Floors, direction : Direction,
             status : ElevatorStatus, emergencyStop : BOOLEAN]

FloorsBetween(a, b) == IF a >= b THEN a - b ELSE b - a

MovingAway(car, floor) ==
  /\ car.status = "MOVING"
  /\ \/ car.direction = "UP" /\ floor < car.floor
     \/ car.direction = "DOWN" /\ floor > car.floor

\* Seeded fault: the penalty for a car on its way elsewhere is forgotten.
CalculateDistanceNoPenalty(car, floor) ==
  FloorsBetween(car.floor, floor)

CalculateDistance(car, floor) ==
  FloorsBetween(car.floor, floor)
    + (IF MovingAway(car, floor) THEN 2 * (NumFloors - 1) ELSE 0)

\* Seeded fault: the advantage of an idle car is one floor too small.
CostBonusTooSmall(car, floor) ==
  CalculateDistance(car, floor)
    - (IF car.status = "IDLE" THEN NumFloors - 1 ELSE 0)

Cost(car, floor) ==
  CalculateDistance(car, floor)
    - (IF car.status = "IDLE" THEN NumFloors ELSE 0)

-----------------------------------------------------------------------------
\* bestElevator and shortestDistance.  nullptr is NoCar; while it is NoCar,
\* shortestDistance is INT_MAX, above every cost.
NoCar == -1
EmptyScan == [best |-> NoCar, shortest |-> 0]

\* Seeded fault: a tie goes to the later car.
BetterOrEqual(scan, car, floor) ==
  /\ ~car.emergencyStop
  /\ scan.best = NoCar \/ Cost(car, floor) <= scan.shortest

Better(scan, car, floor) ==
  /\ ~car.emergencyStop
  /\ scan.best = NoCar \/ Cost(car, floor) < scan.shortest

\* Seeded fault: the cars are counted from 1.
ConsiderFromOne(scan, e, car, floor) ==
  IF Better(scan, car, floor)
  THEN [best |-> e + 1, shortest |-> Cost(car, floor)]
  ELSE scan

Consider(scan, e, car, floor) ==
  IF Better(scan, car, floor)
  THEN [best |-> e, shortest |-> Cost(car, floor)]
  ELSE scan
=============================================================================
