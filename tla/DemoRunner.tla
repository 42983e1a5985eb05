----------------------------- MODULE DemoRunner -----------------------------
(***************************************************************************)
(* The steps of the class DemoRunner: which calls of the controller each   *)
(* of them may make.  A step draws floors at random and goes through a     *)
(* copy of the cars' statuses; the calls below are those it may make on    *)
(* account of one draw or of one car.  Who plays the steps, and when, is   *)
(* in UserInterface.tla.                                                   *)
(***************************************************************************)
EXTENDS Integers

CONSTANTS
  NumFloors,
  HighestFloor   \* of any car whose row is in the database

ASSUME DemoFloorsAssumption == NumFloors \in Nat /\ NumFloors >= 2
ASSUME HighestFloorAssumption == HighestFloor \in Nat /\ HighestFloor >= NumFloors

Floors == 1..NumFloors
CallOnly == 0   \* toFloor of a call

\* What a step sees of a car.  One that has been taken over from a row of the
\* database stands where the row says, which may be above this building
\* (DatabaseSync.tla).
CarStatus ==
  [currentFloor : 1..HighestFloor, status : {"IDLE", "MOVING", "STOPPED", "EMERGENCY"}]

AddRequest(fromFloor, toFloor, direction) == <<"addRequest", fromFloor, toFloor, direction>>
Towards(fromFloor, toFloor) == IF toFloor > fromFloor THEN "UP" ELSE "DOWN"
Trip(fromFloor, toFloor) == AddRequest(fromFloor, toFloor, Towards(fromFloor, toFloor))

Available(car) == car.status \in {"IDLE", "STOPPED"}
UpperFloors == (NumFloors \div 2)..NumFloors

\* Seeded fault: the top floor is not tested.
NextFloorUp(floor) == floor + 1

NextFloor(floor) == IF floor < NumFloors THEN floor + 1 ELSE floor - 1

-----------------------------------------------------------------------------
(* The steps in their order.                                               *)

CallToThree == {AddRequest(3, CallOnly, "UP")}
ThreeToEight == {AddRequest(3, 8, "UP")}
CallEverywhere == {AddRequest(f, CallOnly, IF f > 1 THEN "DOWN" ELSE "UP") : f \in Floors}

SendEveryCar(car) ==
  IF Available(car)
  THEN {Trip(car.currentFloor, f) : f \in Floors \ {car.currentFloor}} ELSE {}

StopWhileMoving(car) ==
  (IF car.status = "IDLE" THEN {Trip(car.currentFloor, NextFloor(car.currentFloor))} ELSE {})
  \cup {<<"emergencyStop">>}

Release == {<<"releaseEmergencyStop">>}

UpPeak(car) ==
  {AddRequest(1, CallOnly, "UP")} \cup
  (IF car.currentFloor = 1 THEN {AddRequest(1, f, "UP") : f \in UpperFloors} ELSE {})

DownPeak(car) ==
  {AddRequest(f, CallOnly, "DOWN") : f \in UpperFloors} \cup
  (IF car.currentFloor > NumFloors \div 2
   THEN {AddRequest(car.currentFloor, 1, "DOWN")} ELSE {})

StressTest ==
  {AddRequest(p[1], CallOnly, Towards(p[1], p[2])) : p \in {q \in Floors \X Floors : q[1] # q[2]}}

BackToGround(car) ==
  IF car.currentFloor # 1 THEN {AddRequest(car.currentFloor, 1, "DOWN")} ELSE {}

\* demoSteps, for a step that looks at this car.
DemoSteps(car) ==
  <<CallToThree, ThreeToEight, CallEverywhere, SendEveryCar(car), StopWhileMoving(car),
    Release, UpPeak(car), DownPeak(car), StressTest, BackToGround(car)>>

NumSteps == 10
Calls(step, car) == DemoSteps(car)[step]

-----------------------------------------------------------------------------
\* The controller takes the request, and its passengers can go where it says.
Sensible(call) ==
  call[1] = "addRequest" =>
    LET fromFloor == call[2]  toFloor == call[3]  direction == call[4] IN
    /\ fromFloor \in Floors
    /\ toFloor \in Floors \cup {CallOnly}
    /\ direction = "UP" => fromFloor < (IF toFloor = CallOnly THEN NumFloors ELSE toFloor)
    /\ direction = "DOWN" => fromFloor > (IF toFloor = CallOnly THEN 1 ELSE toFloor)

\* The request begins at this car, outside the building: addRequest drops it.
BeginsOutside(call, car) ==
  /\ call[1] = "addRequest"
  /\ call[2] = car.currentFloor /\ car.currentFloor \notin Floors
=============================================================================
