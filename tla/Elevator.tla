------------------------------ MODULE Elevator ------------------------------
(***************************************************************************)
(* The class Elevator: the thread that serves a car's requests             *)
(* (processRequests and moveToFloor) and the steps of the methods that     *)
(* other threads call on the car.  The module is open: it says what one    *)
(* step of a method does to the car, and a module that EXTENDS it says     *)
(* which thread takes which step when.                                     *)
(*                                                                         *)
(* A step ends where another thread could see a difference.  Reads and     *)
(* writes that commute with everything other threads do are part of the    *)
(* step next to them; README.md lists each of these merges.                *)
(***************************************************************************)
EXTENDS Dispatch, Sequences, FiniteSets

CONSTANTS
  RequestIds,   \* one name for each request that is ever created
  NoRequest     \* the thread holds no request

\* toFloor = 0 marks a call: somebody waits at fromFloor and will say later
\* where to go.
CallOnly == 0
Request == [id : RequestIds, fromFloor : Floors, toFloor : Floors \cup {CallOnly}]

ASSUME NoRequestAssumption == NoRequest \notin Request

VARIABLES
  currentFloor, destinationFloor, direction, status,   \* the atomics of a car
  emergencyStop, running,
  requests,           \* its queue, protected by its requestMutex
  pc,                 \* where its thread is
  leg,                \* the call of moveToFloor the thread is in or before
  currentRequest,     \* the thread's local copy of the request
  \* What an observer remembers; the code has no such variables.
  fate,               \* what became of each request
  boarded,            \* the car has stood at the fromFloor of currentRequest
  cut,                \* a leg of currentRequest ended before its floor
  overrun             \* floors passed since the car was told to halt

cabin == <<currentFloor, destinationFloor, direction, status>>
thread == <<pc, leg, currentRequest>>
history == <<fate, boarded, cut, overrun>>
carVars == <<cabin, emergencyStop, running, requests, thread, history>>

-----------------------------------------------------------------------------
(* "off": no thread.  "loop": about to take requestMutex.  "block": holds  *)
(* it, the predicate was false, about to sleep in requestCV.  "waiting":   *)
(* asleep in requestCV.  "ready": holds the mutex, the predicate was true. *)
(* "idling": about to set the car idle.  "depart": at the head of a leg.   *)
(* "check": at the condition of the travel loop.  "travel": asleep between *)
(* two floors.  "doors": asleep while the doors open and close.  "exited": *)
(* processRequests has returned.                                           *)
Labels == {"off", "loop", "block", "waiting", "ready", "idling", "depart",
           "check", "travel", "doors", "exited"}
Legs == {"pickup", "delivery"}
Fates == {"unused", "offered", "accepted", "rejected", "served", "abandoned"}

CarTypeOK ==
  /\ currentFloor \in [Elevators -> Floors]
  /\ destinationFloor \in [Elevators -> Floors]
  /\ direction \in [Elevators -> Direction]
  /\ status \in [Elevators -> ElevatorStatus]
  /\ emergencyStop \in [Elevators -> BOOLEAN]
  /\ running \in [Elevators -> BOOLEAN]
  /\ requests \in [Elevators -> Seq(Request)]
  /\ pc \in [Elevators -> Labels]
  /\ leg \in [Elevators -> Legs]
  /\ currentRequest \in [Elevators -> Request \cup {NoRequest}]
  /\ fate \in [RequestIds -> Fates]
  /\ boarded \in [Elevators -> BOOLEAN]
  /\ cut \in [Elevators -> BOOLEAN]
  /\ overrun \in [Elevators -> Nat]

\* The constructor; the controller creates every car at floor 1.
CarInit ==
  /\ currentFloor = [e \in Elevators |-> 1]
  /\ destinationFloor = currentFloor
  /\ direction = [e \in Elevators |-> "IDLE"]
  /\ status = [e \in Elevators |-> "IDLE"]
  /\ emergencyStop = [e \in Elevators |-> FALSE]
  /\ running = [e \in Elevators |-> FALSE]
  /\ requests = [e \in Elevators |-> <<>>]
  /\ pc = [e \in Elevators |-> "off"]
  /\ leg = [e \in Elevators |-> "pickup"]
  /\ currentRequest = [e \in Elevators |-> NoRequest]
  /\ fate = [id \in RequestIds |-> "unused"]
  /\ boarded = [e \in Elevators |-> FALSE]
  /\ cut = [e \in Elevators |-> FALSE]
  /\ overrun = [e \in Elevators |-> 0]

Halted(e) == emergencyStop[e] \/ ~running[e]
HoldsMutex(e) == pc[e] \in {"block", "ready"}

-----------------------------------------------------------------------------
(* The thread: processRequests.                                            *)

\* Both exits of the loop: the condition of the while and the test under the
\* lock.
LeaveLoop(e) ==
  /\ pc[e] \in {"loop", "ready"}
  /\ ~running[e]
  /\ pc' = [pc EXCEPT ![e] = "exited"]
  /\ UNCHANGED <<cabin, emergencyStop, running, requests, leg, currentRequest, history>>

\* The predicate of requestCV.wait.
WakeUpCondition(e) == ~running[e] \/ emergencyStop[e] \/ requests[e] # <<>>

\* Seeded fault: the predicate is not looked at before the first wait.
TakeLockWaitFirst(e) ==
  /\ pc[e] = "loop"
  /\ pc' = [pc EXCEPT ![e] = "block"]
  /\ UNCHANGED <<cabin, emergencyStop, running, requests, leg, currentRequest, history>>

\* The thread takes requestMutex (nobody else holds it for longer than one
\* step) and evaluates the predicate.
TakeLock(e) ==
  /\ pc[e] = "loop"
  /\ pc' = [pc EXCEPT ![e] = IF WakeUpCondition(e) THEN "ready" ELSE "block"]
  /\ UNCHANGED <<cabin, emergencyStop, running, requests, leg, currentRequest, history>>

\* requestCV.wait gives up the mutex and falls asleep in one step.
Block(e) ==
  /\ pc[e] = "block"
  /\ pc' = [pc EXCEPT ![e] = "waiting"]
  /\ UNCHANGED <<cabin, emergencyStop, running, requests, leg, currentRequest, history>>

\* A condition variable may wake up by itself.
SpuriousWakeup(e) ==
  /\ pc[e] = "waiting"
  /\ pc' = [pc EXCEPT ![e] = "loop"]
  /\ UNCHANGED <<cabin, emergencyStop, running, requests, leg, currentRequest, history>>

\* "Wait until emergency is cleared": the thread goes round its loop.
SpinInEmergency(e) ==
  /\ pc[e] = "ready"
  /\ running[e]
  /\ emergencyStop[e]
  /\ pc' = [pc EXCEPT ![e] = "loop"]
  /\ UNCHANGED <<cabin, emergencyStop, running, requests, leg, currentRequest, history>>

\* Seeded fault: the request is copied and not popped.
TakeRequestNoPop(e) ==
  /\ pc[e] = "ready"
  /\ running[e] /\ ~emergencyStop[e]
  /\ requests[e] # <<>>
  /\ currentRequest' = [currentRequest EXCEPT ![e] = Head(requests[e])]
  /\ boarded' = [boarded EXCEPT ![e] = currentFloor[e] = Head(requests[e]).fromFloor]
  /\ pc' = [pc EXCEPT ![e] = "depart"]
  /\ UNCHANGED <<cabin, emergencyStop, running, requests, leg, fate, cut, overrun>>

TakeRequest(e) ==
  /\ pc[e] = "ready"
  /\ running[e] /\ ~emergencyStop[e]
  /\ requests[e] # <<>>
  /\ currentRequest' = [currentRequest EXCEPT ![e] = Head(requests[e])]
  /\ requests' = [requests EXCEPT ![e] = Tail(@)]
  /\ boarded' = [boarded EXCEPT ![e] = currentFloor[e] = Head(requests[e]).fromFloor]
  /\ pc' = [pc EXCEPT ![e] = "depart"]
  /\ UNCHANGED <<cabin, emergencyStop, running, leg, fate, cut, overrun>>

\* The emergency that woke the thread is over and no request has come.
FindNothing(e) ==
  /\ pc[e] = "ready"
  /\ running[e] /\ ~emergencyStop[e]
  /\ requests[e] = <<>>
  /\ pc' = [pc EXCEPT ![e] = "idling"]
  /\ UNCHANGED <<cabin, emergencyStop, running, requests, leg, currentRequest, history>>

SetIdle(e) ==
  /\ pc[e] = "idling"
  /\ direction' = [direction EXCEPT ![e] = "IDLE"]
  /\ status' = [status EXCEPT ![e] = "IDLE"]
  /\ pc' = [pc EXCEPT ![e] = "loop"]
  /\ UNCHANGED <<currentFloor, destinationFloor, emergencyStop, running, requests,
                 leg, currentRequest, history>>

-----------------------------------------------------------------------------
(* The thread: moveToFloor, once for the pickup and once for the delivery. *)

LegFloor(e) ==
  IF leg[e] = "pickup" THEN currentRequest[e].fromFloor ELSE currentRequest[e].toFloor

\* Seeded fault: the car takes the floor it was last bound for as the floor where
\* it stands, although that trip may have been broken off.
IsThereByDestination(e) == LegFloor(e) = destinationFloor[e]

\* The tests before and in moveToFloor: there is nothing to travel.
IsThere(e) == LegFloor(e) = currentFloor[e]

\* What follows the last statement of a leg; broken says that it ended before
\* its floor.  A call has no delivery leg.
EndLeg(e, broken) ==
  LET whole == ~broken /\ ~cut[e]
  IN  IF leg[e] = "pickup" /\ currentRequest[e].toFloor # CallOnly
      THEN /\ leg' = [leg EXCEPT ![e] = "delivery"]
           /\ pc' = [pc EXCEPT ![e] = "depart"]
           /\ cut' = [cut EXCEPT ![e] = ~whole]
           /\ UNCHANGED <<currentRequest, fate, boarded>>
      ELSE /\ leg' = [leg EXCEPT ![e] = "pickup"]
           /\ pc' = [pc EXCEPT ![e] = "loop"]
           /\ currentRequest' = [currentRequest EXCEPT ![e] = NoRequest]
           /\ fate' = [fate EXCEPT ![currentRequest[e].id] =
                                     IF whole THEN "served" ELSE "abandoned"]
           /\ boarded' = [boarded EXCEPT ![e] = FALSE]
           /\ cut' = [cut EXCEPT ![e] = FALSE]

\* The car is already there: no movement and no doors.
AlreadyThere(e) ==
  /\ pc[e] = "depart"
  /\ IsThere(e)
  /\ EndLeg(e, FALSE)
  /\ UNCHANGED <<cabin, emergencyStop, running, requests, overrun>>

\* Seeded fault: the direction of the previous leg is kept.
SetOffKeepDirection(e) ==
  /\ pc[e] = "depart"
  /\ ~IsThere(e)
  /\ direction' = [direction EXCEPT ![e] =
       IF @ # "IDLE" THEN @ ELSE IF LegFloor(e) > currentFloor[e] THEN "UP" ELSE "DOWN"]
  /\ status' = [status EXCEPT ![e] = "MOVING"]
  /\ destinationFloor' = [destinationFloor EXCEPT ![e] = LegFloor(e)]
  /\ pc' = [pc EXCEPT ![e] = "check"]
  /\ UNCHANGED <<currentFloor, emergencyStop, running, requests, leg, currentRequest,
                 history>>

SetOff(e) ==
  /\ pc[e] = "depart"
  /\ ~IsThere(e)
  /\ direction' = [direction EXCEPT ![e] =
                     IF LegFloor(e) > currentFloor[e] THEN "UP" ELSE "DOWN"]
  /\ status' = [status EXCEPT ![e] = "MOVING"]
  /\ destinationFloor' = [destinationFloor EXCEPT ![e] = LegFloor(e)]
  /\ pc' = [pc EXCEPT ![e] = "check"]
  /\ UNCHANGED <<currentFloor, emergencyStop, running, requests, leg, currentRequest,
                 history>>

KeepTravelling(e) ==
  /\ pc[e] = "check"
  /\ ~Halted(e)
  /\ pc' = [pc EXCEPT ![e] = "travel"]
  /\ UNCHANGED <<cabin, emergencyStop, running, requests, leg, currentRequest, history>>

\* The travel loop ends on an emergency stop or on stop(), short of the floor.
BreakOff(e) ==
  /\ pc[e] = "check"
  /\ Halted(e)
  /\ EndLeg(e, TRUE)
  /\ UNCHANGED <<cabin, emergencyStop, running, requests, overrun>>

NextFloor(e) == IF direction[e] = "UP" THEN currentFloor[e] + 1 ELSE currentFloor[e] - 1

\* Seeded fault: the car goes on to the next floor without looking at the
\* flags again.
MoveOneFloorNoCheck(e) ==
  /\ pc[e] = "travel"
  /\ currentFloor' = [currentFloor EXCEPT ![e] = NextFloor(e)]
  /\ overrun' = [overrun EXCEPT ![e] = IF Halted(e) THEN @ + 1 ELSE @]
  /\ IF NextFloor(e) = LegFloor(e)
     THEN /\ status' = [status EXCEPT ![e] = "STOPPED"]
          /\ boarded' = [boarded EXCEPT ![e] = @ \/ leg[e] = "pickup"]
          /\ pc' = [pc EXCEPT ![e] = "doors"]
     ELSE UNCHANGED <<status, boarded, pc>>
  /\ UNCHANGED <<destinationFloor, direction, emergencyStop, running, requests,
                 leg, currentRequest, fate, cut>>

\* One second has passed: the car is at the next floor.
MoveOneFloor(e) ==
  /\ pc[e] = "travel"
  /\ currentFloor' = [currentFloor EXCEPT ![e] = NextFloor(e)]
  /\ overrun' = [overrun EXCEPT ![e] = IF Halted(e) THEN @ + 1 ELSE @]
  /\ IF NextFloor(e) = LegFloor(e)
     THEN /\ status' = [status EXCEPT ![e] = "STOPPED"]
          /\ boarded' = [boarded EXCEPT ![e] = @ \/ leg[e] = "pickup"]
          /\ pc' = [pc EXCEPT ![e] = "doors"]
     ELSE /\ pc' = [pc EXCEPT ![e] = "check"]
          /\ UNCHANGED <<status, boarded>>
  /\ UNCHANGED <<destinationFloor, direction, emergencyStop, running, requests,
                 leg, currentRequest, fate, cut>>

\* The doors have opened and closed; the travel loop ends at its floor.
CloseDoors(e) ==
  /\ pc[e] = "doors"
  /\ direction' = [direction EXCEPT ![e] = "IDLE"]
  /\ status' = [status EXCEPT ![e] = "IDLE"]
  /\ EndLeg(e, FALSE)
  /\ UNCHANGED <<currentFloor, destinationFloor, emergencyStop, running, requests,
                 overrun>>

MoveToFloor(e) ==
  AlreadyThere(e) \/ SetOff(e) \/ KeepTravelling(e) \/ BreakOff(e)
    \/ MoveOneFloor(e) \/ CloseDoors(e)

\* Everything the thread does of its own accord.  A spurious wakeup is not
\* among it: nothing guarantees one.
ThreadStep(e) ==
  \/ LeaveLoop(e) \/ TakeLock(e) \/ Block(e) \/ SpinInEmergency(e)
  \/ TakeRequest(e) \/ FindNothing(e) \/ SetIdle(e)
  \/ MoveToFloor(e)

-----------------------------------------------------------------------------
(* Steps of the methods that other threads call.                           *)

\* notify_one and notify_all: only the car's own thread waits on requestCV.
\* The woken thread evaluates the predicate under the mutex again.
Wake(e) == pc' = [pc EXCEPT ![e] = IF @ = "waiting" THEN "loop" ELSE @]

\* start(): a car that runs is left alone.
Start(e) ==
  /\ ~running[e]
  /\ running' = [running EXCEPT ![e] = TRUE]
  /\ pc' = [pc EXCEPT ![e] = "loop"]
  /\ overrun' = [overrun EXCEPT ![e] = 0]
  /\ UNCHANGED <<cabin, emergencyStop, requests, leg, currentRequest, fate, boarded, cut>>

\* stop(), first statement after its early return; notify_all comes next, then
\* the join.
LowerRunning(e) ==
  /\ running[e]
  /\ running' = [running EXCEPT ![e] = FALSE]
  /\ UNCHANGED <<cabin, emergencyStop, requests, thread, history>>

Notify(e) ==
  /\ Wake(e)
  /\ UNCHANGED <<cabin, emergencyStop, running, requests, leg, currentRequest, history>>

\* emergencyStopActivate(): the flag, then the status and notify_all.
RaiseFlag(e) ==
  /\ emergencyStop' = [emergencyStop EXCEPT ![e] = TRUE]
  /\ UNCHANGED <<cabin, running, requests, thread, history>>

RaiseStatus(e) ==
  /\ status' = [status EXCEPT ![e] = "EMERGENCY"]
  /\ Wake(e)
  /\ UNCHANGED <<currentFloor, destinationFloor, direction, emergencyStop, running,
                 requests, leg, currentRequest, history>>

\* emergencyStopRelease(): the flag, then the status.  Nobody is notified.
DropFlag(e) ==
  /\ emergencyStop' = [emergencyStop EXCEPT ![e] = FALSE]
  /\ overrun' = [overrun EXCEPT ![e] = IF running[e] THEN 0 ELSE @]
  /\ UNCHANGED <<cabin, running, requests, thread, fate, boarded, cut>>

\* Seeded fault: the release also clears the direction, although the thread
\* may be between two floors.
DropStatusAndDirection(e) ==
  /\ status' = [status EXCEPT ![e] = "IDLE"]
  /\ direction' = [direction EXCEPT ![e] = "IDLE"]
  /\ UNCHANGED <<currentFloor, destinationFloor, emergencyStop, running,
                 requests, thread, history>>

DropStatus(e) ==
  /\ status' = [status EXCEPT ![e] = "IDLE"]
  /\ UNCHANGED <<currentFloor, destinationFloor, direction, emergencyStop, running,
                 requests, thread, history>>

\* addRequest(), second half: the push under requestMutex; notify_one follows.
Push(e, request) ==
  /\ ~HoldsMutex(e)
  /\ requests' = [requests EXCEPT ![e] = Append(@, request)]
  /\ fate' = [fate EXCEPT ![request.id] = "accepted"]
  /\ UNCHANGED <<cabin, emergencyStop, running, thread, boarded, cut, overrun>>

-----------------------------------------------------------------------------
Busy(e) == pc[e] \in {"depart", "check", "travel", "doors"}

\* Between two floors a car heads for the floor of its leg, whatever the
\* threads that raise and clear the emergency do to its status meanwhile, and
\* it opens its doors at that floor only.  The travel loop of moveToFloor
\* (Elevator.cpp:125-146) compares for equality and would never end otherwise.
OnCourse ==
  \A e \in Elevators :
    /\ pc[e] \in {"check", "travel"} =>
         /\ destinationFloor[e] = LegFloor(e)
         /\ direction[e] = "UP" => currentFloor[e] < LegFloor(e)
         /\ direction[e] = "DOWN" => currentFloor[e] > LegFloor(e)
         /\ direction[e] # "IDLE"
    /\ pc[e] = "doors" =>
         destinationFloor[e] = LegFloor(e) /\ currentFloor[e] = LegFloor(e)

InHand(e, id) == currentRequest[e] # NoRequest /\ currentRequest[e].id = id
InQueue(e, i, id) == i \in DOMAIN requests[e] /\ requests[e][i].id = id
Holds(e, id) == InHand(e, id) \/ \E i \in DOMAIN requests[e] : InQueue(e, i, id)

AtMostOnce(id) ==
  \A e, f \in Elevators :
    /\ InHand(e, id) /\ InHand(f, id) => e = f
    /\ \A i \in DOMAIN requests[e] : ~(InQueue(e, i, id) /\ InHand(f, id))
    /\ \A i \in DOMAIN requests[e], j \in DOMAIN requests[f] :
         InQueue(e, i, id) /\ InQueue(f, j, id) => e = f /\ i = j

\* A request that addRequest (Elevator.cpp:55-67) has accepted is in exactly
\* one place, the queue of a car or the hand of its thread, until it is served
\* or given up; the others are nowhere.
EachAcceptedOnce ==
  \A id \in RequestIds :
    /\ fate[id] = "accepted" <=> \E e \in Elevators : Holds(e, id)
    /\ AtMostOnce(id)
=============================================================================
