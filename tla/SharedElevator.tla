--------------------------- MODULE SharedElevator ---------------------------
(***************************************************************************)
(* Elevator objects called by several threads at once, as the dispatcher,  *)
(* the user interface, the connection handlers of the server and main do.  *)
(* A caller is in at most one method at a time; what it does next is not   *)
(* constrained, except that start and stop are the owner's: two threads in *)
(* stop would join the same thread twice.                                  *)
(***************************************************************************)
EXTENDS Elevator

CONSTANTS
  Callers,   \* threads that call the methods of the cars
  Owner      \* the one that also starts and stops them

ASSUME OwnerAssumption == Owner \in Callers

VARIABLE call   \* what each caller is in the middle of

vars == <<carVars, call>>

(* "admitted": addRequest has seen no emergency.  "pushed": it is before   *)
(* notify_one.  "flagged": emergencyStopActivate has set the flag.         *)
(* "cleared": emergencyStopRelease has reset it.  "lowered": stop has      *)
(* reset running.  "joining": stop waits for the thread.                   *)
Operations == {"idle", "admitted", "pushed", "flagged", "cleared", "lowered", "joining"}
Call == [op : Operations, car : Elevators, request : Request \cup {NoRequest}]

Idle == [op |-> "idle", car |-> 0, request |-> NoRequest]
In(op, e) == [op |-> op, car |-> e, request |-> NoRequest]
Adding(op, e, request) == [op |-> op, car |-> e, request |-> request]

TypeOK == CarTypeOK /\ call \in [Callers -> Call]

Init == CarInit /\ call = [c \in Callers |-> Idle]

Becomes(c, what) == call' = [call EXCEPT ![c] = what]

-----------------------------------------------------------------------------
StartCar(c, e) ==
  /\ c = Owner /\ call[c] = Idle
  /\ Start(e)
  /\ UNCHANGED call

\* addRequest, its first test.
Submit(c, e, request) ==
  /\ call[c] = Idle
  /\ fate[request.id] = "unused"
  /\ fate' = [fate EXCEPT ![request.id] = IF emergencyStop[e] THEN "rejected" ELSE "offered"]
  /\ IF emergencyStop[e] THEN UNCHANGED call ELSE Becomes(c, Adding("admitted", e, request))
  /\ UNCHANGED <<cabin, emergencyStop, running, requests, thread, boarded, cut, overrun>>

PushRequest(c) ==
  /\ call[c].op = "admitted"
  /\ Push(call[c].car, call[c].request)
  /\ Becomes(c, [call[c] EXCEPT !.op = "pushed"])

\* Seeded fault: addRequest returns without notifying.
NotifyNewRequestForgotten(c) ==
  /\ call[c].op = "pushed"
  /\ Becomes(c, Idle)
  /\ UNCHANGED carVars

NotifyNewRequest(c) ==
  /\ call[c].op = "pushed"
  /\ Notify(call[c].car)
  /\ Becomes(c, Idle)

ActivateEmergency(c, e) ==
  /\ call[c] = Idle
  /\ RaiseFlag(e)
  /\ Becomes(c, In("flagged", e))

FinishActivation(c) ==
  /\ call[c].op = "flagged"
  /\ RaiseStatus(call[c].car)
  /\ Becomes(c, Idle)

ReleaseEmergency(c, e) ==
  /\ call[c] = Idle
  /\ DropFlag(e)
  /\ Becomes(c, In("cleared", e))

FinishRelease(c) ==
  /\ call[c].op = "cleared"
  /\ DropStatus(call[c].car)
  /\ Becomes(c, Idle)

StopCar(c, e) ==
  /\ c = Owner /\ call[c] = Idle
  /\ LowerRunning(e)
  /\ Becomes(c, In("lowered", e))

NotifyStop(c) ==
  /\ call[c].op = "lowered"
  /\ Notify(call[c].car)
  /\ Becomes(c, In("joining", call[c].car))

\* Seeded fault: stop() returns without joining the thread.
JoinForgotten(c) ==
  /\ call[c].op = "joining"
  /\ Becomes(c, Idle)
  /\ UNCHANGED carVars

Join(c) ==
  /\ call[c].op = "joining"
  /\ pc[call[c].car] = "exited"
  /\ Becomes(c, Idle)
  /\ UNCHANGED carVars

\* The rest of a method, once it is called.
ContinueCall(c) ==
  \/ PushRequest(c) \/ NotifyNewRequest(c) \/ FinishActivation(c)
  \/ FinishRelease(c) \/ NotifyStop(c) \/ Join(c)

NewCall(c, e) ==
  \/ StartCar(c, e) \/ StopCar(c, e)
  \/ \E request \in Request : Submit(c, e, request)
  \/ ActivateEmergency(c, e) \/ ReleaseEmergency(c, e)

CarStep(e) == ThreadStep(e) /\ UNCHANGED call
WakesByItself(e) == SpuriousWakeup(e) /\ UNCHANGED call

Next ==
  \/ \E e \in Elevators : CarStep(e) \/ WakesByItself(e)
  \/ \E c \in Callers : ContinueCall(c) \/ \E e \in Elevators : NewCall(c, e)

Spec == Init /\ [][Next]_vars

\* Every thread is scheduled.  Nobody is obliged to call a method, no condition
\* variable to wake up by itself, and no mutex to be fair: a caller may wait
\* for requestMutex for ever while the car takes it again and again.
Fairness ==
  /\ \A e \in Elevators : WF_vars(CarStep(e))
  /\ \A c \in Callers : WF_vars(ContinueCall(c))

FairSpec == Spec /\ Fairness

-----------------------------------------------------------------------------
\* From the moment the emergency flag is set or stop() is called until it is
\* cleared, a car passes one more floor at most (docs/Design.md:69 "checks this
\* flag regularly and stops movement when it's set").
BrakesWithinOneFloor == \A e \in Elevators : overrun[e] <= 1

\* A car sleeps on a request only while the thread that pushed it is about to
\* notify it: addRequest (Elevator.cpp:60-65) pushes under the mutex and
\* notifies after it, and neither gap loses the wakeup.
NoLostWakeup ==
  \A e \in Elevators :
    pc[e] \in {"block", "waiting"} /\ requests[e] # <<>> =>
      \E c \in Callers : call[c].op = "pushed" /\ call[c].car = e

\* start() never replaces a thread that still runs (assigning to a joinable
\* std::thread terminates the program): when the owner is out of stop() and
\* the car is not running, its thread has returned.
StartFindsNoThread ==
  \A e \in Elevators :
    call[Owner] = Idle /\ ~running[e] => pc[e] \in {"off", "exited"}

LastFloor(request) == IF request.toFloor = CallOnly THEN request.fromFloor ELSE request.toFloor

\* A request all of whose legs ended at their floor is one whose passenger was
\* carried: the car has stood at its fromFloor since it took the request, and
\* stands at its last floor now (Elevator.cpp:96-105).  The trip before it may
\* have been broken off between two floors, with destinationFloor left behind.
ServedStep ==
  \A id \in RequestIds :
    fate[id] # "served" /\ fate'[id] = "served" =>
      \E e \in Elevators :
        InHand(e, id) /\ boarded[e] /\ currentFloor[e] = LastFloor(currentRequest[e])
ServedMeansDelivered == [][ServedStep]_vars

\* A request is finished, one way or the other, unless its car is stopped or
\* in an emergency again and again: the thread's loop gets to it.
AcceptedIsFinished ==
  (\A e \in Elevators : <>[]~Halted(e)) =>
    \A id \in RequestIds : fate[id] = "accepted" ~> fate[id] \in {"served", "abandoned"}

\* A car under way is on the trip that its destinationFloor names.
Goal == [e \in Elevators |->
           IF pc[e] \in {"check", "travel", "doors"} THEN destinationFloor[e] ELSE 0]
Travels == INSTANCE Trip WITH Cars <- Elevators, Storeys <- Floors,
                              floor <- currentFloor, goal <- Goal

\* moveToFloor (Elevator.cpp:114-147) is a Trip: each step of the car is one
\* floor towards the destinationFloor it was given at the start, and with a
\* thread that is scheduled every trip ends, emergency or not.
KeepsTripPromises == Travels!Spec

\* "Wait for the processing thread to finish" (Elevator.cpp:38).  stop() resets
\* running and notifies without requestMutex: a thread that has just found the
\* predicate false and is about to sleep misses both, and the join never ends.
StopReturns == \A c \in Callers : call[c].op = "joining" ~> call[c].op = "idle"

Untouched(e) == \A c \in Callers : call[c].op \in {"flagged", "cleared"} => call[c].car # e

\* While the emergency lasts, the car shows it (tests/test_emergency.cpp:35
\* "Check that all elevators are in emergency state").  The thread's own stores
\* to status do not look at the flag.
EmergencyIsShown ==
  \A e \in Elevators : emergencyStop[e] /\ Untouched(e) => status[e] = "EMERGENCY"

\* After a release the car shows no emergency (tests/test_elevator.cpp:80-81).
\* An activation that another thread has begun before it still stores its
\* status afterwards.
ReleaseIsShown ==
  \A e \in Elevators : ~emergencyStop[e] /\ Untouched(e) => status[e] # "EMERGENCY"

\* The passengers board before the car travels to their floor (Elevator.cpp:97
\* "First move to the pickup floor if it's a new request").  An emergency that
\* breaks off the pickup and is over at the next test lets the delivery go on.
DeliversOnlyBoarded ==
  \A e \in Elevators : pc[e] = "travel" /\ leg[e] = "delivery" => boarded[e]
=============================================================================
