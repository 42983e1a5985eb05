------------------------ MODULE SharedElevatorProofs ------------------------
(***************************************************************************)
(* What SharedElevator promises, for every number of floors, cars, callers *)
(* and requests.  What the steps of a car keep, whoever takes them, is     *)
(* proved in ElevatorProofs.                                               *)
(***************************************************************************)
EXTENDS SharedElevator, ElevatorProofs

\* A caller inside addRequest carries a request.
CallsOK == \A c \in Callers : call[c].op = "admitted" => call[c].request \in Request

\* A car that does not run has no thread, unless the owner is inside stop():
\* without it start() could begin a second thread in the middle of a leg.
ThreadOK ==
  \A e \in Elevators :
    ~running[e] =>
      \/ pc[e] \in {"off", "exited"}
      \/ call[Owner].op \in {"lowered", "joining"} /\ call[Owner].car = e

\* The cars keep their course and their types, whatever their callers do.
CourseInv == TypeOK /\ HandOK /\ CallsOK /\ ThreadOK /\ OnCourse

\* What it says of the cars alone.
LEMMA CourseOfCars == CourseInv => CarInv
BY DEF CourseInv, CarInv, TypeOK

\* New cars have no threads, and nobody has called a method.
LEMMA CourseInit == Init => CourseInv
<1> SUFFICES ASSUME Init PROVE CourseInv
  OBVIOUS
<1>1. 0 \in Elevators
  BY ElevatorsAssumption DEF Elevators
<1>2. CarInv
  BY CarInitInv DEF Init
<1>3. Idle \in Call
  BY <1>1 DEF Idle, Call, Operations
<1>4. TypeOK
  BY <1>2, <1>3 DEF Init, TypeOK, CarInv
<1>5. HandOK /\ OnCourse
  BY <1>2 DEF CarInv
<1>6. CallsOK /\ ThreadOK
  BY DEF Init, CarInit, CallsOK, ThreadOK, Idle
<1> QED
  BY <1>4, <1>5, <1>6 DEF CourseInv

\* A step of the thread of a car changes no call, and a thread that is left
\* after running was reset stays the owner's to join.
LEMMA CourseCarStep ==
  ASSUME CourseInv, NEW e \in Elevators, CarStep(e) \/ WakesByItself(e)
  PROVE  CourseInv'
<1>1. CarInv' /\ call' = call
  BY CourseOfCars, ThreadStepKeeps DEF CarStep, WakesByItself
<1>2. /\ pc[e] \notin {"off", "exited"}
      /\ \A f \in Elevators : f # e => pc'[f] = pc[f]
      /\ running' = running
  BY ThreadFrame DEF CourseInv, TypeOK, CarStep, WakesByItself
<1>3. CallsOK' /\ ThreadOK'
  BY <1>1, <1>2 DEF CourseInv, CallsOK, ThreadOK
<1> QED
  BY <1>1, <1>3 DEF CourseInv, TypeOK, CarInv

\* The values that call takes.
LEMMA CallValues ==
  /\ Idle \in Call /\ Idle.op = "idle"
  /\ \A op \in Operations, e \in Elevators :
       In(op, e) \in Call /\ In(op, e).op = op /\ In(op, e).car = e
  /\ \A op \in Operations, e \in Elevators, request \in Request :
       /\ Adding(op, e, request) \in Call /\ Adding(op, e, request).op = op
       /\ Adding(op, e, request).request = request
<1>1. 0 \in Elevators
  BY ElevatorsAssumption DEF Elevators
<1> QED
  BY <1>1 DEF Idle, In, Adding, Call, Operations

\* A call that goes on is still a call.
LEMMA OpChange ==
  ASSUME NEW what \in Call, NEW op \in Operations
  PROVE  [what EXCEPT !.op = op] \in Call
BY DEF Call

\* A caller changes its own call only.
LEMMA BecomesTyped ==
  ASSUME call \in [Callers -> Call], NEW c \in Callers, NEW what \in Call, Becomes(c, what)
  PROVE  /\ call' \in [Callers -> Call]
         /\ call'[c] = what
         /\ \A d \in Callers : d # c => call'[d] = call[d]
BY DEF Becomes

\* A step of a caller.
LEMMA CourseCallerStep ==
  ASSUME CourseInv, NEW c \in Callers,
         ContinueCall(c) \/ \E e \in Elevators : NewCall(c, e)
  PROVE  CourseInv'
<1> USE OwnerAssumption
    DEF CourseInv, TypeOK, CarTypeOK, HandOK, CallsOK, ThreadOK, OnCourse, Busy, Becomes,
            cabin, thread, history, carVars
<1>0. Idle \in Call
  BY ElevatorsAssumption DEF Idle, Call, Operations, Elevators
<1>1. CASE PushRequest(c)
  <2>1. /\ call[c].request \in Request /\ call[c].request.id \in RequestIds
        /\ call[c].car \in Elevators
    BY <1>1 DEF PushRequest, Call, Request
  <2>2. requests' \in [Elevators -> Seq(Request)]
    BY <1>1, <2>1 DEF PushRequest, Push
  <2>3. fate' \in [RequestIds -> Fates]
    BY <1>1, <2>1 DEF PushRequest, Push, Fates
  <2>4. call' \in [Callers -> Call]
    <3>1. [call[c] EXCEPT !.op = "pushed"] \in Call
      BY OpChange DEF Operations
    <3> QED
      BY <1>1, <3>1, BecomesTyped DEF PushRequest
  <2> QED
    BY <1>1, <2>2, <2>3, <2>4 DEF PushRequest, Push, LegFloor
<1>2. CASE NotifyNewRequest(c)
  BY <1>0, <1>2 DEF NotifyNewRequest, Notify, Wake, Idle, Call, LegFloor, Labels
<1>3. CASE FinishActivation(c)
  BY <1>0, <1>3 DEF FinishActivation, RaiseStatus, Wake, Idle, Call, LegFloor, Labels, ElevatorStatus
<1>4. CASE FinishRelease(c)
  BY <1>0, <1>4 DEF FinishRelease, DropStatus, Idle, Call, LegFloor, ElevatorStatus
<1>5. CASE NotifyStop(c)
  BY <1>5 DEF NotifyStop, Notify, Wake, In, Call, Operations, LegFloor, Labels
<1>6. CASE Join(c)
  BY <1>0, <1>6 DEF Join, Idle, LegFloor
<1>7. ASSUME NEW e \in Elevators, StartCar(c, e)
      PROVE  CourseInv'
  <2>1. /\ pc[e] \in {"off", "exited"} /\ running' = [running EXCEPT ![e] = TRUE]
        /\ pc' = [pc EXCEPT ![e] = "loop"] /\ call' = call
    BY <1>7, OwnerAssumption DEF StartCar, Start, Idle
  <2>2. CarTypeOK' /\ CallsOK' /\ ThreadOK' /\ TypeOK'
    BY <1>7, <2>1 DEF StartCar, Start, Labels
  <2> QED
    BY <1>7, <2>1, <2>2 DEF StartCar, Start, LegFloor
<1>8. ASSUME NEW e \in Elevators, NEW request \in Request, Submit(c, e, request)
      PROVE  CourseInv'
  <2>1. request.id \in RequestIds
    BY <1>8 DEF Request
  <2>2. fate' \in [RequestIds -> Fates]
    BY <1>8, <2>1 DEF Submit, Fates
  <2>3. /\ call' \in [Callers -> Call]
        /\ \A d \in Callers :
             \/ call'[d] = call[d]
             \/ call'[d].op = "admitted" /\ call'[d].request = request
    <3> HIDE DEF CourseInv, CarTypeOK, HandOK, CallsOK, ThreadOK, OnCourse, Becomes
    <3>0. call \in [Callers -> Call]
      BY DEF CourseInv
    <3>1. CASE UNCHANGED call
      BY <3>0, <3>1
    <3>2. CASE Becomes(c, Adding("admitted", e, request))
      <4>1. Adding("admitted", e, request) \in Call
        BY CallValues DEF Operations
      <4> QED
        BY <3>0, <3>2, <4>1, BecomesTyped, CallValues DEF Operations
    <3> QED
      BY <1>8, <3>1, <3>2 DEF Submit
  <2>4. CallsOK' /\ ThreadOK'
    <3>1. CallsOK'
      BY <2>3
    <3>2. /\ UNCHANGED <<running, pc>>
          /\ call[c].op = "idle"
          /\ \A d \in Callers : d # c => call'[d] = call[d]
      BY <1>8, CallValues DEF Submit
    <3>3. ThreadOK'
      BY <3>2, OwnerAssumption
    <3> QED
      BY <3>1, <3>3
  <2>5. TypeOK'
    BY <1>8, <2>2, <2>3 DEF Submit
  <2>6. HandOK' /\ OnCourse'
    BY <1>8 DEF Submit, LegFloor
  <2> QED
    BY <2>4, <2>5, <2>6
<1>9. ASSUME NEW e \in Elevators, ActivateEmergency(c, e)
      PROVE  CourseInv'
  <2>1. In("flagged", e) \in Call
    BY CallValues DEF Operations
  <2>2. /\ call' \in [Callers -> Call] /\ call[c].op = "idle"
        /\ call'[c].op = "flagged" /\ call'[c].car = e
        /\ \A d \in Callers : d # c => call'[d] = call[d]
    BY <1>9, <2>1, BecomesTyped, CallValues DEF ActivateEmergency, Operations
  <2>3. CallsOK'
    BY <2>2
  <2>4. ThreadOK'
    BY <1>9, <2>2, OwnerAssumption DEF ActivateEmergency, RaiseFlag
  <2> QED
    BY <1>9, <2>2, <2>3, <2>4 DEF ActivateEmergency, RaiseFlag, LegFloor
<1>10. ASSUME NEW e \in Elevators, ReleaseEmergency(c, e)
       PROVE  CourseInv'
  <2>1. In("cleared", e) \in Call
    BY CallValues DEF Operations
  <2>2. /\ call' \in [Callers -> Call] /\ call[c].op = "idle"
        /\ call'[c].op = "cleared" /\ call'[c].car = e
        /\ \A d \in Callers : d # c => call'[d] = call[d]
    BY <1>10, <2>1, BecomesTyped, CallValues DEF ReleaseEmergency, Operations
  <2>3. CallsOK'
    BY <2>2
  <2>4. ThreadOK'
    BY <1>10, <2>2, OwnerAssumption DEF ReleaseEmergency, DropFlag
  <2> QED
    BY <1>10, <2>2, <2>3, <2>4 DEF ReleaseEmergency, DropFlag, LegFloor
<1>11. ASSUME NEW e \in Elevators, StopCar(c, e)
       PROVE  CourseInv'
  <2>1. In("lowered", e) \in Call
    BY CallValues DEF Operations
  <2>2. /\ call' \in [Callers -> Call] /\ call[c].op = "idle"
        /\ call'[c].op = "lowered" /\ call'[c].car = e
        /\ \A d \in Callers : d # c => call'[d] = call[d]
    BY <1>11, <2>1, BecomesTyped, CallValues DEF StopCar, Operations
  <2>3. CallsOK'
    BY <2>2
  <2>4. ThreadOK'
    BY <1>11, <2>2, OwnerAssumption DEF StopCar, LowerRunning
  <2> QED
    BY <1>11, <2>2, <2>3, <2>4 DEF StopCar, LowerRunning, LegFloor
<1> QED
  BY <1>1, <1>2, <1>3, <1>4, <1>5, <1>6, <1>7, <1>8, <1>9, <1>10, <1>11
  DEF ContinueCall, NewCall

\* Nothing changes, and nothing is lost.
LEMMA CourseStutter == CourseInv /\ UNCHANGED vars => CourseInv'
BY DEF CourseInv, TypeOK, CarTypeOK, HandOK, CallsOK, ThreadOK, OnCourse, Busy, LegFloor,
       vars, carVars, cabin, thread, history

\* CourseInv is inductive.
LEMMA CourseHolds == Spec => []CourseInv
<1>1. CourseInv /\ [Next]_vars => CourseInv'
  BY CourseCarStep, CourseCallerStep, CourseStutter DEF Next
<1> QED
  BY CourseInit, <1>1, PTL DEF Spec

\* Type correctness: among it that no car leaves the shaft, whatever the
\* threads that stop, release and feed it do.
THEOREM TypeCorrect == Spec => []TypeOK
BY CourseHolds, PTL DEF CourseInv

\* A car under way heads for the floor of its leg (moveToFloor,
\* Elevator.cpp:114-147).
THEOREM StaysOnCourse == Spec => []OnCourse
BY CourseHolds, PTL DEF CourseInv

\* start() (Elevator.cpp:21-28) never finds a thread that still runs.
THEOREM OneThreadPerCar == Spec => []StartFindsNoThread
<1>1. CourseInv => StartFindsNoThread
  BY DEF CourseInv, ThreadOK, StartFindsNoThread, Idle
<1> QED
  BY <1>1, CourseHolds, PTL

-----------------------------------------------------------------------------
\* A car that may go on has an overrun of zero, and a car that is between two
\* floors began the floor when it might go on.
BrakeInv ==
  \A e \in Elevators :
    /\ ~Halted(e) => overrun[e] = 0
    /\ pc[e] = "travel" => overrun[e] = 0
    /\ overrun[e] <= 1

\* The thread looks at the flags before each floor.
LEMMA BrakeCarStep ==
  ASSUME CarTypeOK, BrakeInv, NEW e \in Elevators, CarStep(e) \/ WakesByItself(e)
  PROVE  BrakeInv'
<1> USE DEF BrakeInv, CarTypeOK, Halted, history
<1>1. CASE KeepTravelling(e)
  BY <1>1 DEF KeepTravelling
<1>2. CASE MoveOneFloor(e)
  BY <1>2 DEF MoveOneFloor
<1>3. CASE LeaveLoop(e) \/ TakeLock(e) \/ Block(e) \/ SpinInEmergency(e) \/ SpuriousWakeup(e)
  BY <1>3 DEF LeaveLoop, TakeLock, Block, SpinInEmergency, SpuriousWakeup
<1>4. CASE TakeRequest(e) \/ FindNothing(e) \/ SetIdle(e)
  BY <1>4 DEF TakeRequest, FindNothing, SetIdle
<1>5. CASE AlreadyThere(e) \/ BreakOff(e) \/ CloseDoors(e)
  BY <1>5 DEF AlreadyThere, BreakOff, CloseDoors, EndLeg
<1>6. CASE SetOff(e)
  BY <1>6 DEF SetOff
<1> QED
  BY <1>1, <1>2, <1>3, <1>4, <1>5, <1>6 DEF CarStep, WakesByItself, ThreadStep, MoveToFloor

\* A release or a start begins the count anew.
LEMMA BrakeCallerStep ==
  ASSUME TypeOK, BrakeInv, NEW c \in Callers,
         ContinueCall(c) \/ \E e \in Elevators : NewCall(c, e)
  PROVE  BrakeInv'
<1> USE DEF TypeOK, CarTypeOK, BrakeInv, Halted, carVars, thread, history
<1>1. CASE PushRequest(c) \/ NotifyNewRequest(c) \/ NotifyStop(c)
  BY <1>1 DEF PushRequest, Push, NotifyNewRequest, NotifyStop, Notify, Wake
<1>2. CASE FinishActivation(c) \/ FinishRelease(c) \/ Join(c)
  BY <1>2 DEF FinishActivation, RaiseStatus, Wake, FinishRelease, DropStatus, Join
<1>3. ASSUME NEW e \in Elevators, StartCar(c, e)
      PROVE  BrakeInv'
  BY <1>3 DEF StartCar, Start
<1>4. ASSUME NEW e \in Elevators, StopCar(c, e)
      PROVE  BrakeInv'
  BY <1>4 DEF StopCar, LowerRunning
<1>6. ASSUME NEW e \in Elevators, ActivateEmergency(c, e)
      PROVE  BrakeInv'
  BY <1>6 DEF ActivateEmergency, RaiseFlag
<1>7. ASSUME NEW e \in Elevators, ReleaseEmergency(c, e)
      PROVE  BrakeInv'
  BY <1>7 DEF ReleaseEmergency, DropFlag
<1>5. ASSUME NEW e \in Elevators, NEW request \in Request, Submit(c, e, request)
      PROVE  BrakeInv'
  BY <1>5 DEF Submit
<1> QED
  BY <1>1, <1>2, <1>3, <1>4, <1>5, <1>6, <1>7 DEF ContinueCall, NewCall

\* After an emergency stop or stop() a car passes one more floor at most
\* (docs/Design.md:69; the test of Elevator.cpp:125 after each floor).
THEOREM BrakesInTime == Spec => []BrakesWithinOneFloor
<1>1. Init => BrakeInv
  BY DEF Init, CarInit, BrakeInv
<1>2. TypeOK /\ BrakeInv /\ [Next]_vars => BrakeInv'
  <2>1. BrakeInv /\ UNCHANGED vars => BrakeInv'
    BY DEF BrakeInv, Halted, vars, carVars, thread, history
  <2> QED
    BY <2>1, BrakeCarStep, BrakeCallerStep DEF Next, TypeOK
<1>3. BrakeInv => BrakesWithinOneFloor
  BY DEF BrakeInv, BrakesWithinOneFloor
<1> QED
  BY <1>1, <1>2, <1>3, TypeCorrect, PTL DEF Spec

-----------------------------------------------------------------------------
\* A thread that is about to sleep holds requestMutex, so nothing has come
\* into its queue since it looked.
WakeInv ==
  /\ \A e \in Elevators : pc[e] = "block" => requests[e] = <<>>
  /\ NoLostWakeup

Asleep(e) == pc[e] \in {"block", "waiting"} /\ requests[e] # <<>>

\* A step keeps the invariant when nobody falls asleep on a request and nobody
\* who is to wake a sleeper goes away without doing so.
LEMMA StillWoken ==
  ASSUME WakeInv, NEW c \in Callers,
         \A f \in Elevators : pc'[f] = "block" => requests'[f] = <<>>,
         \A f \in Elevators : Asleep(f)' => Asleep(f),
         \A f \in Elevators : Asleep(f)' /\ call[c].op = "pushed" => call[c].car # f,
         \A d \in Callers : d # c => call'[d] = call[d]
  PROVE  WakeInv'
<1> SUFFICES ASSUME NEW f \in Elevators, Asleep(f)'
             PROVE  \E d \in Callers : call'[d].op = "pushed" /\ call'[d].car = f
  BY DEF WakeInv, NoLostWakeup, Asleep
<1>1. PICK d \in Callers : call[d].op = "pushed" /\ call[d].car = f
  BY DEF WakeInv, NoLostWakeup, Asleep
<1>2. d # c
  BY <1>1
<1> QED
  BY <1>1, <1>2

\* The thread of the car falls asleep on an empty queue only.
LEMMA WakeCarStep ==
  ASSUME CarTypeOK, WakeInv, NEW e \in Elevators, CarStep(e) \/ WakesByItself(e)
  PROVE  WakeInv'
<1>1. /\ \A f \in Elevators : pc'[f] = "block" => requests'[f] = <<>>
      /\ \A f \in Elevators : Asleep(f)' => Asleep(f)
  <2> USE DEF CarTypeOK, Asleep, WakeInv, thread
  <2>1. CASE TakeLock(e)
    BY <2>1 DEF TakeLock, WakeUpCondition
  <2>2. CASE Block(e)
    BY <2>2 DEF Block
  <2>3. CASE LeaveLoop(e) \/ SpinInEmergency(e) \/ SpuriousWakeup(e)
    BY <2>3 DEF LeaveLoop, SpinInEmergency, SpuriousWakeup
  <2>4. CASE TakeRequest(e)
    BY <2>4 DEF TakeRequest
  <2>5. CASE FindNothing(e) \/ SetIdle(e)
    BY <2>5 DEF FindNothing, SetIdle
  <2>6. CASE AlreadyThere(e)
    BY <2>6 DEF AlreadyThere, EndLeg
  <2>7. CASE BreakOff(e)
    BY <2>7 DEF BreakOff, EndLeg
  <2>8. CASE CloseDoors(e)
    BY <2>8 DEF CloseDoors, EndLeg
  <2>9. CASE SetOff(e)
    BY <2>9 DEF SetOff
  <2>10. CASE KeepTravelling(e)
    BY <2>10 DEF KeepTravelling
  <2>11. CASE MoveOneFloor(e)
    BY <2>11 DEF MoveOneFloor
  <2> QED
    BY <2>1, <2>2, <2>3, <2>4, <2>5, <2>6, <2>7, <2>8, <2>9, <2>10, <2>11
    DEF CarStep, WakesByItself, ThreadStep, MoveToFloor
<1>2. call' = call
  BY DEF CarStep, WakesByItself
<1> QED
  BY <1>1, <1>2 DEF WakeInv, NoLostWakeup, Asleep

\* Who pushes a request is about to notify the car.
LEMMA WakeCallerStep ==
  ASSUME TypeOK, WakeInv, NEW c \in Callers,
         ContinueCall(c) \/ \E e \in Elevators : NewCall(c, e)
  PROVE  WakeInv'
<1>0. /\ call \in [Callers -> Call] /\ call[c].car \in Elevators
      /\ pc \in [Elevators -> Labels] /\ requests \in [Elevators -> Seq(Request)]
      /\ \A f \in Elevators : pc[f] = "block" => requests[f] = <<>>
  BY DEF TypeOK, CarTypeOK, Call, WakeInv
<1>1. CASE PushRequest(c)
  <2>1. /\ ~HoldsMutex(call[c].car)
        /\ requests' = [requests EXCEPT ![call[c].car] = Append(@, call[c].request)]
        /\ call[c].op # "pushed"
        /\ call' = [call EXCEPT ![c] = [call[c] EXCEPT !.op = "pushed"]]
        /\ pc' = pc
    BY <1>1 DEF PushRequest, Push, Becomes, thread
  <2>2. /\ call'[c].op = "pushed" /\ call'[c].car = call[c].car
        /\ \A d \in Callers : d # c => call'[d] = call[d]
    BY <1>0, <2>1 DEF Call
  <2>3. \A f \in Elevators : pc'[f] = "block" => requests'[f] = <<>>
    BY <1>0, <2>1 DEF HoldsMutex
  <2>4. ASSUME NEW f \in Elevators, Asleep(f)'
        PROVE  \E d \in Callers : call'[d].op = "pushed" /\ call'[d].car = f
    <3>1. CASE f = call[c].car
      BY <3>1, <2>2
    <3>2. CASE f # call[c].car
      <4>1. Asleep(f)
        BY <2>1, <2>4, <3>2, <1>0 DEF Asleep
      <4>2. PICK d \in Callers : call[d].op = "pushed" /\ call[d].car = f
        BY <4>1 DEF WakeInv, NoLostWakeup, Asleep
      <4> QED
        BY <4>2, <2>1, <2>2
    <3> QED
      BY <3>1, <3>2
  <2> QED
    BY <2>3, <2>4 DEF WakeInv, NoLostWakeup, Asleep
<1>2. CASE NotifyNewRequest(c) \/ FinishActivation(c) \/ FinishRelease(c) \/ NotifyStop(c) \/ Join(c)
  <2>1. /\ \/ call[c].op # "pushed" /\ pc' = pc
           \/ pc' = [pc EXCEPT ![call[c].car] = IF @ = "waiting" THEN "loop" ELSE @]
        /\ requests' = requests
        /\ \A d \in Callers : d # c => call'[d] = call[d]
    <3> USE <1>0 DEF Becomes, carVars, thread
    <3>1. CASE NotifyNewRequest(c)
      BY <3>1 DEF NotifyNewRequest, Notify, Wake
    <3>2. CASE FinishActivation(c)
      BY <3>2 DEF FinishActivation, RaiseStatus, Wake
    <3>3. CASE FinishRelease(c)
      BY <3>3 DEF FinishRelease, DropStatus
    <3>4. CASE NotifyStop(c)
      BY <3>4 DEF NotifyStop, Notify, Wake
    <3>5. CASE Join(c)
      BY <3>5 DEF Join
    <3> QED
      BY <1>2, <3>1, <3>2, <3>3, <3>4, <3>5
  <2>2. \A f \in Elevators : pc'[f] = "block" => requests'[f] = <<>>
    BY <1>0, <2>1
  <2>3. \A f \in Elevators : Asleep(f)' => Asleep(f)
    BY <1>0, <2>1 DEF Asleep
  <2>4. \A f \in Elevators : Asleep(f)' /\ call[c].op = "pushed" => call[c].car # f
    BY <1>0, <2>1 DEF Asleep, WakeInv
  <2> QED
    BY <2>1, <2>2, <2>3, <2>4, StillWoken
<1>3. ASSUME NEW e \in Elevators, NewCall(c, e)
      PROVE  WakeInv'
  <2>1. /\ pc' = pc \/ pc' = [pc EXCEPT ![e] = "loop"]
        /\ requests' = requests /\ call[c].op # "pushed"
        /\ \A d \in Callers : d # c => call'[d] = call[d]
    <3> USE <1>0 DEF Becomes, thread, Idle
    <3>1. CASE StartCar(c, e)
      BY <3>1 DEF StartCar, Start
    <3>2. CASE StopCar(c, e)
      BY <3>2 DEF StopCar, LowerRunning
    <3>3. CASE ActivateEmergency(c, e)
      BY <3>3 DEF ActivateEmergency, RaiseFlag
    <3>4. CASE ReleaseEmergency(c, e)
      BY <3>4 DEF ReleaseEmergency, DropFlag
    <3>5. CASE \E request \in Request : Submit(c, e, request)
      BY <3>5 DEF Submit
    <3> QED
      BY <1>3, <3>1, <3>2, <3>3, <3>4, <3>5 DEF NewCall
  <2>2. \A f \in Elevators : pc'[f] = "block" => requests'[f] = <<>>
    BY <1>0, <2>1
  <2>3. \A f \in Elevators : Asleep(f)' => Asleep(f)
    BY <1>0, <2>1 DEF Asleep
  <2> QED
    BY <2>1, <2>2, <2>3, StillWoken
<1> QED
  BY <1>1, <1>2, <1>3 DEF ContinueCall

\* addRequest never leaves a car asleep on a request (Elevator.cpp:60-65): the
\* car's thread is awake, or the caller has its notification still to send.
THEOREM WakesForRequests == Spec => []NoLostWakeup
<1>1. Init => WakeInv
  BY DEF Init, CarInit, WakeInv, NoLostWakeup
<1>2. TypeOK /\ WakeInv /\ [Next]_vars => WakeInv'
  <2>1. WakeInv /\ UNCHANGED vars => WakeInv'
    BY DEF WakeInv, NoLostWakeup, vars, carVars, thread
  <2> QED
    BY <2>1, WakeCarStep, WakeCallerStep DEF Next, TypeOK
<1>3. WakeInv => NoLostWakeup
  BY DEF WakeInv
<1> QED
  BY <1>1, <1>2, <1>3, TypeCorrect, PTL DEF Spec
-----------------------------------------------------------------------------
(* What becomes of the requests.                                           *)

\* What the observer has seen of the request in hand: on a pickup leg nothing
\* has been broken off; after a pickup that was not, the passengers are in.
BoardInv ==
  \A e \in Elevators :
    /\ leg[e] = "pickup" => ~cut[e]
    /\ leg[e] = "pickup" /\ pc[e] = "depart" =>
         (boarded[e] <=> currentFloor[e] = currentRequest[e].fromFloor)
    /\ leg[e] = "pickup" /\ pc[e] = "doors" => boarded[e]
    /\ leg[e] = "delivery" /\ ~cut[e] => boarded[e]

\* The end of a leg: whole, or the observer remembers that it was cut.
LEMMA BoardEndLeg ==
  ASSUME CarTypeOK, BoardInv, NEW e \in Elevators, NEW broken \in BOOLEAN, EndLeg(e, broken),
         leg[e] = "pickup" /\ ~broken => boarded[e], currentFloor' = currentFloor
  PROVE  BoardInv'
<1> USE DEF CarTypeOK, BoardInv
<1>1. CASE leg[e] = "pickup" /\ currentRequest[e].toFloor # CallOnly
  <2>1. /\ leg' = [leg EXCEPT ![e] = "delivery"]
        /\ pc' = [pc EXCEPT ![e] = "depart"]
        /\ cut' = [cut EXCEPT ![e] = broken \/ cut[e]]
        /\ UNCHANGED <<currentRequest, boarded>>
    BY <1>1 DEF EndLeg
  <2> QED
    BY <1>1, <2>1
<1>2. CASE ~(leg[e] = "pickup" /\ currentRequest[e].toFloor # CallOnly)
  <2>1. /\ leg' = [leg EXCEPT ![e] = "pickup"]
        /\ pc' = [pc EXCEPT ![e] = "loop"]
        /\ currentRequest' = [currentRequest EXCEPT ![e] = NoRequest]
        /\ boarded' = [boarded EXCEPT ![e] = FALSE]
        /\ cut' = [cut EXCEPT ![e] = FALSE]
    BY <1>2 DEF EndLeg
  <2> QED
    BY <2>1
<1> QED
  BY <1>1, <1>2

\* A step of the thread of a car.
LEMMA BoardCarStep ==
  ASSUME CourseInv, BoardInv, NEW e \in Elevators, CarStep(e) \/ WakesByItself(e)
  PROVE  BoardInv'
<1>0. CarTypeOK /\ HandOK
  BY DEF CourseInv, TypeOK
<1> USE DEF CarTypeOK, BoardInv, cabin, history
<1>1. CASE LeaveLoop(e) \/ TakeLock(e) \/ Block(e) \/ SpinInEmergency(e) \/ SpuriousWakeup(e)
  BY <1>0, <1>1 DEF LeaveLoop, TakeLock, Block, SpinInEmergency, SpuriousWakeup
<1>2. CASE TakeRequest(e)
  <2>1. leg[e] = "pickup"
    BY <1>0, <1>2 DEF TakeRequest, HandOK, Busy, Legs
  <2> QED
    BY <1>0, <1>2, <2>1 DEF TakeRequest, cabin
<1>3. CASE FindNothing(e) \/ SetIdle(e)
  BY <1>0, <1>3 DEF FindNothing, SetIdle
<1>4. CASE AlreadyThere(e)
  <2>1. /\ EndLeg(e, FALSE) /\ currentFloor' = currentFloor
        /\ leg[e] = "pickup" => boarded[e]
    BY <1>4 DEF IsThere, AlreadyThere, LegFloor
  <2> QED
    BY <1>0, <2>1, BoardEndLeg
<1>5. CASE BreakOff(e)
  <2>1. EndLeg(e, TRUE) /\ currentFloor' = currentFloor
    BY <1>5 DEF BreakOff
  <2> QED
    BY <1>0, <2>1, BoardEndLeg
<1>6. CASE CloseDoors(e)
  <2>1. /\ EndLeg(e, FALSE) /\ currentFloor' = currentFloor
        /\ leg[e] = "pickup" => boarded[e]
    BY <1>6 DEF CloseDoors
  <2> QED
    BY <1>0, <2>1, BoardEndLeg
<1>7. CASE SetOff(e)
  BY <1>0, <1>7 DEF SetOff
<1>8. CASE KeepTravelling(e)
  BY <1>0, <1>8 DEF KeepTravelling
<1>9. CASE MoveOneFloor(e)
  <2>1. /\ pc' = [pc EXCEPT ![e] = "doors"] \/ pc' = [pc EXCEPT ![e] = "check"]
        /\ pc'[e] = "doors" => boarded' = [boarded EXCEPT ![e] = @ \/ leg[e] = "pickup"]
        /\ pc'[e] # "doors" => boarded' = boarded
        /\ currentFloor' = [currentFloor EXCEPT ![e] = NextFloor(e)]
        /\ UNCHANGED <<leg, currentRequest, cut>>
    BY <1>0, <1>9 DEF MoveOneFloor
  <2>2. CASE pc' = [pc EXCEPT ![e] = "doors"]
    BY <1>0, <2>1, <2>2
  <2>3. CASE pc' = [pc EXCEPT ![e] = "check"]
    BY <1>0, <2>1, <2>3
  <2> QED
    BY <2>1, <2>2, <2>3
<1> QED
  BY <1>1, <1>2, <1>3, <1>4, <1>5, <1>6, <1>7, <1>8, <1>9
  DEF CarStep, WakesByItself, ThreadStep, MoveToFloor

\* No caller touches the leg of a thread, or what has been seen of it.
LEMMA BoardCallerStep ==
  ASSUME CourseInv, BoardInv, NEW c \in Callers,
         ContinueCall(c) \/ \E e \in Elevators : NewCall(c, e)
  PROVE  BoardInv'
<1>1. /\ UNCHANGED <<currentFloor, leg, currentRequest, boarded, cut>>
      /\ \A f \in Elevators : pc'[f] = pc[f] \/ pc'[f] \notin {"depart", "doors"}
  <2>0. pc \in [Elevators -> Labels]
    BY DEF CourseInv, TypeOK, CarTypeOK
  <2> USE <2>0 DEF carVars, cabin, thread, history
  <2>1. CASE PushRequest(c) \/ Join(c)
    BY <2>1 DEF PushRequest, Push, Join
  <2>2. CASE NotifyNewRequest(c) \/ NotifyStop(c)
    BY <2>2 DEF NotifyNewRequest, NotifyStop, Notify, Wake
  <2>3. CASE FinishActivation(c)
    BY <2>3 DEF FinishActivation, RaiseStatus, Wake
  <2>4. CASE FinishRelease(c)
    BY <2>4 DEF FinishRelease, DropStatus
  <2>5. ASSUME NEW e \in Elevators, StartCar(c, e)
        PROVE  <1>1!1 /\ <1>1!2
    BY <2>5 DEF StartCar, Start
  <2>6. ASSUME NEW e \in Elevators,
               \/ StopCar(c, e) \/ ActivateEmergency(c, e) \/ ReleaseEmergency(c, e)
               \/ \E request \in Request : Submit(c, e, request)
        PROVE  <1>1!1 /\ <1>1!2
    BY <2>6 DEF StopCar, LowerRunning, ActivateEmergency, RaiseFlag, ReleaseEmergency, DropFlag,
                Submit
  <2> QED
    BY <2>1, <2>2, <2>3, <2>4, <2>5, <2>6 DEF ContinueCall, NewCall
<1> QED
  BY <1>1 DEF BoardInv

\* BoardInv is inductive, together with CourseInv.
LEMMA BoardHolds == Spec => []BoardInv
<1>1. Init => BoardInv
  BY DEF Init, CarInit, BoardInv
<1>2. BoardInv /\ UNCHANGED vars => BoardInv'
  BY DEF BoardInv, vars, carVars, cabin, thread, history
<1>3. CourseInv /\ BoardInv /\ [Next]_vars => BoardInv'
  BY <1>2, BoardCarStep, BoardCallerStep DEF Next
<1> QED
  BY <1>1, <1>3, CourseHolds, PTL DEF Spec

-----------------------------------------------------------------------------
\* A request counts as served only when the car has stood at its fromFloor and
\* stands at its last floor (Elevator.cpp:96-105), whatever emergencies come.
THEOREM ServedIsDelivered == Spec => ServedMeansDelivered
<1>1. ASSUME CourseInv, BoardInv, [Next]_vars
      PROVE  [ServedStep]_vars
  <2> SUFFICES ASSUME Next, NEW id \in RequestIds, fate[id] # "served", fate'[id] = "served"
               PROVE  \E e \in Elevators :
                        /\ InHand(e, id) /\ boarded[e]
                        /\ currentFloor[e] = LastFloor(currentRequest[e])
    BY <1>1 DEF ServedStep, vars, carVars, history
  <2> USE <1>1
  <2>0. CarTypeOK /\ HandOK /\ CallsOK
    BY DEF CourseInv, TypeOK
  <2>1. ASSUME NEW e \in Elevators, NEW broken \in BOOLEAN, Busy(e), EndLeg(e, broken),
               ~broken => currentFloor[e] = LegFloor(e),
               leg[e] = "pickup" /\ ~broken => boarded[e]
        PROVE  /\ InHand(e, id) /\ boarded[e]
               /\ currentFloor[e] = LastFloor(currentRequest[e])
    <3>1. currentRequest[e] \in Request /\ currentRequest[e].id \in RequestIds
      BY <2>1, CourseOfCars, LegFloorIsFloor DEF Request
    <3>2. ~(leg[e] = "pickup" /\ currentRequest[e].toFloor # CallOnly)
      BY <2>1 DEF EndLeg
    <3>3. currentRequest[e].id = id /\ ~broken /\ ~cut[e]
      BY <2>0, <2>1, <3>1, <3>2 DEF EndLeg, CarTypeOK
    <3>4. boarded[e]
      BY <2>0, <2>1, <3>3 DEF BoardInv, CarTypeOK, Legs
    <3>5. currentFloor[e] = LastFloor(currentRequest[e])
      BY <2>0, <2>1, <3>2, <3>3 DEF LegFloor, LastFloor, HandOK, CarTypeOK, Legs
    <3> QED
      BY <3>1, <3>3, <3>4, <3>5, NoRequestAssumption DEF InHand
  <2>2. ASSUME NEW e \in Elevators, CarStep(e) \/ WakesByItself(e)
        PROVE  AlreadyThere(e) \/ BreakOff(e) \/ CloseDoors(e)
    BY <2>0, <2>2 DEF CarStep, WakesByItself, SpuriousWakeup, ThreadStep, MoveToFloor, LeaveLoop,
                TakeLock, Block, SpinInEmergency, TakeRequest, FindNothing, SetIdle, SetOff,
                KeepTravelling, MoveOneFloor, history
  <2>3. ASSUME NEW c \in Callers, ContinueCall(c) \/ \E e \in Elevators : NewCall(c, e)
        PROVE  FALSE
    <3> USE DEF carVars, history
    <3>1. CASE PushRequest(c)
      <4>1. call[c].request.id \in RequestIds
        BY <2>0, <3>1 DEF PushRequest, CallsOK, Request
      <4> QED
        BY <2>0, <3>1, <4>1 DEF PushRequest, Push, CarTypeOK
    <3>2. CASE NotifyNewRequest(c) \/ NotifyStop(c) \/ Join(c)
      BY <3>2 DEF NotifyNewRequest, NotifyStop, Notify, Join
    <3>3. CASE FinishActivation(c) \/ FinishRelease(c)
      BY <3>3 DEF FinishActivation, RaiseStatus, FinishRelease, DropStatus
    <3>4. ASSUME NEW e \in Elevators, NEW request \in Request, Submit(c, e, request)
          PROVE  FALSE
      BY <2>0, <3>4 DEF Submit, CarTypeOK, Request
    <3>5. ASSUME NEW e \in Elevators,
                 StartCar(c, e) \/ StopCar(c, e) \/ ActivateEmergency(c, e) \/ ReleaseEmergency(c, e)
          PROVE  FALSE
      BY <3>5 DEF StartCar, Start, StopCar, LowerRunning, ActivateEmergency, RaiseFlag,
                  ReleaseEmergency, DropFlag
    <3> QED
      BY <2>3, <3>1, <3>2, <3>3, <3>4, <3>5 DEF ContinueCall, NewCall
  <2>4. ASSUME NEW e \in Elevators, AlreadyThere(e)
        PROVE  /\ InHand(e, id) /\ boarded[e]
               /\ currentFloor[e] = LastFloor(currentRequest[e])
    <3>1. /\ Busy(e) /\ EndLeg(e, FALSE) /\ currentFloor[e] = LegFloor(e)
          /\ leg[e] = "pickup" => boarded[e]
      BY <2>0, <2>4 DEF IsThere, AlreadyThere, Busy, BoardInv, LegFloor
    <3> QED
      BY <2>1, <3>1
  <2>5. ASSUME NEW e \in Elevators, BreakOff(e)
        PROVE  /\ InHand(e, id) /\ boarded[e]
               /\ currentFloor[e] = LastFloor(currentRequest[e])
    <3>1. Busy(e) /\ EndLeg(e, TRUE)
      BY <2>5 DEF BreakOff, Busy
    <3> QED
      BY <2>1, <3>1
  <2>6. ASSUME NEW e \in Elevators, CloseDoors(e)
        PROVE  /\ InHand(e, id) /\ boarded[e]
               /\ currentFloor[e] = LastFloor(currentRequest[e])
    <3>1. /\ Busy(e) /\ EndLeg(e, FALSE) /\ currentFloor[e] = LegFloor(e)
          /\ leg[e] = "pickup" => boarded[e]
      BY <2>6 DEF CloseDoors, Busy, BoardInv, CourseInv, OnCourse
    <3> QED
      BY <2>1, <3>1
  <2> QED
    BY <2>2, <2>3, <2>4, <2>5, <2>6 DEF Next
<1> QED
  BY <1>1, CourseHolds, BoardHolds, PTL DEF Spec, ServedMeansDelivered

-----------------------------------------------------------------------------
\* A caller inside addRequest brings a request that nobody else has.
OnceInv ==
  /\ EachAcceptedOnce
  /\ \A c \in Callers :
       call[c].op = "admitted" => fate[call[c].request.id] = "offered"
  /\ \A c, d \in Callers :
       call[c].op = "admitted" /\ call[d].op = "admitted" /\ call[c].request.id = call[d].request.id
         => c = d

\* A step of the thread of a car finishes only requests that no caller brings.
LEMMA OnceCarStep ==
  ASSUME CourseInv, OnceInv, NEW e \in Elevators, CarStep(e) \/ WakesByItself(e)
  PROVE  OnceInv'
<1>0. /\ CarInv /\ EachAcceptedOnce /\ call' = call /\ fate \in [RequestIds -> Fates]
      /\ \A c \in Callers : call[c].op = "admitted" => call[c].request.id \in RequestIds
  BY CourseOfCars
     DEF CourseInv, TypeOK, CarTypeOK, CallsOK, Request, OnceInv, CarStep, WakesByItself
<1>1. EachAcceptedOnce'
  BY <1>0, OnceThreadStep DEF CarStep, WakesByItself
<1>2. \/ fate' = fate
      \/ \E id \in RequestIds, f \in {"served", "abandoned"} :
           fate[id] = "accepted" /\ fate' = [fate EXCEPT ![id] = f]
  BY <1>0, FateThreadStep DEF CarStep, WakesByItself
<1>3. \A c \in Callers : call[c].op = "admitted" => fate'[call[c].request.id] = "offered"
  BY <1>0, <1>2 DEF OnceInv
<1> QED
  BY <1>0, <1>1, <1>3 DEF OnceInv

\* A step of a caller brings a new request, hands it over, or neither.
LEMMA OnceCallerStep ==
  ASSUME CourseInv, OnceInv, NEW c \in Callers,
         ContinueCall(c) \/ \E e \in Elevators : NewCall(c, e)
  PROVE  OnceInv'
<1>0. /\ CarTypeOK /\ EachAcceptedOnce /\ call \in [Callers -> Call]
      /\ \A d \in Callers : call[d].op = "admitted" => call[d].request \in Request
  BY DEF CourseInv, TypeOK, OnceInv, CallsOK
<1>1. CASE PushRequest(c)
  <2>1. /\ call[c].op = "admitted" /\ call[c].request \in Request /\ call[c].car \in Elevators
        /\ fate[call[c].request.id] = "offered" /\ Push(call[c].car, call[c].request)
    BY <1>0, <1>1 DEF PushRequest, OnceInv, Call
  <2>2. EachAcceptedOnce'
    BY <1>0, <2>1, OncePush
  <2>3. /\ fate' = [fate EXCEPT ![call[c].request.id] = "accepted"]
        /\ call'[c].op = "pushed"
        /\ \A d \in Callers : d # c => call'[d] = call[d]
    BY <1>0, <1>1, <2>1 DEF PushRequest, Push, Becomes, Call
  <2>4. \A d \in Callers : call[d].op = "admitted" => call[d].request.id \in RequestIds
    BY <1>0 DEF Request
  <2> QED
    BY <1>0, <2>1, <2>2, <2>3, <2>4 DEF OnceInv, CarTypeOK
<1>2. ASSUME NEW e \in Elevators, NEW request \in Request, Submit(c, e, request)
      PROVE  OnceInv'
  <2>1. /\ request.id \in RequestIds /\ fate[request.id] = "unused"
        /\ UNCHANGED <<requests, currentRequest>>
        /\ fate' = [fate EXCEPT ![request.id] = IF emergencyStop[e] THEN "rejected" ELSE "offered"]
    BY <1>2 DEF Submit, Request, thread
  <2>2. EachAcceptedOnce'
    <3>1. \A id \in RequestIds : fate'[id] = "accepted" <=> fate[id] = "accepted"
      BY <1>0, <2>1 DEF CarTypeOK
    <3>2. \A id \in RequestIds : AtMostOnce(id)' <=> AtMostOnce(id)
      BY <2>1 DEF AtMostOnce, InHand, InQueue
    <3>3. \A id \in RequestIds, f \in Elevators : Holds(f, id)' <=> Holds(f, id)
      BY <2>1 DEF Holds, InHand, InQueue
    <3> QED
      BY <1>0, <3>1, <3>2, <3>3 DEF EachAcceptedOnce
  <2>3. /\ \A d \in Callers : d # c => call'[d] = call[d]
        /\ call'[c].op = "admitted" => call'[c].request = request /\ ~emergencyStop[e]
    BY <1>0, <1>2 DEF Submit, Becomes, Adding, Idle
  <2>4. \A d \in Callers : call[d].op = "admitted" =>
          call[d].request.id \in RequestIds \ {request.id}
    BY <1>0, <2>1 DEF Request, OnceInv
  <2>5. fate'[request.id] = IF emergencyStop[e] THEN "rejected" ELSE "offered"
    BY <1>0, <2>1 DEF CarTypeOK
  <2>6. \A d \in Callers : d # c /\ call'[d].op = "admitted" => fate'[call'[d].request.id] = "offered"
    BY <1>0, <2>1, <2>3, <2>4 DEF OnceInv, CarTypeOK
  <2>7. \A d \in Callers : call'[d].op = "admitted" => fate'[call'[d].request.id] = "offered"
    BY <2>3, <2>5, <2>6
  <2>8. \A b, d \in Callers :
          call'[b].op = "admitted" /\ call'[d].op = "admitted"
            /\ call'[b].request.id = call'[d].request.id => b = d
    BY <2>3, <2>4 DEF OnceInv
  <2> QED
    BY <2>2, <2>7, <2>8 DEF OnceInv
<1>3. ASSUME \/ NotifyNewRequest(c) \/ NotifyStop(c) \/ Join(c)
             \/ FinishActivation(c) \/ FinishRelease(c)
             \/ \E e \in Elevators : \/ StartCar(c, e) \/ StopCar(c, e)
                                     \/ ActivateEmergency(c, e) \/ ReleaseEmergency(c, e)
      PROVE  OnceInv'
  <2>1. UNCHANGED <<requests, currentRequest, fate>>
    BY <1>3 DEF NotifyNewRequest, NotifyStop, Notify, Join, FinishActivation, RaiseStatus,
                FinishRelease, DropStatus, StartCar, Start, StopCar, LowerRunning,
                ActivateEmergency, RaiseFlag, ReleaseEmergency, DropFlag, carVars, thread, history
  <2>2. /\ \A d \in Callers : d # c => call'[d] = call[d]
        /\ call'[c].op # "admitted" \/ call'[c] = call[c]
    BY <1>0, <1>3 DEF NotifyNewRequest, NotifyStop, Join, FinishActivation, FinishRelease,
                StartCar, StopCar, ActivateEmergency, ReleaseEmergency, Becomes, In, Idle
  <2> QED
    BY <1>0, <2>1, <2>2, OnceFrame DEF OnceInv
<1> QED
  BY <1>1, <1>2, <1>3 DEF ContinueCall, NewCall

\* addRequest and processRequests (Elevator.cpp:55-112) neither lose nor double
\* a request, for any number of callers and cars.
THEOREM RequestsAreConserved == Spec => []EachAcceptedOnce
<1>1. Init => OnceInv
  BY DEF Init, CarInit, OnceInv, EachAcceptedOnce, AtMostOnce, Holds, InHand, InQueue, Idle
<1>2. OnceInv /\ UNCHANGED vars => OnceInv'
  BY OnceFrame DEF OnceInv, vars, carVars, thread, history
<1>3. CourseInv /\ OnceInv /\ [Next]_vars => OnceInv'
  BY <1>2, OnceCarStep, OnceCallerStep DEF Next
<1>4. OnceInv => EachAcceptedOnce
  BY DEF OnceInv
<1> QED
  BY <1>1, <1>3, <1>4, CourseHolds, PTL DEF Spec

-----------------------------------------------------------------------------
(* The travels of the cars: SharedElevator implements the steps of Trip.   *)

UnderWay == {"check", "travel", "doors"}

LEMMA GoalIs ==
  /\ Goal = [e \in Elevators |-> Goal[e]]
  /\ \A e \in Elevators : Goal[e] = IF pc[e] \in UnderWay THEN destinationFloor[e] ELSE 0
BY DEF Goal, UnderWay

\* A step that leaves the floors and the threads under way alone is none of Trip.
LEMMA TripFrame ==
  ASSUME UNCHANGED <<currentFloor, destinationFloor>>,
         \A e \in Elevators : pc'[e] \in UnderWay <=> pc[e] \in UnderWay
  PROVE  UNCHANGED Travels!vars
<1>1. Goal' = Goal
  BY DEF Goal, UnderWay
<1> QED
  BY <1>1 DEF Travels!vars

\* A step that touches the trip of one car.
LEMMA TripOfOne ==
  ASSUME CarTypeOK, NEW e \in Elevators, NEW label \in Labels,
         pc' = [pc EXCEPT ![e] = label],
         \A f \in Elevators : f # e => destinationFloor'[f] = destinationFloor[f]
  PROVE  Goal' = [Goal EXCEPT ![e] = IF label \in UnderWay THEN destinationFloor'[e] ELSE 0]
BY DEF Goal, UnderWay, CarTypeOK

\* The end of a leg that was travelled, at its floor or short of it.
LEMMA TripEnds ==
  ASSUME CarInv, NEW e \in Elevators, BreakOff(e) \/ CloseDoors(e)
  PROVE  Travels!Next
<1>1. /\ pc[e] \in UnderWay /\ UNCHANGED <<currentFloor, destinationFloor>>
      /\ \E label \in {"depart", "loop"} : pc' = [pc EXCEPT ![e] = label]
  BY DEF BreakOff, CloseDoors, EndLeg, UnderWay, cabin
<1>2. Goal' = [Goal EXCEPT ![e] = 0]
  BY <1>1, TripOfOne DEF CarInv, Labels, UnderWay
<1>3. Goal[e] # 0
  BY <1>1, GoalIs DEF CarInv, CarTypeOK, Floors
<1> QED
  BY <1>1, <1>2, <1>3 DEF Travels!Next, Travels!EndTrip, Travels!Nowhere

\* A leg begins at another floor than the one it leads to.
LEMMA TripBegins ==
  ASSUME CarInv, NEW e \in Elevators, SetOff(e)
  PROVE  Travels!Next
<1>1. /\ pc[e] = "depart" /\ LegFloor(e) # currentFloor[e] /\ UNCHANGED currentFloor
      /\ destinationFloor' = [destinationFloor EXCEPT ![e] = LegFloor(e)]
      /\ pc' = [pc EXCEPT ![e] = "check"]
  BY DEF IsThere, SetOff
<1>2. LegFloor(e) \in Floors
  BY <1>1, LegFloorIsFloor DEF Busy
<1>3. Goal' = [Goal EXCEPT ![e] = LegFloor(e)]
  <2>1. destinationFloor'[e] = LegFloor(e)
        /\ \A f \in Elevators : f # e => destinationFloor'[f] = destinationFloor[f]
    BY <1>1 DEF CarInv, CarTypeOK
  <2> QED
    BY <1>1, <2>1, TripOfOne DEF CarInv, Labels, UnderWay
<1>4. Goal[e] = 0
  BY <1>1, GoalIs DEF UnderWay
<1> QED
  BY <1>1, <1>2, <1>3, <1>4 DEF Travels!Next, Travels!SetOff, Travels!Nowhere

\* Between two floors the car comes closer to its goal.
LEMMA TripAdvances ==
  ASSUME CarInv, NEW e \in Elevators, MoveOneFloor(e)
  PROVE  Travels!Next
<1>1. /\ pc[e] = "travel" /\ UNCHANGED destinationFloor
      /\ currentFloor' = [currentFloor EXCEPT ![e] = NextFloor(e)]
      /\ \E label \in {"check", "doors"} : pc' = [pc EXCEPT ![e] = label]
  BY DEF MoveOneFloor
<1>2. /\ destinationFloor[e] = LegFloor(e) /\ LegFloor(e) \in Floors
      /\ currentFloor[e] \in Floors /\ direction[e] \in {"UP", "DOWN"}
      /\ direction[e] = "UP" => currentFloor[e] < LegFloor(e)
      /\ direction[e] = "DOWN" => currentFloor[e] > LegFloor(e)
  BY <1>1, LegFloorIsFloor DEF CarInv, CarTypeOK, OnCourse, Busy, Direction
<1>3. Goal[e] = LegFloor(e)
  BY <1>1, <1>2, GoalIs DEF UnderWay
<1>4. /\ LegFloor(e) # 0 /\ LegFloor(e) # currentFloor[e]
      /\ NextFloor(e) = Travels!Closer(currentFloor[e], LegFloor(e))
  BY <1>2 DEF NextFloor, Travels!Closer, Floors
<1>5. UNCHANGED Goal
  <2>1. \A f \in Elevators : pc'[f] \in UnderWay <=> pc[f] \in UnderWay
    BY <1>1 DEF UnderWay, CarInv, CarTypeOK
  <2> QED
    BY <1>1, <2>1 DEF Goal, UnderWay
<1> QED
  BY <1>1, <1>3, <1>4, <1>5 DEF Travels!Next, Travels!Advance, Travels!Nowhere

\* A step of the thread of a car.
LEMMA TripCarStep ==
  ASSUME CarInv, NEW e \in Elevators, ThreadStep(e) \/ SpuriousWakeup(e)
  PROVE  [Travels!Next]_Travels!vars
<1>0. CarTypeOK
  BY DEF CarInv
<1>1. CASE \/ LeaveLoop(e) \/ TakeLock(e) \/ Block(e) \/ SpuriousWakeup(e)
           \/ SpinInEmergency(e) \/ TakeRequest(e) \/ FindNothing(e) \/ SetIdle(e)
           \/ KeepTravelling(e) \/ AlreadyThere(e)
  <2>1. /\ UNCHANGED <<currentFloor, destinationFloor>>
        /\ \E label \in Labels : /\ pc' = [pc EXCEPT ![e] = label]
                                 /\ label \in UnderWay <=> pc[e] \in UnderWay
    BY <1>1 DEF LeaveLoop, TakeLock, Block, SpuriousWakeup, SpinInEmergency, TakeRequest,
                FindNothing, SetIdle, KeepTravelling, AlreadyThere, EndLeg, UnderWay, Labels,
                cabin
  <2>2. \A f \in Elevators : pc'[f] \in UnderWay <=> pc[f] \in UnderWay
    BY <1>0, <2>1 DEF CarTypeOK
  <2> QED
    BY <2>1, <2>2, TripFrame
<1> QED
  BY <1>1, TripEnds, TripBegins, TripAdvances DEF ThreadStep, MoveToFloor

\* What other threads call on a car is nothing to its trip: not even the end of
\* an emergency, which resets its status in the middle of it.
LEMMA TripCallerStep ==
  ASSUME CourseInv, NEW c \in Callers,
         ContinueCall(c) \/ \E e \in Elevators : NewCall(c, e)
  PROVE  UNCHANGED Travels!vars
<1>0. CarTypeOK
  BY DEF CourseInv, TypeOK
<1> DEFINE Apart == /\ UNCHANGED <<currentFloor, destinationFloor>>
                    /\ \A f \in Elevators : pc'[f] \in UnderWay <=> pc[f] \in UnderWay
<1> SUFFICES Apart
  BY TripFrame
<1> USE DEF carVars, cabin, thread
<1>1. ASSUME NEW e, Wake(e)
      PROVE  \A f \in Elevators : pc'[f] \in UnderWay <=> pc[f] \in UnderWay
  BY <1>0, <1>1 DEF Wake, UnderWay, CarTypeOK
<1>2. CASE PushRequest(c) \/ Join(c)
  BY <1>2 DEF PushRequest, Push, Join
<1>3. CASE NotifyNewRequest(c) \/ FinishActivation(c) \/ NotifyStop(c)
  BY <1>1, <1>3 DEF NotifyNewRequest, FinishActivation, NotifyStop, Notify, RaiseStatus
<1>4. CASE FinishRelease(c)
  BY <1>4 DEF FinishRelease, DropStatus
<1>5. ASSUME NEW e \in Elevators, NewCall(c, e)
      PROVE  Apart
  <2>1. CASE StartCar(c, e)
    <3>1. pc[e] \in {"off", "exited"} /\ pc' = [pc EXCEPT ![e] = "loop"]
      BY <2>1, CallValues DEF StartCar, Start, CourseInv, ThreadOK
    <3> QED
      BY <1>0, <2>1, <3>1 DEF StartCar, Start, UnderWay, CarTypeOK
  <2>2. CASE ~StartCar(c, e)
    BY <1>5, <2>2 DEF NewCall, StopCar, LowerRunning, Submit, ActivateEmergency, RaiseFlag,
                      ReleaseEmergency, DropFlag
  <2> QED
    BY <2>1, <2>2
<1> QED
  BY <1>2, <1>3, <1>4, <1>5 DEF ContinueCall

\* moveToFloor (Elevator.cpp:114-147) makes trips: a car sets off for a floor
\* of the building, each of its steps brings it one floor closer to it, and it
\* leaves the trip there or where it breaks off; no thread that calls it and no
\* emergency turns it round in between.  That each trip ends needs fairness.
THEOREM TravelsInTrips == Spec => Travels!Init /\ [][Travels!Next]_Travels!vars
<1>1. Init => Travels!Init
  <2> SUFFICES ASSUME Init PROVE Travels!Init
    OBVIOUS
  <2>1. currentFloor \in [Elevators -> Floors]
    BY CarInitInv DEF Init, CarInv, CarTypeOK
  <2>2. Goal = [e \in Elevators |-> 0]
    BY DEF Goal, Init, CarInit
  <2> QED
    BY <2>1, <2>2 DEF Travels!Init, Travels!Nowhere
<1>2. CourseInv /\ [Next]_vars => [Travels!Next]_Travels!vars
  <2> SUFFICES ASSUME CourseInv, [Next]_vars PROVE [Travels!Next]_Travels!vars
    OBVIOUS
  <2>1. CASE \E e \in Elevators : CarStep(e) \/ WakesByItself(e)
    BY <2>1, CourseOfCars, TripCarStep DEF CarStep, WakesByItself
  <2>2. CASE \E c \in Callers : ContinueCall(c) \/ \E e \in Elevators : NewCall(c, e)
    BY <2>2, TripCallerStep
  <2>3. CASE UNCHANGED vars
    BY <2>3, TripFrame DEF vars, carVars, cabin, thread
  <2> QED
    BY <2>1, <2>2, <2>3 DEF Next
<1> QED
  BY <1>1, <1>2, CourseHolds, PTL DEF Spec
=============================================================================
