----------------------- MODULE ElevatorControllerProofs -----------------------
(***************************************************************************)
(* What ElevatorController promises, for every number of floors, cars,     *)
(* clients and requests: the life of its threads, the queue between its    *)
(* clients and its dispatcher, the loops of an emergency over the cars,    *)
(* and the way of a request from a client to a car and to its end.         *)
(***************************************************************************)
EXTENDS ElevatorController, ElevatorProofs

-----------------------------------------------------------------------------
(* Types, and the life of the threads.                                     *)

Holding == {"scan", "offer", "push", "requeue"}
Chosen == {"offer", "push", "notify"}

\* What the dispatcher has at each of its labels: a request from the pop to the
\* push, a position in the vector while it looks for a car, and a car when it
\* has found one.  When it has found the predicate true and the controller
\* runs, the queue is not empty.
DispatcherOK ==
  /\ dispatcher.at \in Holding <=> dispatcher.request # NoRequest
  /\ dispatcher.at = "scan" => dispatcher.next \in Elevators
  /\ dispatcher.at \in Chosen => dispatcher.scan.best \in Elevators
  /\ dispatcher.at = "ready" /\ controllerRunning => pendingRequests # <<>>

Gone == {"off", "exited"}

\* How far stop() has come: it returns when it has joined one car's thread after
\* the other, and then the dispatcher's.
StopOK ==
  /\ owner.op # "idle" => ~controllerRunning
  /\ owner.op \in {"stopping", "lowered", "joining"} =>
       \A e \in Elevators : e < owner.car => pc[e] \in Gone
  /\ owner.op \in {"waking", "joiningDispatcher"} \/ (owner.op = "idle" /\ ~controllerRunning) =>
       \A e \in Elevators : pc[e] \in Gone
  /\ owner.op = "idle" /\ ~controllerRunning => dispatcher.at \in Gone

\* The dispatcher sleeps only while somebody has yet to notify it; about to fall
\* asleep it holds the mutex, so that the queue is as empty as it was.
SleepOK ==
  /\ dispatcher.at = "block" => pendingRequests = <<>>
  /\ DispatcherIsWoken

ControlInv == TypeOK /\ CarInv /\ DispatcherOK /\ StopOK /\ SleepOK

\* The values that the dispatcher, a client and the owner take.
LEMMA DispatcherAtTyped ==
  ASSUME NEW label \in DispatcherLabels
  PROVE  /\ DispatcherAt(label) \in Dispatcher
         /\ DispatcherAt(label).at = label /\ DispatcherAt(label).request = NoRequest
BY ElevatorsAssumption DEF DispatcherAt, Dispatcher, EmptyScan

LEMMA AtTyped ==
  /\ 0 \in Elevators /\ Idle = At("idle", 0)
  /\ \A op, e : At(op, e).op = op /\ At(op, e).car = e
  /\ \A op \in OwnerOps, e \in Elevators : At(op, e) \in [op : OwnerOps, car : Elevators]
BY ElevatorsAssumption DEF At, Idle, Elevators

LEMMA InCallTyped ==
  /\ NoCall = InCall("idle", 0) /\ NoCall \in Calls /\ NoCall.op = "idle"
  /\ \A op, e : InCall(op, e).op = op /\ InCall(op, e).car = e
  /\ \A op \in ClientOps, e \in Elevators : InCall(op, e) \in Calls
BY ElevatorsAssumption DEF InCall, NoCall, Calls, ClientOps, Elevators

\* One iteration of findBestElevator keeps the types of its variables.
LEMMA ConsiderTyped ==
  ASSUME NEW scan \in [best : Elevators \cup {NoCar}, shortest : Int],
         NEW e \in Elevators, NEW car \in Snapshot, NEW floor \in Floors
  PROVE  Consider(scan, e, car, floor) \in [best : Elevators \cup {NoCar}, shortest : Int]
<1>1. FloorsBetween(car.floor, floor) \in Int /\ NumFloors \in Int
  BY FloorsAssumption DEF Snapshot, Floors, FloorsBetween
<1>2. CalculateDistance(car, floor) \in Int
  BY <1>1 DEF CalculateDistance
<1>3. Cost(car, floor) \in Int
  BY <1>1, <1>2 DEF Cost
<1> QED
  BY <1>3 DEF Consider

\* Before start() there are no threads.
LEMMA ControlInit == Init => ControlInv
<1> SUFFICES ASSUME Init PROVE ControlInv
  OBVIOUS
<1>1. CarInv
  BY CarInitInv DEF Init
<1>2. dispatcher \in Dispatcher /\ dispatcher.at = "off" /\ dispatcher.request = NoRequest
  BY DispatcherAtTyped DEF Init, DispatcherLabels
<1>3. owner \in [op : OwnerOps, car : Elevators] /\ owner.op = "idle"
  BY AtTyped DEF Init, OwnerOps
<1>4. client \in [Clients -> Calls]
  BY InCallTyped DEF Init
<1>5. TypeOK
  <2>1. CarTypeOK
    BY <1>1 DEF CarInv
  <2>2. controllerRunning \in BOOLEAN
    BY DEF Init
  <2>3. pendingRequests \in Seq(Request)
    BY DEF Init
  <2> QED
    BY <1>2, <1>3, <1>4, <2>1, <2>2, <2>3 DEF TypeOK
<1>6. DispatcherOK /\ SleepOK
  BY <1>2 DEF DispatcherOK, SleepOK, DispatcherIsWoken, Holding, Chosen
<1>7. StopOK
  BY <1>2, <1>3 DEF Init, CarInit, StopOK, Gone
<1> QED
  BY <1>1, <1>5, <1>6, <1>7 DEF ControlInv

\* What stop() has found gone stays gone until the next start().
LEMMA StopFrame ==
  ASSUME StopOK, UNCHANGED <<owner, controllerRunning>>,
         \A e \in Elevators : pc[e] \in Gone => pc'[e] \in Gone,
         dispatcher.at \in Gone => dispatcher'.at \in Gone
  PROVE  StopOK'
BY DEF StopOK

-----------------------------------------------------------------------------
\* A step of the thread of a car.
LEMMA ControlCarStep ==
  ASSUME ControlInv, NEW e \in Elevators, CarStep(e) \/ WakesByItself(e)
  PROVE  ControlInv'
<1>1. CarInv' /\ UNCHANGED controllerVars
  BY ThreadStepKeeps DEF ControlInv, CarStep, WakesByItself
<1>2. \A f \in Elevators : pc[f] \in Gone => pc'[f] = pc[f]
  BY ThreadFrame DEF ControlInv, CarInv, CarStep, WakesByItself, Gone
<1>3. TypeOK' /\ DispatcherOK' /\ SleepOK'
  BY <1>1 DEF ControlInv, CarInv, TypeOK, DispatcherOK, SleepOK, DispatcherIsWoken,
              controllerVars
<1>4. StopOK'
  BY <1>1, <1>2, StopFrame DEF ControlInv, controllerVars
<1> QED
  BY <1>1, <1>3, <1>4 DEF ControlInv

\* The cars of the dispatcher's steps: it pushes to one and notifies it.
LEMMA DispatcherKeepsCars ==
  ASSUME ControlInv, DispatcherStep \/ DispatcherWakesByItself
  PROVE  /\ CarInv' /\ \A e \in Elevators : pc[e] \in Gone => pc'[e] \in Gone
         /\ UNCHANGED <<controllerRunning, client, owner>>
<1>0. CarInv /\ CarTypeOK /\ dispatcher \in Dispatcher /\ DispatcherOK
  BY DEF ControlInv, TypeOK
<1>1. CASE OfferRefused
  <2>1. dispatcher.request \in Request
    BY <1>0, <1>1 DEF OfferRefused, DispatcherOK, Dispatcher, Holding
  <2>2. fate' \in [RequestIds -> Fates]
    BY <1>0, <1>1, <2>1 DEF OfferRefused, CarTypeOK, Fates, Request
  <2> QED
    BY <1>0, <1>1, <2>2, FateKeeps DEF OfferRefused, thread
<1>2. CASE PushToCar
  <2>1. dispatcher.request \in Request /\ dispatcher.scan.best \in Elevators
    BY <1>0, <1>2 DEF PushToCar, DispatcherOK, Dispatcher, Holding, Chosen
  <2> QED
    BY <1>0, <1>2, <2>1, PushKeeps DEF PushToCar, Push, thread
<1>3. CASE NotifyCar
  <2>1. dispatcher.scan.best \in Elevators
    BY <1>0, <1>3 DEF NotifyCar, DispatcherOK, Chosen
  <2> QED
    BY <1>0, <1>3, <2>1, MethodKeeps DEF NotifyCar, Notify, Wake, CarTypeOK, Gone
<1>4. CASE ~(OfferRefused \/ PushToCar \/ NotifyCar)
  <2>1. UNCHANGED <<carVars, controllerRunning, client, owner>>
    BY <1>4 DEF DispatcherStep, DispatcherWakesByItself, DispatcherLeavesLoop,
                DispatcherTakesLock, DispatcherBlocks, PopPending, FindBestElevator,
                OfferAccepted, Requeue
  <2>2. 0 \in Elevators
    BY AtTyped
  <2> QED
    BY <1>0, <2>1, <2>2, MethodKeeps DEF carVars, thread
<1> QED
  BY <1>1, <1>2, <1>3, <1>4

\* What the dispatcher does to its own variables.
LEMMA DispatcherKeepsOwn ==
  ASSUME ControlInv, DispatcherStep \/ DispatcherWakesByItself
  PROVE  /\ dispatcher' \in Dispatcher /\ pendingRequests' \in Seq(Request)
         /\ DispatcherOK' /\ SleepOK' /\ dispatcher.at \notin Gone
<1>0. /\ dispatcher \in Dispatcher /\ pendingRequests \in Seq(Request)
      /\ DispatcherOK /\ SleepOK /\ UNCHANGED <<controllerRunning, client, owner>>
  BY DispatcherKeepsCars DEF ControlInv, TypeOK
<1> USE DEF DispatcherOK, SleepOK, DispatcherIsWoken, Gone, Holding, Chosen
<1>1. ASSUME NEW label \in DispatcherLabels \ (Holding \cup Chosen),
             dispatcher' = DispatcherAt(label), dispatcher.at \notin Gone,
             pendingRequests' \in Seq(Request),
             label = "ready" /\ controllerRunning => pendingRequests' # <<>>,
             label = "block" => pendingRequests' = <<>> /\ controllerRunning,
             label = "waiting" => dispatcher.at = "block" /\ pendingRequests' = pendingRequests
      PROVE  /\ dispatcher' \in Dispatcher /\ pendingRequests' \in Seq(Request)
             /\ DispatcherOK' /\ SleepOK' /\ dispatcher.at \notin Gone
  <2>1. dispatcher' \in Dispatcher /\ dispatcher'.at = label /\ dispatcher'.request = NoRequest
    BY <1>1, DispatcherAtTyped
  <2> QED
    BY <1>0, <1>1, <2>1
<1>2. CASE DispatcherLeavesLoop \/ DispatcherWakesByItself \/ OfferRefused \/ NotifyCar
  BY <1>0, <1>1, <1>2 DEF DispatcherLeavesLoop, DispatcherWakesByItself, OfferRefused,
                          NotifyCar, DispatcherLabels
<1>3. CASE DispatcherTakesLock
  BY <1>0, <1>1, <1>3 DEF DispatcherTakesLock, DispatcherLabels
<1>4. CASE DispatcherBlocks
  BY <1>0, <1>1, <1>4 DEF DispatcherBlocks, DispatcherLabels
<1>5. CASE Requeue
  <2>1. dispatcher.request \in Request
    BY <1>0, <1>5 DEF Requeue, Dispatcher
  <2>2. pendingRequests' \in Seq(Request) /\ dispatcher' = DispatcherAt("loop")
        /\ dispatcher.at \notin Gone
    BY <1>0, <1>5, <2>1 DEF Requeue
  <2> QED
    BY <1>1, <2>2 DEF DispatcherLabels
<1>6. CASE PopPending
  <2>1. pendingRequests # <<>>
    BY <1>0, <1>6 DEF PopPending
  <2>2. Head(pendingRequests) \in Request /\ Tail(pendingRequests) \in Seq(Request)
    BY <1>0, <2>1
  <2>3. Head(pendingRequests) # NoRequest
    BY <2>2, NoRequestAssumption
  <2>4. /\ dispatcher' \in Dispatcher /\ dispatcher'.at = "scan" /\ dispatcher'.next = 0
        /\ dispatcher'.request = Head(pendingRequests)
    <3>1. DispatcherAt("scan") \in Dispatcher /\ DispatcherAt("scan").at = "scan"
          /\ DispatcherAt("scan").next = 0
      BY DispatcherAtTyped DEF DispatcherLabels, DispatcherAt
    <3> QED
      BY <1>6, <2>2, <3>1 DEF PopPending, Dispatcher
  <2> QED
    BY <1>0, <1>6, <2>2, <2>3, <2>4, AtTyped DEF PopPending
<1>7. CASE FindBestElevator
  <2> DEFINE e == dispatcher.next
             s == Consider(dispatcher.scan, e, SnapshotOf(e), dispatcher.request.fromFloor)
             to == IF e + 1 < NumElevators THEN "scan"
                   ELSE IF s.best = NoCar THEN "requeue" ELSE "offer"
  <2>1. e \in Elevators /\ dispatcher.request \in Request /\ dispatcher.at = "scan"
    BY <1>0, <1>7 DEF FindBestElevator, Dispatcher
  <2>2. SnapshotOf(e) \in Snapshot
    BY <2>1 DEF ControlInv, TypeOK, CarTypeOK, SnapshotOf, Snapshot
  <2>3. s \in [best : Elevators \cup {NoCar}, shortest : Int]
    BY <1>0, <2>1, <2>2, ConsiderTyped DEF Dispatcher, Request
  <2>4. e + 1 \in 0..NumElevators /\ (e + 1 < NumElevators => e + 1 \in Elevators)
    BY <2>1, ElevatorsAssumption DEF Elevators
  <2>5. /\ dispatcher' = [dispatcher EXCEPT !.scan = s, !.next = e + 1, !.at = to]
        /\ UNCHANGED pendingRequests
    BY <1>7 DEF FindBestElevator
  <2>6. to \in {"scan", "requeue", "offer"} /\ (to = "scan" => e + 1 < NumElevators)
        /\ (to = "offer" => s.best \in Elevators)
    BY <2>3
  <2> HIDE DEF e, s, to
  <2>7. /\ dispatcher' \in Dispatcher /\ dispatcher'.at = to /\ dispatcher'.next = e + 1
        /\ dispatcher'.scan = s /\ dispatcher'.request = dispatcher.request
    BY <1>0, <2>3, <2>4, <2>5, <2>6 DEF Dispatcher, DispatcherLabels
  <2> QED
    BY <1>0, <2>1, <2>4, <2>5, <2>6, <2>7
<1>8. CASE OfferAccepted \/ PushToCar
  <2>1. /\ UNCHANGED pendingRequests
        /\ \/ /\ dispatcher.at = "offer"
              /\ dispatcher' = [dispatcher EXCEPT !.at = "push"]
           \/ /\ dispatcher.at = "push"
              /\ dispatcher' = [dispatcher EXCEPT !.at = "notify", !.request = NoRequest]
    BY <1>8 DEF OfferAccepted, PushToCar
  <2> QED
    BY <1>0, <2>1 DEF Dispatcher, DispatcherLabels
<1> QED
  BY <1>2, <1>3, <1>4, <1>5, <1>6, <1>7, <1>8 DEF DispatcherStep

\* A step of the dispatcher.
LEMMA ControlDispatcherStep ==
  ASSUME ControlInv, DispatcherStep \/ DispatcherWakesByItself
  PROVE  ControlInv'
<1>1. /\ CarInv' /\ \A e \in Elevators : pc[e] \in Gone => pc'[e] \in Gone
      /\ UNCHANGED <<controllerRunning, client, owner>>
  BY DispatcherKeepsCars
<1>2. /\ dispatcher' \in Dispatcher /\ pendingRequests' \in Seq(Request)
      /\ DispatcherOK' /\ SleepOK' /\ dispatcher.at \notin Gone
  BY DispatcherKeepsOwn
<1>3. StopOK'
  BY <1>1, <1>2, StopFrame DEF ControlInv
<1>4. TypeOK'
  BY <1>1, <1>2 DEF ControlInv, TypeOK, CarInv
<1> QED
  BY <1>1, <1>2, <1>3, <1>4 DEF ControlInv

-----------------------------------------------------------------------------
(* The clients.                                                            *)

\* A step of another client leaves a client where it is; it may cross its call.
Undisturbed(d) ==
  /\ client'[d].op = client[d].op /\ client'[d].car = client[d].car
  /\ client[d].crossed => client'[d].crossed

\* A client changes what it is in the middle of, and nothing else of that kind.
LEMMA ClientBecomesTyped ==
  ASSUME TypeOK, NEW c \in Clients, NEW what \in Calls, ClientBecomes(c, what)
  PROVE  /\ client' \in [Clients -> Calls]
         /\ client'[c] = what
         /\ \A d \in Clients : d # c => Undisturbed(d)
BY DEF TypeOK, ClientBecomes, Undisturbed

\* The loop over the cars ends behind the last one.
LEMMA NextCarTyped ==
  ASSUME TypeOK, NEW c \in Clients, NEW op \in ClientOps, NextCar(c, op)
  PROVE  \E what \in Calls :
           /\ ClientBecomes(c, what)
           /\ \/ /\ client[c].car + 1 < NumElevators
                 /\ what.op = op /\ what.car = client[c].car + 1
                 /\ what.crossed = client[c].crossed
              \/ ~(client[c].car + 1 < NumElevators) /\ what = NoCall
<1>1. client[c] \in Calls /\ client[c].car \in Elevators
  BY DEF TypeOK, Calls
<1>2. CASE client[c].car + 1 < NumElevators
  <2> DEFINE what == [client[c] EXCEPT !.op = op, !.car = client[c].car + 1]
  <2>1. client[c].car + 1 \in Elevators
    BY <1>1, <1>2, ElevatorsAssumption DEF Elevators
  <2>2. /\ what \in Calls /\ what.op = op /\ what.car = client[c].car + 1
        /\ what.crossed = client[c].crossed
    BY <1>1, <2>1 DEF Calls
  <2>3. ClientBecomes(c, what)
    BY <1>2 DEF NextCar
  <2> QED
    BY <1>2, <2>2, <2>3
<1>3. CASE ~(client[c].car + 1 < NumElevators)
  BY <1>3, InCallTyped DEF NextCar
<1> QED
  BY <1>2, <1>3

\* A client begins an emergency call with the first car.
LEMMA CallBegins ==
  ASSUME TypeOK, NEW c \in Clients, NEW op \in ClientOps, BeginEmergencyCall(c, op)
  PROVE  /\ client' \in [Clients -> Calls]
         /\ client'[c].op = op /\ client'[c].car = 0
         /\ client'[c].crossed = (Opposing(c, op) # {})
         /\ \A d \in Clients : d # c => Undisturbed(d)
         /\ \A d \in Opposing(c, op) : client'[d].crossed
<1> DEFINE crosses == Opposing(c, op) # {}
           mine == [InCall(op, 0) EXCEPT !.crossed = crosses]
           others(d) == [client[d] EXCEPT !.crossed = @ \/ d \in Opposing(c, op)]
<1>1. client' = [d \in Clients |-> IF d = c THEN mine ELSE others(d)]
  BY DEF BeginEmergencyCall
<1>2. /\ mine \in Calls /\ mine.op = op /\ mine.car = 0
      /\ mine.crossed = (Opposing(c, op) # {})
  <2>1. crosses \in BOOLEAN /\ InCall(op, 0) \in Calls
    BY InCallTyped, AtTyped
  <2> HIDE DEF crosses
  <2>2. /\ mine \in Calls /\ mine.op = op /\ mine.car = 0
        /\ mine.crossed = crosses
    BY <2>1, InCallTyped DEF Calls
  <2> QED
    BY <2>2 DEF crosses
<1>3. \A d \in Clients : /\ others(d) \in Calls
                         /\ others(d).op = client[d].op /\ others(d).car = client[d].car
                         /\ others(d).crossed = (client[d].crossed \/ d \in Opposing(c, op))
  BY DEF TypeOK, Calls
<1>4. \A d \in Opposing(c, op) : d \in Clients /\ d # c
  BY DEF Opposing
<1> HIDE DEF mine, others
<1> QED
  BY <1>1, <1>2, <1>3, <1>4 DEF Undisturbed

\* What a step of a client does to itself.
LEMMA ClientMoves ==
  ASSUME TypeOK, NEW c \in Clients, ContinueCall(c) \/ NewCall(c)
  PROVE  /\ client' \in [Clients -> Calls]
         /\ \A d \in Clients : d # c => Undisturbed(d)
         /\ client[c].car \in Elevators
<1>0. client[c] \in Calls /\ client[c].car \in Elevators
  BY DEF TypeOK, Calls
<1>b. CASE BeginEmergencyCall(c, "activate") \/ BeginEmergencyCall(c, "release")
  BY <1>0, <1>b, CallBegins DEF ClientOps
<1>s. SUFFICES ASSUME ~(BeginEmergencyCall(c, "activate") \/ BeginEmergencyCall(c, "release"))
               PROVE  \E what \in Calls : ClientBecomes(c, what)
  BY <1>0, <1>b, ClientBecomesTyped
<1>1. ASSUME NEW id \in RequestIds, NEW trip \in Asked, AddRequest(c, id, trip[1], trip[2])
      PROVE  \E what \in Calls : ClientBecomes(c, what)
  BY <1>1, AtTyped, InCallTyped DEF AddRequest, ClientOps
<1>2. CASE NotifyDispatcher(c)
  BY <1>2, InCallTyped DEF NotifyDispatcher
<1>4. CASE EmergencyStopFlag(c) \/ ReleaseFlag(c)
  <2>1. [client[c] EXCEPT !.op = "flagged"] \in Calls
        /\ [client[c] EXCEPT !.op = "cleared"] \in Calls
    BY <1>0 DEF ClientOps, Calls
  <2> QED
    BY <1>4, <2>1 DEF EmergencyStopFlag, ReleaseFlag
<1>5. CASE EmergencyStopStatus(c) \/ ReleaseStatus(c)
  BY <1>5, NextCarTyped DEF EmergencyStopStatus, ReleaseStatus, ClientOps
<1> QED
  BY <1>s, <1>1, <1>2, <1>4, <1>5 DEF ContinueCall, NewCall

\* The request that addRequest makes of valid floors is one of the building.
LEMMA ValidRequest ==
  ASSUME NEW id \in RequestIds, NEW trip \in Asked, Valid(trip[1], trip[2])
  PROVE  [id |-> id, fromFloor |-> trip[1], toFloor |-> trip[2]] \in Request
<1>1. trip[1] \in Int /\ trip[2] \in Int
  BY AskedAssumption
<1>2. trip[1] \in Floors /\ trip[2] \in Floors \cup {CallOnly}
  BY <1>1, FloorsAssumption DEF Valid, Floors, CallOnly
<1> QED
  BY <1>2 DEF Request

\* What a step of a client does to the cars: it offers a request, or it takes a
\* step of emergencyStopActivate or emergencyStopRelease on one of them.
LEMMA ClientKeepsCars ==
  ASSUME ControlInv, NEW c \in Clients, ContinueCall(c) \/ NewCall(c)
  PROVE  /\ CarInv' /\ \A e \in Elevators : pc[e] \in Gone => pc'[e] \in Gone
         /\ UNCHANGED <<controllerRunning, owner>>
<1>0. CarInv /\ CarTypeOK /\ client[c].car \in Elevators
  BY ClientMoves DEF ControlInv, CarInv
<1>1. ASSUME NEW id \in RequestIds, NEW trip \in Asked, AddRequest(c, id, trip[1], trip[2])
      PROVE  /\ CarInv' /\ \A e \in Elevators : pc[e] \in Gone => pc'[e] \in Gone
             /\ UNCHANGED <<controllerRunning, owner>>
  <2>1. fate' \in [RequestIds -> Fates]
    BY <1>0, <1>1 DEF AddRequest, CarTypeOK, Fates
  <2> QED
    BY <1>0, <1>1, <2>1, FateKeeps DEF AddRequest, thread
<1>2. CASE NotifyDispatcher(c) \/ BeginEmergencyCall(c, "activate") \/ BeginEmergencyCall(c, "release")
  <2>1. UNCHANGED <<carVars, controllerRunning, owner>>
    BY <1>2 DEF NotifyDispatcher, BeginEmergencyCall
  <2> QED
    BY <1>0, <2>1, MethodKeeps DEF carVars, thread
<1>3. CASE EmergencyStopFlag(c)
  BY <1>0, <1>3, MethodKeeps DEF EmergencyStopFlag, RaiseFlag, thread
<1>4. CASE EmergencyStopStatus(c)
  BY <1>0, <1>4, MethodKeeps DEF EmergencyStopStatus, RaiseStatus, Wake, CarTypeOK, Gone
<1>5. CASE ReleaseFlag(c)
  BY <1>0, <1>5, MethodKeeps DEF ReleaseFlag, DropFlag, thread
<1>6. CASE ReleaseStatus(c)
  BY <1>0, <1>6, MethodKeeps DEF ReleaseStatus, DropStatus, thread
<1> QED
  BY <1>1, <1>2, <1>3, <1>4, <1>5, <1>6 DEF ContinueCall, NewCall

\* A step of a client keeps the dispatcher's queue: who has pushed to it is about
\* to notify the dispatcher, and who notifies finds it awake or wakes it.
LEMMA ControlClientStep ==
  ASSUME ControlInv, NEW c \in Clients, ContinueCall(c) \/ NewCall(c)
  PROVE  ControlInv'
<1>0. /\ dispatcher \in Dispatcher /\ pendingRequests \in Seq(Request)
      /\ DispatcherOK /\ SleepOK
  BY DEF ControlInv, TypeOK
<1>1. /\ CarInv' /\ \A e \in Elevators : pc[e] \in Gone => pc'[e] \in Gone
      /\ UNCHANGED <<controllerRunning, owner>>
  BY ClientKeepsCars
<1>2. /\ client' \in [Clients -> Calls]
      /\ \A d \in Clients : d # c => client'[d].op = client[d].op
  BY ClientMoves DEF ControlInv, Undisturbed
<1> DEFINE Goal == /\ dispatcher' \in Dispatcher /\ pendingRequests' \in Seq(Request)
                   /\ DispatcherOK' /\ SleepOK'
                   /\ dispatcher.at \in Gone => dispatcher'.at \in Gone
<1>3. SUFFICES Goal
  <2>1. TypeOK'
    BY <1>1, <1>2, <1>3 DEF ControlInv, TypeOK, CarInv
  <2>2. StopOK'
    BY <1>1, <1>3, StopFrame DEF ControlInv
  <2> QED
    BY <1>1, <1>3, <2>1, <2>2 DEF ControlInv
<1> USE DEF DispatcherOK, SleepOK, DispatcherIsWoken, Gone
<1>4. ASSUME NEW id \in RequestIds, NEW trip \in Asked, AddRequest(c, id, trip[1], trip[2])
      PROVE  Goal
  <2> DEFINE request == [id |-> id, fromFloor |-> trip[1], toFloor |-> trip[2]]
  <2>1. /\ request \in Request /\ pendingRequests' = Append(pendingRequests, request)
        /\ dispatcher' = dispatcher /\ dispatcher.at \notin {"block", "ready"}
    BY <1>4, ValidRequest DEF AddRequest, HoldsQueueMutex
  <2>2. client'[c].op = "pushed"
    BY <1>4, InCallTyped DEF AddRequest, ClientBecomes, ControlInv, TypeOK
  <2> HIDE DEF request
  <2>3. pendingRequests' \in Seq(Request)
    BY <1>0, <2>1
  <2> QED
    BY <1>0, <1>1, <2>1, <2>2, <2>3
<1>5. CASE NotifyDispatcher(c)
  <2>1. UNCHANGED pendingRequests
    BY <1>5 DEF NotifyDispatcher
  <2>2. CASE dispatcher.at = "waiting"
    <3>1. dispatcher' = DispatcherAt("loop")
      BY <1>5, <2>2 DEF NotifyDispatcher, WakeDispatcher
    <3>2. dispatcher' \in Dispatcher /\ dispatcher'.at = "loop" /\ dispatcher'.request = NoRequest
      BY <3>1, DispatcherAtTyped DEF DispatcherLabels
    <3> QED
      BY <1>0, <2>1, <2>2, <3>2 DEF Holding, Chosen
  <2>3. CASE dispatcher.at # "waiting"
    <3>1. dispatcher' = dispatcher
      BY <1>5, <2>3 DEF NotifyDispatcher, WakeDispatcher
    <3> QED
      BY <1>0, <1>1, <2>1, <2>3, <3>1
  <2> QED
    BY <2>2, <2>3
<1>6. ASSUME \/ BeginEmergencyCall(c, "activate") \/ BeginEmergencyCall(c, "release")
             \/ EmergencyStopFlag(c) \/ EmergencyStopStatus(c)
             \/ ReleaseFlag(c) \/ ReleaseStatus(c)
      PROVE  Goal
  <2>1. UNCHANGED <<dispatcher, pendingRequests>> /\ client[c].op # "pushed"
    BY <1>6, InCallTyped DEF BeginEmergencyCall, EmergencyStopFlag, EmergencyStopStatus,
                         ReleaseFlag, ReleaseStatus
  <2> QED
    BY <1>0, <1>1, <1>2, <2>1
<1> QED
  BY <1>4, <1>5, <1>6 DEF ContinueCall, NewCall

-----------------------------------------------------------------------------
(* The owner.                                                              *)

\* start() finds no thread that it could start again, and every car at rest.
LEMMA StartAllKeepsCars ==
  ASSUME ControlInv, StartAll PROVE CarInv'
<1>1. \A e \in Elevators : pc[e] \in Gone
  BY AtTyped DEF ControlInv, StopOK, StartAll
<1>2. /\ running' \in [Elevators -> BOOLEAN]
      /\ pc' = [e \in Elevators |-> "loop"]
      /\ overrun' \in [Elevators -> Nat]
      /\ UNCHANGED <<cabin, emergencyStop, requests, leg, currentRequest, fate, boarded, cut>>
  BY DEF StartAll
<1>3. CarTypeOK'
  BY <1>2 DEF ControlInv, CarInv, CarTypeOK, cabin, Labels
<1>4. HandOK'
  BY <1>1, <1>2 DEF ControlInv, CarInv, HandOK, Busy, Gone
<1>5. OnCourse'
  BY <1>2 DEF OnCourse
<1> QED
  BY <1>3, <1>4, <1>5 DEF CarInv

\* What start() and the steps of stop() do to the cars, and where the owner is
\* afterwards.
LEMMA ControlStart ==
  ASSUME ControlInv, StartAll PROVE ControlInv'
<1>1. CarInv'
  BY StartAllKeepsCars
<1>2. /\ dispatcher' = DispatcherAt("loop") /\ controllerRunning' = TRUE
      /\ UNCHANGED <<pendingRequests, client, owner>> /\ owner.op = "idle"
  BY AtTyped DEF StartAll
<1>3. dispatcher' \in Dispatcher /\ dispatcher'.at = "loop" /\ dispatcher'.request = NoRequest
  BY <1>2, DispatcherAtTyped DEF DispatcherLabels
<1>4. TypeOK'
  BY <1>1, <1>2, <1>3 DEF ControlInv, CarInv, TypeOK
<1>5. DispatcherOK' /\ SleepOK'
  BY <1>3 DEF DispatcherOK, SleepOK, DispatcherIsWoken, Holding, Chosen
<1>6. StopOK'
  BY <1>2 DEF StopOK
<1> QED
  BY <1>1, <1>4, <1>5, <1>6 DEF ControlInv

\* stop() resets running and then has the dispatcher still to notify.
LEMMA ControlBeginStop ==
  ASSUME ControlInv, BeginStop PROVE ControlInv'
<1>1. /\ UNCHANGED <<carVars, pendingRequests, dispatcher, client>>
      /\ controllerRunning' = FALSE
      /\ owner' \in [op : OwnerOps, car : Elevators] /\ owner'.op = "stopping" /\ owner'.car = 0
  BY AtTyped DEF BeginStop, OwnerOps
<1>2. CarInv'
  BY <1>1, AtTyped, MethodKeeps DEF ControlInv
<1>3. TypeOK'
  BY <1>1, <1>2 DEF ControlInv, CarInv, TypeOK
<1>4. DispatcherOK' /\ SleepOK'
  BY <1>1 DEF ControlInv, DispatcherOK, SleepOK, DispatcherIsWoken, BeginStop
<1>5. StopOK'
  BY <1>1 DEF StopOK, Elevators
<1> QED
  BY <1>2, <1>3, <1>4, <1>5 DEF ControlInv

\* The rest of stop(): each car's thread is joined before the next car is
\* stopped, and the dispatcher is notified under its mutex and joined.
LEMMA ControlContinueStop ==
  ASSUME ControlInv, ContinueStop PROVE ControlInv'
<1>0. /\ owner \in [op : OwnerOps, car : Elevators] /\ owner.car \in Elevators
      /\ CarInv /\ CarTypeOK /\ StopOK /\ DispatcherOK /\ SleepOK
      /\ ~controllerRunning /\ UNCHANGED <<pendingRequests, controllerRunning, client>>
  BY DEF ControlInv, TypeOK, StopOK, ContinueStop, StopLowersRunning, StopNotifiesCar,
         StopJoinsCar, StopWakesDispatcher, StopJoinsDispatcher
<1>1. CarInv' /\ \A e \in Elevators : pc[e] \in Gone => pc'[e] \in Gone
  <2>1. CASE StopLowersRunning
    BY <1>0, <2>1, MethodKeeps DEF StopLowersRunning, LowerRunning, thread
  <2>2. CASE StopNotifiesCar
    BY <1>0, <2>2, MethodKeeps DEF StopNotifiesCar, Notify, Wake, CarTypeOK, Gone
  <2>3. CASE StopJoinsCar \/ StopWakesDispatcher \/ StopJoinsDispatcher
    <3>1. UNCHANGED carVars
      BY <2>3 DEF StopJoinsCar, StopWakesDispatcher, StopJoinsDispatcher
    <3> QED
      BY <1>0, <3>1, MethodKeeps DEF carVars, thread
  <2> QED
    BY <2>1, <2>2, <2>3 DEF ContinueStop
<1>2. SUFFICES /\ owner' \in [op : OwnerOps, car : Elevators]
               /\ dispatcher' \in Dispatcher /\ DispatcherOK' /\ SleepOK' /\ StopOK'
  <2>1. TypeOK'
    BY <1>0, <1>1, <1>2 DEF ControlInv, TypeOK, CarInv
  <2> QED
    BY <1>1, <1>2, <2>1 DEF ControlInv
<1> USE DEF SleepOK, DispatcherIsWoken, StopOK
<1>3. CASE StopLowersRunning \/ StopNotifiesCar
  <2>1. /\ UNCHANGED dispatcher /\ owner.op \in {"stopping", "lowered"}
        /\ owner' \in [op : OwnerOps, car : Elevators]
        /\ owner'.op \in {"lowered", "joining"} /\ owner'.car = owner.car
    BY <1>0, <1>3 DEF StopLowersRunning, StopNotifiesCar, OwnerOps
  <2> QED
    BY <1>0, <1>1, <2>1 DEF ControlInv, TypeOK, DispatcherOK
<1>4. CASE StopJoinsCar
  <2>1. UNCHANGED <<dispatcher, pc>> /\ owner.op = "joining" /\ pc[owner.car] \in Gone
    BY <1>4 DEF StopJoinsCar, carVars, thread, Gone
  <2>2. \A e \in Elevators : e <= owner.car => pc[e] \in Gone
    BY <1>0, <2>1 DEF Elevators
  <2>3. CASE owner.car + 1 < NumElevators
    <3>1. owner.car + 1 \in Elevators
      BY <1>0, <2>3, ElevatorsAssumption DEF Elevators
    <3>2. /\ owner' \in [op : OwnerOps, car : Elevators]
          /\ owner'.op = "stopping" /\ owner'.car = owner.car + 1
      BY <1>4, <2>3, <3>1, AtTyped DEF StopJoinsCar, OwnerOps
    <3>3. \A e \in Elevators : e < owner'.car => pc'[e] \in Gone
      BY <1>0, <2>1, <2>2, <3>2 DEF Elevators
    <3> QED
      BY <1>0, <2>1, <3>2, <3>3 DEF ControlInv, TypeOK, DispatcherOK
  <2>4. CASE ~(owner.car + 1 < NumElevators)
    <3>1. owner' \in [op : OwnerOps, car : Elevators] /\ owner'.op = "waking"
      BY <1>4, <2>4, AtTyped DEF StopJoinsCar, OwnerOps
    <3>2. \A e \in Elevators : pc'[e] \in Gone
      BY <1>0, <2>1, <2>2, <2>4, ElevatorsAssumption DEF Elevators
    <3> QED
      BY <1>0, <2>1, <3>1, <3>2 DEF ControlInv, TypeOK, DispatcherOK
  <2> QED
    BY <2>3, <2>4
<1>5. CASE StopWakesDispatcher
  <2>1. /\ owner.op = "waking" /\ dispatcher.at \notin {"block", "ready"} /\ pc' = pc
        /\ owner' \in [op : OwnerOps, car : Elevators] /\ owner'.op = "joiningDispatcher"
    BY <1>5, AtTyped DEF StopWakesDispatcher, HoldsQueueMutex, OwnerOps, carVars, thread
  <2>2. /\ dispatcher' \in Dispatcher /\ DispatcherOK'
        /\ dispatcher'.at \notin {"block", "waiting"}
    <3>1. CASE dispatcher.at = "waiting"
      <4>1. dispatcher' = DispatcherAt("loop")
        BY <1>5, <3>1 DEF StopWakesDispatcher, WakeDispatcher
      <4>2. dispatcher' \in Dispatcher /\ dispatcher'.at = "loop" /\ dispatcher'.request = NoRequest
        BY <4>1, DispatcherAtTyped DEF DispatcherLabels
      <4> QED
        BY <4>2 DEF DispatcherOK, Holding, Chosen
    <3>2. CASE dispatcher.at # "waiting"
      <4>1. dispatcher' = dispatcher
        BY <1>5, <3>2 DEF StopWakesDispatcher, WakeDispatcher
      <4> QED
        BY <1>0, <2>1, <3>2, <4>1 DEF ControlInv, TypeOK, DispatcherOK
    <3> QED
      BY <3>1, <3>2
  <2> QED
    BY <1>0, <1>1, <2>1, <2>2
<1>6. CASE StopJoinsDispatcher
  <2>1. /\ owner.op = "joiningDispatcher" /\ dispatcher.at = "exited" /\ UNCHANGED dispatcher
        /\ owner' \in [op : OwnerOps, car : Elevators] /\ owner'.op = "idle"
    BY <1>6, AtTyped DEF StopJoinsDispatcher, OwnerOps
  <2> QED
    BY <1>0, <1>1, <2>1 DEF ControlInv, TypeOK, DispatcherOK, Gone
<1> QED
  BY <1>3, <1>4, <1>5, <1>6 DEF ContinueStop

\* ControlInv is inductive.
LEMMA ControlHolds == Spec => []ControlInv
<1>1. ControlInv /\ UNCHANGED vars => ControlInv'
  <2> SUFFICES ASSUME ControlInv, UNCHANGED vars PROVE ControlInv'
    OBVIOUS
  <2>1. CarInv' /\ UNCHANGED <<pc, controllerVars>>
    BY AtTyped, MethodKeeps DEF ControlInv, vars, carVars, thread
  <2>2. StopOK'
    BY <2>1, StopFrame DEF ControlInv, controllerVars
  <2> QED
    BY <2>1, <2>2 DEF ControlInv, CarInv, TypeOK, DispatcherOK, SleepOK, DispatcherIsWoken,
                      controllerVars
<1>2. ControlInv /\ [Next]_vars => ControlInv'
  BY <1>1, ControlCarStep, ControlDispatcherStep, ControlClientStep, ControlStart,
     ControlBeginStop, ControlContinueStop DEF Next
<1> QED
  BY ControlInit, <1>2, PTL DEF Spec

\* Whatever its clients ask for, valid or not, the controller keeps its
\* variables of their types: among it that no car is sent out of the building
\* and that the dispatcher never takes a request from an empty queue.
THEOREM TypeCorrect == Spec => []TypeOK
BY ControlHolds, PTL DEF ControlInv

\* The cars of a controller keep their course (Elevator.cpp:125-146) while its
\* clients stop and release them and its owner starts and stops their threads.
THEOREM StaysOnCourse == Spec => []OnCourse
BY ControlHolds, PTL DEF ControlInv, CarInv

\* The dispatcher never sleeps on a request or through stop() unless somebody
\* has yet to notify it (ElevatorController.cpp:57-74, :131-141).
THEOREM WakesDispatcher == Spec => []DispatcherIsWoken
BY ControlHolds, PTL DEF ControlInv, SleepOK

\* When stop() has returned no thread is left, and start() begins no second
\* thread for a car (ElevatorController.cpp:38-92).
THEOREM StopLeavesNothing == Spec => []StoppedMeansQuiet
<1>1. ControlInv => StoppedMeansQuiet
  BY AtTyped DEF ControlInv, StopOK, StoppedMeansQuiet, Gone
<1> QED
  BY <1>1, ControlHolds, PTL

-----------------------------------------------------------------------------
(* The controller's queue: a request is offered once.                      *)

Waits(q, id) == \E i \in DOMAIN q : q[i].id = id
OnlyOnce(q, id) == \A i, j \in DOMAIN q : q[i].id = id /\ q[j].id = id => i = j

\* A request put at the end of a queue waits in it.
LEMMA AppendedWaits ==
  ASSUME NEW q \in Seq(Request), NEW request \in Request, NEW id \in RequestIds
  PROVE  /\ Waits(Append(q, request), id) <=> Waits(q, id) \/ request.id = id
         /\ OnlyOnce(q, id) /\ ~(Waits(q, id) /\ request.id = id) =>
              OnlyOnce(Append(q, request), id)
<1> DEFINE n == Len(q)
           a == Append(q, request)
<1>1. /\ n \in Nat /\ DOMAIN q = 1..n /\ DOMAIN a = 1..(n + 1)
      /\ \A i \in 1..n : a[i] = q[i]
      /\ a[n + 1] = request
  OBVIOUS
<1> HIDE DEF n, a
<1>2. \A i : i \in 1..(n + 1) <=> i \in 1..n \/ i = n + 1
  BY <1>1
<1>3. Waits(a, id) <=> Waits(q, id) \/ request.id = id
  BY <1>1, <1>2 DEF Waits
<1>4. OnlyOnce(q, id) /\ ~(Waits(q, id) /\ request.id = id) => OnlyOnce(a, id)
  BY <1>1, <1>2 DEF Waits, OnlyOnce
<1> QED
  BY <1>3, <1>4 DEF a

\* A request taken from the head of a queue waits in it no longer.
LEMMA PoppedLeaves ==
  ASSUME NEW q \in Seq(Request), q # <<>>, NEW id \in RequestIds
  PROVE  /\ Waits(q, id) <=> Waits(Tail(q), id) \/ Head(q).id = id
         /\ OnlyOnce(q, id) =>
              OnlyOnce(Tail(q), id) /\ ~(Waits(Tail(q), id) /\ Head(q).id = id)
<1> DEFINE n == Len(q)
           t == Tail(q)
           h == Head(q)
<1>1. /\ n \in Nat /\ n >= 1 /\ DOMAIN q = 1..n /\ DOMAIN t = 1..(n - 1)
      /\ \A i \in 1..(n - 1) : t[i] = q[i + 1]
      /\ h = q[1]
  OBVIOUS
<1> HIDE DEF n, t, h
<1>2. /\ 1 \in 1..n
      /\ \A i \in 1..(n - 1) : i + 1 \in 1..n /\ i + 1 # 1
      /\ \A i \in 1..n : i = 1 \/ (i - 1 \in 1..(n - 1) /\ (i - 1) + 1 = i)
      /\ \A i, j \in 1..(n - 1) : i + 1 = j + 1 => i = j
  BY <1>1
<1>3. ASSUME Waits(q, id), h.id # id
      PROVE  Waits(t, id)
  <2>1. PICK i \in 1..n : q[i].id = id
    BY <1>1, <1>3 DEF Waits
  <2>2. i # 1 /\ i - 1 \in 1..(n - 1) /\ (i - 1) + 1 = i
    BY <1>1, <1>2, <1>3, <2>1
  <2>3. t[i - 1] = q[(i - 1) + 1]
    BY <1>1, <2>2
  <2>4. t[i - 1].id = id
    BY <2>1, <2>2, <2>3
  <2> QED
    BY <1>1, <2>2, <2>4 DEF Waits
<1>4. Waits(t, id) \/ h.id = id => Waits(q, id)
  BY <1>1, <1>2 DEF Waits
<1>5. ASSUME OnlyOnce(q, id), NEW i \in 1..(n - 1), NEW j \in 1..(n - 1),
             t[i].id = id, t[j].id = id
      PROVE  i = j
  <2>1. q[i + 1].id = id /\ q[j + 1].id = id
    BY <1>1, <1>5
  <2>2. i + 1 = j + 1
    BY <1>1, <1>2, <1>5, <2>1 DEF OnlyOnce
  <2> QED
    BY <1>2, <2>2
<1>6. OnlyOnce(q, id) => ~(Waits(t, id) /\ h.id = id)
  BY <1>1, <1>2 DEF OnlyOnce, Waits
<1>7. OnlyOnce(q, id) => OnlyOnce(t, id)
  BY <1>1, <1>5 DEF OnlyOnce
<1> QED
  BY <1>3, <1>4, <1>6, <1>7 DEF t, h

\* EachOfferedOnce in the words of these two lemmas.
LEMMA OfferedOnceIs ==
  EachOfferedOnce <=>
    \A id \in RequestIds :
      /\ fate[id] = "offered" <=> InDispatcher(id) \/ Waits(pendingRequests, id)
      /\ ~(InDispatcher(id) /\ Waits(pendingRequests, id))
      /\ OnlyOnce(pendingRequests, id)
BY DEF EachOfferedOnce, Pending, Waits, OnlyOnce

\* Both halves of a request's way: in the controller's hands, in the cars'.
WayInv == EachOfferedOnce /\ EachAcceptedOnce

\* A step that leaves the dispatcher's request, its queue and what is offered
\* alone.
LEMMA OfferedFrame ==
  ASSUME EachOfferedOnce, UNCHANGED pendingRequests, dispatcher'.request = dispatcher.request,
         \A id \in RequestIds : fate'[id] = "offered" <=> fate[id] = "offered"
  PROVE  EachOfferedOnce'
BY DEF EachOfferedOnce, Pending, InDispatcher

\* What may become of a request in one step.
Fortunes == {<<"unused", "offered">>, <<"offered", "accepted">>, <<"offered", "rejected">>,
             <<"accepted", "served">>, <<"accepted", "abandoned">>}
FateMoves ==
  \/ fate' = fate
  \/ \E id \in RequestIds, fortune \in Fortunes :
       fate[id] = fortune[1] /\ fate' = [fate EXCEPT ![id] = fortune[2]]

\* Nothing of the kind happens in most steps.
LEMMA WayFrame ==
  ASSUME WayInv, UNCHANGED <<requests, currentRequest, fate, pendingRequests>>,
         dispatcher'.request = dispatcher.request
  PROVE  WayInv' /\ FateMoves /\ HoldersStay
BY OfferedFrame, OnceFrame DEF WayInv, FateMoves

\* A car's thread finishes an accepted request, and offers none.
LEMMA WayCarStep ==
  ASSUME ControlInv, WayInv, NEW e \in Elevators, CarStep(e) \/ WakesByItself(e)
  PROVE  WayInv' /\ FateMoves /\ HoldersStay
<1>0. /\ CarInv /\ EachAcceptedOnce /\ (ThreadStep(e) \/ SpuriousWakeup(e))
      /\ UNCHANGED controllerVars /\ fate \in [RequestIds -> Fates]
  BY DEF ControlInv, CarInv, CarTypeOK, WayInv, CarStep, WakesByItself
<1>1. EachAcceptedOnce' /\ HoldersStay
  BY <1>0, OnceThreadStep
<1>2. CASE fate' = fate
  BY <1>0, <1>1, <1>2, OfferedFrame DEF WayInv, FateMoves, controllerVars
<1>3. ASSUME NEW id \in RequestIds, NEW f \in {"served", "abandoned"},
             fate[id] = "accepted", fate' = [fate EXCEPT ![id] = f]
      PROVE  WayInv' /\ FateMoves /\ HoldersStay
  <2>1. <<"accepted", f>> \in Fortunes
    BY DEF Fortunes
  <2>2. FateMoves
    BY <1>3, <2>1 DEF FateMoves
  <2>3. \A i \in RequestIds : fate'[i] = "offered" <=> fate[i] = "offered"
    BY <1>0, <1>3
  <2> QED
    BY <1>0, <1>1, <2>2, <2>3, OfferedFrame DEF WayInv, controllerVars
<1> QED
  BY <1>0, <1>2, <1>3, FateThreadStep

\* addRequest offers a request that nobody has had before.
LEMMA WayAddRequest ==
  ASSUME ControlInv, WayInv, NEW c \in Clients, NEW id \in RequestIds, NEW trip \in Asked,
         AddRequest(c, id, trip[1], trip[2])
  PROVE  WayInv' /\ FateMoves /\ HoldersStay
<1> DEFINE request == [id |-> id, fromFloor |-> trip[1], toFloor |-> trip[2]]
<1>1. /\ request \in Request /\ request.id = id /\ fate[id] = "unused"
      /\ pendingRequests' = Append(pendingRequests, request)
      /\ fate' = [fate EXCEPT ![id] = "offered"]
      /\ UNCHANGED <<dispatcher, requests, currentRequest>>
  BY ValidRequest DEF AddRequest, thread
<1> HIDE DEF request
<1>2. pendingRequests \in Seq(Request) /\ fate \in [RequestIds -> Fates]
  BY DEF ControlInv, TypeOK, CarTypeOK
<1>3. EachAcceptedOnce'
  <2>1. \A i \in RequestIds : fate'[i] = "accepted" <=> fate[i] = "accepted"
    BY <1>1, <1>2
  <2> QED
    BY <1>1, <2>1 DEF WayInv, EachAcceptedOnce, AtMostOnce, Holds, InHand, InQueue
<1>4. ASSUME NEW i \in RequestIds
      PROVE  /\ fate'[i] = "offered" <=> InDispatcher(i)' \/ Waits(pendingRequests', i)
             /\ ~(InDispatcher(i)' /\ Waits(pendingRequests', i))
             /\ OnlyOnce(pendingRequests', i)
  <2>1. /\ fate[i] = "offered" <=> InDispatcher(i) \/ Waits(pendingRequests, i)
        /\ ~(InDispatcher(i) /\ Waits(pendingRequests, i))
        /\ OnlyOnce(pendingRequests, i)
    BY OfferedOnceIs DEF WayInv
  <2>2. InDispatcher(i)' <=> InDispatcher(i)
    BY <1>1 DEF InDispatcher
  <2>3. fate'[i] = "offered" <=> fate[i] = "offered" \/ i = id
    BY <1>1, <1>2
  <2>4. Waits(pendingRequests', i) <=> Waits(pendingRequests, i) \/ i = id
    BY <1>1, <1>2, AppendedWaits
  <2>5. OnlyOnce(pendingRequests', i)
    BY <1>1, <1>2, <2>1, AppendedWaits
  <2> QED
    BY <1>1, <2>1, <2>2, <2>3, <2>4, <2>5
<1>5. EachOfferedOnce'
  BY <1>4 DEF EachOfferedOnce, Pending, Waits, OnlyOnce
<1>6. <<"unused", "offered">> \in Fortunes
  BY DEF Fortunes
<1>7. FateMoves
  BY <1>1, <1>6 DEF FateMoves
<1> QED
  BY <1>1, <1>3, <1>5, <1>7, OnceFrame DEF WayInv

\* The pop puts the oldest request into the dispatcher's hand.
LEMMA WayPop ==
  ASSUME ControlInv, WayInv, PopPending
  PROVE  WayInv' /\ FateMoves /\ HoldersStay
<1> DEFINE q == pendingRequests
<1>1. /\ q \in Seq(Request) /\ q # <<>> /\ dispatcher.request = NoRequest
      /\ UNCHANGED <<requests, currentRequest, fate>>
  BY DEF ControlInv, TypeOK, DispatcherOK, Holding, PopPending, carVars, thread, history
<1>2. Head(q) \in Request /\ Head(q) # NoRequest
  BY <1>1, NoRequestAssumption
<1>3. /\ pendingRequests' = Tail(q) /\ dispatcher'.request = Head(q)
  BY DEF PopPending, DispatcherAt
<1>4. ASSUME NEW i \in RequestIds
      PROVE  /\ fate'[i] = "offered" <=> InDispatcher(i)' \/ Waits(pendingRequests', i)
             /\ ~(InDispatcher(i)' /\ Waits(pendingRequests', i))
             /\ OnlyOnce(pendingRequests', i)
  <2>1. /\ fate[i] = "offered" <=> Waits(q, i)
        /\ OnlyOnce(q, i)
    BY <1>1, OfferedOnceIs DEF WayInv, InDispatcher
  <2>2. InDispatcher(i)' <=> Head(q).id = i
    BY <1>2, <1>3 DEF InDispatcher
  <2> HIDE DEF q
  <2> QED
    BY <1>1, <1>3, <2>1, <2>2, PoppedLeaves
<1>5. EachOfferedOnce'
  BY <1>4 DEF EachOfferedOnce, Pending, Waits, OnlyOnce
<1> QED
  BY <1>1, <1>5, OnceFrame DEF WayInv, FateMoves

\* The requeueing puts it back.
LEMMA WayRequeue ==
  ASSUME ControlInv, WayInv, Requeue
  PROVE  WayInv' /\ FateMoves /\ HoldersStay
<1> DEFINE request == dispatcher.request
<1>1. /\ pendingRequests \in Seq(Request) /\ request \in Request /\ request # NoRequest
      /\ UNCHANGED <<requests, currentRequest, fate>>
      /\ pendingRequests' = Append(pendingRequests, request)
      /\ dispatcher'.request = NoRequest
  BY DEF ControlInv, TypeOK, DispatcherOK, Dispatcher, Holding, Requeue, DispatcherAt, carVars,
         thread, history
<1>2. ASSUME NEW i \in RequestIds
      PROVE  /\ fate'[i] = "offered" <=> InDispatcher(i)' \/ Waits(pendingRequests', i)
             /\ ~(InDispatcher(i)' /\ Waits(pendingRequests', i))
             /\ OnlyOnce(pendingRequests', i)
  <2>1. /\ fate[i] = "offered" <=> InDispatcher(i) \/ Waits(pendingRequests, i)
        /\ ~(InDispatcher(i) /\ Waits(pendingRequests, i))
        /\ OnlyOnce(pendingRequests, i)
    BY OfferedOnceIs DEF WayInv
  <2>2. (InDispatcher(i) <=> request.id = i) /\ ~InDispatcher(i)'
    BY <1>1 DEF InDispatcher
  <2> HIDE DEF request
  <2> QED
    BY <1>1, <2>1, <2>2, AppendedWaits
<1>3. EachOfferedOnce'
  BY <1>2 DEF EachOfferedOnce, Pending, Waits, OnlyOnce
<1> QED
  BY <1>1, <1>3, OnceFrame DEF WayInv, FateMoves

\* The dispatcher gives its request to a car, or the car refuses it.
LEMMA WayGiven ==
  ASSUME ControlInv, WayInv, PushToCar \/ OfferRefused
  PROVE  WayInv' /\ FateMoves /\ HoldersStay
<1> DEFINE id == dispatcher.request.id
<1>0. /\ CarTypeOK /\ dispatcher.scan.best \in Elevators
      /\ dispatcher.request \in Request /\ dispatcher.request # NoRequest
      /\ UNCHANGED pendingRequests /\ dispatcher'.request = NoRequest
  <2>1. dispatcher \in Dispatcher /\ dispatcher.at \in {"offer", "push"}
    BY DEF ControlInv, TypeOK, PushToCar, OfferRefused
  <2>2. dispatcher'.request = NoRequest /\ UNCHANGED pendingRequests
    <3>1. CASE PushToCar
      BY <2>1, <3>1 DEF Dispatcher, PushToCar
    <3>2. CASE OfferRefused
      BY <3>2 DEF OfferRefused, DispatcherAt
    <3> QED
      BY <3>1, <3>2
  <2> QED
    BY <2>1, <2>2 DEF ControlInv, TypeOK, DispatcherOK, Dispatcher, Holding, Chosen
<1>1. id \in RequestIds /\ InDispatcher(id) /\ fate[id] = "offered"
  BY <1>0 DEF Request, InDispatcher, WayInv, EachOfferedOnce, Pending
<1>2. /\ EachAcceptedOnce' /\ HoldersStay
      /\ fate' = [fate EXCEPT ![id] = fate'[id]] /\ <<"offered", fate'[id]>> \in Fortunes
  <2>1. CASE PushToCar
    <3>1. Push(dispatcher.scan.best, dispatcher.request)
      BY <2>1 DEF PushToCar
    <3>2. fate' = [fate EXCEPT ![id] = "accepted"]
      BY <3>1 DEF Push
    <3> QED
      BY <1>0, <1>1, <3>1, <3>2, OncePush DEF WayInv, CarTypeOK, Fortunes
  <2>2. CASE OfferRefused
    <3>1. fate' = [fate EXCEPT ![id] = "rejected"] /\ UNCHANGED <<requests, currentRequest>>
      BY <2>2 DEF OfferRefused, thread
    <3>2. \A i \in RequestIds : fate'[i] = "accepted" <=> fate[i] = "accepted"
      BY <1>0, <1>1, <3>1 DEF CarTypeOK
    <3>3. EachAcceptedOnce'
      BY <3>1, <3>2 DEF WayInv, EachAcceptedOnce, AtMostOnce, Holds, InHand, InQueue
    <3> QED
      BY <1>0, <1>1, <3>1, <3>3, OnceFrame DEF CarTypeOK, Fortunes
  <2> QED
    BY <2>1, <2>2
<1>3. ASSUME NEW i \in RequestIds
      PROVE  /\ fate'[i] = "offered" <=> InDispatcher(i)' \/ Waits(pendingRequests', i)
             /\ ~(InDispatcher(i)' /\ Waits(pendingRequests', i))
             /\ OnlyOnce(pendingRequests', i)
  <2>1. /\ fate[i] = "offered" <=> InDispatcher(i) \/ Waits(pendingRequests, i)
        /\ ~(InDispatcher(i) /\ Waits(pendingRequests, i))
        /\ OnlyOnce(pendingRequests, i)
    BY OfferedOnceIs DEF WayInv
  <2>2. (InDispatcher(i) <=> id = i) /\ ~InDispatcher(i)'
    BY <1>0 DEF InDispatcher
  <2>3. fate'[i] = "offered" <=> fate[i] = "offered" /\ i # id
    BY <1>0, <1>1, <1>2 DEF CarTypeOK, Fortunes
  <2> HIDE DEF id
  <2> QED
    BY <1>0, <2>1, <2>2, <2>3
<1>4. EachOfferedOnce'
  BY <1>3 DEF EachOfferedOnce, Pending, Waits, OnlyOnce
<1>5. FateMoves
  <2>1. PICK f : f = fate'[id]
    OBVIOUS
  <2>2. fate' = [fate EXCEPT ![id] = f] /\ <<"offered", f>> \in Fortunes
    BY <1>2, <2>1
  <2> HIDE DEF id
  <2> QED
    BY <1>1, <2>2 DEF FateMoves
<1> QED
  BY <1>2, <1>4, <1>5 DEF WayInv

\* The other steps of the dispatcher, of the clients and of the owner leave the
\* request where it is.
LEMMA WayElsewhere ==
  ASSUME ControlInv, WayInv,
         \/ /\ DispatcherStep \/ DispatcherWakesByItself
            /\ ~(PopPending \/ Requeue \/ PushToCar \/ OfferRefused)
         \/ /\ \E c \in Clients : ContinueCall(c) \/ NewCall(c)
            /\ ~\E c \in Clients, id \in RequestIds, trip \in Asked :
                  AddRequest(c, id, trip[1], trip[2])
         \/ StartAll \/ BeginStop \/ ContinueStop
         \/ UNCHANGED vars
  PROVE  WayInv' /\ FateMoves /\ HoldersStay
<1> DEFINE Still == /\ UNCHANGED <<requests, currentRequest, fate, pendingRequests>>
                    /\ dispatcher'.request = dispatcher.request
<1> SUFFICES Still
  BY WayFrame
<1> USE DEF carVars, thread, history, cabin
<1>0. /\ dispatcher \in Dispatcher
      /\ dispatcher.at \notin Holding => dispatcher.request = NoRequest
  BY DEF ControlInv, TypeOK, DispatcherOK
<1>1. ASSUME NEW label \in DispatcherLabels, dispatcher' = DispatcherAt(label),
             dispatcher.at \notin Holding
      PROVE  dispatcher'.request = dispatcher.request
  BY <1>0, <1>1 DEF DispatcherAt
<1> USE DEF Holding, DispatcherLabels
<1>2. CASE DispatcherLeavesLoop \/ DispatcherTakesLock \/ DispatcherBlocks \/ DispatcherWakesByItself
  BY <1>1, <1>2 DEF DispatcherLeavesLoop, DispatcherTakesLock, DispatcherBlocks,
                    DispatcherWakesByItself
<1>3. CASE NotifyCar
  BY <1>1, <1>3 DEF NotifyCar, Notify
<1>4. CASE FindBestElevator
  <2>1. /\ UNCHANGED <<requests, currentRequest, fate, pendingRequests>>
        /\ \E s, n, a : dispatcher' = [dispatcher EXCEPT !.scan = s, !.next = n, !.at = a]
    BY <1>4 DEF FindBestElevator
  <2> QED
    BY <1>0, <2>1 DEF Dispatcher
<1>5. CASE OfferAccepted
  BY <1>0, <1>5 DEF OfferAccepted, Dispatcher
<1>6. ASSUME NEW c \in Clients,
             \/ BeginEmergencyCall(c, "activate") \/ BeginEmergencyCall(c, "release")
             \/ EmergencyStopFlag(c) \/ EmergencyStopStatus(c)
             \/ ReleaseFlag(c) \/ ReleaseStatus(c)
      PROVE  Still
  BY <1>6 DEF BeginEmergencyCall, EmergencyStopFlag, RaiseFlag, EmergencyStopStatus,
              RaiseStatus, ReleaseFlag, DropFlag, ReleaseStatus, DropStatus
<1>7. ASSUME WakeDispatcher
      PROVE  dispatcher'.request = dispatcher.request
  BY <1>1, <1>7 DEF WakeDispatcher
<1>8. ASSUME NEW c \in Clients, NotifyDispatcher(c)
      PROVE  Still
  BY <1>7, <1>8 DEF NotifyDispatcher
<1>9. CASE StartAll
  <2>1. dispatcher.at \notin Holding
    BY <1>9, AtTyped DEF ControlInv, StopOK, StartAll, Gone
  <2> QED
    BY <1>1, <1>9, <2>1 DEF StartAll
<1>10. CASE BeginStop
  BY <1>10 DEF BeginStop
<1>11. CASE ContinueStop
  BY <1>7, <1>11 DEF ContinueStop, StopLowersRunning, LowerRunning, StopNotifiesCar, Notify,
                     StopJoinsCar, StopWakesDispatcher, StopJoinsDispatcher
<1>12. CASE UNCHANGED vars
  BY <1>12 DEF vars, controllerVars
<1> QED
  BY <1>2, <1>3, <1>4, <1>5, <1>6, <1>8, <1>9, <1>10, <1>11, <1>12
  DEF DispatcherStep, ContinueCall, NewCall

\* Every step, and what it does to the requests.
LEMMA WayStep ==
  ASSUME ControlInv, WayInv, [Next]_vars
  PROVE  WayInv' /\ FateMoves /\ HoldersStay
<1>1. CASE \E e \in Elevators : CarStep(e) \/ WakesByItself(e)
  BY <1>1, WayCarStep
<1>2. CASE PopPending \/ Requeue \/ PushToCar \/ OfferRefused
  BY <1>2, WayPop, WayRequeue, WayGiven
<1>3. CASE \E c \in Clients, id \in RequestIds, trip \in Asked : AddRequest(c, id, trip[1], trip[2])
  BY <1>3, WayAddRequest
<1> QED
  BY <1>1, <1>2, <1>3, WayElsewhere DEF Next

LEMMA WayHolds == Spec => [](ControlInv /\ WayInv)
<1>1. Init => WayInv
  <2> SUFFICES ASSUME Init PROVE WayInv
    OBVIOUS
  <2>1. EachOfferedOnce
    BY DEF Init, CarInit, DispatcherAt, EachOfferedOnce, Pending, InDispatcher
  <2>2. EachAcceptedOnce
    BY DEF Init, CarInit, EachAcceptedOnce, AtMostOnce, Holds, InHand, InQueue
  <2> QED
    BY <2>1, <2>2 DEF WayInv
<1>2. ControlInv /\ WayInv /\ [Next]_vars => WayInv'
  BY WayStep
<1> QED
  BY <1>1, <1>2, ControlHolds, PTL DEF Spec

\* A request that the controller has taken and no car has yet is in its queue
\* or with the dispatcher, once (ElevatorController.cpp:144-186).
THEOREM OfferedIsConserved == Spec => []EachOfferedOnce
BY WayHolds, PTL DEF WayInv

\* The cars of a controller, too, have every accepted request once, whichever
\* thread gives it to them (Elevator.cpp:55-67, ElevatorController.cpp:170).
THEOREM AcceptedIsConserved == Spec => []EachAcceptedOnce
BY WayHolds, PTL DEF WayInv

-----------------------------------------------------------------------------
(* The life of a request: ElevatorController implements RequestService.    *)

\* Where Place sees a request, by its fate.
PlaceOK ==
  \A id \in RequestIds :
    /\ fate[id] = "unused" => Place[id] = <<"unasked">>
    /\ fate[id] = "offered" => Place[id] = <<"pending">>
    /\ fate[id] = "accepted" =>
         \E e \in Elevators : Holds(e, id) /\ Place[id] = <<"with", e>>
    /\ \A e \in Elevators :
         fate[id] = "accepted" /\ Holds(e, id) => Place[id] = <<"with", e>>
    /\ fate[id] \in {"rejected", "served", "abandoned"} => Place[id] = <<"over">>

LEMMA PlaceHolds == WayInv => PlaceOK
<1> SUFFICES ASSUME WayInv, NEW id \in RequestIds
             PROVE  /\ fate[id] = "unused" => Place[id] = <<"unasked">>
                    /\ fate[id] = "offered" => Place[id] = <<"pending">>
                    /\ fate[id] = "accepted" =>
                         \E e \in Elevators : Holds(e, id) /\ Place[id] = <<"with", e>>
                    /\ \A e \in Elevators :
                         fate[id] = "accepted" /\ Holds(e, id) => Place[id] = <<"with", e>>
                    /\ fate[id] \in {"rejected", "served", "abandoned"} => Place[id] = <<"over">>
  BY DEF PlaceOK
<1> DEFINE holder == CHOOSE e \in Elevators : Holds(e, id)
<1>1. /\ fate[id] = "accepted" <=> \E e \in Elevators : Holds(e, id)
      /\ \A e, f \in Elevators : Holds(e, id) /\ Holds(f, id) => e = f
      /\ fate[id] = "offered" <=> Pending(id)
  BY DEF WayInv, EachAcceptedOnce, EachOfferedOnce, AtMostOnce, Holds
<1>2. fate[id] = "accepted" => holder \in Elevators /\ Holds(holder, id)
  BY <1>1
<1>3. Place[id] = IF fate[id] = "unused" THEN <<"unasked">>
                  ELSE IF \E e \in Elevators : Holds(e, id) THEN <<"with", holder>>
                  ELSE IF Pending(id) THEN <<"pending">> ELSE <<"over">>
  BY DEF Place
<1> HIDE DEF holder
<1> QED
  BY <1>1, <1>2, <1>3

\* A request whose fate a step leaves alone stays where it is: with its car, if
\* it has one.
LEMMA PlaceStays ==
  ASSUME PlaceOK, PlaceOK', HoldersStay, NEW id \in RequestIds,
         fate[id] \in Fates, fate'[id] = fate[id]
  PROVE  Place'[id] = Place[id]
<1>1. CASE fate[id] = "accepted"
  <2>1. PICK e \in Elevators : Holds(e, id) /\ Place[id] = <<"with", e>>
    BY <1>1 DEF PlaceOK
  <2>2. Holds(e, id)'
    BY <1>1, <2>1 DEF HoldersStay
  <2> QED
    BY <1>1, <2>1, <2>2 DEF PlaceOK
<1>2. CASE fate[id] # "accepted"
  BY <1>2 DEF PlaceOK, Fates
<1> QED
  BY <1>1, <1>2

\* A step of ElevatorController is a step of RequestService or none at all.
LEMMA ServiceStep ==
  ASSUME PlaceOK, PlaceOK', HoldersStay, FateMoves, fate \in [RequestIds -> Fates]
  PROVE  [Service!Next]_Place
<1>1. /\ Place = [id \in RequestIds |-> Place[id]]
      /\ Place' = [id \in RequestIds |-> Place'[id]]
  BY DEF Place
<1>2. CASE fate' = fate
  <2>1. \A id \in RequestIds : Place'[id] = Place[id]
    BY <1>2, PlaceStays
  <2>2. [id \in RequestIds |-> Place'[id]] = [id \in RequestIds |-> Place[id]]
    BY <2>1
  <2> QED
    BY <1>1, <2>2
<1>3. ASSUME NEW id \in RequestIds, NEW fortune \in Fortunes,
             fate[id] = fortune[1], fate' = [fate EXCEPT ![id] = fortune[2]]
      PROVE  Service!Next
  <2>1. \A i \in RequestIds : i # id => Place'[i] = Place[i]
    BY <1>3, PlaceStays
  <2>2. Place' = [Place EXCEPT ![id] = Place'[id]]
    BY <1>1, <2>1
  <2>3. fate'[id] = fortune[2]
    BY <1>3
  <2>4. \/ Place[id] = <<"unasked">> /\ Place'[id] = <<"pending">>
        \/ \E e \in Elevators : Place[id] = <<"pending">> /\ Place'[id] = <<"with", e>>
        \/ Place[id] = <<"pending">> /\ Place'[id] = <<"over">>
        \/ \E e \in Elevators : Place[id] = <<"with", e>> /\ Place'[id] = <<"over">>
    BY <1>3, <2>3 DEF Fortunes, PlaceOK
  <2>5. Service!Ask(id) \/ Service!Assign(id) \/ Service!Refuse(id) \/ Service!Finish(id)
    BY <2>2, <2>4 DEF Service!Ask, Service!Assign, Service!Refuse, Service!Finish,
       Service!Moves, Service!Unasked, Service!Pending, Service!With, Service!Over
  <2> QED
    BY <2>5 DEF Service!Next
<1> QED
  BY <1>2, <1>3 DEF FateMoves

\* The queues of the controller and of the cars, their threads and the
\* emergencies together implement the life of a request: it is pending until
\* one car has it or refuses it, it never changes cars, and once it is over it
\* stays over.
THEOREM ServesEveryRequest == Spec => ServesRequests
<1>1. WayInv /\ Init => Service!Init
  <2> SUFFICES ASSUME WayInv, Init PROVE Service!Init
    OBVIOUS
  <2>1. \A id \in RequestIds : Place[id] = <<"unasked">>
    BY PlaceHolds DEF PlaceOK, Init, CarInit
  <2>2. Place = [id \in RequestIds |-> Place[id]]
    BY DEF Place
  <2> QED
    BY <2>1, <2>2 DEF Service!Init, Service!Unasked
<1>2. ControlInv /\ WayInv /\ PlaceOK /\ PlaceOK' /\ [Next]_vars => [Service!Next]_Place
  <2> SUFFICES ASSUME ControlInv, WayInv, PlaceOK, PlaceOK', [Next]_vars
               PROVE  [Service!Next]_Place
    OBVIOUS
  <2>1. fate \in [RequestIds -> Fates]
    BY DEF ControlInv, TypeOK, CarTypeOK
  <2>2. HoldersStay /\ FateMoves
    BY WayStep
  <2> QED
    BY <2>1, <2>2, ServiceStep
<1> QED
  BY <1>1, <1>2, WayHolds, PlaceHolds, PTL DEF Spec, ServesRequests, Service!Spec

-----------------------------------------------------------------------------
(* The emergency.                                                          *)

Activating == {"activate", "flagged"}
Releasing == {"release", "cleared"}

\* How far the loop of a client over the cars has come, if no opposite call has
\* been under way during it: the cars behind it are as it left them.
ToldOK(c) ==
  LET k == client[c].car
  IN  ~client[c].crossed =>
        \A e \in Elevators :
          /\ client[c].op = "activate" /\ e < k => emergencyStop[e]
          /\ client[c].op = "flagged" /\ e <= k => emergencyStop[e]
          /\ client[c].op = "release" /\ e < k => ~emergencyStop[e]
          /\ client[c].op = "cleared" /\ e <= k => ~emergencyStop[e]

\* Two opposite calls that are under way at once know of each other.
CrossedOK ==
  \A c, d \in Clients :
    client[c].op \in Activating /\ client[d].op \in Releasing
      => client[c].crossed /\ client[d].crossed

ToldInv == CrossedOK /\ \A c \in Clients : ToldOK(c)

\* Outside the calls of clients nothing changes the flags.
LEMMA ToldFrame ==
  ASSUME ToldInv, UNCHANGED <<emergencyStop, client>>
  PROVE  ToldInv'
BY DEF ToldInv, ToldOK, CrossedOK

\* A client that does not begin an emergency call crosses none.
LEMMA CrossedFrame ==
  ASSUME CrossedOK, NEW c \in Clients, \A d \in Clients : d # c => Undisturbed(d),
         client'[c].op \in Activating => client[c].op \in Activating,
         client'[c].op \in Releasing => client[c].op \in Releasing,
         client'[c].op \in Activating \cup Releasing => client'[c].crossed = client[c].crossed
  PROVE  CrossedOK'
BY DEF CrossedOK, Undisturbed

\* The flag of one car: only a call that is not crossed by this one, and so of
\* the same kind, can have counted on it.
LEMMA ToldFlag ==
  ASSUME ControlInv, ToldInv, NEW c \in Clients, EmergencyStopFlag(c) \/ ReleaseFlag(c)
  PROVE  ToldInv'
<1> DEFINE k == client[c].car
<1>0. /\ k \in Elevators /\ emergencyStop \in [Elevators -> BOOLEAN]
      /\ client \in [Clients -> Calls] /\ \A d \in Clients : d # c => Undisturbed(d)
  BY ClientMoves DEF ControlInv, TypeOK, CarTypeOK, ContinueCall
<1>1. /\ client'[c].car = k /\ client'[c].crossed = client[c].crossed
      /\ \/ /\ client[c].op = "activate" /\ client'[c].op = "flagged"
            /\ emergencyStop' = [emergencyStop EXCEPT ![k] = TRUE]
         \/ /\ client[c].op = "release" /\ client'[c].op = "cleared"
            /\ emergencyStop' = [emergencyStop EXCEPT ![k] = FALSE]
  BY <1>0 DEF EmergencyStopFlag, ReleaseFlag, RaiseFlag, DropFlag, ClientBecomes, Calls
<1>2. CrossedOK'
  BY <1>0, <1>1, CrossedFrame DEF ToldInv, Activating, Releasing
<1>3. \A e \in Elevators : e <= k <=> e < k \/ e = k
  BY <1>0 DEF Elevators
<1> HIDE DEF k
<1>4. ToldOK(c)'
  <2>1. ASSUME ~client[c].crossed, client[c].op = "activate", NEW e \in Elevators, e <= k
        PROVE  emergencyStop'[e]
    BY <1>0, <1>1, <1>3, <2>1 DEF ToldInv, ToldOK, k
  <2>2. ASSUME ~client[c].crossed, client[c].op = "release", NEW e \in Elevators, e <= k
        PROVE  ~emergencyStop'[e]
    BY <1>0, <1>1, <1>3, <2>2 DEF ToldInv, ToldOK, k
  <2> QED
    BY <1>1, <2>1, <2>2 DEF ToldOK
<1>5. ASSUME NEW d \in Clients, d # c PROVE ToldOK(d)'
  <2> SUFFICES ASSUME ~client'[d].crossed, NEW e \in Elevators
               PROVE  /\ client[d].op = "activate" /\ e < client[d].car => emergencyStop'[e]
                      /\ client[d].op = "flagged" /\ e <= client[d].car => emergencyStop'[e]
                      /\ client[d].op = "release" /\ e < client[d].car => ~emergencyStop'[e]
                      /\ client[d].op = "cleared" /\ e <= client[d].car => ~emergencyStop'[e]
    BY <1>0, <1>5 DEF ToldOK, Undisturbed
  <2>1. ~client[d].crossed
    BY <1>0, <1>5 DEF Undisturbed
  <2>2. /\ client[c].op = "activate" => client[d].op \notin Releasing
        /\ client[c].op = "release" => client[d].op \notin Activating
    BY <2>1 DEF ToldInv, CrossedOK, Activating, Releasing
  <2>3. /\ client[c].op = "activate" => (emergencyStop[e] => emergencyStop'[e])
        /\ client[c].op = "release" => (~emergencyStop[e] => ~emergencyStop'[e])
    BY <1>0, <1>1
  <2> QED
    BY <1>1, <2>1, <2>2, <2>3 DEF ToldInv, ToldOK, Activating, Releasing
<1> QED
  BY <1>2, <1>4, <1>5 DEF ToldInv

\* Behind the flag of a car comes the next car, or the end of the call.
LEMMA ToldStatus ==
  ASSUME ControlInv, ToldInv, NEW c \in Clients, EmergencyStopStatus(c) \/ ReleaseStatus(c)
  PROVE  ToldInv'
<1> DEFINE k == client[c].car
<1>0. /\ k \in Elevators /\ emergencyStop' = emergencyStop
      /\ client \in [Clients -> Calls] /\ \A d \in Clients : d # c => Undisturbed(d)
  BY ClientMoves DEF ControlInv, TypeOK, ContinueCall, EmergencyStopStatus, ReleaseStatus,
                     RaiseStatus, DropStatus
<1>1. \/ /\ client'[c].car = k + 1 /\ client'[c].crossed = client[c].crossed
         /\ \/ client[c].op = "flagged" /\ client'[c].op = "activate"
            \/ client[c].op = "cleared" /\ client'[c].op = "release"
      \/ client'[c].op = "idle"
  <2>1. \/ client[c].op = "flagged" /\ NextCar(c, "activate")
        \/ client[c].op = "cleared" /\ NextCar(c, "release")
    BY DEF EmergencyStopStatus, ReleaseStatus
  <2>2. ASSUME NEW op \in {"activate", "release"}, NextCar(c, op)
        PROVE  \/ /\ client'[c].car = k + 1 /\ client'[c].crossed = client[c].crossed
                  /\ client'[c].op = op
               \/ client'[c].op = "idle"
    <3>1. TypeOK /\ op \in ClientOps
      BY DEF ControlInv, ClientOps
    <3> QED
      BY <2>2, <3>1, NextCarTyped, ClientBecomesTyped, InCallTyped
  <2> QED
    BY <2>1, <2>2
<1>2. CrossedOK'
  BY <1>0, <1>1, CrossedFrame DEF ToldInv, Activating, Releasing
<1>3. \A e \in Elevators : e < k + 1 <=> e <= k
  BY <1>0 DEF Elevators
<1>4. ToldOK(c)'
  BY <1>0, <1>1, <1>3 DEF ToldInv, ToldOK
<1>5. ASSUME NEW d \in Clients, d # c PROVE ToldOK(d)'
  BY <1>0, <1>5 DEF ToldInv, ToldOK, Undisturbed
<1> QED
  BY <1>2, <1>4, <1>5 DEF ToldInv

\* A call that begins has told no car yet, and from now on it and the opposite
\* ones under way count as crossed.
LEMMA ToldBegins ==
  ASSUME ControlInv, ToldInv, NEW c \in Clients, NEW op \in {"activate", "release"},
         BeginEmergencyCall(c, op)
  PROVE  ToldInv'
<1>1. /\ client'[c].op = op /\ client'[c].car = 0
      /\ client'[c].crossed = (Opposing(c, op) # {})
      /\ \A d \in Clients : d # c => Undisturbed(d)
      /\ \A d \in Opposing(c, op) : client'[d].crossed
  BY CallBegins DEF ControlInv, ClientOps
<1>2. emergencyStop' = emergencyStop
  BY DEF BeginEmergencyCall, carVars
<1>3. CrossedOK'
  <2> SUFFICES ASSUME NEW x \in Clients, NEW y \in Clients,
                      client'[x].op \in Activating, client'[y].op \in Releasing
               PROVE  client'[x].crossed /\ client'[y].crossed
    BY DEF CrossedOK
  <2>1. CASE x = c
    <3>1. op = "activate" /\ y # c /\ client[y].op \in Releasing
      BY <1>1, <2>1 DEF Undisturbed, Activating, Releasing
    <3>2. y \in Opposing(c, op)
      BY <3>1 DEF Opposing, Releasing
    <3> QED
      BY <1>1, <2>1, <3>2
  <2>2. CASE y = c
    <3>1. op = "release" /\ x # c /\ client[x].op \in Activating
      BY <1>1, <2>2 DEF Undisturbed, Activating, Releasing
    <3>2. x \in Opposing(c, op)
      BY <3>1 DEF Opposing, Activating
    <3> QED
      BY <1>1, <2>2, <3>2
  <2>3. CASE x # c /\ y # c
    BY <1>1, <2>3 DEF ToldInv, CrossedOK, Undisturbed
  <2> QED
    BY <2>1, <2>2, <2>3
<1>4. ToldOK(c)'
  BY <1>1 DEF ToldOK, Elevators
<1>5. ASSUME NEW d \in Clients, d # c PROVE ToldOK(d)'
  BY <1>1, <1>2, <1>5 DEF ToldInv, ToldOK, Undisturbed
<1> QED
  BY <1>3, <1>4, <1>5 DEF ToldInv

\* The calls of addRequest are not concerned.
LEMMA ToldElsewhere ==
  ASSUME ControlInv, ToldInv, NEW c \in Clients,
         \/ NotifyDispatcher(c)
         \/ \E id \in RequestIds, trip \in Asked : AddRequest(c, id, trip[1], trip[2])
  PROVE  ToldInv'
<1>1. /\ emergencyStop' = emergencyStop
      /\ \E what \in {NoCall, InCall("pushed", 0)} : ClientBecomes(c, what)
  BY DEF NotifyDispatcher, AddRequest, carVars
<1>2. /\ client'[c].op \in {"idle", "pushed"}
      /\ \A d \in Clients : d # c => Undisturbed(d)
  <2>1. NoCall \in Calls /\ InCall("pushed", 0) \in Calls /\ TypeOK
    BY InCallTyped, AtTyped DEF ClientOps, ControlInv
  <2> QED
    BY <1>1, <2>1, ClientBecomesTyped, InCallTyped
<1>3. CrossedOK'
  BY <1>2, CrossedFrame DEF ToldInv, Activating, Releasing
<1> QED
  BY <1>1, <1>2, <1>3 DEF ToldInv, ToldOK, Undisturbed

LEMMA ToldStep == ControlInv /\ ToldInv /\ [Next]_vars => ToldInv'
<1> SUFFICES ASSUME ControlInv, ToldInv, [Next]_vars PROVE ToldInv'
  OBVIOUS
<1>1. CASE \E c \in Clients : ContinueCall(c) \/ NewCall(c)
  BY <1>1, ToldFlag, ToldStatus, ToldBegins, ToldElsewhere DEF ContinueCall, NewCall
<1>2. CASE \E e \in Elevators : CarStep(e) \/ WakesByItself(e)
  BY <1>2, ThreadFrame, ToldFrame DEF ControlInv, CarInv, CarStep, WakesByItself,
                                      controllerVars
<1>3. CASE DispatcherStep \/ DispatcherWakesByItself
  BY <1>3, ToldFrame
  DEF DispatcherStep, DispatcherWakesByItself, DispatcherLeavesLoop, DispatcherTakesLock,
      DispatcherBlocks, PopPending, FindBestElevator, OfferRefused, OfferAccepted, PushToCar,
      Push, NotifyCar, Notify, Requeue, carVars
<1>4. CASE StartAll \/ BeginStop \/ ContinueStop
  BY <1>4, ToldFrame
  DEF StartAll, BeginStop, ContinueStop, StopLowersRunning, LowerRunning, StopNotifiesCar,
      Notify, StopJoinsCar, StopWakesDispatcher, StopJoinsDispatcher, carVars
<1>5. CASE UNCHANGED vars
  BY <1>5, ToldFrame DEF vars, carVars, controllerVars
<1> QED
  BY <1>1, <1>2, <1>3, <1>4, <1>5 DEF Next

\* A call returns from its loop over the cars when it has told the last one.
LEMMA ReturnsBehindLast ==
  ASSUME ControlInv, [Next]_vars, NEW c \in Clients, client[c].op \in {"flagged", "cleared"},
         client'[c] = NoCall
  PROVE  emergencyStop' = emergencyStop /\ \A e \in Elevators : e <= client[c].car
<1>1. client'[c].op = "idle" /\ TypeOK
  BY InCallTyped DEF ControlInv
<1>2. client' # client
  BY <1>1
<1>3. PICK d \in Clients : ContinueCall(d) \/ NewCall(d)
  BY <1>2 DEF Next, CarStep, WakesByItself, DispatcherStep, DispatcherWakesByItself,
              DispatcherLeavesLoop, DispatcherTakesLock, DispatcherBlocks, PopPending,
              FindBestElevator, OfferRefused, OfferAccepted, PushToCar, NotifyCar, Requeue,
              StartAll, BeginStop, ContinueStop, StopLowersRunning, StopNotifiesCar,
              StopJoinsCar, StopWakesDispatcher, StopJoinsDispatcher, vars, controllerVars
<1>4. d = c
  BY <1>1, <1>3, ClientMoves DEF Undisturbed
<1>5. CASE EmergencyStopStatus(c) \/ ReleaseStatus(c)
  <2>1. PICK op \in {"activate", "release"} : NextCar(c, op)
    BY <1>5 DEF EmergencyStopStatus, ReleaseStatus
  <2>2. op \in ClientOps /\ op # "idle"
    BY DEF ClientOps
  <2>3. ~(client[c].car + 1 < NumElevators)
    BY <1>1, <2>1, <2>2, NextCarTyped, ClientBecomesTyped
  <2>4. \A e \in Elevators : e <= client[c].car
    BY <1>1, <2>3, ElevatorsAssumption DEF TypeOK, Calls, Elevators
  <2> QED
    BY <1>5, <2>4 DEF EmergencyStopStatus, ReleaseStatus, RaiseStatus, DropStatus
<1>6. CASE ~(EmergencyStopStatus(c) \/ ReleaseStatus(c))
  BY <1>3, <1>4, <1>6, InCallTyped
  DEF ContinueCall, NewCall, NotifyDispatcher, EmergencyStopFlag, ReleaseFlag, AddRequest,
      BeginEmergencyCall
<1> QED
  BY <1>5, <1>6

\* For every number of clients that stop and release at the same time: an
\* emergency command that no opposite one crosses has told every car when it
\* returns (ElevatorController.cpp:94-108).
THEOREM EveryCallTellsEveryCar == Spec => EveryCarIsTold
<1>1. Init => ToldInv
  BY InCallTyped DEF Init, ToldInv, ToldOK, CrossedOK, Activating, Releasing
<1>2. ControlInv /\ ToldInv /\ [Next]_vars =>
        [\A c \in Clients, e \in Elevators :
           ~client[c].crossed =>
             /\ Returns(c, "flagged") => emergencyStop'[e]
             /\ Returns(c, "cleared") => ~emergencyStop'[e]]_vars
  BY ReturnsBehindLast DEF ToldInv, ToldOK, Returns
<1> QED
  BY <1>1, <1>2, ToldStep, ControlHolds, PTL DEF Spec, EveryCarIsTold
=============================================================================
