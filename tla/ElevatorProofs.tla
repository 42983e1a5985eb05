---------------------------- MODULE ElevatorProofs ----------------------------
(***************************************************************************)
(* What each step of Elevator keeps, whoever takes it: the lemmas that the *)
(* proofs about SharedElevator and ElevatorController have in common.      *)
(***************************************************************************)
EXTENDS Elevator, TLAPS

-----------------------------------------------------------------------------
(* The course of a car.                                                    *)

\* The thread holds a request exactly while it serves it, and it is on a
\* delivery leg only for a request that has a destination.
HandOK ==
  \A e \in Elevators :
    /\ Busy(e) <=> currentRequest[e] # NoRequest
    /\ leg[e] = "delivery" => Busy(e) /\ currentRequest[e].toFloor # CallOnly

\* That a car stays between the first floor and the last one (the type of
\* currentFloor) is not inductive: it holds because the car heads for a floor
\* of the shaft and stops at it.
CarInv == CarTypeOK /\ HandOK /\ OnCourse

\* A car on a leg has a request in hand, and the leg ends at a floor of the
\* shaft.
LEMMA LegFloorIsFloor ==
  ASSUME CarInv, NEW e \in Elevators, Busy(e)
  PROVE  currentRequest[e] \in Request /\ LegFloor(e) \in Floors
<1>1. currentRequest[e] \in Request
  BY DEF CarInv, CarTypeOK, HandOK
<1> QED
  BY <1>1 DEF CarInv, CarTypeOK, HandOK, LegFloor, Legs, Request, CallOnly

\* The constructor.
LEMMA CarInitInv ==
  ASSUME CarInit PROVE CarInv
<1>1. 1 \in Floors
  BY FloorsAssumption DEF Floors
<1>2. CarTypeOK
  BY <1>1 DEF CarInit, CarTypeOK, Direction, ElevatorStatus, Labels, Legs, Fates
<1>3. HandOK /\ OnCourse
  BY DEF CarInit, HandOK, OnCourse, Busy
<1> QED
  BY <1>2, <1>3 DEF CarInv

\* The end of a leg, which three actions share; the doors may have reset the
\* car's direction and status.
LEMMA EndLegKeeps ==
  ASSUME CarInv, NEW e \in Elevators, Busy(e), NEW broken \in BOOLEAN, EndLeg(e, broken),
         UNCHANGED <<currentFloor, destinationFloor, emergencyStop, running, requests,
                     overrun>>,
         direction' \in [Elevators -> Direction], status' \in [Elevators -> ElevatorStatus],
         \A f \in Elevators : f # e => direction'[f] = direction[f]
  PROVE  CarInv'
<1>1. currentRequest[e] \in Request /\ currentRequest[e].id \in RequestIds
  BY LegFloorIsFloor DEF Request
<1> USE DEF CarInv, CarTypeOK, HandOK, OnCourse, Busy
<1>2. CASE leg[e] = "pickup" /\ currentRequest[e].toFloor # CallOnly
  <2>1. /\ leg' = [leg EXCEPT ![e] = "delivery"]
        /\ pc' = [pc EXCEPT ![e] = "depart"]
        /\ cut' \in [Elevators -> BOOLEAN]
        /\ UNCHANGED <<currentRequest, fate, boarded>>
    BY <1>2 DEF EndLeg
  <2>2. CarTypeOK'
    BY <2>1 DEF Labels, Legs
  <2>3. HandOK'
    BY <1>1, <1>2, <2>1, NoRequestAssumption
  <2>4. OnCourse'
    BY <2>1 DEF LegFloor
  <2> QED
    BY <2>2, <2>3, <2>4
<1>3. CASE ~(leg[e] = "pickup" /\ currentRequest[e].toFloor # CallOnly)
  <2>1. /\ leg' = [leg EXCEPT ![e] = "pickup"]
        /\ pc' = [pc EXCEPT ![e] = "loop"]
        /\ currentRequest' = [currentRequest EXCEPT ![e] = NoRequest]
        /\ boarded' = [boarded EXCEPT ![e] = FALSE]
        /\ cut' = [cut EXCEPT ![e] = FALSE]
        /\ fate' \in [RequestIds -> Fates]
    BY <1>1, <1>3 DEF EndLeg, Fates
  <2>2. CarTypeOK'
    BY <2>1 DEF Labels, Legs
  <2>3. HandOK'
    BY <2>1
  <2>4. OnCourse'
    BY <2>1 DEF LegFloor
  <2> QED
    BY <2>2, <2>3, <2>4
<1> QED
  BY <1>2, <1>3

\* One floor further a car is still in the shaft, and on course or there.
LEMMA NextFloorIsCloser ==
  ASSUME CarInv, NEW e \in Elevators, pc[e] = "travel"
  PROVE  /\ NextFloor(e) \in Floors
         /\ direction[e] = "UP" => NextFloor(e) <= LegFloor(e)
         /\ direction[e] = "DOWN" => NextFloor(e) >= LegFloor(e)
<1>1. LegFloor(e) \in Floors /\ Busy(e)
  BY LegFloorIsFloor DEF Busy
<1>2. /\ currentFloor[e] \in Floors
      /\ direction[e] \in {"UP", "DOWN"}
      /\ direction[e] = "UP" => currentFloor[e] < LegFloor(e)
      /\ direction[e] = "DOWN" => currentFloor[e] > LegFloor(e)
  BY DEF CarInv, CarTypeOK, OnCourse, Direction
<1>3. CASE direction[e] = "UP"
  BY <1>1, <1>2, <1>3, FloorsAssumption DEF NextFloor, Floors
<1>4. CASE direction[e] = "DOWN"
  BY <1>1, <1>2, <1>4, FloorsAssumption DEF NextFloor, Floors
<1> QED
  BY <1>2, <1>3, <1>4

\* A step of the thread of a car.
LEMMA ThreadStepKeeps ==
  ASSUME CarInv, NEW e \in Elevators, ThreadStep(e) \/ SpuriousWakeup(e)
  PROVE  CarInv'
<1> USE DEF CarInv, CarTypeOK, HandOK, OnCourse, Busy, cabin, history
<1>1. CASE LeaveLoop(e)
  BY <1>1 DEF LeaveLoop, LegFloor, Labels
<1>2. CASE TakeLock(e)
  BY <1>2 DEF TakeLock, LegFloor, Labels
<1>3. CASE Block(e)
  BY <1>3 DEF Block, LegFloor, Labels
<1>4. CASE SpuriousWakeup(e)
  BY <1>4 DEF SpuriousWakeup, LegFloor, Labels
<1>5. CASE SpinInEmergency(e)
  BY <1>5 DEF SpinInEmergency, LegFloor, Labels
<1>6. CASE TakeRequest(e)
  <2>1. Head(requests[e]) \in Request /\ Tail(requests[e]) \in Seq(Request)
    BY <1>6 DEF TakeRequest
  <2>2. Head(requests[e]) # NoRequest
    BY <2>1, NoRequestAssumption
  <2> QED
    BY <1>6, <2>1, <2>2 DEF TakeRequest, LegFloor, Labels
<1>7. CASE FindNothing(e)
  BY <1>7 DEF FindNothing, LegFloor, Labels
<1>8. CASE SetIdle(e)
  BY <1>8 DEF SetIdle, LegFloor, Labels, Direction, ElevatorStatus
<1>9. CASE AlreadyThere(e)
  <2>1. Busy(e) /\ \E broken \in BOOLEAN : EndLeg(e, broken)
    BY <1>9 DEF AlreadyThere
  <2> QED
    BY <1>9, <2>1, EndLegKeeps DEF AlreadyThere
<1>10. CASE SetOff(e)
  BY <1>10, LegFloorIsFloor DEF IsThere, SetOff, LegFloor, Labels, Direction, ElevatorStatus, Floors
<1>11. CASE KeepTravelling(e)
  BY <1>11 DEF KeepTravelling, LegFloor, Labels
<1>12. CASE BreakOff(e)
  <2>1. Busy(e) /\ \E broken \in BOOLEAN : EndLeg(e, broken)
    BY <1>12 DEF BreakOff
  <2> QED
    BY <1>12, <2>1, EndLegKeeps DEF BreakOff
<1>13. CASE MoveOneFloor(e)
  <2> DEFINE there == NextFloor(e) = LegFloor(e)
  <2>1. /\ LegFloor(e) \in Floors /\ currentFloor[e] \in Floors /\ pc[e] = "travel"
        /\ destinationFloor[e] = LegFloor(e) /\ direction[e] \in Direction
    BY <1>13, LegFloorIsFloor DEF MoveOneFloor
  <2>2. /\ NextFloor(e) \in Floors
        /\ direction[e] = "UP" => NextFloor(e) <= LegFloor(e)
        /\ direction[e] = "DOWN" => NextFloor(e) >= LegFloor(e)
    BY <2>1, NextFloorIsCloser
  <2>3. /\ currentFloor' = [currentFloor EXCEPT ![e] = NextFloor(e)]
        /\ overrun' \in [Elevators -> Nat]
        /\ status' \in [Elevators -> ElevatorStatus]
        /\ boarded' \in [Elevators -> BOOLEAN]
        /\ pc' = [pc EXCEPT ![e] = IF there THEN "doors" ELSE "check"]
        /\ UNCHANGED <<destinationFloor, direction, emergencyStop, running, requests,
                        leg, currentRequest, fate, cut>>
    <3> HIDE DEF CarInv, HandOK, OnCourse
    <3>1. CarTypeOK /\ MoveOneFloor(e)
      BY <1>13 DEF CarInv
    <3>2. overrun' \in [Elevators -> Nat]
      BY <3>1 DEF MoveOneFloor
    <3>3. CASE there
      <4>1. status' = [status EXCEPT ![e] = "STOPPED"]
            /\ boarded' = [boarded EXCEPT ![e] = @ \/ leg[e] = "pickup"]
            /\ pc' = [pc EXCEPT ![e] = "doors"]
        BY <3>1, <3>3 DEF MoveOneFloor
      <4> QED
        BY <3>1, <3>2, <3>3, <4>1 DEF MoveOneFloor, ElevatorStatus
    <3>4. CASE ~there
      <4>1. pc' = [pc EXCEPT ![e] = "check"] /\ UNCHANGED <<status, boarded>>
        BY <3>1, <3>4 DEF MoveOneFloor
      <4> QED
        BY <3>1, <3>2, <3>4, <4>1 DEF MoveOneFloor
    <3> QED
      BY <3>3, <3>4
  <2>4. \A f \in Elevators : LegFloor(f)' = LegFloor(f)
    BY <2>3 DEF LegFloor
  <2> HIDE DEF there
  <2>5. CarTypeOK'
    BY <2>2, <2>3 DEF Labels
  <2>6. HandOK'
    BY <2>1, <2>3
  <2>7. OnCourse'
    <3> SUFFICES ASSUME NEW f \in Elevators
                 PROVE  /\ pc'[f] \in {"check", "travel"} =>
                             /\ destinationFloor'[f] = LegFloor(f)
                             /\ direction'[f] = "UP" => currentFloor'[f] < LegFloor(f)
                             /\ direction'[f] = "DOWN" => currentFloor'[f] > LegFloor(f)
                             /\ direction'[f] # "IDLE"
                        /\ pc'[f] = "doors" =>
                             destinationFloor'[f] = LegFloor(f) /\ currentFloor'[f] = LegFloor(f)
      BY <2>4
    <3>1. CASE f = e
      BY <3>1, <2>1, <2>2, <2>3 DEF there, Floors
    <3>2. CASE f # e
      BY <3>2, <2>3
    <3> QED
      BY <3>1, <3>2
  <2> QED
    BY <2>3, <2>5, <2>6, <2>7
<1>14. CASE CloseDoors(e)
  <2>1. Busy(e) /\ EndLeg(e, FALSE)
    BY <1>14 DEF CloseDoors
  <2>2. /\ direction' = [direction EXCEPT ![e] = "IDLE"]
        /\ status' = [status EXCEPT ![e] = "IDLE"]
        /\ UNCHANGED <<currentFloor, destinationFloor, emergencyStop, running, requests,
                       overrun>>
    BY <1>14 DEF CloseDoors
  <2> QED
    BY <2>1, <2>2, EndLegKeeps DEF Direction, ElevatorStatus
<1> QED
  BY <1>1, <1>2, <1>3, <1>4, <1>5, <1>6, <1>7, <1>8, <1>9, <1>10, <1>11, <1>12, <1>13, <1>14
  DEF ThreadStep, MoveToFloor

\* The steps of the methods that other threads call: none of them touches the
\* course or the hand of the thread, whatever leg the car is on.
LEMMA MethodKeeps ==
  ASSUME CarInv, NEW e \in Elevators,
         \/ LowerRunning(e) \/ Notify(e) \/ RaiseFlag(e) \/ RaiseStatus(e)
         \/ DropFlag(e) \/ DropStatus(e) \/ UNCHANGED carVars
  PROVE  CarInv'
<1> USE DEF CarInv, CarTypeOK, HandOK, OnCourse, Busy, LegFloor, carVars, cabin, thread, history
<1>1. CASE LowerRunning(e)
  BY <1>1 DEF LowerRunning
<1>5. CASE RaiseFlag(e)
  BY <1>5 DEF RaiseFlag
<1>6. CASE DropFlag(e)
  BY <1>6 DEF DropFlag
<1>7. CASE UNCHANGED carVars
  BY <1>7
<1>2. CASE Notify(e)
  BY <1>2 DEF Notify, Wake, Labels
<1>3. CASE RaiseStatus(e)
  BY <1>3 DEF RaiseStatus, Wake, Labels, ElevatorStatus
<1>4. CASE DropStatus(e)
  BY <1>4 DEF DropStatus, ElevatorStatus
<1> QED
  BY <1>1, <1>2, <1>3, <1>4, <1>5, <1>6, <1>7

\* Elevator::addRequest puts a request of the building into the queue.
LEMMA PushKeeps ==
  ASSUME CarInv, NEW e \in Elevators, NEW request \in Request, Push(e, request)
  PROVE  CarInv'
<1>1. requests' \in [Elevators -> Seq(Request)]
  BY DEF CarInv, CarTypeOK, Push
<1>2. fate' \in [RequestIds -> Fates]
  BY DEF CarInv, CarTypeOK, Push, Request, Fates
<1> QED
  BY <1>1, <1>2 DEF CarInv, CarTypeOK, HandOK, OnCourse, Busy, LegFloor, Push, cabin, thread

\* What becomes of a request outside the cars changes its fate only.
LEMMA FateKeeps ==
  ASSUME CarInv, fate' \in [RequestIds -> Fates],
         UNCHANGED <<cabin, emergencyStop, running, requests, thread, boarded, cut, overrun>>
  PROVE  CarInv'
BY DEF CarInv, CarTypeOK, HandOK, OnCourse, Busy, LegFloor, cabin, thread

\* A thread without a car to move, or one that has returned, takes no step, and
\* no thread steps for another.
LEMMA ThreadFrame ==
  ASSUME CarTypeOK, NEW e \in Elevators, ThreadStep(e) \/ SpuriousWakeup(e)
  PROVE  /\ pc[e] \notin {"off", "exited"}
         /\ \A f \in Elevators : f # e => pc'[f] = pc[f]
         /\ UNCHANGED <<emergencyStop, running>>
<1> USE DEF CarTypeOK
<1>1. CASE LeaveLoop(e) \/ TakeLock(e) \/ Block(e) \/ SpinInEmergency(e) \/ SpuriousWakeup(e)
  BY <1>1 DEF LeaveLoop, TakeLock, Block, SpinInEmergency, SpuriousWakeup
<1>2. CASE TakeRequest(e) \/ FindNothing(e) \/ SetIdle(e)
  BY <1>2 DEF TakeRequest, FindNothing, SetIdle
<1>3. CASE AlreadyThere(e) \/ BreakOff(e) \/ CloseDoors(e)
  BY <1>3 DEF AlreadyThere, BreakOff, CloseDoors, EndLeg
<1>4. CASE SetOff(e) \/ KeepTravelling(e) \/ MoveOneFloor(e)
  BY <1>4 DEF SetOff, KeepTravelling, MoveOneFloor
<1> QED
  BY <1>1, <1>2, <1>3, <1>4 DEF ThreadStep, MoveToFloor

-----------------------------------------------------------------------------
(* The places of a request.                                                *)

\* A car that holds a request keeps it until the request is over.
HoldersStay ==
  \A id \in RequestIds, e \in Elevators :
    Holds(e, id) /\ fate'[id] = "accepted" => Holds(e, id)'

\* TakeRequest moves a request from the head of the queue into the hand.
LEMMA OnceTakeRequest ==
  ASSUME CarTypeOK, EachAcceptedOnce, NEW e \in Elevators, currentRequest[e] = NoRequest,
         TakeRequest(e)
  PROVE  EachAcceptedOnce' /\ HoldersStay
<1> DEFINE q == requests[e]
<1>1. /\ q \in Seq(Request) /\ q # <<>> /\ Head(q) = q[1] /\ q[1] \in Request
      /\ requests' = [requests EXCEPT ![e] = Tail(q)]
      /\ currentRequest' = [currentRequest EXCEPT ![e] = q[1]]
      /\ fate' = fate
  BY DEF TakeRequest, CarTypeOK
<1>2. /\ DOMAIN q = 1..Len(q) /\ Len(q) \in Nat /\ Len(q) >= 1
      /\ DOMAIN Tail(q) = 1..(Len(q) - 1)
      /\ \A i \in 1..(Len(q) - 1) : Tail(q)[i] = q[i + 1]
  BY <1>1
<1>3. q[1] # NoRequest
  BY <1>1, NoRequestAssumption
<1>4. ASSUME NEW id \in RequestIds
      PROVE  /\ InHand(e, id)' <=> q[1].id = id
             /\ ~InHand(e, id)
             /\ \A f \in Elevators \ {e} :
                  /\ InHand(f, id)' <=> InHand(f, id)
                  /\ DOMAIN requests'[f] = DOMAIN requests[f]
                  /\ \A i \in DOMAIN requests[f] : InQueue(f, i, id)' <=> InQueue(f, i, id)
             /\ DOMAIN requests'[e] = 1..(Len(q) - 1)
             /\ \A i \in 1..(Len(q) - 1) : InQueue(e, i, id)' <=> q[i + 1].id = id
             /\ \A i \in 1..Len(q) : InQueue(e, i, id) <=> q[i].id = id
  BY <1>1, <1>2, <1>3 DEF CarTypeOK, InHand, InQueue
<1>5. ASSUME NEW id \in RequestIds, NEW f \in Elevators
      PROVE  Holds(f, id)' <=> Holds(f, id)
  <2>1. CASE f # e
    BY <2>1, <1>4 DEF Holds
  <2>2. CASE f = e
    <3>1. Holds(e, id) <=> \E i \in 1..Len(q) : q[i].id = id
      BY <1>2, <1>4 DEF Holds
    <3>2. Holds(e, id)' <=> q[1].id = id \/ \E i \in 1..(Len(q) - 1) : q[i + 1].id = id
      BY <1>4 DEF Holds
    <3>3. ASSUME NEW i \in 1..Len(q), i # 1
          PROVE  i - 1 \in 1..(Len(q) - 1) /\ (i - 1) + 1 = i
      <4>1. Len(q) \in Nat
        BY <1>2
      <4> QED
        BY <3>3, <4>1
    <3>4. \A i \in 1..(Len(q) - 1) : i + 1 \in 1..Len(q)
      BY <1>2
    <3>5. 1 \in 1..Len(q)
      BY <1>2
    <3> HIDE DEF q
    <3> QED
      BY <2>2, <3>1, <3>2, <3>3, <3>4, <3>5
  <2> QED
    BY <2>1, <2>2
<1>6. ASSUME NEW id \in RequestIds
      PROVE  AtMostOnce(id)'
  <2>1. /\ AtMostOnce(id)
        /\ \A i \in 1..(Len(q) - 1) : i + 1 \in 1..Len(q) /\ i + 1 # 1
        /\ 1 \in 1..Len(q)
    BY <1>2 DEF EachAcceptedOnce
  <2>2. \A i, j \in 1..Len(q) : q[i].id = id /\ q[j].id = id => i = j
    BY <2>1, <1>2, <1>4 DEF AtMostOnce
  <2>3. \A f \in Elevators \ {e}, i \in 1..Len(q) :
          q[i].id = id => ~InHand(f, id) /\ \A j \in DOMAIN requests[f] : ~InQueue(f, j, id)
    BY <2>1, <1>2, <1>4 DEF AtMostOnce
  <2> SUFFICES ASSUME NEW f \in Elevators, NEW g \in Elevators
               PROVE  (/\ InHand(f, id) /\ InHand(g, id) => f = g
                       /\ \A i \in DOMAIN requests[f] : ~(InQueue(f, i, id) /\ InHand(g, id))
                       /\ \A i \in DOMAIN requests[f], j \in DOMAIN requests[g] :
                            InQueue(f, i, id) /\ InQueue(g, j, id) => f = g /\ i = j)'
    BY DEF AtMostOnce
  <2> HIDE DEF q
  <2>4. CASE f = e /\ g = e
    <3>1. \A i \in DOMAIN requests'[e] : ~(InQueue(e, i, id)' /\ InHand(e, id)')
      BY <2>1, <2>2, <1>4
    <3>2. \A i, j \in 1..(Len(q) - 1) : i + 1 = j + 1 => i = j
      BY <1>2
    <3>3. \A i, j \in DOMAIN requests'[e] : InQueue(e, i, id)' /\ InQueue(e, j, id)' => i = j
      <4> SUFFICES ASSUME NEW i \in 1..(Len(q) - 1), NEW j \in 1..(Len(q) - 1),
                          InQueue(e, i, id)', InQueue(e, j, id)'
                   PROVE  i = j
        BY <1>4
      <4>1. q[i + 1].id = id /\ q[j + 1].id = id
        BY <1>4
      <4>2. i + 1 = j + 1
        BY <4>1, <2>1, <2>2
      <4> QED
        BY <4>2, <3>2
    <3> QED
      BY <2>4, <3>1, <3>3
  <2>5. CASE f = e /\ g # e
    BY <2>5, <2>1, <2>3, <1>4
  <2>6. CASE f # e /\ g = e
    BY <2>6, <2>1, <2>3, <1>4
  <2>7. CASE f # e /\ g # e
    BY <2>7, <2>1, <1>4 DEF AtMostOnce
  <2> QED
    BY <2>4, <2>5, <2>6, <2>7
<1> QED
  BY <1>1, <1>5, <1>6 DEF EachAcceptedOnce, HoldersStay

\* Push gives a car a request that no car has.
LEMMA OncePush ==
  ASSUME CarTypeOK, EachAcceptedOnce, NEW e \in Elevators, NEW request \in Request,
         fate[request.id] = "offered", Push(e, request),
         NEW n, n = Len(requests[e])
  PROVE  EachAcceptedOnce' /\ HoldersStay
<1> DEFINE q == requests[e]
           x == request.id
<1>1. /\ q \in Seq(Request) /\ x \in RequestIds
      /\ requests' = [requests EXCEPT ![e] = Append(q, request)]
      /\ currentRequest' = currentRequest
      /\ fate' = [fate EXCEPT ![x] = "accepted"]
  BY DEF Push, CarTypeOK, Request, thread
<1>2. /\ DOMAIN q = 1..n /\ n \in Nat
      /\ DOMAIN Append(q, request) = 1..(n + 1)
      /\ \A i \in 1..n : Append(q, request)[i] = q[i]
      /\ Append(q, request)[n + 1] = request
  BY <1>1
<1>3. ASSUME NEW id \in RequestIds
      PROVE  /\ \A f \in Elevators : InHand(f, id)' <=> InHand(f, id)
             /\ \A f \in Elevators \ {e} :
                  /\ DOMAIN requests'[f] = DOMAIN requests[f]
                  /\ \A i \in DOMAIN requests[f] : InQueue(f, i, id)' <=> InQueue(f, i, id)
             /\ DOMAIN requests'[e] = 1..(n + 1)
             /\ \A i \in 1..n : i \in 1..(n + 1) /\ (InQueue(e, i, id)' <=> InQueue(e, i, id))
             /\ InQueue(e, n + 1, id)' <=> x = id
  <2>1. n + 1 \in 1..(n + 1) /\ \A i \in 1..n : i \in 1..(n + 1)
    BY <1>2
  <2>2. \A f \in Elevators : InHand(f, id)' <=> InHand(f, id)
    BY <1>1 DEF InHand
  <2>3. \A f \in Elevators \ {e} : requests'[f] = requests[f]
    BY <1>1 DEF CarTypeOK
  <2>4. requests'[e] = Append(q, request)
    BY <1>1 DEF CarTypeOK
  <2> HIDE DEF q, x
  <2>5. \A f \in Elevators \ {e} :
          /\ DOMAIN requests'[f] = DOMAIN requests[f]
          /\ \A i \in DOMAIN requests[f] : InQueue(f, i, id)' <=> InQueue(f, i, id)
    BY <2>3 DEF InQueue
  <2>6. \A i \in 1..n : InQueue(e, i, id)' <=> InQueue(e, i, id)
    BY <2>1, <2>4, <1>2 DEF InQueue, q
  <2>7. InQueue(e, n + 1, id)' <=> x = id
    <3>1. requests'[e][n + 1] = request /\ n + 1 \in DOMAIN requests'[e]
      BY <2>1, <2>4, <1>2
    <3> QED
      BY <3>1 DEF InQueue, x
  <2> QED
    BY <2>1, <2>2, <2>4, <2>5, <2>6, <2>7, <1>2
<1>4. \A i \in 1..(n + 1) : i \in 1..n \/ i = n + 1
  BY <1>2
<1>5. n + 1 \in 1..(n + 1) /\ n + 1 \notin 1..n
  BY <1>2
<1>6. \A f \in Elevators : ~Holds(f, x)
  BY <1>1 DEF EachAcceptedOnce
<1> HIDE DEF q, x
<1>7. ASSUME NEW id \in RequestIds, NEW f \in Elevators
      PROVE  Holds(f, id)' <=> Holds(f, id) \/ (f = e /\ id = x)
  <2>1. CASE f # e
    BY <2>1, <1>3 DEF Holds
  <2>2. CASE f = e
    <3>1. Holds(e, id) <=> InHand(e, id) \/ \E i \in 1..n : InQueue(e, i, id)
      BY <1>2 DEF Holds, q
    <3>2. Holds(e, id)' <=> InHand(e, id) \/ \E i \in 1..(n + 1) : InQueue(e, i, id)'
      BY <1>3 DEF Holds
    <3>3. ASSUME NEW i \in 1..(n + 1), InQueue(e, i, id)'
          PROVE  id = x \/ \E j \in 1..n : InQueue(e, j, id)
      <4>1. CASE i \in 1..n
        BY <4>1, <3>3, <1>3
      <4>2. CASE i = n + 1
        <5>1. InQueue(e, n + 1, id)'
          BY <4>2, <3>3 DEF InQueue
        <5> QED
          BY <5>1, <1>3
      <4> QED
        BY <4>1, <4>2, <1>4
    <3>4. id = x => InQueue(e, n + 1, id)'
      BY <1>3
    <3>5. \A j \in 1..n : InQueue(e, j, id) => j \in 1..(n + 1) /\ InQueue(e, j, id)'
      BY <1>3
    <3>6. Holds(e, id)' => Holds(e, id) \/ id = x
      BY <3>1, <3>2, <3>3
    <3>7. Holds(e, id) => Holds(e, id)'
      BY <3>1, <3>2, <3>5
    <3>8. id = x => Holds(e, id)'
      BY <3>2, <3>4, <1>5
    <3> QED
      BY <2>2, <3>6, <3>7, <3>8
  <2> QED
    BY <2>1, <2>2
<1>8. ASSUME NEW id \in RequestIds
      PROVE  AtMostOnce(id)'
  <2>1. AtMostOnce(id)
    BY DEF EachAcceptedOnce
  <2>2. CASE id = x
    <3>1. \A f \in Elevators : ~InHand(f, x)' /\ (f # e => \A i \in DOMAIN requests'[f] : ~InQueue(f, i, x)')
      BY <2>2, <1>3, <1>6 DEF Holds
    <3>2. \A i \in 1..n : ~InQueue(e, i, x)'
      BY <2>2, <1>2, <1>3, <1>6 DEF Holds, q
    <3>3. \A i \in DOMAIN requests'[e] : InQueue(e, i, x)' => i = n + 1
      BY <2>2, <3>2, <1>3, <1>4
    <3> QED
      BY <2>2, <3>1, <3>3 DEF AtMostOnce
  <2>3. CASE id # x
    <3>1. \A f \in Elevators : \A i \in DOMAIN requests'[f] :
            InQueue(f, i, id)' => i \in DOMAIN requests[f] /\ InQueue(f, i, id)
      <4> SUFFICES ASSUME NEW f \in Elevators, NEW i \in DOMAIN requests'[f], InQueue(f, i, id)'
                   PROVE  i \in DOMAIN requests[f] /\ InQueue(f, i, id)
        OBVIOUS
      <4>1. CASE f # e
        BY <4>1, <1>3
      <4>2. CASE f = e
        <5>1. i \in 1..n
          <6>1. i # n + 1
            <7> SUFFICES ASSUME i = n + 1 PROVE FALSE
              OBVIOUS
            <7>1. InQueue(e, n + 1, id)'
              BY <4>2 DEF InQueue
            <7> QED
              BY <7>1, <2>3, <1>3
          <6> QED
            BY <6>1, <4>2, <1>3, <1>4
        <5> QED
          BY <4>2, <5>1, <1>2, <1>3 DEF q
      <4> QED
        BY <4>1, <4>2
    <3> QED
      BY <3>1, <2>1, <1>3 DEF AtMostOnce
  <2> QED
    BY <2>2, <2>3
<1>9. \A id \in RequestIds : fate'[id] = "accepted" <=> fate[id] = "accepted" \/ id = x
  BY <1>1 DEF CarTypeOK
<1> QED
  BY <1>7, <1>8, <1>9 DEF EachAcceptedOnce, HoldersStay

\* The end of a leg: the request stays in hand, or it is over.
LEMMA OnceEndLeg ==
  ASSUME CarTypeOK, EachAcceptedOnce, NEW e \in Elevators, currentRequest[e] \in Request,
         NEW broken \in BOOLEAN, EndLeg(e, broken), requests' = requests,
         NEW x, x = currentRequest[e].id
  PROVE  EachAcceptedOnce' /\ HoldersStay
<1>1. CASE leg[e] = "pickup" /\ currentRequest[e].toFloor # CallOnly
  BY <1>1 DEF EndLeg, EachAcceptedOnce, AtMostOnce, Holds, InHand, InQueue, HoldersStay
<1>2. CASE ~(leg[e] = "pickup" /\ currentRequest[e].toFloor # CallOnly)
  <2>1. /\ x \in RequestIds
        /\ currentRequest' = [currentRequest EXCEPT ![e] = NoRequest]
        /\ fate' = [fate EXCEPT ![x] = fate'[x]]
        /\ fate'[x] # "accepted"
    BY <1>2 DEF EndLeg, Request, CarTypeOK
  <2>2. InHand(e, x)
    BY NoRequestAssumption DEF InHand
  <2>3. ASSUME NEW id \in RequestIds
        PROVE  /\ ~InHand(e, id)'
               /\ \A f \in Elevators \ {e} : InHand(f, id)' <=> InHand(f, id)
               /\ \A f \in Elevators : \A i \in DOMAIN requests[f] : InQueue(f, i, id)' <=> InQueue(f, i, id)
    <3>1. \A f \in Elevators : f # e => currentRequest'[f] = currentRequest[f]
      BY <2>1 DEF CarTypeOK
    <3>2. currentRequest'[e] = NoRequest
      BY <2>1 DEF CarTypeOK
    <3> QED
      BY <3>1, <3>2 DEF InHand, InQueue
  <2>4. \A f \in Elevators : ~Holds(f, x)'
    <3>1. AtMostOnce(x)
      BY <2>1 DEF EachAcceptedOnce
    <3>2. \A f \in Elevators : \A i \in DOMAIN requests[f] : ~InQueue(f, i, x)
      BY <2>2, <3>1 DEF AtMostOnce
    <3>3. \A f \in Elevators \ {e} : ~InHand(f, x)
      BY <2>2, <3>1 DEF AtMostOnce
    <3>4. \A f \in Elevators : ~InHand(f, x)' /\ \A i \in DOMAIN requests[f] : ~InQueue(f, i, x)'
      BY <2>1, <2>3, <3>2, <3>3
    <3> QED
      BY <3>4 DEF Holds
  <2>5. ASSUME NEW id \in RequestIds, id # x, NEW f \in Elevators
        PROVE  Holds(f, id)' <=> Holds(f, id)
    <3>1. InHand(e, id) => id = x
      BY DEF InHand
    <3> QED
      BY <2>3, <2>5, <3>1 DEF Holds
  <2>6. \A id \in RequestIds : id # x => fate'[id] = fate[id]
    BY <2>1 DEF CarTypeOK
  <2>7. \A id \in RequestIds : AtMostOnce(id)'
    BY <2>3 DEF EachAcceptedOnce, AtMostOnce
  <2> QED
    BY <2>1, <2>4, <2>5, <2>6, <2>7 DEF EachAcceptedOnce, HoldersStay
<1> QED
  BY <1>1, <1>2

\* Steps that touch neither the queues nor the hands nor the fates.
LEMMA OnceFrame ==
  /\ UNCHANGED <<requests, currentRequest>> => HoldersStay
  /\ EachAcceptedOnce /\ UNCHANGED <<requests, currentRequest, fate>> => EachAcceptedOnce'
BY DEF EachAcceptedOnce, AtMostOnce, Holds, InHand, InQueue, HoldersStay

\* A step of a car's thread moves requests, and finishes them, one at a time.
LEMMA OnceThreadStep ==
  ASSUME CarInv, EachAcceptedOnce, NEW e \in Elevators, ThreadStep(e) \/ SpuriousWakeup(e)
  PROVE  EachAcceptedOnce' /\ HoldersStay
<1>0. CarTypeOK /\ HandOK
  BY DEF CarInv
<1>1. CASE TakeRequest(e)
  <2>1. currentRequest[e] = NoRequest
    BY <1>0, <1>1 DEF TakeRequest, HandOK, Busy
  <2> QED
    BY <1>0, <1>1, <2>1, OnceTakeRequest
<1>2. CASE AlreadyThere(e) \/ BreakOff(e) \/ CloseDoors(e)
  <2>1. /\ Busy(e) /\ requests' = requests
        /\ \E broken \in BOOLEAN : EndLeg(e, broken)
    BY <1>2 DEF AlreadyThere, BreakOff, CloseDoors, Busy
  <2>2. currentRequest[e] \in Request
    BY <2>1, LegFloorIsFloor
  <2> QED
    BY <1>0, <2>1, <2>2, OnceEndLeg
<1>3. CASE ~(TakeRequest(e) \/ AlreadyThere(e) \/ BreakOff(e) \/ CloseDoors(e))
  <2>1. UNCHANGED <<requests, currentRequest, fate>>
    BY <1>3 DEF ThreadStep, MoveToFloor, SpuriousWakeup, LeaveLoop, TakeLock, Block,
                SpinInEmergency, FindNothing, SetIdle, SetOff, KeepTravelling, MoveOneFloor,
                history
  <2> QED
    BY <2>1, OnceFrame
<1> QED
  BY <1>1, <1>2, <1>3

\* The only fate that a car's thread changes is that of a request that was
\* accepted: the one in its hand.
LEMMA FateThreadStep ==
  ASSUME CarInv, EachAcceptedOnce, NEW e \in Elevators, ThreadStep(e) \/ SpuriousWakeup(e)
  PROVE  \/ fate' = fate
         \/ \E id \in RequestIds, f \in {"served", "abandoned"} :
              fate[id] = "accepted" /\ fate' = [fate EXCEPT ![id] = f]
<1>1. CASE AlreadyThere(e) \/ BreakOff(e) \/ CloseDoors(e)
  <2>1. currentRequest[e] \in Request
    BY <1>1, LegFloorIsFloor DEF IsThere, AlreadyThere, BreakOff, CloseDoors, Busy
  <2>2. currentRequest[e].id \in RequestIds /\ InHand(e, currentRequest[e].id)
    BY <2>1, NoRequestAssumption DEF Request, InHand
  <2>3. fate[currentRequest[e].id] = "accepted"
    BY <2>2 DEF EachAcceptedOnce, Holds
  <2>4. \/ fate' = fate
        \/ fate' = [fate EXCEPT ![currentRequest[e].id] = "served"]
        \/ fate' = [fate EXCEPT ![currentRequest[e].id] = "abandoned"]
    BY <1>1 DEF AlreadyThere, BreakOff, CloseDoors, EndLeg
  <2> QED
    BY <2>2, <2>3, <2>4
<1>2. CASE ~(AlreadyThere(e) \/ BreakOff(e) \/ CloseDoors(e))
  BY <1>2 DEF ThreadStep, MoveToFloor, SpuriousWakeup, LeaveLoop, TakeLock, Block,
              SpinInEmergency, TakeRequest, FindNothing, SetIdle, SetOff, KeepTravelling,
              MoveOneFloor, history
<1> QED
  BY <1>1, <1>2
=============================================================================
