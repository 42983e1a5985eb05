------------------------- MODULE ElevatorController -------------------------
(***************************************************************************)
(* The class ElevatorController over its cars: the dispatcher thread, the  *)
(* threads that call addRequest, emergencyStop and releaseEmergencyStop    *)
(* (the user interface and the connection handlers of the server, here     *)
(* Clients), and the thread that calls start and stop (main, the owner).   *)
(* The cars are those of Elevator.tla, step by step.  The sync thread is   *)
(* not here: without a database it returns at once.                        *)
(***************************************************************************)
EXTENDS Elevator

CONSTANTS
  Clients,
  Asked     \* <<fromFloor, toFloor>>: what the clients ask for, valid or not

ASSUME AskedAssumption == Asked \subseteq Int \X Int

VARIABLES
  pendingRequests,     \* the queue protected by the controller's requestMutex
  controllerRunning,   \* running
  dispatcher,          \* the dispatcher thread
  client,              \* what each client is in the middle of
  owner                \* what the owner is in the middle of

controllerVars == <<pendingRequests, controllerRunning, dispatcher, client, owner>>
vars == <<carVars, controllerVars>>

(* The dispatcher's "loop" to "ready" are those of a car's thread.         *)
(* "scan": in findBestElevator, before car next.  "offer": before the test *)
(* of Elevator::addRequest on the chosen car; "push" and "notify" are its  *)
(* two other steps.  "requeue": no car was found.                          *)
DispatcherLabels == {"off", "loop", "block", "waiting", "ready", "scan", "offer",
                     "push", "notify", "requeue", "exited"}
Dispatcher == [at : DispatcherLabels, request : Request \cup {NoRequest},
               next : 0..NumElevators,
               scan : [best : Elevators \cup {NoCar}, shortest : Int]]

DispatcherAt(label) ==
  [at |-> label, request |-> NoRequest, next |-> 0, scan |-> EmptyScan]

(* A client's "pushed" is before notify_one; "activate" and "release" are  *)
(* before car number car, "flagged" and "cleared" between its flag and its *)
(* status.  crossed is what an observer remembers of an emergency command: *)
(* one of the opposite kind was under way at some time during it.          *)
(* The owner's "stopping" is before Elevator::stop of car number car,      *)
(* "lowered" and "joining" are inside it; "waking" is before the           *)
(* notification of the dispatcher and "joiningDispatcher" after it.        *)
ClientOps == {"idle", "pushed", "activate", "flagged", "release", "cleared"}
OwnerOps == {"idle", "stopping", "lowered", "joining", "waking", "joiningDispatcher"}
At(op, e) == [op |-> op, car |-> e]
Idle == At("idle", 0)

Calls == [op : ClientOps, car : Elevators, crossed : BOOLEAN]
InCall(op, e) == [op |-> op, car |-> e, crossed |-> FALSE]
NoCall == InCall("idle", 0)

TypeOK ==
  /\ CarTypeOK
  /\ pendingRequests \in Seq(Request)
  /\ controllerRunning \in BOOLEAN
  /\ dispatcher \in Dispatcher
  /\ client \in [Clients -> Calls]
  /\ owner \in [op : OwnerOps, car : Elevators]

Init ==
  /\ CarInit
  /\ pendingRequests = <<>>
  /\ controllerRunning = FALSE
  /\ dispatcher = DispatcherAt("off")
  /\ client = [c \in Clients |-> NoCall]
  /\ owner = Idle

HoldsQueueMutex == dispatcher.at \in {"block", "ready"}
WakeDispatcher ==
  dispatcher' = IF dispatcher.at = "waiting" THEN DispatcherAt("loop") ELSE dispatcher

-----------------------------------------------------------------------------
(* dispatcherLoop.                                                         *)

DispatcherLeavesLoop ==
  /\ dispatcher.at \in {"loop", "ready"}
  /\ ~controllerRunning
  /\ dispatcher' = DispatcherAt("exited")
  /\ UNCHANGED <<carVars, pendingRequests, controllerRunning, client, owner>>

DispatcherTakesLock ==
  /\ dispatcher.at = "loop"
  /\ dispatcher' = DispatcherAt(
       IF ~controllerRunning \/ pendingRequests # <<>> THEN "ready" ELSE "block")
  /\ UNCHANGED <<carVars, pendingRequests, controllerRunning, client, owner>>

DispatcherBlocks ==
  /\ dispatcher.at = "block"
  /\ dispatcher' = DispatcherAt("waiting")
  /\ UNCHANGED <<carVars, pendingRequests, controllerRunning, client, owner>>

DispatcherWakesByItself ==
  /\ dispatcher.at = "waiting"
  /\ dispatcher' = DispatcherAt("loop")
  /\ UNCHANGED <<carVars, pendingRequests, controllerRunning, client, owner>>

\* Seeded fault: the request is copied and not popped.
PopPendingNoPop ==
  /\ dispatcher.at = "ready"
  /\ controllerRunning
  /\ dispatcher' = [DispatcherAt("scan") EXCEPT !.request = Head(pendingRequests)]
  /\ UNCHANGED <<carVars, pendingRequests, controllerRunning, client, owner>>

\* While the dispatcher is "ready" it holds the mutex, so the queue that made
\* the predicate true is still not empty.
PopPending ==
  /\ dispatcher.at = "ready"
  /\ controllerRunning
  /\ dispatcher' = [DispatcherAt("scan") EXCEPT !.request = Head(pendingRequests)]
  /\ pendingRequests' = Tail(pendingRequests)
  /\ UNCHANGED <<carVars, controllerRunning, client, owner>>

SnapshotOf(e) ==
  [floor |-> currentFloor[e], direction |-> direction[e],
   status |-> status[e], emergencyStop |-> emergencyStop[e]]

\* One iteration of the loop of findBestElevator, and the test of its result
\* after the last one.
FindBestElevator ==
  LET e == dispatcher.next
      s == Consider(dispatcher.scan, e, SnapshotOf(e), dispatcher.request.fromFloor)
  IN  /\ dispatcher.at = "scan"
      /\ dispatcher' =
           [dispatcher EXCEPT
              !.scan = s, !.next = e + 1,
              !.at = IF e + 1 < NumElevators THEN "scan"
                     ELSE IF s.best = NoCar THEN "requeue" ELSE "offer"]
      /\ UNCHANGED <<carVars, pendingRequests, controllerRunning, client, owner>>

\* Elevator::addRequest returns false and nobody looks at what it returns: the
\* request is gone.
OfferRefused ==
  /\ dispatcher.at = "offer"
  /\ emergencyStop[dispatcher.scan.best]
  /\ fate' = [fate EXCEPT ![dispatcher.request.id] = "rejected"]
  /\ dispatcher' = DispatcherAt("loop")
  /\ UNCHANGED <<cabin, emergencyStop, running, requests, thread, boarded, cut, overrun,
                 pendingRequests, controllerRunning, client, owner>>

OfferAccepted ==
  /\ dispatcher.at = "offer"
  /\ ~emergencyStop[dispatcher.scan.best]
  /\ dispatcher' = [dispatcher EXCEPT !.at = "push"]
  /\ UNCHANGED <<carVars, pendingRequests, controllerRunning, client, owner>>

PushToCar ==
  /\ dispatcher.at = "push"
  /\ Push(dispatcher.scan.best, dispatcher.request)
  /\ dispatcher' = [dispatcher EXCEPT !.at = "notify", !.request = NoRequest]
  /\ UNCHANGED <<pendingRequests, controllerRunning, client, owner>>

\* Seeded fault: the car is not told of the request.
NotifyCarForgotten ==
  /\ dispatcher.at = "notify"
  /\ dispatcher' = DispatcherAt("loop")
  /\ UNCHANGED <<carVars, pendingRequests, controllerRunning, client, owner>>

NotifyCar ==
  /\ dispatcher.at = "notify"
  /\ Notify(dispatcher.scan.best)
  /\ dispatcher' = DispatcherAt("loop")
  /\ UNCHANGED <<pendingRequests, controllerRunning, client, owner>>

\* Seeded fault: the request for which no car was found is forgotten.
RequeueForgotten ==
  /\ dispatcher.at = "requeue"
  /\ dispatcher' = DispatcherAt("loop")
  /\ UNCHANGED <<carVars, pendingRequests, controllerRunning, client, owner>>

Requeue ==
  /\ dispatcher.at = "requeue"
  /\ pendingRequests' = Append(pendingRequests, dispatcher.request)
  /\ dispatcher' = DispatcherAt("loop")
  /\ UNCHANGED <<carVars, controllerRunning, client, owner>>

DispatcherStep ==
  \/ DispatcherLeavesLoop \/ DispatcherTakesLock \/ DispatcherBlocks
  \/ PopPending \/ FindBestElevator \/ OfferRefused \/ OfferAccepted
  \/ PushToCar \/ NotifyCar \/ Requeue

-----------------------------------------------------------------------------
(* The clients.                                                            *)

ClientBecomes(c, what) == client' = [client EXCEPT ![c] = what]

\* Seeded fault: floors are taken to begin with 0.
ValidFromZero(fromFloor, toFloor) ==
  /\ fromFloor >= 0 /\ fromFloor <= NumFloors
  /\ toFloor = CallOnly \/ (toFloor >= 1 /\ toFloor <= NumFloors)

\* The two tests at the head of addRequest.
Valid(fromFloor, toFloor) ==
  /\ fromFloor >= 1 /\ fromFloor <= NumFloors
  /\ toFloor = CallOnly \/ (toFloor >= 1 /\ toFloor <= NumFloors)

\* addRequest up to and with its push; an invalid request has no effect.
AddRequest(c, id, fromFloor, toFloor) ==
  /\ client[c] = NoCall
  /\ fate[id] = "unused"
  /\ Valid(fromFloor, toFloor)
  /\ ~HoldsQueueMutex
  /\ pendingRequests' = Append(pendingRequests,
                               [id |-> id, fromFloor |-> fromFloor, toFloor |-> toFloor])
  /\ fate' = [fate EXCEPT ![id] = "offered"]
  /\ ClientBecomes(c, InCall("pushed", 0))
  /\ UNCHANGED <<cabin, emergencyStop, running, requests, thread, boarded, cut, overrun,
                 controllerRunning, dispatcher, owner>>

NotifyDispatcher(c) ==
  /\ client[c].op = "pushed"
  /\ WakeDispatcher
  /\ ClientBecomes(c, NoCall)
  /\ UNCHANGED <<carVars, pendingRequests, controllerRunning, owner>>

\* The other clients in the middle of the opposite of op.
Opposing(c, op) ==
  {d \in Clients \ {c} :
     client[d].op \in IF op = "activate" THEN {"release", "cleared"}
                                         ELSE {"activate", "flagged"}}

\* The loops of emergencyStop and releaseEmergencyStop over the cars.
BeginEmergencyCall(c, op) ==
  /\ client[c] = NoCall
  /\ client' = [d \in Clients |->
                  IF d = c THEN [InCall(op, 0) EXCEPT !.crossed = Opposing(c, op) # {}]
                  ELSE [client[d] EXCEPT !.crossed = @ \/ d \in Opposing(c, op)]]
  /\ UNCHANGED <<carVars, pendingRequests, controllerRunning, dispatcher, owner>>

NextCar(c, op) ==
  LET e == client[c].car
  IN  ClientBecomes(c, IF e + 1 < NumElevators THEN [client[c] EXCEPT !.op = op, !.car = e + 1] ELSE NoCall)

EmergencyStopFlag(c) ==
  /\ client[c].op = "activate"
  /\ RaiseFlag(client[c].car)
  /\ ClientBecomes(c, [client[c] EXCEPT !.op = "flagged"])
  /\ UNCHANGED <<pendingRequests, controllerRunning, dispatcher, owner>>

EmergencyStopStatus(c) ==
  /\ client[c].op = "flagged"
  /\ RaiseStatus(client[c].car)
  /\ NextCar(c, "activate")
  /\ UNCHANGED <<pendingRequests, controllerRunning, dispatcher, owner>>

ReleaseFlag(c) ==
  /\ client[c].op = "release"
  /\ DropFlag(client[c].car)
  /\ ClientBecomes(c, [client[c] EXCEPT !.op = "cleared"])
  /\ UNCHANGED <<pendingRequests, controllerRunning, dispatcher, owner>>

ReleaseStatus(c) ==
  /\ client[c].op = "cleared"
  /\ DropStatus(client[c].car)
  /\ NextCar(c, "release")
  /\ UNCHANGED <<pendingRequests, controllerRunning, dispatcher, owner>>

ContinueCall(c) ==
  \/ NotifyDispatcher(c) \/ EmergencyStopFlag(c) \/ EmergencyStopStatus(c)
  \/ ReleaseFlag(c) \/ ReleaseStatus(c)

NewCall(c) ==
  \/ \E id \in RequestIds, trip \in Asked : AddRequest(c, id, trip[1], trip[2])
  \/ BeginEmergencyCall(c, "activate")
  \/ BeginEmergencyCall(c, "release")

-----------------------------------------------------------------------------
(* The owner.                                                              *)

\* start(): no other thread uses the cars yet, so that its steps are one.
StartAll ==
  /\ owner = Idle
  /\ ~controllerRunning
  /\ controllerRunning' = TRUE
  /\ running' = [e \in Elevators |-> TRUE]
  /\ pc' = [e \in Elevators |-> "loop"]
  /\ overrun' = [e \in Elevators |-> 0]
  /\ dispatcher' = DispatcherAt("loop")
  /\ UNCHANGED <<cabin, emergencyStop, requests, leg, currentRequest, fate, boarded, cut,
                 pendingRequests, client, owner>>

BeginStop ==
  /\ owner = Idle
  /\ controllerRunning
  /\ controllerRunning' = FALSE
  /\ owner' = At("stopping", 0)
  /\ UNCHANGED <<carVars, pendingRequests, dispatcher, client>>

StopLowersRunning ==
  /\ owner.op = "stopping"
  /\ LowerRunning(owner.car)
  /\ owner' = [owner EXCEPT !.op = "lowered"]
  /\ UNCHANGED <<pendingRequests, controllerRunning, dispatcher, client>>

StopNotifiesCar ==
  /\ owner.op = "lowered"
  /\ Notify(owner.car)
  /\ owner' = [owner EXCEPT !.op = "joining"]
  /\ UNCHANGED <<pendingRequests, controllerRunning, dispatcher, client>>

StopJoinsCar ==
  /\ owner.op = "joining"
  /\ pc[owner.car] = "exited"
  /\ owner' = IF owner.car + 1 < NumElevators
              THEN At("stopping", owner.car + 1) ELSE At("waking", 0)
  /\ UNCHANGED <<carVars, pendingRequests, controllerRunning, dispatcher, client>>

\* Seeded fault: the dispatcher is notified without its mutex.
StopWakesDispatcherUnlocked ==
  /\ owner.op = "waking"
  /\ WakeDispatcher
  /\ owner' = At("joiningDispatcher", 0)
  /\ UNCHANGED <<carVars, pendingRequests, controllerRunning, client>>

StopWakesDispatcher ==
  /\ owner.op = "waking"
  /\ ~HoldsQueueMutex
  /\ WakeDispatcher
  /\ owner' = At("joiningDispatcher", 0)
  /\ UNCHANGED <<carVars, pendingRequests, controllerRunning, client>>

\* Seeded fault: stop() returns without joining the dispatcher.
StopSkipsDispatcher ==
  /\ owner.op = "joiningDispatcher"
  /\ owner' = Idle
  /\ UNCHANGED <<carVars, pendingRequests, controllerRunning, dispatcher, client>>

StopJoinsDispatcher ==
  /\ owner.op = "joiningDispatcher"
  /\ dispatcher.at = "exited"
  /\ owner' = Idle
  /\ UNCHANGED <<carVars, pendingRequests, controllerRunning, dispatcher, client>>

ContinueStop ==
  \/ StopLowersRunning \/ StopNotifiesCar \/ StopJoinsCar
  \/ StopWakesDispatcher \/ StopJoinsDispatcher

CarStep(e) == ThreadStep(e) /\ UNCHANGED controllerVars
WakesByItself(e) == SpuriousWakeup(e) /\ UNCHANGED controllerVars

Next ==
  \/ \E e \in Elevators : CarStep(e) \/ WakesByItself(e)
  \/ DispatcherStep \/ DispatcherWakesByItself
  \/ \E c \in Clients : ContinueCall(c) \/ NewCall(c)
  \/ StartAll \/ BeginStop \/ ContinueStop

Spec == Init /\ [][Next]_vars

Fairness ==
  /\ \A e \in Elevators : WF_vars(CarStep(e))
  /\ WF_vars(DispatcherStep)
  /\ \A c \in Clients : WF_vars(ContinueCall(c))
  /\ WF_vars(ContinueStop)

FairSpec == Spec /\ Fairness

-----------------------------------------------------------------------------
\* The dispatcher does not sleep through a request, nor through stop(): while
\* it is in its wait, a thread that has pushed (ElevatorController.cpp:131-141)
\* or the owner in stop() (:57-74) has yet to notify it.
DispatcherIsWoken ==
  dispatcher.at \in {"block", "waiting"} =>
    /\ pendingRequests # <<>> => \E c \in Clients : client[c].op = "pushed"
    /\ ~controllerRunning => owner.op \notin {"idle", "joiningDispatcher"}

InDispatcher(id) == dispatcher.request # NoRequest /\ dispatcher.request.id = id
Pending(id) ==
  InDispatcher(id) \/ \E i \in DOMAIN pendingRequests : pendingRequests[i].id = id

\* A request that the controller has taken is in the queue or with the
\* dispatcher, in one of them only and once, until a car takes or refuses it
\* (ElevatorController.cpp:144-186, the requeueing included).
EachOfferedOnce ==
  \A id \in RequestIds :
    /\ fate[id] = "offered" <=> Pending(id)
    /\ \A i \in DOMAIN pendingRequests :
         pendingRequests[i].id = id =>
           /\ ~InDispatcher(id)
           /\ \A j \in DOMAIN pendingRequests : pendingRequests[j].id = id => i = j

\* When stop() has returned, no thread of the controller is left: neither the
\* cars' nor the dispatcher's (ElevatorController.cpp:52-92).
StoppedMeansQuiet ==
  owner = Idle /\ ~controllerRunning =>
    /\ dispatcher.at \in {"off", "exited"}
    /\ \A e \in Elevators : pc[e] \in {"off", "exited"}

\* The queues of the controller and of the cars together implement the life of
\* a request: never with two cars, never back once it is over.
Place == [id \in RequestIds |->
            IF fate[id] = "unused" THEN <<"unasked">>
            ELSE IF \E e \in Elevators : Holds(e, id)
            THEN <<"with", CHOOSE e \in Elevators : Holds(e, id)>>
            ELSE IF Pending(id) THEN <<"pending">> ELSE <<"over">>]
Service == INSTANCE RequestService WITH RequestNames <- RequestIds, Cars <- Elevators,
                                        place <- Place
ServesRequests == Service!Spec

\* Wakeups that nobody caused do not go on for ever: each one takes the car's
\* mutex, and the mutex is not bound to be fair to the dispatcher.
CalmConditionVariables == <>[][~\E e \in Elevators : WakesByItself(e)]_vars

\* With the controller running and the emergencies over, every request the
\* controller has taken comes to an end: the dispatcher and the cars' threads
\* lose no wakeup on the way (ElevatorController.cpp:144-186, Elevator.cpp:69-112).
EveryRequestSettles ==
  /\ CalmConditionVariables
  /\ <>[](controllerRunning /\ \A e \in Elevators : ~emergencyStop[e])
  => \A id \in RequestIds :
      fate[id] = "offered" ~> fate[id] \in {"served", "abandoned", "rejected"}

\* "Wait for dispatcher thread to finish" (ElevatorController.cpp:76) always
\* ends: the notification is sent under the dispatcher's mutex (:71-74).
DispatcherIsJoined == owner.op = "joiningDispatcher" ~> owner.op = "idle"

\* docs/Design.md:28 "If all elevators are in emergency stop mode, the request
\* is queued until the emergency is cleared."  An emergency that comes between
\* findBestElevator and Elevator::addRequest makes the car refuse the request,
\* and dispatcherLoop (ElevatorController.cpp:170) ignores that.
NoRequestIsDropped == \A id \in RequestIds : fate[id] # "rejected"

\* docs/Design.md:68 "When triggered, all elevators are immediately notified":
\* when emergencyStop returns (ElevatorController.cpp:94-100), every car is in
\* the emergency, the ones told first as well, and when releaseEmergencyStop
\* returns (:102-108) none is, whatever other clients, the dispatcher, the cars
\* and stop() did meanwhile; unless a call of the opposite kind was under way
\* during this one, before or beside it.
Returns(c, op) == client[c].op = op /\ client'[c] = NoCall
EveryCarIsTold ==
  [][\A c \in Clients, e \in Elevators :
       ~client[c].crossed =>
         /\ Returns(c, "flagged") => emergencyStop'[e]
         /\ Returns(c, "cleared") => ~emergencyStop'[e]]_vars

\* The same document read without that exception: outside the calls, either
\* every car is in the emergency or none is.  Two clients whose calls cross
\* leave the cars divided.
EmergencyIsCommon ==
  (\A c \in Clients : client[c].op \in {"idle", "pushed"}) =>
    \A e, f \in Elevators : emergencyStop[e] = emergencyStop[f]
=============================================================================
