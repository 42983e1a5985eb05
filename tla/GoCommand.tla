----------------------------- MODULE GoCommand -----------------------------
(***************************************************************************)
(* The commands that ask for a car, from the user to the car that is sent. *)
(* call <floor> asks for a car at that floor.  go <floor> of the server    *)
(* (ElevatorServer::processCommand) and of the terminal                    *)
(* (UserInterface::processCommand) looks over the cars, names one of them  *)
(* to the user and asks the controller for a trip from the floor where it  *)
(* saw that car.  Which car the request is given to is for the dispatcher  *)
(* to say, whose loop of DispatchScan runs when the request has waited its *)
(* turn (again, when every car was stopped): it reads the cars anew, and   *)
(* they may have moved, become busy or been stopped since the command read *)
(* them.                                                                   *)
(***************************************************************************)
EXTENDS DispatchScan

VARIABLES
  command,   \* a call, or go at the server or at the terminal
  target,    \* the floor the user names
  looked,    \* the position of the command's own loop
  promised,  \* the car it will name, how far that car is from target, and
             \* the floor where the command saw it
  phase

goVars == <<vars, command, target, looked, promised, phase>>

Commands == {"call", "server go", "terminal go"}

\* bestElevatorId, shortestDistance and bestElevatorFloor.
Promises == [best : Elevators, shortest : Nat, floor : Floors]
NoPromise == [best |-> NoCar, shortest |-> 0, floor |-> 0]

GoTypeOK ==
  /\ TypeOK
  /\ command \in Commands
  /\ target \in Floors
  /\ looked \in 0..NumElevators
  /\ promised \in Promises \cup {NoPromise}
  /\ phase \in {"look", "dispatch", "refused"}

\* floor has no meaning before the dispatcher runs.
GoInit ==
  /\ Init /\ floor = 1
  /\ command \in Commands
  /\ target \in Floors
  /\ looked = 0
  /\ promised = NoPromise
  /\ phase = "look"

\* The tuple of getElevatorStatuses has no emergency flag: a car counts as
\* free by its status alone.
Free(status) == status \in {"IDLE", "STOPPED"}

\* The server takes the nearest free car to the target, the terminal the first
\* free car.
Preferred(at, status) ==
  /\ Free(status)
  /\ \/ promised.best = NoCar
     \/ command = "server go" /\ FloorsBetween(at, target) < promised.shortest

\* Seeded fault: the cars are counted from 1.
LookFromOne ==
  /\ phase = "look" /\ command # "call" /\ looked < NumElevators
  /\ \E at \in Floors, status \in ElevatorStatus :
       promised' = IF Preferred(at, status)
                   THEN [best |-> looked + 1,
                         shortest |-> FloorsBetween(at, target), floor |-> at]
                   ELSE promised
  /\ looked' = looked + 1
  /\ UNCHANGED <<vars, command, target, phase>>

\* One car of the command's loop: its tuple holds what getElevatorStatuses read
\* of the car, floor and status one after the other.
Look ==
  /\ phase = "look" /\ command # "call" /\ looked < NumElevators
  /\ \E at \in Floors, status \in ElevatorStatus :
       promised' = IF Preferred(at, status)
                   THEN [best |-> looked,
                         shortest |-> FloorsBetween(at, target), floor |-> at]
                   ELSE promised
  /\ looked' = looked + 1
  /\ UNCHANGED <<vars, command, target, phase>>

\* Seeded fault: the two floors of the request are swapped.
AskSwapped ==
  /\ phase = "look" /\ command # "call" /\ looked = NumElevators
  /\ promised.best # NoCar
  /\ floor' = target
  /\ phase' = "dispatch"
  /\ UNCHANGED <<fleet, next, scan, command, target, looked, promised>>

\* addRequest(bestElevatorFloor, floor, ...); the reply names the car.
Ask ==
  /\ phase = "look" /\ command # "call" /\ looked = NumElevators
  /\ promised.best # NoCar
  /\ floor' = promised.floor
  /\ phase' = "dispatch"
  /\ UNCHANGED <<fleet, next, scan, command, target, looked, promised>>

\* A call looks at no car: addRequest(floor, 0, ...).
Call ==
  /\ phase = "look" /\ command = "call"
  /\ floor' = target
  /\ phase' = "dispatch"
  /\ UNCHANGED <<fleet, next, scan, command, target, looked, promised>>

\* "No idle elevator available. Try again later."
NoneFree ==
  /\ phase = "look" /\ command # "call" /\ looked = NumElevators
  /\ promised.best = NoCar
  /\ phase' = "refused"
  /\ UNCHANGED <<vars, command, target, looked, promised>>

DispatchNext ==
  /\ phase = "dispatch"
  /\ Iterate
  /\ UNCHANGED <<command, target, looked, promised, phase>>

GoNext == Look \/ Call \/ Ask \/ NoneFree \/ DispatchNext

GoSpec == GoInit /\ [][GoNext]_goVars

-----------------------------------------------------------------------------
Answered == phase = "dispatch" /\ promised.best # NoCar /\ Done

\* The car that was named, when the dispatcher reads it: still idle, still at
\* the floor where the command saw it, and free of an emergency.
PromiseStillGood ==
  LET car == fleet[promised.best]
  IN  car.status = "IDLE" /\ ~car.emergencyStop /\ car.floor = promised.floor

\* "Assume we're on the current floor of the first idle elevator"
\* (UserInterface.cpp:223).  Whatever the cars did between the command's reading
\* and the dispatcher's: when the dispatcher finds the named car as the command
\* left it, the car it sends is idle and stands at the floor where the
\* passenger was told to be; it may still be another car.
IdlePromiseKept ==
  (Answered /\ PromiseStillGood)
    => /\ scan.best # NoCar
       /\ fleet[scan.best].status = "IDLE"
       /\ fleet[scan.best].floor = promised.floor

\* "Use the best elevator" (ElevatorServer.cpp:314): the car that the reply
\* names is the car that goes.  The dispatcher chooses on its own, from its own
\* reading.
PromisedCarIsSent == Answered => scan.best = promised.best
=============================================================================
