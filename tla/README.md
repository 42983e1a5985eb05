# Elevator-Simulator in TLA+

TLA+ modules that model the elevator simulator of this repository, TLC
configurations that check them on small instances, and theorems about them that
TLAPS checks for every value of the constants. The models follow the C++ source,
not the documents; where the two disagree, the disagreement is stated as a
property and TLC shows the execution.

    tlc  -workers 2 -config SharedElevator.cfg MCSharedElevator.tla
    tlapm SharedElevatorProofs.tla

Paths below are relative to the repository (`src/` is its source directory,
`include/` its headers). `PROJECT.json` maps every definition to its lines.

## 1. Inventory of the system

| Component | State it keeps | Operations | Called by |
|---|---|---|---|
| `Elevator` (`src/Elevator.cpp`) | atomics `currentFloor`, `destinationFloor`, `direction`, `status`, `emergencyStop`, `running`; queue `requests` under `requestMutex`; `requestCV`; one thread | `start`, `stop`, `addRequest`, `emergencyStopActivate`, `emergencyStopRelease`, getters; thread: `processRequests`, `moveToFloor` | dispatcher, command threads, main, sync thread |
| `ElevatorController` (`src/ElevatorController.cpp`) | vector of cars, queue `pendingRequests` under `requestMutex`, `running`, `syncRunning`; dispatcher and sync thread | `start`, `stop`, `addRequest`, `emergencyStop`, `releaseEmergencyStop`, `getElevatorStatuses`; threads: `dispatcherLoop`, `syncWithDatabase` | terminal, server, main |
| choice of a car | none (`calculateDistance`, `findBestElevator`) | a loop over the cars | dispatcher |
| `ElevatorServer` (`src/ElevatorServer.cpp`) | listening socket, map `activeClients` under `clientsMutex`, vector of handler threads, `running` | `start`, `stop`; threads: `serverLoop`, `handleClient` per connection with `processCommand` | main, TCP clients |
| `UserInterface` (`src/UserInterface.cpp`) | `running`, `displayMutex`, two threads, the terminal | `start`, `stop`; threads: `inputLoop`, `displayLoop` | main, a person |
| `DemoRunner` (`src/DemoRunner.cpp`) | `running`, ten steps, one thread | `start`, `stop`; thread: `runDemo`, whose steps call the controller | main |
| `DatabaseLogger` (`src/DatabaseLogger.cpp`) | a connection, `connected`; tables `elevators` and `elevator_logs` shared by all instances | `connect`, `disconnect`, `syncElevatorState`, `getElevatorStates`, logging | controller |
| `main` (`src/main.cpp`) | the objects above, global pointers for the signal handler | parses options, starts, watches flags, stops; `signalHandler` | the system |
| `elevator_client` (`src/elevator_client.cpp`) | `running`, a socket, two threads | `main` sends lines; thread: `receiveMessages` prints replies; `signalHandler` | a person |

How they interact. Command threads (the terminal's input thread, one handler
thread for each connection, the demo) call `ElevatorController::addRequest`,
which pushes on the controller's queue and notifies the dispatcher. The dispatcher
takes a request, reads the atomics of all cars, and calls `Elevator::addRequest`
on one of them, which pushes on the car's queue and notifies the car's thread. The
same command threads call the emergency methods, which write the atomics of every
car directly. main starts and stops controller and server; the command `exit` and
the signal handler, which runs on main's stack, stop them too. The sync thread of each instance copies its cars
to the table `elevators`, reads the table back and appends cars it does not know.

What is hard in it, and what would be right:

* **Elevator.** A condition variable with two notifiers, one of which (`stop`)
  does not take the mutex; a travel loop that compares floors for equality while
  others change flags and status; two legs of a trip that can be broken off
  independently. Right: no lost wakeup, no car past its floor or out of the
  building, an accepted request in exactly one place, a halted car brakes, `stop`
  returns and leaves no thread.
* **ElevatorController.** A request passes through two queues and two local
  variables; the car is chosen on values that are read one after another and may
  be old when the request is offered; `stop` joins while all others run. Right: a
  request is neither lost nor duplicated on the way, every sleeping thread is
  woken, the end of `stop` is quiet.
* **Choice of a car.** One number that adds up distance, penalty and advantage.
  Right: the first cheapest available car; idle before busy; not away from the
  call unless all go away.
* **ElevatorServer.** Descriptor numbers are reused; `stop` closes them under
  their handlers and joins under a mutex the handlers need. Right: each handler
  stays with its client; threads of clients that left end; `stop` returns.
* **UserInterface, DemoRunner, main.** Every thread of the process writes to one
  terminal, two of them under a mutex; flags are reset by several parties; a signal interrupts main anywhere, its handler may
  be interrupted by the other signal, and stops what another thread may be
  stopping. The demo computes its floors from the building and from where the cars
  are. Right: a response stays to be read; `exit` is noticed; a signal ends the
  process; the demo asks for trips that exist.
* **Database.** Several processes, of buildings of their own, write the same rows at
  any time, crash, restart, and lose transactions. Right: no car twice, every row
  becomes a car, no write after the end.
* **elevator_client.** Two threads and one socket; closing it wakes nobody, and
  both sides learn of the other's end by reading or writing. Right: the client ends
  when its user or its server does, and never takes the server with it.

## 2. Modules

| Module | What it is | Code |
|---|---|---|
| `Dispatch` | pure operators: the cost of a car, one iteration of the search | `Elevator::calculateDistance`, body of `findBestElevator` |
| `DispatchScan` | the search as a loop, with a definition of the best car | `findBestElevator` |
| `GoCommand` | EXTENDS DispatchScan: `call` and both `go` commands, then the dispatcher's choice | `processCommand` of server and terminal |
| `Elevator` | open module: the car's thread, and the steps of the methods others call | `Elevator.cpp` |
| `SharedElevator` | EXTENDS Elevator: cars under any number of concurrent callers and one owner | the callers of `Elevator` |
| `ElevatorController` | EXTENDS Elevator: the same cars under the dispatcher, clients and the owner | `ElevatorController.cpp` |
| `Trip` | abstract specification of a travelling car | what `moveToFloor` promises |
| `RequestService` | abstract specification of the life of a request | what controller and cars promise together |
| `ElevatorServer` | the server's threads, descriptors and shutdown | `ElevatorServer.cpp` |
| `ElevatorClient` | one client, one handler and the stream between them | `elevator_client.cpp`, `handleClient` and `sendResponse` |
| `DemoRunner` | pure operators: the calls that each step of the demo may make | `DemoRunner.cpp` |
| `UserInterface` | EXTENDS DemoRunner: terminal, demo thread, main from `ui.start()` on, signals | `UserInterface.cpp`, `DemoRunner.cpp`, `main.cpp`, `ElevatorController::stop` |
| `DatabaseSync` | several instances on one table | `syncWithDatabase`, `DatabaseLogger` |
| `ElevatorProofs` | lemmas about the steps of a car, whoever takes them | |
| `DispatchProofs`, `SharedElevatorProofs`, `ElevatorControllerProofs`, `ElevatorServerProofs`, `ElevatorClientProofs`, `UserInterfaceProofs`, `DatabaseSyncProofs` | theorems, each module about the one it is named for (`DispatchProofs`: about `GoCommand` too) | |
| `MCSharedElevator`, `MCElevatorController`, `MCDatabaseSync` | symmetry sets and constants for TLC | |

`SharedElevator` and `ElevatorController` close the same module in two ways. The
first lets the callers do anything at any time; what is proved there about a car
does not depend on the controller. The second is the composition as it is in the
program and adds what only the two queues together can do. What is claimed of the
cars under both (`OnCourse`, `EachAcceptedOnce`) is stated in `Elevator`.

Operators named ...Forgotten, ...NoPop, ...FromOne and the like, each under a
comment "Seeded fault", are not part of any specification: each is a plausible
mistake in the definition that follows it, and the property it is paired with in
`PROJECT.json` fails when it is put in that definition's place.

### Where a step ends

The threads' program counters (`pc`, `dispatcher.at`, `handler`, ...) name the
points between which another thread can see a difference. Statements are merged
into one step only when the merge hides no behaviour from the properties:

* *Test of `running`, lock, predicate.* The `while` test reads one flag that only
  `stop` lowers; taking a mutex that others hold for one step at a time, and
  evaluating a predicate of `wait` under it, is `TakeLock`. "block" (predicate
  false, not asleep yet) and "waiting" are kept apart: that gap is where a
  notification sent without the mutex is lost.
* *Stores of `direction`, `status`, `destinationFloor` in `moveToFloor`* are one
  step, `SetOff`: only the thread writes direction and destinationFloor, and a
  reader that sees them between the stores is a reader that decides on old values,
  which the search does anyway (it reads one car per step, cars move in between).
  `destinationFloor` stands also for the parameter `floor` of moveToFloor.
* *The arrival.* The new floor, `STOPPED`, and the beginning of the doors' sleep
  are one step, `MoveOneFloor`; the end of that sleep, the IDLE stores after the
  loop, and the return are `CloseDoors`.
* *`status = EMERGENCY` and `notify_all`* are one step, `RaiseStatus`: nothing in
  between is visible to the thread that sleeps, and an awake thread is not
  affected by the notification. The flag is a step of its own.
* *addRequest of the controller* is its validation and its push (`AddRequest`) and
  its notification (`NotifyDispatcher`): before the push nothing is shared.
* *findBestElevator* is one step per car, which reads the car as it is then. In
  `GoCommand` the command's loop reads any floor and status of each car, and the
  dispatcher's loop, later, any state of each car: what the cars did in between, and
  between two iterations, is not constrained.
* *`ElevatorController::start`* is one step: cars and dispatcher begin with empty
  queues or with requests that nobody but them will touch, so that the order in
  which the threads begin is covered by the order in which they take steps.
* *serverLoop.* `while`, `select`, and the test after it are one step: `running`
  only falls during a life of the thread. A client that connects and leaves before
  it is accepted is one that leaves right after it: accept returns its connection
  in both cases.
* *inputLoop.* The tests of `running` around `getline` are one step for the same
  reason.
* *The demo* plays one step at a time (`DemoPlays`); the calls it makes meanwhile
  are the set `Calls`, not steps of their own: their effect is the controller's.
* *`ElevatorController::stop`* is, for the terminal, the test of `running`, its
  reset, and the wait for the threads (`ControllerStop`), once for the input thread
  and once for the signal handler. That it may never return is known from
  `StopReturns` of `SharedElevator` and of `ElevatorServer`: `stuck` chooses at the
  beginning whether, and where, this happens.
* *write and read of the client* take effect when they return. A read takes any
  number of the lines or replies that wait, at least one.
* *`go` at the terminal* leaves its loop at the first free car; the model reads on
  but never changes its mind (`Preferred`).
* *The terminal.* `screen` is the set of what has been printed since the last
  clear; only displayStatus clears. The logger's line for each event, the lines of the
  server's threads and the prompt are `OthersPrint`, possible at any time.
* *stop's loop over the cars in DatabaseSync* is one step (`StopCars`): a range-for
  reads the end of the vector once.
* *The loops of findBestElevator and getElevatorStatuses over the vector* are, in
  DatabaseSync, a beginning and an end (`BeginScan`, `EndScan`), the dispatcher's and
  those of a command apart: `stop` waits for the dispatcher only.

Undefined behaviour: growth of the vector of cars while another thread iterates
over it is modelled by its occurrence (`VectorIsNotShared`) and, for what follows,
by the crash `End`, which may happen at any moment; the runs go on without it too.
`FD_SET` on the closed server socket (-1) is not modelled.

### Variables that are not in the code

`fate`, `boarded`, `cut`, `overrun` (Elevator), `crossed` in the record of a client
(ElevatorController), `failures` (DatabaseSync), `connection`, `user` (ElevatorServer, the environment) and `screen`
(UserInterface) record what an observer sees; `patient` (ElevatorClient) records
whether the user has waited for each reply, and `stuck` (UserInterface) what
happens in modules of its own. No guard of a program step reads
`boarded`, `cut`, `overrun` or `crossed`; `fate` is read to give every request a name of its
own.

## 3. Runs that pass

| Run | States | What it shows |
|---|---|---|
| `GoCommand` | 205,104 | for every reading of 2 cars on 3 floors: findBestElevator returns the first cheapest car (`PicksCheapestCar`); idle before busy (`IdleCarFirst`); away from the call last (`AwayCarLast`); and for every reading of the command before it, however the cars changed in between: when the dispatcher finds the promised car idle and where the command saw it, the car it sends is idle and at the same floor (`IdlePromiseKept`) |
| `SharedElevator` | 871,140 | 1 car, 3 floors, 2 requests, 2 callers: `OnCourse`, `BrakesWithinOneFloor`, `NoLostWakeup`, `EachAcceptedOnce`, `StartFindsNoThread`, `ServedMeansDelivered` |
| `SharedElevatorLive` | 34,433 | an accepted request is finished (`AcceptedIsFinished`); a car implements `Trip` with its fairness (`KeepsTripPromises`) |
| `ElevatorController` | 1,475,130 | 2 cars, every pair of floors valid or not: `TypeOK` (no car or request has a floor outside), `StoppedMeansQuiet`, and the implementation of `RequestService` (`ServesRequests`) |
| `ElevatorControllerQueue` | 188,976 | 2 requests through both queues: `DispatcherIsWoken`, `EachOfferedOnce`, and under fairness `EveryRequestSettles`, `DispatcherIsJoined` |
| `ElevatorServer` | 195,817 | 3 users on 2 descriptors: `HandlersServeTheirOwn`, `StoppedMeansQuiet`, `GoneIsForgotten` |
| `ElevatorClient` | 17,918 | a client and its handler: a user who waits for replies never ends the server (`PatientUserIsHarmless`); a client that leaves ends if a reply is owed to it (`LeavingReturns`); a client whose server has gone ends, at the latest at its next line (`ServerEndIsNoticed`) |
| `UserInterface` | 187,498 | with the demo, up to two signals and any other writer: nobody clears a response away while the mutex is held (`ResponseStays`), `ExitIsNoticed`; a signal ends the process (`SignalEndsProcess`); every call of the demo can be carried out, unless it begins at a car outside the building (`DemoIsSensible`) |
| `DatabaseSync` | 218,682 | 2 instances with 1 and 2 cars in buildings of different heights, crashes at any time, one failed transaction: `FleetIsSound`, `SyncHasConnection`, `FleetsConverge` |

Why these bounds:

* *Three floors* are the fewest with a floor to pass, so that a car can be halted
  between its floors and overrun. Two suffice for the controller, whose properties
  do not look at travel. *Two cars* are the fewest that can be chosen between, and
  leave a fleet divided. `ElevatorControllerQueue` has one car, so that two
  requests meet in one queue, in the requeueing and in the car.
* *Two requests* are the fewest that can be confused; they are interchangeable in
  `SharedElevator` (symmetry is used for a safety run only; its one temporal
  property is a box-action formula).
* *Two callers*: one that is in `stop` and one that does something else.
  *Two descriptors for three users*: a number is reused while another is in use,
  and accept can find none free.
* *1 and 2 cars, two floors in DatabaseSync*: the smaller instance must learn of a
  car, and its floor may be one the smaller building has not. `ground` stands for the
  floors of both buildings and `upper` for those of the higher one only: no property
  tells more of them apart. Iterations over the vector are modelled for the
  smaller instance (`Watched`), the dispatcher's in `DatabaseSync`, those of commands
  too in `VectorIsNotShared.cfg`.
* `Asked` is every pair from one below the valid floors to one above them where
  types are checked, and one trip and one invalid trip where queues are.
* *Eight floors* for the demo: the smallest building in which its floor 8 exists;
  every larger one is covered by a theorem (section 5). *`HighestFloor`* is where a
  car taken over from the database may stand at most, ten in this run: two above the
  top floor. Its ten steps are played
  one by one, so that it ends before, during and after a command.
* *Two signal handlers* (`MaxSignals`): there are two signals, and each is blocked in
  main while its own handler runs there. A third signal would be taken by another
  thread, on whose stack the handler would run; that is not modelled.
* *Three lines and three replies* (`MaxLines`, `MaxReplies`): lines can be merged,
  with one left behind; a reply can be lost for lack of room while one is harmless
  and the next is fatal.
* `RequestIds` and `Users` bound the length of a run: a request or a user is used
  once. `MaxFailures` bounds failed transactions. Start, stop, emergency, release,
  crash and restart are not bounded.

CHECK_DEADLOCK is off where the system really ends: a `go` that has been answered,
a server all of whose users have gone (and one whose `stop` hangs), a terminal
after exit.

### Fairness

Every thread that exists is scheduled: weak fairness of each car's thread, of the
dispatcher, of each handler, of the sync threads, of the client's two threads, of
the signal handler, of each method that has been called. Nothing else is assumed:

* nobody is obliged to call a method, to connect, to type, to leave, to stop or to
  send a signal;
* no condition variable is obliged to wake up by itself (`SpuriousWakeup` and
  `DispatcherWakesByItself` are possible and in no fairness condition);
* no mutex is fair: during an emergency a car's thread takes and releases its mutex
  without sleeping (`SpinInEmergency`), and a caller of `addRequest` may wait for
  it for ever. `std::mutex` promises no more. Weak fairness of a step that needs
  the mutex is not violated by that, because the step is not enabled all the time.
* `EveryRequestSettles` has this as a premise, `CalmConditionVariables`: a thread
  that wakes up by itself for ever would take the mutex for ever.

The premises of the liveness properties ("the car is in the end not halted", "the
controller in the end runs and no car is in an emergency", "the instance in the end
stays up") are states the code reaches and stays in when users leave it alone.

## 4. Runs that end in a violation

Each checks one property that a document or a comment states and TLC refutes.

| Run | Statement | What happens |
|---|---|---|
| `StopReturns` | `src/Elevator.cpp:38` "Wait for the processing thread to finish" | `stop` lowers `running` and notifies while the thread is between its predicate and its sleep; the thread sleeps for ever and so does `join` |
| `NoRequestIsDropped` | `docs/Design.md:28` "the request is queued until the emergency is cleared" | an emergency between search and offer: the car refuses, the dispatcher ignores it |
| `ServerStopReturns` | `src/ElevatorServer.cpp:89` "Close all client connections and join threads" | `stop` joins the handlers with `clientsMutex` in its hand; they need it to end |

The same modules state other disagreements. Their configurations stand beside the
modules; `tlc -config <cfg> <module>` gives the execution:

| Configuration, module | Statement | What happens |
|---|---|---|
| `NearestCar.cfg`, `DispatchScan` | `docs/Design.md:26` the elevator with the shortest distance is assigned | penalty and idle advantage decide otherwise |
| `PromisedCar.cfg`, `GoCommand` | `src/ElevatorServer.cpp:314` "Use the best elevator" | the reply names one car, the dispatcher sends another |
| `EmergencyIsShown.cfg`, `MCSharedElevator` | `tests/test_emergency.cpp:35` all cars are in emergency state | the thread's MOVING, STOPPED or IDLE overwrites EMERGENCY |
| `ReleaseIsShown.cfg`, `MCSharedElevator` | `tests/test_elevator.cpp:80` no emergency after a release | an activation in progress stores its status after the release |
| `DeliversOnlyBoarded.cfg`, `MCSharedElevator` | `src/Elevator.cpp:97` "First move to the pickup floor" | an emergency breaks off the pickup, is released, and the delivery goes on |
| `EmergencyIsCommon.cfg`, `MCElevatorController` | `docs/Design.md:68` all elevators are notified | the calls of two clients, stop and release, cross and divide the fleet |
| `ExitDisconnects.cfg`, `ElevatorServer` | `src/ElevatorServer.cpp:172` "Disconnect from server" | the connection stays |
| `ServedIsListed.cfg`, `ElevatorServer` | `include/ElevatorServer.h:22` the map of clients | a handler erases the number of its successor |
| `ResponseIsNotOverwritten.cfg`, `UserInterface` | `src/UserInterface.cpp:62` the response is not overwritten | the first refresh takes no mutex |
| `HelpIsDisplayed.cfg`, `UserInterface` | `src/UserInterface.cpp:188` help displays the help | displayHelp locks a mutex its caller holds |
| `SignalIsGraceful.cfg`, `UserInterface` | `src/main.cpp:13` the shutdown by a signal is graceful | `exit` and the handler join the same threads: the process may be aborted |
| `DemoFitsBuilding.cfg`, `UserInterface` | `src/DemoRunner.cpp:89` the destination is floor 8 | in a building of three floors there is none; the request is dropped |
| `ExitReturns.cfg`, `ElevatorClient` | `src/elevator_client.cpp:140` exit cleans up | the receiver has read the last reply and tested `running` before main resets it: nothing wakes it, and main waits in `join` |
| `OneLineIsOneCommand.cfg`, `ElevatorClient` | `src/ElevatorServer.cpp:223` what is read is the command | two lines that wait together become one |
| `InputEndEndsClient.cfg`, `ElevatorClient` | `src/elevator_client.cpp:120` user input is read and sent | at its end the loop goes round, and repeats a last line without newline |
| `InstancesShareStates.cfg`, `MCDatabaseSync` | `README.md:238` "All instances will share the same elevator states" | no instance takes over the floor of a car it has |
| `EveryCarStaysInside.cfg`, `MCDatabaseSync` | `src/main.cpp:53` the number of floors | a car taken over from a higher building is where this one has no floor |
| `ExitIsGraceful.cfg`, `UserInterface` | `README.md:157` exit exits the simulation | joinable threads are destroyed: the process is aborted |
| `StopStopsEveryCar.cfg`, `MCDatabaseSync` | `src/ElevatorController.cpp:63` "Stop all elevators" | the sync thread creates a car after that loop |
| `VectorIsNotShared.cfg`, `MCDatabaseSync` | `docs/Design.md:60` mutexes protect shared data structures | the vector of cars has none |
| `RestartKeepsStates.cfg`, `MCDatabaseSync` | `README.md:326` state persistence across restarts | cars begin at floor 1 and overwrite their rows |

One more configuration beside the runs passes: `EveryCarIsTold.cfg`
(`MCElevatorController`, 373,450 states), two clients who call and release emergencies
at the same time. When a call returns, every car has been told, the ones told first
included, unless a call of the opposite kind was under way during it, before or
beside it (`crossed`); with such a call the fleet may stay divided, as
`EmergencyIsCommon.cfg` shows. It is kept apart from the run `ElevatorController`,
because two clients beside the requests of that run are more than can be
enumerated. The statement is a theorem as well (`EveryCallTellsEveryCar`).

## 5. Proofs

Every safety property that a passing run checks, invariant or action property, is
also a theorem, and so is the safety part of the two refinements. The theorems
hold for any number of floors (at least two) and cars (at least one: main rejects
less), any set of request names, and any sets of callers, clients, users and
instances. What is assumed of the constants is an ASSUME with a name in the module
that declares them, and TLC evaluates it in the runs. Two relate constants to each other:
`OwnerAssumption` (the owner is one of the callers) and `LargestAssumption` (some
instance has the most cars: there are finitely many of them, and not none). The
others give a type or an inclusion, a lower bound (one car to an instance, one line,
one reply), the ground floor to every building, or a null value (no request, user,
floor or descriptor) that is not one of the values it stands beside.

**The search** (`DispatchProofs`). `ScanInvariant` says what the loop knows about
the cars before its position: its candidate is the first cheapest of the available
ones among them. It is inductive with the type invariant and gives `PicksCheapest`
when the position is the end. `IdleFirst` and `AwayLast` follow from it and two
lemmas of arithmetic, `IdleBeatsBusy` and `AwayLosesToOther`: distances are at most
numFloors - 1, the advantage of an idle car is numFloors, the penalty
2 * (numFloors - 1), and only a MOVING car has the penalty.

**The commands** (`DispatchProofs`). The search of `GoCommand` begins when the
command has looked, at a floor that the command chose, so that its invariant
`GoInv` adds to `ScanInvariant` that the search has not begun before (`NotScanning`)
and that the trip begins where the command saw the named car (`NamedCar`).
`GoPicksCheapest` carries the three properties of the search over. `GoKeepsPromise`
(`IdlePromiseKept`) is a computation with them: the named car, if the dispatcher reads
it as idle and still there, costs -numFloors, and only another such car costs as
little. Nothing relates the two readings, so that the theorem holds whatever the cars
did between them.

**A car, step by step** (`ElevatorProofs`). That `currentFloor` stays in the
building is not inductive: `MoveOneFloor` adds one to whatever it is. It follows
from being on course, and being on course from nobody but the thread changing
direction, floor and leg between the steps of a trip. `CarInv == CarTypeOK /\ HandOK
/\ OnCourse` says this, where `HandOK` says when the thread holds a request and that
a delivery leg has a floor. `ThreadStepKeeps`, `MethodKeeps` and `PushKeeps` show
that every step of the thread and of the methods keeps it, except `start`, which is
harmless only if there is no thread yet; that is for the callers to see to.
`OnceTakeRequest`, `OncePush` and `OnceEndLeg` say of each step that moves a request
that it leaves it in one place, and with the car that had it (`HoldersStay`).

**The car among its callers** (`SharedElevatorProofs`). `CourseInv` is `CarInv` with
`CallsOK` (a caller that is about to push has a request) and `ThreadOK` (a car that is
not running has no thread unless the owner is in its `stop`). `TypeCorrect`,
`StaysOnCourse` and `OneThreadPerCar` are its consequences. `BrakesInTime` is proved
from `BrakeInv` (a car that may go on, or is between two floors, has overrun none),
`WakesForRequests` from `WakeInv` (a thread that holds the mutex to fall asleep has
an empty queue). `ServedIsDelivered` is an action property; it rests on `BoardInv`,
which relates `boarded` and `cut` to the leg. `RequestsAreConserved` rests on
`OnceInv`: an accepted request is in exactly one queue position or hand, and one that
a caller is about to push is in none and with one caller only. `TravelsInTrips` is the
refinement of `Trip` but for its fairness: initial states, and each step a step of
`Trip` or none; the steps that do something are the three of moveToFloor that begin,
continue and end a leg.

**The controller over its cars** (`ElevatorControllerProofs`). `ControlInv` is
`CarInv` with three parts: `DispatcherOK`, what the dispatcher has at each of its
labels (a request from the pop to the push, a car from the search on, a queue that
is not empty when it is about to pop); `StopOK`, how far `stop` has come (the threads
of the cars before the one it is at are gone; all of them when it turns to the
dispatcher); and `SleepOK`, `DispatcherIsWoken` with an empty queue while the
dispatcher, about to sleep, holds the mutex. `TypeCorrect`, `StaysOnCourse`,
`WakesDispatcher` and `StopLeavesNothing` follow.
`WayInv == EachOfferedOnce /\ EachAcceptedOnce` is inductive under it
(`OfferedIsConserved`, `AcceptedIsConserved`): a request comes into the queue once,
goes to the dispatcher and back, and is given away only together with its change of
fate. One lemma, `WayStep`, says of every step that it keeps `WayInv`, changes at
most one fate, in one of five ways (`FateMoves`), and takes no request from a car
whose request is not over (`HoldersStay`). That is all the refinement needs:
`PlaceHolds` computes the place of a request from its fate, and `ServesEveryRequest`,
`Spec => ServesRequests`, maps each of the five to an action of `RequestService`.
`EveryCallTellsEveryCar` (`EveryCarIsTold`) rests on `ToldInv`: a call that nobody has
crossed has left its mark on every car it has passed (`ToldOK`), and while two opposite
calls are under way both know of it (`CrossedOK`). It has no premise about who calls when.

**The server** (`ElevatorServerProofs`). `ServerInv` relates the place of main in `stop`
(`StopInOrder`), the client in the hands of the accepting thread (`AcceptedIsNew`), the
handlers (`HandlersAreKnown`, `HandlersAreJoined`) and the open descriptors: an open
number belongs to the client that is being accepted or served with it, and to no other
(`OpenIsServed`). `OwnConnectionOnly` and `StopLeavesNothing` need all of it: what
protects a handler from a reused number is that only its own close frees it as long as
something can be accepted.

**The client** (`ElevatorClientProofs`). `PatientUsersAreHarmless` rests on
`OneThingUnderWay`: with a user who waits, there is one line, command or reply on the
way at most, so that a reply to a closed socket is the last. `TypeOK` includes
`SocketOK`: main closes the socket behind its loop only, where it uses it no more.

**Terminal and demo** (`UserInterfaceProofs`). `ResponsesStay` is an action property; it
rests on `ScreenInv`, which says who holds displayMutex at each label and that no thread
is started twice. Whoever prints without the mutex leaves the response where it is;
the only one who clears is the display, whose first refresh is the exception.
`StepsAreSensible` goes through the ten steps of the demo: whatever floors are drawn and
wherever the car is, each call has floors of the building and a direction in which
there is somewhere to go, or begins at the car and the car is outside the building
(`BeginsOutside`): no step looks whether it is, and the controller drops the request.
Its premise is NumFloors >= 8; with seven
the second step fails. `DemoAsksSensibly` adds that the demo never plays a step it has
not (part of `TypeCorrect`, which is inductive).

**The database** (`DatabaseSyncProofs`). `SyncInv` says for each instance that its vector
begins with its own cars in order and holds no id twice (`FleetBegins`), that the rows it
has fetched and the cars it has added are still in the table (`RowsStay`: nobody deletes a
row, so that what is read before and used after another instance's write is not wrong, only
old), and where the sync thread can be in each phase (`ThreadInLoop`). `NoCarTwice` and
`SyncStaysConnected` follow; `TypeCorrect` needs a little more, that a vector without repetitions is no longer
than there are ids, which is a fact about injections.

What is model-checked only: the liveness properties (fairness and ENABLED are out of
the prover's reach), that is `AcceptedIsFinished`, the fairness of `Trip` in
`KeepsTripPromises`, `EveryRequestSettles`, `DispatcherIsJoined`, `GoneIsForgotten`,
`LeavingReturns`, `ServerEndIsNoticed`, `ExitIsNoticed`, `SignalEndsProcess` and
`FleetsConverge`; and, of course, the violations.

## 6. What is not modelled

* The table `elevator_logs` and the order of log entries: nothing reads them
  (`getRecentLogs` has no caller). Rows of `elevators` are reduced to the floor, the
  only column used again. That is most of `DatabaseLogger.cpp`.
* Parsing, formatting and layout of commands, replies and the display. A line of a
  client that consists of carriage returns only, which the server drops without a
  reply, counts as none.
* The options of the two programs, a server that fails to start, a client that
  fails to connect. Signals before `ui.start()`: they meet the same handler with
  fewer threads. A signal that another thread than main takes (`MaxSignals`).
* The end of the terminal's standard input (`inputLoop` goes round, as the client
  does in `InputEndEndsClient`).
* `FD_SET` on a closed descriptor: its outcome is the C library's.
* A reconnection to the database: the code has none.
* Tests and their mock logger, `include/model/Elevator.h` (no source includes it),
  build, container, database setup and CI files: no behaviour of the program.

## 7. Plan

Order of work, most important first; all but the last are done.

1. Choice of a car, with proofs (`Dispatch`, `DispatchScan`, `DispatchProofs`).
2. The car and its callers, with proofs (`Elevator`, `SharedElevator`, `Trip`).
3. The controller over its cars (`ElevatorController`, `RequestService`, `GoCommand`).
4. Server, terminal and database (`ElevatorServer`, `UserInterface`, `DatabaseSync`).
5. Shutdown from several sides: the signal handler and the command `exit` in `stop`
   beside main (`UserInterface`). A client and its handler, with writes to a peer
   that has left (`ElevatorClient`). The steps of the demo (`DemoRunner`).
6. Instances with different numbers of floors (`DatabaseSync`).
7. Proofs of every safety property of the runs and of the steps of both refinements
   (section 5).
8. The controller with its sync thread: the car of `Elevator` in `DatabaseSync`,
   which so far moves as it likes. `Elevator`, `ElevatorController` and `GoCommand`
   speak of a controller whose cars are its own, inside its building; what a car taken
   over from a higher building does is with `DatabaseSync` and the demo.
