---------------------------- MODULE DatabaseSync ----------------------------
(***************************************************************************)
(* Several instances of the simulator that share one PostgreSQL database:  *)
(* the sync thread of each (ElevatorController::syncWithDatabase), the     *)
(* life of an instance around it, and the table elevators, which outlives  *)
(* them.  Of a row the floor is kept, the only column besides the id that  *)
(* anybody uses again.  How a car moves is Elevator.tla; here it may be    *)
(* anywhere at the next moment while its thread runs.                      *)
(***************************************************************************)
EXTENDS Integers, SequencesExt

CONSTANTS
  Instances,   \* processes on the same database
  Built,       \* the --elevators option of each
  Floors,      \* by name: nothing depends on their order
  FloorsOf,    \* the floors of each instance's building, its --floors option
  GroundFloor, \* floor 1, where the controller puts a car
  Watched,     \* whose iterations over the vector are modelled: pairs of an
               \* instance and a thread
  MaxFailures, \* how many transactions may fail in a behaviour
  Absent       \* no row

ASSUME BuiltAssumption == Built \in [Instances -> Nat \ {0}]
\* There are some instances, and one has the most cars of the finitely many.
ASSUME LargestAssumption == \E i \in Instances : \A j \in Instances : Built[j] <= Built[i]
ASSUME FloorsOfAssumption == FloorsOf \in [Instances -> SUBSET Floors]
ASSUME GroundFloorAssumption == \A i \in Instances : GroundFloor \in FloorsOf[i]
ASSUME MaxFailuresAssumption == MaxFailures \in Nat
ASSUME WatchedAssumption == Watched \subseteq Instances \X {"dispatcher", "command"}
ASSUME AbsentAssumption == Absent \notin Floors

Ids == 0..(Max({Built[i] : i \in Instances}) - 1)
Rows == [Ids -> Floors \cup {Absent}]

VARIABLES
  table,      \* the rows of elevators by id, in the database
  phase,      \* where main of each instance is with its controller
  connected,  \* dbLogger's connection
  syncRunning,
  fleet,      \* the vector elevators
  scanning,   \* the threads that iterate over the vector
  sync,       \* the sync thread
  failures    \* transactions that have failed; the code does not count them

mainVars == <<phase, connected, syncRunning, scanning>>
vars == <<table, mainVars, fleet, sync, failures>>

(* "off": no process.  "built": constructed.  "up": started.  "stopping":  *)
(* stop has reset syncRunning.  "joining": it has stopped the cars.        *)
(* "stopped": it has returned.                                             *)
Phases == {"off", "built", "up", "stopping", "joining", "stopped"}
(* "test": the while.  "read" and "write": before reading car number next  *)
(* and before its transaction.  "fetch": before reading the table.         *)
(* "extend": adds the missing cars.                                        *)
SyncLabels == {"off", "test", "read", "write", "fetch", "extend", "exited"}
(* A thread that runs findBestElevator, or getElevatorStatuses.            *)
Scanners == {"dispatcher", "command"}

(* What there is to an Elevator here; running: its thread runs.            *)
CarObjects == [id : Ids, currentFloor : Floors, running : BOOLEAN]
Car(id, currentFloor, running) ==
  [id |-> id, currentFloor |-> currentFloor, running |-> running]

NoRows == [id \in Ids |-> Absent]
SyncOff == [at |-> "off", next |-> 1, copy |-> GroundFloor, dbStates |-> NoRows]

TypeOK ==
  /\ table \in Rows
  /\ phase \in [Instances -> Phases]
  /\ connected \in [Instances -> BOOLEAN]
  /\ syncRunning \in [Instances -> BOOLEAN]
  /\ fleet \in [Instances -> Seq(CarObjects)]
  /\ scanning \in [Instances -> SUBSET Scanners]
  /\ sync \in [Instances -> [at : SyncLabels, next : 1..Cardinality(Ids), copy : Floors,
                         dbStates : Rows]]
  /\ failures \in 0..MaxFailures

Init ==
  /\ table = NoRows
  /\ phase = [i \in Instances |-> "off"]
  /\ connected = [i \in Instances |-> FALSE]
  /\ syncRunning = [i \in Instances |-> FALSE]
  /\ fleet = [i \in Instances |-> <<>>]
  /\ scanning = [i \in Instances |-> {}]
  /\ sync = [i \in Instances |-> SyncOff]
  /\ failures = 0

Cars(i) == {fleet[i][n].id : n \in DOMAIN fleet[i]}

-----------------------------------------------------------------------------
(* The life of an instance.                                                *)

\* The attempt to connect, which nobody repeats; the tables are made if need be.
Connect(i) == \E success \in BOOLEAN : connected' = [connected EXCEPT ![i] = success]
Disconnect(i) == connected' = [connected EXCEPT ![i] = FALSE]

\* Seeded fault: the cars are numbered from 1.
BuildFromOne(i) ==
  /\ phase[i] = "off"
  /\ phase' = [phase EXCEPT ![i] = "built"]
  /\ fleet' = [fleet EXCEPT ![i] = [n \in 1..Built[i] |-> Car(n, GroundFloor, FALSE)]]
  /\ Connect(i)
  /\ UNCHANGED <<table, syncRunning, scanning, sync, failures>>

\* The constructor: new cars, and an attempt to connect.
Build(i) ==
  /\ phase[i] = "off"
  /\ phase' = [phase EXCEPT ![i] = "built"]
  /\ fleet' = [fleet EXCEPT ![i] = [n \in 1..Built[i] |-> Car(n - 1, GroundFloor, FALSE)]]
  /\ Connect(i)
  /\ UNCHANGED <<table, syncRunning, scanning, sync, failures>>

\* The threads of all cars of the vector start, or have been joined.
AllCars(i, running) ==
  fleet' = [fleet EXCEPT ![i] = [n \in DOMAIN @ |-> [@[n] EXCEPT !.running = running]]]

\* start(); the sync thread of an instance without a database returns at once.
Start(i) ==
  /\ phase[i] = "built"
  /\ phase' = [phase EXCEPT ![i] = "up"]
  /\ syncRunning' = [syncRunning EXCEPT ![i] = TRUE]
  /\ AllCars(i, TRUE)
  /\ sync' = [sync EXCEPT ![i].at = IF connected[i] THEN "test" ELSE "exited"]
  /\ UNCHANGED <<table, connected, scanning, failures>>

BeginStop(i) ==
  /\ phase[i] = "up"
  /\ phase' = [phase EXCEPT ![i] = "stopping"]
  /\ syncRunning' = [syncRunning EXCEPT ![i] = FALSE]
  /\ UNCHANGED <<table, connected, fleet, scanning, sync, failures>>

\* The loop over the vector, as it is when the loop begins.
StopCars(i) ==
  /\ phase[i] = "stopping"
  /\ phase' = [phase EXCEPT ![i] = "joining"]
  /\ AllCars(i, FALSE)
  /\ UNCHANGED <<table, connected, syncRunning, scanning, sync, failures>>

\* Seeded fault: the sync thread is not joined.
JoinSyncForgotten(i) ==
  /\ phase[i] = "joining"
  /\ phase' = [phase EXCEPT ![i] = "stopped"]
  /\ Disconnect(i)
  /\ UNCHANGED <<table, syncRunning, fleet, scanning, sync, failures>>

\* The dispatcher and the sync thread are joined, not the threads that execute
\* commands; the connection is closed.
JoinSync(i) ==
  /\ phase[i] = "joining"
  /\ "dispatcher" \notin scanning[i] /\ sync[i].at = "exited"
  /\ phase' = [phase EXCEPT ![i] = "stopped"]
  /\ Disconnect(i)
  /\ UNCHANGED <<table, syncRunning, fleet, scanning, sync, failures>>

\* The process ends, after stop() or without it: a crash at any moment.
End(i) ==
  /\ phase[i] # "off"
  /\ phase' = [phase EXCEPT ![i] = "off"]
  /\ Disconnect(i)
  /\ syncRunning' = [syncRunning EXCEPT ![i] = FALSE]
  /\ fleet' = [fleet EXCEPT ![i] = <<>>]
  /\ scanning' = [scanning EXCEPT ![i] = {}]
  /\ sync' = [sync EXCEPT ![i] = SyncOff]
  /\ UNCHANGED <<table, failures>>

\* addRequest takes no floor outside the building of the instance; a car that
\* is outside passes others there on its way.
MoveCar(i, n) ==
  /\ n \in DOMAIN fleet[i] /\ fleet[i][n].running
  /\ \E f \in Floors :
       /\ f \in FloorsOf[i] \/ fleet[i][n].currentFloor \notin FloorsOf[i]
       /\ fleet' = [fleet EXCEPT ![i][n].currentFloor = f]
  /\ UNCHANGED <<table, mainVars, sync, failures>>

\* The dispatcher lives from start() to its join.  Commands are executed as long
\* as there is a process.
BeginScan(i, who) ==
  /\ <<i, who>> \in Watched /\ who \notin scanning[i]
  /\ \/ phase[i] \in {"up", "stopping", "joining"}
     \/ phase[i] = "stopped" /\ who = "command"
  /\ scanning' = [scanning EXCEPT ![i] = @ \cup {who}]
  /\ UNCHANGED <<table, phase, connected, syncRunning, fleet, sync, failures>>

EndScan(i, who) ==
  /\ who \in scanning[i]
  /\ scanning' = [scanning EXCEPT ![i] = @ \ {who}]
  /\ UNCHANGED <<table, phase, connected, syncRunning, fleet, sync, failures>>

-----------------------------------------------------------------------------
(* syncWithDatabase.                                                       *)

SyncGoes(i, from, to) == sync[i].at = from /\ sync' = [sync EXCEPT ![i].at = to]

SyncTest(i) ==
  /\ SyncGoes(i, "test", IF syncRunning[i] THEN "read" ELSE "exited")
  /\ UNCHANGED <<table, mainVars, fleet, failures>>

\* Reads one car into local variables.
SyncRead(i) ==
  /\ sync[i].at = "read"
  /\ sync' = [sync EXCEPT ![i].at = "write",
                          ![i].copy = fleet[i][sync[i].next].currentFloor]
  /\ UNCHANGED <<table, mainVars, fleet, failures>>

\* The next car of the vector, or the table after the last one; the local
\* variables are out of scope.
AfterWrite(i) ==
  LET last == sync[i].next = Len(fleet[i])
  IN  sync' = [sync EXCEPT ![i].at = IF last THEN "fetch" ELSE "read",
                           ![i].next = IF last THEN 1 ELSE @ + 1,
                           ![i].copy = GroundFloor]

\* syncElevatorState: the row is inserted or replaced, whoever wrote it.
SyncWrite(i) ==
  /\ sync[i].at = "write" /\ connected[i]
  /\ table' = [table EXCEPT ![fleet[i][sync[i].next].id] = sync[i].copy]
  /\ AfterWrite(i)
  /\ UNCHANGED <<mainVars, fleet, failures>>

Fails == failures < MaxFailures /\ failures' = failures + 1

\* The transaction fails; the exception is caught and the loop goes on.
SyncWriteFails(i) ==
  /\ sync[i].at = "write"
  /\ Fails
  /\ AfterWrite(i)
  /\ UNCHANGED <<table, mainVars, fleet>>

\* Seeded fault: one missing car is not worth looking for.
FetchedOneMissing(i, rows) ==
  LET more == Cardinality({id \in Ids : rows[id] # Absent}) > Len(fleet[i]) + 1
  IN  sync' = [sync EXCEPT ![i].at = IF more THEN "extend" ELSE "test",
                           ![i].dbStates = IF more THEN rows ELSE NoRows]

Fetched(i, rows) ==
  LET more == Cardinality({id \in Ids : rows[id] # Absent}) > Len(fleet[i])
  IN  sync' = [sync EXCEPT ![i].at = IF more THEN "extend" ELSE "test",
                           ![i].dbStates = IF more THEN rows ELSE NoRows]

\* getElevatorStates, and the comparison of the two sizes.
SyncFetch(i) ==
  /\ sync[i].at = "fetch" /\ connected[i]
  /\ Fetched(i, table)
  /\ UNCHANGED <<table, mainVars, fleet, failures>>

\* It has failed and returned an empty vector.
SyncFetchFails(i) ==
  /\ sync[i].at = "fetch"
  /\ Fails
  /\ Fetched(i, NoRows)
  /\ UNCHANGED <<table, mainVars, fleet>>

\* Seeded fault: the search for the id in the vector is left out.
UnknownForgotten(i) == {id \in Ids : sync[i].dbStates[id] # Absent}

\* The rows that stand for no car of the vector.
Unknown(i) == {id \in Ids : sync[i].dbStates[id] # Absent} \ Cars(i)

\* One car is created, started and appended, at the floor of its row.
SyncAddCar(i) ==
  LET id == Min(Unknown(i))
  IN  /\ sync[i].at = "extend" /\ Unknown(i) # {}
      /\ fleet' = [fleet EXCEPT ![i] = Append(@, Car(id, sync[i].dbStates[id], TRUE))]
      /\ sync' = [sync EXCEPT ![i].dbStates[id] = Absent]
      /\ UNCHANGED <<table, mainVars, failures>>

SyncSleep(i) ==
  /\ sync[i].at = "extend" /\ Unknown(i) = {}
  /\ sync' = [sync EXCEPT ![i].at = "test", ![i].dbStates = NoRows]
  /\ UNCHANGED <<table, mainVars, fleet, failures>>

SyncStep(i) ==
  \/ SyncTest(i) \/ SyncRead(i) \/ SyncWrite(i) \/ SyncFetch(i)
  \/ SyncAddCar(i) \/ SyncSleep(i)
  \/ SyncWriteFails(i) \/ SyncFetchFails(i)

-----------------------------------------------------------------------------
Next ==
  \E i \in Instances :
    \/ Build(i) \/ Start(i) \/ BeginStop(i) \/ StopCars(i) \/ JoinSync(i) \/ End(i)
    \/ SyncStep(i)
    \/ \E who \in Scanners : BeginScan(i, who) \/ EndScan(i, who)
    \/ \E n \in DOMAIN fleet[i] : MoveCar(i, n)

Spec == Init /\ [][Next]_vars

\* The sync threads are scheduled; users, cars and crashes are free.
FairSpec == Spec /\ \A i \in Instances : WF_vars(SyncStep(i))

-----------------------------------------------------------------------------
\* However the table is filled by several instances and by those that ran
\* before, an instance never has two cars with the same id, and it has those
\* it was built with and those that somebody has written to the table only
\* (ElevatorController.cpp:265-286).
FleetIsSound ==
  \A i \in Instances :
    /\ \A m, n \in DOMAIN fleet[i] : fleet[i][m].id = fleet[i][n].id => m = n
    /\ \A id \in Cars(i) : id < Built[i] \/ table[id] # Absent

\* When the sync thread of an instance writes, its connection is open: stop()
\* joins it before it disconnects (ElevatorController.cpp:81-91).  No write of
\* an instance reaches the table after its stop() has returned.
SyncHasConnection ==
  \A i \in Instances : sync[i].at \in {"read", "write", "fetch", "extend"} => connected[i]

\* An instance that stays up and connected, and whose transactions do not fail
\* for ever, gets a car for every row, although it looks at the rows only when
\* there are more of them than it has cars (ElevatorController.cpp:268): it has
\* written its own cars before.
FleetsConverge ==
  \A i \in Instances :
    <>[](phase[i] = "up" /\ connected[i])
      => \A id \in Ids : table[id] # Absent ~> id \in Cars(i)

\* "Set number of floors" (main.cpp:53) for every car of the instance.  A row may
\* come from a higher building, and nobody looks at its floor
\* (ElevatorController.cpp:281).
EveryCarStaysInside ==
  \A i \in Instances :
    \A n \in DOMAIN fleet[i] : fleet[i][n].currentFloor \in FloorsOf[i]

\* "Stop all elevators" (ElevatorController.cpp:63): when stop() has returned no
\* car runs.  The sync thread may add and start one after that loop.
StopStopsEveryCar ==
  \A i \in Instances :
    phase[i] = "stopped" => \A n \in DOMAIN fleet[i] : ~fleet[i][n].running

\* "Mutexes: Protect shared data structures from concurrent access"
\* (docs/Design.md:60).  The sync thread appends to the vector that the other
\* threads iterate over, without a mutex.
VectorIsNotShared ==
  \A i \in Instances :
    scanning[i] # {} => ~(sync[i].at = "extend" /\ Unknown(i) # {})

\* "All instances will share the same elevator states" (README.md:238): cars
\* that have come to rest are at the same floor everywhere, in time.  No instance
\* takes over the floor of a car it has.
CurrentFloors == [i \in Instances |-> [n \in DOMAIN fleet[i] |-> fleet[i][n].currentFloor]]

InstancesShareStates ==
  \A i, j \in Instances :
    (/\ <>[](phase[i] = "up" /\ connected[i] /\ phase[j] = "up" /\ connected[j])
     /\ <>[][UNCHANGED CurrentFloors]_vars)
    => <>[](\A m \in DOMAIN fleet[i], n \in DOMAIN fleet[j] :
              fleet[i][m].id = fleet[j][n].id =>
                fleet[i][m].currentFloor = fleet[j][n].currentFloor)

\* "State persistence across restarts" (README.md:326): a new process finds its
\* cars where the table says.  The constructor puts them at floor 1, and the
\* sync thread overwrites the rows.
RestartKeepsStates ==
  [][\A i \in Instances :
       Build(i) /\ connected'[i] =>
         \A n \in DOMAIN fleet'[i] :
           LET row == table[fleet'[i][n].id]
           IN  row # Absent => fleet'[i][n].currentFloor = row]_vars
=============================================================================
