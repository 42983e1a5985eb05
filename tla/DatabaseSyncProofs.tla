------------------------- MODULE DatabaseSyncProofs -------------------------
(***************************************************************************)
(* Proofs about DatabaseSync, for any number of instances, of cars in each *)
(* and of failed transactions: what may be in a fleet, and that no         *)
(* transaction finds the connection closed.                                *)
(* All follow from SyncInv, which says what an instance's vector, the      *)
(* table and the local variables of the sync thread have to do with each   *)
(* other at every point of the thread's loop.                              *)
(***************************************************************************)
EXTENDS DatabaseSync, TLAPS, WellFoundedInduction, FiniteSetTheorems,
        SequenceTheorems

\* The vector begins with the cars the instance was built with, in the order
\* of their ids, and holds no id twice.
FleetBegins(i) ==
  /\ phase[i] # "off" => \A n \in 1..Built[i] : n \in DOMAIN fleet[i] /\ fleet[i][n].id = n - 1
  /\ phase[i] = "off" => fleet[i] = <<>>
  /\ \A m, n \in DOMAIN fleet[i] : fleet[i][m].id = fleet[i][n].id => m = n

\* The rows that the thread has fetched are in the table, and so are those of
\* the cars it has added: nobody deletes a row.
RowsStay(i) ==
  /\ sync[i].at # "extend" => sync[i].dbStates = NoRows
  /\ \A id \in Ids : sync[i].dbStates[id] # Absent => table[id] # Absent
  /\ \A n \in DOMAIN fleet[i] : fleet[i][n].id < Built[i] \/ table[fleet[i][n].id] # Absent

\* The thread runs between start and the end of stop, and has its connection;
\* its loop index stands for a car.
ThreadInLoop(i) ==
  /\ sync[i].at = "off" => phase[i] \in {"off", "built"}
  /\ sync[i].at = "exited" => phase[i] \notin {"off", "built"}
  /\ sync[i].at \in {"test", "read", "write", "fetch", "extend"} =>
       connected[i] /\ phase[i] \in {"up", "stopping", "joining"}
  /\ IF sync[i].at \in {"read", "write"} THEN sync[i].next \in DOMAIN fleet[i]
                                         ELSE sync[i].next = 1

Sound(i) == FleetBegins(i) /\ RowsStay(i) /\ ThreadInLoop(i)

SyncInv == TypeOK /\ \A i \in Instances : Sound(i)

-----------------------------------------------------------------------------
(* The ids, and the vectors that hold each of them once.                   *)

\* The ids are those of the largest instance, and so every instance's.
LEMMA IdsAreBuilt ==
  \E K \in Nat \ {0} : Ids = 0..(K - 1) /\ \A i \in Instances : Built[i] \in 1..K
<1> DEFINE S == {Built[i] : i \in Instances}
<1>1. PICK largest \in Instances : \A j \in Instances : Built[j] <= Built[largest]
  BY LargestAssumption
<1>2. Built[largest] \in S /\ \A x \in S : Built[largest] >= x
  BY <1>1, BuiltAssumption
<1>3. Max(S) \in S /\ \A x \in S : Max(S) >= x
  BY <1>2 DEF Max
<1>4. Max(S) \in Nat \ {0} /\ \A i \in Instances : Built[i] \in 1..Max(S)
  BY <1>3, BuiltAssumption
<1> QED
  BY <1>4 DEF Ids

\* What a vector of cars holds.
LEMMA CarsOfSeq ==
  ASSUME NEW s \in Seq(CarObjects)
  PROVE  /\ Len(s) \in Nat /\ DOMAIN s = 1..Len(s)
         /\ \A n \in DOMAIN s : s[n] \in CarObjects /\ s[n].id \in Ids
<1>1. Len(s) \in Nat /\ DOMAIN s = 1..Len(s) /\ \A n \in DOMAIN s : s[n] \in CarObjects
  OBVIOUS
<1>2. \A car \in CarObjects : car.id \in Ids
  BY DEF CarObjects
<1> QED
  BY <1>1, <1>2

\* A vector that holds no id twice is no longer than there are ids.
LEMMA FleetFits ==
  ASSUME NEW s \in Seq(CarObjects), \A m, n \in DOMAIN s : s[m].id = s[n].id => m = n
  PROVE  Len(s) <= Cardinality(Ids) /\ Cardinality(Ids) \in Nat
<1> DEFINE ids == [n \in 1..Len(s) |-> s[n].id]
<1>1. IsFiniteSet(Ids) /\ Cardinality(Ids) \in Nat
  BY IdsAreBuilt, FS_Interval, FS_CardinalityType
<1>2. ids \in Injection(1..Len(s), Ids)
  <2>1. ids \in [1..Len(s) -> Ids]
    BY CarsOfSeq
  <2>2. \A m, n \in 1..Len(s) : ids[m] = ids[n] => m = n
    BY CarsOfSeq
  <2> HIDE DEF ids
  <2> QED
    BY <2>1, <2>2 DEF Injection, IsInjective
<1>3. Cardinality(1..Len(s)) = Len(s)
  BY FS_Interval, Len(s) \in Nat
<1>4. Cardinality(1..Len(s)) <= Cardinality(Ids)
  BY <1>1, <1>2, FS_Injection
<1> QED
  BY <1>1, <1>3, <1>4

\* Of the unknown rows, the one that is looked at first is one of them.
LEMMA LeastUnknown ==
  ASSUME NEW i \in Instances, Unknown(i) # {}
  PROVE  Min(Unknown(i)) \in Unknown(i)
<1>1. Unknown(i) \subseteq Nat
  BY IdsAreBuilt DEF Unknown
<1>2. PICK x \in Unknown(i) : \A y \in Unknown(i) : ~(<<y, x>> \in OpToRel(<, Nat))
  BY <1>1, WFMin, NatLessThanWellFounded
<1>3. \A y, z \in Nat : y < z => <<y, z>> \in OpToRel(<, Nat)
  BY Zenon DEF OpToRel
<1>4. \A y \in Unknown(i) : ~(y < x)
  BY <1>1, <1>2, <1>3
<1>5. \A y \in Unknown(i) : x <= y
  BY <1>1, <1>4
<1> QED
  BY <1>5 DEF Min
-----------------------------------------------------------------------------
(* The local variables of a sync thread.                                   *)

SyncState == [at : SyncLabels, next : 1..Cardinality(Ids), copy : Floors, dbStates : Rows]

\* The thread moves on, with its local variables as they are.
LEMMA SyncMoves ==
  ASSUME sync \in [Instances -> SyncState], NEW i \in Instances, NEW to \in SyncLabels,
         sync' = [sync EXCEPT ![i].at = to]
  PROVE  /\ sync' \in [Instances -> SyncState]
         /\ sync'[i].at = to /\ sync'[i].next = sync[i].next
         /\ sync'[i].copy = sync[i].copy /\ sync'[i].dbStates = sync[i].dbStates
         /\ \A j \in Instances \ {i} : sync'[j] = sync[j]
<1>1. [sync[i] EXCEPT !.at = to] \in SyncState
  BY DEF SyncState
<1> QED
  BY <1>1 DEF SyncState

-----------------------------------------------------------------------------
(* A step of one instance, the others, and the table.                      *)

SameAt(j) ==
  /\ phase'[j] = phase[j] /\ connected'[j] = connected[j]
  /\ fleet'[j] = fleet[j] /\ sync'[j] = sync[j]

TableGrows == \A id \in Ids : table[id] # Absent => table'[id] # Absent

\* What a step of instance i has to show.
KeepsSound(i) ==
  /\ TypeOK' /\ Sound(i)'
  /\ TableGrows
  /\ \A j \in Instances \ {i} : SameAt(j)

\* The rows that one instance writes do no harm to the others.
LEMMA OthersStaySound ==
  ASSUME SyncInv, NEW i \in Instances, KeepsSound(i)
  PROVE  SyncInv'
<1>1. ASSUME NEW j \in Instances \ {i} PROVE Sound(j)'
  <2> USE DEF SyncInv, SameAt
  <2>1. SameAt(j) /\ TableGrows /\ Sound(j)
    BY DEF KeepsSound
  <2>2. FleetBegins(j)'
    BY <2>1 DEF Sound, FleetBegins
  <2>3. RowsStay(j)'
    <3>1. \A n \in DOMAIN fleet[j] : fleet[j][n].id \in Ids
      BY CarsOfSeq DEF TypeOK
    <3> QED
      BY <2>1, <3>1 DEF Sound, RowsStay, TableGrows
  <2>4. ThreadInLoop(j)'
    BY <2>1 DEF Sound, ThreadInLoop
  <2> QED
    BY <2>2, <2>3, <2>4 DEF Sound
<1> QED
  BY <1>1 DEF SyncInv, KeepsSound

-----------------------------------------------------------------------------
(* The life of an instance.                                                *)

\* The constructor makes the instance's own cars, at the ground floor.
LEMMA BuildKeepsSound ==
  ASSUME SyncInv, NEW i \in Instances, Build(i)
  PROVE  KeepsSound(i)
<1> USE DEF SyncInv, Build, Connect
<1>1. PICK K \in Nat \ {0} : Ids = 0..(K - 1) /\ \A j \in Instances : Built[j] \in 1..K
  BY IdsAreBuilt
<1>2. /\ fleet' = [fleet EXCEPT ![i] = [n \in 1..Built[i] |-> Car(n - 1, GroundFloor, FALSE)]]
      /\ fleet'[i] = [n \in 1..Built[i] |-> Car(n - 1, GroundFloor, FALSE)]
      /\ phase'[i] = "built"
  BY DEF TypeOK
<1>3. GroundFloor \in Floors
  BY GroundFloorAssumption, FloorsOfAssumption
<1>4. fleet'[i] \in Seq(CarObjects)
  <2>1. Built[i] \in Nat /\ \A n \in 1..Built[i] : n - 1 \in Ids
    BY <1>1
  <2>2. \A n \in 1..Built[i] : Car(n - 1, GroundFloor, FALSE) \in CarObjects
    BY <1>3, <2>1 DEF Car, CarObjects
  <2>3. fleet'[i] \in [1..Built[i] -> CarObjects]
    BY <1>2, <2>2
  <2> QED
    BY <2>1, <2>3, SeqDef
<1>5. TypeOK'
  <2>1. fleet' \in [Instances -> Seq(CarObjects)]
    BY <1>2, <1>4 DEF TypeOK
  <2> QED
    BY <2>1 DEF TypeOK, Phases
<1>6. FleetBegins(i)'
  <2>1. Built[i] \in Nat /\ DOMAIN fleet'[i] = 1..Built[i] /\ phase'[i] # "off"
    BY <1>1, <1>2
  <2>2. \A n \in 1..Built[i] : n \in Nat /\ fleet'[i][n].id = n - 1
    BY <1>2, <2>1 DEF Car
  <2>3. \A m, n \in 1..Built[i] : fleet'[i][m].id = fleet'[i][n].id => m = n
    <3> SUFFICES ASSUME NEW m \in 1..Built[i], NEW n \in 1..Built[i],
                        fleet'[i][m].id = fleet'[i][n].id
                 PROVE  m = n
      OBVIOUS
    <3>1. m - 1 = n - 1 /\ m \in Nat /\ n \in Nat
      BY <2>2
    <3> QED
      BY <3>1
  <2> QED
    BY <2>1, <2>2, <2>3 DEF FleetBegins
<1>7. sync[i].at = "off"
  BY DEF TypeOK, Sound, ThreadInLoop, SyncLabels
<1>8. RowsStay(i)'
  BY <1>1, <1>2 DEF Sound, RowsStay, Car
<1>9. ThreadInLoop(i)'
  BY <1>2, <1>7 DEF Sound, ThreadInLoop
<1>10. TableGrows /\ \A j \in Instances \ {i} : SameAt(j)
  BY DEF TypeOK, TableGrows, SameAt
<1> QED
  BY <1>5, <1>6, <1>8, <1>9, <1>10 DEF KeepsSound, Sound

\* When the cars change, but keep their places and ids, what is said of the
\* vector stays true.
LEMMA CarsKeepIds ==
  ASSUME SyncInv, NEW i \in Instances, NEW cars \in Seq(CarObjects),
         DOMAIN cars = DOMAIN fleet[i],
         \A n \in DOMAIN cars : cars[n].id = fleet[i][n].id,
         fleet' = [fleet EXCEPT ![i] = cars],
         phase'[i] = "off" <=> phase[i] = "off",
         sync'[i].at = "extend" <=> sync[i].at = "extend",
         sync'[i].dbStates = sync[i].dbStates, UNCHANGED table
  PROVE  /\ fleet' \in [Instances -> Seq(CarObjects)] /\ DOMAIN fleet'[i] = DOMAIN fleet[i]
         /\ FleetBegins(i)' /\ RowsStay(i)'
<1> USE DEF SyncInv
<1>1. fleet'[i] = cars /\ fleet' \in [Instances -> Seq(CarObjects)]
  BY DEF TypeOK
<1>2. phase[i] = "off" => cars = <<>>
  <2>1. phase[i] = "off" => DOMAIN cars = {}
    BY DEF Sound, FleetBegins
  <2> QED
    BY <2>1
<1>3. FleetBegins(i)'
  BY <1>1, <1>2 DEF Sound, FleetBegins
<1>4. RowsStay(i)'
  BY <1>1 DEF Sound, RowsStay
<1> QED
  BY <1>1, <1>3, <1>4

\* Starting and stopping all cars.
LEMMA AllCarsKeepIds ==
  ASSUME SyncInv, NEW i \in Instances, NEW running \in BOOLEAN, AllCars(i, running)
  PROVE  \E cars \in Seq(CarObjects) :
           /\ DOMAIN cars = DOMAIN fleet[i]
           /\ \A n \in DOMAIN cars : cars[n].id = fleet[i][n].id
           /\ fleet' = [fleet EXCEPT ![i] = cars]
<1> DEFINE cars == [n \in DOMAIN fleet[i] |-> [fleet[i][n] EXCEPT !.running = running]]
<1>1. fleet[i] \in Seq(CarObjects) /\ Len(fleet[i]) \in Nat /\ DOMAIN fleet[i] = 1..Len(fleet[i])
  BY DEF SyncInv, TypeOK
<1>2. \A n \in DOMAIN fleet[i] : cars[n] \in CarObjects /\ cars[n].id = fleet[i][n].id
  <2>1. \A car \in CarObjects : /\ [car EXCEPT !.running = running] \in CarObjects
                                /\ [car EXCEPT !.running = running].id = car.id
    BY DEF CarObjects
  <2> QED
    BY <1>1, <2>1, CarsOfSeq
<1>3. cars \in [1..Len(fleet[i]) -> CarObjects]
  BY <1>1, <1>2
<1>4. cars \in Seq(CarObjects)
  BY <1>1, <1>3, SeqDef
<1>5. fleet' = [fleet EXCEPT ![i] = cars]
  BY DEF AllCars
<1>6. DOMAIN cars = DOMAIN fleet[i]
  OBVIOUS
<1> HIDE DEF cars
<1> QED
  BY <1>2, <1>4, <1>5, <1>6

\* start starts the threads of the cars.
LEMMA StartKeepsSound ==
  ASSUME SyncInv, NEW i \in Instances, Start(i)
  PROVE  KeepsSound(i)
<1> USE DEF SyncInv, Start
<1>1. /\ sync' = [sync EXCEPT ![i].at = IF connected[i] THEN "test" ELSE "exited"]
      /\ sync[i].at = "off" /\ sync[i].next = 1
  BY DEF Sound, ThreadInLoop, TypeOK, SyncLabels
<1>2. phase[i] = "built" /\ phase'[i] = "up"
  BY DEF TypeOK
<1>3. /\ sync' \in [Instances -> SyncState]
      /\ sync'[i].at \in {"test", "exited"} /\ sync'[i].dbStates = sync[i].dbStates
      /\ sync'[i].next = 1 /\ (sync'[i].at = "test" => connected[i])
  BY <1>1, SyncMoves DEF TypeOK, SyncState, SyncLabels
<1>4. PICK cars \in Seq(CarObjects) :
        /\ DOMAIN cars = DOMAIN fleet[i]
        /\ \A n \in DOMAIN cars : cars[n].id = fleet[i][n].id
        /\ fleet' = [fleet EXCEPT ![i] = cars]
  BY AllCarsKeepIds
<1>5. /\ fleet' \in [Instances -> Seq(CarObjects)]
      /\ FleetBegins(i)' /\ RowsStay(i)'
  <2>1. phase'[i] = "off" <=> phase[i] = "off"
    BY <1>2
  <2>2. sync'[i].at = "extend" <=> sync[i].at = "extend"
    BY <1>1, <1>3
  <2>3. sync'[i].dbStates = sync[i].dbStates /\ UNCHANGED table
    BY <1>3
  <2> HIDE DEF Start
  <2> QED
    BY <1>4, <2>1, <2>2, <2>3, CarsKeepIds
<1>6. TypeOK'
  BY <1>3, <1>5 DEF TypeOK, Phases, SyncState
<1>7. ThreadInLoop(i)'
  BY <1>2, <1>3 DEF ThreadInLoop
<1>8. TableGrows /\ \A j \in Instances \ {i} : SameAt(j)
  BY <1>1, <1>4 DEF TypeOK, TableGrows, SameAt
<1> QED
  BY <1>5, <1>6, <1>7, <1>8 DEF KeepsSound, Sound

\* stop resets syncRunning, and closes the connection when the sync thread has
\* ended.
LEMMA StopKeepsSound ==
  ASSUME SyncInv, NEW i \in Instances, BeginStop(i) \/ JoinSync(i)
  PROVE  KeepsSound(i)
<1> USE DEF SyncInv, BeginStop, JoinSync, Disconnect
<1>1. TypeOK'
  BY DEF TypeOK, Phases
<1>2. FleetBegins(i)' /\ RowsStay(i)'
  <2>1. phase[i] # "off" /\ phase'[i] # "off" /\ UNCHANGED <<table, fleet, sync>>
    BY DEF TypeOK
  <2>2. FleetBegins(i)'
    BY <2>1 DEF Sound, FleetBegins
  <2> QED
    BY <2>1, <2>2 DEF Sound, RowsStay
<1>3. ThreadInLoop(i)'
  BY DEF TypeOK, Sound, ThreadInLoop
<1>4. TableGrows /\ \A j \in Instances \ {i} : SameAt(j)
  BY DEF TypeOK, TableGrows, SameAt
<1> QED
  BY <1>1, <1>2, <1>3, <1>4 DEF KeepsSound, Sound

\* stop joins the threads of the cars.
LEMMA StopCarsKeepsSound ==
  ASSUME SyncInv, NEW i \in Instances, StopCars(i)
  PROVE  KeepsSound(i)
<1> USE DEF SyncInv, StopCars
<1>1. phase[i] = "stopping" /\ phase'[i] = "joining"
  BY DEF TypeOK
<1>2. PICK cars \in Seq(CarObjects) :
        /\ DOMAIN cars = DOMAIN fleet[i]
        /\ \A n \in DOMAIN cars : cars[n].id = fleet[i][n].id
        /\ fleet' = [fleet EXCEPT ![i] = cars]
  BY AllCarsKeepIds
<1>3. /\ fleet' \in [Instances -> Seq(CarObjects)] /\ DOMAIN fleet'[i] = DOMAIN fleet[i]
      /\ FleetBegins(i)' /\ RowsStay(i)'
  BY <1>1, <1>2, CarsKeepIds
<1>4. TypeOK'
  BY <1>3 DEF TypeOK, Phases
<1>5. ThreadInLoop(i)'
  BY <1>1, <1>3 DEF Sound, ThreadInLoop
<1>6. TableGrows /\ \A j \in Instances \ {i} : SameAt(j)
  BY <1>2 DEF TypeOK, TableGrows, SameAt
<1> QED
  BY <1>3, <1>4, <1>5, <1>6 DEF KeepsSound, Sound

\* Nothing is left of a process that ends but its rows.
LEMMA EndKeepsSound ==
  ASSUME SyncInv, NEW i \in Instances, End(i)
  PROVE  KeepsSound(i)
<1> USE DEF SyncInv, End, Disconnect
<1>1. GroundFloor \in Floors /\ SyncOff \in [at : SyncLabels, next : 1..Cardinality(Ids),
                                             copy : Floors, dbStates : Rows]
  <2>1. 1 \in 1..Cardinality(Ids)
    BY IdsAreBuilt, FS_Interval
  <2> QED
    BY <2>1, GroundFloorAssumption, FloorsOfAssumption DEF SyncOff, SyncLabels, NoRows, Rows
<1>2. TypeOK'
  BY <1>1 DEF TypeOK, Phases
<1>3. phase'[i] = "off" /\ fleet'[i] = <<>> /\ sync'[i] = SyncOff
  BY DEF TypeOK
<1>4. Sound(i)'
  BY <1>3, IdsAreBuilt DEF Sound, FleetBegins, RowsStay, ThreadInLoop, SyncOff, NoRows
<1>5. TableGrows /\ \A j \in Instances \ {i} : SameAt(j)
  BY DEF TypeOK, TableGrows, SameAt
<1> QED
  BY <1>2, <1>4, <1>5 DEF KeepsSound

\* A car moves to another floor, and stays where it is in the vector.
LEMMA MoveKeepsSound ==
  ASSUME SyncInv, NEW i \in Instances, NEW car \in DOMAIN fleet[i], MoveCar(i, car)
  PROVE  KeepsSound(i)
<1> USE DEF SyncInv, MoveCar, mainVars
<1>1. PICK f \in Floors : fleet' = [fleet EXCEPT ![i][car].currentFloor = f]
  OBVIOUS
<1> DEFINE cars == [fleet[i] EXCEPT ![car].currentFloor = f]
<1>2. fleet[i] \in Seq(CarObjects) /\ fleet' = [fleet EXCEPT ![i] = cars]
  BY <1>1 DEF TypeOK
<1>3. fleet[i][car] \in CarObjects
  BY <1>2, CarsOfSeq
<1>4. /\ [fleet[i][car] EXCEPT !.currentFloor = f] \in CarObjects
      /\ [fleet[i][car] EXCEPT !.currentFloor = f].id = fleet[i][car].id
  BY <1>3 DEF CarObjects
<1>5. cars \in Seq(CarObjects) /\ DOMAIN cars = DOMAIN fleet[i]
  BY <1>2, <1>4
<1>6. \A n \in DOMAIN cars : cars[n].id = fleet[i][n].id
  BY <1>2, <1>4
<1> HIDE DEF cars
<1>7. /\ fleet' \in [Instances -> Seq(CarObjects)] /\ DOMAIN fleet'[i] = DOMAIN fleet[i]
      /\ FleetBegins(i)' /\ RowsStay(i)'
  BY <1>2, <1>5, <1>6, CarsKeepIds
<1>8. TypeOK'
  BY <1>7 DEF TypeOK
<1>9. ThreadInLoop(i)'
  BY <1>7 DEF Sound, ThreadInLoop
<1>10. TableGrows /\ \A j \in Instances \ {i} : SameAt(j)
  BY <1>2 DEF TypeOK, TableGrows, SameAt
<1> QED
  BY <1>7, <1>8, <1>9, <1>10 DEF KeepsSound, Sound

\* An iteration over the vector changes nothing of it.
LEMMA ScanKeepsSound ==
  ASSUME SyncInv, NEW i \in Instances, NEW who \in Scanners,
         BeginScan(i, who) \/ EndScan(i, who)
  PROVE  KeepsSound(i)
<1> USE DEF SyncInv, BeginScan, EndScan
<1>1. TypeOK'
  BY DEF TypeOK
<1>2. Sound(i)'
  BY DEF Sound, FleetBegins, RowsStay, ThreadInLoop
<1>3. TableGrows /\ \A j \in Instances \ {i} : SameAt(j)
  BY DEF TypeOK, TableGrows, SameAt
<1> QED
  BY <1>1, <1>2, <1>3 DEF KeepsSound
-----------------------------------------------------------------------------
(* syncWithDatabase.                                                       *)

\* The thread's loop index and the car at it.
LEMMA IndexedCar ==
  ASSUME SyncInv, NEW i \in Instances, sync[i].at \in {"read", "write"}
  PROVE  /\ fleet[i] \in Seq(CarObjects) /\ sync[i].next \in 1..Len(fleet[i])
         /\ fleet[i][sync[i].next] \in CarObjects
         /\ 1..Len(fleet[i]) \subseteq 1..Cardinality(Ids)
<1> USE DEF SyncInv
<1>1. fleet[i] \in Seq(CarObjects) /\ sync[i].next \in 1..Len(fleet[i])
  BY DEF TypeOK, Sound, ThreadInLoop
<1>2. Len(fleet[i]) <= Cardinality(Ids) /\ Cardinality(Ids) \in Nat
  BY <1>1, FleetFits DEF Sound, FleetBegins
<1> QED
  BY <1>1, <1>2

\* When the thread goes from one point to another with the vector, the table
\* and the cars as they are, it is enough to look at its local variables.
LEMMA ThreadStepKeepsSound ==
  ASSUME SyncInv, NEW i \in Instances, NEW r \in SyncState,
         sync' = [sync EXCEPT ![i] = r],
         UNCHANGED <<table, mainVars, fleet>>,
         failures' \in 0..MaxFailures,
         sync[i].at \notin {"off", "exited"}, r.at # "off",
         r.at # "extend" => r.dbStates = NoRows,
         \A id \in Ids : r.dbStates[id] # Absent => table[id] # Absent,
         IF r.at \in {"read", "write"} THEN r.next \in DOMAIN fleet[i] ELSE r.next = 1
  PROVE  KeepsSound(i)
<1> USE DEF SyncInv, mainVars
<1>1. sync'[i] = r /\ \A j \in Instances \ {i} : sync'[j] = sync[j]
  BY DEF TypeOK
<1>2. TypeOK'
  BY DEF TypeOK, SyncState
<1>3. FleetBegins(i)'
  BY DEF Sound, FleetBegins
<1>4. RowsStay(i)'
  BY <1>1 DEF Sound, RowsStay
<1>5. ThreadInLoop(i)'
  <2>1. connected[i] /\ phase[i] \in {"up", "stopping", "joining"}
    BY DEF TypeOK, Sound, ThreadInLoop, SyncLabels
  <2> QED
    BY <1>1, <2>1 DEF ThreadInLoop, SyncState
<1>6. TableGrows /\ \A j \in Instances \ {i} : SameAt(j)
  BY <1>1 DEF TableGrows, SameAt
<1> QED
  BY <1>2, <1>3, <1>4, <1>5, <1>6 DEF KeepsSound, Sound

\* The while, and the read of a car.
LEMMA TestAndReadKeepSound ==
  ASSUME SyncInv, NEW i \in Instances, SyncTest(i) \/ SyncRead(i)
  PROVE  KeepsSound(i)
<1> USE DEF SyncInv
<1>s. sync[i] \in SyncState /\ failures \in 0..MaxFailures
  BY DEF TypeOK, SyncState
<1>1. CASE SyncTest(i)
  <2> DEFINE r == [sync[i] EXCEPT !.at = IF syncRunning[i] THEN "read" ELSE "exited"]
  <2>1. r \in SyncState /\ sync' = [sync EXCEPT ![i] = r]
    BY <1>s, <1>1 DEF SyncTest, SyncGoes, SyncState, SyncLabels
  <2>2. 1 \in DOMAIN fleet[i]
    <3>1. phase[i] # "off"
      BY <1>1 DEF SyncTest, SyncGoes, Sound, ThreadInLoop
    <3>2. 1 \in 1..Built[i]
      BY BuiltAssumption
    <3> QED
      BY <3>1, <3>2 DEF Sound, FleetBegins
  <2>3. sync[i].at = "test" /\ sync[i].next = 1 /\ sync[i].dbStates = NoRows
    BY <1>1 DEF SyncTest, SyncGoes, Sound, ThreadInLoop, RowsStay
  <2>4. r.dbStates = NoRows /\ r.next = 1 /\ r.at \in {"read", "exited"}
    BY <1>s, <2>3 DEF SyncState
  <2> HIDE DEF r
  <2> QED
    BY <1>s, <1>1, <2>1, <2>2, <2>3, <2>4, ThreadStepKeepsSound DEF SyncTest, NoRows
<1>2. CASE SyncRead(i)
  <2> DEFINE r == [sync[i] EXCEPT !.at = "write", !.copy = fleet[i][sync[i].next].currentFloor]
  <2>1. fleet[i][sync[i].next].currentFloor \in Floors
    BY <1>2, IndexedCar DEF SyncRead, CarObjects
  <2>2. r \in SyncState /\ sync' = [sync EXCEPT ![i] = r]
    BY <1>s, <1>2, <2>1 DEF SyncRead, SyncState, SyncLabels
  <2>3. sync[i].next \in DOMAIN fleet[i] /\ sync[i].dbStates = NoRows
    BY <1>2 DEF SyncRead, Sound, ThreadInLoop, RowsStay
  <2>4. r.dbStates = NoRows /\ r.next = sync[i].next /\ r.at = "write"
    BY <1>s, <2>3 DEF SyncState
  <2> HIDE DEF r
  <2> QED
    BY <1>s, <1>2, <2>2, <2>3, <2>4, ThreadStepKeepsSound DEF SyncRead, NoRows
<1> QED
  BY <1>1, <1>2

\* After a transaction the index stands for the next car, or the loop is over.
LEMMA AfterWriteState ==
  ASSUME SyncInv, NEW i \in Instances, sync[i].at = "write", AfterWrite(i)
  PROVE  \E r \in SyncState :
           /\ sync' = [sync EXCEPT ![i] = r]
           /\ r.dbStates = NoRows
           /\ \/ r.at = "fetch" /\ r.next = 1
              \/ r.at = "read" /\ r.next \in DOMAIN fleet[i]
<1> USE DEF SyncInv
<1> DEFINE last == sync[i].next = Len(fleet[i])
           at == IF last THEN "fetch" ELSE "read"
           next == IF last THEN 1 ELSE sync[i].next + 1
           r == [sync[i] EXCEPT !.at = at, !.next = next, !.copy = GroundFloor]
<1>1. sync[i] \in SyncState /\ sync[i].dbStates = NoRows
  BY DEF TypeOK, SyncState, Sound, RowsStay
<1>2. /\ sync[i].next \in 1..Len(fleet[i]) /\ Len(fleet[i]) \in Nat
      /\ 1..Len(fleet[i]) \subseteq 1..Cardinality(Ids)
      /\ DOMAIN fleet[i] = 1..Len(fleet[i])
  BY IndexedCar
<1>3. 1 \in 1..Len(fleet[i]) /\ (~last => sync[i].next + 1 \in 1..Len(fleet[i]))
  BY <1>2
<1>4. GroundFloor \in Floors
  BY GroundFloorAssumption, FloorsOfAssumption
<1>5. at \in SyncLabels /\ next \in 1..Cardinality(Ids)
  BY <1>2, <1>3 DEF SyncLabels
<1>6. sync' = [sync EXCEPT ![i] = r]
  BY DEF TypeOK, AfterWrite
<1>7. \/ at = "fetch" /\ next = 1
      \/ at = "read" /\ next \in DOMAIN fleet[i]
  BY <1>2, <1>3
<1> HIDE DEF at, next
<1>8. /\ r \in SyncState
      /\ r.at = at /\ r.next = next /\ r.dbStates = NoRows
  BY <1>1, <1>4, <1>5 DEF SyncState
<1> HIDE DEF r
<1> QED
  BY <1>6, <1>7, <1>8

\* A row is inserted or replaced, or the transaction fails.
LEMMA WriteKeepsSound ==
  ASSUME SyncInv, NEW i \in Instances, SyncWrite(i) \/ SyncWriteFails(i)
  PROVE  KeepsSound(i)
<1> USE DEF SyncInv
<1>1. PICK r \in SyncState :
        /\ sync' = [sync EXCEPT ![i] = r]
        /\ r.dbStates = NoRows
        /\ \/ r.at = "fetch" /\ r.next = 1
           \/ r.at = "read" /\ r.next \in DOMAIN fleet[i]
  BY AfterWriteState DEF SyncWrite, SyncWriteFails
<1>2. CASE SyncWriteFails(i)
  <2>1. failures' \in 0..MaxFailures
    BY <1>2, MaxFailuresAssumption DEF TypeOK, SyncWriteFails, Fails
  <2> QED
    BY <1>1, <1>2, <2>1, ThreadStepKeepsSound DEF SyncWriteFails, NoRows
<1>3. CASE SyncWrite(i)
  <2> DEFINE car == fleet[i][sync[i].next].id
  <2> USE <1>3 DEF SyncWrite
  <2>1. /\ car \in Ids /\ sync[i].copy \in Floors
        /\ table' = [table EXCEPT ![car] = sync[i].copy]
    BY IndexedCar DEF TypeOK, CarObjects
  <2> HIDE DEF car
  <2>2. TableGrows
    BY <2>1, AbsentAssumption DEF TypeOK, Rows, TableGrows
  <2>3. sync'[i] = r /\ \A j \in Instances \ {i} : sync'[j] = sync[j]
    BY <1>1 DEF TypeOK
  <2>4. TypeOK'
    BY <1>1, <2>1 DEF TypeOK, Rows, SyncState, mainVars
  <2>5. FleetBegins(i)'
    BY DEF Sound, FleetBegins, mainVars
  <2>6. RowsStay(i)'
    <3>1. \A n \in DOMAIN fleet[i] : fleet[i][n].id \in Ids
      BY CarsOfSeq DEF TypeOK
    <3> QED
      BY <1>1, <2>2, <2>3, <3>1 DEF Sound, RowsStay, TableGrows, NoRows
  <2>7. ThreadInLoop(i)'
    BY <1>1, <2>3 DEF Sound, ThreadInLoop, mainVars
  <2>8. \A j \in Instances \ {i} : SameAt(j)
    BY <2>3 DEF SameAt, mainVars
  <2> QED
    BY <2>2, <2>4, <2>5, <2>6, <2>7, <2>8 DEF KeepsSound, Sound
<1> QED
  BY <1>2, <1>3
\* Rows that are fetched and kept are in the table.
LEMMA FetchedState ==
  ASSUME SyncInv, NEW i \in Instances, sync[i].at = "fetch", NEW rows \in Rows, Fetched(i, rows)
  PROVE  \E r \in SyncState :
           /\ sync' = [sync EXCEPT ![i] = r]
           /\ r.next = 1
           /\ \/ r.at = "extend" /\ r.dbStates = rows
              \/ r.at = "test" /\ r.dbStates = NoRows
<1> USE DEF SyncInv
<1> DEFINE more == Cardinality({id \in Ids : rows[id] # Absent}) > Len(fleet[i])
           at == IF more THEN "extend" ELSE "test"
           kept == IF more THEN rows ELSE NoRows
           r == [sync[i] EXCEPT !.at = at, !.dbStates = kept]
<1>1. sync[i] \in SyncState /\ sync[i].next = 1
  BY DEF TypeOK, SyncState, Sound, ThreadInLoop
<1>2. at \in SyncLabels /\ kept \in Rows
  BY DEF SyncLabels, NoRows, Rows
<1>3. sync' = [sync EXCEPT ![i] = r]
  BY DEF TypeOK, Fetched
<1>4. \/ at = "extend" /\ kept = rows
      \/ at = "test" /\ kept = NoRows
  OBVIOUS
<1> HIDE DEF at, kept
<1>5. /\ r \in SyncState
      /\ r.at = at /\ r.next = 1 /\ r.dbStates = kept
  BY <1>1, <1>2 DEF SyncState
<1> HIDE DEF r
<1> QED
  BY <1>3, <1>4, <1>5

\* The table is fetched, or the fetch fails and returns no rows.
LEMMA FetchKeepsSound ==
  ASSUME SyncInv, NEW i \in Instances, SyncFetch(i) \/ SyncFetchFails(i)
  PROVE  KeepsSound(i)
<1> USE DEF SyncInv
<1>1. CASE SyncFetch(i)
  <2>1. PICK r \in SyncState :
          /\ sync' = [sync EXCEPT ![i] = r]
          /\ r.next = 1
          /\ \/ r.at = "extend" /\ r.dbStates = table
             \/ r.at = "test" /\ r.dbStates = NoRows
    BY <1>1, FetchedState DEF SyncFetch, TypeOK
  <2>2. failures' \in 0..MaxFailures
    BY <1>1 DEF SyncFetch, TypeOK
  <2> QED
    BY <1>1, <2>1, <2>2, ThreadStepKeepsSound DEF SyncFetch, NoRows
<1>2. CASE SyncFetchFails(i)
  <2>1. PICK r \in SyncState :
          /\ sync' = [sync EXCEPT ![i] = r]
          /\ r.next = 1
          /\ r.at \in {"extend", "test"} /\ r.dbStates = NoRows
    BY <1>2, FetchedState DEF SyncFetchFails, NoRows, Rows
  <2>2. failures' \in 0..MaxFailures
    BY <1>2, MaxFailuresAssumption DEF TypeOK, SyncFetchFails, Fails
  <2> QED
    BY <1>2, <2>1, <2>2, ThreadStepKeepsSound DEF SyncFetchFails, NoRows
<1> QED
  BY <1>1, <1>2

\* No unknown row is left: the thread sleeps.
LEMMA SleepKeepsSound ==
  ASSUME SyncInv, NEW i \in Instances, SyncSleep(i)
  PROVE  KeepsSound(i)
<1> USE DEF SyncInv
<1> DEFINE r == [sync[i] EXCEPT !.at = "test", !.dbStates = NoRows]
<1>1. sync[i] \in SyncState /\ sync[i].next = 1 /\ sync[i].at = "extend"
  BY DEF TypeOK, SyncSleep, SyncState, Sound, ThreadInLoop
<1>2. sync' = [sync EXCEPT ![i] = r] /\ failures' \in 0..MaxFailures
  BY DEF SyncSleep, TypeOK
<1>3. r \in SyncState /\ r.at = "test" /\ r.next = 1 /\ r.dbStates = NoRows
  BY <1>1 DEF SyncState, SyncLabels, NoRows, Rows
<1> HIDE DEF r
<1> QED
  BY <1>1, <1>2, <1>3, ThreadStepKeepsSound DEF SyncSleep, NoRows

\* The car that is added has the id of a row and of no car of the vector, so
\* it is none of the instance's own.
LEMMA AddCarKeepsSound ==
  ASSUME SyncInv, NEW i \in Instances, SyncAddCar(i)
  PROVE  KeepsSound(i)
<1> USE DEF SyncInv, mainVars
<1> DEFINE new == Min(Unknown(i))
           left == [sync[i].dbStates EXCEPT ![new] = Absent]
           r == [sync[i] EXCEPT !.dbStates = left]
           car == Car(new, sync[i].dbStates[new], TRUE)
<1>1. new \in Unknown(i)
  BY LeastUnknown DEF SyncAddCar
<1>2. /\ sync[i].at = "extend"
      /\ fleet' = [fleet EXCEPT ![i] = Append(fleet[i], car)]
      /\ sync' = [sync EXCEPT ![i].dbStates[new] = Absent]
      /\ UNCHANGED <<table, mainVars, failures>>
  BY DEF SyncAddCar, TypeOK
<1> HIDE DEF new
<1>3. sync[i] \in SyncState /\ fleet[i] \in Seq(CarObjects) /\ DOMAIN fleet[i] = 1..Len(fleet[i])
  BY DEF TypeOK, SyncState
<1>4. /\ new \in Ids /\ sync[i].dbStates[new] \in Floors
      /\ \A n \in DOMAIN fleet[i] : fleet[i][n].id # new
      /\ car \in CarObjects /\ car.id = new
  BY <1>1, <1>3 DEF Unknown, Cars, SyncState, Rows, Car, CarObjects
<1> HIDE DEF car
<1>5. sync' = [sync EXCEPT ![i] = r]
  BY <1>2 DEF TypeOK
<1>6. left \in Rows /\ \A id \in Ids : left[id] # Absent => sync[i].dbStates[id] # Absent
  BY <1>3 DEF SyncState, Rows
<1> HIDE DEF left
<1>7. /\ r \in SyncState
      /\ r.at = "extend" /\ r.next = sync[i].next /\ r.dbStates = left
  BY <1>2, <1>3, <1>6 DEF SyncState
<1> HIDE DEF r
<1>8. sync'[i] = r /\ \A j \in Instances \ {i} : sync'[j] = sync[j]
  BY <1>5 DEF TypeOK
<1>9. /\ fleet'[i] = Append(fleet[i], car)
      /\ \A j \in Instances \ {i} : fleet'[j] = fleet[j]
      /\ fleet'[i] \in Seq(CarObjects) /\ DOMAIN fleet'[i] = 1..(Len(fleet[i]) + 1)
      /\ \A n \in DOMAIN fleet[i] : n \in DOMAIN fleet'[i] /\ fleet'[i][n] = fleet[i][n]
      /\ \A n \in DOMAIN fleet'[i] : n \in DOMAIN fleet[i] \/ fleet'[i][n] = car
      /\ \A n \in DOMAIN fleet'[i] : n \in DOMAIN fleet[i] \/ n = Len(fleet[i]) + 1
  <2>1. fleet'[i] = Append(fleet[i], car) /\ Len(fleet[i]) \in Nat
    BY <1>2, <1>3 DEF TypeOK
  <2>2. \A j \in Instances \ {i} : fleet'[j] = fleet[j]
    BY <1>2 DEF TypeOK
  <2> QED
    BY <1>3, <1>4, <2>1, <2>2
<1>10. TypeOK'
  <2>1. fleet' \in [Instances -> Seq(CarObjects)]
    BY <1>2, <1>4, <1>9 DEF TypeOK
  <2>2. sync' \in [Instances -> SyncState]
    BY <1>5, <1>7 DEF TypeOK, SyncState
  <2> QED
    BY <1>2, <2>1, <2>2 DEF TypeOK, SyncState
<1>11. phase[i] # "off" /\ new >= Built[i]
  <2>1. phase[i] # "off"
    BY <1>2 DEF Sound, ThreadInLoop
  <2>2. \A n \in 1..Built[i] : new # n - 1
    BY <1>4, <2>1 DEF Sound, FleetBegins
  <2>3. new \in Nat /\ Built[i] \in Nat
    BY <1>4, IdsAreBuilt, BuiltAssumption
  <2>4. new < Built[i] => new + 1 \in 1..Built[i] /\ new = (new + 1) - 1
    BY <2>3
  <2> QED
    BY <2>1, <2>2, <2>3, <2>4
<1>12. FleetBegins(i)'
  <2>1. \A n \in 1..Built[i] : n \in DOMAIN fleet'[i] /\ fleet'[i][n].id = n - 1
    BY <1>9, <1>11 DEF Sound, FleetBegins
  <2>2. ASSUME NEW m \in DOMAIN fleet'[i], NEW n \in DOMAIN fleet'[i], fleet'[i][m].id = fleet'[i][n].id
        PROVE  m = n
    BY <1>4, <1>9, <2>2 DEF Sound, FleetBegins
  <2> QED
    BY <1>2, <1>11, <2>1, <2>2 DEF FleetBegins
<1>13. RowsStay(i)'
  <2>1. table[new] # Absent
    BY <1>4, AbsentAssumption DEF Sound, RowsStay
  <2>2. \A id \in Ids : sync'[i].dbStates[id] # Absent => table'[id] # Absent
    BY <1>2, <1>6, <1>7, <1>8 DEF Sound, RowsStay
  <2>3. ASSUME NEW n \in DOMAIN fleet'[i]
        PROVE  fleet'[i][n].id < Built[i] \/ table'[fleet'[i][n].id] # Absent
    <3>1. CASE n \in DOMAIN fleet[i]
      BY <1>2, <1>9, <3>1 DEF Sound, RowsStay
    <3>2. CASE fleet'[i][n] = car
      BY <1>2, <1>4, <2>1, <3>2
    <3> QED
      BY <1>9, <3>1, <3>2
  <2> QED
    BY <1>7, <1>8, <2>2, <2>3 DEF RowsStay
<1>14. ThreadInLoop(i)'
  BY <1>2, <1>7, <1>8 DEF Sound, ThreadInLoop
<1>15. TableGrows /\ \A j \in Instances \ {i} : SameAt(j)
  BY <1>2, <1>8, <1>9 DEF TableGrows, SameAt
<1> QED
  BY <1>10, <1>12, <1>13, <1>14, <1>15 DEF KeepsSound, Sound

-----------------------------------------------------------------------------
\* The invariant holds before any process begins, and every step of every
\* instance keeps it for all of them.
LEMMA InductiveInvariant == Spec => []SyncInv
<1>1. Init => SyncInv
  <2> SUFFICES ASSUME Init PROVE SyncInv
    OBVIOUS
  <2>1. GroundFloor \in Floors /\ 1 \in 1..Cardinality(Ids)
    <3>1. \E i \in Instances : GroundFloor \in FloorsOf[i]
      BY LargestAssumption, GroundFloorAssumption
    <3> QED
      BY <3>1, FloorsOfAssumption, IdsAreBuilt, FS_Interval
  <2>2. SyncOff \in SyncState /\ NoRows \in Rows
    BY <2>1 DEF SyncOff, SyncState, SyncLabels, NoRows, Rows
  <2>3. TypeOK
    BY <2>1, <2>2, MaxFailuresAssumption DEF Init, TypeOK, Phases, SyncState
  <2>4. ASSUME NEW i \in Instances PROVE Sound(i)
    BY DEF Init, Sound, FleetBegins, RowsStay, ThreadInLoop, SyncOff, NoRows
  <2> QED
    BY <2>3, <2>4 DEF SyncInv
<1>2. SyncInv /\ [Next]_vars => SyncInv'
  <2> SUFFICES ASSUME SyncInv, [Next]_vars PROVE SyncInv'
    OBVIOUS
  <2>1. CASE UNCHANGED vars
    BY <2>1 DEF SyncInv, TypeOK, Sound, FleetBegins, RowsStay, ThreadInLoop,
                vars, mainVars
  <2>2. CASE Next
    <3>1. PICK i \in Instances :
            \/ Build(i) \/ Start(i) \/ BeginStop(i) \/ StopCars(i) \/ JoinSync(i) \/ End(i)
            \/ SyncStep(i)
            \/ \E who \in Scanners : BeginScan(i, who) \/ EndScan(i, who)
            \/ \E n \in DOMAIN fleet[i] : MoveCar(i, n)
      BY <2>2 DEF Next
    <3>2. CASE SyncStep(i)
      BY <3>2, TestAndReadKeepSound, WriteKeepsSound, FetchKeepsSound, SleepKeepsSound,
         AddCarKeepsSound, OthersStaySound DEF SyncStep
    <3> QED
      BY <3>1, <3>2, BuildKeepsSound, StartKeepsSound, StopKeepsSound,
         StopCarsKeepsSound, EndKeepsSound,
         MoveKeepsSound, ScanKeepsSound, OthersStaySound
  <2> QED
    BY <2>1, <2>2
<1> QED
  BY <1>1, <1>2, PTL DEF Spec

\* The variables keep their types: no loop index leaves the vector, and no
\* vector grows beyond the ids there are.
THEOREM TypeCorrect == Spec => []TypeOK
<1>1. SyncInv => TypeOK
  BY DEF SyncInv
<1> QED
  BY <1>1, InductiveInvariant, PTL

\* Whatever the other instances write, and whatever those that ran before have
\* left, an instance has no car twice, and none but its own and those of the
\* rows (ElevatorController.cpp:265-286).
THEOREM NoCarTwice == Spec => []FleetIsSound
<1>1. SyncInv => FleetIsSound
  <2> SUFFICES ASSUME SyncInv, NEW i \in Instances
               PROVE  /\ \A m, n \in DOMAIN fleet[i] : fleet[i][m].id = fleet[i][n].id => m = n
                      /\ \A id \in Cars(i) : id < Built[i] \/ table[id] # Absent
    BY DEF FleetIsSound
  <2>1. FleetBegins(i) /\ RowsStay(i)
    BY DEF SyncInv, Sound
  <2> QED
    BY <2>1 DEF FleetBegins, RowsStay, Cars
<1> QED
  BY <1>1, InductiveInvariant, PTL

\* No transaction finds the connection closed: stop closes it after it has
\* joined the sync thread (ElevatorController.cpp:81-91).
THEOREM SyncStaysConnected == Spec => []SyncHasConnection
<1>1. SyncInv => SyncHasConnection
  BY DEF SyncInv, Sound, ThreadInLoop, SyncHasConnection
<1> QED
  BY <1>1, InductiveInvariant, PTL
=============================================================================
