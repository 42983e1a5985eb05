--------------------------- MODULE DispatchProofs ---------------------------
(***************************************************************************)
(* For every number of floors and of cars, and whatever is read of each    *)
(* car, the loop of findBestElevator returns the car that DispatchScan's   *)
(* properties describe, and go keeps the promise that GoCommand states.    *)
(***************************************************************************)
EXTENDS GoCommand, TLAPS

\* A distance between floors is at most NumFloors - 1: what makes the idle
\* advantage and the penalty of calculateDistance decisive.
LEMMA DistanceBounds ==
  ASSUME NEW a \in Floors, NEW b \in Floors
  PROVE  FloorsBetween(a, b) \in 0..(NumFloors - 1)
BY FloorsAssumption DEF Floors, FloorsBetween

LEMMA CostIsInt ==
  ASSUME NEW car \in Snapshot, NEW f \in Floors
  PROVE  CalculateDistance(car, f) \in Int /\ Cost(car, f) \in Int
<1>1. FloorsBetween(car.floor, f) \in Int /\ NumFloors \in Int
  BY DistanceBounds, FloorsAssumption DEF Snapshot
<1>2. CalculateDistance(car, f) \in Int
  BY <1>1 DEF CalculateDistance
<1> QED
  BY <1>1, <1>2 DEF Cost

\* The loop begins, and each iteration leaves it, with variables of their types.
LEMMA InitScanType ==
  ASSUME Init PROVE TypeOK
<1>1. 0..(next - 1) = {}
  BY DEF Init
<1>2. fleet \in [0..(next - 1) -> Snapshot]
  BY <1>1 DEF Init
<1> QED
  BY <1>2, ElevatorsAssumption DEF Init, TypeOK, EmptyScan, NoCar

LEMMA IterateKeepsType ==
  ASSUME TypeOK, Iterate PROVE TypeOK'
<1>1. next \in Elevators /\ next + 1 \in 0..NumElevators /\ next \in Nat
  BY ElevatorsAssumption DEF TypeOK, Iterate, Elevators
<1>2. PICK car \in Snapshot :
        /\ fleet' = [e \in 0..next |-> IF e = next THEN car ELSE fleet[e]]
        /\ scan' = Consider(scan, next, car, floor)
  BY DEF Iterate
<1>3. Cost(car, floor) \in Int
  BY CostIsInt DEF TypeOK
<1>4. scan' \in [best : Elevators \cup {NoCar}, shortest : Int]
  BY <1>1, <1>2, <1>3 DEF TypeOK, Consider
<1>5. next' = next + 1 /\ (next + 1) - 1 = next
  BY <1>1 DEF Iterate
<1>6. \A e \in 0..next : e # next => e \in 0..(next - 1)
  BY <1>1
<1>7. fleet' \in [0..(next' - 1) -> Snapshot]
  BY <1>2, <1>5, <1>6 DEF TypeOK
<1> QED
  BY <1>1, <1>4, <1>5, <1>7 DEF TypeOK, Iterate

\* The variables of the loop keep their types: shortestDistance stays an
\* integer and bestElevator a car of the vector or nullptr.
THEOREM ScanTypeCorrect == Spec => []TypeOK
<1>1. Init => TypeOK
  BY InitScanType
<1>2. TypeOK /\ [Next]_vars => TypeOK'
  BY IterateKeepsType DEF Next, TypeOK, vars
<1> QED
  BY <1>1, <1>2, PTL DEF Spec

\* Before the first iteration there is no car to choose.
LEMMA InitScan ==
  ASSUME Init PROVE ScanInvariant
<1>1. DOMAIN fleet = {}
  BY DEF Init
<1>2. Available = {} /\ scan.best = NoCar
  BY <1>1 DEF Init, Available, EmptyScan
<1> QED
  BY <1>2 DEF ScanInvariant, IsBest

\* One iteration extends the choice to the car it has read: of the cars passed
\* before it, none changes in what was read.
LEMMA IterateKeepsScan ==
  ASSUME TypeOK, ScanInvariant, Iterate PROVE ScanInvariant'
<1>1. PICK car \in Snapshot :
        /\ fleet' = [e \in 0..next |-> IF e = next THEN car ELSE fleet[e]]
        /\ scan' = Consider(scan, next, car, floor)
  BY DEF Iterate
<1> DEFINE cost == Cost(car, floor)
           After(e) == Cost(fleet'[e], floor')
<1>2. next \in Nat /\ floor' = floor /\ DOMAIN fleet = 0..(next - 1) /\ DOMAIN fleet' = 0..next
  BY <1>1 DEF TypeOK, Iterate
<1>3. cost \in Int
  BY CostIsInt DEF TypeOK
<1>4. \A e \in 0..(next - 1) : CostOf(e) \in Int /\ After(e) = CostOf(e) /\ e \in Nat /\ e < next
  <2> TAKE e \in 0..(next - 1)
  <2>1. fleet[e] \in Snapshot /\ e \in Nat /\ e < next
    BY <1>2 DEF TypeOK
  <2>2. fleet'[e] = fleet[e]
    BY <1>1, <1>2, <2>1
  <2> QED
    BY <2>1, <2>2, <1>2, CostIsInt DEF TypeOK, CostOf
<1>5. fleet'[next] = car /\ After(next) = cost
  BY <1>1, <1>2
<1>6. Available' = Available \cup (IF car.emergencyStop THEN {} ELSE {next})
  <2>1. \A e \in 0..next : e # next => e \in 0..(next - 1) /\ fleet'[e] = fleet[e]
    BY <1>1, <1>2
  <2>2. \A e \in 0..(next - 1) : e \in 0..next /\ e # next
    BY <1>2
  <2> QED
    BY <1>2, <1>5, <2>1, <2>2 DEF Available
<1>7. Available \subseteq 0..(next - 1)
  BY <1>2 DEF Available
<1>8. NoCar \notin Available /\ NoCar # next /\ next \notin Available
  BY <1>2, <1>7 DEF NoCar
<1>9. /\ scan.best = NoCar => Available = {}
      /\ scan.best # NoCar =>
           /\ scan.best \in Available
           /\ scan.shortest = CostOf(scan.best)
           /\ \A f \in Available : CostOf(scan.best) <= CostOf(f)
           /\ \A f \in Available : CostOf(f) = CostOf(scan.best) => scan.best <= f
  BY <1>8 DEF ScanInvariant, IsBest
<1>10. SUFFICES ASSUME Available' # {}
                PROVE  /\ scan'.best \in Available' /\ scan'.best # NoCar
                       /\ scan'.shortest = After(scan'.best)
                       /\ \A f \in Available' : After(scan'.best) <= After(f)
                       /\ \A f \in Available' : After(f) = After(scan'.best) => scan'.best <= f
  <2>1. ASSUME Available' = {} PROVE scan'.best = NoCar
    <3>1. Available = {} /\ car.emergencyStop
      BY <2>1, <1>6
    <3>2. scan' = scan
      BY <3>1, <1>1 DEF Consider, Better
    <3> QED
      BY <3>1, <3>2, <1>9
  <2> QED
    BY <2>1 DEF ScanInvariant, IsBest, CostOf
<1>11. CASE Better(scan, car, floor)
  <2>1. scan'.best = next /\ scan'.shortest = cost /\ Available' = Available \cup {next}
    BY <1>1, <1>6, <1>11 DEF Better, Consider
  <2>2. \A f \in Available : cost < CostOf(f)
    <3> TAKE f \in Available
    <3>1. scan.best # NoCar /\ cost < scan.shortest
      BY <1>9, <1>11 DEF Better
    <3>2. scan.best \in 0..(next - 1) /\ f \in 0..(next - 1) /\ CostOf(scan.best) <= CostOf(f)
      BY <3>1, <1>7, <1>9
    <3> QED
      BY <3>1, <3>2, <1>3, <1>4, <1>9
  <2>3. \A f \in Available : After(f) = CostOf(f) /\ CostOf(f) \in Int
    BY <1>4, <1>7
  <2> HIDE DEF cost, After
  <2>4. \A f \in Available' : cost <= After(f) /\ (After(f) = cost => next <= f)
    BY <2>1, <2>2, <2>3, <1>2, <1>3, <1>5
  <2> QED
    BY <2>1, <2>4, <1>5, <1>8
<1>12. CASE ~Better(scan, car, floor)
  <2>1. scan' = scan
    BY <1>1, <1>12 DEF Consider
  <2>2. scan.best # NoCar
    BY <1>6, <1>9, <1>10, <1>12 DEF Better
  <2>3. car.emergencyStop \/ ~(cost < scan.shortest)
    BY <2>2, <1>12 DEF Better
  <2> HIDE DEF cost, After
  <2>4. /\ scan.best \in Available /\ scan.best \in 0..(next - 1)
        /\ After(scan.best) = CostOf(scan.best) /\ CostOf(scan.best) \in Int
        /\ scan.shortest = CostOf(scan.best)
    BY <2>2, <1>4, <1>7, <1>9
  <2>5. \A f \in Available' : CostOf(scan.best) <= After(f)
    <3> TAKE f \in Available'
    <3>1. CASE f \in Available
      BY <3>1, <2>2, <1>4, <1>7, <1>9
    <3>2. CASE f = next /\ ~car.emergencyStop
      BY <3>2, <2>3, <2>4, <1>3, <1>5
    <3> QED
      BY <3>1, <3>2, <1>6
  <2>6. \A f \in Available' : After(f) = CostOf(scan.best) => scan.best <= f
    <3> TAKE f \in Available'
    <3>1. CASE f \in Available
      BY <3>1, <2>2, <1>4, <1>7, <1>9
    <3>2. CASE f = next
      BY <3>2, <2>4, <1>2, <1>4
    <3> QED
      BY <3>1, <3>2, <1>6
  <2> QED
    BY <2>1, <2>2, <2>4, <2>5, <2>6, <1>6
<1> QED
  BY <1>11, <1>12

\* Nothing of what the loop knows changes as long as its variables do not.
LEMMA ScanFrame ==
  ASSUME ScanInvariant, UNCHANGED <<fleet, floor, next, scan>>
  PROVE  ScanInvariant'
BY DEF ScanInvariant, IsBest, Available, CostOf

\* After every iteration the choice is the best of the cars passed so far.
LEMMA ScanInvariantHolds == Spec => []ScanInvariant
<1>1. Init => ScanInvariant
  BY InitScan
<1>2. TypeOK /\ ScanInvariant /\ [Next]_vars => ScanInvariant'
  BY IterateKeepsScan, ScanFrame DEF Next, vars
<1> QED
  BY <1>1, <1>2, ScanTypeCorrect, PTL DEF Spec

-----------------------------------------------------------------------------
\* When the loop is over, it has passed every car.
LEMMA ScanAnswersBest ==
  ASSUME ScanInvariant PROVE PicksCheapestCar
BY DEF ScanInvariant, PicksCheapestCar

\* What was read of a car that could be chosen.
LEMMA ReadingIsSnapshot ==
  ASSUME TypeOK, NEW e \in Available PROVE fleet[e] \in Snapshot /\ floor \in Floors
BY DEF TypeOK, Available

\* findBestElevator returns a cheapest car that is not stopped, the first
\* among equals, and nullptr only when all are stopped.
THEOREM PicksCheapest == Spec => []PicksCheapestCar
BY ScanAnswersBest, ScanInvariantHolds, PTL

\* An idle car beats every car that is not, whatever the distances: the
\* advantage NumFloors is exactly large enough.
LEMMA IdleBeatsBusy ==
  ASSUME NEW a \in Snapshot, NEW b \in Snapshot, NEW f \in Floors,
         a.status = "IDLE", b.status # "IDLE"
  PROVE  Cost(a, f) < Cost(b, f)
<1> DEFINE da == FloorsBetween(a.floor, f)
           db == FloorsBetween(b.floor, f)
<1>1. da \in 0..(NumFloors - 1) /\ db \in 0..(NumFloors - 1) /\ NumFloors \in Nat /\ NumFloors >= 2
  BY DistanceBounds, FloorsAssumption DEF Snapshot
<1>2. Cost(a, f) = da - NumFloors
  <2>1. ~MovingAway(a, f)
    BY DEF MovingAway
  <2> HIDE DEF da
  <2>2. CalculateDistance(a, f) = da
    BY <1>1, <2>1 DEF CalculateDistance, da
  <2> QED
    BY <2>2, <1>1 DEF Cost
<1>3. Cost(b, f) >= db
  <2> HIDE DEF db
  <2>1. CalculateDistance(b, f) = db \/ CalculateDistance(b, f) = db + 2 * (NumFloors - 1)
    BY <1>1 DEF CalculateDistance, db
  <2>2. Cost(b, f) = CalculateDistance(b, f)
    BY <2>1, <1>1 DEF Cost
  <2> QED
    BY <2>1, <2>2, <1>1
<1>4. Cost(b, f) \in Int
  BY CostIsInt
<1> HIDE DEF da, db
<1> QED
  BY <1>1, <1>2, <1>3, <1>4

\* A car that is not moving away beats every car that is, as long as neither
\* is idle or the better one is: 2 * (NumFloors - 1) outweighs any distance.
LEMMA AwayLosesToOther ==
  ASSUME NEW a \in Snapshot, NEW b \in Snapshot, NEW f \in Floors,
         ~MovingAway(a, f), MovingAway(b, f)
  PROVE  Cost(a, f) < Cost(b, f)
<1> DEFINE da == FloorsBetween(a.floor, f)
           db == FloorsBetween(b.floor, f)
<1>1. da \in 0..(NumFloors - 1) /\ db \in 0..(NumFloors - 1) /\ NumFloors \in Nat /\ NumFloors >= 2
  BY DistanceBounds, FloorsAssumption DEF Snapshot
<1>2. Cost(a, f) <= da
  <2> HIDE DEF da
  <2>1. CalculateDistance(a, f) = da
    BY <1>1 DEF CalculateDistance, da
  <2> QED
    BY <2>1, <1>1 DEF Cost
<1>3. Cost(b, f) = db + 2 * (NumFloors - 1)
  <2>1. b.status # "IDLE"
    BY DEF MovingAway
  <2> HIDE DEF db
  <2>2. CalculateDistance(b, f) = db + 2 * (NumFloors - 1)
    BY <1>1 DEF CalculateDistance, db
  <2> QED
    BY <2>1, <2>2, <1>1 DEF Cost
<1>4. b.floor # f
  BY FloorsAssumption DEF MovingAway, Floors
<1>5. db >= 1
  BY <1>4 DEF Snapshot, Floors, FloorsBetween
<1>6. Cost(a, f) \in Int
  BY CostIsInt
<1> HIDE DEF da, db
<1> QED
  BY <1>1, <1>2, <1>3, <1>5, <1>6

\* The best car is idle when an available one is.
LEMMA BestIsIdle ==
  ASSUME TypeOK, PicksCheapestCar PROVE IdleCarFirst
<1> SUFFICES ASSUME Done,
                    NEW e \in Available, fleet[e].status = "IDLE"
             PROVE  fleet[scan.best].status = "IDLE"
  BY DEF IdleCarFirst
<1>1. scan.best \in Available /\ CostOf(scan.best) <= CostOf(e)
  BY DEF PicksCheapestCar, IsBest
<1>2. fleet[e] \in Snapshot /\ fleet[scan.best] \in Snapshot /\ floor \in Floors
  BY <1>1, ReadingIsSnapshot
<1>3. SUFFICES ASSUME fleet[scan.best].status # "IDLE" PROVE FALSE
  OBVIOUS
<1>4. CostOf(e) < CostOf(scan.best)
  BY <1>2, <1>3, IdleBeatsBusy DEF CostOf
<1>5. CostOf(e) \in Int /\ CostOf(scan.best) \in Int
  BY <1>2, CostIsInt DEF CostOf
<1> QED
  BY <1>1, <1>4, <1>5

\* When an available car is idle, the car that findBestElevator returns is.
THEOREM IdleFirst == Spec => []IdleCarFirst
BY BestIsIdle, ScanTypeCorrect, PicksCheapest, PTL

\* The best car moves away only when all that are available do.
LEMMA BestIsNotAway ==
  ASSUME TypeOK, PicksCheapestCar PROVE AwayCarLast
<1> SUFFICES ASSUME Done, scan.best # NoCar,
                    MovingAway(fleet[scan.best], floor), NEW e \in Available
             PROVE  MovingAway(fleet[e], floor)
  BY DEF AwayCarLast
<1>1. scan.best \in Available /\ CostOf(scan.best) <= CostOf(e)
  BY DEF PicksCheapestCar, IsBest
<1>2. fleet[e] \in Snapshot /\ fleet[scan.best] \in Snapshot /\ floor \in Floors
  BY <1>1, ReadingIsSnapshot
<1>3. SUFFICES ASSUME ~MovingAway(fleet[e], floor) PROVE FALSE
  OBVIOUS
<1>4. CostOf(e) < CostOf(scan.best)
  BY <1>2, <1>3, AwayLosesToOther DEF CostOf
<1>5. CostOf(e) \in Int /\ CostOf(scan.best) \in Int
  BY <1>2, CostIsInt DEF CostOf
<1> QED
  BY <1>1, <1>4, <1>5

\* The car that findBestElevator returns moves away from the call only when
\* every available car does.
THEOREM AwayLast == Spec => []AwayCarLast
BY BestIsNotAway, ScanTypeCorrect, PicksCheapest, PTL

-----------------------------------------------------------------------------
(* GoCommand: the same loop after a command has looked over the cars.      *)

\* The dispatcher's loop has not begun while the command looks.
NotScanning == phase = "look" => next = 0 /\ scan = EmptyScan

\* A call names no car; the trip of go begins where the command saw the car it
\* names.
NamedCar ==
  promised.best # NoCar =>
    /\ command # "call"
    /\ phase = "dispatch" => floor = promised.floor

\* A promise names a car of the vector.
LEMMA PromiseNamesCar ==
  /\ NoPromise.best = NoCar
  /\ \A p \in Promises : p.best \in Elevators /\ p.best # NoCar /\ p.floor \in Floors
BY ElevatorsAssumption DEF NoPromise, Promises, Elevators, NoCar

GoInv == GoTypeOK /\ ScanInvariant /\ NotScanning /\ NamedCar

\* The command begins in the invariant.
LEMMA GoInvInit == GoInit => GoInv
<1> SUFFICES ASSUME GoInit PROVE GoInv
  OBVIOUS
<1>1. TypeOK /\ ScanInvariant
  BY InitScanType, InitScan DEF GoInit
<1>2. GoTypeOK
  BY <1>1, ElevatorsAssumption DEF GoInit, GoTypeOK
<1>3. NotScanning /\ NamedCar
  BY PromiseNamesCar DEF GoInit, Init, NotScanning, NamedCar
<1> QED
  BY <1>1, <1>2, <1>3 DEF GoInv

\* One car after another, the command remembers a car of the vector, a distance
\* and a floor.
LEMMA LookKeeps ==
  ASSUME GoInv, Look PROVE GoInv'
<1>1. looked \in Elevators /\ looked + 1 \in 0..NumElevators
  BY ElevatorsAssumption DEF GoInv, GoTypeOK, Look, Elevators
<1>2. PICK at \in Floors, status \in ElevatorStatus :
        promised' = IF Preferred(at, status)
                    THEN [best |-> looked,
                          shortest |-> FloorsBetween(at, target), floor |-> at]
                    ELSE promised
  BY DEF Look
<1>3. FloorsBetween(at, target) \in Nat
  BY DistanceBounds, FloorsAssumption DEF GoInv, GoTypeOK
<1>4. promised' \in Promises \cup {NoPromise}
  BY <1>1, <1>2, <1>3 DEF GoInv, GoTypeOK, Promises
<1>5. GoTypeOK'
  BY <1>1, <1>4 DEF GoInv, GoTypeOK, TypeOK, Look, vars
<1>6. ScanInvariant'
  BY ScanFrame DEF GoInv, Look, vars
<1>7. NotScanning' /\ NamedCar'
  BY DEF GoInv, NotScanning, NamedCar, Look, vars
<1> QED
  BY <1>5, <1>6, <1>7 DEF GoInv

\* The request that Call and Ask hand over has a floor of the building; the
\* dispatcher's loop, which has not begun, knows nothing that depends on it.
LEMMA AskKeeps ==
  ASSUME GoInv, Ask \/ Call PROVE GoInv'
<1>1. next = 0 /\ scan = EmptyScan
  BY DEF GoInv, NotScanning, Ask, Call
<1>2. floor' \in Floors
  <2>1. CASE Ask
    BY <2>1, PromiseNamesCar DEF GoInv, GoTypeOK, Ask
  <2>2. CASE Call
    BY <2>2 DEF GoInv, GoTypeOK, Call
  <2> QED
    BY <2>1, <2>2
<1>3. UNCHANGED <<fleet, next, scan, command, target, looked, promised>> /\ phase' = "dispatch"
  BY DEF Ask, Call
<1>4. GoTypeOK'
  BY <1>2, <1>3 DEF GoInv, GoTypeOK, TypeOK
<1>5. ScanInvariant'
  <2>1. Available = {} /\ Available' = {}
    BY <1>1, <1>3 DEF GoInv, GoTypeOK, TypeOK, Available
  <2> QED
    BY <1>1, <1>3, <2>1 DEF ScanInvariant, IsBest, EmptyScan
<1>6. NotScanning'
  BY <1>3 DEF NotScanning
<1>7. NamedCar'
  <2>1. CASE Ask
    BY <2>1, <1>3 DEF NamedCar, Ask
  <2>2. CASE Call
    BY <2>2, <1>3 DEF GoInv, NamedCar, Call
  <2> QED
    BY <2>1, <2>2
<1> QED
  BY <1>4, <1>5, <1>6, <1>7 DEF GoInv

\* GoInv is inductive.
LEMMA GoInvStep == GoInv /\ [GoNext]_goVars => GoInv'
<1> SUFFICES ASSUME GoInv, [GoNext]_goVars PROVE GoInv'
  OBVIOUS
<1>1. CASE Look
  BY <1>1, LookKeeps
<1>2. CASE Ask \/ Call
  BY <1>2, AskKeeps
<1>3. CASE NoneFree
  <2>1. ScanInvariant'
    BY <1>3, ScanFrame DEF GoInv, NoneFree, vars
  <2> QED
    BY <1>3, <2>1 DEF GoInv, GoTypeOK, TypeOK, NotScanning, NamedCar, NoneFree, vars
<1>4. CASE DispatchNext
  <2>1. TypeOK' /\ ScanInvariant'
    BY <1>4, IterateKeepsType, IterateKeepsScan DEF GoInv, GoTypeOK, DispatchNext
  <2>2. UNCHANGED <<floor, command, target, looked, promised, phase>> /\ phase # "look"
    BY <1>4 DEF DispatchNext, Iterate
  <2> QED
    BY <2>1, <2>2 DEF GoInv, GoTypeOK, NotScanning, NamedCar
<1>5. CASE UNCHANGED goVars
  <2>1. ScanInvariant'
    BY <1>5, ScanFrame DEF GoInv, goVars, vars
  <2> QED
    BY <1>5, <2>1 DEF GoInv, GoTypeOK, TypeOK, NotScanning, NamedCar, goVars, vars
<1> QED
  BY <1>1, <1>2, <1>3, <1>4, <1>5 DEF GoNext

\* Every command keeps its variables of their types: the car it names is one
\* of the vector, and the request it makes has floors of the building.
THEOREM GoTypeCorrect == GoSpec => []GoTypeOK
<1>1. GoInv => GoTypeOK
  BY DEF GoInv
<1> QED
  BY <1>1, GoInvInit, GoInvStep, PTL DEF GoSpec

\* Whatever command asked for it, the dispatcher's answer is the best car.
THEOREM GoPicksCheapest == GoSpec => [](PicksCheapestCar /\ IdleCarFirst /\ AwayCarLast)
<1>1. GoInv => PicksCheapestCar /\ IdleCarFirst /\ AwayCarLast
  BY ScanAnswersBest, BestIsIdle, BestIsNotAway DEF GoInv, GoTypeOK
<1> QED
  BY <1>1, GoInvInit, GoInvStep, PTL DEF GoSpec

\* The least cost of all: that of an idle car at the floor of the request.
LEMMA LeastCost ==
  ASSUME NEW a \in Snapshot, NEW b \in Snapshot, NEW f \in Floors,
         a.status = "IDLE", a.floor = f, Cost(b, f) <= Cost(a, f)
  PROVE  b.status = "IDLE" /\ b.floor = f
<1>1. b.status = "IDLE"
  <2> SUFFICES ASSUME b.status # "IDLE" PROVE FALSE
    OBVIOUS
  <2>1. Cost(a, f) < Cost(b, f)
    BY IdleBeatsBusy
  <2> QED
    BY <2>1, CostIsInt
<1>2. ~MovingAway(a, f) /\ ~MovingAway(b, f)
  BY <1>1 DEF MovingAway
<1>3. NumFloors \in Int /\ f \in Int /\ b.floor \in Int
  BY FloorsAssumption DEF Floors, Snapshot
<1>4. Cost(a, f) = 0 - NumFloors
  BY <1>2, <1>3 DEF Cost, CalculateDistance, FloorsBetween
<1>5. FloorsBetween(b.floor, f) \in Nat /\ (FloorsBetween(b.floor, f) = 0 => b.floor = f)
  BY <1>3 DEF FloorsBetween
<1>6. Cost(b, f) = FloorsBetween(b.floor, f) - NumFloors
  BY <1>1, <1>2, <1>3, <1>5 DEF Cost, CalculateDistance
<1> QED
  BY <1>1, <1>3, <1>4, <1>5, <1>6

\* A passenger who is told of an idle car is sent an idle car of that floor,
\* whatever the cars did before the dispatcher reads them, as long as it finds
\* the named car as the command saw it: the trip of go begins where the named
\* car stood, and nothing costs less than an idle car at the very floor.
THEOREM GoKeepsPromise == GoSpec => []IdlePromiseKept
<1>1. GoInv => IdlePromiseKept
  <2> SUFFICES ASSUME GoInv, Answered, PromiseStillGood
               PROVE  /\ scan.best # NoCar
                      /\ fleet[scan.best].status = "IDLE"
                      /\ fleet[scan.best].floor = promised.floor
    BY DEF IdlePromiseKept
  <2>1. promised.best \in Elevators /\ floor = promised.floor
    BY PromiseNamesCar DEF GoInv, GoTypeOK, NamedCar, Answered
  <2>2. DOMAIN fleet = Elevators
    BY DEF GoInv, GoTypeOK, TypeOK, Answered, Done, Elevators
  <2>3. promised.best \in Available
    BY <2>1, <2>2 DEF Available, PromiseStillGood
  <2>4. scan.best \in Available /\ CostOf(scan.best) <= CostOf(promised.best)
    BY <2>3 DEF GoInv, ScanInvariant, IsBest
  <2>5. scan.best # NoCar
    BY <2>2, <2>4, ElevatorsAssumption DEF Available, Elevators, NoCar
  <2>6. fleet[scan.best] \in Snapshot /\ fleet[promised.best] \in Snapshot /\ floor \in Floors
    BY <2>3, <2>4, ReadingIsSnapshot DEF GoInv, GoTypeOK
  <2> QED
    BY <2>1, <2>4, <2>5, <2>6, LeastCost DEF CostOf, PromiseStillGood
<1> QED
  BY <1>1, GoInvInit, GoInvStep, PTL DEF GoSpec
=============================================================================
