------------------------ MODULE ElevatorServerProofs ------------------------
(***************************************************************************)
(* Proofs about ElevatorServer, for any number of clients and of           *)
(* descriptors: a handler serves its own client only, and nothing of the   *)
(* server is left when stop has returned.  Both follow from ServerInv,     *)
(* which relates the place of main in stop, the accepting thread, the      *)
(* handlers and the numbers that are open.                                 *)
(***************************************************************************)
EXTENDS ElevatorServer, TLAPS

\* stop is called while the server runs, and main goes on to the clients when
\* the accepting thread has ended, which it does in stop only.
StopInOrder ==
  /\ running => owner = "idle" /\ loop # "exited"
  /\ owner = "idle" /\ ~running => loop \in {"off", "exited"}
  /\ owner \in {"closingClients", "joiningHandlers"} => loop = "exited"

\* The accepting thread has a client in its hands from accept until the
\* handler's thread is there, and no two sockets of a client.
AcceptedIsNew ==
  /\ (accepted # NoUser) = (loop \in {"register", "spawn"})
  /\ accepted # NoUser =>
       /\ handler[accepted] = "none"
       /\ user[accepted] \notin {"away", "queued"}
       /\ clientSocket[accepted] \in Descriptors
       /\ connection[clientSocket[accepted]] = accepted

\* Where each handler is: after the client was accepted, with a socket, and in
\* the vector that stop joins.
HandlersAreKnown ==
  \A u \in Users : handler[u] # "none" =>
    /\ user[u] \notin {"away", "queued"}
    /\ clientSocket[u] \in Descriptors
    /\ u \in clientThreads \/ handler[u] = "done"

\* A number that is open belongs to a client that is being accepted or served,
\* and to no other number.
OpenIsServed ==
  \A d \in Descriptors : \A u \in Users :
    connection[d] = u =>
      /\ clientSocket[u] = d
      /\ handler[u] \in {"wait", "serving", "close"} \/ accepted = u

\* stop has joined every handler when it returns.
HandlersAreJoined ==
  owner = "idle" /\ ~running => \A u \in Users : handler[u] \in {"none", "done"}

ServerInv ==
  /\ TypeOK
  /\ StopInOrder
  /\ HandlersAreJoined
  /\ AcceptedIsNew
  /\ HandlersAreKnown
  /\ HandlersServeTheirOwn
  /\ OpenIsServed

-----------------------------------------------------------------------------
(* main and the accepting thread, one lemma for each group of actions.     *)

\* start, and stop up to the closing of the clients.
LEMMA MainKeepsInv ==
  ServerInv /\ (Start \/ BeginStop \/ CloseServerSocket \/ JoinLoop) => ServerInv'
<1> SUFFICES ASSUME ServerInv, Start \/ BeginStop \/ CloseServerSocket \/ JoinLoop
             PROVE  ServerInv'
  OBVIOUS
<1> USE DEF ServerInv, TypeOK, Start, BeginStop, CloseServerSocket, JoinLoop, loopVars
<1>1. TypeOK'
  BY DEF LoopLabels, UserStates, OwnerLabels
<1>2. StopInOrder' /\ HandlersAreJoined'
  BY DEF StopInOrder, HandlersAreJoined, LoopLabels
<1>3. AcceptedIsNew'
  BY DEF StopInOrder, AcceptedIsNew
<1>4. HandlersAreKnown'
  BY DEF HandlersAreKnown
<1>5. HandlersServeTheirOwn'
  BY DEF StopInOrder, HandlersServeTheirOwn
<1>6. OpenIsServed'
  BY DEF OpenIsServed
<1> QED
  BY <1>1, <1>2, <1>3, <1>4, <1>5, <1>6

\* stop closes the clients' descriptors, and ends when the handlers have.
LEMMA MainKeepsInvWithClients ==
  ServerInv /\ (CloseClients \/ JoinHandlers) => ServerInv'
<1> SUFFICES ASSUME ServerInv, CloseClients \/ JoinHandlers PROVE ServerInv'
  OBVIOUS
<1> USE DEF ServerInv, TypeOK, CloseClients, JoinHandlers, loopVars
<1>1. TypeOK'
  BY DEF OwnerLabels
<1>2. StopInOrder' /\ HandlersAreJoined'
  BY DEF StopInOrder, HandlersAreJoined, HandlersAreKnown, HandlerLabels
<1>3. AcceptedIsNew'
  BY DEF StopInOrder, AcceptedIsNew
<1>4. HandlersAreKnown'
  BY DEF HandlersAreKnown
<1>5. HandlersServeTheirOwn'
  BY DEF HandlersAreKnown, HandlersServeTheirOwn
<1>6. OpenIsServed'
  BY NoUserAssumption DEF OpenIsServed
<1> QED
  BY <1>1, <1>2, <1>3, <1>4, <1>5, <1>6

\* select, and an accept that fails.
LEMMA LoopGoesOn == ServerInv /\ (LoopWakes \/ AcceptFails) => ServerInv'
<1> SUFFICES ASSUME ServerInv, LoopWakes \/ AcceptFails PROVE ServerInv'
  OBVIOUS
<1> USE DEF ServerInv, LoopWakes, AcceptFails, serverVars
<1>1. TypeOK'
  BY DEF TypeOK, LoopLabels
<1>2. StopInOrder' /\ HandlersAreJoined'
  BY DEF TypeOK, StopInOrder, HandlersAreJoined
<1>3. AcceptedIsNew'
  BY DEF AcceptedIsNew
<1>4. HandlersAreKnown' /\ HandlersServeTheirOwn' /\ OpenIsServed'
  BY DEF HandlersAreKnown, HandlersServeTheirOwn, OpenIsServed
<1> QED
  BY <1>1, <1>2, <1>3, <1>4

\* accept gives a client a number that belongs to nobody.
LEMMA AcceptKeepsInv ==
  ASSUME ServerInv, NEW u \in Users, Accept(u)
  PROVE  ServerInv'
<1> USE NoUserAssumption DEF ServerInv, TypeOK
<1>1. PICK d \in Descriptors :
        /\ connection[d] = NoUser
        /\ connection' = [connection EXCEPT ![d] = u]
        /\ clientSocket' = [clientSocket EXCEPT ![u] = d]
  BY DEF Accept
<1>2. /\ handler[u] = "none" /\ accepted = NoUser
      /\ owner # "joiningHandlers"
  BY DEF Accept, AcceptedIsNew, HandlersAreKnown, StopInOrder
<1>3. TypeOK'
  BY <1>1 DEF Accept, LoopLabels, UserStates, serverVars
<1>4. StopInOrder' /\ HandlersAreJoined'
  BY DEF StopInOrder, HandlersAreJoined, Accept, serverVars
<1>5. AcceptedIsNew'
  BY <1>1, <1>2 DEF AcceptedIsNew, Accept
<1>6. HandlersAreKnown'
  BY <1>1 DEF HandlersAreKnown, Accept
<1>7. HandlersServeTheirOwn'
  BY <1>1, <1>2 DEF HandlersServeTheirOwn, Accept, serverVars
<1>8. OpenIsServed'
  BY <1>1, <1>2 DEF OpenIsServed, Accept
<1> QED
  BY <1>3, <1>4, <1>5, <1>6, <1>7, <1>8

\* The number goes into the map, and the handler's thread into the vector.
LEMMA AcceptedIsServed == ServerInv /\ (Register \/ Spawn) => ServerInv'
<1> SUFFICES ASSUME ServerInv, Register \/ Spawn PROVE ServerInv'
  OBVIOUS
<1> USE DEF ServerInv, Register, Spawn, serverVars
<1>1. accepted \in Users /\ handler[accepted] = "none"
  BY DEF TypeOK, AcceptedIsNew
<1>2. TypeOK'
  BY <1>1 DEF TypeOK, AcceptedIsNew, LoopLabels, HandlerLabels
<1>3. StopInOrder' /\ HandlersAreJoined'
  BY DEF StopInOrder, HandlersAreJoined
<1>4. AcceptedIsNew'
  BY DEF AcceptedIsNew
<1>5. HandlersAreKnown'
  BY <1>1 DEF TypeOK, HandlersAreKnown, AcceptedIsNew
<1>6. HandlersServeTheirOwn'
  BY <1>1 DEF TypeOK, HandlersServeTheirOwn, AcceptedIsNew
<1>7. OpenIsServed'
  BY <1>1 DEF TypeOK, OpenIsServed
<1> QED
  BY <1>2, <1>3, <1>4, <1>5, <1>6, <1>7

-----------------------------------------------------------------------------
(* The handlers and the clients.                                           *)

\* A handler goes round its loop, with its number unchanged.
LEMMA HandlerGoesOn ==
  ASSUME ServerInv, NEW u \in Users,
         HandlerLeaves(u) \/ HandlerReads(u) \/ HandlerReplies(u) \/ HandlerSaysGoodbye(u)
  PROVE  ServerInv'
<1> USE DEF ServerInv, serverVars, loopVars
<1>1. PICK from \in {"wait", "serving"}, to \in {"wait", "serving", "close"} :
        handler[u] = from /\ handler' = [handler EXCEPT ![u] = to]
  BY DEF HandlerLeaves, HandlerReads, HandlerReplies, HandlerSaysGoodbye, HandlerMoves
<1>2. /\ UNCHANGED <<serverVars, loopVars, activeClients, connection, clientSocket>>
      /\ \/ UNCHANGED user
         \/ user' = [user EXCEPT ![u] = "said exit"]
  BY DEF HandlerLeaves, HandlerReads, HandlerReplies, HandlerSaysGoodbye
<1>3. TypeOK'
  BY <1>1, <1>2 DEF TypeOK, HandlerLabels, UserStates
<1>4. StopInOrder' /\ HandlersAreJoined'
  BY <1>1, <1>2 DEF StopInOrder, HandlersAreJoined
<1>5. AcceptedIsNew' /\ HandlersAreKnown'
  BY <1>1, <1>2 DEF TypeOK, AcceptedIsNew, HandlersAreKnown
<1>6. HandlersServeTheirOwn'
  BY <1>1, <1>2 DEF TypeOK, HandlersServeTheirOwn
<1>7. OpenIsServed'
  BY <1>1, <1>2 DEF TypeOK, OpenIsServed
<1> QED
  BY <1>3, <1>4, <1>5, <1>6, <1>7

\* The clients come and go: the server learns of it by select and read only.
LEMMA UsersComeAndGo ==
  ASSUME ServerInv, NEW u \in Users, Connect(u) \/ Disconnect(u)
  PROVE  ServerInv'
<1> USE DEF ServerInv, serverVars, loopVars
<1>1. UNCHANGED <<serverVars, loopVars, activeClients, connection, clientSocket, handler>>
  BY DEF Connect, Disconnect
<1>2. \/ user[u] = "away" /\ user' = [user EXCEPT ![u] = "queued"]
      \/ user[u] \in {"connected", "said exit"} /\ user' = [user EXCEPT ![u] = "gone"]
  BY DEF Connect, Disconnect
<1>3. TypeOK'
  BY <1>1, <1>2 DEF TypeOK, UserStates
<1>4. StopInOrder' /\ HandlersAreJoined'
  BY <1>1 DEF StopInOrder, HandlersAreJoined
<1>5. AcceptedIsNew' /\ HandlersAreKnown'
  BY <1>1, <1>2 DEF TypeOK, AcceptedIsNew, HandlersAreKnown
<1>6. HandlersServeTheirOwn' /\ OpenIsServed'
  BY <1>1 DEF HandlersServeTheirOwn, OpenIsServed
<1> QED
  BY <1>3, <1>4, <1>5, <1>6

\* A handler closes its own client's number, or one that is closed already.
LEMMA CloseKeepsInv ==
  ASSUME ServerInv, NEW u \in Users, HandlerCloses(u)
  PROVE  ServerInv'
<1> USE NoUserAssumption DEF ServerInv, TypeOK, HandlerCloses, HandlerMoves, serverVars, loopVars
<1>1. clientSocket[u] \in Descriptors
  BY DEF HandlersAreKnown
<1>2. TypeOK'
  BY <1>1 DEF HandlerLabels
<1>3. StopInOrder' /\ HandlersAreJoined'
  BY DEF StopInOrder, HandlersAreJoined, HandlersAreKnown
<1>4. AcceptedIsNew'
  BY <1>1 DEF AcceptedIsNew, HandlersServeTheirOwn, StopInOrder
<1>5. HandlersAreKnown'
  BY DEF HandlersAreKnown
<1>6. HandlersServeTheirOwn'
  BY <1>1 DEF HandlersServeTheirOwn, HandlersAreKnown
<1>7. OpenIsServed'
  BY <1>1 DEF OpenIsServed
<1> QED
  BY <1>2, <1>3, <1>4, <1>5, <1>6, <1>7

\* The number leaves the map, whoever it stands for by now.
LEMMA EraseKeepsInv ==
  ASSUME ServerInv, NEW u \in Users, HandlerErases(u)
  PROVE  ServerInv'
<1> USE DEF ServerInv, TypeOK, HandlerErases, HandlerMoves, serverVars, loopVars
<1>1. TypeOK'
  BY DEF HandlerLabels
<1>2. StopInOrder' /\ HandlersAreJoined' /\ AcceptedIsNew'
  BY DEF StopInOrder, HandlersAreJoined, AcceptedIsNew
<1>3. HandlersAreKnown'
  BY DEF HandlersAreKnown
<1>4. HandlersServeTheirOwn' /\ OpenIsServed'
  BY DEF HandlersServeTheirOwn, OpenIsServed
<1> QED
  BY <1>1, <1>2, <1>3, <1>4

-----------------------------------------------------------------------------
\* The invariant holds before start, and every step of the server, of main and
\* of the clients keeps it.
LEMMA InductiveInvariant == Spec => []ServerInv
<1>1. Init => ServerInv
  <2> SUFFICES ASSUME Init PROVE ServerInv
    OBVIOUS
  <2>1. TypeOK
    BY DEF Init, TypeOK, LoopLabels, HandlerLabels, UserStates, OwnerLabels
  <2>2. StopInOrder /\ HandlersAreJoined /\ AcceptedIsNew
    BY DEF Init, StopInOrder, HandlersAreJoined, AcceptedIsNew
  <2>3. HandlersAreKnown /\ HandlersServeTheirOwn /\ OpenIsServed
    BY NoUserAssumption DEF Init, HandlersAreKnown, HandlersServeTheirOwn, OpenIsServed
  <2> QED
    BY <2>1, <2>2, <2>3 DEF ServerInv
<1>2. ServerInv /\ [Next]_vars => ServerInv'
  <2> SUFFICES ASSUME ServerInv, [Next]_vars PROVE ServerInv'
    OBVIOUS
  <2>1. CASE UNCHANGED vars
    BY <2>1 DEF ServerInv, TypeOK, StopInOrder, HandlersAreJoined, AcceptedIsNew, HandlersAreKnown,
                HandlersServeTheirOwn, OpenIsServed, vars
  <2>2. CASE Start \/ BeginStop \/ ContinueStop
    BY <2>2, MainKeepsInv, MainKeepsInvWithClients DEF ContinueStop
  <2>3. CASE LoopStep
    BY <2>3, LoopGoesOn, AcceptKeepsInv, AcceptedIsServed DEF LoopStep
  <2>4. CASE \E u \in Users : HandlerStep(u) \/ HandlerReads(u) \/ Connect(u) \/ Disconnect(u)
    BY <2>4, HandlerGoesOn, CloseKeepsInv, EraseKeepsInv, UsersComeAndGo DEF HandlerStep
  <2> QED
    BY <2>1, <2>2, <2>3, <2>4 DEF Next
<1> QED
  BY <1>1, <1>2, PTL DEF Spec

\* The variables of the server keep their types, with any number of clients.
THEOREM TypeCorrect == Spec => []TypeOK
<1>1. ServerInv => TypeOK
  BY DEF ServerInv
<1> QED
  BY <1>1, InductiveInvariant, PTL

\* However many clients come and go and however their numbers are reused, a
\* handler reads from, answers and closes its own client's connection only
\* (ElevatorServer.cpp:84-93, 203-248).
THEOREM OwnConnectionOnly == Spec => []HandlersServeTheirOwn
<1>1. ServerInv => HandlersServeTheirOwn
  BY DEF ServerInv
<1> QED
  BY <1>1, InductiveInvariant, PTL

\* When stop has returned, every thread of the server has ended and every
\* descriptor is closed, those too that are not in the map when stop closes
\* the clients: their handlers close them (ElevatorServer.cpp:71-105).
THEOREM StopLeavesNothing == Spec => []StoppedMeansQuiet
<1>1. ServerInv => StoppedMeansQuiet
  <2> SUFFICES ASSUME ServerInv, owner = "idle", ~running
               PROVE  /\ loop \in {"off", "exited"}
                      /\ \A u \in Users : handler[u] \in {"none", "done"}
                      /\ \A d \in Descriptors : connection[d] = NoUser
    BY DEF StoppedMeansQuiet
  <2>1. loop \in {"off", "exited"}
    BY DEF ServerInv, StopInOrder
  <2>2. \A u \in Users : handler[u] \in {"none", "done"}
    BY DEF ServerInv, HandlersAreJoined
  <2>3. \A d \in Descriptors : connection[d] = NoUser
    BY <2>1, <2>2 DEF ServerInv, TypeOK, OpenIsServed, AcceptedIsNew
  <2> QED
    BY <2>1, <2>2, <2>3
<1> QED
  BY <1>1, InductiveInvariant, PTL
=============================================================================
