--------------------------- MODULE ElevatorServer ---------------------------
(***************************************************************************)
(* The class ElevatorServer: the thread that accepts connections, a thread *)
(* for each connection, and start and stop, which main calls.  A           *)
(* descriptor is a number that the system hands out again as soon as it is *)
(* closed; connection says which client it stands for at the moment.  What *)
(* a command does to the controller is not here (ElevatorController.tla    *)
(* and GoCommand.tla): a handler that executes one is "serving".           *)
(***************************************************************************)
EXTENDS Integers, FiniteSets

CONSTANTS
  Users,         \* clients of the server, each of which connects once
  NoUser,        \* a descriptor that is not open
  Descriptors,   \* the numbers of the clients' sockets
  NoDescriptor   \* a client that has no socket on the server's side

ASSUME DescriptorsAssumption == Descriptors \subseteq Nat /\ NoDescriptor \notin Descriptors
ASSUME NoUserAssumption == NoUser \notin Users

VARIABLES
  running,         \* the flag all threads test
  listening,       \* serverSocket is open
  loop,            \* the thread in serverLoop
  accepted,        \* its clientSocket, as the client it belongs to
  activeClients,   \* the descriptors in the map; protected by clientsMutex
  clientThreads,   \* the users whose handler threads are in the vector
  connection,      \* which client each descriptor stands for
  clientSocket,    \* the descriptor of each user's handler
  handler,         \* where each user's handler thread is
  user,            \* what each user has done
  owner            \* where main is in stop

vars == <<running, listening, loop, accepted, activeClients, clientThreads,
          connection, clientSocket, handler, user, owner>>
serverVars == <<running, listening, owner>>
loopVars == <<loop, accepted, clientThreads>>

(* The loop's "wait" is select with the tests of running around it.        *)
LoopLabels == {"off", "wait", "accept", "register", "spawn", "exited"}
HandlerLabels == {"none", "wait", "serving", "close", "erase", "done"}
(* "away": has not connected.  "queued": in the backlog.  "said exit":     *)
(* has sent the command exit.  "gone": its end of the stream is closed and *)
(* everything it sent has been read.                                       *)
UserStates == {"away", "queued", "connected", "said exit", "gone"}
(* While main is "joiningHandlers" it holds clientsMutex.                  *)
OwnerLabels == {"idle", "closingSocket", "joiningLoop", "closingClients", "joiningHandlers"}

TypeOK ==
  /\ running \in BOOLEAN /\ listening \in BOOLEAN
  /\ loop \in LoopLabels
  /\ accepted \in Users \cup {NoUser}
  /\ activeClients \in SUBSET Descriptors
  /\ clientThreads \in SUBSET Users
  /\ connection \in [Descriptors -> Users \cup {NoUser}]
  /\ clientSocket \in [Users -> Descriptors \cup {NoDescriptor}]
  /\ handler \in [Users -> HandlerLabels]
  /\ user \in [Users -> UserStates]
  /\ owner \in OwnerLabels

Init ==
  /\ running = FALSE /\ listening = FALSE
  /\ loop = "off" /\ accepted = NoUser
  /\ activeClients = {} /\ clientThreads = {}
  /\ connection = [d \in Descriptors |-> NoUser]
  /\ clientSocket = [u \in Users |-> NoDescriptor]
  /\ handler = [u \in Users |-> "none"]
  /\ user = [u \in Users |-> "away"]
  /\ owner = "idle"

ClientsMutexIsFree == owner # "joiningHandlers"

-----------------------------------------------------------------------------
(* start and stop.                                                         *)

\* A start that fails to open its socket leaves running alone.
Start ==
  /\ owner = "idle" /\ ~running
  /\ running' = TRUE /\ listening' = TRUE
  /\ loop' = "wait"
  /\ UNCHANGED <<accepted, activeClients, clientThreads, connection, clientSocket,
                 handler, user, owner>>

BeginStop ==
  /\ owner = "idle" /\ running
  /\ running' = FALSE
  /\ owner' = "closingSocket"
  /\ UNCHANGED <<listening, loopVars, activeClients, connection, clientSocket, handler, user>>

\* The connections that have not been accepted are reset.
CloseServerSocket ==
  /\ owner = "closingSocket"
  /\ listening' = FALSE
  /\ user' = [u \in Users |-> IF user[u] = "queued" THEN "gone" ELSE user[u]]
  /\ owner' = "joiningLoop"
  /\ UNCHANGED <<running, loopVars, activeClients, connection, clientSocket, handler>>

\* Seeded fault: stop does not wait for the accepting thread.
JoinLoopForgotten ==
  /\ owner = "joiningLoop"
  /\ owner' = "closingClients"
  /\ UNCHANGED <<running, listening, loopVars, activeClients, connection, clientSocket,
                 handler, user>>

JoinLoop ==
  /\ owner = "joiningLoop"
  /\ loop = "exited"
  /\ owner' = "closingClients"
  /\ UNCHANGED <<running, listening, loopVars, activeClients, connection, clientSocket,
                 handler, user>>

\* stop takes clientsMutex, which it keeps until it returns, and closes every
\* descriptor in the map; the handlers are not told.
CloseClients ==
  /\ owner = "closingClients"
  /\ connection' = [d \in Descriptors |-> IF d \in activeClients THEN NoUser ELSE connection[d]]
  /\ owner' = "joiningHandlers"
  /\ UNCHANGED <<running, listening, loopVars, activeClients, clientSocket, handler, user>>

\* Seeded fault: the handlers are not joined.
JoinHandlersForgotten ==
  /\ owner = "joiningHandlers"
  /\ activeClients' = {} /\ clientThreads' = {}
  /\ owner' = "idle"
  /\ UNCHANGED <<running, listening, loop, accepted, connection, clientSocket, handler, user>>

JoinHandlers ==
  /\ owner = "joiningHandlers"
  /\ \A u \in clientThreads : handler[u] = "done"
  /\ activeClients' = {} /\ clientThreads' = {}
  /\ owner' = "idle"
  /\ UNCHANGED <<running, listening, loop, accepted, connection, clientSocket, handler, user>>

ContinueStop == CloseServerSocket \/ JoinLoop \/ CloseClients \/ JoinHandlers

-----------------------------------------------------------------------------
(* serverLoop.                                                             *)

Backlog == {u \in Users : user[u] = "queued"}

\* select returns, and the thread tests running; a timeout or an error sends
\* it round the loop, which changes nothing.
LoopWakes ==
  /\ loop = "wait"
  /\ loop' = IF running THEN "accept" ELSE "exited"
  /\ running => Backlog # {}
  /\ UNCHANGED <<serverVars, accepted, clientThreads, activeClients, connection,
                 clientSocket, handler, user>>

\* accept gives the connection the lowest number that is free.
Accept(u) ==
  /\ loop = "accept" /\ listening
  /\ user[u] = "queued"
  /\ \E d \in Descriptors :
       /\ connection[d] = NoUser
       /\ \A lower \in Descriptors : connection[lower] = NoUser => d <= lower
       /\ connection' = [connection EXCEPT ![d] = u]
       /\ clientSocket' = [clientSocket EXCEPT ![u] = d]
  /\ user' = [user EXCEPT ![u] = "connected"]
  /\ accepted' = u
  /\ loop' = "register"
  /\ UNCHANGED <<serverVars, activeClients, clientThreads, handler>>

\* Seeded fault: the result of accept is not tested.
AcceptFailureIgnored ==
  /\ loop = "accept"
  /\ listening => \A d \in Descriptors : connection[d] # NoUser
  /\ \E u \in Users : user[u] = "queued" /\ accepted' = u
  /\ loop' = "register"
  /\ UNCHANGED <<serverVars, clientThreads, activeClients, connection,
                 clientSocket, handler, user>>

\* The socket has been closed, or no descriptor is left.
AcceptFails ==
  /\ loop = "accept"
  /\ listening => \A d \in Descriptors : connection[d] # NoUser
  /\ loop' = "wait"
  /\ UNCHANGED <<serverVars, accepted, clientThreads, activeClients, connection,
                 clientSocket, handler, user>>

Register ==
  /\ loop = "register" /\ ClientsMutexIsFree
  /\ activeClients' = activeClients \cup {clientSocket[accepted]}
  /\ loop' = "spawn"
  /\ UNCHANGED <<serverVars, accepted, clientThreads, connection, clientSocket, handler, user>>

Spawn ==
  /\ loop = "spawn"
  /\ handler' = [handler EXCEPT ![accepted] = "wait"]
  /\ clientThreads' = clientThreads \cup {accepted}
  /\ accepted' = NoUser
  /\ loop' = "wait"
  /\ UNCHANGED <<serverVars, activeClients, connection, clientSocket, user>>

LoopStep == LoopWakes \/ (\E u \in Users : Accept(u)) \/ AcceptFails \/ Register \/ Spawn

-----------------------------------------------------------------------------
(* handleClient.  Its select times out every second: nothing but running   *)
(* and the client's bytes decide where it goes.                            *)

HandlerMoves(u, from, to) ==
  /\ handler[u] = from
  /\ handler' = [handler EXCEPT ![u] = to]

\* Seeded fault: the end of the client's stream is taken for a timeout.
HandlerLeavesWhenStopped(u) ==
  /\ ~running
  /\ HandlerMoves(u, "wait", "close")
  /\ UNCHANGED <<serverVars, loopVars, activeClients, connection, clientSocket, user>>

\* The server stops, or read reports the end of the client's stream.
HandlerLeaves(u) ==
  /\ ~running \/ user[u] = "gone"
  /\ HandlerMoves(u, "wait", "close")
  /\ UNCHANGED <<serverVars, loopVars, activeClients, connection, clientSocket, user>>

\* A command has come: processCommand begins.
HandlerReads(u) ==
  /\ running
  /\ user[u] \in {"connected", "said exit"}
  /\ HandlerMoves(u, "wait", "serving")
  /\ UNCHANGED <<serverVars, loopVars, activeClients, connection, clientSocket, user>>

\* processCommand returns.
HandlerReplies(u) ==
  /\ HandlerMoves(u, "serving", "wait")
  /\ UNCHANGED <<serverVars, loopVars, activeClients, connection, clientSocket, user>>

\* The command was exit: the handler says goodbye and goes on.
HandlerSaysGoodbye(u) ==
  /\ HandlerMoves(u, "serving", "wait")
  /\ user[u] = "connected"
  /\ user' = [user EXCEPT ![u] = "said exit"]
  /\ UNCHANGED <<serverVars, loopVars, activeClients, connection, clientSocket>>

\* close closes whatever the number stands for by now.
HandlerCloses(u) ==
  /\ HandlerMoves(u, "close", "erase")
  /\ connection' = [connection EXCEPT ![clientSocket[u]] = NoUser]
  /\ UNCHANGED <<serverVars, loopVars, activeClients, clientSocket, user>>

HandlerErases(u) ==
  /\ ClientsMutexIsFree
  /\ HandlerMoves(u, "erase", "done")
  /\ activeClients' = activeClients \ {clientSocket[u]}
  /\ UNCHANGED <<serverVars, loopVars, connection, clientSocket, user>>

HandlerStep(u) ==
  \/ HandlerLeaves(u) \/ HandlerReplies(u) \/ HandlerSaysGoodbye(u)
  \/ HandlerCloses(u) \/ HandlerErases(u)

-----------------------------------------------------------------------------
(* The clients' programs, on their own machines.                           *)

Connect(u) ==
  /\ listening /\ user[u] = "away"
  /\ user' = [user EXCEPT ![u] = "queued"]
  /\ UNCHANGED <<serverVars, loopVars, activeClients, connection, clientSocket, handler>>

Disconnect(u) ==
  /\ user[u] \in {"connected", "said exit"}
  /\ user' = [user EXCEPT ![u] = "gone"]
  /\ UNCHANGED <<serverVars, loopVars, activeClients, connection, clientSocket, handler>>

-----------------------------------------------------------------------------
Next ==
  \/ Start \/ BeginStop \/ ContinueStop
  \/ LoopStep
  \/ \E u \in Users : HandlerStep(u) \/ HandlerReads(u) \/ Connect(u) \/ Disconnect(u)

Spec == Init /\ [][Next]_vars

\* Every thread is scheduled.  Nobody is obliged to connect, to send a command
\* or to call start or stop.
Fairness ==
  /\ WF_vars(ContinueStop)
  /\ WF_vars(LoopStep)
  /\ \A u \in Users : WF_vars(HandlerStep(u))

FairSpec == Spec /\ Fairness
-----------------------------------------------------------------------------
\* A handler never reads from, answers or closes the connection of another
\* client, although numbers are reused and stop closes them under the
\* handlers: only its own close frees a number while connections are accepted,
\* and stop closes them after the accepting thread has ended
\* (ElevatorServer.cpp:84-93).
HandlersServeTheirOwn ==
  \A u \in Users :
    handler[u] \in {"wait", "serving", "close"} =>
      \/ connection[clientSocket[u]] = u
      \/ owner = "joiningHandlers" /\ connection[clientSocket[u]] = NoUser

\* When stop has returned, no thread of the server is left that could call the
\* controller, which main destroys next, and no descriptor is left open
\* (ElevatorServer.cpp:71-105, main.cpp:133-139).
StoppedMeansQuiet ==
  owner = "idle" /\ ~running =>
    /\ loop \in {"off", "exited"}
    /\ \A u \in Users : handler[u] \in {"none", "done"}
    /\ \A d \in Descriptors : connection[d] = NoUser

\* While the server goes on, the thread of a client that has left ends
\* (ElevatorServer.cpp:213-243): close and clientsMutex do not hold it up.
GoneIsForgotten ==
  <>[]running =>
    \A u \in Users : user[u] = "gone" /\ handler[u] # "none" ~> handler[u] = "done"

\* "Close all client connections and join threads" (ElevatorServer.cpp:89):
\* stop returns.  It joins the handlers with clientsMutex in its hand, and
\* each of them takes clientsMutex before it ends.
StopReturns == owner # "idle" ~> owner = "idle"

\* "Disconnect from server" (ElevatorServer.cpp:172) is what the server says of
\* the command exit.  It leaves the connection and its thread as they are.
ExitDisconnects ==
  <>[]running =>
    \A u \in Users : user[u] = "said exit" ~> handler[u] = "done"

\* activeClients, "socket fd -> active status" (include/ElevatorServer.h:22),
\* holds every client that is being served.  A handler erases its number after
\* closing it: by then the number may be that of a new client, who is erased.
ServedIsListed ==
  \A u \in Users :
    handler[u] \in {"wait", "serving"} /\ running => clientSocket[u] \in activeClients
=============================================================================
