--------------------------- MODULE ElevatorClient ---------------------------
(***************************************************************************)
(* One run of the program elevator_client from the moment it is connected, *)
(* the handler of the server it talks to, and the stream between them.     *)
(* The client writes a line without its newline and the server takes what  *)
(* one read returns for one command: lines that wait together are one      *)
(* command.  Every command has one reply.  What a command does to the cars *)
(* is elsewhere (GoCommand.tla, ElevatorController.tla).                   *)
(***************************************************************************)
EXTENDS Integers

CONSTANTS
  MaxLines,    \* room for lines on the way to the server
  MaxReplies   \* room for replies on the way to the client

ASSUME MaxLinesAssumption == MaxLines \in Nat \ {0}
ASSUME MaxRepliesAssumption == MaxReplies \in Nat \ {0}

VARIABLES
  main,           \* the client's main
  input,          \* what getline delivered last
  inputOpen,      \* its standard input has not ended
  running,        \* the client's flag
  closed,         \* main has closed clientSocket
  receiver,       \* the thread in receiveMessages
  toServer,       \* lines that the server has not read
  toClient,       \* replies that the client has not read
  handler,        \* the server's thread in handleClient
  command,        \* how many lines the handler has taken for one command
  serverRunning,  \* the server's flag
  patient         \* the user has waited for the reply to each line

userVars == <<input, inputOpen, patient>>
clientVars == <<main, userVars, running, closed, receiver>>
serverVars == <<handler, command, serverRunning>>
stream == <<toServer, toClient>>
vars == <<clientVars, serverVars, stream>>

(* "send": a line has been read.  "sent": exit has been written.  "close"  *)
(* and "join": the lines behind the loop.  "killed": by a signal.          *)
MainLabels == {"getline", "send", "sent", "close", "join", "returned", "killed"}
(* "call": before read.  "read": in read, which waits.                     *)
ReceiverLabels == {"test", "call", "read", "done"}
(* "serving": in processCommand, before the reply.  "killed": the process  *)
(* of the server has ended by SIGPIPE.                                     *)
HandlerLabels == {"welcome", "read", "serving", "done", "killed"}

\* main closes the socket behind its loop only, where it reads and writes it no
\* more, and with running reset.
SocketOK == closed => main \in {"join", "returned", "killed"} /\ ~running

TypeOK ==
  /\ main \in MainLabels /\ input \in {"exit", "command", "nothing"}
  /\ inputOpen \in BOOLEAN /\ running \in BOOLEAN /\ closed \in BOOLEAN
  /\ receiver \in ReceiverLabels /\ handler \in HandlerLabels
  /\ toServer \in 0..MaxLines /\ command \in 0..MaxLines
  /\ toClient \in 0..MaxReplies
  /\ serverRunning \in BOOLEAN /\ patient \in BOOLEAN
  /\ SocketOK

Init ==
  /\ main = "getline" /\ input = "nothing" /\ inputOpen = TRUE
  /\ running = TRUE /\ closed = FALSE /\ receiver = "test"
  /\ toServer = 0 /\ toClient = 0
  /\ handler = "welcome" /\ command = 0 /\ serverRunning = TRUE
  /\ patient = TRUE

Ended == main \in {"returned", "killed"}
ServerGone == handler \in {"done", "killed"}

\* The stream ends when nobody holds the socket: a thread blocked in read holds
\* it, whatever close says of the number.
HungUp == Ended \/ (closed /\ receiver # "read")

-----------------------------------------------------------------------------
(* main of the client.                                                     *)

MainGoes(from, to) == main = from /\ main' = to

\* A line is typed; the user may have waited for the replies to the earlier ones.
GetLine ==
  /\ inputOpen
  /\ MainGoes("getline", IF running THEN "send" ELSE "close")
  /\ input' \in {"exit", "command", "nothing"}
  /\ patient' = (patient /\ toServer = 0 /\ handler = "read" /\ toClient = 0)
  /\ UNCHANGED <<inputOpen, running, closed, receiver, serverVars, stream>>

\* The input ends, behind a last line that may lack its newline.
InputEnds ==
  /\ main = "getline" /\ inputOpen
  /\ inputOpen' = FALSE
  /\ input' \in {"exit", "command", "nothing"}
  /\ patient' = FALSE
  /\ UNCHANGED <<main, running, closed, receiver, serverVars, stream>>

\* getline fails at once from then on, input keeps its value and nobody tests
\* the stream.
GetNothing ==
  /\ ~inputOpen
  /\ MainGoes("getline", IF running THEN "send" ELSE "close")
  /\ UNCHANGED <<userVars, running, closed, receiver, serverVars, stream>>

\* Seeded fault: exit is written in its branch and again behind it.
WriteExitTwice ==
  /\ main = "send"
  /\ main' = IF input = "exit" THEN "sent" ELSE "getline"
  /\ toServer + 2 <= MaxLines
  /\ toServer' = toServer + (IF input = "exit" THEN 2 ELSE 1)
  /\ UNCHANGED <<userVars, running, closed, receiver, serverVars, toClient>>

\* An empty line is no byte; write waits for room.  A server that is gone
\* answers the next write with a reset, and the write after that is fatal.
Write ==
  /\ main = "send"
  /\ main' = IF input = "exit" THEN "sent" ELSE "getline"
  /\ toServer < MaxLines \/ ServerGone \/ input = "nothing"
  /\ toServer' = IF input = "nothing" \/ toServer = MaxLines THEN toServer ELSE toServer + 1
  /\ UNCHANGED <<userVars, running, closed, receiver, serverVars, toClient>>

WriteIsFatal ==
  /\ ServerGone /\ toServer > 0
  /\ MainGoes("send", "killed")
  /\ UNCHANGED <<userVars, running, closed, receiver, serverVars, stream>>

ResetRunning ==
  /\ MainGoes("sent", "close")
  /\ running' = FALSE
  /\ UNCHANGED <<userVars, closed, receiver, serverVars, stream>>

Close ==
  /\ MainGoes("close", "join")
  /\ running' = FALSE /\ closed' = TRUE
  /\ UNCHANGED <<userVars, receiver, serverVars, stream>>

Join ==
  /\ receiver = "done"
  /\ MainGoes("join", "returned")
  /\ UNCHANGED <<userVars, running, closed, receiver, serverVars, stream>>

MainStep == GetNothing \/ Write \/ WriteIsFatal \/ ResetRunning \/ Close \/ Join

\* Seeded fault: the handler closes the socket and returns to main.
InterruptReturns ==
  /\ ~Ended /\ closed' = TRUE /\ running' = FALSE
  /\ UNCHANGED <<main, userVars, receiver, serverVars, stream>>

\* SIGINT or SIGTERM: the handler closes the socket and calls exit.
Interrupt ==
  /\ ~Ended /\ main' = "killed"
  /\ UNCHANGED <<userVars, running, closed, receiver, serverVars, stream>>

-----------------------------------------------------------------------------
(* receiveMessages.                                                        *)

ReceiverGoes(from, to) == ~Ended /\ receiver = from /\ receiver' = to

ReceiverTests ==
  /\ ReceiverGoes("test", IF running THEN "call" ELSE "done")
  /\ UNCHANGED <<main, userVars, running, closed, serverVars, stream>>

\* The number may have been closed in the meantime: an error.
ReceiverCalls ==
  /\ ReceiverGoes("call", IF closed THEN "done" ELSE "read")
  /\ running' = (running /\ ~closed)
  /\ UNCHANGED <<main, userVars, closed, serverVars, stream>>

\* One read takes some of the replies that have come, and prints them.
Receives ==
  /\ ReceiverGoes("read", "test")
  /\ toClient > 0
  /\ toClient' \in 0..(toClient - 1)
  /\ UNCHANGED <<main, userVars, running, closed, serverVars, toServer>>

\* Seeded fault: the thread ends and keeps it to itself.
ReceivesEndSilently ==
  /\ ReceiverGoes("read", "done")
  /\ ServerGone
  /\ UNCHANGED <<main, userVars, running, closed, serverVars, stream>>

\* The end of the stream, or an error because replies or lines were lost.
ReceivesEnd ==
  /\ ReceiverGoes("read", "done")
  /\ ServerGone
  /\ running' = FALSE
  /\ UNCHANGED <<main, userVars, closed, serverVars, stream>>

ReceiverStep == ReceiverTests \/ ReceiverCalls \/ Receives \/ ReceivesEnd

-----------------------------------------------------------------------------
(* handleClient of the server, and stop.                                   *)

HandlerGoes(from, to) == handler = from /\ handler' = to

\* sendResponse.  The socket does not block: a reply for which there is no room
\* is lost.  Nobody reads the replies to a client that has hung up.
SendResponse == toClient' = IF toClient < MaxReplies THEN toClient + 1 ELSE toClient

Welcome ==
  /\ HandlerGoes("welcome", "read")
  /\ SendResponse
  /\ UNCHANGED <<clientVars, command, serverRunning, toServer>>

\* One read takes some of the lines, all of which become one command.
HandlerReads ==
  /\ serverRunning
  /\ HandlerGoes("read", "serving")
  /\ command' \in 1..toServer
  /\ toServer' = toServer - command'
  /\ UNCHANGED <<clientVars, serverRunning, toClient>>

\* Seeded fault: exit is not answered.
HandlerSaysNothing ==
  /\ HandlerGoes("serving", "read")
  /\ command' = 0
  /\ UNCHANGED <<clientVars, serverRunning, stream>>

\* Every branch of processCommand ends in one reply.
HandlerReplies ==
  /\ HandlerGoes("serving", "read")
  /\ command' = 0
  /\ SendResponse
  /\ UNCHANGED <<clientVars, serverRunning, toServer>>

\* An earlier reply has met a client that had hung up, or was on its way to it,
\* and was answered with a reset: this one raises SIGPIPE.
ReplyIsFatal ==
  /\ HungUp /\ toClient > 0
  /\ HandlerGoes("serving", "killed")
  /\ UNCHANGED <<clientVars, command, serverRunning, stream>>

HandlerLeaves ==
  /\ ~serverRunning \/ (HungUp /\ toServer = 0)
  /\ HandlerGoes("read", "done")
  /\ UNCHANGED <<clientVars, command, serverRunning, stream>>

HandlerStep == Welcome \/ HandlerReads \/ HandlerReplies \/ ReplyIsFatal \/ HandlerLeaves

StopServer ==
  /\ serverRunning /\ serverRunning' = FALSE
  /\ UNCHANGED <<clientVars, handler, command, stream>>

-----------------------------------------------------------------------------
Next ==
  \/ GetLine \/ InputEnds \/ MainStep \/ Interrupt
  \/ ReceiverStep \/ HandlerStep \/ StopServer

Spec == Init /\ [][Next]_vars

\* The threads are scheduled; nobody has to type, to interrupt or to stop.
FairSpec == Spec /\ WF_vars(MainStep) /\ WF_vars(ReceiverStep) /\ WF_vars(HandlerStep)

-----------------------------------------------------------------------------
\* A user who waits for each reply may leave at any moment, by exit or by an
\* interrupt, and does not take the server with it.  A reply to a client that is
\* gone is harmless once; main.cpp:74-75 sets no handler for SIGPIPE, which the
\* second one raises (ElevatorServer.cpp:345).
PatientUserIsHarmless == patient => handler # "killed"

Owed == toClient > 0 \/ toServer > 0 \/ handler # "read" \/ ~serverRunning

\* Closing the socket does not wake the receiver (elevator_client.cpp:142-147).
\* The client ends all the same whenever a reply is owed to it: each line has a
\* reply, exit included, and the reply finds running reset.
LeavingReturns == main = "join" /\ (receiver # "read" \/ Owed) ~> Ended

\* When the server has gone, the client ends, if need be at the next line its
\* user types (elevator_client.cpp:41-48, :125-127).
ServerEndIsNoticed ==
  ServerGone ~> Ended \/ (main = "getline" /\ inputOpen /\ ~running)

\* "Clean up" (elevator_client.cpp:140): after exit the client ends.  If the
\* receiver has read the last reply and tested running before main resets it,
\* nothing wakes it any more, and main waits in join.
ExitReturns == main = "sent" ~> Ended

\* "Process the command" (ElevatorServer.cpp:223): what a read returns is taken
\* for one command, however many lines it holds.
OneLineIsOneCommand == command <= 1

\* "Read user input and send to server" (elevator_client.cpp:120): there is none
\* behind the end of the input.  The client goes round its loop instead, and
\* writes the last line again and again if it lacked its newline.
InputEndEndsClient == ~inputOpen /\ input # "exit" ~> Ended
=============================================================================
