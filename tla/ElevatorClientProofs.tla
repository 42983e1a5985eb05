------------------------- MODULE ElevatorClientProofs -------------------------
(***************************************************************************)
(* Proofs about ElevatorClient, for streams of any size: the variables     *)
(* keep their types, and a user who waits for each reply cannot take the   *)
(* server down, whenever the client, the server and their threads end.     *)
(***************************************************************************)
EXTENDS ElevatorClient, TLAPS

-----------------------------------------------------------------------------
(* Types.                                                                  *)

\* The streams are empty at first, and both have room.
LEMMA InitTypeOK == Init => TypeOK
<1> SUFFICES ASSUME Init PROVE TypeOK
  OBVIOUS
<1>1. toServer \in 0..MaxLines /\ command \in 0..MaxLines /\ toClient \in 0..MaxReplies
  BY MaxLinesAssumption, MaxRepliesAssumption DEF Init
<1> QED
  BY <1>1 DEF Init, TypeOK, SocketOK, MainLabels, ReceiverLabels, HandlerLabels

\* The client's main: a write adds a line only where there is room for it.
LEMMA MainKeepsTypes ==
  ASSUME TypeOK, GetLine \/ InputEnds \/ MainStep \/ Interrupt PROVE TypeOK'
<1> USE DEF TypeOK, MainGoes, userVars, serverVars, stream
<1>1. CASE GetLine
  BY <1>1 DEF GetLine, MainLabels, SocketOK
<1>2. CASE InputEnds
  BY <1>2 DEF InputEnds, MainLabels, SocketOK
<1>3. CASE GetNothing
  BY <1>3 DEF GetNothing, MainLabels, SocketOK
<1>4. CASE Write
  <2>1. toServer' \in 0..MaxLines
    BY <1>4, MaxLinesAssumption DEF Write
  <2> QED
    BY <1>4, <2>1 DEF Write, MainLabels, SocketOK
<1>5. CASE WriteIsFatal
  BY <1>5 DEF WriteIsFatal, MainLabels, SocketOK
<1>6. CASE ResetRunning
  BY <1>6 DEF ResetRunning, MainLabels, SocketOK
<1>7. CASE Close
  BY <1>7 DEF Close, MainLabels, SocketOK
<1>8. CASE Join
  BY <1>8 DEF Join, MainLabels, SocketOK
<1>9. CASE Interrupt
  BY <1>9 DEF Interrupt, MainLabels, SocketOK
<1> QED
  BY <1>1, <1>2, <1>3, <1>4, <1>5, <1>6, <1>7, <1>8, <1>9 DEF MainStep

\* The client's receiver.
LEMMA ReceiverKeepsTypes ==
  ASSUME TypeOK, ReceiverStep PROVE TypeOK'
<1> USE DEF TypeOK, ReceiverGoes, userVars, serverVars, stream
<1>1. CASE ReceiverTests
  BY <1>1 DEF ReceiverTests, ReceiverLabels, SocketOK
<1>2. CASE ReceiverCalls
  BY <1>2 DEF ReceiverCalls, ReceiverLabels, SocketOK
<1>3. CASE Receives
  <2>1. toClient' \in 0..MaxReplies
    BY <1>3, MaxRepliesAssumption DEF Receives
  <2> QED
    BY <1>3, <2>1 DEF Receives, ReceiverLabels, SocketOK
<1>4. CASE ReceivesEnd
  BY <1>4 DEF ReceivesEnd, ReceiverLabels, SocketOK
<1> QED
  BY <1>1, <1>2, <1>3, <1>4 DEF ReceiverStep

\* The server's handler: a read takes lines that are there, and a reply is
\* stored only where there is room for it.
LEMMA HandlerKeepsTypes ==
  ASSUME TypeOK, HandlerStep \/ StopServer PROVE TypeOK'
<1> USE DEF clientVars, userVars, stream
<1>1. toServer' \in 0..MaxLines /\ command' \in 0..MaxLines
  BY MaxLinesAssumption
     DEF TypeOK, HandlerStep, StopServer, Welcome, HandlerReads, HandlerReplies,
         ReplyIsFatal, HandlerLeaves
<1>2. toClient' \in 0..MaxReplies
  BY MaxRepliesAssumption
     DEF TypeOK, HandlerStep, StopServer, Welcome, HandlerReads, HandlerReplies,
         ReplyIsFatal, HandlerLeaves, SendResponse
<1>3. handler' \in HandlerLabels /\ serverRunning' \in BOOLEAN /\ UNCHANGED clientVars
  BY DEF TypeOK, HandlerStep, StopServer, Welcome, HandlerReads, HandlerReplies,
         ReplyIsFatal, HandlerLeaves, HandlerGoes, HandlerLabels
<1> QED
  BY <1>1, <1>2, <1>3 DEF TypeOK, SocketOK

\* No stream overflows, no thread is anywhere but at one of its labels, and the
\* client's main has no use for the socket once it has closed it.
THEOREM TypeCorrect == Spec => []TypeOK
<1>1. TypeOK /\ [Next]_vars => TypeOK'
  <2> SUFFICES ASSUME TypeOK, [Next]_vars PROVE TypeOK'
    OBVIOUS
  <2>1. CASE UNCHANGED vars
    BY <2>1 DEF TypeOK, SocketOK, vars, clientVars, userVars, serverVars, stream
  <2> QED
    BY <2>1, MainKeepsTypes, ReceiverKeepsTypes, HandlerKeepsTypes DEF Next
<1> QED
  BY <1>1, InitTypeOK, PTL DEF Spec

-----------------------------------------------------------------------------
(* The patient user.                                                       *)

\* As long as the user has waited for each reply, one thing at most is under
\* way: the line that has been typed, the one that the server has not read, the
\* command it serves, or the reply that the client has not read.
OneThingUnderWay ==
  /\ toServer <= 1
  /\ main = "send" => toServer = 0 /\ toClient = 0 /\ handler \in {"read", "done"}
  /\ toServer > 0 => toClient = 0 /\ handler \in {"read", "done"}
  /\ handler \in {"welcome", "serving"} => toServer = 0 /\ toClient = 0

\* What PatientUserIsHarmless needs: the input of a patient user has not ended,
\* and a reply never follows another that the client has not read.
PatientInv ==
  patient => inputOpen /\ OneThingUnderWay /\ handler # "killed"

\* Main of the client: a patient user's line is typed only when nothing else is
\* under way.
LEMMA MainKeepsPatience ==
  ASSUME TypeOK, PatientInv, GetLine \/ InputEnds \/ MainStep \/ Interrupt
  PROVE  PatientInv'
<1> USE DEF TypeOK, PatientInv, OneThingUnderWay, MainGoes, userVars, serverVars, stream
<1>1. CASE GetLine
  BY <1>1 DEF GetLine
<1>2. CASE InputEnds \/ GetNothing
  BY <1>2 DEF InputEnds, GetNothing
<1>3. CASE Write
  BY <1>3, MaxLinesAssumption DEF Write
<1>4. CASE WriteIsFatal \/ ResetRunning \/ Close \/ Join \/ Interrupt
  BY <1>4 DEF WriteIsFatal, ResetRunning, Close, Join, Interrupt
<1> QED
  BY <1>1, <1>2, <1>3, <1>4 DEF MainStep

\* The receiver only takes replies away.
LEMMA ReceiverKeepsPatience ==
  ASSUME TypeOK, PatientInv, ReceiverStep PROVE PatientInv'
<1>1. toClient' \in 0..toClient
  BY MaxRepliesAssumption
     DEF TypeOK, ReceiverStep, ReceiverTests, ReceiverCalls, Receives, ReceivesEnd, stream
<1>2. UNCHANGED <<main, userVars, serverVars, toServer>>
  BY DEF ReceiverStep, ReceiverTests, ReceiverCalls, Receives, ReceivesEnd, stream
<1> QED
  BY <1>1, <1>2, MaxRepliesAssumption
     DEF TypeOK, PatientInv, OneThingUnderWay, userVars, serverVars

\* The handler of the server: each command has one reply, and the reply that
\* would be fatal follows another.
LEMMA HandlerKeepsPatience ==
  ASSUME TypeOK, PatientInv, HandlerStep \/ StopServer PROVE PatientInv'
<1> USE DEF TypeOK, PatientInv, OneThingUnderWay, HandlerGoes, clientVars, userVars, stream
<1>1. CASE Welcome \/ HandlerReplies
  BY <1>1, MaxRepliesAssumption DEF Welcome, HandlerReplies, SendResponse
<1>2. CASE HandlerReads
  <2>1. /\ toServer \in Int /\ command' \in Int
        /\ 1 <= command' /\ command' <= toServer /\ toServer' = toServer - command'
    BY <1>2 DEF HandlerReads
  <2>2. UNCHANGED <<main, inputOpen, patient, toClient>> /\ handler' = "serving"
    BY <1>2 DEF HandlerReads
  <2>3. ASSUME patient PROVE toServer' = 0 /\ toClient = 0 /\ main # "send"
    <3>1. toServer > 0 /\ toServer <= 1
      BY <2>1, <2>3
    <3>2. toServer = 1 /\ toServer' = 0
      <4>1. toServer = 1
        BY <2>1, <3>1
      <4>2. command' = 1
        BY <2>1, <4>1
      <4> QED
        BY <2>1, <4>1, <4>2
    <3> QED
      BY <2>3, <3>1, <3>2
  <2> QED
    BY <2>2, <2>3
<1>3. CASE ReplyIsFatal
  BY <1>3 DEF ReplyIsFatal
<1>4. CASE HandlerLeaves \/ StopServer
  BY <1>4 DEF HandlerLeaves, StopServer
<1> QED
  BY <1>1, <1>2, <1>3, <1>4 DEF HandlerStep

\* A user who waits for each reply may leave at any moment, by exit or by an
\* interrupt, while the server runs or stops, and does not take the server with
\* it: whatever the threads do, no reply is sent behind one that the client has
\* not read (ElevatorServer.cpp:345, main.cpp:74-75).
THEOREM PatientUsersAreHarmless == Spec => []PatientUserIsHarmless
<1>1. Init => PatientInv
  BY DEF Init, PatientInv, OneThingUnderWay
<1>2. TypeOK /\ PatientInv /\ [Next]_vars => PatientInv'
  <2> SUFFICES ASSUME TypeOK, PatientInv, [Next]_vars PROVE PatientInv'
    OBVIOUS
  <2>1. CASE UNCHANGED vars
    BY <2>1 DEF PatientInv, OneThingUnderWay, vars, clientVars, userVars, serverVars, stream
  <2> QED
    BY <2>1, MainKeepsPatience, ReceiverKeepsPatience, HandlerKeepsPatience DEF Next
<1>3. PatientInv => PatientUserIsHarmless
  BY DEF PatientInv, PatientUserIsHarmless
<1> QED
  BY <1>1, <1>2, <1>3, TypeCorrect, PTL DEF Spec
=============================================================================
