------------------------ MODULE UserInterfaceProofs ------------------------
(***************************************************************************)
(* Proofs about UserInterface: in a building of eight floors or more, the  *)
(* demo asks for nothing senseless unless a car stands outside of it, the  *)
(* variables keep their types, and displayMutex keeps the response to a    *)
(* command on the screen.                                                  *)
(***************************************************************************)
EXTENDS UserInterface, TLAPS

\* Half of the building is at least four floors high.
LEMMA UpperFloorsAreUpper ==
  ASSUME NumFloors >= 8
  PROVE  UpperFloors \subseteq {f \in Floors : f >= 4}
BY DemoFloorsAssumption DEF UpperFloors, Floors

\* Every request of every step, for every draw and every status of a car, is
\* one that the controller takes and whose direction its passengers can go, or
\* it begins at this car, outside the building (DemoRunner.cpp:80-260).
LEMMA StepsAreSensible ==
  ASSUME NumFloors >= 8,
         NEW step \in 1..NumSteps, NEW car \in CarStatus, NEW call \in Calls(step, car)
  PROVE  Sensible(call) \/ BeginsOutside(call, car)
<1> USE DemoFloorsAssumption, HighestFloorAssumption
    DEF Floors, CallOnly, AddRequest, Sensible, BeginsOutside
<1>c. car.currentFloor \in 1..HighestFloor
  BY DEF CarStatus
<1>1. CASE step = 1
  BY <1>1 DEF Calls, DemoSteps, CallToThree
<1>2. CASE step = 2
  BY <1>2 DEF Calls, DemoSteps, ThreeToEight
<1>3. CASE step = 3
  BY <1>3 DEF Calls, DemoSteps, CallEverywhere
<1>4. CASE step = 4
  BY <1>4, <1>c DEF Calls, DemoSteps, SendEveryCar, Trip, Towards
<1>5. CASE step = 5
  BY <1>5, <1>c DEF Calls, DemoSteps, StopWhileMoving, Trip, Towards, NextFloor
<1>6. CASE step = 6
  BY <1>6 DEF Calls, DemoSteps, Release
<1>7. CASE step = 7
  BY <1>7, <1>c, UpperFloorsAreUpper DEF Calls, DemoSteps, UpPeak
<1>8. CASE step = 8
  BY <1>8, <1>c, UpperFloorsAreUpper DEF Calls, DemoSteps, DownPeak
<1>9. CASE step = 9
  BY <1>9 DEF Calls, DemoSteps, StressTest, Towards
<1>10. CASE step = 10
  BY <1>10, <1>c DEF Calls, DemoSteps, BackToGround
<1> QED
  BY <1>1, <1>2, <1>3, <1>4, <1>5, <1>6, <1>7, <1>8, <1>9, <1>10 DEF NumSteps

-----------------------------------------------------------------------------
(* Types, one lemma for each group of actions.                             *)

\* Init fixes every variable but stuck.
LEMMA InitTypeOK == Init => TypeOK
<1> SUFFICES ASSUME Init PROVE TypeOK
  OBVIOUS
<1>1. handlers \in Seq(HandlerLabels) /\ Len(handlers) <= MaxSignals
  BY DEF Init, MaxSignals
<1>2. demo \in 0..NumSteps
  BY DEF Init, NumSteps
<1> QED
  BY <1>1, <1>2 DEF Init, TypeOK, InputLabels, DisplayLabels, MainLabels

\* The variables that controller.stop() writes, for either of its callers.
LEMMA InputStopKeepsTypes == TypeOK /\ InputStopsController => TypeOK'
<1> SUFFICES ASSUME TypeOK, InputStopsController PROVE TypeOK'
  OBVIOUS
<1>1. input' \in InputLabels
  BY DEF InputStopsController, InputMoves, InputLabels, StopLabels
<1>2. main' \in MainLabels /\ controllerRunning' \in BOOLEAN
  BY DEF TypeOK, InputStopsController, ControllerStop, MainLabels
<1> QED
  BY <1>1, <1>2 DEF TypeOK, InputStopsController, demoVars

\* The input thread.
LEMMA InputKeepsTypes == TypeOK /\ (InputStep \/ InputReads) => TypeOK'
<1> SUFFICES ASSUME TypeOK, InputStep \/ InputReads PROVE TypeOK'
  OBVIOUS
<1> USE DEF TypeOK, InputMoves, InputLabels, Writes, Texts, stopVars, demoVars
<1>1. CASE InputLeaves \/ InputReads
  BY <1>1 DEF InputLeaves, InputReads
<1>2. CASE InputLocks \/ InputUnlocks
  BY <1>2 DEF InputLocks, InputUnlocks
<1>3. CASE InputResponds \/ InputCallsHelp
  BY <1>3 DEF InputResponds, InputCallsHelp
<1>4. CASE InputExits
  BY <1>4 DEF InputExits, StopLabels
<1>5. CASE InputStopsController
  BY <1>5, InputStopKeepsTypes
<1> QED
  BY <1>1, <1>2, <1>3, <1>4, <1>5 DEF InputStep

\* The display thread.
LEMMA DisplayKeepsTypes == TypeOK /\ DisplayStep => TypeOK'
BY DEF TypeOK, DisplayStep, FirstStatus, DisplayWakes, DisplayLocks, DisplayRefreshes,
       DisplayMoves, DisplayLabels, Texts, stopVars, demoVars

\* The demo plays no more steps than it has.
LEMMA DemoKeepsTypes == TypeOK /\ (DemoStep \/ OthersPrint) => TypeOK'
<1> SUFFICES ASSUME TypeOK, DemoStep \/ OthersPrint PROVE TypeOK'
  OBVIOUS
<1>1. demo' \in 0..NumSteps
  BY DEF TypeOK, DemoStep, DemoPlays, DemoEnds, OthersPrint, demoVars, NumSteps
<1>2. screen' \subseteq Texts
  BY DEF TypeOK, DemoStep, DemoPlays, DemoEnds, OthersPrint, Writes, Texts
<1> QED
  BY <1>1, <1>2 DEF TypeOK, DemoStep, DemoPlays, DemoEnds, OthersPrint,
                    uiVars, demoVars, stopVars

\* main, from ui.start() to the destructors.
LEMMA MainKeepsTypes == TypeOK /\ MainStep => TypeOK'
<1> SUFFICES ASSUME TypeOK, MainStep PROVE TypeOK'
  OBVIOUS
<1>1. screen' \subseteq Texts
  BY DEF TypeOK, MainStep, StartInput, StartDisplay, StartHelp, StartDemo, StopsWatching,
         Destroy, Writes, Texts
<1> QED
  BY <1>1 DEF TypeOK, MainStep, StartInput, StartDisplay, StartHelp, StartDemo,
              StopsWatching, Destroy, MainMoves, MainLabels, InputLabels, DisplayLabels,
              StopLabels, uiVars, demoVars, stopVars

\* A call of the handler that has moved on is still on the stack.
LEMMA HandlerMovesKeepStack ==
  ASSUME TypeOK, NEW from, NEW to \in HandlerLabels, HandlerMoves(from, to)
  PROVE  handlers' \in Seq(HandlerLabels) /\ Len(handlers') <= MaxSignals
BY DEF TypeOK, HandlerMoves, Active

\* A signal is taken while fewer than two are handled.
LEMMA SignalKeepsTypes == TypeOK /\ Signal => TypeOK'
<1> SUFFICES ASSUME TypeOK, Signal PROVE TypeOK'
  OBVIOUS
<1>1. handlers' \in Seq(HandlerLabels) /\ Len(handlers') <= MaxSignals
  BY DEF TypeOK, Signal, HandlerLabels, MaxSignals
<1>2. screen' \subseteq Texts
  BY DEF TypeOK, Signal, Writes, Texts
<1> QED
  BY <1>1, <1>2 DEF TypeOK, Signal, uiVars, demoVars

\* signalHandler.
LEMMA HandlerKeepsTypes == TypeOK /\ HandlerStep => TypeOK'
<1> SUFFICES ASSUME TypeOK, HandlerStep PROVE TypeOK'
  OBVIOUS
<1> USE DEF uiVars, demoVars
<1>s. handlers' \in Seq(HandlerLabels) /\ Len(handlers') <= MaxSignals
  BY HandlerMovesKeepStack
     DEF HandlerStep, StopsServer, ServerStopped, StopsController, CallsExit,
         ControllerStop, HandlerLabels, StopLabels
<1>m. main' \in MainLabels /\ controllerRunning' \in BOOLEAN
  BY DEF TypeOK, HandlerStep, StopsServer, ServerStopped, StopsController, CallsExit,
         ControllerStop, MainLabels
<1>u. UNCHANGED <<uiVars, demoVars, screen, stuck>>
  BY DEF HandlerStep, StopsServer, ServerStopped, StopsController, CallsExit
<1> QED
  BY <1>s, <1>m, <1>u DEF TypeOK

\* The variables keep their types: at most two signals are handled at a time,
\* and the demo plays at most its ten steps.
THEOREM TypeCorrect == Spec => []TypeOK
<1>1. TypeOK /\ [Next]_vars => TypeOK'
  <2> SUFFICES ASSUME TypeOK, [Next]_vars PROVE TypeOK'
    OBVIOUS
  <2>1. CASE UNCHANGED vars
    BY <2>1 DEF TypeOK, vars, uiVars, demoVars, stopVars
  <2> QED
    BY <2>1, InputKeepsTypes, DisplayKeepsTypes, DemoKeepsTypes, MainKeepsTypes,
       SignalKeepsTypes, HandlerKeepsTypes DEF Next
<1> QED
  BY <1>1, InitTypeOK, PTL DEF Spec

\* In every building of eight floors or more, whatever the user does meanwhile,
\* the demo makes no request that the controller drops or that nobody can ride
\* (DemoRunner.cpp:70-261), except for those that begin at a car outside the
\* building, however high the other buildings on the database are.
THEOREM DemoAsksSensibly == Spec => []DemoIsSensible
<1>1. TypeOK => DemoIsSensible
  <2> SUFFICES ASSUME TypeOK, NumFloors >= 8, NEW car \in CarStatus, NEW call \in Asked(car)
               PROVE  Sensible(call) \/ BeginsOutside(call, car)
    BY DEF DemoIsSensible
  <2>1. PICK step \in {demo} \ {0} : call \in Calls(step, car)
    BY DEF Asked
  <2>2. step \in 1..NumSteps
    BY DEF TypeOK, NumSteps
  <2> QED
    BY <2>1, <2>2, StepsAreSensible
<1> QED
  BY <1>1, TypeCorrect, PTL
-----------------------------------------------------------------------------
(* displayMutex.                                                           *)

Executing == {"execute", "help", "show"} \cup StopLabels

\* displayMutex is in the hand of the thread that works under it, and of nobody
\* when neither does.
MutexIsHeld ==
  /\ displayMutex = "input" <=> input \in Executing
  /\ displayMutex = "display" <=> display = "refresh"

\* ui.start() creates each of the threads once.
NotYetStarted ==
  /\ main = "created" => input = "off"
  /\ main \in {"created", "startDisplay"} => display = "off"

ScreenInv == MutexIsHeld /\ NotYetStarted

\* The input thread keeps displayMutex from its lock to the end of the response,
\* through a controller.stop() too.
LEMMA InputKeepsMutex == ScreenInv /\ (InputStep \/ InputReads) => ScreenInv'
<1> SUFFICES ASSUME ScreenInv, InputStep \/ InputReads PROVE ScreenInv'
  OBVIOUS
<1> USE DEF ScreenInv, MutexIsHeld, NotYetStarted, InputMoves, Executing, StopLabels, Alive
<1>1. UNCHANGED display /\ main' \in {main, "terminated"} /\ input # "off"
  BY DEF InputStep, InputLeaves, InputReads, InputLocks, InputResponds, InputCallsHelp,
         InputExits, InputStopsController, InputUnlocks, ControllerStop
<1>2. NotYetStarted'
  BY <1>1
<1>3. MutexIsHeld'
  <2>1. CASE InputLeaves \/ InputReads
    BY <1>1, <2>1 DEF InputLeaves, InputReads
  <2>2. CASE InputLocks
    BY <1>1, <2>2 DEF InputLocks
  <2>3. CASE InputResponds \/ InputCallsHelp \/ InputExits
    BY <1>1, <2>3 DEF InputResponds, InputCallsHelp, InputExits
  <2>4. CASE InputStopsController
    <3>1. input \in StopLabels /\ input' \in {"reset", "join", "show"} /\ UNCHANGED displayMutex
      BY <2>4 DEF InputStopsController
    <3> QED
      BY <1>1, <3>1
  <2>5. CASE InputUnlocks
    BY <1>1, <2>5 DEF InputUnlocks
  <2> QED
    BY <2>1, <2>2, <2>3, <2>4, <2>5 DEF InputStep
<1> QED
  BY <1>2, <1>3

\* ScreenInv is inductive.
LEMMA ScreenInvStep == ScreenInv /\ [Next]_vars => ScreenInv'
<1> SUFFICES ASSUME ScreenInv, [Next]_vars PROVE ScreenInv'
  OBVIOUS
<1> USE DEF ScreenInv, MutexIsHeld, NotYetStarted
<1>1. CASE InputStep \/ InputReads
  BY <1>1, InputKeepsMutex
<1>2. CASE DisplayStep
  BY <1>2 DEF DisplayStep, FirstStatus, DisplayWakes, DisplayLocks, DisplayRefreshes,
              DisplayMoves
<1>3. CASE MainStep
  BY <1>3 DEF MainStep, StartInput, StartDisplay, StartHelp, StartDemo, StopsWatching,
              Destroy, MainMoves, uiVars, Executing, StopLabels
<1>4. CASE DemoStep \/ OthersPrint \/ Signal \/ HandlerStep
  <2>1. UNCHANGED uiVars /\ main' \in {main, "terminated", "exited"}
    BY <1>4 DEF DemoStep, DemoPlays, DemoEnds, OthersPrint, Signal, HandlerStep, StopsServer,
                ServerStopped, StopsController, CallsExit, ControllerStop
  <2> QED
    BY <2>1 DEF uiVars
<1>5. CASE UNCHANGED vars
  BY <1>5 DEF vars, uiVars
<1> QED
  BY <1>1, <1>2, <1>3, <1>4, <1>5 DEF Next

\* The response to a command stays on the screen until the input thread lets go
\* of displayMutex, once the display has made its first refresh, which takes no
\* mutex: whoever else prints, only a refresh clears the terminal
\* (UserInterface.cpp:62-68, :84-87).
THEOREM ResponsesStay == Spec => ResponseStays
<1>1. Init => ScreenInv
  BY DEF Init, ScreenInv, MutexIsHeld, NotYetStarted, Executing, StopLabels
<1>2. ScreenInv /\ [Next]_vars
        => [Responding /\ display # "first" /\ Responding' /\ "response" \in screen
              => "response" \in screen']_vars
  <2> SUFFICES ASSUME ScreenInv, [Next]_vars, Responding, display # "first",
                      "response" \in screen
               PROVE  "response" \in screen'
    OBVIOUS
  <2> USE DEF Writes
  <2>1. display # "refresh"
    BY DEF ScreenInv, MutexIsHeld, Executing, Responding
  <2>2. CASE InputStep \/ InputReads
    BY <2>2 DEF InputStep, InputLeaves, InputReads, InputLocks, InputResponds,
                InputCallsHelp, InputExits, InputStopsController, InputUnlocks
  <2>3. CASE DisplayStep
    BY <2>1, <2>3 DEF DisplayStep, FirstStatus, DisplayWakes, DisplayLocks,
                      DisplayRefreshes, DisplayMoves
  <2>4. CASE MainStep
    BY <2>4 DEF MainStep, StartInput, StartDisplay, StartHelp, StartDemo,
                StopsWatching, Destroy
  <2>5. CASE DemoStep \/ OthersPrint
    BY <2>5 DEF DemoStep, DemoPlays, DemoEnds, OthersPrint
  <2>6. CASE Signal \/ HandlerStep
    BY <2>6 DEF Signal, HandlerStep, StopsServer, ServerStopped, StopsController, CallsExit
  <2>7. CASE UNCHANGED vars
    BY <2>7 DEF vars
  <2> QED
    BY <2>2, <2>3, <2>4, <2>5, <2>6, <2>7 DEF Next
<1> QED
  BY <1>1, <1>2, ScreenInvStep, PTL DEF Spec, ResponseStays
=============================================================================
