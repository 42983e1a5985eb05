--------------------------- MODULE UserInterface ---------------------------
(***************************************************************************)
(* The class UserInterface, the thread of DemoRunner and the part of main  *)
(* around them: the thread that reads commands, the one that refreshes the *)
(* display, the one that plays the demo, and main, which creates the       *)
(* objects, watches their flags, destroys them, and handles signals.  A    *)
(* command is help, exit, or one of the others, whose effect is the        *)
(* controller's (ElevatorController.tla, GoCommand.tla).  No property      *)
(* depends on how long the loops sleep.                                    *)
(***************************************************************************)
EXTENDS DemoRunner, Sequences

CONSTANT RunDemo   \* the option --demo

\* The bound on the signals that are handled at a time.  A signal is blocked in
\* the thread that handles it, so main takes one of each kind, and a third would
\* be handled by another thread.
MaxSignals == 2

ASSUME RunDemoAssumption == RunDemo \in BOOLEAN

VARIABLES
  running,            \* the flag of UserInterface
  displayMutex,       \* who holds it
  input,              \* the thread in inputLoop
  display,            \* the thread in displayLoop
  demo,               \* the thread in runDemo: how many steps it has played
  demoRunning,        \* the flag of DemoRunner
  main,               \* main, from ui.start() on
  screen,             \* what has been printed since the terminal was cleared
  controllerRunning,  \* the flag of ElevatorController
  handlers,           \* the calls of signalHandler on the stack of main
  stuck               \* the part of stop that never returns in this run

uiVars == <<running, displayMutex, input, display>>
demoVars == <<demo, demoRunning>>
stopVars == <<controllerRunning, handlers, stuck>>
vars == <<uiVars, demoVars, main, screen, stopVars>>

(* ElevatorController::stop.  "test": before the test of running.  "reset":*)
(* behind it.  "join": waits for the threads.                              *)
StopLabels == {"test", "reset", "join"}
(* "lock": before displayMutex.  "execute": holds it, in processCommand.   *)
(* "help": in displayHelp.  "show": sleeps, so that the response can be    *)
(* read, and still holds displayMutex.                                     *)
InputLabels == {"off", "read", "lock", "execute", "help", "show", "exited"} \cup StopLabels
(* "first": before the refresh that takes no mutex.                        *)
DisplayLabels == {"off", "first", "sleep", "lock", "refresh", "exited"}
(* "startDisplay" and "startHelp": in ui.start().  "startDemo": before     *)
(* demo.start().  "watch": waits for the flags.  "destroy": the objects go *)
(* out of scope.                                                           *)
MainLabels == {"created", "startDisplay", "startHelp", "startDemo", "watch",
               "destroy", "terminated", "exited"}
(* "server": before ElevatorServer::stop.  "stopServer": in it.            *)
HandlerLabels == {"server", "stopServer", "exit"} \cup StopLabels
(* ElevatorServer.tla: a connected client is enough.  SharedElevator.tla:  *)
(* a car that misses its notification.                                     *)
StuckStops == {"nothing", "stopServer", "join"}
(* "line": of a thread that does not take displayMutex.                    *)
Texts == {"status", "response", "help", "line"}

TypeOK ==
  /\ running \in BOOLEAN
  /\ displayMutex \in {"nobody", "input", "display"}
  /\ input \in InputLabels
  /\ display \in DisplayLabels
  /\ demo \in 0..NumSteps
  /\ demoRunning \in BOOLEAN
  /\ main \in MainLabels
  /\ screen \subseteq Texts
  /\ controllerRunning \in BOOLEAN
  /\ handlers \in Seq(HandlerLabels) /\ Len(handlers) <= MaxSignals
  /\ stuck \in StuckStops

Init ==
  /\ running = FALSE /\ displayMutex = "nobody"
  /\ input = "off" /\ display = "off"
  /\ demo = 0 /\ demoRunning = FALSE
  /\ main = "created"
  /\ screen = {}
  /\ controllerRunning = TRUE /\ handlers = <<>>
  /\ stuck \in StuckStops

\* exit and std::terminate end all threads.
Alive == main \notin {"terminated", "exited"}

\* std::cout appends.  Only displayStatus clears the terminal before it prints.
Writes(text) == screen' = screen \cup {text}

-----------------------------------------------------------------------------
(* ElevatorController::stop, called by the input thread and by the handler  *)
(* of a signal, which goes from one label to another and behind stop to    *)
(* next.  Two callers who have both found running set may join the same    *)
(* threads, which is undefined: it works, if one of them is late, or it    *)
(* throws and ends the process.                                            *)

BothJoin == input = "join" /\ handlers # <<>> /\ handlers[Len(handlers)] = "join"

ControllerStop(from, to, next) ==
  \/ /\ from = "test" /\ to = (IF controllerRunning THEN "reset" ELSE next)
     /\ UNCHANGED <<controllerRunning, main>>
  \/ /\ from = "reset" /\ to = "join"
     /\ controllerRunning' = FALSE
     /\ UNCHANGED main
  \/ /\ stuck # "join"
     /\ from = "join" /\ to = next
     /\ UNCHANGED <<controllerRunning, main>>
  \/ /\ BothJoin
     /\ from = "join" /\ to = next
     /\ main' = "terminated"
     /\ UNCHANGED controllerRunning

-----------------------------------------------------------------------------
(* inputLoop and processCommand.                                           *)

InputMoves(from, to) == Alive /\ input = from /\ input' = to

InputLeaves ==
  /\ ~running
  /\ InputMoves("read", "exited")
  /\ UNCHANGED <<running, displayMutex, display, demoVars, main, screen, stopVars>>

\* Somebody types a line.  Which command it is shows when it is executed; an
\* empty one is among the others.
InputReads ==
  /\ running
  /\ InputMoves("read", "lock")
  /\ UNCHANGED <<running, displayMutex, display, demoVars, main, screen, stopVars>>

InputLocks ==
  /\ displayMutex = "nobody"
  /\ InputMoves("lock", "execute")
  /\ displayMutex' = "input"
  /\ UNCHANGED <<running, display, demoVars, main, screen, stopVars>>

\* An empty command has no response.
InputResponds ==
  /\ InputMoves("execute", "show")
  /\ UNCHANGED screen \/ Writes("response")
  /\ UNCHANGED <<running, displayMutex, display, demoVars, main, stopVars>>

\* displayHelp locks displayMutex, which is not recursive and in the hand of
\* this very thread: the call never returns, and no action leaves "help".
InputCallsHelp ==
  /\ InputMoves("execute", "help")
  /\ UNCHANGED <<running, displayMutex, display, demoVars, main, screen, stopVars>>

\* Seeded fault: exit stops the controller and does not reset running.
InputExitsKeepRunning ==
  /\ InputMoves("execute", "test")
  /\ Writes("response")
  /\ UNCHANGED <<running, displayMutex, display, demoVars, main, stopVars>>

InputExits ==
  /\ InputMoves("execute", "test")
  /\ running' = FALSE
  /\ Writes("response")
  /\ UNCHANGED <<displayMutex, display, demoVars, main, stopVars>>

InputStopsController ==
  /\ \E from \in StopLabels, to \in {"reset", "join", "show"} :
       InputMoves(from, to) /\ ControllerStop(from, to, "show")
  /\ UNCHANGED <<running, displayMutex, display, demoVars, screen, handlers, stuck>>

InputUnlocks ==
  /\ InputMoves("show", "read")
  /\ displayMutex' = "nobody"
  /\ UNCHANGED <<running, display, demoVars, main, screen, stopVars>>

InputStep ==
  \/ InputLeaves \/ InputLocks \/ InputResponds \/ InputCallsHelp
  \/ InputExits \/ InputStopsController \/ InputUnlocks

-----------------------------------------------------------------------------
(* displayLoop.                                                            *)

DisplayMoves(from, to) == Alive /\ display = from /\ display' = to

FirstStatus ==
  /\ DisplayMoves("first", "sleep")
  /\ screen' = {"status"}
  /\ UNCHANGED <<running, displayMutex, input, demoVars, main, stopVars>>

DisplayWakes ==
  /\ DisplayMoves("sleep", IF running THEN "lock" ELSE "exited")
  /\ UNCHANGED <<running, displayMutex, input, demoVars, main, screen, stopVars>>

\* Seeded fault: the display is refreshed without the mutex.
DisplayLocksNothing ==
  /\ DisplayMoves("lock", "refresh")
  /\ UNCHANGED <<running, displayMutex, input, demoVars, main, screen, stopVars>>

DisplayLocks ==
  /\ displayMutex = "nobody"
  /\ DisplayMoves("lock", "refresh")
  /\ displayMutex' = "display"
  /\ UNCHANGED <<running, input, demoVars, main, screen, stopVars>>

\* The terminal is cleared, the status is on it, the mutex is released; the while
\* follows.
DisplayRefreshes ==
  /\ DisplayMoves("refresh", "sleep")
  /\ displayMutex' = "nobody"
  /\ screen' = {"status"}
  /\ UNCHANGED <<running, input, demoVars, main, stopVars>>

DisplayStep == FirstStatus \/ DisplayWakes \/ DisplayLocks \/ DisplayRefreshes

-----------------------------------------------------------------------------
(* runDemo.  It writes to the terminal without displayMutex.               *)

\* Seeded fault: the demo does not stop behind its last step.
DemoPlaysOn ==
  /\ Alive /\ demoRunning
  /\ demo' = demo + 1
  /\ Writes("line")
  /\ UNCHANGED <<uiVars, demoRunning, main, stopVars>>

DemoPlays ==
  /\ Alive /\ demoRunning /\ demo < NumSteps
  /\ demo' = demo + 1
  /\ Writes("line")
  /\ UNCHANGED <<uiVars, demoRunning, main, stopVars>>

DemoEnds ==
  /\ Alive /\ demoRunning /\ demo = NumSteps
  /\ demoRunning' = FALSE
  /\ Writes("line")
  /\ UNCHANGED <<uiVars, demo, main, stopVars>>

DemoStep == DemoPlays \/ DemoEnds

-----------------------------------------------------------------------------
\* The other threads print without displayMutex at any time: each logged event
\* (the dispatcher, and whoever calls addRequest or an emergency command), the
\* threads of the server, and the input thread its prompt.
OthersPrint ==
  /\ Alive
  /\ Writes("line")
  /\ UNCHANGED <<uiVars, demoVars, main, stopVars>>

-----------------------------------------------------------------------------
(* main.                                                                   *)

\* A signal is handled on the stack of main.
MainMoves(from, to) == handlers = <<>> /\ main = from /\ main' = to

StartInput ==
  /\ MainMoves("created", "startDisplay")
  /\ running' = TRUE
  /\ input' = "read"
  /\ UNCHANGED <<displayMutex, display, demoVars, screen, stopVars>>

StartDisplay ==
  /\ MainMoves("startDisplay", "startHelp")
  /\ display' = "first"
  /\ UNCHANGED <<running, displayMutex, input, demoVars, screen, stopVars>>

StartHelp ==
  /\ displayMutex = "nobody"
  /\ MainMoves("startHelp", IF RunDemo THEN "startDemo" ELSE "watch")
  /\ Writes("help")
  /\ UNCHANGED <<uiVars, demoVars, stopVars>>

StartDemo ==
  /\ MainMoves("startDemo", "watch")
  /\ demoRunning' = TRUE
  /\ UNCHANGED <<uiVars, demo, screen, stopVars>>

StopsWatching ==
  /\ ~running /\ ~demoRunning
  /\ MainMoves("watch", "destroy")
  /\ UNCHANGED <<uiVars, demoVars, screen, stopVars>>

\* The destructors call stop(), which returns at once because running has been
\* reset already, and leave threads that nobody has joined: std::terminate.
\* The statements of main behind the block are never reached.
Destroy ==
  /\ MainMoves("destroy", "terminated")
  /\ UNCHANGED <<uiVars, demoVars, screen, stopVars>>

MainStep ==
  StartInput \/ StartDisplay \/ StartHelp \/ StartDemo \/ StopsWatching \/ Destroy

-----------------------------------------------------------------------------
(* signalHandler, which prints first.                                      *)

Signal ==
  /\ Alive /\ Len(handlers) < MaxSignals
  /\ handlers' = Append(handlers, "server")
  /\ Writes("line")
  /\ UNCHANGED <<uiVars, demoVars, main, controllerRunning, stuck>>

Active == Len(handlers)
HandlerMoves(from, to) ==
  /\ Alive /\ handlers # <<>> /\ handlers[Active] = from
  /\ handlers' = [handlers EXCEPT ![Active] = to]

\* ElevatorServer::stop returns at once when it has been called before.
StopsServer ==
  /\ HandlerMoves("server",
       IF \E k \in DOMAIN handlers : handlers[k] # "server" THEN "test" ELSE "stopServer")
  /\ UNCHANGED <<uiVars, demoVars, main, screen, controllerRunning, stuck>>

ServerStopped ==
  /\ stuck # "stopServer"
  /\ HandlerMoves("stopServer", "test")
  /\ UNCHANGED <<uiVars, demoVars, main, screen, controllerRunning, stuck>>

StopsController ==
  /\ \E from \in StopLabels, to \in {"reset", "join", "exit"} :
       HandlerMoves(from, to) /\ ControllerStop(from, to, "exit")
  /\ UNCHANGED <<uiVars, demoVars, screen, stuck>>

\* Seeded fault: the handler returns to main.
HandlerReturns ==
  /\ HandlerMoves("exit", "exit")
  /\ UNCHANGED <<uiVars, demoVars, main, screen, controllerRunning, stuck>>

CallsExit ==
  /\ HandlerMoves("exit", "exit")
  /\ main' = "exited"
  /\ UNCHANGED <<uiVars, demoVars, screen, controllerRunning, stuck>>

HandlerStep == StopsServer \/ ServerStopped \/ StopsController \/ CallsExit

-----------------------------------------------------------------------------
Next ==
  \/ InputStep \/ InputReads \/ DisplayStep \/ DemoStep \/ OthersPrint
  \/ MainStep \/ Signal \/ HandlerStep

Spec == Init /\ [][Next]_vars

\* Every thread is scheduled; nobody has to type or to send a signal.
FairSpec ==
  /\ Spec
  /\ WF_vars(InputStep) /\ WF_vars(DisplayStep) /\ WF_vars(DemoStep)
  /\ WF_vars(MainStep) /\ WF_vars(HandlerStep)

-----------------------------------------------------------------------------
\* Once the display thread has shown its first status, nobody clears the response
\* to a command away before the input thread lets go of displayMutex, through a
\* controller.stop() too (UserInterface.cpp:62-68, :84-87).
Responding == input \in {"show"} \cup StopLabels

ResponseStays ==
  [][Responding /\ display # "first" /\ Responding' /\ "response" \in screen
       => "response" \in screen']_vars

\* After exit, main leaves its loop whatever the other threads do, the demo and
\* a display that waits for the mutex included (main.cpp:114-116, :127-129).
\* Where a stop never returns, it may be held up in the handler of a signal, or
\* in the displayHelp of ui.start(), for which exit keeps the mutex.
ExitIsNoticed ==
  input = "test" ~>
    ~Alive \/ (stuck # "nothing" /\ (handlers # <<>> \/ main \in {"startDisplay", "startHelp"}))

\* A signal ends the process, whoever is in controller.stop() at the time; where
\* a stop never returns, a signal of the other kind does, because the flags have
\* been reset before (main.cpp:14-26, ElevatorServer.cpp:72-76,
\* ElevatorController.cpp:53-57).
SignalEndsProcess ==
  \/ handlers # <<>> /\ stuck = "nothing"
  \/ Len(handlers) = MaxSignals /\ handlers[1] = stuck
  ~> ~Alive

\* What the last step of the demo may have asked on account of this car.
Asked(car) == UNION {Calls(step, car) : step \in {demo} \ {0}}

\* In a building of eight floors or more, every request of the demo is one that
\* the controller takes and whose direction its passengers can go
\* (DemoRunner.cpp:70-261), except for those that begin at a car which stands
\* outside the building (ElevatorController.cpp:281).
DemoIsSensible ==
  NumFloors >= 8 =>
    \A car \in CarStatus : \A call \in Asked(car) : Sensible(call) \/ BeginsOutside(call, car)

\* "Setting destination to floor 8" (DemoRunner.cpp:89), in any building that
\* main accepts (main.cpp:68).
DemoFitsBuilding == \A car \in CarStatus : \A call \in Asked(car) : Sensible(call)

\* "Process the command in a way that doesn't get immediately overwritten"
\* (UserInterface.cpp:62): the first refresh takes no mutex.
ResponseIsNotOverwritten ==
  [][Responding /\ Responding' /\ "response" \in screen => "response" \in screen']_vars

\* "help - Display this help message" (UserInterface.cpp:188).
HelpIsDisplayed == input = "help" ~> ~Alive \/ ("help" \in screen /\ input = "read")

\* "exit - Exit the simulation" (UserInterface.cpp:189, README.md:157), after
\* which main is to "Clean up" (main.cpp:132): the process is not aborted.
ExitIsGraceful == handlers = <<>> => main # "terminated"

\* "Signal handler for graceful shutdown" (main.cpp:13): not by std::terminate.
\* The command exit and the handler may join the same threads.
SignalIsGraceful == handlers # <<>> => main # "terminated"
=============================================================================
