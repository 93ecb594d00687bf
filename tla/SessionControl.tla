---------------------------- MODULE SessionControl ----------------------------
(***************************************************************************)
(* What the player does to the game on screen: the input router's modal    *)
(* layers (quit dialog, pause menu, core options, quick bar), pausing and  *)
(* resuming, sleep and wake, the audio engine the two start and stop, and  *)
(* the save, load and reset requests the core thread carries out.          *)
(*                                                                         *)
(* Loading and teardown are those of EmulatorLifecycle, reduced here to    *)
(* the blocks that reach this state.  The Discord window, the volume and   *)
(* the navigation inside an overlay change nothing here and are left out.  *)
(***************************************************************************)
EXTENDS Naturals

CONSTANTS
  Sessions,    \* the EmulatorSession objects a run may create (bounds launches)
  NoSession,   \* nil
  Commands,    \* the requests: save state, load state, reset
  NoCommand,   \* nil
  MaxStarts    \* bound on the engine starts queued for one session

ASSUME SessionControlAssumption ==
  NoSession \notin Sessions /\ NoCommand \notin Commands /\ MaxStarts \in Nat \ {0}

VARIABLES
  \* AppEnvironment, main thread
  emulator, isLaunchingGame, coreOptionsVisible, pauseMenuVisible, quickBarVisible,
  quitAsked,   \* pendingConfirmation holds "Quit ...?"
  polls,       \* sessions with a running waitForFirstFrame task
  asleep,      \* between willSleep and didWake
  \* EmulatorSession fields, one of each per session
  stage,       \* how far it has come: unused, loading, running, left, down
  paused,      \* pausedFlag
  pending,     \* pendingCommand
  thread,      \* the core thread: none, top (of runLoop), frame, ended
  owned,       \* audioEngine is not nil
  engine,      \* the engine: stopped, running, failed (stopped, its last start threw)
  starts,      \* engine.start() blocks queued on the global queue
  late         \* history: frames begun since the session was paused

uiVars == <<emulator, isLaunchingGame, coreOptionsVisible, pauseMenuVisible,
            quickBarVisible, quitAsked, polls, asleep>>
sessionVars == <<stage, paused, pending, thread, owned, engine, starts, late>>
vars == <<uiVars, sessionVars>>

Init ==
  /\ emulator = NoSession /\ polls = {}
  /\ isLaunchingGame = FALSE /\ coreOptionsVisible = FALSE /\ pauseMenuVisible = FALSE
  /\ quickBarVisible = FALSE /\ quitAsked = FALSE /\ asleep = FALSE
  /\ stage = [s \in Sessions |-> "unused"]
  /\ paused = [s \in Sessions |-> FALSE]
  /\ pending = [s \in Sessions |-> NoCommand]
  /\ thread = [s \in Sessions |-> "none"]
  /\ owned = [s \in Sessions |-> FALSE]
  /\ engine = [s \in Sessions |-> "stopped"]
  /\ starts = [s \in Sessions |-> 0]
  /\ late = [s \in Sessions |-> 0]

-----------------------------------------------------------------------------
(* What the handlers are made of.                                          *)

Halted(s) == IF engine[s] = "running" THEN "stopped" ELSE engine[s]

(* session.pause(): the flag, and a synchronous stop of the engine.        *)
Pause(s) ==
  /\ paused' = [paused EXCEPT ![s] = TRUE]
  /\ engine' = [engine EXCEPT ![s] = Halted(s)]
  /\ late' = [late EXCEPT ![s] = IF paused[s] THEN @ ELSE 0]
  /\ UNCHANGED starts

(* Bound: a resume happens only while another start can be queued.         *)
CanResume(s) == owned[s] => starts[s] < MaxStarts

\* Mutant: a resume that leaves the engine as it is.
ResumeSilently(s) ==
  /\ paused' = [paused EXCEPT ![s] = FALSE]
  /\ UNCHANGED <<engine, late, starts>>

\* Mutant: a resume queues its start twice.
ResumeTwice(s) ==
  /\ CanResume(s)
  /\ paused' = [paused EXCEPT ![s] = FALSE]
  /\ starts' = [starts EXCEPT ![s] = IF owned[s] THEN @ + 2 ELSE @]
  /\ UNCHANGED <<engine, late>>

(* session.resume(): the flag, and a start of the engine on another queue. *)
Resume(s) ==
  /\ CanResume(s)
  /\ paused' = [paused EXCEPT ![s] = FALSE]
  /\ starts' = [starts EXCEPT ![s] = IF owned[s] THEN @ + 1 ELSE @]
  /\ UNCHANGED <<engine, late>>

(* resume() followed by pause() in one handler.                            *)
ResumeThenPause(s) ==
  /\ CanResume(s)
  /\ paused' = [paused EXCEPT ![s] = TRUE]
  /\ engine' = [engine EXCEPT ![s] = Halted(s)]
  /\ late' = [late EXCEPT ![s] = 0]
  /\ starts' = [starts EXCEPT ![s] = IF owned[s] THEN @ + 1 ELSE @]

(* openCoreOptions().                                                      *)
OpenCoreOptions ==
  IF emulator # NoSession /\ ~coreOptionsVisible
    THEN coreOptionsVisible' = TRUE /\ Pause(emulator)
    ELSE UNCHANGED <<coreOptionsVisible, paused, engine, late, starts>>

(* Which layer of the router an input reaches.                             *)
Dialog == quitAsked
PauseMenu == ~Dialog /\ pauseMenuVisible /\ emulator # NoSession
Options == ~Dialog /\ ~PauseMenu /\ coreOptionsVisible /\ emulator # NoSession
Base == ~Dialog /\ ~PauseMenu /\ ~Options

-----------------------------------------------------------------------------
(* Main thread: launching and leaving.                                     *)

Launch(s) ==
  /\ Base /\ ~quickBarVisible /\ emulator = NoSession /\ stage[s] = "unused"
  /\ emulator' = s
  /\ isLaunchingGame' = TRUE
  /\ stage' = [stage EXCEPT ![s] = "loading"]
  /\ UNCHANGED <<coreOptionsVisible, pauseMenuVisible, quickBarVisible, quitAsked, polls, asleep,
                 paused, pending, thread, owned, engine, starts, late>>

(* The main-queue block of a load that succeeded: start(), with an engine  *)
(* of its own whose start is queued unless the core has no sample rate,    *)
(* and the first-frame poll.                                               *)
LoadDone(s) ==
  /\ stage[s] = "loading" /\ emulator = s
  /\ stage' = [stage EXCEPT ![s] = "running"]
  /\ \/ /\ owned' = [owned EXCEPT ![s] = TRUE]
        /\ starts' = [starts EXCEPT ![s] = 1]
     \/ UNCHANGED <<owned, starts>>
  /\ thread' = [thread EXCEPT ![s] = "top"]
  /\ polls' = polls \union {s}
  /\ UNCHANGED <<emulator, isLaunchingGame, coreOptionsVisible, pauseMenuVisible, quickBarVisible,
                 quitAsked, asleep, paused, pending, engine, late>>

(* The block of a load that failed: the session is gone, its overlays stay.*)
LoadFailed(s) ==
  /\ stage[s] = "loading" /\ emulator = s
  /\ stage' = [stage EXCEPT ![s] = "down"]
  /\ emulator' = NoSession
  /\ isLaunchingGame' = FALSE
  /\ UNCHANGED <<coreOptionsVisible, pauseMenuVisible, quickBarVisible, quitAsked, polls, asleep,
                 paused, pending, thread, owned, engine, starts, late>>

(* waitForFirstFrame ends: a frame was seen or ten seconds are over.       *)
FirstFrame(s) ==
  /\ s \in polls
  /\ polls' = polls \ {s}
  /\ isLaunchingGame' = FALSE
  /\ UNCHANGED <<emulator, coreOptionsVisible, pauseMenuVisible, quickBarVisible, quitAsked,
                 asleep, sessionVars>>

ExitEmulation ==
  /\ isLaunchingGame' = FALSE /\ coreOptionsVisible' = FALSE /\ pauseMenuVisible' = FALSE
  /\ emulator' = NoSession
  /\ stage' = [s \in Sessions |-> IF s = emulator THEN "left" ELSE stage[s]]
  /\ UNCHANGED <<quickBarVisible, polls, asleep, paused, pending, thread, owned, engine, starts, late>>

-----------------------------------------------------------------------------
(* Main thread: the router.                                                *)

DialogConfirm == Dialog /\ quitAsked' = FALSE /\ ExitEmulation

DialogDismiss ==
  /\ Dialog
  /\ quitAsked' = FALSE
  /\ UNCHANGED <<emulator, isLaunchingGame, coreOptionsVisible, pauseMenuVisible,
                 quickBarVisible, polls, asleep, sessionVars>>

(* Back: closes the quick bar, cancels a boot, or opens the pause menu.    *)
Back ==
  /\ Base
  /\ \/ /\ quickBarVisible
        /\ quickBarVisible' = FALSE
        /\ UNCHANGED <<emulator, isLaunchingGame, coreOptionsVisible, pauseMenuVisible,
                       quitAsked, polls, asleep, sessionVars>>
     \/ /\ ~quickBarVisible /\ emulator # NoSession /\ isLaunchingGame
        /\ ExitEmulation
        /\ UNCHANGED quitAsked
     \/ /\ ~quickBarVisible /\ emulator # NoSession /\ ~isLaunchingGame
        /\ pauseMenuVisible' = TRUE
        /\ Pause(emulator)
        /\ UNCHANGED <<emulator, isLaunchingGame, coreOptionsVisible, quickBarVisible,
                       quitAsked, polls, asleep, stage, pending, thread, owned>>

\* Mutant: the pause menu closes without resuming the game.
ClosePauseMenuOnly ==
  /\ PauseMenu
  /\ pauseMenuVisible' = FALSE
  /\ UNCHANGED <<emulator, isLaunchingGame, coreOptionsVisible, quickBarVisible, quitAsked,
                 polls, asleep, sessionVars>>

(* Resume, Circle or PS in the pause menu.                                 *)
ClosePauseMenu ==
  /\ PauseMenu
  /\ pauseMenuVisible' = FALSE
  /\ Resume(emulator)
  /\ UNCHANGED <<emulator, isLaunchingGame, coreOptionsVisible, quickBarVisible, quitAsked,
                 polls, asleep, stage, pending, thread, owned>>

(* Save, load or reset from the pause menu.                                *)
PauseMenuCommand(c) ==
  /\ PauseMenu
  /\ pauseMenuVisible' = FALSE
  /\ Resume(emulator)
  /\ pending' = [pending EXCEPT ![emulator] = c]
  /\ UNCHANGED <<emulator, isLaunchingGame, coreOptionsVisible, quickBarVisible, quitAsked,
                 polls, asleep, stage, thread, owned>>

PauseMenuCoreOptions ==
  /\ PauseMenu
  /\ pauseMenuVisible' = FALSE
  /\ IF coreOptionsVisible
       THEN Resume(emulator)
       ELSE ResumeThenPause(emulator)
  /\ coreOptionsVisible' = TRUE
  /\ UNCHANGED <<emulator, isLaunchingGame, quickBarVisible, quitAsked, polls, asleep,
                 stage, pending, thread, owned>>

PauseMenuQuit ==
  /\ PauseMenu
  /\ pauseMenuVisible' = FALSE
  /\ Resume(emulator)
  /\ quitAsked' = TRUE
  /\ UNCHANGED <<emulator, isLaunchingGame, coreOptionsVisible, quickBarVisible, polls, asleep,
                 stage, pending, thread, owned>>

(* Confirm on an option, Circle or PS in the options overlay.              *)
CloseCoreOptions ==
  /\ Options
  /\ coreOptionsVisible' = FALSE
  /\ Resume(emulator)
  /\ UNCHANGED <<emulator, isLaunchingGame, pauseMenuVisible, quickBarVisible, quitAsked, polls,
                 asleep, stage, pending, thread, owned>>

(* PS opens and closes the quick bar.                                      *)
ToggleQuickBar ==
  /\ Base
  /\ quickBarVisible' = ~quickBarVisible
  /\ UNCHANGED <<emulator, isLaunchingGame, coreOptionsVisible, pauseMenuVisible, quitAsked,
                 polls, asleep, sessionVars>>

(* PS while another program is in front: the bar opens over anything.      *)
HomeFromElsewhere ==
  /\ quickBarVisible' = TRUE
  /\ UNCHANGED <<emulator, isLaunchingGame, coreOptionsVisible, pauseMenuVisible, quitAsked,
                 polls, asleep, sessionVars>>

(* A pill of the quick bar: confirmed in the base layer, or clicked.       *)
QuickBarCommand(c) ==
  /\ quickBarVisible /\ ~Dialog /\ emulator # NoSession
  /\ quickBarVisible' = FALSE
  /\ pending' = [pending EXCEPT ![emulator] = c]
  /\ UNCHANGED <<emulator, isLaunchingGame, coreOptionsVisible, pauseMenuVisible, quitAsked,
                 polls, asleep, stage, paused, thread, owned, engine, starts, late>>

QuickBarCoreOptions ==
  /\ quickBarVisible /\ ~Dialog /\ emulator # NoSession
  /\ quickBarVisible' = FALSE
  /\ OpenCoreOptions
  /\ UNCHANGED <<emulator, isLaunchingGame, pauseMenuVisible, quitAsked, polls, asleep,
                 stage, pending, thread, owned>>

-----------------------------------------------------------------------------
(* Main thread: sleep and wake.                                            *)

WillSleep ==
  /\ ~asleep
  /\ asleep' = TRUE
  /\ IF emulator # NoSession THEN Pause(emulator) ELSE UNCHANGED <<paused, engine, late, starts>>
  /\ UNCHANGED <<emulator, isLaunchingGame, coreOptionsVisible, pauseMenuVisible, quickBarVisible,
                 quitAsked, polls, stage, pending, thread, owned>>

DidWake ==
  /\ asleep
  /\ asleep' = FALSE
  /\ IF emulator # NoSession /\ ~coreOptionsVisible /\ ~pauseMenuVisible
       THEN Resume(emulator)
       ELSE UNCHANGED <<paused, engine, late, starts>>
  /\ UNCHANGED <<emulator, isLaunchingGame, coreOptionsVisible, pauseMenuVisible, quickBarVisible,
                 quitAsked, polls, stage, pending, thread, owned>>

-----------------------------------------------------------------------------
(* The other threads.                                                      *)

(* The load queue has joined the core thread of a session that was left and*)
(* tears it down: the engine is stopped and dropped.  A thread that cannot *)
(* be joined is a matter of EmulatorLifecycle.                             *)
Teardown(s) ==
  /\ stage[s] = "left" /\ thread[s] \in {"none", "ended"}
  /\ stage' = [stage EXCEPT ![s] = "down"]
  /\ engine' = [engine EXCEPT ![s] = IF owned[s] THEN Halted(s) ELSE @]
  /\ owned' = [owned EXCEPT ![s] = FALSE]
  /\ UNCHANGED <<uiVars, paused, pending, thread, starts, late>>

(* A queued engine.start(): starts it unless it runs, and may throw.       *)
EngineStart(s) ==
  /\ starts[s] > 0
  /\ starts' = [starts EXCEPT ![s] = @ - 1]
  /\ \/ engine' = [engine EXCEPT ![s] = "running"]
     \/ engine[s] # "running" /\ engine' = [engine EXCEPT ![s] = "failed"]
  /\ UNCHANGED <<uiVars, stage, paused, pending, thread, owned, late>>

(* The last block that held a dropped engine ends: deinit stops it.        *)
EngineReleased(s) ==
  /\ stage[s] = "down" /\ starts[s] = 0 /\ engine[s] = "running"
  /\ engine' = [engine EXCEPT ![s] = "stopped"]
  /\ UNCHANGED <<uiVars, stage, paused, pending, thread, owned, starts, late>>

\* Mutant: the pause flag is looked at after the frame.
LoopTopUnpaused(s) ==
  /\ thread[s] = "top"
  /\ thread' = [thread EXCEPT ![s] = IF stage[s] \in {"left", "down"} THEN "ended" ELSE "frame"]
  /\ UNCHANGED <<uiVars, stage, paused, pending, owned, engine, starts, late>>

(* The top of runLoop: end when told to stop, when the core has asked to   *)
(* shut down, or go on to a frame unless paused.                           *)
LoopTop(s) ==
  /\ thread[s] = "top"
  /\ \/ thread' = [thread EXCEPT ![s] = "ended"]
     \/ /\ stage[s] \notin {"left", "down"} /\ ~paused[s]
        /\ thread' = [thread EXCEPT ![s] = "frame"]
  /\ UNCHANGED <<uiVars, stage, paused, pending, owned, engine, starts, late>>

\* Mutant: the command is looked at but stays pending.
FrameKeeping(s) ==
  /\ thread[s] = "frame"
  /\ thread' = [thread EXCEPT ![s] = "top"]
  /\ late' = [late EXCEPT ![s] = IF paused[s] THEN @ + 1 ELSE @]
  /\ UNCHANGED <<uiVars, stage, paused, pending, owned, engine, starts>>

(* retro_run, then the requested command if there is one.                  *)
Frame(s) ==
  /\ thread[s] = "frame"
  /\ thread' = [thread EXCEPT ![s] = "top"]
  /\ pending' = [pending EXCEPT ![s] = NoCommand]
  /\ late' = [late EXCEPT ![s] = IF paused[s] THEN @ + 1 ELSE @]
  /\ UNCHANGED <<uiVars, stage, paused, owned, engine, starts>>

-----------------------------------------------------------------------------
MainThread ==
  \/ \E s \in Sessions : Launch(s) \/ LoadDone(s) \/ LoadFailed(s) \/ FirstFrame(s)
  \/ DialogConfirm \/ DialogDismiss \/ Back
  \/ ClosePauseMenu \/ PauseMenuCoreOptions \/ PauseMenuQuit
  \/ \E c \in Commands : PauseMenuCommand(c) \/ QuickBarCommand(c)
  \/ CloseCoreOptions \/ ToggleQuickBar \/ HomeFromElsewhere \/ QuickBarCoreOptions
  \/ WillSleep \/ DidWake

OtherThreads ==
  \E s \in Sessions :
    Teardown(s) \/ EngineStart(s) \/ EngineReleased(s) \/ LoopTop(s) \/ Frame(s)

Next == MainThread \/ OtherThreads

Spec == Init /\ [][Next]_vars

(* The core thread keeps looping.                                          *)
Fairness == \A s \in Sessions : WF_vars(LoopTop(s)) /\ WF_vars(Frame(s))

FairSpec == Spec /\ Fairness

-----------------------------------------------------------------------------
(* Properties.                                                             *)

(* Flags are Booleans and a session is where its stage allows.             *)
TypeOK ==
  /\ emulator \in Sessions \union {NoSession} /\ polls \subseteq Sessions
  /\ isLaunchingGame \in BOOLEAN /\ coreOptionsVisible \in BOOLEAN /\ pauseMenuVisible \in BOOLEAN
  /\ quickBarVisible \in BOOLEAN /\ quitAsked \in BOOLEAN /\ asleep \in BOOLEAN
  /\ stage \in [Sessions -> {"unused", "loading", "running", "left", "down"}]
  /\ paused \in [Sessions -> BOOLEAN]
  /\ pending \in [Sessions -> Commands \union {NoCommand}]
  /\ thread \in [Sessions -> {"none", "top", "frame", "ended"}]
  /\ owned \in [Sessions -> BOOLEAN]
  /\ engine \in [Sessions -> {"stopped", "running", "failed"}]
  /\ starts \in [Sessions -> 0..MaxStarts]
  /\ late \in [Sessions -> 0..1]

(* A paused game on screen always has something that resumes it: an        *)
(* overlay the player can close or the machine's waking up.                *)
GameNeverStuckPaused ==
  emulator # NoSession /\ paused[emulator] => pauseMenuVisible \/ coreOptionsVisible \/ asleep

(* When the queued starts have run, a game that has an engine and is not   *)
(* paused is heard (unless its engine refused to start).                   *)
AudioComesBack ==
  \A s \in Sessions :
    stage[s] = "running" /\ owned[s] /\ ~paused[s] /\ starts[s] = 0 => engine[s] \in {"running", "failed"}

(* A paused core finishes at most the frame it had begun.                  *)
PausedCoreStops == \A s \in Sessions : late[s] + (IF thread[s] = "frame" /\ paused[s] THEN 1 ELSE 0) <= 1

(* Why the three hold: with what the main thread knows of the session on   *)
(* screen, they are inductive.                                             *)
OnScreen == emulator # NoSession => stage[emulator] \in {"loading", "running"}
Untouched == \A s \in Sessions : stage[s] = "unused" => ~paused[s]
NoEngineYet == \A s \in Sessions : stage[s] \in {"unused", "loading"} => ~owned[s]

ControlInv ==
  /\ TypeOK /\ OnScreen /\ Untouched /\ NoEngineYet
  /\ GameNeverStuckPaused /\ AudioComesBack /\ PausedCoreStops

(* A request made of a running game is carried out, unless the game is     *)
(* paused, left or has ended by itself first.                              *)
CommandIsTaken ==
  \A s \in Sessions :
    pending[s] # NoCommand /\ stage[s] = "running"
      ~> pending[s] = NoCommand \/ paused[s] \/ stage[s] # "running" \/ thread[s] = "ended"

=============================================================================
