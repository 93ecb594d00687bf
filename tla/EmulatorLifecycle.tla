------------------------- MODULE EmulatorLifecycle -------------------------
(***************************************************************************)
(* How a game is started, run and ended: the main thread's launch and exit *)
(* handlers (AppEnvironment), the serial emulatorLoadQueue that loads and  *)
(* tears down libretro cores, the blocks it posts back to the main queue,  *)
(* and one core thread per started EmulatorSession.                        *)
(*                                                                         *)
(* Every element of Sessions is one EmulatorSession object: a launch takes *)
(* a fresh one and no object is started twice.  Pausing is left to module  *)
(* SessionControl: here a core thread that idles simply takes no step.     *)
(***************************************************************************)
EXTENDS Naturals, Sequences

CONSTANTS
  Sessions,    \* the EmulatorSession objects a run may create (bounds launches)
  NoSession,   \* nil
  OtherEntry   \* the library entry of a Steam or PSP game, or of a DS game without a core

ASSUME NoSessionAssumption == NoSession \notin Sessions
ASSUME OtherEntryAssumption == OtherEntry \notin Sessions /\ OtherEntry # NoSession

VARIABLES
  \* AppEnvironment, main thread
  emulator, screen, isLaunching, isLaunchingGame, isEmulatorLoadPending,
  idleActivity,          \* a keep-awake activity is held
  sessionEntryID,        \* the entry whose playtime is being measured
  quitAsked,             \* the "Quit ...?" confirmation is on screen
  handoff,               \* the external program in front: "none", "steam", "psp"
  polls,                 \* sessions with a running waitForFirstFrame task
  launched,              \* sessions handed to startEmulator
  played,                \* number of playtime records written for a session's entry
  \* the queues and the load queue's worker
  mainQ, loadQ, worker,
  \* EmulatorSession statics and fields
  active, quarantined,
  state, core, thread, stopRequested, shutdownRequested, coreThreadStuck,
  hwRenderActive, rcService

mainVars == <<emulator, screen, isLaunching, isLaunchingGame, isEmulatorLoadPending,
              idleActivity, sessionEntryID, quitAsked, handoff, launched, played>>
coreVars == <<state, core, thread, stopRequested, shutdownRequested, coreThreadStuck,
              hwRenderActive, rcService>>
vars == <<mainVars, polls, mainQ, loadQ, worker, active, quarantined, coreVars>>

Idle == [pc |-> "idle", s |-> NoSession]
At(pc, s) == [pc |-> pc, s |-> s]
Block(op, s) == [op |-> op, s |-> s]

LoadPCs == {"dlopen", "init", "loadGame", "postDone", "postFailed"}
StopPCs == {"join", "teardown", "context", "park", "unload", "close"}
LivePCs == {"top", "inCore", "pump"}

(* The core thread of s exists and has not left runLoop. *)
Alive(s) == thread[s] \in LivePCs

Init ==
  /\ emulator = NoSession /\ screen = "xmb"
  /\ isLaunching = FALSE /\ isLaunchingGame = FALSE /\ isEmulatorLoadPending = FALSE
  /\ idleActivity = FALSE /\ sessionEntryID = NoSession
  /\ quitAsked = FALSE /\ handoff = "none" /\ polls = {} /\ launched = {}
  /\ played = [s \in Sessions |-> 0]
  /\ mainQ = <<>> /\ loadQ = <<>> /\ worker = Idle
  /\ active = NoSession /\ quarantined = {}
  /\ state = [s \in Sessions |-> "idle"]
  /\ core = [s \in Sessions |-> "none"]
  /\ thread = [s \in Sessions |-> "none"]
  /\ stopRequested = [s \in Sessions |-> FALSE]
  /\ shutdownRequested = [s \in Sessions |-> FALSE]
  /\ coreThreadStuck = [s \in Sessions |-> FALSE]
  /\ hwRenderActive = [s \in Sessions |-> FALSE]
  /\ rcService = [s \in Sessions |-> "none"]

-----------------------------------------------------------------------------
(* Main thread: launching.                                                 *)

(* An XMB item can be confirmed (no dialog, XMB on screen) and launch() is *)
(* not turned away by its re-entrancy guard.                               *)
CanLaunch ==
  /\ ~quitAsked /\ screen = "xmb"
  /\ ~isLaunching /\ ~isLaunchingGame /\ emulator = NoSession /\ ~idleActivity

(* endSessionTracking: one playtime record for the entry being measured.   *)
EndSessionTracking ==
  /\ sessionEntryID' = NoSession
  /\ played' = [s \in Sessions |-> IF s = sessionEntryID THEN played[s] + 1 ELSE played[s]]

LaunchHandoff(kind) ==
  /\ CanLaunch
  /\ handoff' = kind
  /\ isLaunching' = (kind = "steam")
  /\ idleActivity' = TRUE
  /\ sessionEntryID' = OtherEntry
  /\ UNCHANGED <<emulator, screen, isLaunchingGame, isEmulatorLoadPending, quitAsked,
                 launched, played, polls, mainQ, loadQ, worker, active, quarantined, coreVars>>

(* No Steam, no PPSSPP or no ROM: the bookkeeping just begun is undone.    *)
LaunchHandoffFails ==
  /\ CanLaunch
  /\ sessionEntryID' = NoSession
  /\ UNCHANGED <<emulator, screen, isLaunching, isLaunchingGame, isEmulatorLoadPending,
                 idleActivity, quitAsked, handoff, launched, played,
                 polls, mainQ, loadQ, worker, active, quarantined, coreVars>>

(* Steam or PPSSPP has quit: restoreAfterSteam.                            *)
RestoreAfterHandoff ==
  /\ handoff # "none"
  /\ handoff' = "none"
  /\ isLaunching' = FALSE
  /\ idleActivity' = FALSE
  /\ EndSessionTracking
  /\ UNCHANGED <<emulator, screen, isLaunchingGame, isEmulatorLoadPending, quitAsked,
                 launched, polls, mainQ, loadQ, worker, active, quarantined, coreVars>>

(* A DS game without a core: launch() has begun the session, startEmulator *)
(* only shows an error.                                                    *)
LaunchWithoutCore ==
  /\ CanLaunch
  /\ sessionEntryID' = OtherEntry
  /\ UNCHANGED <<emulator, screen, isLaunching, isLaunchingGame, isEmulatorLoadPending,
                 idleActivity, quitAsked, handoff, launched, played,
                 polls, mainQ, loadQ, worker, active, quarantined, coreVars>>

StartEmulator(s) ==
  /\ CanLaunch
  /\ s \notin launched
  /\ launched' = launched \union {s}
  /\ emulator' = s
  /\ screen' = "emulator"
  /\ isLaunchingGame' = TRUE
  /\ isEmulatorLoadPending' = TRUE
  /\ idleActivity' = TRUE
  /\ sessionEntryID' = s
  /\ loadQ' = Append(loadQ, Block("load", s))
  /\ UNCHANGED <<isLaunching, quitAsked, handoff, played,
                 polls, mainQ, worker, active, quarantined, coreVars>>

-----------------------------------------------------------------------------
(* Main thread: leaving the emulator.                                      *)

(* Pause menu, then Quit: ask first.  The menu may be left over from a     *)
(* game that failed to load and stand over the next one's boot.            *)
AskQuit ==
  /\ emulator # NoSession /\ screen = "emulator" /\ ~quitAsked
  /\ quitAsked' = TRUE
  /\ UNCHANGED <<emulator, screen, isLaunching, isLaunchingGame, isEmulatorLoadPending,
                 idleActivity, sessionEntryID, handoff, launched, played,
                 polls, mainQ, loadQ, worker, active, quarantined, coreVars>>

DismissQuit ==
  /\ quitAsked
  /\ quitAsked' = FALSE
  /\ UNCHANGED <<emulator, screen, isLaunching, isLaunchingGame, isEmulatorLoadPending,
                 idleActivity, sessionEntryID, handoff, launched, played,
                 polls, mainQ, loadQ, worker, active, quarantined, coreVars>>

\* Mutant: exitEmulation without "guard let session".
ExitUnguarded ==
  /\ quitAsked \/ (screen = "emulator" /\ isLaunchingGame)
  /\ quitAsked' = FALSE
  /\ isLaunching' = FALSE
  /\ isLaunchingGame' = FALSE
  /\ emulator' = NoSession
  /\ idleActivity' = FALSE
  /\ EndSessionTracking
  /\ screen' = "xmb"
  /\ loadQ' = Append(loadQ, Block("stop", emulator))
  /\ UNCHANGED <<isEmulatorLoadPending, handoff, launched,
                 polls, mainQ, worker, active, quarantined, coreVars>>

\* Mutant: exitEmulation trusting a pending load to tear down.
ExitLeavingLoad ==
  /\ quitAsked \/ (screen = "emulator" /\ isLaunchingGame)
  /\ quitAsked' = FALSE
  /\ isLaunching' = FALSE
  /\ isLaunchingGame' = FALSE
  /\ emulator' = NoSession
  /\ idleActivity' = FALSE
  /\ EndSessionTracking
  /\ screen' = "xmb"
  /\ loadQ' = IF emulator = NoSession \/ isEmulatorLoadPending THEN loadQ ELSE Append(loadQ, Block("stop", emulator))
  /\ UNCHANGED <<isEmulatorLoadPending, handoff, launched,
                 polls, mainQ, worker, active, quarantined, coreVars>>

(* exitEmulation, from a confirmed Quit or from Back while booting.        *)
ExitEmulation ==
  /\ quitAsked \/ (screen = "emulator" /\ isLaunchingGame)
  /\ quitAsked' = FALSE
  /\ isLaunching' = FALSE
  /\ isLaunchingGame' = FALSE
  /\ emulator' = NoSession
  /\ idleActivity' = FALSE
  /\ EndSessionTracking
  /\ screen' = "xmb"
  /\ loadQ' = IF emulator = NoSession THEN loadQ ELSE Append(loadQ, Block("stop", emulator))
  /\ UNCHANGED <<isEmulatorLoadPending, handoff, launched,
                 polls, mainQ, worker, active, quarantined, coreVars>>

-----------------------------------------------------------------------------
(* Main thread: blocks posted by the load queue, and the first-frame task. *)

(* EmulatorSession.start().                                                *)
Start(s) ==
  IF state[s] = "loaded"
    THEN /\ state' = [state EXCEPT ![s] = "running"]
         /\ stopRequested' = [stopRequested EXCEPT ![s] = FALSE]
         /\ thread' = [thread EXCEPT ![s] = "top"]
    ELSE UNCHANGED <<state, stopRequested, thread>>

(* The load succeeded; the session may have been left meanwhile.           *)
LoadDone ==
  /\ mainQ # <<>> /\ Head(mainQ).op = "done"
  /\ mainQ' = Tail(mainQ)
  /\ isEmulatorLoadPending' = FALSE
  /\ LET s == Head(mainQ).s IN
       IF emulator = s
         THEN Start(s) /\ polls' = polls \union {s}
         ELSE UNCHANGED <<state, stopRequested, thread, polls>>
  /\ UNCHANGED <<emulator, screen, isLaunching, isLaunchingGame, idleActivity,
                 sessionEntryID, quitAsked, handoff, launched, played, loadQ, worker,
                 active, quarantined, core, shutdownRequested, coreThreadStuck,
                 hwRenderActive, rcService>>

\* Mutant: a failed load leaves the playtime clock running.
LoadFailedUntracked ==
  /\ mainQ # <<>> /\ Head(mainQ).op = "failed"
  /\ mainQ' = Tail(mainQ)
  /\ IF emulator = Head(mainQ).s
       THEN /\ isEmulatorLoadPending' = FALSE
            /\ isLaunchingGame' = FALSE
            /\ emulator' = NoSession
            /\ screen' = "xmb"
            /\ idleActivity' = FALSE
            /\ UNCHANGED <<sessionEntryID, played>>
       ELSE UNCHANGED <<isEmulatorLoadPending, isLaunchingGame, emulator, screen,
                        idleActivity, sessionEntryID, played>>
  /\ UNCHANGED <<isLaunching, quitAsked, handoff, launched, polls, loadQ, worker,
                 active, quarantined, coreVars>>

(* The load failed; only the session on screen is reported and dropped.    *)
LoadFailed ==
  /\ mainQ # <<>> /\ Head(mainQ).op = "failed"
  /\ mainQ' = Tail(mainQ)
  /\ IF emulator = Head(mainQ).s
       THEN /\ isEmulatorLoadPending' = FALSE
            /\ isLaunchingGame' = FALSE
            /\ emulator' = NoSession
            /\ screen' = "xmb"
            /\ idleActivity' = FALSE
            /\ EndSessionTracking
       ELSE UNCHANGED <<isEmulatorLoadPending, isLaunchingGame, emulator, screen,
                        idleActivity, sessionEntryID, played>>
  /\ UNCHANGED <<isLaunching, quitAsked, handoff, launched, polls, loadQ, worker,
                 active, quarantined, coreVars>>

(* waitForFirstFrame ends: a frame was seen or its 10 s have passed.       *)
FirstFrame(s) ==
  /\ s \in polls
  /\ polls' = polls \ {s}
  /\ isLaunchingGame' = FALSE
  /\ UNCHANGED <<emulator, screen, isLaunching, isEmulatorLoadPending, idleActivity,
                 sessionEntryID, quitAsked, handoff, launched, played,
                 mainQ, loadQ, worker, active, quarantined, coreVars>>

-----------------------------------------------------------------------------
(* The core thread of s: runLoop.                                          *)

LoopTop(s) ==
  /\ thread[s] = "top"
  /\ IF stopRequested[s]
       THEN /\ thread' = [thread EXCEPT ![s] = "done"]
            /\ UNCHANGED <<shutdownRequested, stopRequested>>
       ELSE IF shutdownRequested[s]
         THEN /\ shutdownRequested' = [shutdownRequested EXCEPT ![s] = FALSE]
              /\ stopRequested' = [stopRequested EXCEPT ![s] = TRUE]
              /\ UNCHANGED thread
         ELSE /\ thread' = [thread EXCEPT ![s] = "inCore"]
              /\ UNCHANGED <<shutdownRequested, stopRequested>>
  /\ UNCHANGED <<mainVars, polls, mainQ, loadQ, worker, active, quarantined,
                 state, core, coreThreadStuck, hwRenderActive, rcService>>

(* retro_run returns, having perhaps asked for SHUTDOWN.  The environment  *)
(* callback reaches the active session, whichever core called it.          *)
RunReturns(s) ==
  /\ thread[s] = "inCore"
  /\ thread' = [thread EXCEPT ![s] = "pump"]
  /\ \/ UNCHANGED shutdownRequested
     \/ /\ active # NoSession
        /\ shutdownRequested' = [shutdownRequested EXCEPT ![active] = TRUE]
  /\ UNCHANGED <<mainVars, polls, mainQ, loadQ, worker, active, quarantined,
                 state, core, stopRequested, coreThreadStuck, hwRenderActive, rcService>>

(* doFrame, GL readback, a pending save/load/reset, pacing.                *)
Pump(s) ==
  /\ thread[s] = "pump"
  /\ thread' = [thread EXCEPT ![s] = "top"]
  /\ UNCHANGED <<mainVars, polls, mainQ, loadQ, worker, active, quarantined,
                 state, core, stopRequested, shutdownRequested, coreThreadStuck,
                 hwRenderActive, rcService>>

-----------------------------------------------------------------------------
(* The load queue: a "load" block.                                         *)

(* [weak session]: once the session has been left nothing else need hold   *)
(* it before its load has run, and the block may find nil.                 *)
LoadBegin ==
  /\ worker = Idle /\ loadQ # <<>> /\ Head(loadQ).op = "load"
  /\ loadQ' = Tail(loadQ)
  /\ LET s == Head(loadQ).s IN
       \/ worker' = At("dlopen", s)
       \/ emulator # s /\ UNCHANGED worker
  /\ UNCHANGED <<mainVars, polls, mainQ, active, quarantined, coreVars>>

\* Mutant: load() without setActive(self).
DlopenInactive ==
  /\ worker.pc = "dlopen"
  /\ LET s == worker.s IN
       \/ /\ core' = [core EXCEPT ![s] = "open"]
          /\ UNCHANGED active
          /\ worker' = At("init", s)
       \/ /\ worker' = At("postFailed", s)
          /\ UNCHANGED <<core, active>>
  /\ UNCHANGED <<mainVars, polls, mainQ, loadQ, quarantined, state, thread, stopRequested,
                 shutdownRequested, coreThreadStuck, hwRenderActive, rcService>>

(* RetroCore.load, the callbacks, then setActive(self).  If it fails, the  *)
(* RetroCore object goes, which closes the library again; what follows it, *)
(* shim_install and the look for retro_init, cannot fail any more, as load *)
(* has required every symbol they ask for of the same handle.  The         *)
(* retro_set_* calls of shim_install, made while no session is active, are *)
(* part of this step.                                                      *)
Dlopen ==
  /\ worker.pc = "dlopen"
  /\ LET s == worker.s IN
       \/ /\ core' = [core EXCEPT ![s] = "open"]
          /\ active' = s
          /\ worker' = At("init", s)
       \/ /\ worker' = At("postFailed", s)
          /\ UNCHANGED <<core, active>>
  /\ UNCHANGED <<mainVars, polls, mainQ, loadQ, quarantined, state, thread, stopRequested,
                 shutdownRequested, coreThreadStuck, hwRenderActive, rcService>>

RetroInit ==
  /\ worker.pc = "init"
  /\ core' = [core EXCEPT ![worker.s] = "inited"]
  /\ worker' = At("loadGame", worker.s)
  /\ UNCHANGED <<mainVars, polls, mainQ, loadQ, active, quarantined, state, thread,
                 stopRequested, shutdownRequested, coreThreadStuck, hwRenderActive, rcService>>

(* retro_load_game: SET_HW_RENDER may arrive whether or not it succeeds;   *)
(* achievements start only when credentials are configured.                *)
LoadGame ==
  /\ worker.pc = "loadGame"
  /\ LET s == worker.s IN
       /\ \E hw \in BOOLEAN : hwRenderActive' = [hwRenderActive EXCEPT ![s] = hw]
       /\ \/ /\ core' = [core EXCEPT ![s] = "game"]
             /\ state' = [state EXCEPT ![s] = "loaded"]
             /\ \E rc \in {"none", "live"} : rcService' = [rcService EXCEPT ![s] = rc]
             /\ worker' = At("postDone", s)
          \/ /\ worker' = At("postFailed", s)
             /\ UNCHANGED <<core, state, rcService>>
  /\ UNCHANGED <<mainVars, polls, mainQ, loadQ, active, quarantined, thread,
                 stopRequested, shutdownRequested, coreThreadStuck>>

PostDone ==
  /\ worker.pc = "postDone"
  /\ mainQ' = Append(mainQ, Block("done", worker.s))
  /\ worker' = Idle
  /\ UNCHANGED <<mainVars, polls, loadQ, active, quarantined, coreVars>>

(* The failure is posted first, then the same block tears the session down.*)
PostFailed ==
  /\ worker.pc = "postFailed"
  /\ mainQ' = Append(mainQ, Block("failed", worker.s))
  /\ worker' = At("teardown", worker.s)
  /\ UNCHANGED <<mainVars, polls, loadQ, active, quarantined, coreVars>>

-----------------------------------------------------------------------------
(* The load queue: a "stop" block, requestStop then teardown.              *)

(* Something still holds a strong reference to s.                          *)
Retained(s) ==
  \/ emulator = s \/ active = s \/ s \in quarantined \/ s \in polls \/ Alive(s)
  \/ \E i \in 1..Len(mainQ) : mainQ[i].s = s

StopBegin ==
  /\ worker = Idle /\ loadQ # <<>> /\ Head(loadQ).op = "stop"
  /\ loadQ' = Tail(loadQ)
  /\ LET s == Head(loadQ).s IN
       \/ /\ state[s] \in {"running", "loaded"}
          /\ stopRequested' = [stopRequested EXCEPT ![s] = TRUE]
          /\ IF thread[s] = "none"
               THEN /\ state' = [state EXCEPT ![s] = "stopped"]
                    /\ worker' = At("teardown", s)
               ELSE /\ state' = [state EXCEPT ![s] = "stopping"]
                    /\ worker' = At("join", s)
       \/ /\ state[s] \notin {"running", "loaded"}
          /\ worker' = At("teardown", s)
          /\ UNCHANGED <<state, stopRequested>>
       \/ /\ ~Retained(s)
          /\ UNCHANGED <<state, stopRequested, worker>>
  /\ UNCHANGED <<mainVars, polls, mainQ, active, quarantined, core, thread,
                 shutdownRequested, coreThreadStuck, hwRenderActive, rcService>>

\* Mutant: requestStop goes on after a timeout as after a join.
JoinIgnoringTimeout ==
  /\ worker.pc = "join"
  /\ LET s == worker.s IN
       /\ coreThreadStuck' = coreThreadStuck
       /\ state' = [state EXCEPT ![s] = "stopped"]
       /\ worker' = At("teardown", s)
  /\ UNCHANGED <<mainVars, polls, mainQ, loadQ, active, quarantined, core, thread,
                 stopRequested, shutdownRequested, hwRenderActive, rcService>>

\* Mutant: requestStop waits without a timeout.
JoinForever ==
  /\ worker.pc = "join" /\ thread[worker.s] = "done"
  /\ LET s == worker.s IN
       /\ coreThreadStuck' = [coreThreadStuck EXCEPT ![s] = thread[s] # "done"]
       /\ state' = [state EXCEPT ![s] = "stopped"]
       /\ worker' = At("teardown", s)
  /\ UNCHANGED <<mainVars, polls, mainQ, loadQ, active, quarantined, core, thread,
                 stopRequested, shutdownRequested, hwRenderActive, rcService>>

(* threadDone.wait: signalled, or two seconds have passed without.         *)
Join ==
  /\ worker.pc = "join"
  /\ LET s == worker.s IN
       /\ coreThreadStuck' = [coreThreadStuck EXCEPT ![s] = thread[s] # "done"]
       /\ state' = [state EXCEPT ![s] = "stopped"]
       /\ worker' = At("teardown", s)
  /\ UNCHANGED <<mainVars, polls, mainQ, loadQ, active, quarantined, core, thread,
                 stopRequested, shutdownRequested, hwRenderActive, rcService>>

(* teardown: the achievements client goes first, ...                       *)
TeardownClient ==
  /\ worker.pc = "teardown"
  /\ LET s == worker.s IN
       /\ rcService' = [rcService EXCEPT ![s] = IF @ = "live" THEN "gone" ELSE @]
       /\ worker' = At("context", s)
  /\ UNCHANGED <<mainVars, polls, mainQ, loadQ, active, quarantined, state, core, thread,
                 stopRequested, shutdownRequested, coreThreadStuck, hwRenderActive>>

(* ... then context_destroy for a GL core, and only then the stuck check.  *)
TeardownContext ==
  /\ worker.pc = "context"
  /\ worker' = At(IF coreThreadStuck[worker.s] THEN "park" ELSE "unload", worker.s)
  /\ UNCHANGED <<mainVars, polls, mainQ, loadQ, active, quarantined, coreVars>>

Quarantine ==
  /\ worker.pc = "park"
  /\ LET s == worker.s IN
       /\ quarantined' = quarantined \union {s}
       /\ active' = NoSession
       /\ hwRenderActive' = [hwRenderActive EXCEPT ![s] = FALSE]
       /\ state' = [state EXCEPT ![s] = "idle"]
       /\ worker' = Idle
  /\ UNCHANGED <<mainVars, polls, mainQ, loadQ, core, thread, stopRequested,
                 shutdownRequested, coreThreadStuck, rcService>>

(* retro_unload_game (if a game was loaded) and retro_deinit.              *)
Unload ==
  /\ worker.pc = "unload"
  /\ LET s == worker.s IN
       /\ core' = [core EXCEPT ![s] = IF @ = "none" THEN @ ELSE "open"]
       /\ worker' = At("close", s)
  /\ UNCHANGED <<mainVars, polls, mainQ, loadQ, active, quarantined, state, thread,
                 stopRequested, shutdownRequested, coreThreadStuck, hwRenderActive, rcService>>

(* dlclose, GL bridge and buffers freed, setActive(nil).                   *)
Close ==
  /\ worker.pc = "close"
  /\ LET s == worker.s IN
       /\ core' = [core EXCEPT ![s] = "none"]
       /\ hwRenderActive' = [hwRenderActive EXCEPT ![s] = FALSE]
       /\ active' = NoSession
       /\ state' = [state EXCEPT ![s] = "idle"]
       /\ worker' = Idle
  /\ UNCHANGED <<mainVars, polls, mainQ, loadQ, quarantined, thread, stopRequested,
                 shutdownRequested, coreThreadStuck, rcService>>

-----------------------------------------------------------------------------
User ==
  \/ \E kind \in {"steam", "psp"} : LaunchHandoff(kind)
  \/ LaunchHandoffFails \/ LaunchWithoutCore
  \/ \E s \in Sessions : StartEmulator(s)
  \/ AskQuit \/ DismissQuit \/ ExitEmulation

MainBlock == LoadDone \/ LoadFailed

CoreThread(s) == LoopTop(s) \/ RunReturns(s) \/ Pump(s)

LoadQueue ==
  \/ LoadBegin \/ Dlopen \/ RetroInit \/ LoadGame \/ PostDone \/ PostFailed
  \/ StopBegin \/ Join \/ TeardownClient \/ TeardownContext
  \/ Quarantine \/ Unload \/ Close

Next ==
  \/ User \/ RestoreAfterHandoff \/ MainBlock \/ LoadQueue
  \/ \E s \in Sessions : FirstFrame(s) \/ CoreThread(s)

Spec == Init /\ [][Next]_vars

(* The two dispatch queues are served and the first-frame task is bounded  *)
(* by its deadline.  Nothing is assumed of the user, of the external       *)
(* program, or of a core thread: retro_run may never return.               *)
Fairness ==
  /\ WF_vars(MainBlock)
  /\ WF_vars(LoadQueue)
  /\ \A s \in Sessions : WF_vars(FirstFrame(s))

FairSpec == Spec /\ Fairness

-----------------------------------------------------------------------------
(* Properties.                                                             *)

MainTypeOK ==
  /\ emulator \in Sessions \union {NoSession}
  /\ screen \in {"xmb", "emulator"}
  /\ isLaunching \in BOOLEAN /\ isLaunchingGame \in BOOLEAN
  /\ isEmulatorLoadPending \in BOOLEAN /\ idleActivity \in BOOLEAN
  /\ sessionEntryID \in Sessions \union {NoSession, OtherEntry}
  /\ quitAsked \in BOOLEAN
  /\ handoff \in {"none", "steam", "psp"}
  /\ polls \subseteq Sessions /\ launched \subseteq Sessions
  /\ played \in [Sessions -> Nat]

QueueTypeOK ==
  /\ mainQ \in Seq([op : {"done", "failed"}, s : Sessions])
  /\ loadQ \in Seq([op : {"load", "stop"}, s : Sessions])
  /\ worker \in [pc : LoadPCs \union StopPCs, s : Sessions] \union {Idle}

SessionTypeOK ==
  /\ active \in Sessions \union {NoSession}
  /\ quarantined \subseteq Sessions
  /\ state \in [Sessions -> {"idle", "loaded", "running", "stopping", "stopped"}]
  /\ core \in [Sessions -> {"none", "open", "inited", "game"}]
  /\ thread \in [Sessions -> LivePCs \union {"none", "done"}]
  /\ stopRequested \in [Sessions -> BOOLEAN]
  /\ shutdownRequested \in [Sessions -> BOOLEAN]
  /\ coreThreadStuck \in [Sessions -> BOOLEAN]
  /\ hwRenderActive \in [Sessions -> BOOLEAN]
  /\ rcService \in [Sessions -> {"none", "live", "gone"}]

(* Every variable of the main thread, of the queues and of a session holds *)
(* a value of the kind the code's declarations allow.                      *)
TypeOK == MainTypeOK /\ QueueTypeOK /\ SessionTypeOK

(* A core is never unloaded, deinitialised or unmapped while a thread can  *)
(* still execute in it: the join, the stuck check and the order of the two *)
(* queues together keep retro_unload_game, retro_deinit and dlclose away   *)
(* from a live runLoop.                                                    *)
NoUnloadUnderThread == \A s \in Sessions : Alive(s) => core[s] = "game"

(* The core of s is mapped and has not been given up to the quarantine.    *)
Resident(s) == core[s] # "none" /\ s \notin quarantined

(* emulatorLoadQueue's promise: a load never overlaps another session's    *)
(* teardown, so at most one core that still counts is mapped.              *)
OneResidentCore ==
  \A s, t \in Sessions : Resident(s) /\ Resident(t) => s = t

(* The load queue is about to call, or is inside, a function of s's core.  *)
WorkerInCore(s) ==
  /\ worker.s = s
  /\ worker.pc \in {"init", "loadGame", "unload"} \/ (worker.pc = "context" /\ hwRenderActive[s])

(* The libretro entry points of one core are never entered by two threads  *)
(* at once (requestStop joins before teardown), unless the join timed out. *)
CoreCallsExclusive ==
  \A s \in Sessions :
    WorkerInCore(s) /\ ~coreThreadStuck[s] => thread[s] \notin {"inCore", "pump"}

(* The callbacks a core makes while it runs, initialises or loads a game   *)
(* reach its own session, although the C trampolines know only the active  *)
(* one.                                                                    *)
CallbacksReachOwner ==
  \A s \in Sessions :
    \/ thread[s] = "inCore" /\ ~coreThreadStuck[s]
    \/ worker.s = s /\ worker.pc \in {"init", "loadGame"}
    => active = s

(* The re-entrancy guard of launch(): never two games at once, the         *)
(* keep-awake activity and the playtime clock belong to the game in front, *)
(* and one that has been left, by quitting, by cancelling its boot or by a *)
(* failed load, has had its playtime recorded exactly once.                *)
OneGameInFront ==
  /\ handoff # "none" => emulator = NoSession /\ idleActivity
  /\ emulator # NoSession => idleActivity /\ sessionEntryID = emulator /\ screen = "emulator"
  /\ idleActivity => emulator # NoSession \/ handoff # "none"
  /\ \A s \in Sessions : played[s] = IF s \in launched /\ emulator # s THEN 1 ELSE 0

(* A core thread is only ever spawned for the session on screen, over a    *)
(* loaded game, and at most once.                                          *)
StartsOnlyOnScreen ==
  [][\A s \in Sessions :
       ~Alive(s) /\ Alive(s)' => emulator = s /\ core[s] = "game" /\ thread[s] = "none"]_vars

(* Whatever the core does, a session that has been left is not started     *)
(* after that and ends up unmapped or parked, for good.                    *)
LeftSessionIsReleased ==
  /\ StartsOnlyOnScreen
  /\ \A s \in Sessions :
       (s \in launched /\ emulator # s) ~> [](core[s] = "none" \/ s \in quarantined)

(* Every launch is resolved, even behind an earlier session that hangs:    *)
(* the boot overlay comes down over a running core or the game is gone.    *)
LaunchResolves ==
  \A s \in Sessions :
    (emulator = s) ~> (emulator # s \/ (thread[s] # "none" /\ ~isLaunchingGame))

-----------------------------------------------------------------------------
(* Why the safety properties hold: an inductive invariant, in parts.       *)

Loading(s) == worker.s = s /\ worker.pc \in {"dlopen", "init", "loadGame", "postDone"}
Leaving(s) == worker.s = s /\ worker.pc \in StopPCs \union {"postFailed"}
InQueue(q, op, s) == \E i \in 1..Len(q) : q[i] = Block(op, s)

(* Nothing has been done yet with s.                                       *)
Untouched(s) ==
  /\ state[s] = "idle" /\ core[s] = "none" /\ thread[s] = "none"
  /\ worker.s # s /\ s \notin quarantined
  /\ \A i \in 1..Len(mainQ) : mainQ[i].s # s

(* In q a session is loaded once, and stopped only after.                  *)
OnceInOrder(q) ==
  \A i \in 1..Len(q) : q[i].op = "load" =>
    /\ \A j \in 1..Len(q) : q[j] = q[i] => j = i
    /\ \A j \in 1..Len(q) : q[j] = Block("stop", q[i].s) => i < j

(* A session not yet launched, or whose load is still queued, is untouched.*)
LoadedOnce ==
  /\ \A s \in Sessions \ launched :
       Untouched(s) /\ emulator # s /\ \A i \in 1..Len(loadQ) : loadQ[i].s # s
  /\ \A s \in Sessions : InQueue(loadQ, "load", s) => Untouched(s)
  /\ OnceInOrder(loadQ)

(* What the worker's position says of the session it is working on.        *)
WorkerKnows ==
  \A s \in Sessions : worker.s = s =>
    /\ worker.pc \in {"dlopen", "init", "loadGame", "postFailed"} =>
         state[s] = "idle" /\ thread[s] = "none"
    /\ worker.pc \in {"init", "loadGame", "postDone"} => core[s] # "none"
    /\ worker.pc = "join" => state[s] = "stopping"
    /\ worker.pc \in StopPCs => state[s] \notin {"loaded", "running"}
    /\ worker.pc = "park" => coreThreadStuck[s]
    /\ worker.pc \in {"unload", "close"} => ~Alive(s)

(* A loaded session has its game and no thread; a live thread has its game *)
(* and is running, being joined, or known to be stuck.                     *)
ThreadHasGame ==
  \A s \in Sessions :
    /\ state[s] = "loaded" => core[s] = "game" /\ thread[s] = "none"
    /\ Alive(s) =>
         /\ core[s] = "game"
         /\ state[s] = "running" \/ worker = At("join", s) \/ coreThreadStuck[s]

(* A quarantined session is stuck and never loaded, run or unloaded again. *)
QuarantineIsFinal ==
  \A s \in quarantined :
    /\ coreThreadStuck[s] /\ state[s] = "idle"
    /\ worker.s = s => worker.pc \in {"teardown", "context", "park"}

(* A stuck session keeps its game; a core is opened once, and closed only  *)
(* when its session is not stuck.                                          *)
StuckInGame ==
  \A s \in Sessions :
    /\ coreThreadStuck[s] => core[s] = "game" /\ thread[s] # "none"
    /\ worker.s = s =>
         /\ worker.pc = "dlopen" => core[s] = "none"
         /\ worker.pc = "join" => thread[s] # "none"
         /\ worker.pc \in {"unload", "close"} => ~coreThreadStuck[s]

(* The core of s occupies the one place there is, and a stop is due.       *)
Due(s) == ~Leaving(s) /\ (Loading(s) \/ Resident(s))

(* After position i of the load queue there is a stop of s, unless s is on *)
(* screen, and nothing for another session comes before it.                *)
StopAfter(q, s, i) == \E j \in (i + 1)..Len(q) : q[j] = Block("stop", s)
Frees(q, s, i) ==
  \A k \in (i + 1)..Len(q) : q[k].s # s => \E j \in (i + 1)..(k - 1) : q[j] = Block("stop", s)
Awaits(s, i) == (emulator = s \/ StopAfter(loadQ, s, i)) /\ Frees(loadQ, s, i)

(* The place is handed over in queue order: a mapped core is the active    *)
(* session's, and the only one the worker can be busy with; and whoever    *)
(* holds the place, or is queued for it, is stopped before anyone else's   *)
(* turn comes.                                                             *)
HandOver ==
  /\ \A s \in Sessions : Resident(s) => active = s /\ worker.s \in {s, NoSession}
  /\ \A s \in Sessions : Due(s) => Awaits(s, 0)
  /\ \A s \in Sessions, i \in 1..Len(loadQ) : loadQ[i] = Block("load", s) => Awaits(s, i)
  /\ \A s \in Sessions : InQueue(mainQ, "failed", s) => ~Due(s)

IInv ==
  /\ TypeOK /\ LoadedOnce /\ WorkerKnows /\ ThreadHasGame /\ QuarantineIsFinal
  /\ StuckInGame /\ HandOver

(* Why OneGameInFront holds, of the main thread alone: the emulator is on   *)
(* screen only with a game, the clock runs for no game but that one, and a *)
(* Quit dialog that outlived its game keeps other programs from starting.  *)
FrontInv ==
  /\ OneGameInFront
  /\ screen = "emulator" => emulator # NoSession
  /\ quitAsked => handoff = "none"
  /\ sessionEntryID \in Sessions => sessionEntryID = emulator
  /\ emulator # NoSession => emulator \in launched

-----------------------------------------------------------------------------
(* Refinement: the life of each core as CoreHost sees it.                  *)

PhaseOf(s) ==
  IF s \in quarantined THEN "parked"
  ELSE IF core[s] = "none" THEN "closed"
  ELSE IF worker.s = s /\ worker.pc \in {"init", "loadGame"} THEN "loading"
  ELSE IF Alive(s) \/ coreThreadStuck[s] THEN "running"
  ELSE IF worker.s = s /\ worker.pc \in {"postFailed", "teardown", "context", "unload", "close"}
    THEN "closing"
  ELSE IF thread[s] = "none" THEN "ready" ELSE "running"

corePhase == [s \in Sessions |-> PhaseOf(s)]

Host == INSTANCE CoreHost WITH phase <- corePhase

(* The load queue, the main queue and the core threads together keep the   *)
(* promise of CoreHost.                                                    *)
ImplementsCoreHost == Host!Spec

-----------------------------------------------------------------------------
(* What a comment in the code says and the code does not do.               *)

(* EmulatorSession.swift, lines 637-641: a session whose thread is stuck   *)
(* is kept whole, "never dlclose/free on this path".  teardown destroys    *)
(* its achievements client before it looks.                                *)
StuckSessionIsLeftAlone ==
  [][\A s \in Sessions : coreThreadStuck[s] => rcService'[s] = rcService[s]]_vars
=============================================================================
