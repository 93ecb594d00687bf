------------------------ MODULE SessionControl_proofs ------------------------
(***************************************************************************)
(* Proofs about SessionControl, for any number of sessions and of queued   *)
(* engine starts: a paused game can be resumed, the audio comes back, and  *)
(* a paused core stops.                                                    *)
(***************************************************************************)
EXTENDS SessionControl, TLAPS

(* The types of what a session keeps, and of what the main thread keeps. *)
SessionTypes ==
  /\ stage \in [Sessions -> {"unused", "loading", "running", "left", "down"}]
  /\ paused \in [Sessions -> BOOLEAN]
  /\ thread \in [Sessions -> {"none", "top", "frame", "ended"}]
  /\ owned \in [Sessions -> BOOLEAN]
  /\ engine \in [Sessions -> {"stopped", "running", "failed"}]
  /\ starts \in [Sessions -> 0..MaxStarts]
  /\ late \in [Sessions -> 0..1]

UITypes ==
  /\ emulator \in Sessions \union {NoSession} /\ polls \subseteq Sessions
  /\ isLaunchingGame \in BOOLEAN /\ coreOptionsVisible \in BOOLEAN /\ pauseMenuVisible \in BOOLEAN
  /\ quickBarVisible \in BOOLEAN /\ quitAsked \in BOOLEAN /\ asleep \in BOOLEAN

PendingType == pending \in [Sessions -> Commands \union {NoCommand}]

(* What holds of each session by itself. *)
SessionInv == SessionTypes /\ Untouched /\ NoEngineYet /\ AudioComesBack /\ PausedCoreStops

(* The invariant is the types, what holds of each session, and of the screen. *)
LEMMA Parts ==
  ControlInv <=> SessionInv /\ UITypes /\ PendingType /\ OnScreen /\ GameNeverStuckPaused
BY DEF ControlInv, TypeOK, SessionInv, SessionTypes, UITypes, PendingType

-----------------------------------------------------------------------------
(* The three things a handler does to the session on screen.               *)

(* Pausing keeps what holds of each session. *)
LEMMA PauseKeeps ==
  ASSUME SessionInv, NEW s \in Sessions, Pause(s), stage[s] # "unused",
         UNCHANGED <<stage, thread, owned>>
  PROVE  SessionInv'
<1> USE DEF SessionInv, SessionTypes, Pause
<1>1. paused' \in [Sessions -> BOOLEAN] /\ late' \in [Sessions -> 0..1]
  OBVIOUS
<1>2. engine' \in [Sessions -> {"stopped", "running", "failed"}]
  BY DEF Halted
<1>3. ASSUME NEW t \in Sessions
      PROVE  /\ stage'[t] = "unused" => ~paused'[t]
             /\ stage'[t] \in {"unused", "loading"} => ~owned'[t]
             /\ stage'[t] = "running" /\ owned'[t] /\ ~paused'[t] /\ starts'[t] = 0
                  => engine'[t] \in {"running", "failed"}
             /\ late'[t] + (IF thread'[t] = "frame" /\ paused'[t] THEN 1 ELSE 0) <= 1
  <2>1. CASE t = s
    <3>1. paused'[t] /\ late'[t] = IF paused[t] THEN late[t] ELSE 0
      BY <2>1
    <3>2. late[t] \in 0..1
      OBVIOUS
    <3> QED BY <2>1, <3>1, <3>2 DEF NoEngineYet, PausedCoreStops
  <2>2. CASE t # s
    <3>1. paused'[t] = paused[t] /\ engine'[t] = engine[t] /\ late'[t] = late[t]
      BY <2>2
    <3> QED BY <3>1 DEF Untouched, NoEngineYet, AudioComesBack, PausedCoreStops
  <2> QED BY <2>1, <2>2
<1> QED BY <1>1, <1>2, <1>3 DEF Untouched, NoEngineYet, AudioComesBack, PausedCoreStops

(* So does resuming, *)
LEMMA ResumeKeeps ==
  ASSUME SessionInv, NEW s \in Sessions, Resume(s), UNCHANGED <<stage, thread, owned>>
  PROVE  SessionInv' /\ ~paused'[s]
<1> USE DEF SessionInv, SessionTypes, Resume
<1>0. MaxStarts \in Nat
  BY SessionControlAssumption
<1>1. paused' \in [Sessions -> BOOLEAN] /\ ~paused'[s]
  OBVIOUS
<1>2. starts' \in [Sessions -> 0..MaxStarts]
  <2>1. starts[s] \in 0..MaxStarts
    OBVIOUS
  <2>2. (IF owned[s] THEN starts[s] + 1 ELSE starts[s]) \in 0..MaxStarts
    BY <1>0, <2>1 DEF CanResume
  <2> QED BY <2>2
<1>3. ASSUME NEW t \in Sessions
      PROVE  /\ stage'[t] = "unused" => ~paused'[t]
             /\ stage'[t] \in {"unused", "loading"} => ~owned'[t]
             /\ stage'[t] = "running" /\ owned'[t] /\ ~paused'[t] /\ starts'[t] = 0
                  => engine'[t] \in {"running", "failed"}
             /\ late'[t] + (IF thread'[t] = "frame" /\ paused'[t] THEN 1 ELSE 0) <= 1
  <2>1. CASE t = s
    <3>1. ~paused'[t] /\ late'[t] = late[t] /\ late[t] \in 0..1 /\ starts[t] \in Nat
      BY <2>1, <1>0
    <3>2. owned[t] => starts'[t] = starts[t] + 1
      BY <2>1
    <3> QED BY <3>1, <3>2 DEF NoEngineYet
  <2>2. CASE t # s
    <3>1. paused'[t] = paused[t] /\ engine'[t] = engine[t] /\ late'[t] = late[t] /\ starts'[t] = starts[t]
      BY <2>2
    <3> QED BY <3>1 DEF Untouched, NoEngineYet, AudioComesBack, PausedCoreStops
  <2> QED BY <2>1, <2>2
<1> QED BY <1>1, <1>2, <1>3 DEF Untouched, NoEngineYet, AudioComesBack, PausedCoreStops

(* and resuming only to pause again. *)
LEMMA ResumeThenPauseKeeps ==
  ASSUME SessionInv, NEW s \in Sessions, ResumeThenPause(s), stage[s] # "unused",
         UNCHANGED <<stage, thread, owned>>
  PROVE  SessionInv'
<1> USE DEF SessionInv, SessionTypes, ResumeThenPause
<1>0. MaxStarts \in Nat
  BY SessionControlAssumption
<1>1. paused' \in [Sessions -> BOOLEAN] /\ late' \in [Sessions -> 0..1]
  OBVIOUS
<1>2. starts' \in [Sessions -> 0..MaxStarts]
  <2>1. starts[s] \in 0..MaxStarts
    OBVIOUS
  <2>2. (IF owned[s] THEN starts[s] + 1 ELSE starts[s]) \in 0..MaxStarts
    BY <1>0, <2>1 DEF CanResume
  <2> QED BY <2>2
<1>3. engine' \in [Sessions -> {"stopped", "running", "failed"}]
  BY DEF Halted
<1>4. ASSUME NEW t \in Sessions
      PROVE  /\ stage'[t] = "unused" => ~paused'[t]
             /\ stage'[t] \in {"unused", "loading"} => ~owned'[t]
             /\ stage'[t] = "running" /\ owned'[t] /\ ~paused'[t] /\ starts'[t] = 0
                  => engine'[t] \in {"running", "failed"}
             /\ late'[t] + (IF thread'[t] = "frame" /\ paused'[t] THEN 1 ELSE 0) <= 1
  <2>1. CASE t = s
    <3>1. paused'[t] /\ late'[t] = 0
      BY <2>1
    <3> QED BY <2>1, <3>1 DEF NoEngineYet
  <2>2. CASE t # s
    <3>1. paused'[t] = paused[t] /\ engine'[t] = engine[t] /\ late'[t] = late[t] /\ starts'[t] = starts[t]
      BY <2>2
    <3> QED BY <3>1 DEF Untouched, NoEngineYet, AudioComesBack, PausedCoreStops
  <2> QED BY <2>1, <2>2
<1> QED BY <1>1, <1>2, <1>3, <1>4 DEF Untouched, NoEngineYet, AudioComesBack, PausedCoreStops

(* A step that leaves these fields alone keeps it too. *)
LEMMA NothingKeeps ==
  SessionInv /\ UNCHANGED <<stage, paused, thread, owned, engine, starts, late>> => SessionInv'
BY DEF SessionInv, SessionTypes, Untouched, NoEngineYet, AudioComesBack, PausedCoreStops

-----------------------------------------------------------------------------
(* The steps that change a session otherwise.                              *)

(* A launch takes a session nobody has paused. *)
LEMMA LaunchKeeps ==
  ASSUME SessionInv, NEW s \in Sessions, Launch(s)
  PROVE  SessionInv'
<1> USE DEF SessionInv, SessionTypes, Launch
<1>1. SessionTypes'
  OBVIOUS
<1>2. ASSUME NEW t \in Sessions
      PROVE  /\ stage'[t] = "unused" => ~paused'[t]
             /\ stage'[t] \in {"unused", "loading"} => ~owned'[t]
             /\ stage'[t] = "running" /\ owned'[t] /\ ~paused'[t] /\ starts'[t] = 0
                  => engine'[t] \in {"running", "failed"}
             /\ late'[t] + (IF thread'[t] = "frame" /\ paused'[t] THEN 1 ELSE 0) <= 1
  <2>1. CASE t = s
    BY <2>1 DEF Untouched, NoEngineYet, PausedCoreStops
  <2>2. CASE t # s
    <3>1. /\ stage'[t] = stage[t] /\ paused'[t] = paused[t] /\ engine'[t] = engine[t]
          /\ late'[t] = late[t] /\ starts'[t] = starts[t] /\ owned'[t] = owned[t]
          /\ thread'[t] = thread[t]
      BY <2>2
    <3> QED BY <3>1 DEF Untouched, NoEngineYet, AudioComesBack, PausedCoreStops
  <2> QED BY <2>1, <2>2
<1> QED BY <1>1, <1>2 DEF Untouched, NoEngineYet, AudioComesBack, PausedCoreStops

(* A started session that owns an engine has its start queued. *)
LEMMA LoadDoneKeeps ==
  ASSUME SessionInv, NEW s \in Sessions, LoadDone(s)
  PROVE  SessionInv'
<1> USE DEF SessionInv, SessionTypes, LoadDone
<1>1. SessionTypes'
  <2>1. 0 \in 0..MaxStarts /\ 1 \in 0..MaxStarts
    BY SessionControlAssumption
  <2>2. owned' \in [Sessions -> BOOLEAN] /\ starts' \in [Sessions -> 0..MaxStarts]
    BY <2>1
  <2> QED BY <2>2
<1>2. ASSUME NEW t \in Sessions
      PROVE  /\ stage'[t] = "unused" => ~paused'[t]
             /\ stage'[t] \in {"unused", "loading"} => ~owned'[t]
             /\ stage'[t] = "running" /\ owned'[t] /\ ~paused'[t] /\ starts'[t] = 0
                  => engine'[t] \in {"running", "failed"}
             /\ late'[t] + (IF thread'[t] = "frame" /\ paused'[t] THEN 1 ELSE 0) <= 1
  <2>1. CASE t = s
    <3>1. late[t] <= 1 /\ thread'[t] = "top" /\ late'[t] = late[t] /\ stage'[t] = "running"
      BY <2>1
    <3>2. owned'[t] => starts'[t] = 1
      BY <2>1 DEF NoEngineYet
    <3> QED BY <3>1, <3>2
  <2>2. CASE t # s
    <3>1. /\ stage'[t] = stage[t] /\ paused'[t] = paused[t] /\ engine'[t] = engine[t]
          /\ late'[t] = late[t] /\ starts'[t] = starts[t] /\ owned'[t] = owned[t]
          /\ thread'[t] = thread[t]
      BY <2>2
    <3> QED BY <3>1 DEF Untouched, NoEngineYet, AudioComesBack, PausedCoreStops
  <2> QED BY <2>1, <2>2
<1> QED BY <1>1, <1>2 DEF Untouched, NoEngineYet, AudioComesBack, PausedCoreStops

(* A failed load leaves no session on screen. *)
LEMMA LoadFailedKeeps ==
  ASSUME SessionInv, NEW s \in Sessions, LoadFailed(s)
  PROVE  SessionInv'
<1> USE DEF SessionInv, SessionTypes, LoadFailed
<1>1. SessionTypes'
  OBVIOUS
<1>2. ASSUME NEW t \in Sessions
      PROVE  /\ stage'[t] = "unused" => ~paused'[t]
             /\ stage'[t] \in {"unused", "loading"} => ~owned'[t]
             /\ stage'[t] = "running" /\ owned'[t] /\ ~paused'[t] /\ starts'[t] = 0
                  => engine'[t] \in {"running", "failed"}
             /\ late'[t] + (IF thread'[t] = "frame" /\ paused'[t] THEN 1 ELSE 0) <= 1
  <2>1. CASE t = s
    BY <2>1 DEF PausedCoreStops
  <2>2. CASE t # s
    <3>1. /\ stage'[t] = stage[t] /\ paused'[t] = paused[t] /\ engine'[t] = engine[t]
          /\ late'[t] = late[t] /\ starts'[t] = starts[t] /\ owned'[t] = owned[t]
          /\ thread'[t] = thread[t]
      BY <2>2
    <3> QED BY <3>1 DEF Untouched, NoEngineYet, AudioComesBack, PausedCoreStops
  <2> QED BY <2>1, <2>2
<1> QED BY <1>1, <1>2 DEF Untouched, NoEngineYet, AudioComesBack, PausedCoreStops

(* A torn down session is no longer running. *)
LEMMA TeardownKeeps ==
  ASSUME SessionInv, NEW s \in Sessions, Teardown(s)
  PROVE  SessionInv'
<1> USE DEF SessionInv, SessionTypes, Teardown
<1>1. SessionTypes'
  BY DEF Halted
<1>2. ASSUME NEW t \in Sessions
      PROVE  /\ stage'[t] = "unused" => ~paused'[t]
             /\ stage'[t] \in {"unused", "loading"} => ~owned'[t]
             /\ stage'[t] = "running" /\ owned'[t] /\ ~paused'[t] /\ starts'[t] = 0
                  => engine'[t] \in {"running", "failed"}
             /\ late'[t] + (IF thread'[t] = "frame" /\ paused'[t] THEN 1 ELSE 0) <= 1
  <2>1. CASE t = s
    BY <2>1 DEF PausedCoreStops
  <2>2. CASE t # s
    <3>1. /\ stage'[t] = stage[t] /\ paused'[t] = paused[t] /\ engine'[t] = engine[t]
          /\ late'[t] = late[t] /\ starts'[t] = starts[t] /\ owned'[t] = owned[t]
          /\ thread'[t] = thread[t]
      BY <2>2
    <3> QED BY <3>1 DEF Untouched, NoEngineYet, AudioComesBack, PausedCoreStops
  <2> QED BY <2>1, <2>2
<1> QED BY <1>1, <1>2 DEF Untouched, NoEngineYet, AudioComesBack, PausedCoreStops

(* A queued start has run once it is not queued any more. *)
LEMMA EngineStartKeeps ==
  ASSUME SessionInv, NEW s \in Sessions, EngineStart(s)
  PROVE  SessionInv'
<1> USE DEF SessionInv, SessionTypes, EngineStart
<1>1. SessionTypes'
  <2>0. MaxStarts \in Nat
    BY SessionControlAssumption
  <2>1. starts[s] \in 0..MaxStarts /\ starts[s] - 1 \in 0..MaxStarts
    BY <2>0
  <2> QED BY <2>1
<1>2. ASSUME NEW t \in Sessions
      PROVE  /\ stage'[t] = "unused" => ~paused'[t]
             /\ stage'[t] \in {"unused", "loading"} => ~owned'[t]
             /\ stage'[t] = "running" /\ owned'[t] /\ ~paused'[t] /\ starts'[t] = 0
                  => engine'[t] \in {"running", "failed"}
             /\ late'[t] + (IF thread'[t] = "frame" /\ paused'[t] THEN 1 ELSE 0) <= 1
  <2>1. CASE t = s
    BY <2>1 DEF Untouched, NoEngineYet, PausedCoreStops
  <2>2. CASE t # s
    <3>1. /\ stage'[t] = stage[t] /\ paused'[t] = paused[t] /\ engine'[t] = engine[t]
          /\ late'[t] = late[t] /\ starts'[t] = starts[t] /\ owned'[t] = owned[t]
          /\ thread'[t] = thread[t]
      BY <2>2
    <3> QED BY <3>1 DEF Untouched, NoEngineYet, AudioComesBack, PausedCoreStops
  <2> QED BY <2>1, <2>2
<1> QED BY <1>1, <1>2 DEF Untouched, NoEngineYet, AudioComesBack, PausedCoreStops

(* An engine nobody holds is that of a session torn down. *)
LEMMA EngineReleasedKeeps ==
  ASSUME SessionInv, NEW s \in Sessions, EngineReleased(s)
  PROVE  SessionInv'
<1> USE DEF SessionInv, SessionTypes, EngineReleased
<1>1. SessionTypes'
  OBVIOUS
<1>2. ASSUME NEW t \in Sessions
      PROVE  /\ stage'[t] = "unused" => ~paused'[t]
             /\ stage'[t] \in {"unused", "loading"} => ~owned'[t]
             /\ stage'[t] = "running" /\ owned'[t] /\ ~paused'[t] /\ starts'[t] = 0
                  => engine'[t] \in {"running", "failed"}
             /\ late'[t] + (IF thread'[t] = "frame" /\ paused'[t] THEN 1 ELSE 0) <= 1
  <2>1. CASE t = s
    BY <2>1 DEF PausedCoreStops
  <2>2. CASE t # s
    <3>1. /\ stage'[t] = stage[t] /\ paused'[t] = paused[t] /\ engine'[t] = engine[t]
          /\ late'[t] = late[t] /\ starts'[t] = starts[t] /\ owned'[t] = owned[t]
          /\ thread'[t] = thread[t]
      BY <2>2
    <3> QED BY <3>1 DEF Untouched, NoEngineYet, AudioComesBack, PausedCoreStops
  <2> QED BY <2>1, <2>2
<1> QED BY <1>1, <1>2 DEF Untouched, NoEngineYet, AudioComesBack, PausedCoreStops

(* The core thread begins a frame only of a session that is not paused. *)
LEMMA LoopTopKeeps ==
  ASSUME SessionInv, NEW s \in Sessions, LoopTop(s)
  PROVE  SessionInv'
<1> USE DEF SessionInv, SessionTypes, LoopTop
<1>1. SessionTypes'
  OBVIOUS
<1>2. ASSUME NEW t \in Sessions
      PROVE  /\ stage'[t] = "unused" => ~paused'[t]
             /\ stage'[t] \in {"unused", "loading"} => ~owned'[t]
             /\ stage'[t] = "running" /\ owned'[t] /\ ~paused'[t] /\ starts'[t] = 0
                  => engine'[t] \in {"running", "failed"}
             /\ late'[t] + (IF thread'[t] = "frame" /\ paused'[t] THEN 1 ELSE 0) <= 1
  <2>1. CASE t = s
    <3>1. late[t] <= 1
      OBVIOUS
    <3>2. thread'[t] = "frame" => ~paused[t]
      BY <2>1
    <3> QED BY <2>1, <3>1, <3>2 DEF Untouched, NoEngineYet, AudioComesBack
  <2>2. CASE t # s
    <3>1. /\ stage'[t] = stage[t] /\ paused'[t] = paused[t] /\ engine'[t] = engine[t]
          /\ late'[t] = late[t] /\ starts'[t] = starts[t] /\ owned'[t] = owned[t]
          /\ thread'[t] = thread[t]
      BY <2>2
    <3> QED BY <3>1 DEF Untouched, NoEngineYet, AudioComesBack, PausedCoreStops
  <2> QED BY <2>1, <2>2
<1> QED BY <1>1, <1>2 DEF Untouched, NoEngineYet, AudioComesBack, PausedCoreStops

(* The frame begun before a pause is the last. *)
LEMMA FrameKeeps ==
  ASSUME SessionInv, NEW s \in Sessions, Frame(s)
  PROVE  SessionInv'
<1> USE DEF SessionInv, SessionTypes, Frame
<1>1. SessionTypes'
  <2>1. (IF paused[s] THEN late[s] + 1 ELSE late[s]) \in 0..1
    BY DEF PausedCoreStops
  <2> QED BY <2>1
<1>2. ASSUME NEW t \in Sessions
      PROVE  /\ stage'[t] = "unused" => ~paused'[t]
             /\ stage'[t] \in {"unused", "loading"} => ~owned'[t]
             /\ stage'[t] = "running" /\ owned'[t] /\ ~paused'[t] /\ starts'[t] = 0
                  => engine'[t] \in {"running", "failed"}
             /\ late'[t] + (IF thread'[t] = "frame" /\ paused'[t] THEN 1 ELSE 0) <= 1
  <2>1. CASE t = s
    <3>1. late'[t] <= 1
      BY <1>1
    <3>2. thread'[t] = "top"
      BY <2>1
    <3> QED BY <2>1, <3>1, <3>2 DEF Untouched, NoEngineYet, AudioComesBack
  <2>2. CASE t # s
    <3>1. /\ stage'[t] = stage[t] /\ paused'[t] = paused[t] /\ engine'[t] = engine[t]
          /\ late'[t] = late[t] /\ starts'[t] = starts[t] /\ owned'[t] = owned[t]
          /\ thread'[t] = thread[t]
      BY <2>2
    <3> QED BY <3>1 DEF Untouched, NoEngineYet, AudioComesBack, PausedCoreStops
  <2> QED BY <2>1, <2>2
<1> QED BY <1>1, <1>2 DEF Untouched, NoEngineYet, AudioComesBack, PausedCoreStops

(* A session that is left is no longer running. *)
LEMMA ExitKeeps == SessionInv /\ ExitEmulation => SessionInv'
<1> SUFFICES ASSUME SessionInv, ExitEmulation PROVE SessionInv'
  OBVIOUS
<1>1. SessionTypes'
  BY DEF ExitEmulation, SessionInv, SessionTypes
<1>2. \A t \in Sessions : stage'[t] \in {"left", stage[t]}
  BY DEF ExitEmulation
<1> QED BY <1>1, <1>2 DEF ExitEmulation, SessionInv, Untouched, NoEngineYet, AudioComesBack,
           PausedCoreStops

-----------------------------------------------------------------------------
(* The invariant.                                                          *)

(* It holds at the start. *)
LEMMA ControlInit == Init => ControlInv
<1> SUFFICES ASSUME Init PROVE ControlInv
  OBVIOUS
<1> USE DEF Init
<1>1. SessionTypes
  BY SessionControlAssumption DEF SessionTypes
<1>2. Untouched /\ NoEngineYet /\ AudioComesBack /\ PausedCoreStops
  BY DEF Untouched, NoEngineYet, AudioComesBack, PausedCoreStops
<1>3. UITypes
  BY DEF UITypes
<1>4. PendingType
  BY DEF PendingType
<1>5. OnScreen /\ GameNeverStuckPaused
  BY DEF OnScreen, GameNeverStuckPaused
<1> QED BY <1>1, <1>2, <1>3, <1>4, <1>5, Parts DEF SessionInv

(* The router's layers that need a game have one on screen. *)
LEMMA HasGame ==
  UITypes /\ OnScreen /\ emulator # NoSession =>
    emulator \in Sessions /\ stage[emulator] # "unused"
BY DEF UITypes, OnScreen

(* What holds of each session survives every step of the main thread, *)
LEMMA MainKeepsSessions ==
  ASSUME ControlInv, MainThread
  PROVE  SessionInv'
<1>0. SessionInv /\ UITypes /\ OnScreen
  BY Parts
<1>1. ASSUME NEW s \in Sessions, Launch(s) PROVE SessionInv'
  BY <1>0, <1>1, LaunchKeeps
<1>2. ASSUME NEW s \in Sessions, LoadDone(s) PROVE SessionInv'
  BY <1>0, <1>2, LoadDoneKeeps
<1>3. ASSUME NEW s \in Sessions, LoadFailed(s) PROVE SessionInv'
  BY <1>0, <1>3, LoadFailedKeeps
<1>4. ASSUME NEW s \in Sessions, FirstFrame(s) PROVE SessionInv'
  BY <1>0, <1>4, NothingKeeps DEF FirstFrame, sessionVars
<1>5. ASSUME DialogConfirm PROVE SessionInv'
  BY <1>0, <1>5, ExitKeeps DEF DialogConfirm
<1>6. ASSUME DialogDismiss PROVE SessionInv'
  BY <1>0, <1>6, NothingKeeps DEF DialogDismiss, sessionVars
<1>7. ASSUME Back PROVE SessionInv'
  <2>1. CASE UNCHANGED sessionVars
    BY <1>0, <2>1, NothingKeeps DEF sessionVars
  <2>2. CASE ExitEmulation
    BY <1>0, <2>2, ExitKeeps
  <2>3. CASE emulator # NoSession /\ Pause(emulator) /\ UNCHANGED <<stage, thread, owned>>
    BY <1>0, <2>3, HasGame, PauseKeeps
  <2> QED BY <1>7, <2>1, <2>2, <2>3 DEF Back
<1>8. ASSUME ClosePauseMenu \/ PauseMenuQuit \/ (\E c \in Commands : PauseMenuCommand(c)) \/ CloseCoreOptions
      PROVE  SessionInv'
  <2>1. /\ emulator # NoSession /\ Resume(emulator)
        /\ UNCHANGED <<stage, thread, owned>>
    BY <1>8 DEF ClosePauseMenu, PauseMenuQuit, PauseMenuCommand, CloseCoreOptions, PauseMenu, Options
  <2> QED BY <1>0, <2>1, HasGame, ResumeKeeps
<1>9. ASSUME PauseMenuCoreOptions PROVE SessionInv'
  <2>1. /\ emulator # NoSession /\ UNCHANGED <<stage, thread, owned>>
        /\ Resume(emulator) \/ ResumeThenPause(emulator)
    BY <1>9 DEF PauseMenuCoreOptions, PauseMenu
  <2> QED BY <1>0, <2>1, HasGame, ResumeKeeps, ResumeThenPauseKeeps
<1>10. ASSUME NEW c \in Commands, QuickBarCommand(c) PROVE SessionInv'
  BY <1>0, <1>10, NothingKeeps DEF QuickBarCommand
<1>11. ASSUME ToggleQuickBar \/ HomeFromElsewhere PROVE SessionInv'
  BY <1>0, <1>11, NothingKeeps DEF ToggleQuickBar, HomeFromElsewhere, sessionVars
<1>12. ASSUME QuickBarCoreOptions \/ WillSleep \/ DidWake PROVE SessionInv'
  <2>1. UNCHANGED <<stage, thread, owned>>
    BY <1>12 DEF QuickBarCoreOptions, WillSleep, DidWake
  <2>2. \/ UNCHANGED <<paused, engine, late, starts>>
        \/ emulator # NoSession /\ (Pause(emulator) \/ Resume(emulator))
    BY <1>12 DEF QuickBarCoreOptions, OpenCoreOptions, WillSleep, DidWake
  <2> QED BY <1>0, <2>1, <2>2, HasGame, NothingKeeps, PauseKeeps, ResumeKeeps
<1> QED BY <1>1, <1>2, <1>3, <1>4, <1>5, <1>6, <1>7, <1>8, <1>9, <1>10, <1>11, <1>12 DEF MainThread

(* and of the other threads. *)
LEMMA OthersKeepSessions ==
  ASSUME ControlInv, OtherThreads
  PROVE  SessionInv'
BY Parts, TeardownKeeps, EngineStartKeeps, EngineReleasedKeeps, LoopTopKeeps, FrameKeeps
   DEF OtherThreads

(* The types of the main thread's own state. *)
LEMMA UITypesStep == UITypes /\ [Next]_vars => UITypes'
<1> SUFFICES ASSUME UITypes, [Next]_vars PROVE UITypes'
  OBVIOUS
<1> USE DEF UITypes
<1>1. CASE OtherThreads \/ UNCHANGED vars
  BY <1>1 DEF OtherThreads, Teardown, EngineStart, EngineReleased, LoopTop, Frame, uiVars, vars
<1>2. ASSUME NEW s \in Sessions, Launch(s) \/ LoadDone(s) \/ LoadFailed(s) \/ FirstFrame(s) PROVE UITypes'
  BY <1>2 DEF Launch, LoadDone, LoadFailed, FirstFrame
<1>3. CASE DialogConfirm \/ DialogDismiss \/ Back
  BY <1>3 DEF DialogConfirm, DialogDismiss, Back, ExitEmulation
<1>4. CASE ClosePauseMenu \/ PauseMenuCoreOptions \/ PauseMenuQuit \/ CloseCoreOptions
  BY <1>4 DEF ClosePauseMenu, PauseMenuCoreOptions, PauseMenuQuit, CloseCoreOptions
<1>5. ASSUME NEW c \in Commands, PauseMenuCommand(c) \/ QuickBarCommand(c) PROVE UITypes'
  BY <1>5 DEF PauseMenuCommand, QuickBarCommand
<1>6. CASE ToggleQuickBar \/ HomeFromElsewhere \/ QuickBarCoreOptions
  BY <1>6 DEF ToggleQuickBar, HomeFromElsewhere, QuickBarCoreOptions, OpenCoreOptions
<1>7. CASE WillSleep \/ DidWake
  BY <1>7 DEF WillSleep, DidWake
<1> QED BY <1>1, <1>2, <1>3, <1>4, <1>5, <1>6, <1>7 DEF Next, MainThread

(* A pending request is one of the requests, or none. *)
LEMMA PendingStep == PendingType /\ [Next]_vars => PendingType'
<1> SUFFICES ASSUME PendingType, [Next]_vars PROVE PendingType'
  OBVIOUS
<1> USE DEF PendingType
<1>1. ASSUME NEW c \in Commands, PauseMenuCommand(c) \/ QuickBarCommand(c) PROVE PendingType'
  BY <1>1 DEF PauseMenuCommand, QuickBarCommand
<1>2. ASSUME NEW s \in Sessions, Frame(s) PROVE PendingType'
  BY <1>2 DEF Frame
<1>3. CASE pending' = pending
  BY <1>3
<1>4. ASSUME NEW s \in Sessions,
             Teardown(s) \/ EngineStart(s) \/ EngineReleased(s) \/ LoopTop(s)
      PROVE  pending' = pending
  BY <1>4 DEF Teardown, EngineStart, EngineReleased, LoopTop
<1>5. ASSUME NEW s \in Sessions, Launch(s) \/ LoadDone(s) \/ LoadFailed(s) \/ FirstFrame(s)
      PROVE  pending' = pending
  BY <1>5 DEF Launch, LoadDone, LoadFailed, FirstFrame, sessionVars
<1>6. ASSUME DialogConfirm \/ DialogDismiss \/ Back PROVE pending' = pending
  BY <1>6 DEF DialogConfirm, DialogDismiss, Back, ExitEmulation, sessionVars
<1>7. ASSUME ClosePauseMenu \/ PauseMenuCoreOptions \/ PauseMenuQuit \/ CloseCoreOptions
      PROVE  pending' = pending
  BY <1>7 DEF ClosePauseMenu, PauseMenuCoreOptions, PauseMenuQuit, CloseCoreOptions
<1>8. ASSUME ToggleQuickBar \/ HomeFromElsewhere \/ QuickBarCoreOptions \/ WillSleep \/ DidWake
      PROVE  pending' = pending
  BY <1>8 DEF ToggleQuickBar, HomeFromElsewhere, QuickBarCoreOptions, WillSleep, DidWake, sessionVars
<1>9. UNCHANGED vars => pending' = pending
  BY DEF vars, sessionVars
<1> QED BY <1>1, <1>2, <1>3, <1>4, <1>5, <1>6, <1>7, <1>8, <1>9 DEF Next, MainThread, OtherThreads

(* The game on screen is loading or running. *)
LEMMA OnScreenStep == ControlInv /\ [Next]_vars => OnScreen'
<1> SUFFICES ASSUME ControlInv, [Next]_vars PROVE OnScreen'
  OBVIOUS
<1>0. OnScreen /\ stage \in [Sessions -> {"unused", "loading", "running", "left", "down"}]
      /\ emulator \in Sessions \union {NoSession}
  BY DEF ControlInv, TypeOK
<1> USE <1>0 DEF OnScreen
<1>1. CASE UNCHANGED <<emulator, stage>>
  BY <1>1
<1>2. ASSUME NEW s \in Sessions, Launch(s) \/ LoadDone(s) PROVE OnScreen'
  BY <1>2 DEF Launch, LoadDone
<1>3. ASSUME emulator' = NoSession PROVE OnScreen'
  BY <1>3
<1>4. ASSUME NEW s \in Sessions, Teardown(s) PROVE OnScreen'
  BY <1>4 DEF Teardown, uiVars
<1>5. ASSUME NEW s \in Sessions,
             EngineStart(s) \/ EngineReleased(s) \/ LoopTop(s) \/ Frame(s) \/ FirstFrame(s)
      PROVE  UNCHANGED <<emulator, stage>>
  BY <1>5 DEF EngineStart, EngineReleased, LoopTop, Frame, FirstFrame, uiVars, sessionVars
<1>6. ASSUME NEW s \in Sessions, LoadFailed(s) PROVE emulator' = NoSession
  BY <1>6 DEF LoadFailed
<1>7. ASSUME DialogConfirm \/ DialogDismiss \/ Back
      PROVE  emulator' = NoSession \/ UNCHANGED <<emulator, stage>>
  BY <1>7 DEF DialogConfirm, DialogDismiss, Back, ExitEmulation, sessionVars
<1>8. ASSUME ClosePauseMenu \/ PauseMenuCoreOptions \/ PauseMenuQuit \/ CloseCoreOptions
      PROVE  UNCHANGED <<emulator, stage>>
  BY <1>8 DEF ClosePauseMenu, PauseMenuCoreOptions, PauseMenuQuit, CloseCoreOptions
<1>9. ASSUME NEW c \in Commands, PauseMenuCommand(c) \/ QuickBarCommand(c)
      PROVE  UNCHANGED <<emulator, stage>>
  BY <1>9 DEF PauseMenuCommand, QuickBarCommand
<1>10. ASSUME ToggleQuickBar \/ HomeFromElsewhere \/ QuickBarCoreOptions \/ WillSleep \/ DidWake
       PROVE  UNCHANGED <<emulator, stage>>
  BY <1>10 DEF ToggleQuickBar, HomeFromElsewhere, QuickBarCoreOptions, WillSleep, DidWake, sessionVars
<1>11. UNCHANGED vars => UNCHANGED <<emulator, stage>>
  BY DEF vars, uiVars, sessionVars
<1> QED BY <1>1, <1>2, <1>3, <1>4, <1>5, <1>6, <1>7, <1>8, <1>9, <1>10, <1>11
           DEF Next, MainThread, OtherThreads

(* A paused game always has something that resumes it.  A game enters the  *)
(* screen unpaused; a handler that takes the last overlay away resumes it  *)
(* or leaves the screen; and a handler that pauses shows an overlay or is  *)
(* that of sleep.                                                          *)
LEMMA StuckStep == ControlInv /\ [Next]_vars => GameNeverStuckPaused'
<1> SUFFICES ASSUME ControlInv, [Next]_vars PROVE GameNeverStuckPaused'
  OBVIOUS
<1>0. /\ GameNeverStuckPaused /\ Untouched
      /\ emulator \in Sessions \union {NoSession} /\ paused \in [Sessions -> BOOLEAN]
  BY DEF ControlInv, TypeOK
<1> USE <1>0 DEF GameNeverStuckPaused
<1>1. CASE UNCHANGED <<emulator, coreOptionsVisible, pauseMenuVisible, asleep, paused>>
  BY <1>1
<1>2. ASSUME emulator' = NoSession PROVE GameNeverStuckPaused'
  BY <1>2
<1>3. ASSUME NEW s \in Sessions, Launch(s) PROVE GameNeverStuckPaused'
  BY <1>3 DEF Launch, Untouched
<1>4. ASSUME NEW s \in Sessions,
             Teardown(s) \/ EngineStart(s) \/ EngineReleased(s) \/ LoopTop(s) \/ Frame(s)
      PROVE  UNCHANGED <<emulator, coreOptionsVisible, pauseMenuVisible, asleep, paused>>
  BY <1>4 DEF Teardown, EngineStart, EngineReleased, LoopTop, Frame, uiVars
<1>5. ASSUME NEW s \in Sessions, LoadDone(s) \/ FirstFrame(s)
      PROVE  UNCHANGED <<emulator, coreOptionsVisible, pauseMenuVisible, asleep, paused>>
  BY <1>5 DEF LoadDone, FirstFrame, sessionVars
<1>6. ASSUME NEW s \in Sessions, LoadFailed(s) PROVE emulator' = NoSession
  BY <1>6 DEF LoadFailed
<1>7. ASSUME DialogConfirm \/ DialogDismiss PROVE GameNeverStuckPaused'
  BY <1>7 DEF DialogConfirm, DialogDismiss, ExitEmulation, sessionVars
<1>8. ASSUME Back PROVE GameNeverStuckPaused'
  BY <1>8 DEF Back, ExitEmulation, sessionVars
<1>9. ASSUME emulator' = emulator, Resume(emulator), emulator # NoSession PROVE GameNeverStuckPaused'
  BY <1>9 DEF Resume
<1>10. ASSUME ClosePauseMenu \/ PauseMenuQuit \/ (\E c \in Commands : PauseMenuCommand(c)) \/ CloseCoreOptions
       PROVE  emulator' = emulator /\ Resume(emulator) /\ emulator # NoSession
  BY <1>10 DEF ClosePauseMenu, PauseMenuQuit, PauseMenuCommand, CloseCoreOptions, PauseMenu, Options
<1>11. ASSUME PauseMenuCoreOptions PROVE GameNeverStuckPaused'
  BY <1>11 DEF PauseMenuCoreOptions
<1>12. ASSUME NEW c \in Commands, QuickBarCommand(c) PROVE GameNeverStuckPaused'
  BY <1>12 DEF QuickBarCommand
<1>13. ASSUME ToggleQuickBar \/ HomeFromElsewhere PROVE GameNeverStuckPaused'
  BY <1>13 DEF ToggleQuickBar, HomeFromElsewhere, sessionVars
<1>14. ASSUME QuickBarCoreOptions PROVE GameNeverStuckPaused'
  BY <1>14 DEF QuickBarCoreOptions, OpenCoreOptions
<1>15. ASSUME WillSleep PROVE GameNeverStuckPaused'
  BY <1>15 DEF WillSleep
<1>16. ASSUME DidWake PROVE GameNeverStuckPaused'
  <2>1. emulator' = emulator
    BY <1>16 DEF DidWake
  <2>2. CASE emulator # NoSession /\ ~coreOptionsVisible /\ ~pauseMenuVisible
    BY <1>16, <1>9, <2>1, <2>2 DEF DidWake
  <2>3. CASE ~(emulator # NoSession /\ ~coreOptionsVisible /\ ~pauseMenuVisible)
    BY <1>16, <2>3 DEF DidWake
  <2> QED BY <2>2, <2>3
<1>17. UNCHANGED vars => UNCHANGED <<emulator, coreOptionsVisible, pauseMenuVisible, asleep, paused>>
  BY DEF vars, uiVars, sessionVars
<1> QED BY <1>1, <1>2, <1>3, <1>4, <1>5, <1>6, <1>7, <1>8, <1>9, <1>10, <1>11, <1>12, <1>13, <1>14,
           <1>15, <1>16, <1>17 DEF Next, MainThread, OtherThreads

(* So the invariant is inductive. *)
LEMMA ControlStep == ControlInv /\ [Next]_vars => ControlInv'
<1> SUFFICES ASSUME ControlInv, [Next]_vars PROVE ControlInv'
  OBVIOUS
<1>1. SessionInv'
  <2>1. CASE UNCHANGED vars
    BY <2>1, Parts, NothingKeeps DEF vars, sessionVars
  <2> QED BY <2>1, MainKeepsSessions, OthersKeepSessions DEF Next
<1>2. UITypes' /\ PendingType'
  BY Parts, UITypesStep, PendingStep
<1>3. OnScreen' /\ GameNeverStuckPaused'
  BY OnScreenStep, StuckStep
<1> QED BY <1>1, <1>2, <1>3 DEF ControlInv, TypeOK, SessionInv, SessionTypes, UITypes, PendingType

-----------------------------------------------------------------------------
(* The theorems.                                                           *)

(* Types, overlays, pause flags and audio engines agree in every state of  *)
(* every run, however many games are launched.                             *)
THEOREM Invariance == Spec => []ControlInv
<1>1. Init => ControlInv
  BY ControlInit
<1>2. ControlInv /\ [Next]_vars => ControlInv'
  BY ControlStep
<1> QED BY <1>1, <1>2, PTL DEF Spec

(* Every variable keeps its type; in particular no more engine starts are  *)
(* ever queued than the bound, and no core begins two frames while paused. *)
THEOREM TypeCorrect == Spec => []TypeOK
<1>1. ControlInv => TypeOK
  BY DEF ControlInv
<1> QED BY <1>1, Invariance, PTL

(* A paused game on screen always has an overlay to close or a wake-up to  *)
(* come: openPauseMenu, openCoreOptions, willSleep and didWake agree.      *)
THEOREM GameNeverStuckPausedHolds == Spec => []GameNeverStuckPaused
<1>1. ControlInv => GameNeverStuckPaused
  BY DEF ControlInv
<1> QED BY <1>1, Invariance, PTL

(* A running game that is not paused is heard once its queued engine       *)
(* starts have run, whatever order pauses and starts came in.              *)
THEOREM AudioComesBackHolds == Spec => []AudioComesBack
<1>1. ControlInv => AudioComesBack
  BY DEF ControlInv
<1> QED BY <1>1, Invariance, PTL

(* A paused core finishes at most the frame it had begun.                  *)
THEOREM PausedCoreStopsHolds == Spec => []PausedCoreStops
<1>1. ControlInv => PausedCoreStops
  BY DEF ControlInv
<1> QED BY <1>1, Invariance, PTL
=============================================================================
