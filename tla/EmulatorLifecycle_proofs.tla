---------------------- MODULE EmulatorLifecycle_proofs ----------------------
(***************************************************************************)
(* Proofs about EmulatorLifecycle, for any set of sessions: its types, its *)
(* inductive invariant IInv, the safety properties that follow, and that   *)
(* it implements CoreHost: every step of the program is, of one core, a    *)
(* step of CoreHost or nothing at all.                                     *)
(***************************************************************************)
EXTENDS EmulatorLifecycle, TLAPS

-----------------------------------------------------------------------------
(* Types.                                                                  *)

(* The kinds of blocks and worker positions, as sets of their own: the     *)
(* sequence steps below need nothing of their structure.                   *)
MainBlocks == [op : {"done", "failed"}, s : Sessions]
LoadBlocks == [op : {"load", "stop"}, s : Sessions]
Positions == [pc : LoadPCs \union StopPCs, s : Sessions] \union {Idle}

(* QueueTypeOK in those terms, now and after a step. *)
LEMMA QueueTypes ==
  QueueTypeOK <=> mainQ \in Seq(MainBlocks) /\ loadQ \in Seq(LoadBlocks) /\ worker \in Positions
BY DEF QueueTypeOK, MainBlocks, LoadBlocks, Positions

(* The same of the next state. *)
LEMMA QueueTypesNext ==
  QueueTypeOK' <=>
    mainQ' \in Seq(MainBlocks) /\ loadQ' \in Seq(LoadBlocks) /\ worker' \in Positions
BY DEF QueueTypeOK, MainBlocks, LoadBlocks, Positions

(* What the blocks of the two queues are made of. *)
LEMMA BlockTypes ==
  /\ \A s \in Sessions : Block("done", s) \in MainBlocks /\ Block("failed", s) \in MainBlocks
  /\ \A s \in Sessions : Block("load", s) \in LoadBlocks /\ Block("stop", s) \in LoadBlocks
  /\ \A b \in MainBlocks : b.s \in Sessions /\ b = Block(b.op, b.s)
  /\ \A b \in LoadBlocks : b.op \in {"load", "stop"} /\ b.s \in Sessions /\ b = Block(b.op, b.s)
<1>1. /\ \A s \in Sessions : Block("done", s) \in MainBlocks /\ Block("failed", s) \in MainBlocks
      /\ \A s \in Sessions : Block("load", s) \in LoadBlocks /\ Block("stop", s) \in LoadBlocks
  BY DEF Block, MainBlocks, LoadBlocks
<1>2. ASSUME NEW b \in MainBlocks PROVE b.s \in Sessions /\ b = Block(b.op, b.s)
  <2>1. b.s \in Sessions
    BY DEF MainBlocks
  <2>2. b = [op |-> b.op, s |-> b.s]
    BY Zenon DEF MainBlocks
  <2> QED BY <2>1, <2>2 DEF Block
<1>3. ASSUME NEW b \in LoadBlocks
      PROVE b.op \in {"load", "stop"} /\ b.s \in Sessions /\ b = Block(b.op, b.s)
  <2>1. b.op \in {"load", "stop"} /\ b.s \in Sessions
    BY DEF LoadBlocks
  <2>2. b = [op |-> b.op, s |-> b.s]
    BY Zenon DEF LoadBlocks
  <2> QED BY <2>1, <2>2 DEF Block
<1> QED BY <1>1, <1>2, <1>3

(* The positions the load queue's worker can be at. *)
LEMMA PositionTypes ==
  /\ Idle \in Positions
  /\ \A s \in Sessions, pc \in LoadPCs \union StopPCs : At(pc, s) \in Positions
  /\ \A w \in Positions : w # Idle => w.pc # "idle" /\ w.s \in Sessions
  /\ Idle.pc = "idle" /\ Idle.s = NoSession
<1>1. /\ Idle \in Positions
      /\ \A s \in Sessions, pc \in LoadPCs \union StopPCs : At(pc, s) \in Positions
  BY DEF Idle, At, Positions
<1>2. ASSUME NEW w \in Positions, w # Idle PROVE w.pc # "idle" /\ w.s \in Sessions
  <2>1. w \in [pc : LoadPCs \union StopPCs, s : Sessions]
    BY <1>2 DEF Positions
  <2>2. w.pc \in LoadPCs \union StopPCs /\ w.s \in Sessions
    BY <2>1
  <2> QED BY <2>2 DEF LoadPCs, StopPCs
<1>3. Idle.pc = "idle" /\ Idle.s = NoSession
  BY DEF Idle
<1> QED BY <1>1, <1>2, <1>3

(* What a queue holds after a block is appended or taken. *)
LEMMA QueueSteps ==
  ASSUME NEW B, NEW q \in Seq(B)
  PROVE  /\ \A b \in B : Append(q, b) \in Seq(B)
         /\ q # <<>> => Head(q) \in B /\ Tail(q) \in Seq(B)
OBVIOUS

(* Main-thread variables and session fields left alone keep their types. *)
LEMMA MainFrame == MainTypeOK /\ UNCHANGED <<mainVars, polls>> => MainTypeOK'
BY DEF MainTypeOK, mainVars

(* A step that leaves the sessions' fields alone keeps their types. *)
LEMMA SessionFrame ==
  SessionTypeOK /\ UNCHANGED <<active, quarantined, coreVars>> => SessionTypeOK'
BY DEF SessionTypeOK, coreVars

(* A step that leaves the queues and the worker alone keeps their types. *)
LEMMA QueueFrame == QueueTypeOK /\ UNCHANGED <<mainQ, loadQ, worker>> => QueueTypeOK'
BY DEF QueueTypeOK

(* endSessionTracking keeps the tracked entry and the records in their types. *)
LEMMA TrackingTypes ==
  MainTypeOK /\ EndSessionTracking =>
    sessionEntryID' \in Sessions \union {NoSession, OtherEntry} /\ played' \in [Sessions -> Nat]
BY DEF MainTypeOK, EndSessionTracking

(* The initial state is well typed. *)
LEMMA TypeInit == Init => TypeOK
<1> SUFFICES ASSUME Init PROVE TypeOK
  OBVIOUS
<1>1. MainTypeOK
  BY DEF Init, MainTypeOK
<1>2. QueueTypeOK
  <2>1. <<>> \in Seq(MainBlocks) /\ <<>> \in Seq(LoadBlocks)
    OBVIOUS
  <2> QED BY <2>1, QueueTypes, PositionTypes DEF Init
<1>3. SessionTypeOK
  BY DEF Init, SessionTypeOK
<1> QED BY <1>1, <1>2, <1>3 DEF TypeOK

(* Every step keeps every variable within its type. *)
LEMMA TypeStep == TypeOK /\ [Next]_vars => TypeOK'
<1> SUFFICES ASSUME TypeOK, [Next]_vars PROVE MainTypeOK' /\ QueueTypeOK' /\ SessionTypeOK'
  BY DEF TypeOK
<1>a. MainTypeOK /\ QueueTypeOK /\ SessionTypeOK
  BY DEF TypeOK
<1>q. mainQ \in Seq(MainBlocks) /\ loadQ \in Seq(LoadBlocks) /\ worker \in Positions
  BY <1>a, QueueTypes
<1>1. CASE User
  <2>1. CASE \E kind \in {"steam", "psp"} : LaunchHandoff(kind)
    <3>1. MainTypeOK'
      BY <2>1, <1>a DEF MainTypeOK, LaunchHandoff, mainVars
    <3>2. QueueTypeOK'
      BY <2>1, <1>a, QueueFrame DEF LaunchHandoff
    <3>3. SessionTypeOK'
      BY <2>1, <1>a, SessionFrame DEF LaunchHandoff
    <3> QED BY <3>1, <3>2, <3>3
  <2>2. CASE LaunchHandoffFails
    <3>1. MainTypeOK'
      BY <2>2, <1>a DEF MainTypeOK, LaunchHandoffFails, mainVars
    <3>2. QueueTypeOK'
      BY <2>2, <1>a, QueueFrame DEF LaunchHandoffFails
    <3>3. SessionTypeOK'
      BY <2>2, <1>a, SessionFrame DEF LaunchHandoffFails
    <3> QED BY <3>1, <3>2, <3>3
  <2>3. CASE LaunchWithoutCore
    <3>1. MainTypeOK'
      BY <2>3, <1>a DEF MainTypeOK, LaunchWithoutCore, mainVars
    <3>2. QueueTypeOK'
      BY <2>3, <1>a, QueueFrame DEF LaunchWithoutCore
    <3>3. SessionTypeOK'
      BY <2>3, <1>a, SessionFrame DEF LaunchWithoutCore
    <3> QED BY <3>1, <3>2, <3>3
  <2>4. CASE \E s \in Sessions : StartEmulator(s)
    <3>1. MainTypeOK'
      BY <2>4, <1>a DEF MainTypeOK, StartEmulator, mainVars
    <3>2. QueueTypeOK'
      BY <2>4, <1>a, <1>q, BlockTypes, PositionTypes, QueueSteps, QueueTypesNext DEF StartEmulator, LoadPCs, StopPCs
    <3>3. SessionTypeOK'
      BY <2>4, <1>a, SessionFrame DEF StartEmulator
    <3> QED BY <3>1, <3>2, <3>3
  <2>5. CASE AskQuit
    <3>1. MainTypeOK'
      BY <2>5, <1>a DEF MainTypeOK, AskQuit, mainVars
    <3>2. QueueTypeOK'
      BY <2>5, <1>a, QueueFrame DEF AskQuit
    <3>3. SessionTypeOK'
      BY <2>5, <1>a, SessionFrame DEF AskQuit
    <3> QED BY <3>1, <3>2, <3>3
  <2>6. CASE DismissQuit
    <3>1. MainTypeOK'
      BY <2>6, <1>a DEF MainTypeOK, DismissQuit, mainVars
    <3>2. QueueTypeOK'
      BY <2>6, <1>a, QueueFrame DEF DismissQuit
    <3>3. SessionTypeOK'
      BY <2>6, <1>a, SessionFrame DEF DismissQuit
    <3> QED BY <3>1, <3>2, <3>3
  <2>7. CASE ExitEmulation
    <3>1. MainTypeOK'
      BY <2>7, <1>a, TrackingTypes DEF MainTypeOK, ExitEmulation
    <3>2. QueueTypeOK'
      BY <2>7, <1>a, <1>q, BlockTypes, QueueSteps, QueueTypesNext DEF ExitEmulation, MainTypeOK
    <3>3. SessionTypeOK'
      BY <2>7, <1>a, SessionFrame DEF ExitEmulation, EndSessionTracking
    <3> QED BY <3>1, <3>2, <3>3
  <2> QED BY <1>1, <2>1, <2>2, <2>3, <2>4, <2>5, <2>6, <2>7 DEF User
<1>2. CASE MainBlock
  <2>1. CASE LoadDone
    <3>1. MainTypeOK'
      <4>1. Head(mainQ).s \in Sessions
        BY <2>1, <1>q, QueueSteps, BlockTypes DEF LoadDone
      <4> QED BY <4>1, <2>1, <1>a DEF MainTypeOK, LoadDone
    <3>2. QueueTypeOK'
      BY <2>1, <1>a, <1>q, BlockTypes, PositionTypes, QueueSteps, QueueTypesNext DEF LoadDone, Start, LoadPCs, StopPCs
    <3>3. SessionTypeOK'
      <4>1. Head(mainQ).s \in Sessions
        BY <2>1, <1>q, QueueSteps, BlockTypes DEF LoadDone
      <4>2. UNCHANGED <<active, quarantined, core, shutdownRequested, coreThreadStuck, hwRenderActive, rcService>>
        BY <2>1 DEF LoadDone
      <4>3. /\ state' \in [Sessions -> {"idle", "loaded", "running", "stopping", "stopped"}]
            /\ thread' \in [Sessions -> LivePCs \union {"none", "done"}]
            /\ stopRequested' \in [Sessions -> BOOLEAN]
        <5>1. CASE UNCHANGED <<state, stopRequested, thread>>
          BY <5>1, <1>a DEF SessionTypeOK
        <5>2. ASSUME NEW s \in Sessions, state[s] = "loaded", Start(s) PROVE /\ state' \in [Sessions -> {"idle", "loaded", "running", "stopping", "stopped"}]
                          /\ thread' \in [Sessions -> LivePCs \union {"none", "done"}]
                          /\ stopRequested' \in [Sessions -> BOOLEAN]
          <6>1. state' = [state EXCEPT ![s] = "running"] /\ stopRequested' = [stopRequested EXCEPT ![s] = FALSE]
            BY <5>2 DEF Start
          <6>2. thread' = [thread EXCEPT ![s] = "top"] /\ "top" \in LivePCs
            BY <5>2 DEF Start, LivePCs
          <6> QED BY <6>1, <6>2, <1>a DEF SessionTypeOK
        <5>3. CASE UNCHANGED <<state, stopRequested, thread>> \/ Start(Head(mainQ).s)
          BY <5>1, <5>2, <5>3, <4>1 DEF Start
        <5> QED BY <5>3, <2>1 DEF LoadDone
      <4> QED BY <4>2, <4>3, <1>a DEF SessionTypeOK
    <3> QED BY <3>1, <3>2, <3>3
  <2>2. CASE LoadFailed
    <3>1. MainTypeOK'
      <4>1. CASE emulator = Head(mainQ).s
        BY <4>1, <2>2, <1>a, TrackingTypes DEF MainTypeOK, LoadFailed
      <4>2. CASE emulator # Head(mainQ).s
        BY <4>2, <2>2, <1>a DEF MainTypeOK, LoadFailed
      <4> QED BY <4>1, <4>2
    <3>2. QueueTypeOK'
      BY <2>2, <1>a, <1>q, BlockTypes, PositionTypes, QueueSteps, QueueTypesNext DEF LoadFailed, EndSessionTracking, LoadPCs, StopPCs
    <3>3. SessionTypeOK'
      BY <2>2, <1>a, SessionFrame DEF LoadFailed, EndSessionTracking
    <3> QED BY <3>1, <3>2, <3>3
  <2> QED BY <1>2, <2>1, <2>2 DEF MainBlock
<1>3. CASE LoadQueue
  <2>1. CASE LoadBegin
    <3>1. MainTypeOK'
      BY <2>1, <1>a, MainFrame DEF LoadBegin
    <3>2. QueueTypeOK'
      BY <2>1, <1>a, <1>q, BlockTypes, PositionTypes, QueueSteps, QueueTypesNext DEF LoadBegin, LoadPCs, StopPCs
    <3>3. SessionTypeOK'
      BY <2>1, <1>a, SessionFrame DEF LoadBegin
    <3> QED BY <3>1, <3>2, <3>3
  <2>2. CASE Dlopen
    <3>1. MainTypeOK'
      BY <2>2, <1>a, MainFrame DEF Dlopen
    <3>2. QueueTypeOK'
      BY <2>2, <1>a, <1>q, BlockTypes, PositionTypes, QueueSteps, QueueTypesNext DEF Dlopen, LoadPCs, StopPCs
    <3>3. SessionTypeOK'
      BY <2>2, <1>a, <1>q, BlockTypes, PositionTypes DEF SessionTypeOK, Dlopen, coreVars, LivePCs
    <3> QED BY <3>1, <3>2, <3>3
  <2>3. CASE RetroInit
    <3>1. MainTypeOK'
      BY <2>3, <1>a, MainFrame DEF RetroInit
    <3>2. QueueTypeOK'
      BY <2>3, <1>a, <1>q, BlockTypes, PositionTypes, QueueSteps, QueueTypesNext DEF RetroInit, LoadPCs, StopPCs
    <3>3. SessionTypeOK'
      BY <2>3, <1>a, <1>q, BlockTypes, PositionTypes DEF SessionTypeOK, RetroInit, coreVars, LivePCs
    <3> QED BY <3>1, <3>2, <3>3
  <2>4. CASE LoadGame
    <3>1. MainTypeOK'
      BY <2>4, <1>a, MainFrame DEF LoadGame
    <3>2. QueueTypeOK'
      BY <2>4, <1>a, <1>q, BlockTypes, PositionTypes, QueueSteps, QueueTypesNext DEF LoadGame, LoadPCs, StopPCs
    <3>3. SessionTypeOK'
      <4>1. hwRenderActive' \in [Sessions -> BOOLEAN]
        <5> PICK hw \in BOOLEAN : hwRenderActive' = [hwRenderActive EXCEPT ![worker.s] = hw]
          BY <2>4 DEF LoadGame
        <5> QED BY <1>a DEF SessionTypeOK
      <4>3. rcService' \in [Sessions -> {"none", "live", "gone"}]
        <5>1. rcService' = rcService \/ \E rc \in {"none", "live"} :
                                         rcService' = [rcService EXCEPT ![worker.s] = rc]
          BY <2>4 DEF LoadGame
        <5> QED BY <5>1, <1>a DEF SessionTypeOK
      <4>2. /\ core' \in [Sessions -> {"none", "open", "inited", "game"}]
            /\ state' \in [Sessions -> {"idle", "loaded", "running", "stopping", "stopped"}]
        BY <2>4, <1>a DEF SessionTypeOK, LoadGame
      <4> QED BY <4>1, <4>2, <4>3, <2>4, <1>a DEF SessionTypeOK, LoadGame
    <3> QED BY <3>1, <3>2, <3>3
  <2>5. CASE PostDone
    <3>1. MainTypeOK'
      BY <2>5, <1>a, MainFrame DEF PostDone
    <3>2. QueueTypeOK'
      BY <2>5, <1>a, <1>q, BlockTypes, PositionTypes, QueueSteps, QueueTypesNext DEF PostDone, LoadPCs, StopPCs
    <3>3. SessionTypeOK'
      BY <2>5, <1>a, SessionFrame DEF PostDone
    <3> QED BY <3>1, <3>2, <3>3
  <2>6. CASE PostFailed
    <3>1. MainTypeOK'
      BY <2>6, <1>a, MainFrame DEF PostFailed
    <3>2. QueueTypeOK'
      BY <2>6, <1>a, <1>q, BlockTypes, PositionTypes, QueueSteps, QueueTypesNext DEF PostFailed, LoadPCs, StopPCs
    <3>3. SessionTypeOK'
      BY <2>6, <1>a, SessionFrame DEF PostFailed
    <3> QED BY <3>1, <3>2, <3>3
  <2>7. CASE StopBegin
    <3>1. MainTypeOK'
      BY <2>7, <1>a, MainFrame DEF StopBegin
    <3>2. QueueTypeOK'
      BY <2>7, <1>a, <1>q, BlockTypes, PositionTypes, QueueSteps, QueueTypesNext DEF StopBegin, LoadPCs, StopPCs
    <3>3. SessionTypeOK'
      BY <2>7, <1>a, <1>q, BlockTypes, PositionTypes DEF SessionTypeOK, StopBegin, coreVars, LivePCs
    <3> QED BY <3>1, <3>2, <3>3
  <2>8. CASE Join
    <3>1. MainTypeOK'
      BY <2>8, <1>a, MainFrame DEF Join
    <3>2. QueueTypeOK'
      BY <2>8, <1>a, <1>q, BlockTypes, PositionTypes, QueueSteps, QueueTypesNext DEF Join, LoadPCs, StopPCs
    <3>3. SessionTypeOK'
      BY <2>8, <1>a, <1>q, BlockTypes, PositionTypes DEF SessionTypeOK, Join, coreVars, LivePCs
    <3> QED BY <3>1, <3>2, <3>3
  <2>9. CASE TeardownClient
    <3>1. MainTypeOK'
      BY <2>9, <1>a, MainFrame DEF TeardownClient
    <3>2. QueueTypeOK'
      BY <2>9, <1>a, <1>q, BlockTypes, PositionTypes, QueueSteps, QueueTypesNext DEF TeardownClient, LoadPCs, StopPCs
    <3>3. SessionTypeOK'
      BY <2>9, <1>a, <1>q, BlockTypes, PositionTypes DEF SessionTypeOK, TeardownClient, coreVars, LivePCs
    <3> QED BY <3>1, <3>2, <3>3
  <2>10. CASE TeardownContext
    <3>1. MainTypeOK'
      BY <2>10, <1>a, MainFrame DEF TeardownContext
    <3>2. QueueTypeOK'
      BY <2>10, <1>a, <1>q, BlockTypes, PositionTypes, QueueSteps, QueueTypesNext DEF TeardownContext, LoadPCs, StopPCs
    <3>3. SessionTypeOK'
      BY <2>10, <1>a, SessionFrame DEF TeardownContext
    <3> QED BY <3>1, <3>2, <3>3
  <2>11. CASE Quarantine
    <3>1. MainTypeOK'
      BY <2>11, <1>a, MainFrame DEF Quarantine
    <3>2. QueueTypeOK'
      BY <2>11, <1>a, <1>q, BlockTypes, PositionTypes, QueueSteps, QueueTypesNext DEF Quarantine, LoadPCs, StopPCs
    <3>3. SessionTypeOK'
      BY <2>11, <1>a, <1>q, BlockTypes, PositionTypes DEF SessionTypeOK, Quarantine, coreVars, LivePCs
    <3> QED BY <3>1, <3>2, <3>3
  <2>12. CASE Unload
    <3>1. MainTypeOK'
      BY <2>12, <1>a, MainFrame DEF Unload
    <3>2. QueueTypeOK'
      BY <2>12, <1>a, <1>q, BlockTypes, PositionTypes, QueueSteps, QueueTypesNext DEF Unload, LoadPCs, StopPCs
    <3>3. SessionTypeOK'
      BY <2>12, <1>a, <1>q, BlockTypes, PositionTypes DEF SessionTypeOK, Unload, coreVars, LivePCs
    <3> QED BY <3>1, <3>2, <3>3
  <2>13. CASE Close
    <3>1. MainTypeOK'
      BY <2>13, <1>a, MainFrame DEF Close
    <3>2. QueueTypeOK'
      BY <2>13, <1>a, <1>q, BlockTypes, PositionTypes, QueueSteps, QueueTypesNext DEF Close, LoadPCs, StopPCs
    <3>3. SessionTypeOK'
      BY <2>13, <1>a, <1>q, BlockTypes, PositionTypes DEF SessionTypeOK, Close, coreVars, LivePCs
    <3> QED BY <3>1, <3>2, <3>3
  <2> QED BY <1>3, <2>1, <2>2, <2>3, <2>4, <2>5, <2>6, <2>7, <2>8, <2>9, <2>10, <2>11, <2>12, <2>13 DEF LoadQueue
<1>4. CASE \E s \in Sessions : FirstFrame(s) \/ CoreThread(s)
  <2> PICK s \in Sessions : FirstFrame(s) \/ CoreThread(s)
    BY <1>4
  <2>1. CASE FirstFrame(s)
    <3>1. MainTypeOK'
      BY <2>1, <1>a DEF MainTypeOK, FirstFrame, mainVars
    <3>2. QueueTypeOK'
      BY <2>1, <1>a, QueueFrame DEF FirstFrame
    <3>3. SessionTypeOK'
      BY <2>1, <1>a, SessionFrame DEF FirstFrame
    <3> QED BY <3>1, <3>2, <3>3
  <2>2. CASE LoopTop(s)
    <3>1. MainTypeOK'
      BY <2>2, <1>a, MainFrame DEF LoopTop
    <3>2. QueueTypeOK'
      BY <2>2, <1>a, QueueFrame DEF LoopTop
    <3>3. SessionTypeOK'
      BY <2>2, <1>a, <1>q, BlockTypes, PositionTypes DEF SessionTypeOK, LoopTop, coreVars, LivePCs
    <3> QED BY <3>1, <3>2, <3>3
  <2>3. CASE RunReturns(s)
    <3>1. MainTypeOK'
      BY <2>3, <1>a, MainFrame DEF RunReturns
    <3>2. QueueTypeOK'
      BY <2>3, <1>a, QueueFrame DEF RunReturns
    <3>3. SessionTypeOK'
      BY <2>3, <1>a, <1>q, BlockTypes, PositionTypes DEF SessionTypeOK, RunReturns, coreVars, LivePCs
    <3> QED BY <3>1, <3>2, <3>3
  <2>4. CASE Pump(s)
    <3>1. MainTypeOK'
      BY <2>4, <1>a, MainFrame DEF Pump
    <3>2. QueueTypeOK'
      BY <2>4, <1>a, QueueFrame DEF Pump
    <3>3. SessionTypeOK'
      BY <2>4, <1>a, <1>q, BlockTypes, PositionTypes DEF SessionTypeOK, Pump, coreVars, LivePCs
    <3> QED BY <3>1, <3>2, <3>3
  <2> QED BY <2>1, <2>2, <2>3, <2>4 DEF CoreThread
<1>5. CASE RestoreAfterHandoff
  <2>1. MainTypeOK'
    BY <1>5, <1>a, TrackingTypes DEF MainTypeOK, RestoreAfterHandoff
  <2>2. QueueTypeOK' /\ SessionTypeOK'
    BY <1>5, <1>a, QueueFrame, SessionFrame DEF RestoreAfterHandoff
  <2> QED BY <2>1, <2>2
<1>6. CASE UNCHANGED vars
  BY <1>6, <1>a, MainFrame, QueueFrame, SessionFrame DEF vars
<1> QED BY <1>1, <1>2, <1>3, <1>4, <1>5, <1>6 DEF Next

(* Every variable of a run always has its type. *)
THEOREM TypeCorrect == Spec => []TypeOK
BY TypeInit, TypeStep, PTL DEF Spec
-----------------------------------------------------------------------------
(* The inductive invariant.                                                *)

(* What IInv speaks of: the user's other actions, the external programs    *)
(* and the first-frame tasks leave all of it alone.                        *)
invVars == <<emulator, launched, mainQ, loadQ, worker, active, quarantined,
             state, core, thread, coreThreadStuck>>

(* A step is one of these, or leaves invVars unchanged. *)
Working ==
  \/ \E s \in Sessions : StartEmulator(s) \/ CoreThread(s)
  \/ ExitEmulation \/ MainBlock \/ LoadQueue

(* A step is one of those below or changes nothing the invariant speaks of. *)
LEMMA StepKinds == [Next]_vars => Working \/ UNCHANGED invVars
<1> SUFFICES ASSUME [Next]_vars, ~Working PROVE UNCHANGED invVars
  OBVIOUS
<1> USE DEF invVars, mainVars, coreVars
<1>1. CASE \E kind \in {"steam", "psp"} : LaunchHandoff(kind)
  BY <1>1 DEF LaunchHandoff
<1>2. CASE LaunchHandoffFails \/ LaunchWithoutCore
  BY <1>2 DEF LaunchHandoffFails, LaunchWithoutCore
<1>3. CASE AskQuit \/ DismissQuit
  BY <1>3 DEF AskQuit, DismissQuit
<1>4. CASE RestoreAfterHandoff
  BY <1>4 DEF RestoreAfterHandoff
<1>5. CASE \E s \in Sessions : FirstFrame(s)
  BY <1>5 DEF FirstFrame
<1>6. CASE UNCHANGED vars
  BY <1>6 DEF vars
<1> QED BY <1>1, <1>2, <1>3, <1>4, <1>5, <1>6 DEF Next, User, Working

(* A position is its label and its session. *)
LEMMA JoinPosition == \A w \in Positions : w.pc = "join" => w = At("join", w.s)
<1> SUFFICES ASSUME NEW w \in Positions, w.pc = "join" PROVE w = At("join", w.s)
  OBVIOUS
<1>1. w \in [pc : LoadPCs \union StopPCs, s : Sessions]
  BY DEF Positions, Idle
<1>2. w = [pc |-> w.pc, s |-> w.s]
  BY <1>1, Zenon
<1> QED BY <1>2 DEF At

(* The wait for a core thread settles whether it is stuck, for it alone. *)
LEMMA JoinVerdict ==
  ASSUME SessionTypeOK, worker.s \in Sessions, Join
  PROVE  /\ \A s \in Sessions \ {worker.s} : coreThreadStuck'[s] = coreThreadStuck[s]
         /\ coreThreadStuck'[worker.s] <=> thread[worker.s] # "done"
<1>1. coreThreadStuck' = [coreThreadStuck EXCEPT ![worker.s] = thread[worker.s] # "done"]
  BY DEF Join
<1>2. coreThreadStuck \in [Sessions -> BOOLEAN]
  BY DEF SessionTypeOK
<1> QED BY <1>1, <1>2, Zenon

(* Appending to a queue and taking its head, element by element. *)
LEMMA Appended ==
  ASSUME NEW B, NEW q \in Seq(B), NEW b \in B
  PROVE  /\ Len(q) \in Nat /\ \A i \in 1..Len(q) : q[i] \in B
         /\ Len(Append(q, b)) = Len(q) + 1
         /\ \A i \in 1..Len(q) : Append(q, b)[i] = q[i]
         /\ Append(q, b)[Len(q) + 1] = b
OBVIOUS

(* Element i of what is left of a queue was element i + 1. *)
LEMMA Taken ==
  ASSUME NEW B, NEW q \in Seq(B), q # <<>>
  PROVE  /\ Len(q) \in Nat /\ Len(q) >= 1 /\ \A i \in 1..Len(q) : q[i] \in B
         /\ q[1] = Head(q)
         /\ Len(Tail(q)) = Len(q) - 1
         /\ \A i \in 1..(Len(q) - 1) : Tail(q)[i] = q[i + 1]
OBVIOUS

(* A block's fields are those it was made with. *)
LEMMA BlockFields ==
  /\ \A op, s : Block(op, s).op = op /\ Block(op, s).s = s
  /\ \A b \in LoadBlocks : b = Block(b.op, b.s)
BY BlockTypes DEF Block

(* The worker goes on knowing what it may assume of its session. *)
LEMMA WorkerKnowsStep == IInv /\ [Next]_vars => WorkerKnows'
<1> SUFFICES ASSUME IInv, [Next]_vars PROVE WorkerKnows'
  OBVIOUS
<1>t. /\ SessionTypeOK /\ SessionTypeOK'
      /\ mainQ \in Seq(MainBlocks) /\ loadQ \in Seq(LoadBlocks) /\ worker \in Positions
  BY TypeStep, QueueTypes DEF IInv, TypeOK
<1>i. LoadedOnce /\ WorkerKnows /\ ThreadHasGame
  BY DEF IInv
<1>p. /\ Idle.pc = "idle" /\ Idle.s = NoSession
      /\ \A pc, s : At(pc, s).pc = pc /\ At(pc, s).s = s
  BY DEF Idle, At
<1>h. loadQ # <<>> => Head(loadQ) \in LoadBlocks /\ Head(loadQ).s \in Sessions
  BY <1>t, QueueSteps, BlockTypes
<1>u. CASE UNCHANGED invVars
  BY <1>u, <1>i DEF WorkerKnows, Alive, LivePCs, StopPCs, SessionTypeOK, invVars
<1>1. ASSUME NEW s \in Sessions, StartEmulator(s) PROVE WorkerKnows'
  BY <1>1, <1>t, <1>i, <1>p, <1>h, PositionTypes, NoSessionAssumption DEF WorkerKnows, Alive, LivePCs, StopPCs, SessionTypeOK, StartEmulator, coreVars
<1>2. CASE ExitEmulation
  BY <1>2, <1>t, <1>i, <1>p, <1>h, PositionTypes, NoSessionAssumption DEF WorkerKnows, Alive, LivePCs, StopPCs, SessionTypeOK, ExitEmulation, coreVars
<1>3. CASE LoadDone
  BY <1>3, <1>t, <1>i, <1>p, <1>h, PositionTypes, NoSessionAssumption DEF WorkerKnows, Alive, LivePCs, StopPCs, SessionTypeOK, LoadDone, Start, coreVars
<1>4. CASE LoadFailed
  BY <1>4, <1>t, <1>i, <1>p, <1>h, PositionTypes, NoSessionAssumption DEF WorkerKnows, Alive, LivePCs, StopPCs, SessionTypeOK, LoadFailed, coreVars
<1>5. ASSUME NEW s \in Sessions, LoopTop(s) PROVE WorkerKnows'
  BY <1>5, <1>t, <1>i, <1>p, <1>h, PositionTypes, NoSessionAssumption DEF WorkerKnows, Alive, LivePCs, StopPCs, SessionTypeOK, LoopTop, coreVars
<1>6. ASSUME NEW s \in Sessions, RunReturns(s) PROVE WorkerKnows'
  BY <1>6, <1>t, <1>i, <1>p, <1>h, PositionTypes, NoSessionAssumption DEF WorkerKnows, Alive, LivePCs, StopPCs, SessionTypeOK, RunReturns, coreVars
<1>7. ASSUME NEW s \in Sessions, Pump(s) PROVE WorkerKnows'
  BY <1>7, <1>t, <1>i, <1>p, <1>h, PositionTypes, NoSessionAssumption DEF WorkerKnows, Alive, LivePCs, StopPCs, SessionTypeOK, Pump, coreVars
<1>8. CASE LoadBegin
  <2>1. Untouched(Head(loadQ).s)
    <3>1. 1 \in 1..Len(loadQ) /\ Head(loadQ) = loadQ[1]
      BY <1>8, <1>t DEF LoadBegin
    <3>2. loadQ[1] = Block("load", Head(loadQ).s)
      BY <3>1, <1>8, <1>h, BlockFields DEF LoadBegin
    <3> QED BY <3>1, <3>2, <1>8, <1>h, <1>i DEF LoadBegin, LoadedOnce, InQueue
  <2> QED BY <2>1, <1>8, <1>t, <1>i, <1>p, <1>h DEF WorkerKnows, StopPCs, LoadBegin, coreVars, Untouched
<1>9. CASE Dlopen
  BY <1>9, <1>t, <1>i, <1>p, <1>h, PositionTypes, NoSessionAssumption DEF WorkerKnows, Alive, LivePCs, StopPCs, SessionTypeOK, Dlopen, coreVars
<1>10. CASE RetroInit
  BY <1>10, <1>t, <1>i, <1>p, <1>h, PositionTypes, NoSessionAssumption DEF WorkerKnows, Alive, LivePCs, StopPCs, SessionTypeOK, RetroInit, coreVars
<1>11. CASE LoadGame
  BY <1>11, <1>t, <1>i, <1>p, <1>h, PositionTypes, NoSessionAssumption DEF WorkerKnows, Alive, LivePCs, StopPCs, SessionTypeOK, LoadGame, coreVars
<1>12. CASE PostDone
  BY <1>12, <1>t, <1>i, <1>p, <1>h, PositionTypes, NoSessionAssumption DEF WorkerKnows, Alive, LivePCs, StopPCs, SessionTypeOK, PostDone, coreVars
<1>13. CASE PostFailed
  BY <1>13, <1>t, <1>i, <1>p, <1>h, PositionTypes, NoSessionAssumption DEF WorkerKnows, Alive, LivePCs, StopPCs, SessionTypeOK, PostFailed, coreVars
<1>14. CASE StopBegin
  BY <1>14, <1>t, <1>i, <1>p, <1>h, PositionTypes, NoSessionAssumption DEF WorkerKnows, Alive, LivePCs, StopPCs, SessionTypeOK, StopBegin, coreVars
<1>15. CASE Join
  BY <1>15, <1>t, <1>i, <1>p, <1>h, PositionTypes, NoSessionAssumption DEF WorkerKnows, Alive, LivePCs, StopPCs, SessionTypeOK, Join, coreVars
<1>16. CASE TeardownClient
  BY <1>16, <1>t, <1>i, <1>p, <1>h, PositionTypes, NoSessionAssumption DEF WorkerKnows, Alive, LivePCs, StopPCs, SessionTypeOK, TeardownClient, coreVars
<1>17. CASE TeardownContext
  BY <1>17, <1>t, <1>i, <1>p, PositionTypes DEF WorkerKnows, ThreadHasGame, Alive, StopPCs, TeardownContext, coreVars
<1>18. CASE Quarantine
  BY <1>18, <1>t, <1>i, <1>p, <1>h, PositionTypes, NoSessionAssumption DEF WorkerKnows, Alive, LivePCs, StopPCs, SessionTypeOK, Quarantine, coreVars
<1>19. CASE Unload
  BY <1>19, <1>t, <1>i, <1>p, <1>h, PositionTypes, NoSessionAssumption DEF WorkerKnows, Alive, LivePCs, StopPCs, SessionTypeOK, Unload, coreVars
<1>20. CASE Close
  BY <1>20, <1>t, <1>i, <1>p, <1>h, PositionTypes, NoSessionAssumption DEF WorkerKnows, Alive, LivePCs, StopPCs, SessionTypeOK, Close, coreVars
<1> QED BY <1>u, <1>1, <1>2, <1>3, <1>4, <1>5, <1>6, <1>7, <1>8, <1>9, <1>10, <1>11, <1>12, <1>13, <1>14, <1>15, <1>16, <1>17, <1>18, <1>19, <1>20, StepKinds DEF Working, CoreThread, MainBlock, LoadQueue

(* A live thread keeps its game under it. *)
LEMMA ThreadHasGameStep == IInv /\ [Next]_vars => ThreadHasGame'
<1> SUFFICES ASSUME IInv, [Next]_vars PROVE ThreadHasGame'
  OBVIOUS
<1>t. /\ SessionTypeOK /\ SessionTypeOK'
      /\ mainQ \in Seq(MainBlocks) /\ loadQ \in Seq(LoadBlocks) /\ worker \in Positions
  BY TypeStep, QueueTypes DEF IInv, TypeOK
<1>i. WorkerKnows /\ ThreadHasGame /\ QuarantineIsFinal
  BY DEF IInv
<1>p. /\ Idle.pc = "idle" /\ Idle.s = NoSession
      /\ \A pc, s : At(pc, s).pc = pc /\ At(pc, s).s = s
  BY DEF Idle, At
<1>h. loadQ # <<>> => Head(loadQ) \in LoadBlocks /\ Head(loadQ).s \in Sessions
  BY <1>t, QueueSteps, BlockTypes
<1>u. CASE UNCHANGED invVars
  BY <1>u, <1>i DEF ThreadHasGame, WorkerKnows, Alive, LivePCs, StopPCs, SessionTypeOK, invVars
<1>1. ASSUME NEW s \in Sessions, StartEmulator(s) PROVE ThreadHasGame'
  BY <1>1, <1>t, <1>i, <1>p, <1>h, PositionTypes, NoSessionAssumption DEF ThreadHasGame, WorkerKnows, Alive, LivePCs, StopPCs, SessionTypeOK, StartEmulator, coreVars
<1>2. CASE ExitEmulation
  BY <1>2, <1>t, <1>i, <1>p, <1>h, PositionTypes, NoSessionAssumption DEF ThreadHasGame, WorkerKnows, Alive, LivePCs, StopPCs, SessionTypeOK, ExitEmulation, coreVars
<1>3. CASE LoadDone
  BY <1>3, <1>t, <1>i, <1>p, <1>h, PositionTypes, NoSessionAssumption DEF ThreadHasGame, WorkerKnows, Alive, LivePCs, StopPCs, SessionTypeOK, LoadDone, Start, coreVars
<1>4. CASE LoadFailed
  BY <1>4, <1>t, <1>i, <1>p, <1>h, PositionTypes, NoSessionAssumption DEF ThreadHasGame, WorkerKnows, Alive, LivePCs, StopPCs, SessionTypeOK, LoadFailed, coreVars
<1>5. ASSUME NEW s \in Sessions, LoopTop(s) PROVE ThreadHasGame'
  BY <1>5, <1>t, <1>i, <1>p, <1>h, PositionTypes, NoSessionAssumption DEF ThreadHasGame, WorkerKnows, Alive, LivePCs, StopPCs, SessionTypeOK, LoopTop, coreVars
<1>6. ASSUME NEW s \in Sessions, RunReturns(s) PROVE ThreadHasGame'
  BY <1>6, <1>t, <1>i, <1>p, <1>h, PositionTypes, NoSessionAssumption DEF ThreadHasGame, WorkerKnows, Alive, LivePCs, StopPCs, SessionTypeOK, RunReturns, coreVars
<1>7. ASSUME NEW s \in Sessions, Pump(s) PROVE ThreadHasGame'
  BY <1>7, <1>t, <1>i, <1>p, <1>h, PositionTypes, NoSessionAssumption DEF ThreadHasGame, WorkerKnows, Alive, LivePCs, StopPCs, SessionTypeOK, Pump, coreVars
<1>8. CASE LoadBegin
  BY <1>8, <1>t, <1>i, <1>p, <1>h, PositionTypes, NoSessionAssumption DEF ThreadHasGame, WorkerKnows, Alive, LivePCs, StopPCs, SessionTypeOK, LoadBegin, coreVars
<1>9. CASE Dlopen
  BY <1>9, <1>t, <1>i, <1>p, <1>h, PositionTypes, NoSessionAssumption DEF ThreadHasGame, WorkerKnows, Alive, LivePCs, StopPCs, SessionTypeOK, Dlopen, coreVars
<1>10. CASE RetroInit
  BY <1>10, <1>t, <1>i, <1>p, <1>h, PositionTypes, NoSessionAssumption DEF ThreadHasGame, WorkerKnows, Alive, LivePCs, StopPCs, SessionTypeOK, RetroInit, coreVars
<1>11. CASE LoadGame
  BY <1>11, <1>t, <1>i, <1>p, <1>h, PositionTypes, NoSessionAssumption DEF ThreadHasGame, WorkerKnows, Alive, LivePCs, StopPCs, SessionTypeOK, LoadGame, coreVars
<1>12. CASE PostDone
  BY <1>12, <1>t, <1>i, <1>p, <1>h, PositionTypes, NoSessionAssumption DEF ThreadHasGame, WorkerKnows, Alive, LivePCs, StopPCs, SessionTypeOK, PostDone, coreVars
<1>13. CASE PostFailed
  BY <1>13, <1>t, <1>i, <1>p, <1>h, PositionTypes, NoSessionAssumption DEF ThreadHasGame, WorkerKnows, Alive, LivePCs, StopPCs, SessionTypeOK, PostFailed, coreVars
<1>14. CASE StopBegin
  BY <1>14, <1>t, <1>i, <1>p, <1>h, PositionTypes, NoSessionAssumption DEF ThreadHasGame, WorkerKnows, Alive, LivePCs, StopPCs, SessionTypeOK, StopBegin, coreVars
<1>15. CASE Join
  <2> DEFINE w == worker.s
  <2>1. /\ w \in Sessions /\ worker = At("join", w) /\ worker' = At("teardown", w)
        /\ state' = [state EXCEPT ![w] = "stopped"] /\ core' = core /\ thread' = thread
    BY <1>15, <1>t, <1>p, PositionTypes, JoinPosition DEF Join, coreVars
  <2>2. /\ \A s \in Sessions \ {w} : coreThreadStuck'[s] = coreThreadStuck[s]
        /\ thread[w] # "done" => coreThreadStuck'[w]
    BY <2>1, <1>15, <1>t, JoinVerdict
  <2>3. ASSUME NEW s \in Sessions, Alive(s)
        PROVE core[s] = "game" /\ (state'[s] = "running" \/ coreThreadStuck'[s])
    <3>1. CASE s = w
      BY <3>1, <2>2, <2>3, <1>i DEF ThreadHasGame, Alive, LivePCs
    <3>2. CASE s # w
      BY <3>2, <2>1, <2>2, <2>3, <1>i, <1>t, <1>p DEF ThreadHasGame, SessionTypeOK
    <3> QED BY <3>1, <3>2
  <2>4. \A s \in Sessions : state'[s] = "loaded" => state[s] = "loaded"
    BY <2>1, <1>t DEF SessionTypeOK
  <2> QED BY <2>1, <2>3, <2>4, <1>i DEF ThreadHasGame, Alive
<1>16. CASE TeardownClient
  BY <1>16, <1>t, <1>i, <1>p, <1>h, PositionTypes, NoSessionAssumption DEF ThreadHasGame, WorkerKnows, Alive, LivePCs, StopPCs, SessionTypeOK, TeardownClient, coreVars
<1>17. CASE TeardownContext
  BY <1>17, <1>t, <1>i, <1>p, <1>h, PositionTypes, NoSessionAssumption DEF ThreadHasGame, WorkerKnows, Alive, LivePCs, StopPCs, SessionTypeOK, TeardownContext, coreVars
<1>18. CASE Quarantine
  BY <1>18, <1>t, <1>i, <1>p, <1>h, PositionTypes, NoSessionAssumption DEF ThreadHasGame, WorkerKnows, Alive, LivePCs, StopPCs, SessionTypeOK, Quarantine, coreVars
<1>19. CASE Unload
  BY <1>19, <1>t, <1>i, <1>p, <1>h, PositionTypes, NoSessionAssumption DEF ThreadHasGame, WorkerKnows, Alive, LivePCs, StopPCs, SessionTypeOK, Unload, coreVars
<1>20. CASE Close
  BY <1>20, <1>t, <1>i, <1>p, <1>h, PositionTypes, NoSessionAssumption DEF ThreadHasGame, WorkerKnows, Alive, LivePCs, StopPCs, SessionTypeOK, Close, coreVars
<1> QED BY <1>u, <1>1, <1>2, <1>3, <1>4, <1>5, <1>6, <1>7, <1>8, <1>9, <1>10, <1>11, <1>12, <1>13, <1>14, <1>15, <1>16, <1>17, <1>18, <1>19, <1>20, StepKinds DEF Working, CoreThread, MainBlock, LoadQueue

(* What is quarantined stays quarantined and stuck. *)
LEMMA QuarantineIsFinalStep == IInv /\ [Next]_vars => QuarantineIsFinal'
<1> SUFFICES ASSUME IInv, [Next]_vars PROVE QuarantineIsFinal'
  OBVIOUS
<1>t. /\ SessionTypeOK /\ SessionTypeOK'
      /\ mainQ \in Seq(MainBlocks) /\ loadQ \in Seq(LoadBlocks) /\ worker \in Positions
  BY TypeStep, QueueTypes DEF IInv, TypeOK
<1>i. LoadedOnce /\ WorkerKnows /\ ThreadHasGame /\ QuarantineIsFinal
  BY DEF IInv
<1>p. /\ Idle.pc = "idle" /\ Idle.s = NoSession
      /\ \A pc, s : At(pc, s).pc = pc /\ At(pc, s).s = s
  BY DEF Idle, At
<1>h. loadQ # <<>> => Head(loadQ) \in LoadBlocks /\ Head(loadQ).s \in Sessions
  BY <1>t, QueueSteps, BlockTypes
<1>u. CASE UNCHANGED invVars
  BY <1>u, <1>i DEF QuarantineIsFinal, WorkerKnows, StopPCs, SessionTypeOK, invVars
<1>1. ASSUME NEW s \in Sessions, StartEmulator(s) PROVE QuarantineIsFinal'
  BY <1>1, <1>t, <1>i, <1>p, <1>h, PositionTypes, NoSessionAssumption DEF QuarantineIsFinal, WorkerKnows, StopPCs, SessionTypeOK, StartEmulator, coreVars
<1>2. CASE ExitEmulation
  BY <1>2, <1>t, <1>i, <1>p, <1>h, PositionTypes, NoSessionAssumption DEF QuarantineIsFinal, WorkerKnows, StopPCs, SessionTypeOK, ExitEmulation, coreVars
<1>3. CASE LoadDone
  BY <1>3, <1>t, <1>i, <1>p, <1>h, PositionTypes, NoSessionAssumption DEF QuarantineIsFinal, WorkerKnows, StopPCs, SessionTypeOK, LoadDone, Start, coreVars
<1>4. CASE LoadFailed
  BY <1>4, <1>t, <1>i, <1>p, <1>h, PositionTypes, NoSessionAssumption DEF QuarantineIsFinal, WorkerKnows, StopPCs, SessionTypeOK, LoadFailed, coreVars
<1>5. ASSUME NEW s \in Sessions, LoopTop(s) PROVE QuarantineIsFinal'
  BY <1>5, <1>t, <1>i, <1>p, <1>h, PositionTypes, NoSessionAssumption DEF QuarantineIsFinal, WorkerKnows, StopPCs, SessionTypeOK, LoopTop, coreVars
<1>6. ASSUME NEW s \in Sessions, RunReturns(s) PROVE QuarantineIsFinal'
  BY <1>6, <1>t, <1>i, <1>p, <1>h, PositionTypes, NoSessionAssumption DEF QuarantineIsFinal, WorkerKnows, StopPCs, SessionTypeOK, RunReturns, coreVars
<1>7. ASSUME NEW s \in Sessions, Pump(s) PROVE QuarantineIsFinal'
  BY <1>7, <1>t, <1>i, <1>p, <1>h, PositionTypes, NoSessionAssumption DEF QuarantineIsFinal, WorkerKnows, StopPCs, SessionTypeOK, Pump, coreVars
<1>8. CASE LoadBegin
  <2>1. Untouched(Head(loadQ).s)
    <3>1. 1 \in 1..Len(loadQ) /\ Head(loadQ) = loadQ[1]
      BY <1>8, <1>t DEF LoadBegin
    <3>2. loadQ[1] = Block("load", Head(loadQ).s)
      BY <3>1, <1>8, <1>h, BlockFields DEF LoadBegin
    <3> QED BY <3>1, <3>2, <1>8, <1>h, <1>i DEF LoadBegin, LoadedOnce, InQueue
  <2> QED BY <2>1, <1>8, <1>t, <1>i, <1>p, <1>h DEF QuarantineIsFinal, LoadBegin, coreVars, Untouched
<1>9. CASE Dlopen
  BY <1>9, <1>t, <1>i, <1>p, <1>h, PositionTypes, NoSessionAssumption DEF QuarantineIsFinal, WorkerKnows, StopPCs, SessionTypeOK, Dlopen, coreVars
<1>10. CASE RetroInit
  BY <1>10, <1>t, <1>i, <1>p, <1>h, PositionTypes, NoSessionAssumption DEF QuarantineIsFinal, WorkerKnows, StopPCs, SessionTypeOK, RetroInit, coreVars
<1>11. CASE LoadGame
  BY <1>11, <1>t, <1>i, <1>p, <1>h, PositionTypes, NoSessionAssumption DEF QuarantineIsFinal, WorkerKnows, StopPCs, SessionTypeOK, LoadGame, coreVars
<1>12. CASE PostDone
  BY <1>12, <1>t, <1>i, <1>p, <1>h, PositionTypes, NoSessionAssumption DEF QuarantineIsFinal, WorkerKnows, StopPCs, SessionTypeOK, PostDone, coreVars
<1>13. CASE PostFailed
  BY <1>13, <1>t, <1>i, <1>p, <1>h, PositionTypes, NoSessionAssumption DEF QuarantineIsFinal, WorkerKnows, StopPCs, SessionTypeOK, PostFailed, coreVars
<1>14. CASE StopBegin
  BY <1>14, <1>t, <1>i, <1>p, <1>h, PositionTypes, NoSessionAssumption DEF QuarantineIsFinal, WorkerKnows, StopPCs, SessionTypeOK, StopBegin, coreVars
<1>15. CASE Join
  BY <1>15, <1>t, <1>i, <1>p, <1>h, PositionTypes, NoSessionAssumption DEF QuarantineIsFinal, WorkerKnows, StopPCs, SessionTypeOK, Join, coreVars
<1>16. CASE TeardownClient
  BY <1>16, <1>t, <1>i, <1>p, <1>h, PositionTypes, NoSessionAssumption DEF QuarantineIsFinal, WorkerKnows, StopPCs, SessionTypeOK, TeardownClient, coreVars
<1>17. CASE TeardownContext
  BY <1>17, <1>t, <1>i, <1>p, <1>h, PositionTypes, NoSessionAssumption DEF QuarantineIsFinal, WorkerKnows, StopPCs, SessionTypeOK, TeardownContext, coreVars
<1>18. CASE Quarantine
  BY <1>18, <1>t, <1>i, <1>p, <1>h, PositionTypes, NoSessionAssumption DEF QuarantineIsFinal, WorkerKnows, StopPCs, SessionTypeOK, Quarantine, coreVars
<1>19. CASE Unload
  BY <1>19, <1>t, <1>i, <1>p, <1>h, PositionTypes, NoSessionAssumption DEF QuarantineIsFinal, WorkerKnows, StopPCs, SessionTypeOK, Unload, coreVars
<1>20. CASE Close
  BY <1>20, <1>t, <1>i, <1>p, <1>h, PositionTypes, NoSessionAssumption DEF QuarantineIsFinal, WorkerKnows, StopPCs, SessionTypeOK, Close, coreVars
<1> QED BY <1>u, <1>1, <1>2, <1>3, <1>4, <1>5, <1>6, <1>7, <1>8, <1>9, <1>10, <1>11, <1>12, <1>13, <1>14, <1>15, <1>16, <1>17, <1>18, <1>19, <1>20, StepKinds DEF Working, CoreThread, MainBlock, LoadQueue

(* A stuck session keeps its game. *)
LEMMA StuckInGameStep == IInv /\ [Next]_vars => StuckInGame'
<1> SUFFICES ASSUME IInv, [Next]_vars PROVE StuckInGame'
  OBVIOUS
<1>t. /\ SessionTypeOK /\ worker \in Positions
      /\ mainQ \in Seq(MainBlocks) /\ loadQ \in Seq(LoadBlocks)
  BY QueueTypes DEF IInv, TypeOK
<1>i. LoadedOnce /\ WorkerKnows /\ ThreadHasGame /\ StuckInGame
  BY DEF IInv
<1>p. /\ Idle.pc = "idle" /\ Idle.s = NoSession
      /\ \A pc, s : At(pc, s).pc = pc /\ At(pc, s).s = s
  BY DEF Idle, At
<1>h. loadQ # <<>> => Head(loadQ) \in LoadBlocks /\ Head(loadQ).s \in Sessions
  BY <1>t, QueueSteps, BlockTypes
<1>u. CASE UNCHANGED invVars
  BY <1>u, <1>i DEF StuckInGame, invVars
<1> USE <1>t, <1>i, <1>p, <1>h, PositionTypes, NoSessionAssumption
    DEF StuckInGame, WorkerKnows, SessionTypeOK, coreVars
<1>1. ASSUME NEW s \in Sessions, StartEmulator(s) PROVE StuckInGame'
  BY <1>1 DEF StartEmulator
<1>2. CASE ExitEmulation
  BY <1>2 DEF ExitEmulation
<1>3. CASE LoadDone
  BY <1>3 DEF LoadDone, Start, ThreadHasGame
<1>4. CASE LoadFailed
  BY <1>4 DEF LoadFailed
<1>5. ASSUME NEW s \in Sessions, LoopTop(s) PROVE StuckInGame'
  BY <1>5 DEF LoopTop, LivePCs
<1>6. ASSUME NEW s \in Sessions, RunReturns(s) PROVE StuckInGame'
  BY <1>6 DEF RunReturns
<1>7. ASSUME NEW s \in Sessions, Pump(s) PROVE StuckInGame'
  BY <1>7 DEF Pump
<1>8. CASE LoadBegin
  <2>1. Untouched(Head(loadQ).s)
    <3>1. 1 \in 1..Len(loadQ) /\ Head(loadQ) = loadQ[1]
      BY <1>8 DEF LoadBegin
    <3>2. loadQ[1] = Block("load", Head(loadQ).s)
      BY <3>1, <1>8, BlockFields DEF LoadBegin
    <3> QED BY <3>1, <3>2, <1>8 DEF LoadBegin, LoadedOnce, InQueue
  <2> QED BY <2>1, <1>8 DEF LoadBegin, Untouched
<1>9. CASE Dlopen
  BY <1>9 DEF Dlopen
<1>10. CASE RetroInit
  BY <1>10 DEF RetroInit
<1>11. CASE LoadGame
  BY <1>11 DEF LoadGame
<1>12. CASE PostDone
  BY <1>12 DEF PostDone
<1>13. CASE PostFailed
  BY <1>13 DEF PostFailed
<1>14. CASE StopBegin
  BY <1>14 DEF StopBegin
<1>15. CASE Join
  <2> DEFINE w == worker.s
  <2>1. /\ w \in Sessions /\ worker' = At("teardown", w) /\ thread[w] # "none"
        /\ core' = core /\ thread' = thread
    BY <1>15 DEF Join
  <2>2. /\ \A s \in Sessions \ {w} : coreThreadStuck'[s] = coreThreadStuck[s]
        /\ coreThreadStuck'[w] => thread[w] # "done"
    BY <2>1, <1>15, JoinVerdict
  <2>3. thread[w] # "done" => core[w] = "game"
    BY <2>1 DEF ThreadHasGame, Alive
  <2>4. \A s \in Sessions : coreThreadStuck'[s] => core[s] = "game" /\ thread[s] # "none"
    <3> SUFFICES ASSUME NEW s \in Sessions, coreThreadStuck'[s]
                 PROVE  core[s] = "game" /\ thread[s] # "none"
      OBVIOUS
    <3>1. CASE s = w
      BY <3>1, <2>1, <2>2, <2>3
    <3>2. CASE s # w
      BY <3>2, <2>2
    <3> QED BY <3>1, <3>2
  <2> QED BY <2>1, <2>4
<1>16. CASE TeardownClient
  BY <1>16 DEF TeardownClient
<1>17. CASE TeardownContext
  BY <1>17 DEF TeardownContext, StopPCs
<1>18. CASE Quarantine
  BY <1>18 DEF Quarantine
<1>19. CASE Unload
  BY <1>19 DEF Unload
<1>20. CASE Close
  BY <1>20 DEF Close
<1> QED BY <1>u, <1>1, <1>2, <1>3, <1>4, <1>5, <1>6, <1>7, <1>8, <1>9, <1>10,
           <1>11, <1>12, <1>13, <1>14, <1>15, <1>16, <1>17, <1>18, <1>19, <1>20,
           StepKinds DEF Working, CoreThread, MainBlock, LoadQueue

(* Nothing but its own load or stop touches an untouched session. *)
LEMMA UntouchedStep ==
  ASSUME IInv, [Next]_vars, NEW u \in Sessions, Untouched(u),
         LoadBegin \/ StopBegin => Head(loadQ).s # u
  PROVE  Untouched(u)'
<1>t. /\ SessionTypeOK
      /\ mainQ \in Seq(MainBlocks) /\ loadQ \in Seq(LoadBlocks) /\ worker \in Positions
  BY QueueTypes DEF IInv, TypeOK
<1>p. /\ Idle.pc = "idle" /\ Idle.s = NoSession
      /\ \A pc, s : At(pc, s).pc = pc /\ At(pc, s).s = s
  BY DEF Idle, At
<1>n. NoSession # u
  BY NoSessionAssumption
<1>a. /\ state[u] = "idle" /\ core[u] = "none" /\ thread[u] = "none"
      /\ worker.s # u /\ u \notin quarantined
      /\ \A i \in 1..Len(mainQ) : mainQ[i].s # u
  BY DEF Untouched
<1>g. SUFFICES /\ state'[u] = "idle" /\ core'[u] = "none" /\ thread'[u] = "none"
               /\ worker'.s # u /\ u \notin quarantined'
               /\ \A i \in 1..Len(mainQ') : mainQ'[i].s # u
  BY DEF Untouched
<1>u. CASE UNCHANGED invVars
  BY <1>u, <1>a DEF invVars
<1>1. ASSUME NEW s \in Sessions, StartEmulator(s) PROVE Untouched(u)'
  BY <1>1, <1>t, <1>a, <1>p, <1>n, PositionTypes DEF StartEmulator, SessionTypeOK, coreVars, LivePCs, Untouched
<1>2. CASE ExitEmulation
  BY <1>2, <1>t, <1>a, <1>p, <1>n, PositionTypes DEF ExitEmulation, SessionTypeOK, coreVars, LivePCs
<1>3. CASE LoadDone
  <2>1. /\ Head(mainQ).s # u
        /\ \A i \in 1..Len(mainQ') : mainQ'[i].s # u
    BY <1>3, <1>t, <1>a, Taken DEF LoadDone
  <2>2. state'[u] = "idle" /\ thread'[u] = "none" /\ core' = core /\ worker' = worker
    BY <2>1, <1>3, <1>t, <1>a DEF LoadDone, Start, SessionTypeOK, coreVars
  <2> QED BY <2>1, <2>2, <1>3, <1>a DEF LoadDone
<1>4. CASE LoadFailed
  <2>1. /\ Head(mainQ).s # u
        /\ \A i \in 1..Len(mainQ') : mainQ'[i].s # u
    BY <1>4, <1>t, <1>a, Taken DEF LoadFailed
  <2>2. state'[u] = "idle" /\ thread'[u] = "none" /\ core' = core /\ worker' = worker
    BY <2>1, <1>4, <1>t, <1>a DEF LoadFailed, Start, SessionTypeOK, coreVars
  <2> QED BY <2>1, <2>2, <1>4, <1>a DEF LoadFailed
<1>5. ASSUME NEW s \in Sessions, LoopTop(s) PROVE Untouched(u)'
  BY <1>5, <1>t, <1>a, <1>p, <1>n, PositionTypes DEF LoopTop, SessionTypeOK, coreVars, LivePCs, Untouched
<1>6. ASSUME NEW s \in Sessions, RunReturns(s) PROVE Untouched(u)'
  BY <1>6, <1>t, <1>a, <1>p, <1>n, PositionTypes DEF RunReturns, SessionTypeOK, coreVars, LivePCs, Untouched
<1>7. ASSUME NEW s \in Sessions, Pump(s) PROVE Untouched(u)'
  BY <1>7, <1>t, <1>a, <1>p, <1>n, PositionTypes DEF Pump, SessionTypeOK, coreVars, LivePCs, Untouched
<1>8. CASE LoadBegin
  BY <1>8, <1>t, <1>a, <1>p, <1>n, PositionTypes DEF LoadBegin, SessionTypeOK, coreVars, LivePCs
<1>9. CASE Dlopen
  BY <1>9, <1>t, <1>a, <1>p, <1>n, PositionTypes DEF Dlopen, SessionTypeOK, coreVars, LivePCs
<1>10. CASE RetroInit
  BY <1>10, <1>t, <1>a, <1>p, <1>n, PositionTypes DEF RetroInit, SessionTypeOK, coreVars, LivePCs
<1>11. CASE LoadGame
  <2>1. worker'.s = worker.s
    BY <1>11, <1>p DEF LoadGame
  <2>2. state'[u] = state[u] /\ core'[u] = core[u]
    BY <1>11, <1>t, <1>a DEF LoadGame, SessionTypeOK
  <2>3. UNCHANGED <<thread, mainQ, quarantined>>
    BY <1>11 DEF LoadGame
  <2> QED BY <2>1, <2>2, <2>3, <1>a
<1>12. CASE PostDone
  <2>1. worker.s \in Sessions /\ Block("done", worker.s) \in MainBlocks
    BY <1>12, <1>t, PositionTypes, BlockTypes, <1>p DEF PostDone
  <2>2. \A i \in 1..Len(mainQ') : mainQ'[i].s # u
    BY <2>1, <1>12, <1>t, <1>a, Appended, BlockFields, SMTT(60) DEF PostDone
  <2> QED BY <2>2, <1>12, <1>a, <1>p, <1>n DEF PostDone, coreVars
<1>13. CASE PostFailed
  <2>1. worker.s \in Sessions /\ Block("failed", worker.s) \in MainBlocks
    BY <1>13, <1>t, PositionTypes, BlockTypes, <1>p DEF PostFailed
  <2>2. \A i \in 1..Len(mainQ') : mainQ'[i].s # u
    BY <2>1, <1>13, <1>t, <1>a, Appended, BlockFields DEF PostFailed
  <2> QED BY <2>2, <1>13, <1>a, <1>p, <1>n DEF PostFailed, coreVars
<1>14. CASE StopBegin
  BY <1>14, <1>t, <1>a, <1>p, <1>n, PositionTypes DEF StopBegin, SessionTypeOK, coreVars, LivePCs
<1>15. CASE Join
  BY <1>15, <1>t, <1>a, <1>p, <1>n, PositionTypes DEF Join, SessionTypeOK, coreVars, LivePCs
<1>16. CASE TeardownClient
  BY <1>16, <1>t, <1>a, <1>p, <1>n, PositionTypes DEF TeardownClient, SessionTypeOK, coreVars, LivePCs
<1>17. CASE TeardownContext
  BY <1>17, <1>t, <1>a, <1>p, <1>n, PositionTypes DEF TeardownContext, SessionTypeOK, coreVars, LivePCs
<1>18. CASE Quarantine
  BY <1>18, <1>t, <1>a, <1>p, <1>n, PositionTypes DEF Quarantine, SessionTypeOK, coreVars, LivePCs
<1>19. CASE Unload
  BY <1>19, <1>t, <1>a, <1>p, <1>n, PositionTypes DEF Unload, SessionTypeOK, coreVars, LivePCs
<1>20. CASE Close
  BY <1>20, <1>t, <1>a, <1>p, <1>n, PositionTypes DEF Close, SessionTypeOK, coreVars, LivePCs
<1> QED BY <1>g, <1>u, <1>1, <1>2, <1>3, <1>4, <1>5, <1>6, <1>7, <1>8, <1>9, <1>10, <1>11, <1>12, <1>13, <1>14, <1>15, <1>16, <1>17, <1>18, <1>19, <1>20, StepKinds DEF Working, CoreThread, MainBlock, LoadQueue, Untouched


(* OnceInOrder survives what is done to the load queue. *)
LEMMA OnceTaken ==
  ASSUME NEW q \in Seq(LoadBlocks), q # <<>>, OnceInOrder(q)
  PROVE  /\ OnceInOrder(Tail(q))
         /\ \A i \in 1..Len(Tail(q)) : Tail(q)[i].op = "load" => Tail(q)[i].s # Head(q).s
<1>1. /\ Len(q) \in Nat /\ Len(q) >= 1 /\ \A i \in 1..Len(q) : q[i] \in LoadBlocks
      /\ q[1] = Head(q)
      /\ Len(Tail(q)) = Len(q) - 1
      /\ \A i \in 1..(Len(q) - 1) : Tail(q)[i] = q[i + 1]
  BY Taken
<1>2. OnceInOrder(Tail(q))
  <2> SUFFICES ASSUME NEW i \in 1..Len(Tail(q)), Tail(q)[i].op = "load",
                      NEW j \in 1..Len(Tail(q))
               PROVE  /\ Tail(q)[j] = Tail(q)[i] => j = i
                      /\ Tail(q)[j] = Block("stop", Tail(q)[i].s) => i < j
    BY DEF OnceInOrder
  <2>1. i + 1 \in 1..Len(q) /\ j + 1 \in 1..Len(q)
    BY <1>1
  <2> QED BY <1>1, <2>1 DEF OnceInOrder
<1>3. ASSUME NEW i \in 1..Len(Tail(q)), Tail(q)[i].op = "load", Tail(q)[i].s = Head(q).s
      PROVE  FALSE
  <2>1. i + 1 \in 1..Len(q) /\ 1 \in 1..Len(q) /\ q[i + 1].op = "load" /\ q[i + 1].s = q[1].s
    BY <1>1, <1>3
  <2>2. q[1] # q[i + 1] /\ q[1] # Block("stop", q[i + 1].s)
    BY <2>1 DEF OnceInOrder
  <2>3. q[1].op \in {"load", "stop"} /\ q[1] = Block(q[1].op, q[1].s)
        /\ q[i + 1] = Block(q[i + 1].op, q[i + 1].s)
    BY <1>1, <2>1, BlockTypes
  <2> QED BY <2>1, <2>2, <2>3
<1> QED BY <1>2, <1>3

(* Appending a stop, or the first load of a session, keeps OnceInOrder. *)
LEMMA OnceAppended ==
  ASSUME NEW q \in Seq(LoadBlocks), NEW s \in Sessions, OnceInOrder(q)
  PROVE  /\ OnceInOrder(Append(q, Block("stop", s)))
         /\ (\A i \in 1..Len(q) : q[i].s # s) => OnceInOrder(Append(q, Block("load", s)))
<1>1. Block("load", s) \in LoadBlocks /\ Block("stop", s) \in LoadBlocks
  BY BlockTypes
<1>2. OnceInOrder(Append(q, Block("stop", s)))
  BY <1>1, Appended, BlockFields DEF OnceInOrder
<1>3. ASSUME \A i \in 1..Len(q) : q[i].s # s PROVE OnceInOrder(Append(q, Block("load", s)))
  BY <1>1, <1>3, Appended, BlockFields DEF OnceInOrder
<1> QED BY <1>2, <1>3

(* What a step does to the load queue, to launched and to emulator. *)
LEMMA QueueCases ==
  ASSUME IInv, [Next]_vars
  PROVE  \/ LoadBegin \/ StopBegin
         \/ \E s \in Sessions : StartEmulator(s)
         \/ /\ emulator \in Sessions /\ emulator' = NoSession
            /\ loadQ' = Append(loadQ, Block("stop", emulator))
            /\ UNCHANGED <<launched, worker, active, quarantined, core, mainQ>>
         \/ loadQ' = loadQ /\ launched' = launched /\ emulator' \in {emulator, NoSession}
<1> USE DEF mainVars, coreVars
<1>1. CASE ExitEmulation
  BY <1>1 DEF ExitEmulation, IInv, TypeOK, MainTypeOK
<1>2. CASE MainBlock
  BY <1>2 DEF MainBlock, LoadDone, LoadFailed
<1>3. ASSUME NEW s \in Sessions, CoreThread(s) PROVE UNCHANGED <<loadQ, launched, emulator>>
  BY <1>3 DEF CoreThread, LoopTop, RunReturns, Pump
<1>4. CASE Dlopen \/ RetroInit \/ LoadGame \/ PostDone \/ PostFailed
  BY <1>4 DEF Dlopen, RetroInit, LoadGame, PostDone, PostFailed
<1>5. CASE Join \/ TeardownClient \/ TeardownContext \/ Quarantine \/ Unload \/ Close
  BY <1>5 DEF Join, TeardownClient, TeardownContext, Quarantine, Unload, Close
<1>6. CASE UNCHANGED invVars
  BY <1>6 DEF invVars
<1> QED BY <1>1, <1>2, <1>3, <1>4, <1>5, <1>6, StepKinds DEF Working, LoadQueue

(* A session is not loaded twice, nor after its stop. *)
LEMMA LoadedOnceStep == IInv /\ [Next]_vars => LoadedOnce'
<1> SUFFICES ASSUME IInv, [Next]_vars PROVE LoadedOnce'
  OBVIOUS
<1>t. loadQ \in Seq(LoadBlocks)
  BY QueueTypes DEF IInv, TypeOK
<1>i. LoadedOnce
  BY DEF IInv
<1>n. NoSession \notin Sessions
  BY NoSessionAssumption
<1>1. CASE LoadBegin \/ StopBegin
  <2>1. /\ loadQ # <<>> /\ loadQ' = Tail(loadQ) /\ launched' = launched /\ emulator' = emulator
    BY <1>1 DEF LoadBegin, StopBegin, mainVars
  <2>2. /\ Len(loadQ) \in Nat /\ Len(loadQ) >= 1 /\ \A i \in 1..Len(loadQ) : loadQ[i] \in LoadBlocks
        /\ loadQ[1] = Head(loadQ)
        /\ Len(Tail(loadQ)) = Len(loadQ) - 1
        /\ \A i \in 1..(Len(loadQ) - 1) : Tail(loadQ)[i] = loadQ[i + 1]
    BY <2>1, <1>t, Taken
  <2>3. /\ OnceInOrder(loadQ')
        /\ \A i \in 1..Len(loadQ') : loadQ'[i].op = "load" => loadQ'[i].s # Head(loadQ).s
    BY <2>1, <1>t, <1>i, OnceTaken DEF LoadedOnce
  <2>4. ASSUME NEW u \in Sessions \ launched
        PROVE  Untouched(u)' /\ emulator # u /\ \A i \in 1..Len(loadQ') : loadQ'[i].s # u
    <3>1. Untouched(u) /\ emulator # u /\ \A i \in 1..Len(loadQ) : loadQ[i].s # u
      BY <1>i DEF LoadedOnce
    <3>2. Head(loadQ).s # u
      BY <3>1, <2>2
    <3> QED BY <3>1, <3>2, <2>1, <2>2, UntouchedStep
  <2>5. ASSUME NEW u \in Sessions, InQueue(loadQ', "load", u) PROVE Untouched(u)'
    <3>1. PICK i \in 1..Len(loadQ') : loadQ'[i] = Block("load", u)
      BY <2>5 DEF InQueue
    <3>2. Head(loadQ).s # u
      BY <3>1, <2>3, BlockFields
    <3>3. i + 1 \in 1..Len(loadQ) /\ loadQ[i + 1] = Block("load", u)
      BY <3>1, <2>1, <2>2
    <3>4. Untouched(u)
      BY <3>3, <1>i DEF LoadedOnce, InQueue
    <3> QED BY <3>2, <3>4, UntouchedStep
  <2> QED BY <2>1, <2>3, <2>4, <2>5 DEF LoadedOnce
<1>2. CASE ~(LoadBegin \/ StopBegin)
  <2>u. ASSUME NEW u \in Sessions, Untouched(u) PROVE Untouched(u)'
    BY <1>2, <2>u, UntouchedStep
  <2>1. CASE \E s \in Sessions : StartEmulator(s)
    <3> PICK s \in Sessions : StartEmulator(s)
      BY <2>1
    <3>1. /\ s \notin launched /\ launched' = launched \union {s} /\ emulator' = s
          /\ loadQ' = Append(loadQ, Block("load", s))
      BY DEF StartEmulator
    <3>2. Untouched(s) /\ \A i \in 1..Len(loadQ) : loadQ[i].s # s
      BY <3>1, <1>i DEF LoadedOnce
    <3>3. OnceInOrder(loadQ')
      BY <3>1, <3>2, <1>t, <1>i, OnceAppended DEF LoadedOnce
    <3>4. /\ Len(loadQ) \in Nat /\ Len(loadQ') = Len(loadQ) + 1
          /\ \A i \in 1..Len(loadQ) : loadQ'[i] = loadQ[i]
          /\ loadQ'[Len(loadQ) + 1] = Block("load", s)
      BY <3>1, <1>t, BlockTypes, Appended
    <3>5. \A v \in Sessions \ launched' :
            Untouched(v)' /\ emulator' # v /\ \A i \in 1..Len(loadQ') : loadQ'[i].s # v
      BY <3>1, <3>4, <2>u, <1>i, BlockFields DEF LoadedOnce
    <3>6. ASSUME NEW v \in Sessions, InQueue(loadQ', "load", v) PROVE Untouched(v)'
      <4>1. v = s \/ InQueue(loadQ, "load", v)
        BY <3>4, <3>6, BlockFields DEF InQueue
      <4> QED BY <4>1, <3>2, <2>u, <1>i DEF LoadedOnce
    <3> QED BY <3>3, <3>5, <3>6 DEF LoadedOnce
  <2>2. CASE /\ emulator \in Sessions /\ emulator' = NoSession /\ launched' = launched
             /\ loadQ' = Append(loadQ, Block("stop", emulator))
    <3>1. /\ Len(loadQ) \in Nat /\ Len(loadQ') = Len(loadQ) + 1
          /\ \A i \in 1..Len(loadQ) : loadQ'[i] = loadQ[i]
          /\ loadQ'[Len(loadQ) + 1] = Block("stop", emulator)
      BY <2>2, <1>t, BlockTypes, Appended
    <3>2. OnceInOrder(loadQ')
      BY <2>2, <1>t, <1>i, OnceAppended DEF LoadedOnce
    <3>3. \A v \in Sessions \ launched' :
            Untouched(v)' /\ emulator' # v /\ \A i \in 1..Len(loadQ') : loadQ'[i].s # v
      BY <3>1, <2>2, <2>u, <1>i, <1>n, BlockFields DEF LoadedOnce
    <3>4. ASSUME NEW v \in Sessions, InQueue(loadQ', "load", v) PROVE Untouched(v)'
      <4>1. InQueue(loadQ, "load", v)
        BY <3>1, <3>4, BlockFields DEF InQueue
      <4> QED BY <4>1, <2>u, <1>i DEF LoadedOnce
    <3> QED BY <3>2, <3>3, <3>4 DEF LoadedOnce
  <2>3. CASE loadQ' = loadQ /\ launched' = launched /\ emulator' \in {emulator, NoSession}
    BY <2>3, <2>u, <1>i, <1>n DEF LoadedOnce
  <2> QED BY <1>2, <2>1, <2>2, <2>3, QueueCases
<1> QED BY <1>1, <1>2

(* What appending to a queue and taking its head do to Frees and StopAfter. *)
LEMMA AwaitAppended ==
  ASSUME NEW q \in Seq(LoadBlocks), NEW b \in LoadBlocks, NEW s \in Sessions, NEW i \in 0..Len(q)
  PROVE  /\ StopAfter(q, s, i) => StopAfter(Append(q, b), s, i)
         /\ b = Block("stop", s) => StopAfter(Append(q, b), s, i)
         /\ Frees(q, s, i) /\ (b.s = s \/ StopAfter(q, s, i)) => Frees(Append(q, b), s, i)
<1>1. /\ Len(q) \in Nat /\ Len(Append(q, b)) = Len(q) + 1
      /\ \A k \in 1..Len(q) : Append(q, b)[k] = q[k]
      /\ Append(q, b)[Len(q) + 1] = b
  BY Appended
<1>2. ASSUME StopAfter(q, s, i) PROVE StopAfter(Append(q, b), s, i)
  BY <1>1, <1>2 DEF StopAfter
<1>3. ASSUME b = Block("stop", s) PROVE StopAfter(Append(q, b), s, i)
  BY <1>1, <1>3 DEF StopAfter
<1>4. ASSUME Frees(q, s, i), b.s = s \/ StopAfter(q, s, i) PROVE Frees(Append(q, b), s, i)
  <2> SUFFICES ASSUME NEW k \in (i + 1)..Len(Append(q, b)), Append(q, b)[k].s # s
               PROVE  \E j \in (i + 1)..(k - 1) : Append(q, b)[j] = Block("stop", s)
    BY DEF Frees
  <2>1. CASE k \in (i + 1)..Len(q)
    BY <2>1, <1>1, <1>4 DEF Frees
  <2>2. CASE k = Len(q) + 1
    BY <2>2, <1>1, <1>4 DEF StopAfter
  <2> QED BY <2>1, <2>2, <1>1
<1> QED BY <1>2, <1>3, <1>4

(* Taking the head moves everything one place forward. *)
LEMMA AwaitTaken ==
  ASSUME NEW q \in Seq(LoadBlocks), q # <<>>, NEW s \in Sessions
  PROVE  /\ \A i \in 1..Len(q) : StopAfter(q, s, i) => StopAfter(Tail(q), s, i - 1)
         /\ \A i \in 1..Len(q) : Frees(q, s, i) => Frees(Tail(q), s, i - 1)
         /\ Frees(q, s, 0) => Head(q).s = s
<1>1. /\ Len(q) \in Nat /\ Len(q) >= 1 /\ q[1] = Head(q)
      /\ Len(Tail(q)) = Len(q) - 1
      /\ \A k \in 1..(Len(q) - 1) : Tail(q)[k] = q[k + 1]
  BY Taken
<1>2. ASSUME NEW i \in 1..Len(q), StopAfter(q, s, i) PROVE StopAfter(Tail(q), s, i - 1)
  <2> PICK j \in (i + 1)..Len(q) : q[j] = Block("stop", s)
    BY <1>2 DEF StopAfter
  <2>1. j - 1 \in ((i - 1) + 1)..Len(Tail(q)) /\ Tail(q)[j - 1] = q[j]
    BY <1>1
  <2> QED BY <2>1 DEF StopAfter
<1>3. ASSUME NEW i \in 1..Len(q), Frees(q, s, i) PROVE Frees(Tail(q), s, i - 1)
  <2> SUFFICES ASSUME NEW k \in ((i - 1) + 1)..Len(Tail(q)), Tail(q)[k].s # s
               PROVE  \E j \in ((i - 1) + 1)..(k - 1) : Tail(q)[j] = Block("stop", s)
    BY DEF Frees
  <2>1. k + 1 \in (i + 1)..Len(q) /\ q[k + 1].s # s
    BY <1>1
  <2> PICK j \in (i + 1)..((k + 1) - 1) : q[j] = Block("stop", s)
    BY <1>3, <2>1 DEF Frees
  <2>2. j - 1 \in ((i - 1) + 1)..(k - 1) /\ Tail(q)[j - 1] = q[j]
    BY <1>1
  <2> QED BY <2>2
<1>4. ASSUME Frees(q, s, 0) PROVE Head(q).s = s
  <2> SUFFICES ASSUME Head(q).s # s PROVE FALSE
    OBVIOUS
  <2>1. 1 \in (0 + 1)..Len(q) /\ q[1].s # s
    BY <1>1
  <2>2. \E j \in (0 + 1)..(1 - 1) : q[j] = Block("stop", s)
    BY <1>4, <2>1 DEF Frees
  <2> QED BY <2>2
<1> QED BY <1>2, <1>3, <1>4

(* A step that leaves the load queue and the screen's session alone keeps  *)
(* the hand-over if it makes no session due and moves no core.             *)
LEMMA HandOverKept ==
  ASSUME HandOver, UNCHANGED <<loadQ, emulator>>,
         \A s \in Sessions : Due(s)' => Due(s),
         \A s \in Sessions : Resident(s)' => active' = s /\ worker'.s \in {s, NoSession},
         \A s \in Sessions : InQueue(mainQ', "failed", s) => ~Due(s)'
  PROVE  HandOver'
BY DEF HandOver, Awaits

(* The same for the steps of the worker on a session w: only w can be due. *)
LEMMA OnlyOwnCore ==
  ASSUME IInv, worker # Idle
  PROVE  /\ worker.s \in Sessions
         /\ \A s \in Sessions : Resident(s) => s = worker.s
         /\ \A s \in Sessions : Due(s) => s = worker.s
         /\ \A s \in Sessions : InQueue(mainQ, "failed", s) => ~Due(s)
         /\ Resident(worker.s) => active = worker.s
<1>1. worker \in Positions /\ HandOver
  BY QueueTypes DEF IInv, TypeOK
<1>2. worker.s \in Sessions
  BY <1>1, PositionTypes
<1>3. \A s \in Sessions : Resident(s) => s = worker.s /\ active = s
  BY <1>1, <1>2, NoSessionAssumption DEF HandOver
<1> QED BY <1>1, <1>2, <1>3 DEF HandOver, Due, Loading

(* A core thread, or a block on the main queue other than a failure of the *)
(* session on screen, changes nothing HandOver speaks of but mainQ.        *)
LEMMA HandOverByOthers ==
  ASSUME IInv, UNCHANGED <<emulator, loadQ, worker, active, quarantined, core>>,
         \A s \in Sessions : InQueue(mainQ', "failed", s) => InQueue(mainQ, "failed", s)
  PROVE  HandOver'
<1>1. HandOver
  BY DEF IInv
<1>2. \A s \in Sessions : (Due(s)' <=> Due(s)) /\ (Resident(s)' <=> Resident(s))
  BY DEF Due, Resident, Loading, Leaving
<1> QED BY <1>1, <1>2 DEF HandOver, Awaits

(* LoadBegin and StopBegin: nobody holds the place, or the session that    *)
(* does is the one taken off the queue.                                    *)
LEMMA HandOverTaken ==
  ASSUME IInv, LoadBegin \/ StopBegin
  PROVE  HandOver'
<1>t. loadQ \in Seq(LoadBlocks) /\ SessionTypeOK
  BY QueueTypes DEF IInv, TypeOK
<1>i. HandOver /\ LoadedOnce
  BY DEF IInv
<1>n. NoSession \notin Sessions
  BY NoSessionAssumption
<1>p. /\ Idle.pc = "idle" /\ Idle.s = NoSession
      /\ \A pc, s : At(pc, s).pc = pc /\ At(pc, s).s = s
  BY DEF Idle, At
<1>1. /\ worker = Idle /\ loadQ # <<>> /\ loadQ' = Tail(loadQ)
      /\ UNCHANGED <<emulator, mainQ, active, quarantined, core>>
  BY DEF LoadBegin, StopBegin, mainVars, coreVars
<1> PICK h \in Sessions : h = Head(loadQ).s
  BY <1>1, <1>t, Taken, BlockTypes
<1>2. /\ Head(loadQ) \in LoadBlocks /\ h = Head(loadQ).s /\ loadQ[1] = Head(loadQ)
      /\ 1 \in 1..Len(loadQ) /\ Len(loadQ) \in Nat
      /\ Len(loadQ') = Len(loadQ) - 1
      /\ \A i \in 1..(Len(loadQ) - 1) : loadQ'[i] = loadQ[i + 1]
  BY <1>1, <1>t, Taken, BlockTypes
<1>3. ASSUME NEW s \in Sessions, Resident(s) PROVE s = h /\ active = s
  <2>1. Due(s)
    BY <1>3, <1>1, <1>p, <1>n DEF Due, Leaving
  <2> QED BY <1>2, <1>3, <2>1, <1>1, <1>t, <1>i, AwaitTaken DEF HandOver, Awaits
<1>4. /\ \A s \in Sessions : Resident(s)' <=> Resident(s)
      /\ worker'.s \in {h, NoSession}
      /\ \A s \in Sessions : Resident(s)' => active' = s /\ worker'.s \in {s, NoSession}
  <2>1. \A s \in Sessions : Resident(s)' <=> Resident(s)
    BY <1>1 DEF Resident
  <2>2. worker'.s \in {h, NoSession}
    BY <1>1, <1>2, <1>p DEF LoadBegin, StopBegin
  <2> QED BY <2>1, <2>2, <1>1, <1>3
<1>5. \A s \in Sessions, i \in 1..Len(loadQ') : loadQ'[i] = Block("load", s) => Awaits(s, i)'
  <2> SUFFICES ASSUME NEW s \in Sessions, NEW i \in 1..Len(loadQ'), loadQ'[i] = Block("load", s)
               PROVE  Awaits(s, i)'
    OBVIOUS
  <2>1. i + 1 \in 1..Len(loadQ) /\ loadQ[i + 1] = Block("load", s) /\ (i + 1) - 1 = i
    BY <1>2
  <2>2. Awaits(s, i + 1)
    BY <2>1, <1>i DEF HandOver
  <2>3. /\ StopAfter(loadQ, s, i + 1) => StopAfter(Tail(loadQ), s, i)
        /\ Frees(loadQ, s, i + 1) => Frees(Tail(loadQ), s, i)
    BY <2>1, <1>1, <1>t, AwaitTaken
  <2> QED BY <2>2, <2>3, <1>1 DEF Awaits
<1>6. CASE LoadBegin
  <2>1. loadQ[1] = Block("load", h)
    BY <1>1, <1>2, <1>6, BlockFields DEF LoadBegin
  <2>2. Untouched(h) /\ Awaits(h, 1)
    BY <2>1, <1>2, <1>i DEF LoadedOnce, InQueue, HandOver
  <2>3. \A s \in Sessions : ~Resident(s)
    BY <2>2, <1>3 DEF Untouched, Resident
  <2>4. Awaits(h, 0)'
    <3>1. 1 - 1 = 0
      OBVIOUS
    <3>2. /\ StopAfter(loadQ, h, 1) => StopAfter(Tail(loadQ), h, 1 - 1)
          /\ Frees(loadQ, h, 1) => Frees(Tail(loadQ), h, 1 - 1)
      BY <1>1, <1>2, <1>t, AwaitTaken
    <3>3. /\ StopAfter(loadQ, h, 1) => StopAfter(loadQ', h, 0)
          /\ Frees(loadQ, h, 1) => Frees(loadQ', h, 0)
      BY <1>1, <3>1, <3>2, Zenon
    <3> QED BY <2>2, <3>3, <1>1, Zenon DEF Awaits
  <2>5. \A s \in Sessions : Due(s)' => s = h
    BY <2>3, <1>4, <1>n DEF Due, Loading
  <2>6. \A s \in Sessions : InQueue(mainQ', "failed", s) => s # h
    BY <2>2, <1>1, BlockFields DEF InQueue, Untouched
  <2>7. \A s \in Sessions : Due(s)' => Awaits(s, 0)'
    BY <2>4, <2>5
  <2>8. \A s \in Sessions : InQueue(mainQ', "failed", s) => ~Due(s)'
    BY <2>5, <2>6
  <2> QED BY <2>7, <2>8, <1>4, <1>5, Zenon DEF HandOver
<1>7. CASE StopBegin
  <2>1. CASE worker' = worker
    <3>1. ~Resident(h)
      <4>1. ~Retained(h)
        BY <1>7, <1>2, <2>1, <1>1, <1>p DEF StopBegin
      <4> QED BY <4>1, <1>2, <1>3 DEF Retained
    <3>2. \A s \in Sessions : ~Due(s)'
      BY <3>1, <1>1, <1>3, <1>4, <1>n, <1>p, <2>1 DEF Due, Loading
    <3> QED BY <3>2, <1>4, <1>5 DEF HandOver
  <2>2. CASE worker' # worker
    <3>1. worker'.s = h /\ worker'.pc \in {"join", "teardown"}
      BY <2>2, <1>2, <1>7, <1>p DEF StopBegin
    <3>2. \A s \in Sessions : ~Due(s)'
      BY <3>1, <1>3, <1>4 DEF Due, Loading, Leaving, StopPCs
    <3> QED BY <3>2, <1>4, <1>5 DEF HandOver
  <2> QED BY <2>1, <2>2
<1> QED BY <1>6, <1>7

(* StartEmulator and exitEmulation: a block goes to the end of the queue. *)
LEMMA HandOverAppended ==
  ASSUME IInv, UNCHANGED <<worker, active, quarantined, core, mainQ>>,
         NEW s \in Sessions, NEW op \in {"load", "stop"},
         loadQ' = Append(loadQ, Block(op, s)),
         \/ op = "load" /\ s \notin launched /\ emulator = NoSession /\ emulator' = s
         \/ op = "stop" /\ emulator = s /\ emulator' = NoSession
  PROVE  HandOver'
<1>t. loadQ \in Seq(LoadBlocks) /\ Block(op, s) \in LoadBlocks /\ NoSession \notin Sessions
  BY QueueTypes, BlockTypes, NoSessionAssumption DEF IInv, TypeOK
<1>i. HandOver /\ LoadedOnce
  BY DEF IInv
<1>1. \A v \in Sessions : (Due(v)' <=> Due(v)) /\ (Resident(v)' <=> Resident(v))
  BY DEF Due, Resident, Loading, Leaving
<1>2. ASSUME NEW v \in Sessions, NEW i \in 0..Len(loadQ), Awaits(v, i), op = "stop" \/ v # s
      PROVE  Awaits(v, i)'
  <2>1. v = s \/ StopAfter(loadQ, v, i)
    BY <1>2, <1>t DEF Awaits
  <2>2. Frees(loadQ', v, i)
    BY <2>1, <1>2, <1>t, AwaitAppended, BlockFields DEF Awaits
  <2>3. StopAfter(loadQ', v, i)
    BY <2>1, <1>2, <1>t, AwaitAppended
  <2> QED BY <2>2, <2>3 DEF Awaits
<1>3. /\ Len(loadQ) \in Nat /\ Len(loadQ') = Len(loadQ) + 1 /\ 0 \in 0..Len(loadQ)
      /\ \A i \in 1..Len(loadQ) : loadQ'[i] = loadQ[i]
      /\ loadQ'[Len(loadQ) + 1] = Block(op, s)
  BY <1>t, Appended
<1>4. op = "load" => /\ ~Due(s)
                     /\ \A i \in 1..Len(loadQ) : loadQ[i].s # s
  BY <1>i DEF LoadedOnce, Untouched, Due, Loading, Resident
<1>5. ASSUME NEW v \in Sessions, Due(v)' PROVE Awaits(v, 0)'
  BY <1>1, <1>2, <1>3, <1>4, <1>5, <1>i DEF HandOver
<1>6. ASSUME NEW v \in Sessions, NEW i \in 1..Len(loadQ'), loadQ'[i] = Block("load", v)
      PROVE  Awaits(v, i)'
  <2>1. CASE i \in 1..Len(loadQ)
    <3>1. Awaits(v, i) /\ i \in 0..Len(loadQ)
      BY <2>1, <1>3, <1>6, <1>i DEF HandOver
    <3>2. op = "stop" \/ v # s
      BY <2>1, <1>3, <1>4, <1>6, BlockFields
    <3> QED BY <3>1, <3>2, <1>2
  <2>2. CASE i = Len(loadQ) + 1
    <3>1. op = "load" /\ v = s
      BY <2>2, <1>3, <1>6, BlockFields
    <3>2. emulator' = v
      BY <3>1
    <3>3. Frees(loadQ', v, i)
      BY <2>2, <1>3 DEF Frees
    <3> QED BY <3>2, <3>3 DEF Awaits
  <2> QED BY <2>1, <2>2, <1>3
<1> QED BY <1>1, <1>5, <1>6, <1>i DEF HandOver

(* The steps of the load queue inside a block. *)
LEMMA HandOverByWorker ==
  ASSUME IInv, SessionTypeOK, LoadQueue, ~(LoadBegin \/ StopBegin)
  PROVE  HandOver'
<1>t. worker \in Positions /\ mainQ \in Seq(MainBlocks) /\ SessionTypeOK
  BY QueueTypes DEF IInv, TypeOK
<1>i. HandOver /\ WorkerKnows /\ QuarantineIsFinal
  BY DEF IInv
<1>p. /\ Idle.pc = "idle" /\ Idle.s = NoSession
      /\ \A pc, s : At(pc, s).pc = pc /\ At(pc, s).s = s
  BY DEF Idle, At
<1>n. NoSession \notin Sessions
  BY NoSessionAssumption
<1>1. worker # Idle /\ UNCHANGED <<loadQ, emulator>>
  BY <1>p DEF LoadQueue, Dlopen, RetroInit, LoadGame, PostDone, PostFailed, Join,
     TeardownClient, TeardownContext, Quarantine, Unload, Close, mainVars
<1> PICK w \in Sessions : w = worker.s
  BY <1>1, OnlyOwnCore
<1>2. /\ \A s \in Sessions : Resident(s) => s = w /\ active = w
      /\ \A s \in Sessions : Due(s) => s = w
      /\ \A s \in Sessions : InQueue(mainQ, "failed", s) => ~Due(s)
  BY <1>1, OnlyOwnCore
<1>s. SUFFICES /\ \A s \in Sessions : Due(s)' => Due(s)
               /\ \A s \in Sessions : Resident(s)' => active' = s /\ worker'.s \in {s, NoSession}
               /\ \A s \in Sessions : InQueue(mainQ', "failed", s) => ~Due(s)'
  BY <1>1, <1>i, HandOverKept
<1>3. CASE Dlopen \/ RetroInit \/ LoadGame
  <2>1. mainQ' = mainQ /\ worker'.s = w /\ Loading(w)
    BY <1>3, <1>p DEF Dlopen, RetroInit, LoadGame, Loading
  <2>2. Due(w)
    BY <2>1 DEF Due, Loading, Leaving, StopPCs
  <2>3. \A s \in Sessions : Resident(s)' => s = w /\ active' = w
    <3>1. CASE Dlopen
      BY <3>1, <1>2, <1>t DEF Dlopen, Resident, SessionTypeOK
    <3>2. CASE RetroInit
      BY <3>2, <1>2, <1>t, <1>i DEF RetroInit, Resident, SessionTypeOK, WorkerKnows
    <3>3. CASE LoadGame
      BY <3>3, <1>2, <1>t, <1>i DEF LoadGame, Resident, SessionTypeOK, WorkerKnows
    <3> QED BY <3>1, <3>2, <3>3, <1>3
  <2>4. \A s \in Sessions : Due(s)' => s = w
    BY <2>1, <2>3 DEF Due, Loading
  <2> QED BY <2>1, <2>2, <2>3, <2>4, <1>2
<1>4. CASE PostDone
  <2>1. worker.pc = "postDone" /\ Loading(w) /\ worker'.s = NoSession
        /\ mainQ' = Append(mainQ, Block("done", w)) /\ UNCHANGED <<active, quarantined, core>>
    BY <1>4, <1>p DEF PostDone, Loading, coreVars
  <2>2. \A s \in Sessions : Resident(s)' => s = w /\ active' = s
    BY <2>1, <1>2 DEF Resident
  <2>3. Due(w)
    BY <2>1 DEF Due, Loading, Leaving, StopPCs
  <2>4. \A s \in Sessions : Due(s)' => s = w
    BY <2>1, <2>2, <1>n DEF Due, Loading
  <2>5. ASSUME NEW s \in Sessions, InQueue(mainQ', "failed", s) PROVE InQueue(mainQ, "failed", s)
    BY <2>1, <2>5, <1>t, Appended, BlockTypes, BlockFields DEF InQueue
  <2> QED BY <2>1, <2>2, <2>3, <2>4, <2>5, <1>2
<1>5. CASE PostFailed
  <2>1. worker.pc = "postFailed" /\ worker'.s = w /\ worker'.pc = "teardown"
        /\ mainQ' = Append(mainQ, Block("failed", w)) /\ UNCHANGED <<active, quarantined, core>>
    BY <1>5, <1>p DEF PostFailed, coreVars
  <2>2. \A s \in Sessions : Resident(s)' => s = w /\ active' = s
    BY <2>1, <1>2 DEF Resident
  <2>3. \A s \in Sessions : ~Due(s)'
    BY <2>1, <2>2 DEF Due, Loading, Leaving, StopPCs
  <2> QED BY <2>1, <2>2, <2>3
<1>6. CASE Join \/ TeardownClient \/ TeardownContext \/ Unload
  <2>1. worker'.s = w /\ worker'.pc \in StopPCs /\ UNCHANGED <<mainQ, active, quarantined>>
    BY <1>6, <1>p DEF Join, TeardownClient, TeardownContext, Unload, coreVars, StopPCs
  <2>2. \A s \in Sessions : core'[s] # "none" => core[s] # "none"
    BY <1>6, <1>t DEF Join, TeardownClient, TeardownContext, Unload, coreVars, SessionTypeOK
  <2>3. \A s \in Sessions : Resident(s)' => s = w /\ active' = s
    BY <2>1, <2>2, <1>2 DEF Resident
  <2>4. \A s \in Sessions : ~Due(s)'
    BY <2>1, <2>3 DEF Due, Loading, Leaving, StopPCs
  <2> QED BY <2>1, <2>3, <2>4
<1>7. CASE Quarantine \/ Close
  <2>1. worker'.s = NoSession /\ mainQ' = mainQ
    BY <1>7, <1>p DEF Quarantine, Close
  <2>2. \A s \in Sessions : ~Resident(s)'
    BY <1>7, <1>2, <1>t DEF Quarantine, Close, Resident, SessionTypeOK
  <2>3. \A s \in Sessions : ~Due(s)'
    BY <2>1, <2>2, <1>n DEF Due, Loading
  <2> QED BY <2>1, <2>2, <2>3
<1> QED BY <1>3, <1>4, <1>5, <1>6, <1>7 DEF LoadQueue

(* The place is always handed over in queue order. *)
LEMMA HandOverStep == IInv /\ [Next]_vars => HandOver'
<1> SUFFICES ASSUME IInv, [Next]_vars PROVE HandOver'
  OBVIOUS
<1>t. /\ SessionTypeOK /\ MainTypeOK /\ mainQ \in Seq(MainBlocks)
      /\ HandOver /\ LoadedOnce /\ NoSession \notin Sessions
  BY QueueTypes, NoSessionAssumption DEF IInv, TypeOK
<1>1. CASE UNCHANGED invVars
  BY <1>1, HandOverByOthers DEF invVars
<1>2. ASSUME NEW s \in Sessions, StartEmulator(s) PROVE HandOver'
  <2>1. /\ UNCHANGED <<worker, active, quarantined, core, mainQ>>
        /\ loadQ' = Append(loadQ, Block("load", s))
        /\ s \notin launched /\ emulator = NoSession /\ emulator' = s
    BY <1>2 DEF StartEmulator, CanLaunch, coreVars
  <2> QED BY <2>1, HandOverAppended
<1>3. CASE ExitEmulation
  <2>1. CASE emulator = NoSession
    <3>1. UNCHANGED <<emulator, loadQ, worker, active, quarantined, core, mainQ>>
      BY <1>3, <2>1 DEF ExitEmulation, coreVars
    <3> QED BY <3>1, HandOverByOthers
  <2>2. CASE emulator # NoSession
    <3>1. /\ UNCHANGED <<worker, active, quarantined, core, mainQ>>
          /\ loadQ' = Append(loadQ, Block("stop", emulator)) /\ emulator' = NoSession
          /\ emulator \in Sessions
      BY <1>3, <2>2, <1>t DEF ExitEmulation, coreVars, MainTypeOK
    <3> QED BY <3>1, HandOverAppended
  <2> QED BY <2>1, <2>2
<1>4. CASE MainBlock
  <2>1. mainQ # <<>> /\ mainQ' = Tail(mainQ)
        /\ UNCHANGED <<loadQ, worker, active, quarantined, core>>
    BY <1>4 DEF MainBlock, LoadDone, LoadFailed, coreVars
  <2>2. \A s \in Sessions : InQueue(mainQ', "failed", s) => InQueue(mainQ, "failed", s)
    BY <2>1, <1>t, Taken DEF InQueue
  <2>3. CASE emulator' = emulator
    BY <2>1, <2>2, <2>3, HandOverByOthers
  <2>4. CASE emulator' # emulator
    <3>1. Head(mainQ) \in MainBlocks /\ Head(mainQ).op = "failed" /\ Head(mainQ).s = emulator
          /\ emulator' = NoSession
      BY <2>1, <2>4, <1>4, <1>t, Taken DEF MainBlock, LoadDone, LoadFailed
    <3>2. emulator \in Sessions /\ mainQ[1] = Block("failed", emulator) /\ 1 \in 1..Len(mainQ)
      BY <3>1, <2>1, <1>t, Taken, BlockTypes
    <3>3. InQueue(mainQ, "failed", emulator) /\ mainQ[1].s = emulator
      BY <3>2, BlockFields DEF InQueue
    <3>4. ~Due(emulator) /\ ~InQueue(loadQ, "load", emulator)
      BY <3>2, <3>3, <1>t DEF HandOver, LoadedOnce, Untouched
    <3>5. \A s \in Sessions : (Due(s)' <=> Due(s)) /\ (Resident(s)' <=> Resident(s))
      BY <2>1 DEF Due, Resident, Loading, Leaving
    <3>6. \A s \in Sessions : Due(s) => Awaits(s, 0)'
      BY <3>4, <2>1, <1>t DEF HandOver, Awaits
    <3>7. \A s \in Sessions, i \in 1..Len(loadQ') : loadQ'[i] = Block("load", s) => Awaits(s, i)'
      BY <3>4, <2>1, <1>t DEF HandOver, Awaits, InQueue
    <3> QED BY <3>5, <3>6, <3>7, <2>1, <2>2, <1>t DEF HandOver
  <2> QED BY <2>3, <2>4
<1>5. ASSUME NEW s \in Sessions, CoreThread(s) PROVE HandOver'
  <2>1. UNCHANGED <<emulator, loadQ, worker, active, quarantined, core, mainQ>>
    BY <1>5 DEF CoreThread, LoopTop, RunReturns, Pump, mainVars
  <2> QED BY <2>1, HandOverByOthers
<1>6. CASE LoadQueue
  BY <1>6, <1>t, HandOverTaken, HandOverByWorker
<1> QED BY <1>1, <1>2, <1>3, <1>4, <1>5, <1>6, StepKinds DEF Working

(* The inductive invariant holds initially. *)
LEMMA IInvInit == Init => IInv
<1> SUFFICES ASSUME Init PROVE IInv
  OBVIOUS
<1>1. TypeOK
  BY TypeInit
<1>2. /\ Len(loadQ) = 0 /\ Len(mainQ) = 0 /\ worker.s = NoSession /\ NoSession \notin Sessions
      /\ \A s \in Sessions : state[s] = "idle" /\ core[s] = "none" /\ thread[s] = "none"
      /\ emulator = NoSession /\ launched = {} /\ quarantined = {}
  BY NoSessionAssumption DEF Init, Idle
<1>3. LoadedOnce
  BY <1>2 DEF LoadedOnce, Untouched, OnceInOrder, InQueue
<1>4. WorkerKnows /\ ThreadHasGame /\ QuarantineIsFinal
  BY <1>2 DEF WorkerKnows, ThreadHasGame, QuarantineIsFinal, Alive, LivePCs
<1>6. StuckInGame
  <2>1. \A s \in Sessions : ~coreThreadStuck[s]
    BY DEF Init
  <2> QED BY <1>2, <2>1 DEF StuckInGame
<1>5. HandOver
  BY <1>2 DEF HandOver, Resident, Due, Loading, InQueue
<1> QED BY <1>1, <1>3, <1>4, <1>5, <1>6 DEF IInv

(* The inductive invariant is kept by every step. *)
LEMMA IInvStep == IInv /\ [Next]_vars => IInv'
<1> SUFFICES ASSUME IInv, [Next]_vars PROVE IInv'
  OBVIOUS
<1>1. TypeOK'
  BY TypeStep DEF IInv
<1> QED BY <1>1, LoadedOnceStep, WorkerKnowsStep, ThreadHasGameStep, QuarantineIsFinalStep,
           StuckInGameStep, HandOverStep DEF IInv

-----------------------------------------------------------------------------
(* The theorems.                                                           *)

(* Each part of IInv holds throughout every run. *)
THEOREM Invariance == Spec => []IInv
BY IInvInit, IInvStep, PTL DEF Spec

(* No core is unloaded, deinitialised or unmapped under a live thread. *)
THEOREM NoUnloadUnderThreadHolds == Spec => []NoUnloadUnderThread
<1>1. IInv => NoUnloadUnderThread
  BY DEF IInv, ThreadHasGame, NoUnloadUnderThread
<1> QED BY <1>1, Invariance, PTL

(* At most one core outside the quarantine is mapped. *)
THEOREM OneResidentCoreHolds == Spec => []OneResidentCore
<1>1. IInv => OneResidentCore
  BY DEF IInv, HandOver, OneResidentCore
<1> QED BY <1>1, Invariance, PTL

(* The load queue never enters a core whose own thread is inside it. *)
THEOREM CoreCallsExclusiveHolds == Spec => []CoreCallsExclusive
<1>1. IInv => CoreCallsExclusive
  <2> SUFFICES ASSUME IInv, NEW s \in Sessions, WorkerInCore(s), ~coreThreadStuck[s]
               PROVE  thread[s] \notin {"inCore", "pump"}
    BY DEF CoreCallsExclusive
  <2>1. worker.s = s /\ worker.pc \in {"init", "loadGame", "unload", "context"}
    BY DEF WorkerInCore
  <2>2. CASE worker.pc \in {"init", "loadGame"}
    BY <2>1, <2>2 DEF IInv, WorkerKnows
  <2>3. CASE worker.pc \in {"unload", "context"}
    <3>1. state[s] # "running" /\ worker # At("join", s)
      BY <2>1, <2>3 DEF IInv, WorkerKnows, StopPCs, At
    <3> QED BY <3>1 DEF IInv, ThreadHasGame, Alive, LivePCs
  <2> QED BY <2>1, <2>2, <2>3
<1> QED BY <1>1, Invariance, PTL

(* A core's callbacks reach the session that owns it. *)
THEOREM CallbacksReachOwnerHolds == Spec => []CallbacksReachOwner
<1>1. IInv => CallbacksReachOwner
  <2> SUFFICES ASSUME IInv, NEW s \in Sessions,
                      \/ thread[s] = "inCore" /\ ~coreThreadStuck[s]
                      \/ worker.s = s /\ worker.pc \in {"init", "loadGame"}
               PROVE  active = s
    BY DEF CallbacksReachOwner
  <2>1. core[s] # "none"
    BY DEF IInv, ThreadHasGame, WorkerKnows, Alive, LivePCs
  <2>2. s \notin quarantined
    BY DEF IInv, QuarantineIsFinal
  <2> QED BY <2>1, <2>2 DEF IInv, HandOver, Resident
<1> QED BY <1>1, Invariance, PTL

-----------------------------------------------------------------------------
(* The game in front.                                                      *)

(* The variables FrontInv speaks of. *)
frontVars == <<emulator, screen, idleActivity, sessionEntryID, quitAsked, handoff, launched, played>>

(* A step that leaves them alone keeps FrontInv. *)
LEMMA FrontFrame == FrontInv /\ UNCHANGED frontVars => FrontInv'
BY DEF FrontInv, OneGameInFront, frontVars

(* Taking the game off the screen records its playtime, and nobody else's: this is what a confirmed Quit, a boot *)
(* that is cancelled and a load that fails have in common. *)
LEMMA FrontLeft ==
  ASSUME TypeOK, FrontInv, handoff = "none", emulator' = NoSession, screen' = "xmb", idleActivity' = FALSE,
         EndSessionTracking, quitAsked' \in BOOLEAN, UNCHANGED <<handoff, launched>>
  PROVE  FrontInv'
<1>1. played \in [Sessions -> Nat]
  BY DEF TypeOK, MainTypeOK
<1>2. ASSUME NEW s \in Sessions PROVE played'[s] = IF s \in launched' /\ emulator' # s THEN 1 ELSE 0
  <2>1. played[s] = IF s \in launched /\ emulator # s THEN 1 ELSE 0
    BY DEF FrontInv, OneGameInFront
  <2>2. played'[s] = IF s = sessionEntryID THEN played[s] + 1 ELSE played[s]
    BY DEF EndSessionTracking
  <2>3. s = sessionEntryID <=> s = emulator
    BY NoSessionAssumption DEF FrontInv, OneGameInFront
  <2>4. s = emulator => s \in launched
    BY NoSessionAssumption DEF FrontInv
  <2>5. emulator' # s
    BY NoSessionAssumption
  <2> QED BY <1>1, <2>1, <2>2, <2>3, <2>4, <2>5
<1>3. OneGameInFront'
  BY <1>2 DEF OneGameInFront
<1> QED BY <1>3, NoSessionAssumption DEF FrontInv, EndSessionTracking

(* Nothing is in front at first. *)
LEMMA FrontInit == Init => FrontInv
BY NoSessionAssumption DEF Init, FrontInv, OneGameInFront

(* Every step keeps FrontInv. *)
LEMMA FrontStep == TypeOK /\ FrontInv /\ [Next]_vars => FrontInv'
<1> SUFFICES ASSUME TypeOK, FrontInv, [Next]_vars PROVE FrontInv'
  OBVIOUS
<1>c. CanLaunch => emulator = NoSession /\ handoff = "none" /\ screen = "xmb" /\ ~quitAsked
  BY DEF CanLaunch, FrontInv, OneGameInFront
<1>1. CASE User
  <2>1. ASSUME NEW kind \in {"steam", "psp"}, LaunchHandoff(kind) PROVE FrontInv'
    BY <2>1, <1>c, OtherEntryAssumption DEF LaunchHandoff, FrontInv, OneGameInFront
  <2>2. CASE LaunchHandoffFails
    BY <2>2, <1>c, NoSessionAssumption DEF LaunchHandoffFails, FrontInv, OneGameInFront
  <2>3. CASE LaunchWithoutCore
    BY <2>3, <1>c, OtherEntryAssumption DEF LaunchWithoutCore, FrontInv, OneGameInFront
  <2>4. ASSUME NEW s \in Sessions, StartEmulator(s) PROVE FrontInv'
    <3>1. handoff' = "none" /\ emulator' = s /\ sessionEntryID' = s /\ launched' = launched \union {s}
      BY <2>4, <1>c DEF StartEmulator
    <3>2. \A t \in Sessions : played'[t] = IF t \in launched' /\ emulator' # t THEN 1 ELSE 0
      <4>1. \A t \in Sessions : played[t] = IF t \in launched /\ emulator # t THEN 1 ELSE 0
        BY DEF FrontInv, OneGameInFront
      <4>2. played' = played /\ emulator = NoSession /\ s \notin launched
        BY <2>4, <1>c DEF StartEmulator
      <4> QED BY <3>1, <4>1, <4>2, NoSessionAssumption
    <3>3. screen' = "emulator" /\ idleActivity' = TRUE /\ quitAsked' = quitAsked
      BY <2>4 DEF StartEmulator
    <3> QED BY <3>1, <3>2, <3>3, NoSessionAssumption DEF FrontInv, OneGameInFront
  <2>5. CASE AskQuit
    <3>1. handoff' = "none"
      BY <2>5 DEF AskQuit, FrontInv, OneGameInFront
    <3> QED BY <2>5, <3>1 DEF AskQuit, FrontInv, OneGameInFront
  <2>6. CASE DismissQuit
    BY <2>6 DEF DismissQuit, FrontInv, OneGameInFront
  <2>7. CASE ExitEmulation
    <3>1. handoff = "none"
      BY <2>7 DEF ExitEmulation, FrontInv, OneGameInFront
    <3> QED BY <2>7, <3>1, FrontLeft DEF ExitEmulation
  <2> QED BY <1>1, <2>1, <2>2, <2>3, <2>4, <2>5, <2>6, <2>7 DEF User
<1>2. CASE RestoreAfterHandoff
  <2>1. emulator = NoSession /\ sessionEntryID \notin Sessions
    BY <1>2, NoSessionAssumption DEF RestoreAfterHandoff, FrontInv, OneGameInFront
  <2>2. played' = played
    BY <1>2, <2>1 DEF RestoreAfterHandoff, EndSessionTracking, TypeOK, MainTypeOK
  <2> QED BY <1>2, <2>1, <2>2, NoSessionAssumption
          DEF RestoreAfterHandoff, EndSessionTracking, FrontInv, OneGameInFront
<1>3. CASE MainBlock
  <2>1. CASE LoadDone
    BY <2>1, FrontFrame DEF LoadDone, frontVars
  <2>2. CASE LoadFailed
    <3>1. CASE emulator = Head(mainQ).s
      <4>1. emulator \in Sessions
        <5>1. mainQ \in Seq(MainBlocks) /\ mainQ # <<>>
          BY <2>2, QueueTypes DEF LoadFailed, TypeOK
        <5> QED BY <3>1, <5>1, QueueSteps, BlockTypes
      <4>2. handoff = "none"
        BY <4>1, NoSessionAssumption DEF FrontInv, OneGameInFront
      <4>3. quitAsked' \in BOOLEAN
        BY <2>2 DEF LoadFailed, TypeOK, MainTypeOK
      <4> QED BY <2>2, <3>1, <4>2, <4>3, FrontLeft DEF LoadFailed
    <3>2. CASE emulator # Head(mainQ).s
      BY <2>2, <3>2, FrontFrame DEF LoadFailed, frontVars
    <3> QED BY <3>1, <3>2
  <2> QED BY <1>3, <2>1, <2>2 DEF MainBlock
<1>4. CASE LoadQueue
  BY <1>4, FrontFrame DEF LoadQueue, LoadBegin, Dlopen, RetroInit, LoadGame, PostDone, PostFailed, StopBegin, Join,
     TeardownClient, TeardownContext, Quarantine, Unload, Close, mainVars, frontVars
<1>5. CASE \E s \in Sessions : FirstFrame(s) \/ CoreThread(s)
  BY <1>5, FrontFrame DEF FirstFrame, CoreThread, LoopTop, RunReturns, Pump, mainVars, frontVars
<1>6. CASE UNCHANGED vars
  BY <1>6, FrontFrame DEF vars, mainVars, frontVars
<1> QED BY <1>1, <1>2, <1>3, <1>4, <1>5, <1>6 DEF Next

(* Never two games at once, and one that has been left has had its playtime recorded exactly once. *)
THEOREM OneGameInFrontHolds == Spec => []OneGameInFront
<1>1. FrontInv => OneGameInFront
  BY DEF FrontInv
<1>2. IInv => TypeOK
  BY DEF IInv
<1> QED BY <1>1, <1>2, FrontInit, FrontStep, Invariance, PTL DEF Spec

(* A core thread is only ever spawned for the session on screen, over a loaded game, and at most once. *)
THEOREM StartsOnlyOnScreenHolds == Spec => StartsOnlyOnScreen
<1>1. ASSUME IInv, [Next]_vars
      PROVE  \A s \in Sessions : ~Alive(s) /\ Alive(s)' => emulator = s /\ core[s] = "game" /\ thread[s] = "none"
  <2> SUFFICES ASSUME NEW s \in Sessions, ~Alive(s), Alive(s)'
               PROVE  emulator = s /\ core[s] = "game" /\ thread[s] = "none"
    OBVIOUS
  <2>t. thread \in [Sessions -> LivePCs \union {"none", "done"}]
    BY <1>1 DEF IInv, TypeOK, SessionTypeOK
  <2>n. \A pc \in LivePCs : thread[s] # pc /\ "done" # pc
    BY DEF Alive, LivePCs
  <2>1. CASE LoadDone
    <3>1. emulator = Head(mainQ).s /\ Start(emulator)
      BY <2>1 DEF LoadDone, Alive
    <3>2. state[emulator] = "loaded" /\ thread' = [thread EXCEPT ![emulator] = "top"]
      BY <3>1 DEF Start, Alive
    <3>3. s = emulator
      BY <2>t, <3>2 DEF Alive
    <3> QED BY <1>1, <3>2, <3>3 DEF IInv, ThreadHasGame
  <2>2. CASE \E r \in Sessions : CoreThread(r)
    <3> PICK r \in Sessions : CoreThread(r)
      BY <2>2
    <3>1. thread[r] \in LivePCs /\ \E pc \in LivePCs \union {"done"} : thread' = [thread EXCEPT ![r] = pc] \/ thread' = thread
      BY DEF CoreThread, LoopTop, RunReturns, Pump, LivePCs
    <3>2. r # s
      BY <3>1 DEF Alive
    <3> QED BY <2>t, <3>1, <3>2 DEF Alive
  <2>3. CASE thread' = thread
    BY <2>3 DEF Alive
  <2>4. LoadDone \/ (\E r \in Sessions : CoreThread(r)) \/ thread' = thread
    BY <1>1 DEF Next, User, MainBlock, LoadQueue, LaunchHandoff, LaunchHandoffFails, LaunchWithoutCore, StartEmulator,
       AskQuit, DismissQuit, ExitEmulation, RestoreAfterHandoff, LoadFailed, FirstFrame, LoadBegin, Dlopen, RetroInit,
       LoadGame, PostDone, PostFailed, StopBegin, Join, TeardownClient, TeardownContext, Quarantine, Unload, Close,
       coreVars, vars
  <2> QED BY <2>1, <2>2, <2>3, <2>4
<1> QED BY <1>1, Invariance, PTL DEF Spec, StartsOnlyOnScreen

-----------------------------------------------------------------------------
(* The refinement of CoreHost.                                             *)

(* The moves CoreHost allows one core, the berth aside. *)
Moves ==
  {<<"loading", "ready">>, <<"ready", "running">>, <<"loading", "closing">>,
   <<"ready", "closing">>, <<"running", "closing">>, <<"closing", "closed">>,
   <<"running", "parked">>}

(* A step that moves the phase of one session only, and as CoreHost allows,*)
(* is a step of CoreHost. *)
LEMMA OneMoves ==
  ASSUME NEW w \in Sessions,
         \A s \in Sessions \ {w} : PhaseOf(s)' = PhaseOf(s),
         \/ PhaseOf(w)' = PhaseOf(w)
         \/ <<PhaseOf(w), PhaseOf(w)'>> \in Moves
         \/ /\ PhaseOf(w) = "closed" /\ PhaseOf(w)' = "loading"
            /\ \A s \in Sessions : PhaseOf(s) \in {"closed", "parked"}
  PROVE  [Host!Next]_corePhase
<1>1. corePhase' = [corePhase EXCEPT ![w] = PhaseOf(w)']
  BY DEF corePhase
<1>2. \A s \in Sessions : corePhase[s] = PhaseOf(s)
  BY DEF corePhase
<1>3. CASE PhaseOf(w)' = PhaseOf(w)
  BY <1>1, <1>2, <1>3 DEF corePhase
<1>4. CASE <<PhaseOf(w), PhaseOf(w)'>> \in Moves
  BY <1>1, <1>2, <1>4 DEF Moves, Host!Next, Host!Open, Host!Ready, Host!Run, Host!Halt,
     Host!Close, Host!Park, Host!Move
<1>5. CASE /\ PhaseOf(w) = "closed" /\ PhaseOf(w)' = "loading"
           /\ \A s \in Sessions : PhaseOf(s) \in {"closed", "parked"}
  BY <1>1, <1>2, <1>5 DEF Host!Next, Host!Open, Host!Move, Host!BerthFree
<1> QED BY <1>3, <1>4, <1>5

(* What a session's phase is made of. *)
phaseVars == <<quarantined, core, thread, coreThreadStuck, worker>>

(* A step that changes none of that is a stutter of CoreHost. *)
LEMMA PhaseFrame == UNCHANGED phaseVars => [Host!Next]_corePhase
BY DEF phaseVars, corePhase, PhaseOf, Alive

(* The initial states are CoreHost's. *)
LEMMA HostInit == Init => Host!Init
<1> SUFFICES ASSUME Init PROVE Host!Init
  OBVIOUS
<1>1. \A s \in Sessions : PhaseOf(s) = "closed"
  BY DEF Init, PhaseOf
<1> QED BY <1>1 DEF Host!Init, corePhase

(* Every step is a step of CoreHost or a stutter. *)
LEMMA HostStep == IInv /\ [Next]_vars => [Host!Next]_corePhase
<1> SUFFICES ASSUME IInv, [Next]_vars PROVE [Host!Next]_corePhase
  OBVIOUS
<1>t. /\ SessionTypeOK /\ worker \in Positions
      /\ mainQ \in Seq(MainBlocks) /\ loadQ \in Seq(LoadBlocks)
  BY QueueTypes DEF IInv, TypeOK
<1>i. WorkerKnows /\ ThreadHasGame /\ QuarantineIsFinal /\ StuckInGame /\ HandOver
  BY DEF IInv
<1>p. /\ Idle.pc = "idle" /\ Idle.s = NoSession
      /\ \A pc, s : At(pc, s).pc = pc /\ At(pc, s).s = s
  BY DEF Idle, At
<1>h. loadQ # <<>> => Head(loadQ) \in LoadBlocks /\ Head(loadQ).s \in Sessions
  BY <1>t, QueueSteps, BlockTypes
<1>m. mainQ # <<>> => Head(mainQ) \in MainBlocks /\ Head(mainQ).s \in Sessions
  BY <1>t, QueueSteps, BlockTypes
<1>w. worker.pc # "idle" => worker.s \in Sessions
  BY <1>t, PositionTypes
<1> USE NoSessionAssumption
<1>u. CASE UNCHANGED invVars
  BY <1>u, PhaseFrame DEF invVars, phaseVars
<1>1. ASSUME NEW s \in Sessions, StartEmulator(s) PROVE [Host!Next]_corePhase
  BY <1>1, PhaseFrame DEF StartEmulator, coreVars, phaseVars
<1>2. CASE ExitEmulation
  BY <1>2, PhaseFrame DEF ExitEmulation, coreVars, phaseVars
<1>3. CASE LoadDone
  <2>0. PICK w \in Sessions : w = Head(mainQ).s
    BY <1>3, <1>m DEF LoadDone
  <2>1. CASE emulator = w /\ state[w] = "loaded"
    <3>1. /\ w \in Sessions /\ thread' = [thread EXCEPT ![w] = "top"]
          /\ UNCHANGED <<quarantined, core, coreThreadStuck, worker>>
      BY <2>0, <2>1, <1>3 DEF LoadDone, Start
    <3>2. /\ w \notin quarantined /\ core[w] = "game" /\ thread[w] = "none"
          /\ ~coreThreadStuck[w]
      BY <2>1, <3>1, <1>i DEF QuarantineIsFinal, ThreadHasGame, StuckInGame
    <3>3. worker.s = w => worker.pc \notin {"init", "loadGame", "postFailed"} \union StopPCs
      BY <2>1, <3>1, <1>i DEF WorkerKnows
    <3>4. PhaseOf(w) = "ready"
      BY <3>2, <3>3 DEF PhaseOf, Alive, LivePCs, StopPCs
    <3>5. PhaseOf(w)' = "running"
      BY <3>1, <3>2, <3>3, <1>t DEF PhaseOf, Alive, LivePCs, SessionTypeOK
    <3>6. \A s \in Sessions \ {w} : PhaseOf(s)' = PhaseOf(s)
      BY <3>1, <1>t DEF PhaseOf, Alive, SessionTypeOK
    <3> QED BY <3>1, <3>4, <3>5, <3>6, OneMoves DEF Moves
  <2>2. CASE ~(emulator = w /\ state[w] = "loaded")
    BY <2>0, <2>2, <1>3, PhaseFrame DEF LoadDone, Start, phaseVars
  <2> QED BY <2>1, <2>2
<1>4. CASE LoadFailed
  BY <1>4, PhaseFrame DEF LoadFailed, coreVars, phaseVars
<1>5. ASSUME NEW s \in Sessions, CoreThread(s) PROVE [Host!Next]_corePhase
  <2>1. CASE UNCHANGED thread
    BY <2>1, <1>5, PhaseFrame
       DEF CoreThread, LoopTop, RunReturns, Pump, phaseVars
  <2>2. CASE thread' # thread
    <3>1. /\ Alive(s) /\ \E to \in LivePCs \union {"done"} : thread' = [thread EXCEPT ![s] = to]
          /\ UNCHANGED <<quarantined, core, coreThreadStuck, worker>>
      BY <2>2, <1>5 DEF CoreThread, LoopTop, RunReturns, Pump, Alive, LivePCs
    <3>2. /\ core[s] = "game"
          /\ coreThreadStuck[s] \/
               (worker.s = s => worker.pc \notin {"postFailed"} \union (StopPCs \ {"join"}))
          /\ worker.s = s => worker.pc \notin {"init", "loadGame"}
      BY <3>1, <1>i DEF ThreadHasGame, WorkerKnows, Alive, LivePCs, StopPCs, At
    <3>3. PhaseOf(s)' = PhaseOf(s)
      BY <3>1, <3>2, <1>t DEF PhaseOf, Alive, LivePCs, StopPCs, SessionTypeOK
    <3>4. \A u \in Sessions \ {s} : PhaseOf(u)' = PhaseOf(u)
      BY <3>1, <1>t DEF PhaseOf, Alive, SessionTypeOK
    <3> QED BY <3>3, <3>4, OneMoves
  <2> QED BY <2>1, <2>2
<1>8. CASE LoadBegin
  <2>1. /\ worker = Idle
        /\ worker' = Idle \/ \E w \in Sessions : worker' = At("dlopen", w)
        /\ UNCHANGED <<quarantined, core, thread, coreThreadStuck>>
    BY <1>8, <1>h DEF LoadBegin, coreVars
  <2>2. UNCHANGED corePhase
    BY <2>1, <1>p DEF corePhase, PhaseOf, Alive
  <2> QED BY <2>2
<1>9. CASE Dlopen
  <2>1. PICK w \in Sessions :
          w = worker.s /\ UNCHANGED <<quarantined, thread, coreThreadStuck>>
    BY <1>9, <1>w DEF Dlopen
  <2>2. /\ core[w] = "none" /\ w \notin quarantined /\ thread[w] = "none"
        /\ ~coreThreadStuck[w]
    BY <2>1, <1>9, <1>i DEF Dlopen, StuckInGame, QuarantineIsFinal, WorkerKnows
  <2>3. PhaseOf(w) = "closed"
    BY <2>2 DEF PhaseOf
  <2>4. \A s \in Sessions \ {w} : PhaseOf(s) \in {"closed", "parked"}
    BY <2>1, <1>i DEF HandOver, Resident, PhaseOf
  <2>5. CASE core' = [core EXCEPT ![w] = "open"] /\ worker' = At("init", w)
    <3>1. PhaseOf(w)' = "loading"
      BY <2>1, <2>2, <2>5, <1>t, <1>p DEF PhaseOf, SessionTypeOK
    <3>2. \A s \in Sessions \ {w} : PhaseOf(s)' = PhaseOf(s)
      BY <2>1, <2>5, <1>t, <1>p DEF PhaseOf, Alive, SessionTypeOK
    <3> QED BY <2>1, <2>3, <2>4, <3>1, <3>2, OneMoves
  <2>6. CASE UNCHANGED core /\ worker' = At("postFailed", w)
    <3>1. PhaseOf(w)' = "closed"
      BY <2>1, <2>2, <2>6 DEF PhaseOf
    <3>2. \A s \in Sessions \ {w} : PhaseOf(s)' = PhaseOf(s)
      BY <2>1, <2>6, <1>p DEF PhaseOf, Alive
    <3> QED BY <2>1, <2>3, <3>1, <3>2, OneMoves
  <2> QED BY <1>9, <2>1, <2>5, <2>6 DEF Dlopen
<1>10. CASE RetroInit \/ PostDone \/ PostFailed \/ TeardownClient \/ TeardownContext
  <2>1. PICK w \in Sessions :
          /\ w = worker.s
          /\ worker.pc \in {"init", "postDone", "postFailed", "teardown", "context"}
          /\ UNCHANGED <<quarantined, thread, coreThreadStuck>>
    BY <1>10, <1>w DEF RetroInit, PostDone, PostFailed, TeardownClient, TeardownContext, coreVars
  <2>2. core[w] = "none" <=> core'[w] = "none"
    BY <2>1, <1>10, <1>t, <1>i DEF RetroInit, PostDone, PostFailed, TeardownClient,
       TeardownContext, coreVars, SessionTypeOK, WorkerKnows
  <2>3. \A s \in Sessions \ {w} : core'[s] = core[s]
    BY <2>1, <1>10, <1>t DEF RetroInit, PostDone, PostFailed, TeardownClient,
       TeardownContext, coreVars, SessionTypeOK
  <2>4. worker' = Idle \/ worker'.s = w
    BY <2>1, <1>10, <1>p DEF RetroInit, PostDone, PostFailed, TeardownClient, TeardownContext
  <2>5. \A s \in Sessions \ {w} : PhaseOf(s)' = PhaseOf(s)
    BY <2>1, <2>3, <2>4, <1>p DEF PhaseOf, Alive
  <2>6. PhaseOf(w)' = PhaseOf(w)
    <3>1. CASE RetroInit
      BY <2>1, <2>2, <3>1, <1>p DEF RetroInit, PhaseOf, Alive
    <3>2. CASE PostDone
      BY <2>1, <2>2, <3>2, <1>p DEF PostDone, PhaseOf, Alive
    <3>3. CASE PostFailed
      BY <2>1, <2>2, <3>3, <1>p DEF PostFailed, PhaseOf, Alive
    <3>4. CASE TeardownClient
      BY <2>1, <2>2, <3>4, <1>p DEF TeardownClient, PhaseOf, Alive
    <3>5. CASE TeardownContext
      BY <2>1, <2>2, <3>5, <1>p DEF TeardownContext, PhaseOf, Alive
    <3> QED BY <1>10, <3>1, <3>2, <3>3, <3>4, <3>5
  <2> QED BY <2>5, <2>6, OneMoves
<1>11. CASE LoadGame
  <2>1. PICK w \in Sessions :
          /\ w = worker.s /\ worker.pc = "loadGame"
          /\ worker' \in {At("postDone", w), At("postFailed", w)}
          /\ worker' = At("postDone", w) => core' = [core EXCEPT ![w] = "game"]
          /\ worker' = At("postFailed", w) => core' = core
          /\ UNCHANGED <<quarantined, thread, coreThreadStuck>>
    BY <1>11, <1>w, <1>p DEF LoadGame
  <2>2. /\ core[w] # "none" /\ thread[w] = "none" /\ ~coreThreadStuck[w]
        /\ w \notin quarantined
    BY <2>1, <1>i DEF WorkerKnows, StuckInGame, QuarantineIsFinal
  <2>3. PhaseOf(w) = "loading"
    BY <2>1, <2>2 DEF PhaseOf
  <2>4. PhaseOf(w)' \in {"ready", "closing"}
    BY <2>1, <2>2, <1>t, <1>p DEF PhaseOf, Alive, LivePCs, SessionTypeOK
  <2>5. \A s \in Sessions \ {w} : PhaseOf(s)' = PhaseOf(s)
    BY <2>1, <1>t, <1>p DEF PhaseOf, Alive, SessionTypeOK
  <2> QED BY <2>3, <2>4, <2>5, OneMoves DEF Moves
<1>14. CASE StopBegin
  <2>1. PICK w \in Sessions :
          /\ worker = Idle
          /\ UNCHANGED <<quarantined, core, thread, coreThreadStuck>>
          /\ \/ thread[w] # "none" /\ worker' = At("join", w)
             \/ worker' = At("teardown", w)
             \/ worker' = Idle
    BY <1>14, <1>h DEF StopBegin
  <2>2. \A s \in Sessions \ {w} : PhaseOf(s)' = PhaseOf(s)
    BY <2>1, <1>p DEF PhaseOf, Alive
  <2>3. PhaseOf(w)' = PhaseOf(w) \/ <<PhaseOf(w), PhaseOf(w)'>> \in Moves
    BY <2>1, <1>p DEF PhaseOf, Alive, Moves
  <2> QED BY <2>2, <2>3, OneMoves
<1>15. CASE Join
  <2>1. PICK w \in Sessions :
          /\ w = worker.s /\ worker.pc = "join" /\ worker' = At("teardown", w)
          /\ UNCHANGED <<quarantined, core, thread>>
    BY <1>15, <1>w DEF Join
  <2>2. /\ \A s \in Sessions \ {w} : coreThreadStuck'[s] = coreThreadStuck[s]
        /\ coreThreadStuck'[w] <=> thread[w] # "done"
    BY <2>1, <1>15, <1>t, JoinVerdict
  <2>3. \A s \in Sessions \ {w} : PhaseOf(s)' = PhaseOf(s)
    BY <2>1, <2>2, <1>p DEF PhaseOf, Alive
  <2>4. thread[w] # "none"
    BY <2>1, <1>i DEF StuckInGame
  <2>5. PhaseOf(w)' = PhaseOf(w) \/ <<PhaseOf(w), PhaseOf(w)'>> \in Moves
    BY <2>1, <2>2, <2>4, <1>p, <1>t DEF PhaseOf, Alive, LivePCs, SessionTypeOK, Moves
  <2> QED BY <2>3, <2>5, OneMoves
<1>18. CASE Quarantine
  <2>1. PICK w \in Sessions :
          /\ w = worker.s /\ worker.pc = "park" /\ worker' = Idle
          /\ quarantined' = quarantined \union {w}
          /\ UNCHANGED <<core, thread, coreThreadStuck>>
    BY <1>18, <1>w DEF Quarantine
  <2>2. \A s \in Sessions \ {w} : PhaseOf(s)' = PhaseOf(s)
    BY <2>1, <1>p DEF PhaseOf, Alive
  <2>3. coreThreadStuck[w] /\ core[w] = "game"
    BY <2>1, <1>i DEF WorkerKnows, StuckInGame
  <2>4. PhaseOf(w) \in {"parked", "running"} /\ PhaseOf(w)' = "parked"
    BY <2>1, <2>3 DEF PhaseOf
  <2> QED BY <2>2, <2>4, OneMoves DEF Moves
<1>19. CASE Unload \/ Close
  <2>1. PICK w \in Sessions :
          /\ w = worker.s /\ worker.pc \in {"unload", "close"}
          /\ UNCHANGED <<quarantined, thread, coreThreadStuck>>
          /\ \/ /\ worker' = At("close", w)
                /\ core' = [core EXCEPT ![w] = IF @ = "none" THEN @ ELSE "open"]
             \/ /\ worker' = Idle
                /\ core' = [core EXCEPT ![w] = "none"]
    BY <1>19, <1>w DEF Unload, Close
  <2>2. /\ ~coreThreadStuck[w] /\ ~Alive(w) /\ w \notin quarantined
    BY <2>1, <1>i DEF StuckInGame, WorkerKnows, QuarantineIsFinal
  <2>3. PhaseOf(w) \in {"closed", "closing"}
    BY <2>1, <2>2 DEF PhaseOf
  <2>4. PhaseOf(w)' = PhaseOf(w) \/ PhaseOf(w)' = "closed"
    BY <2>1, <2>2, <1>t, <1>p DEF PhaseOf, Alive, SessionTypeOK
  <2>5. \A s \in Sessions \ {w} : PhaseOf(s)' = PhaseOf(s)
    BY <2>1, <1>t, <1>p DEF PhaseOf, Alive, SessionTypeOK
  <2> QED BY <2>3, <2>4, <2>5, OneMoves DEF Moves
<1> QED BY <1>u, <1>1, <1>2, <1>3, <1>4, <1>5, <1>8, <1>9, <1>10, <1>11, <1>14, <1>15, <1>18,
           <1>19, StepKinds DEF Working, MainBlock, LoadQueue

(* The emulator keeps the promise of CoreHost. *)
THEOREM ImplementsCoreHostHolds == Spec => ImplementsCoreHost
BY HostInit, HostStep, Invariance, PTL DEF Spec, ImplementsCoreHost, Host!Spec
=============================================================================
