------------------------------ MODULE CoreHost ------------------------------
(***************************************************************************)
(* What the frontend promises every libretro core: there is one berth; a   *)
(* core is brought in, started, halted and put away in that order; and it  *)
(* leaves the berth either by being closed when no thread runs in it, or   *)
(* by being parked for good, still running, because its thread never came  *)
(* back.  EmulatorLifecycle implements this specification.                 *)
(***************************************************************************)
CONSTANT Sessions

VARIABLE phase

Phases == {"closed", "loading", "ready", "running", "closing", "parked"}

(* The berth is free: every core is closed or parked.                      *)
BerthFree == \A s \in Sessions : phase[s] \in {"closed", "parked"}

Move(s, from, to) ==
  /\ phase[s] \in from
  /\ phase' = [phase EXCEPT ![s] = to]

Init == phase = [s \in Sessions |-> "closed"]

Open(s)  == BerthFree /\ Move(s, {"closed"}, "loading")
Ready(s) == Move(s, {"loading"}, "ready")
Run(s)   == Move(s, {"ready"}, "running")
Halt(s)  == Move(s, {"loading", "ready", "running"}, "closing")
Close(s) == Move(s, {"closing"}, "closed")
Park(s)  == Move(s, {"running"}, "parked")

Next ==
  \E s \in Sessions : Open(s) \/ Ready(s) \/ Run(s) \/ Halt(s) \/ Close(s) \/ Park(s)

Spec == Init /\ [][Next]_phase
=============================================================================
