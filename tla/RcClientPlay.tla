----------------------------- MODULE RcClientPlay -----------------------------
(***************************************************************************)
(* What rc_client.c does with a game that is loaded: the achievements that *)
(* are active in each mode, the frames and the events they raise, what of  *)
(* it the player sees, the unlocks sent until the server answers, resets   *)
(* and save states.                                                        *)
(*                                                                         *)
(* Each operator takes and returns the client, as the functions of the     *)
(* code do; an action is one call of the API or one answer of the server.  *)
(* What a trigger or a leaderboard evaluates to is any of the states that  *)
(* rc_evaluate_trigger and rc_evaluate_lboard may leave (see RcEvaluate).  *)
(* subset->active is always 1, allow_leaderboards_in_softcore always 0;    *)
(* the pending_events of a subset and of the game say that one of theirs   *)
(* has some.  A trigger that is PAUSED is ACTIVE here, and a leaderboard   *)
(* that is CANCELED or TRIGGERED is WAITING: each pair goes on alike.      *)
(***************************************************************************)
EXTENDS Naturals, FiniteSets, Sequences, FiniteSetsExt

CONSTANTS Definitions,   \* games: [ach, lb, modes, requests, most], the achievements by name, the leaderboards in their
                         \* order, the modes the game is played in and bounds: requests not yet answered, values
          None

\* a key is the hash of a value's definition, which says whether it counts hits
ASSUME PlayAssumption ==
  /\ None \notin Nat
  /\ \A d \in Definitions :
       /\ d.most \in Nat /\ IsFiniteSet(DOMAIN d.ach) /\ Len(d.lb) \in Nat /\ DOMAIN d.lb = 1..Len(d.lb)
       /\ \A j, k \in DOMAIN d.lb : d.lb[j].key = d.lb[k].key => d.lb[j].hits = d.lb[k].hits

VARIABLE client

\* measured values: nothing, the target and more than that; Unknown after a reset
Target   == 1
Measures == 0..Target + 1
Unknown  == None

Ach(c) == DOMAIN c.ach
Lb(c)  == DOMAIN c.lb
Active(c) == {i \in Ach(c) : c.ach[i].state = "active"}
Mode(c) == IF c.hardcore THEN "hardcore" ELSE "softcore"

\* without a game
Unloaded(c) ==
  [c EXCEPT !.loaded = FALSE, !.waiting = FALSE, !.ach = <<>>, !.lb = <<>>, !.trackers = <<>>, !.mastery = <<>>,
            !.listed = {}, !.timer = FALSE, !.action = "none", !.invalid = {}]
NothingShown == [challenges |-> {}, trackers |-> <<>>, progress |-> FALSE, offline |-> FALSE]

-----------------------------------------------------------------------------
(* Triggers and trackers.                                                  *)

\* rc_reset_trigger
ResetTrigger(c, i) ==
  [c.ach[i] EXCEPT !.trigger = "waiting", !.carried = "none", !.measured = IF c.title.ach[i].measured THEN Unknown ELSE @]

\* trackers the leaderboard may share: one that counts hits only if it is as far
Shares(c, j) ==
  {k \in DOMAIN c.trackers : /\ c.trackers[k].refs > 0 /\ c.trackers[k].key = c.title.lb[j].key
                             /\ c.trackers[k].raw = c.lb[j].value \/ ~c.trackers[k].hits}
Unclaimed(c) == {k \in DOMAIN c.trackers : c.trackers[k].refs = 0 /\ c.trackers[k].pending = {}}

\* rc_client_allocate_leaderboard_tracker
AllocateTracker(c, j) ==
  LET value == c.lb[j].value
      shared == Shares(c, j)
      k == IF shared # {} THEN Min(shared) ELSE IF Unclaimed(c) # {} THEN Min(Unclaimed(c)) ELSE Len(c.trackers) + 1
      t == c.trackers[k]
      attached == [t EXCEPT !.refs = @ + 1, !.raw = value,
                            !.pending = (@ \cup IF t.raw # value THEN {"update"} ELSE {}) \ {"hide"}]
      claimed == [refs |-> 1, key |-> c.title.lb[j].key, raw |-> value, hits |-> c.title.lb[j].hits, pending |-> {"show"}]
      given == [c EXCEPT !.lb[j].tracker = k]
  IN  IF shared # {} THEN [given EXCEPT !.trackers[k] = attached]
      ELSE [given EXCEPT !.trackers = [n \in DOMAIN c.trackers \cup {k} |-> IF n = k THEN claimed ELSE c.trackers[n]],
                         !.ui.trackers = [n \in DOMAIN c.ui.trackers \cup {k} |->
                                            IF n \in DOMAIN c.ui.trackers THEN c.ui.trackers[n] ELSE None]]

\* Mutant: the last one to leave a shared tracker does not hide it
ReleaseQuietly(c, leaving) ==
  LET of(k) == {j \in leaving : c.lb[j].tracker = k}
  IN  [c EXCEPT !.lb = [j \in Lb(c) |-> IF j \in leaving THEN [c.lb[j] EXCEPT !.tracker = 0] ELSE c.lb[j]],
                !.trackers = [k \in DOMAIN c.trackers |-> [c.trackers[k] EXCEPT !.refs = @ - Cardinality(of(k))]]]

\* rc_client_release_leaderboard_tracker, of each that leaves
ReleaseTrackers(c, leaving) ==
  LET of(k) == {j \in leaving : c.lb[j].tracker = k}
      left(k) == c.trackers[k].refs - Cardinality(of(k))
      hides(k) == IF of(k) # {} /\ left(k) = 0 THEN {"hide"} ELSE {}
  IN  [c EXCEPT !.lb = [j \in Lb(c) |-> IF j \in leaving THEN [c.lb[j] EXCEPT !.tracker = 0] ELSE c.lb[j]],
                !.trackers = [k \in DOMAIN c.trackers |->
                                [c.trackers[k] EXCEPT !.refs = left(k), !.pending = @ \cup hides(k)]]]
Tracking(c) == {j \in Lb(c) : c.lb[j].state = "tracking"}

\* rc_client_update_leaderboard_tracker
UpdateTracker(c, j) ==
  LET k == c.lb[j].tracker
      t == c.trackers[k]
  IN  IF k = 0 \/ t.raw = c.lb[j].value THEN c
      ELSE [c EXCEPT !.trackers[k] = [t EXCEPT !.raw = c.lb[j].value, !.pending = @ \cup {"update"}]]

\* rc_client_hide_progress_tracker
HideProgressTracker(c) == IF c.timer /\ c.action = "none" THEN [c EXCEPT !.timer = FALSE, !.action = "hide"] ELSE c

-----------------------------------------------------------------------------
(* Modes.                                                                  *)

\* rc_client_update_active_achievements: the achievements the runtime lists
UpdateActive(c) == [c EXCEPT !.listed = Active(c)]

\* rc_client_subset_toggle_hardcore_achievements
Activates(c, i, mode) == mode \notin c.ach[i].unlocked /\ c.ach[i].state \in {"unlocked", "inactive"}
Deactivates(c, i, mode) == mode \in c.ach[i].unlocked /\ c.ach[i].state \in {"active", "inactive"} /\ ~c.encore
ToggleAchievement(c, i, mode) ==
  IF Activates(c, i, mode) THEN [ResetTrigger(c, i) EXCEPT !.state = "active"]
  ELSE IF Deactivates(c, i, mode) THEN [c.ach[i] EXCEPT !.state = "unlocked", !.trigger = "triggered"]
  ELSE c.ach[i]

\* rc_client_toggle_hardcore_achievements
ToggleAchievements(c, mode) ==
  UpdateActive([c EXCEPT !.ach = [i \in Ach(c) |-> ToggleAchievement(c, i, mode)],
                         !.ui.challenges = @ \ {i \in Ach(c) : Deactivates(c, i, mode) /\ c.ach[i].trigger = "primed"}])

\* Mutant: what is unlocked in either mode stays so
ActivateLocked(c) == ToggleAchievements(c, "softcore")

\* rc_client_activate_achievements: in encore mode every one
ActivateAchievements(c) == ToggleAchievements(c, IF c.encore THEN "none" ELSE Mode(c))

\* each leaderboard in its order
OnEach(c, step(_, _)) ==
  LET after[n \in 0..Len(c.lb)] == IF n = 0 THEN c ELSE step(after[n - 1], n)
  IN  after[Len(c.lb)]

\* rc_client_activate_leaderboards
ActivateLeaderboards(c) ==
  LET activated(l) == IF l.state = "disabled" THEN l
                      ELSE IF ~c.hardcore THEN [l EXCEPT !.state = "inactive"]
                      ELSE IF l.state = "inactive" THEN [l EXCEPT !.state = "active", !.run = "waiting"] ELSE l
  IN  [c EXCEPT !.lb = [j \in Lb(c) |-> activated(c.lb[j])]]

\* rc_client_deactivate_leaderboards
DeactivateLeaderboards(c) ==
  LET released == ReleaseTrackers(c, Tracking(c))
      deactivated(l) == IF l.state = "disabled" THEN l ELSE [l EXCEPT !.state = "inactive"]
  IN  [released EXCEPT !.lb = [j \in Lb(c) |-> deactivated(released.lb[j])]]

\* rc_client_invalidate_memref_achievements and _leaderboards: what reads an address that is not there
Invalidate(c, lost) ==
  LET reads(d) == d.mem \in lost
      shown == \/ \E i \in Active(c) : reads(c.title.ach[i]) /\ c.ach[i].trigger = "primed"
               \/ \E j \in Lb(c) : reads(c.title.lb[j]) /\ c.lb[j].state = "tracking"
  IN  [c EXCEPT
        !.ach = [i \in Ach(c) |-> IF reads(c.title.ach[i]) THEN [c.ach[i] EXCEPT !.state = "disabled", !.trigger = "disabled"]
                                ELSE c.ach[i]],
        !.lb = [j \in Lb(c) |-> IF reads(c.title.lb[j]) THEN [c.lb[j] EXCEPT !.state = "disabled", !.run = "disabled"] ELSE c.lb[j]],
        !.invalid = @ \cup lost, !.odd = @ \/ shown]

-----------------------------------------------------------------------------
(* Loading, as far as the achievements: rc_client_activate_game.           *)

\* rc_client_copy_achievements: the unofficial ones only if they are asked for
Copied(definition, unofficial) ==
  [ach |-> [i \in {i \in DOMAIN definition.ach : unofficial \/ definition.ach[i].category = "core"} |-> definition.ach[i]],
   lb |-> definition.lb, requests |-> definition.requests, most |-> definition.most]

CopyAchievement(a) == [state |-> IF a.parses THEN "inactive" ELSE "disabled", trigger |-> IF a.parses THEN "waiting" ELSE "disabled",
                       measured |-> Unknown, unlocked |-> {}, pending |-> {}, carried |-> "none"]
\* rc_client_copy_leaderboards
CopyLeaderboard(l) == [state |-> "inactive", run |-> "waiting", value |-> 0, tracker |-> 0, pending |-> {}]

Subsets(c) == {c.title.ach[i].subset : i \in DOMAIN c.title.ach} \cup {c.title.lb[j].subset : j \in DOMAIN c.title.lb}

\* rc_client_apply_unlocks: one in hardcore is unlocked in both modes
ApplyUnlocks(c, unlocks) ==
  LET modes(unlock) == IF unlock = "hardcore" THEN {"softcore", "hardcore"} ELSE IF unlock = "softcore" THEN {"softcore"} ELSE {}
  IN  [c EXCEPT !.ach = [i \in Ach(c) |-> [c.ach[i] EXCEPT !.unlocked = modes(unlocks[i])]]]

\* rc_client_activate_game
ActivateGame(c, unlocks, lost) ==
  LET loaded == [c EXCEPT !.loaded = TRUE, !.ach = [i \in DOMAIN c.title.ach |-> CopyAchievement(c.title.ach[i])],
                          !.lb = [j \in DOMAIN c.title.lb |-> CopyLeaderboard(c.title.lb[j])],
                          !.mastery = [s \in Subsets(c) |-> "none"], !.ui.trackers = <<>>]
      unlocked == IF c.spectating THEN loaded ELSE ApplyUnlocks(loaded, unlocks)
  IN  ActivateLeaderboards(ActivateAchievements(Invalidate(unlocked, lost)))

-----------------------------------------------------------------------------
(* Requests.                                                               *)

Key(r) == [what |-> r.what, of |-> r.of, hardcore |-> r.hardcore]
Request(c, what, of) == [what |-> what, of |-> of, hardcore |-> c.hardcore, tries |-> 0, waits |-> FALSE]
Send(c, requests) == [c EXCEPT !.requests = @ \cup requests, !.owed = @ \cup {Key(r) : r \in requests}]

\* rc_client_award_achievement, of each that has triggered
Award(c, won) ==
  LET modes == IF c.hardcore THEN {"softcore", "hardcore"} ELSE {"softcore"}
      sent == {i \in won : c.title.ach[i].category = "core" /\ ~c.spectating}
  IN  Send([c EXCEPT !.ach = [i \in Ach(c) |-> IF i \in won THEN [c.ach[i] EXCEPT !.state = "unlocked", !.unlocked = @ \cup modes]
                                               ELSE c.ach[i]],
                     !.early = @ \/ (c.hardcore /\ \E i \in won : c.ach[i].carried = "played")],
           {Request(c, "unlock", i) : i \in sent})

\* rc_client_submit_leaderboard_entry, of each that has ended
Submit(c, entered) == IF ~c.hardcore \/ c.spectating THEN c ELSE Send(c, {Request(c, "submit", c.title.lb[j].name) : j \in entered})

\* of client->state.disconnect: hidden, show (pending), visible, hide (pending)
Visible(d) == d \in {"visible", "hide"}

\* Mutant: what is pending is forgotten
UpdateDisconnectAtOnce(c) ==
  [c EXCEPT !.disconnect = IF \E r \in c.requests : r.waits THEN "visible" ELSE "hidden"]

\* rc_client_update_disconnect_state
UpdateDisconnect(c) ==
  LET new == \E r \in c.requests : r.waits
  IN  [c EXCEPT !.disconnect = IF new THEN IF Visible(@) THEN "visible" ELSE "show"
                               ELSE IF Visible(@) THEN "hide" ELSE "hidden"]

\* rc_client_raise_disconnect_events
RaiseDisconnect(c) ==
  IF c.disconnect \notin {"show", "hide"} THEN c
  ELSE [c EXCEPT !.disconnect = IF @ = "show" THEN "visible" ELSE "hidden", !.ui.offline = c.disconnect = "show"]

Misuse(c) == [c EXCEPT !.misused = TRUE]

\* the last unlock of a set: its subset is mastered.  client->game is not tested
Mastered(c, name) ==
  IF ~c.loaded THEN Misuse(c)
  ELSE [c EXCEPT !.mastery[c.title.ach[name].subset] = IF @ = "none" THEN "pending" ELSE @]

\* a failure that rc_client_should_retry: once immediately, then after 1 s, 2 s, ... 120 s
Retry(c, r) ==
  IF r.tries = 0 THEN [c EXCEPT !.requests = (@ \ {r}) \cup {[r EXCEPT !.tries = 1]}]
  ELSE UpdateDisconnect([c EXCEPT !.requests = (@ \ {r}) \cup {[r EXCEPT !.tries = 2, !.waits = TRUE]}])

\* rc_client_award_achievement_callback and rc_client_submit_leaderboard_entry_callback, of an answer that ends it
Answered(c, r, answer) ==
  LET done == [c EXCEPT !.requests = @ \ {r}, !.owed = @ \ {Key(r)}]
      marked == IF answer = "last" /\ r.what = "unlock" THEN Mastered(done, r.of) ELSE done
  IN  IF r.tries > 0 THEN UpdateDisconnect(marked) ELSE marked

\* rc_client_idle: what is due, and then what is pending of the connection
RunDue(c, due, elapsed) ==
  LET sent == [c EXCEPT !.requests = (@ \ due) \cup {[r EXCEPT !.waits = FALSE] : r \in due}]
      hidden == IF elapsed THEN [sent EXCEPT !.timer = FALSE, !.ui.progress = FALSE] ELSE sent
  IN  RaiseDisconnect(hidden)

-----------------------------------------------------------------------------
(* Events.                                                                 *)

\* rc_client_raise_leaderboard_tracker_events: what is to be shown and hidden in one frame is not
RaiseTrackers(c) ==
  LET seen(k) == LET t == c.trackers[k]
                 IN  CASE t.pending \cap {"hide", "show"} = {"hide"} -> None
                       [] "hide" \notin t.pending /\ t.pending # {}  -> t.raw
                       [] OTHER -> c.ui.trackers[k]
  IN  [c EXCEPT !.ui.trackers = [k \in DOMAIN @ |-> seen(k)],
                !.trackers = [k \in DOMAIN c.trackers |-> [c.trackers[k] EXCEPT !.pending = {}]]]

\* rc_client_raise_achievement_events: the requests are sent first
RaiseAchievements(c) ==
  LET with(event) == {i \in Ach(c) : event \in c.ach[i].pending}
      awarded == Award(c, with("triggered"))
  IN  [awarded EXCEPT !.ach = [i \in Ach(c) |-> [awarded.ach[i] EXCEPT !.pending = {}]],
                      !.ui.challenges = (@ \cup with("show")) \ with("hide")]

\* rc_client_raise_leaderboard_events
RaiseLeaderboards(c) ==
  LET entered == Submit(c, {j \in Lb(c) : "submitted" \in c.lb[j].pending /\ "failed" \notin c.lb[j].pending})
  IN  [entered EXCEPT !.lb = [j \in Lb(c) |-> [c.lb[j] EXCEPT !.pending = {}]]]

\* rc_client_raise_mastery_event: it compares the subset with those of client->game
RaiseMastery(c, there) ==
  IF \A s \in DOMAIN c.mastery : c.mastery[s] # "pending" THEN c
  ELSE IF there THEN [c EXCEPT !.mastery = [s \in DOMAIN @ |-> IF c.mastery[s] = "pending" THEN "shown" ELSE c.mastery[s]]]
  ELSE Misuse(c)

\* Mutant: what was to be done with the popup stays so
RaiseProgressAgain(c) == IF c.action = "none" THEN c ELSE [c EXCEPT !.ui.progress = c.action # "hide"]

\* rc_client_raise_progress_tracker_events
RaiseProgress(c) == IF c.action = "none" THEN c ELSE [c EXCEPT !.action = "none", !.ui.progress = c.action # "hide"]

\* rc_client_raise_pending_events: `there` is FALSE once client->game is NULL
RaisePending(c, there) ==
  LET raised == RaiseProgress(RaiseMastery(RaiseLeaderboards(RaiseAchievements(RaiseTrackers(c))), there))
  IN  IF \E i \in Ach(c) : "triggered" \in c.ach[i].pending THEN UpdateActive(raised) ELSE raised

-----------------------------------------------------------------------------
(* A frame.                                                                *)

\* what rc_evaluate_trigger may leave: see EvaluateTrigger of RcEvaluate
Evaluations(trigger) == IF trigger = "waiting" THEN {"waiting", "active", "primed"} ELSE {"active", "primed", "triggered"}

\* rc_client_do_frame_process_achievements, of one
ProcessAchievement(c, i, to, measured) ==
  LET a == c.ach[i]
      events == (IF a.trigger = "primed" /\ to # "primed" THEN {"hide"} ELSE {})
                \cup (IF a.trigger # to /\ to = "triggered" THEN {"triggered"} ELSE {})
                \cup (IF a.trigger # to /\ to = "primed" THEN {"show"} ELSE {})
  IN  IF a.state # "active" THEN a
      ELSE [a EXCEPT !.trigger = to, !.measured = IF c.title.ach[i].measured THEN measured ELSE @,
                     !.pending = @ \cup events, !.carried = IF c.hardcore THEN @ ELSE "played"]

\* its measured value changed, is not past its target, and it has not triggered: a popup
Progressed(before, c) ==
  \E i \in Active(c) : /\ c.ach[i].measured # before.ach[i].measured /\ before.ach[i].measured # Unknown
                       /\ c.ach[i].measured \in 1..Target /\ c.ach[i].trigger \in {"active", "primed"}

\* rc_client_do_frame_update_progress_tracker
UpdateProgressTracker(c) == [c EXCEPT !.action = IF c.timer THEN "update" ELSE "show", !.timer = TRUE]

\* rc_client_do_frame_process_leaderboards, of one: `to` is what rc_evaluate_lboard leaves, or the end it comes to
ProcessLeaderboard(c, j, to, value) ==
  LET l == c.lb[j]
      running == l.run = "started"
      valued == [l EXCEPT !.value = IF to \in {"started", "triggered"} THEN value ELSE 0]
      begun == [valued EXCEPT !.run = "started", !.state = "tracking", !.pending = @ \cup {"started"}]
      ended(event) == [valued EXCEPT !.run = "waiting", !.state = "active", !.pending = @ \cup {event}]
      becomes(w) == [c EXCEPT !.lb[j] = w]
      timed(d) == IF running THEN UpdateTracker(d, j) ELSE AllocateTracker(d, j)
  IN  IF l.state \in {"inactive", "disabled"} THEN c
      ELSE CASE to = "started"   -> timed(becomes(IF running THEN valued ELSE begun))
             [] to = "canceled"  -> ReleaseTrackers(becomes(ended("failed")), {j})
             [] to = "triggered" -> ReleaseTrackers(timed(becomes(ended("submitted"))), {j})
             [] OTHER -> becomes([valued EXCEPT !.run = to])

Attempts(run) == CASE run = "waiting" -> {"waiting", "active"}
                   [] run = "active"  -> {"active", "started", "triggered"}
                   [] run = "started" -> {"started", "canceled", "triggered"}
                   [] OTHER -> {run}

\* what a frame may find: leaderboards of one key read one value; one that counts hits counts on from its own
Values(c, tick) ==
  [j \in Lb(c) |-> LET own == IF c.lb[j].run = "started" THEN c.lb[j].value ELSE 0
                   IN  IF c.title.lb[j].hits THEN Min({own + tick, c.title.most}) ELSE tick]

\* leaderboards that count hits share a tracker though they did not start in one frame: the one that starts meets the
\* value that the other, which comes after it, had in the frame before
SharesLate(before, after) ==
  \E j, k \in Lb(before) : /\ j < k /\ before.lb[j].tracker = 0 /\ before.lb[k].tracker # 0
                            /\ after.lb[j].tracker = before.lb[k].tracker /\ after.trackers[after.lb[j].tracker].hits

\* rc_client_do_frame, up to its call of rc_client_idle
Frame(c, lost, achieved, measured, attempted, tick) ==
  LET read == IF lost = {} THEN c ELSE UpdateActive(Invalidate(c, lost))
      evaluated == [read EXCEPT !.ach = [i \in Ach(c) |-> ProcessAchievement(read, i, achieved[i], measured)]]
      shown == IF Progressed(read, evaluated) THEN UpdateProgressTracker(evaluated) ELSE evaluated
      values == Values(c, tick)
      tracked == IF c.hardcore THEN OnEach(shown, LAMBDA d, j : ProcessLeaderboard(d, j, attempted[j], values[j])) ELSE shown
  IN  RaisePending([tracked EXCEPT !.odd = @ \/ SharesLate(shown, tracked)], TRUE)

-----------------------------------------------------------------------------
(* Resets, save states and leaving the game.                               *)

Primed(c) == {i \in Active(c) : c.ach[i].trigger = "primed"}
HidePrimed(c) ==
  [c EXCEPT !.ach = [i \in Ach(c) |-> IF i \in Primed(c) THEN [c.ach[i] EXCEPT !.pending = @ \cup {"hide"}] ELSE c.ach[i]]]

\* rc_client_reset_achievements
ResetAchievements(c) ==
  LET hidden == HidePrimed(c)
  IN  [hidden EXCEPT !.ach = [i \in Ach(c) |-> IF i \in Active(c) THEN ResetTrigger(hidden, i) ELSE hidden.ach[i]]]

\* rc_client_reset_leaderboards
ResetLeaderboards(c) ==
  LET released == ReleaseTrackers(c, Tracking(c))
      reset(l) == IF l.state \in {"inactive", "disabled"} THEN l ELSE [l EXCEPT !.state = "active", !.run = "waiting"]
  IN  [released EXCEPT !.lb = [j \in Lb(c) |-> reset(released.lb[j])]]

\* rc_client_reset_all
ResetAll(c) == ResetLeaderboards(ResetAchievements(c))

\* rc_client_subset_before_deserialize_progress
BeforeDeserialize(c) ==
  LET held(l) == IF l.run = "started" /\ l.state = "tracking" THEN {"failed"} ELSE {}
  IN  [HidePrimed(c) EXCEPT !.lb = [j \in Lb(c) |-> [c.lb[j] EXCEPT !.pending = @ \cup held(c.lb[j])]]]

\* of one leaderboard, in rc_client_subset_after_deserialize_progress
TrackRestored(c, j, value) ==
  LET l == c.lb[j]
      held == "failed" \in l.pending
      kept == [l EXCEPT !.pending = @ \ {"failed"}]
      becomes(w) == [c EXCEPT !.lb[j] = w]
      tracked == becomes([kept EXCEPT !.state = "tracking", !.value = value])
  IN  IF l.state \in {"inactive", "disabled"} THEN c
      ELSE IF l.run = "started" THEN IF held THEN UpdateTracker(tracked, j) ELSE AllocateTracker(tracked, j)
      ELSE IF held THEN ReleaseTrackers(becomes([kept EXCEPT !.state = "active"]), {j})
      ELSE c

\* rc_client_subset_after_deserialize_progress
AfterDeserialize(c, values) ==
  LET shown(i) == IF i \notin Primed(c) THEN c.ach[i].pending
                  ELSE IF "hide" \in c.ach[i].pending THEN c.ach[i].pending \ {"hide"}
                  ELSE c.ach[i].pending \cup {"show"}
  IN  OnEach([c EXCEPT !.ach = [i \in Ach(c) |-> [c.ach[i] EXCEPT !.pending = shown(i)]]],
             LAMBDA d, j : TrackRestored(d, j, values[j]))

\* what the hits of a save state bring to a trigger: those counted in softcore come along, whatever the mode is now
Brought(c, saw) == IF saw = "hardcore" THEN "none" ELSE IF c.hardcore THEN "restored" ELSE "played"

\* rc_runtime_deserialize_progress: what was saved of those that are listed, in the mode (saw) its hits were counted in,
\* which is neither part of what is saved nor asked for
Restored(c, saw, achieved, measured, attempted) ==
  [c EXCEPT
    !.ach = [i \in Ach(c) |-> IF i \notin c.listed THEN c.ach[i]
               ELSE [c.ach[i] EXCEPT !.trigger = achieved[i], !.carried = Brought(c, saw),
                                     !.measured = IF c.title.ach[i].measured THEN measured ELSE @]],
    !.lb = [j \in Lb(c) |-> IF c.lb[j].state \in {"inactive", "disabled"} THEN c.lb[j]
                            ELSE [c.lb[j] EXCEPT !.run = attempted[j]]]]

\* trackers that count hits, shared by leaderboards whose values were restored apart
Apart(c) == \E j, k \in Lb(c) : /\ c.lb[j].tracker # 0 /\ c.lb[j].tracker = c.lb[k].tracker
                                /\ c.lb[j].value # c.lb[k].value

\* rc_client_deserialize_progress: of nothing, a reset
Deserialized(c, restored, values) ==
  LET after == AfterDeserialize(restored, values)
  IN  RaisePending([after EXCEPT !.odd = @ \/ Apart(after)], TRUE)

\* rc_client_game_mark_ui_to_be_hidden
MarkHidden(c) ==
  HideProgressTracker(ReleaseTrackers(HidePrimed(c), Tracking(c)))

-----------------------------------------------------------------------------
(* What the player may list.                                               *)

UnlockBit(c, i) == Mode(c) \in c.ach[i].unlocked

\* rc_client_is_award_achievement_pending
IsAwardPending(c, i) == \E r \in c.requests : r.waits /\ r.what = "unlock" /\ r.of = i

\* rc_client_update_achievement_display_information: `recent` are those unlocked within the last ten minutes, `almost`
\* those whose percentage, last known, was 80 or more
DisplayBucket(c, i, recent, almost) ==
  LET a == c.ach[i]
      near == IF a.measured = Unknown THEN i \in almost ELSE a.measured >= Target
      synced == IF c.disconnect # "hidden" /\ IsAwardPending(c, i) THEN "unsynced" ELSE "unlocked"
  IN  CASE a.state = "disabled" -> "unsupported"
        [] a.state = "unlocked" -> IF i \in recent THEN "recent" ELSE synced
        [] OTHER -> IF a.trigger = "primed" THEN "challenge"
                    ELSE IF c.title.ach[i].measured /\ near THEN "almost"
                    ELSE IF c.title.ach[i].category = "core" THEN "locked" ELSE "unofficial"

\* Mutant: an unlock not yet synced keeps its bucket in every grouping
MapMost(bucket, grouping) ==
  CASE grouping = "lock state" /\ bucket = "recent" -> "unlocked"
    [] grouping = "lock state" /\ bucket \in {"challenge", "almost"} -> "locked"
    [] OTHER -> bucket

\* rc_client_map_bucket
MapBucket(bucket, grouping) ==
  CASE grouping = "lock state" /\ bucket \in {"recent", "unsynced"} -> "unlocked"
    [] grouping = "lock state" /\ bucket \in {"challenge", "almost"} -> "locked"
    [] OTHER -> bucket

Bucket(shared, subset, type, of) == [shared |-> shared, subset |-> subset, type |-> type, of |-> of]

\* what both lists are made of: the buckets of the whole game, then those of each subset
Buckets(c, entries, subset, bucket, sharedTypes, subsetTypes) ==
  LET of(t) == {e \in entries : bucket[e] = t}
  IN  {Bucket(TRUE, 0, t, of(t)) : t \in {t \in sharedTypes : of(t) # {}}}
      \cup {Bucket(FALSE, x[1], x[2], {e \in of(x[2]) : subset[e] = x[1]}) :
              x \in {x \in Subsets(c) \X subsetTypes : \E e \in of(x[2]) : subset[e] = x[1]}}

\* and the room made for them: one bucket of each type there is, or one for each subset that has some
BucketsCounted(c, entries, subset, bucket, subsetTypes) ==
  LET types == {bucket[e] : e \in entries}
      splits == IF Cardinality(Subsets(c)) > 1 THEN types \cap subsetTypes ELSE {}
  IN  Cardinality(types \ splits) + Cardinality({<<subset[e], bucket[e]>> : e \in {e \in entries : bucket[e] \in splits}})

SharedBuckets == {"challenge", "recent", "almost", "unsynced"}
SubsetBuckets == {"locked", "unofficial", "unsupported", "unlocked"}
Listed(c, categories) == {i \in Ach(c) : c.title.ach[i].category \in categories}

\* rc_client_create_achievement_list
AchievementList(c, categories, grouping, recent, almost) ==
  LET subset == [i \in Ach(c) |-> c.title.ach[i].subset]
      bucket == [i \in Ach(c) |-> MapBucket(DisplayBucket(c, i, recent, almost), grouping)]
      shared == IF grouping = "progress" THEN SharedBuckets ELSE {}
  IN  [buckets |-> Buckets(c, Listed(c, categories), subset, bucket, shared, SubsetBuckets),
       room |-> BucketsCounted(c, Listed(c, categories), subset, bucket, SubsetBuckets)]

\* rc_client_get_leaderboard_bucket
LeaderboardBucket(c, j, grouping) ==
  IF c.lb[j].state = "disabled" THEN "unsupported"
  ELSE IF grouping = "none" THEN "all"
  ELSE IF c.lb[j].state = "tracking" THEN "active" ELSE "inactive"

\* rc_client_create_leaderboard_list: without those that are hidden
LeaderboardList(c, grouping) ==
  LET subset == [j \in Lb(c) |-> c.title.lb[j].subset]
      bucket == [j \in Lb(c) |-> LeaderboardBucket(c, j, grouping)]
      entries == {j \in Lb(c) : ~c.title.lb[j].hidden}
      types == {"all", "inactive", "unsupported"}
  IN  [buckets |-> Buckets(c, entries, subset, bucket, IF grouping = "tracking" THEN {"active"} ELSE {}, types),
       room |-> BucketsCounted(c, entries, subset, bucket, types)]

\* rc_client_subset_get_user_game_summary, of all subsets
Summary(c) == [core |-> Cardinality(Listed(c, {"core"})), unofficial |-> Cardinality(Listed(c, {"unofficial"})),
               unlocked |-> Cardinality({i \in Listed(c, {"core"}) : UnlockBit(c, i)})]

-----------------------------------------------------------------------------
(* Calls of the API and answers of the server.                             *)

\* hosts set encore mode and spectating before they load
Init ==
  \E definition \in Definitions, unofficial, hardcore \in BOOLEAN :
    \E mode \in definition.modes :
      client = [title |-> Copied(definition, unofficial), encore |-> mode = "encore", spectating |-> mode = "spectating",
                hardcore |-> hardcore, loaded |-> FALSE, waiting |-> FALSE, ach |-> <<>>, lb |-> <<>>, trackers |-> <<>>,
                mastery |-> <<>>, listed |-> {}, timer |-> FALSE, action |-> "none", invalid |-> {},
                requests |-> {}, owed |-> {}, disconnect |-> "hidden", ui |-> NothingShown,
                odd |-> FALSE, early |-> FALSE, misused |-> FALSE]

Memory(c) == {c.title.ach[i].mem : i \in DOMAIN c.title.ach} \cup {c.title.lb[j].mem : j \in DOMAIN c.title.lb}
Waiting(c) == {r \in c.requests : r.waits}

\* bounds: requests outstanding at once, and of each unlock or entry one
Bounded(c) == /\ Cardinality(c.requests) <= c.title.requests
              /\ \A r, s \in c.requests : Key(r) = Key(s) => r = s

Step(next) == ~client.misused /\ Bounded(next) /\ client' = next

\* rc_client_activate_game, when a load comes to it: see RcClientLoad
LoadGame ==
  /\ ~client.loaded
  /\ \E unlocks \in [DOMAIN client.title.ach -> {"none", "softcore", "hardcore"}], lost \in SUBSET Memory(client) :
       /\ \A i \in DOMAIN unlocks : client.title.ach[i].category # "core" => unlocks[i] = "none"
       /\ Step(ActivateGame(client, unlocks, lost))

\* what evaluation may find and leave: one value for those that are measured, and one each frame for the leaderboards
Evaluated(c, triggers(_), none) == {f \in [Ach(c) -> {"waiting", "active", "primed", "triggered", none}] :
                                      \A i \in Ach(c) : f[i] \in (IF i \in Active(c) THEN triggers(i) ELSE {none})}
Attempted(c, runs(_), none) == {f \in [Lb(c) -> {"waiting", "active", "started", "canceled", "triggered", none}] :
                                  \A j \in Lb(c) : f[j] \in (IF c.lb[j].state \in {"active", "tracking"} THEN runs(j) ELSE {none})}
Measurable(c, measures) == IF \E i \in Active(c) : c.title.ach[i].measured THEN measures ELSE {Unknown}
Ticks(c) == IF \E j \in Lb(c) : c.lb[j].run = "started" \/ c.lb[j].run = "active" THEN 0..c.title.most ELSE {0}

\* rc_client_do_frame; what is due when it calls rc_client_idle is left to Idle, which may follow at once
DoFrame ==
  /\ client.loaded
  /\ IF client.waiting THEN Step(RunDue(client, {}, FALSE))
     ELSE \E achieved \in Evaluated(client, LAMBDA i : Evaluations(client.ach[i].trigger), None),
             attempted \in Attempted(client, LAMBDA j : Attempts(client.lb[j].run), None),
             measured \in Measurable(client, Measures), tick \in Ticks(client), lost \in SUBSET (Memory(client) \ client.invalid) :
            Step(RunDue(Frame(client, lost, achieved, measured, attempted, tick), {}, FALSE))

\* rc_client_idle
Idle == \E due \in SUBSET Waiting(client), elapsed \in {FALSE, client.timer} :
          (due # {} \/ elapsed \/ client.disconnect \in {"show", "hide"}) /\ Step(RunDue(client, due, elapsed))

\* rc_client_reset
Reset == client.loaded /\ Step(RaisePending(ResetAll(HideProgressTracker([client EXCEPT !.waiting = FALSE])), TRUE))

\* rc_client_deserialize_progress of a state saved earlier, by any session of this game and in either mode
Deserialize ==
  /\ client.loaded
  /\ LET before == HideProgressTracker(BeforeDeserialize(client))
     IN  \/ \E saw \in {"softcore", "hardcore"},
               achieved \in Evaluated(client, LAMBDA i : {"waiting", "active", "primed"}, None),
               attempted \in Attempted(client, LAMBDA j : {"waiting", "active", "started"}, None),
               measured \in Measurable(client, Measures \cup {Unknown}) :
              \E values \in [{j \in Lb(client) : attempted[j] = "started"} -> 0..client.title.most] :
                Step(Deserialized(before, Restored(before, saw, achieved, measured, attempted), values))
         \/ Step(Deserialized(before, ResetAll(before), <<>>))

\* Mutant: frames go on at once
HardcoreAtOnce(c) == ActivateLeaderboards(ToggleAchievements(c, "hardcore"))

\* rc_client_enable_hardcore, of a game that is loaded: its frames wait for a reset
Hardcore(c) == [ActivateLeaderboards(ToggleAchievements(c, "hardcore")) EXCEPT !.waiting = TRUE]

\* rc_client_set_hardcore_enabled(TRUE)
EnableHardcore ==
  /\ ~client.hardcore
  /\ LET on == [client EXCEPT !.hardcore = TRUE]
     IN  Step(IF on.loaded THEN Hardcore(on) ELSE on)

\* rc_client_set_hardcore_enabled(FALSE): rc_client_disable_hardcore
DisableHardcore ==
  /\ client.hardcore
  /\ LET off == [client EXCEPT !.hardcore = FALSE]
     IN  Step(IF ~off.loaded THEN off
              ELSE RaisePending(DeactivateLeaderboards(ToggleAchievements(off, "softcore")), TRUE))

\* rc_client_unload_game: client->game is NULL when the last events are raised
UnloadGame == client.loaded /\ Step(Unloaded(RaisePending(MarkHidden(client), FALSE)))

\* an answer: awarded or entered, the last of its set, refused, or a failure that is worth another try
Respond ==
  \E r \in client.requests, answer \in {"ok", "last", "refused", "failed"} :
    /\ ~r.waits
    /\ answer = "last" => r.what = "unlock"
    /\ Step(IF answer = "failed" THEN Retry(client, r) ELSE Answered(client, r, answer))

Next == \/ LoadGame \/ DoFrame \/ Idle \/ Reset \/ Deserialize \/ EnableHardcore \/ DisableHardcore \/ UnloadGame \/ Respond

Spec == Init /\ [][Next]_client

-----------------------------------------------------------------------------
(* Properties.                                                             *)

\* The client and what it keeps of achievements, leaderboards, trackers and requests have their types.
TypeOK ==
  /\ client.title \in {Copied(d, u) : d \in Definitions, u \in BOOLEAN}
  /\ \A i \in Ach(client) : LET a == client.ach[i]
       IN  /\ a.state \in {"inactive", "active", "unlocked", "disabled"} /\ a.pending = {}
           /\ a.trigger \in {"waiting", "active", "primed", "triggered", "disabled"}
           /\ a.measured \in Measures \cup {Unknown} /\ a.unlocked \subseteq {"softcore", "hardcore"}
           /\ a.carried \in {"none", "played", "restored"}
  /\ \A j \in Lb(client) : LET l == client.lb[j]
       IN  /\ l.state \in {"inactive", "active", "tracking", "disabled"} /\ l.pending = {}
           /\ l.run \in {"waiting", "active", "started", "disabled"} /\ l.value \in 0..client.title.most
           /\ l.tracker \in 0..Len(client.trackers)
  /\ \A k \in DOMAIN client.trackers : client.trackers[k].refs \in 0..Len(client.lb) /\ client.trackers[k].pending = {}
  /\ client.disconnect \in {"hidden", "show", "visible", "hide"} /\ client.action = "none"
  /\ \A r \in client.requests : r.what \in {"unlock", "submit"} /\ r.tries \in 0..2 /\ (r.waits => r.tries = 2)

\* After every call the screen shows what the client tracks, and when no game is loaded nothing: the challenges that
\* are primed, the popup while its timer runs, and for every attempt under way a tracker with its value, each shared
\* by as many as hold it.  Shows, hides, updates and shares of one frame, resets, save states, changes of mode and
\* the end of the game all meet in the events of the trackers.  Not so (odd) once something is disabled while shown.
OnScreen ==
  ~client.odd /\ ~client.misused =>
    /\ client.ui.challenges = Primed(client)
    /\ client.ui.progress = client.timer
    /\ \A j \in Lb(client) : LET l == client.lb[j]
         IN  /\ l.state = "tracking" <=> l.tracker # 0
             /\ l.tracker # 0 => client.ui.trackers[l.tracker] = l.value
    /\ \A k \in DOMAIN client.ui.trackers :
         LET holders == {j \in Lb(client) : client.lb[j].tracker = k}
         IN  /\ k \in DOMAIN client.trackers => client.trackers[k].refs = Cardinality(holders)
             /\ client.ui.trackers[k] # None <=> holders # {}

\* A loaded game's achievements are active exactly as the mode it is played in says, its leaderboards only in hardcore,
\* and the runtime lists the active ones: after every order of loading, changes of mode, unlocks and lost memory.
\* (In encore mode an achievement stays active though it is unlocked.)
ActiveAsPlayed ==
  client.loaded =>
    /\ \A i \in Ach(client) : LET a == client.ach[i]
         IN  ~client.encore => a.state \in {"disabled", IF UnlockBit(client, i) THEN "unlocked" ELSE "active"}
    /\ \A j \in Lb(client) : LET l == client.lb[j]
         IN  l.state # "disabled" => (l.state = "inactive" <=> ~client.hardcore)
    /\ client.listed = Active(client)

\* An unlock or an entry that was sent is asked again until the server has answered it.  While one waits for that the
\* player is told, or about to be, that the server is out of reach, when none has been retried that it is back; and
\* what he was told last is what the client believes it told him: whatever fails and is answered, in whatever order.
DisconnectFollows ==
  /\ client.owed = {Key(r) : r \in client.requests}
  /\ Waiting(client) # {} => client.disconnect \in {"visible", "show"}
  /\ (\A r \in client.requests : r.tries < 2) => client.disconnect \in {"hidden", "hide"}
  /\ client.ui.offline <=> Visible(client.disconnect)

\* No achievement is won in hardcore by what its trigger saw in the softcore frames played before: frames wait for the
\* reset that rc_client_enable_hardcore asks for, whatever is switched, restored or reloaded meanwhile.  It is said of
\* what was played only: a save state whose hits were counted in softcore is restored in hardcore like any other, since
\* rc_client_deserialize_progress knows no mode, and may win there (carried "restored").
HardcoreStartsClean == ~client.early

\* Each list holds every achievement (leaderboard) it is asked for exactly once, in buckets there is room for; and the
\* unlocked ones of the list are those the summary counts.  Two passes over the game and two groupings must agree.
ListsAreComplete ==
  client.loaded =>
    /\ \A categories \in {{"core"}, {"core", "unofficial"}}, grouping \in {"progress", "lock state"},
          lately \in SUBSET Ach(client) :
         LET list == AchievementList(client, categories, grouping, lately, lately)
             unlocked == UNION {b.of : b \in {b \in list.buckets : b.type = "unlocked"}}
         IN  /\ \A i \in Ach(client) : Cardinality({b \in list.buckets : i \in b.of})
                                         = IF i \in Listed(client, categories) THEN 1 ELSE 0
             /\ Cardinality(list.buckets) <= list.room
             /\ grouping = "lock state" /\ categories = {"core"} /\ ~client.encore =>
                  Cardinality(unlocked) + Cardinality({i \in Listed(client, {"core"}) :
                    client.ach[i].state = "disabled" /\ UnlockBit(client, i)}) = Summary(client).unlocked
    /\ \A grouping \in {"none", "tracking"} :
         LET list == LeaderboardList(client, grouping)
         IN  /\ \A j \in Lb(client) : Cardinality({b \in list.buckets : j \in b.of})
                                        = IF client.title.lb[j].hidden THEN 0 ELSE 1
             /\ Cardinality(list.buckets) <= list.room

\* What the comment in rc_client_award_achievement provides for: client->game "may be NULL" while a game is unloaded
\* or after, and is not followed then.
NoGameIsNotFollowed == ~client.misused
=============================================================================
