-------------------------- MODULE RcClientPlay_proofs --------------------------
(***************************************************************************)
(* Proofs about RcClientPlay, for any games: what is active in each mode,  *)
(* what the player sees, what the server still owes an answer, and that no *)
(* achievement is won in hardcore by what was seen in softcore.            *)
(*                                                                         *)
(* The client is a record of many fields of which an operator changes few. *)
(* What an operator does is stated once, as the fields it may change       *)
(* (Same) and what becomes of these; the invariant has four parts, of the  *)
(* server, the achievements, the leaderboards and the popup, and each part *)
(* is shown kept by the operators that change one of its fields.           *)
(***************************************************************************)
EXTENDS RcClientPlay, FiniteSetTheorems, SequenceTheorems, WellFoundedInduction, TLAPS

-----------------------------------------------------------------------------
(* The fields of the client.                                               *)

Fields == {"title", "encore", "spectating", "hardcore", "loaded", "waiting", "ach", "lb", "trackers", "mastery", "listed",
           "timer", "action", "invalid", "requests", "owed", "disconnect", "ui", "odd", "early", "misused"}
ScreenFields == {"challenges", "trackers", "progress", "offline"}
IsClient(c) == c = [f \in Fields |-> c[f]] /\ c.ui = [f \in ScreenFields |-> c.ui[f]]

\* d is c but for some fields; and but for what is changed of the screen
Same(c, d, fs) == IsClient(d) /\ \A f \in Fields \ fs : d[f] = c[f]
SameScreen(c, d, fs) == \A f \in ScreenFields \ fs : d.ui[f] = c.ui[f]

AchievementType ==
  [state : {"inactive", "active", "unlocked", "disabled"}, trigger : {"waiting", "active", "primed", "triggered", "disabled"},
   measured : Measures \cup {Unknown}, unlocked : SUBSET {"softcore", "hardcore"},
   pending : SUBSET {"show", "hide", "triggered"}, carried : {"none", "played", "restored"}]
LeaderboardType ==
  [state : {"inactive", "active", "tracking", "disabled"}, run : {"waiting", "active", "started", "disabled"},
   value : Nat, tracker : Nat, pending : SUBSET {"started", "failed", "submitted"}]
IsTracker(t) == /\ t = [f \in {"refs", "key", "raw", "hits", "pending"} |-> t[f]]
                /\ t.refs \in Nat /\ t.raw \in Nat /\ t.pending \subseteq {"show", "update", "hide"}
IsRequest(r) == /\ r = [f \in {"what", "of", "hardcore", "tries", "waits"} |-> r[f]]
                /\ r.what \in {"unlock", "submit"} /\ r.tries \in 0..2 /\ r.waits \in BOOLEAN

-----------------------------------------------------------------------------
(* The inductive invariant.                                                *)

(* What is out is owed, and what waits is told.                            *)
Server(c) ==
  /\ c.owed = {Key(r) : r \in c.requests}
  /\ \A r \in c.requests : IsRequest(r) /\ (r.waits => r.tries = 2)
  /\ c.disconnect \in {"hidden", "show", "visible", "hide"}
  /\ Waiting(c) # {} => c.disconnect \in {"visible", "show"}
  /\ (\A r \in c.requests : r.tries < 2) => c.disconnect \in {"hidden", "hide"}
  /\ c.ui.offline <=> Visible(c.disconnect)
Single(c) == \A r, s \in c.requests : Key(r) = Key(s) => r = s

(* The popup is there while its timer runs, or will be once the event is   *)
(* raised.                                                                 *)
Popup(c) ==
  /\ c.timer \in BOOLEAN
  /\ IF c.action = "none" THEN c.ui.progress = c.timer ELSE c.timer = (c.action # "hide")

(* An achievement is as the mode says; one that has triggered is active    *)
(* until its event is raised, and has not seen softcore frames if it is    *)
(* won in hardcore.                                                        *)
AsPlayed(c, i) == ~c.encore => c.ach[i].state \in {"disabled", IF UnlockBit(c, i) THEN "unlocked" ELSE "active"}
Wins(c, i) ==
  LET a == c.ach[i]
  IN  "triggered" \in a.pending => a.state = "active" /\ a.trigger # "primed" /\ (c.hardcore => a.carried # "played")
Clean(c) == c.early = FALSE /\ (c.hardcore /\ ~c.waiting => \A i \in Active(c) : c.ach[i].carried # "played")

(* The challenges shown once the events are raised are those primed.       *)
Raised(c, event) == {i \in Ach(c) : event \in c.ach[i].pending}
Challenges(c) == ~c.odd => (c.ui.challenges \cup Raised(c, "show")) \ Raised(c, "hide") = Primed(c)

Achievements(c) ==
  /\ \A i \in Ach(c) : c.ach[i] \in AchievementType /\ AsPlayed(c, i) /\ Wins(c, i)
  /\ c.listed = Active(c) /\ Clean(c) /\ Challenges(c)

(* A leaderboard runs while it is tracked, has a tracker exactly then (but *)
(* for one that was disabled), and no value out of reach.                  *)
BoardAsPlayed(c, j) ==
  LET l == c.lb[j]
  IN  /\ l.state # "disabled" => (l.state = "inactive" <=> ~c.hardcore)
      /\ l.state = "tracking" => l.run = "started" /\ l.tracker # 0
      /\ l.state = "active" => l.run \in {"waiting", "active"} /\ l.tracker = 0
      /\ l.state = "inactive" => l.tracker = 0
      /\ l.state = "disabled" /\ l.tracker # 0 => c.odd
      /\ l.value <= c.title.most

(* A tracker is held by as many as it counts, they share its value's       *)
(* definition, and what its events will show is its value, or nothing once *)
(* none is left.                                                           *)
Holders(c, k) == {j \in Lb(c) : c.lb[j].tracker = k}
Counted(c, k) == c.trackers[k].refs = Cardinality(Holders(c, k))
Belongs(c, j) ==
  LET k == c.lb[j].tracker
  IN  k # 0 => /\ k \in DOMAIN c.trackers
               /\ c.trackers[k].key = c.title.lb[j].key /\ c.trackers[k].hits = c.title.lb[j].hits
WillShow(c, k) ==
  LET t == c.trackers[k]
      seen == c.ui.trackers[k]
  IN  /\ t.refs # 0 => "hide" \notin t.pending /\ (t.pending = {} => seen = t.raw)
      /\ t.refs = 0 /\ t.pending = {} => seen = None
      /\ t.refs = 0 /\ t.pending # {} => "hide" \in t.pending
      /\ "show" \in t.pending => seen = None

(* The lists of leaderboards and trackers.                                 *)
Length(s) == Len(s) \in Nat /\ DOMAIN s = 1..Len(s) /\ s = [n \in 1..Len(s) |-> s[n]]
Lists(c) ==
  /\ DOMAIN c.lb = 1..Len(c.title.lb) /\ Length(c.lb) /\ Length(c.trackers) /\ Length(c.ui.trackers)
  /\ Len(c.ui.trackers) = Len(c.trackers)
  /\ \A j \in Lb(c) : c.lb[j] \in LeaderboardType
  /\ \A k \in DOMAIN c.trackers : IsTracker(c.trackers[k])
Trackers(c) ==
  /\ Lists(c)
  /\ \A j \in Lb(c) : Belongs(c, j)
  /\ \A k \in DOMAIN c.trackers : Counted(c, k) /\ WillShow(c, k)

(* A leaderboard's tracker has its value.                                  *)
SameValue(c, j) == c.lb[j].tracker # 0 => c.trackers[c.lb[j].tracker].raw = c.lb[j].value

Boards(c) ==
  /\ Trackers(c)
  /\ \A j \in Lb(c) : BoardAsPlayed(c, j)
  /\ ~c.odd => \A j \in Lb(c) : SameValue(c, j)

(* Without a game there is nothing, and nothing is shown.                  *)
Empty(c) ==
  /\ c.ach = <<>> /\ c.lb = <<>> /\ c.trackers = <<>> /\ c.listed = {} /\ c.timer = FALSE /\ c.waiting = FALSE
  /\ ~c.odd => \A k \in DOMAIN c.ui.trackers : c.ui.trackers[k] = None

(* Between calls no event is pending.                                      *)
Quiet(c) ==
  /\ \A i \in Ach(c) : c.ach[i].pending = {}
  /\ \A j \in Lb(c) : c.lb[j].pending = {}
  /\ \A k \in DOMAIN c.trackers : c.trackers[k].pending = {}
  /\ c.action = "none"

Titles == {Copied(d, u) : d \in Definitions, u \in BOOLEAN}
Played(c) == IF c.loaded THEN DOMAIN c.ach = DOMAIN c.title.ach /\ Boards(c) ELSE Empty(c)

PlayInv(c) ==
  /\ IsClient(c) /\ c.title \in Titles /\ c.hardcore \in BOOLEAN
  /\ Server(c) /\ Single(c) /\ Popup(c) /\ Achievements(c) /\ Played(c) /\ Quiet(c)

IInv == PlayInv(client)

-----------------------------------------------------------------------------
(* What the operators change.                                              *)

(* What one operator leaves alone after another, both do. *)
LEMMA SameTwice ==
  ASSUME NEW c, NEW d, NEW e, NEW A, NEW B, NEW S, Same(c, d, A), Same(d, e, B), A \subseteq S, B \subseteq S
  PROVE  Same(c, e, S)
BY DEF Same

(* The same of the screen. *)
LEMMA SameScreenTwice ==
  ASSUME NEW c, NEW d, NEW e, NEW A, NEW B, NEW S, SameScreen(c, d, A), SameScreen(d, e, B), A \subseteq S, B \subseteq S
  PROVE  SameScreen(c, e, S)
BY DEF SameScreen

(* Without it nothing of the screen changes. *)
LEMMA SameUi ==
  ASSUME NEW c, NEW d, NEW A, NEW S, Same(c, d, A), "ui" \notin A
  PROVE  SameScreen(c, d, S) /\ d.ui = c.ui
BY DEF Same, SameScreen, Fields

(* What is left of a tracker, and of a leaderboard, that some leave. *)
Leave(c, leaving, k) == {j \in leaving : c.lb[j].tracker = k}
Left(c, leaving, k) ==
  LET refs == c.trackers[k].refs - Cardinality(Leave(c, leaving, k))
  IN  [c.trackers[k] EXCEPT !.refs = refs,
                            !.pending = @ \cup IF Leave(c, leaving, k) # {} /\ refs = 0 THEN {"hide"} ELSE {}]
Leaves(c, leaving, j) == IF j \in leaving THEN [c.lb[j] EXCEPT !.tracker = 0] ELSE c.lb[j]
LeavesAll(c, leaving) == [j \in Lb(c) |-> Leaves(c, leaving, j)]
LeftAll(c, leaving) == [k \in DOMAIN c.trackers |-> Left(c, leaving, k)]

(* rc_client_release_leaderboard_tracker: the leaderboards and the trackers. *)
LEMMA ReleaseTrackersEffect ==
  ASSUME NEW c, IsClient(c), NEW leaving, NEW d, d = ReleaseTrackers(c, leaving)
  PROVE  /\ Same(c, d, {"lb", "trackers"})
         /\ d.lb = LeavesAll(c, leaving)
         /\ d.trackers = LeftAll(c, leaving)
<1> DEFINE lb == LeavesAll(c, leaving)
           trackers == LeftAll(c, leaving)
<1>1. d = [c EXCEPT !.lb = lb, !.trackers = trackers]
  BY DEF ReleaseTrackers, Leave, LeftAll, Left, LeavesAll, Leaves
<1> HIDE DEF lb, trackers
<1>2. Same(c, d, {"lb", "trackers"}) /\ d.lb = lb /\ d.trackers = trackers
  BY <1>1 DEF IsClient, Same, Fields
<1> QED BY <1>2 DEF lb, trackers

(* A tracker whose value changed. *)
Updated(t, value) == [t EXCEPT !.raw = value, !.pending = @ \cup {"update"}]

(* rc_client_update_leaderboard_tracker: at most the one tracker. *)
LEMMA UpdateTrackerEffect ==
  ASSUME NEW c, IsClient(c), NEW j, NEW d, d = UpdateTracker(c, j), NEW k, k = c.lb[j].tracker
  PROVE  /\ Same(c, d, {"trackers"})
         /\ k = 0 \/ c.trackers[k].raw = c.lb[j].value => d = c
         /\ k # 0 /\ c.trackers[k].raw # c.lb[j].value =>
              d.trackers = [c.trackers EXCEPT ![k] = Updated(c.trackers[k], c.lb[j].value)]
<1>1. CASE k = 0 \/ c.trackers[k].raw = c.lb[j].value
  BY <1>1 DEF UpdateTracker, Same, IsClient
<1>2. CASE ~(k = 0 \/ c.trackers[k].raw = c.lb[j].value)
  <2> DEFINE X == [c.trackers EXCEPT ![k] = Updated(c.trackers[k], c.lb[j].value)]
  <2>1. d = [c EXCEPT !.trackers = X]
    BY <1>2 DEF UpdateTracker, Updated
  <2> HIDE DEF X
  <2>2. Same(c, d, {"trackers"}) /\ d.trackers = X
    BY <2>1 DEF IsClient, Same, Fields
  <2> QED BY <1>2, <2>2 DEF X
<1> QED BY <1>1, <1>2

(* rc_client_hide_progress_tracker: the popup's timer and what is pending of it. *)
LEMMA HideProgressTrackerEffect ==
  ASSUME NEW c, IsClient(c), NEW d, d = HideProgressTracker(c)
  PROVE  /\ Same(c, d, {"timer", "action"})
         /\ c.timer /\ c.action = "none" => d.timer = FALSE /\ d.action = "hide"
         /\ ~(c.timer /\ c.action = "none") => d = c
<1>1. CASE c.timer /\ c.action = "none"
  <2>1. d = [c EXCEPT !.timer = FALSE, !.action = "hide"]
    BY <1>1 DEF HideProgressTracker
  <2> QED BY <1>1, <2>1 DEF IsClient, Same, Fields
<1>2. CASE ~(c.timer /\ c.action = "none")
  <2>1. d = c
    BY <1>2 DEF HideProgressTracker
  <2> QED BY <1>2, <2>1 DEF Same
<1> QED BY <1>1, <1>2

-----------------------------------------------------------------------------
(* Requests and the connection.                                            *)

\* the fields of Server but what is told of the connection
ServerFields == {"requests", "owed", "disconnect"}

(* What changes none of its fields keeps what is said of the server. *)
LEMMA ServerSame ==
  ASSUME NEW c, NEW d, NEW S, Same(c, d, S), S \cap ServerFields = {}, d.ui.offline = c.ui.offline, Server(c)
  PROVE  Server(d)
<1>1. d.requests = c.requests /\ d.owed = c.owed /\ d.disconnect = c.disconnect
  BY DEF Same, Fields, ServerFields
<1> QED BY <1>1 DEF Server, Waiting

(* A request that is sent is owed an answer. *)
LEMMA SendEffect ==
  ASSUME NEW c, IsClient(c), NEW R, NEW d, d = Send(c, R)
  PROVE  /\ Same(c, d, {"requests", "owed"})
         /\ d.requests = c.requests \cup R /\ d.owed = c.owed \cup {Key(r) : r \in R}
<1> DEFINE owed == c.owed \cup {Key(r) : r \in R}
<1>1. d = [c EXCEPT !.requests = c.requests \cup R, !.owed = owed]
  BY DEF Send
<1> HIDE DEF owed
<1>2. Same(c, d, {"requests", "owed"}) /\ d.requests = c.requests \cup R /\ d.owed = owed
  BY <1>1 DEF IsClient, Same, Fields
<1> QED BY <1>2 DEF owed

(* What was not sent before is owed as well, and nothing waits that did not. *)
LEMMA SendKeeps ==
  ASSUME NEW c, IsClient(c), Server(c), NEW R, NEW d, d = Send(c, R),
         \A r \in R : IsRequest(r) /\ r.tries = 0 /\ r.waits = FALSE
  PROVE  Server(d)
<1>1. /\ Same(c, d, {"requests", "owed"})
      /\ d.requests = c.requests \cup R /\ d.owed = c.owed \cup {Key(r) : r \in R}
  BY SendEffect
<1>2. d.disconnect = c.disconnect /\ d.ui = c.ui
  BY <1>1 DEF Same, Fields
<1>3. Waiting(d) = Waiting(c)
  BY <1>1 DEF Waiting
<1>4. d.owed = {Key(r) : r \in d.requests}
  BY <1>1 DEF Server
<1>5. \A r \in d.requests : IsRequest(r) /\ (r.waits => r.tries = 2)
  BY <1>1 DEF Server
<1>6. (\A r \in d.requests : r.tries < 2) => d.disconnect \in {"hidden", "hide"}
  BY <1>1, <1>2 DEF Server
<1> QED BY <1>2, <1>3, <1>4, <1>5, <1>6 DEF Server

(* A new request has not been retried. *)
LEMMA RequestFacts ==
  ASSUME NEW c, NEW what \in {"unlock", "submit"}, NEW of, NEW r, r = Request(c, what, of)
  PROVE  IsRequest(r) /\ r.tries = 0 /\ r.waits = FALSE
BY DEF Request, IsRequest

(* rc_client_update_disconnect_state: only what is pending of the connection. *)
LEMMA UpdateDisconnectEffect ==
  ASSUME NEW c, IsClient(c), NEW d, d = UpdateDisconnect(c), c.disconnect \in {"hidden", "show", "visible", "hide"}
  PROVE  /\ Same(c, d, {"disconnect"})
         /\ d.disconnect \in {"hidden", "show", "visible", "hide"}
         /\ Visible(d.disconnect) <=> Visible(c.disconnect)
         /\ Waiting(c) # {} => d.disconnect \in {"visible", "show"}
         /\ Waiting(c) = {} => d.disconnect \in {"hidden", "hide"}
<1> DEFINE new == \E r \in c.requests : r.waits
           to == IF new THEN IF Visible(c.disconnect) THEN "visible" ELSE "show"
                 ELSE IF Visible(c.disconnect) THEN "hide" ELSE "hidden"
<1>1. d = [c EXCEPT !.disconnect = to]
  BY DEF UpdateDisconnect
<1>2. new <=> Waiting(c) # {}
  BY DEF Waiting
<1> HIDE DEF new
<1>3. /\ to \in {"hidden", "show", "visible", "hide"}
      /\ Visible(to) <=> Visible(c.disconnect)
      /\ new => to \in {"visible", "show"}
      /\ ~new => to \in {"hidden", "hide"}
  BY DEF Visible
<1> HIDE DEF to
<1>4. Same(c, d, {"disconnect"}) /\ d.disconnect = to
  BY <1>1 DEF IsClient, Same, Fields
<1> QED BY <1>2, <1>3, <1>4

(* The state of the connection after it was updated. *)
LEMMA UpdateDisconnectKeeps ==
  ASSUME NEW c, IsClient(c), NEW d, d = UpdateDisconnect(c), c.disconnect \in {"hidden", "show", "visible", "hide"},
         c.owed = {Key(r) : r \in c.requests},
         \A r \in c.requests : IsRequest(r) /\ (r.waits => r.tries = 2),
         c.ui.offline <=> Visible(c.disconnect)
  PROVE  Server(d)
<1>1. /\ Same(c, d, {"disconnect"})
      /\ d.disconnect \in {"hidden", "show", "visible", "hide"}
      /\ Visible(d.disconnect) <=> Visible(c.disconnect)
      /\ Waiting(c) # {} => d.disconnect \in {"visible", "show"}
      /\ Waiting(c) = {} => d.disconnect \in {"hidden", "hide"}
  BY UpdateDisconnectEffect
<1>2. d.requests = c.requests /\ d.owed = c.owed /\ d.ui = c.ui
  BY <1>1 DEF Same, Fields
<1>3. Waiting(d) = Waiting(c)
  BY <1>2 DEF Waiting
<1>4. (\A r \in c.requests : r.tries < 2) => Waiting(c) = {}
  BY DEF Waiting, IsRequest
<1> QED BY <1>1, <1>2, <1>3, <1>4 DEF Server

(* rc_client_raise_disconnect_events: the player is told what is pending. *)
LEMMA RaiseDisconnectEffect ==
  ASSUME NEW c, IsClient(c), NEW d, d = RaiseDisconnect(c)
  PROVE  /\ Same(c, d, {"disconnect", "ui"}) /\ SameScreen(c, d, {"offline"})
         /\ c.disconnect \notin {"show", "hide"} => d = c
         /\ c.disconnect = "show" => d.disconnect = "visible" /\ d.ui.offline = TRUE
         /\ c.disconnect = "hide" => d.disconnect = "hidden" /\ d.ui.offline = FALSE
<1>1. CASE c.disconnect \notin {"show", "hide"}
  <2>1. d = c
    BY <1>1 DEF RaiseDisconnect
  <2> QED BY <1>1, <2>1 DEF Same, SameScreen
<1>2. CASE c.disconnect = "show"
  <2>1. d = [c EXCEPT !.disconnect = "visible", !.ui = [c.ui EXCEPT !.offline = TRUE]]
    BY <1>2 DEF RaiseDisconnect
  <2>2. PICK u : u = [c.ui EXCEPT !.offline = TRUE]
    OBVIOUS
  <2>3. /\ u = [f \in ScreenFields |-> u[f]] /\ u.offline = TRUE
        /\ \A f \in ScreenFields \ {"offline"} : u[f] = c.ui[f]
    BY <2>2 DEF IsClient, ScreenFields
  <2>4. d = [c EXCEPT !.disconnect = "visible", !.ui = u]
    BY <2>1, <2>2
  <2>5. IsClient(d) /\ Same(c, d, {"disconnect", "ui"}) /\ d.ui = u /\ d.disconnect = "visible"
    BY <2>3, <2>4 DEF IsClient, Same, Fields
  <2>6. SameScreen(c, d, {"offline"}) /\ d.ui.offline = TRUE
    BY <2>3, <2>5 DEF SameScreen
  <2> QED BY <1>2, <2>5, <2>6
<1>3. CASE c.disconnect = "hide"
  <2>1. d = [c EXCEPT !.disconnect = "hidden", !.ui = [c.ui EXCEPT !.offline = FALSE]]
    BY <1>3 DEF RaiseDisconnect
  <2>2. PICK u : u = [c.ui EXCEPT !.offline = FALSE]
    OBVIOUS
  <2>3. /\ u = [f \in ScreenFields |-> u[f]] /\ u.offline = FALSE
        /\ \A f \in ScreenFields \ {"offline"} : u[f] = c.ui[f]
    BY <2>2 DEF IsClient, ScreenFields
  <2>4. d = [c EXCEPT !.disconnect = "hidden", !.ui = u]
    BY <2>1, <2>2
  <2>5. IsClient(d) /\ Same(c, d, {"disconnect", "ui"}) /\ d.ui = u /\ d.disconnect = "hidden"
    BY <2>3, <2>4 DEF IsClient, Same, Fields
  <2>6. SameScreen(c, d, {"offline"}) /\ d.ui.offline = FALSE
    BY <2>3, <2>5 DEF SameScreen
  <2> QED BY <1>3, <2>5, <2>6
<1> QED BY <1>1, <1>2, <1>3

(* rc_client_raise_disconnect_events. *)
LEMMA RaiseDisconnectKeeps ==
  ASSUME NEW c, IsClient(c), Server(c), NEW d, d = RaiseDisconnect(c)
  PROVE  Server(d)
<1>1. /\ Same(c, d, {"disconnect", "ui"})
      /\ c.disconnect \notin {"show", "hide"} => d = c
      /\ c.disconnect = "show" => d.disconnect = "visible" /\ d.ui.offline = TRUE
      /\ c.disconnect = "hide" => d.disconnect = "hidden" /\ d.ui.offline = FALSE
  BY RaiseDisconnectEffect
<1>2. d.requests = c.requests /\ d.owed = c.owed
  BY <1>1 DEF Same, Fields
<1>3. CASE c.disconnect \notin {"show", "hide"}
  BY <1>1, <1>3
<1>4. CASE c.disconnect = "show"
  BY <1>1, <1>2, <1>4 DEF Server, Waiting, Visible
<1>5. CASE c.disconnect = "hide"
  BY <1>1, <1>2, <1>5 DEF Server, Waiting, Visible
<1> QED BY <1>3, <1>4, <1>5

(* A subset is marked as mastered, or the game that is gone is followed. *)
LEMMA MasteredEffect ==
  ASSUME NEW c, IsClient(c), NEW name, NEW d, d = Mastered(c, name)
  PROVE  Same(c, d, {"mastery", "misused"})
<1>1. CASE ~c.loaded
  BY <1>1 DEF Mastered, Misuse, IsClient, Same, Fields
<1>2. CASE c.loaded
  <2> DEFINE marked == [c.mastery EXCEPT ![c.title.ach[name].subset] = IF @ = "none" THEN "pending" ELSE @]
  <2>1. d = [c EXCEPT !.mastery = marked]
    BY <1>2 DEF Mastered
  <2> HIDE DEF marked
  <2> QED BY <2>1 DEF IsClient, Same, Fields
<1> QED BY <1>1, <1>2

(* The client after a request was exchanged for another try of it. *)
Exchanged(c, r, s) == [c EXCEPT !.requests = (@ \ {r}) \cup {s}]

(* A failed request is tried again: it is owed still. *)
LEMMA RetryKeeps ==
  ASSUME NEW c, IsClient(c), Server(c), NEW r \in c.requests, NEW d, d = Retry(c, r)
  PROVE  Same(c, d, {"requests", "disconnect"}) /\ Server(d)
<1>1. IsRequest(r)
  BY DEF Server
<1>2. ASSUME NEW s, IsRequest(s), Key(s) = Key(r), s.waits => s.tries = 2, NEW e, e = Exchanged(c, r, s)
      PROVE  /\ Same(c, e, {"requests"}) /\ e.requests = (c.requests \ {r}) \cup {s}
             /\ e.owed = {Key(x) : x \in e.requests}
             /\ \A x \in e.requests : IsRequest(x) /\ (x.waits => x.tries = 2)
             /\ e.disconnect = c.disconnect /\ e.ui = c.ui
  <2>1. Same(c, e, {"requests"}) /\ e.requests = (c.requests \ {r}) \cup {s}
    BY <1>2 DEF Exchanged, IsClient, Same, Fields
  <2>2. e.owed = c.owed /\ e.disconnect = c.disconnect /\ e.ui = c.ui
    BY <2>1 DEF Same, Fields
  <2>3. e.owed = {Key(x) : x \in e.requests}
    BY <1>2, <2>1, <2>2 DEF Server
  <2> QED BY <1>2, <2>1, <2>2, <2>3 DEF Server
<1>3. CASE r.tries = 0
  <2>1. PICK s : s = [r EXCEPT !.tries = 1]
    OBVIOUS
  <2>2. IsRequest(s) /\ Key(s) = Key(r) /\ s.tries = 1 /\ s.waits = r.waits
    BY <1>1, <2>1 DEF IsRequest, Key
  <2>3. ~r.waits
    BY <1>3 DEF Server
  <2>4. d = Exchanged(c, r, s)
    BY <1>3, <2>1 DEF Retry, Exchanged
  <2>5. /\ Same(c, d, {"requests"}) /\ d.requests = (c.requests \ {r}) \cup {s}
        /\ d.owed = {Key(x) : x \in d.requests}
        /\ \A x \in d.requests : IsRequest(x) /\ (x.waits => x.tries = 2)
        /\ d.disconnect = c.disconnect /\ d.ui = c.ui
    BY <1>2, <2>2, <2>3, <2>4
  <2>6. Waiting(d) = Waiting(c)
    BY <2>2, <2>3, <2>5 DEF Waiting
  <2>7. (\A x \in d.requests : x.tries < 2) => \A x \in c.requests : x.tries < 2
    BY <1>3, <2>5
  <2>8. Same(c, d, {"requests", "disconnect"})
    BY <2>5 DEF Same
  <2> QED BY <2>5, <2>6, <2>7, <2>8 DEF Server
<1>4. CASE r.tries # 0
  <2>1. PICK s : s = [r EXCEPT !.tries = 2, !.waits = TRUE]
    OBVIOUS
  <2>2. IsRequest(s) /\ Key(s) = Key(r) /\ s.tries = 2
    <3>1. /\ s = [f \in {"what", "of", "hardcore", "tries", "waits"} |-> s[f]] /\ s.what = r.what /\ s.of = r.of
          /\ s.hardcore = r.hardcore /\ s.tries = 2
      BY <1>1, <2>1 DEF IsRequest
    <3>2. s.waits = TRUE
      BY <1>1, <2>1 DEF IsRequest
    <3>3. s.waits \in BOOLEAN
      BY <3>2
    <3> QED BY <1>1, <3>1, <3>3 DEF IsRequest, Key
  <2>3. PICK e : e = Exchanged(c, r, s)
    OBVIOUS
  <2>4. d = UpdateDisconnect(e)
    BY <1>4, <2>1, <2>3 DEF Retry, Exchanged
  <2>5. /\ Same(c, e, {"requests"})
        /\ e.owed = {Key(x) : x \in e.requests}
        /\ \A x \in e.requests : IsRequest(x) /\ (x.waits => x.tries = 2)
        /\ e.disconnect = c.disconnect /\ e.ui = c.ui
    BY <1>2, <2>2, <2>3
  <2>6. IsClient(e)
    BY <2>5 DEF Same
  <2>7. e.disconnect \in {"hidden", "show", "visible", "hide"} /\ (e.ui.offline <=> Visible(e.disconnect))
    BY <2>5 DEF Server
  <2>8. Server(d)
    BY <2>4, <2>5, <2>6, <2>7, UpdateDisconnectKeeps
  <2>9. Same(e, d, {"disconnect"})
    BY <2>4, <2>6, <2>7, UpdateDisconnectEffect
  <2> QED BY <2>5, <2>8, <2>9 DEF Same
<1> QED BY <1>3, <1>4

\* the fields a request's answer may change
AnswerFields == {"requests", "owed", "mastery", "misused", "disconnect"}

(* A request that was answered is not owed any more. *)
LEMMA AnsweredKeeps ==
  ASSUME NEW c, IsClient(c), Server(c), Single(c), NEW r \in c.requests, r.waits = FALSE, NEW answer,
         NEW d, d = Answered(c, r, answer)
  PROVE  Same(c, d, AnswerFields) /\ Server(d)
<1> DEFINE done == [c EXCEPT !.requests = @ \ {r}, !.owed = @ \ {Key(r)}]
           marked == IF answer = "last" /\ r.what = "unlock" THEN Mastered(done, r.of) ELSE done
<1>1. d = IF r.tries > 0 THEN UpdateDisconnect(marked) ELSE marked
  BY DEF Answered
<1>2. /\ Same(c, done, {"requests", "owed"})
      /\ done.requests = c.requests \ {r} /\ done.owed = c.owed \ {Key(r)}
  BY DEF IsClient, Same, Fields
<1> HIDE DEF done
<1>3. Same(done, marked, {"mastery", "misused"})
  <2>1. IsClient(done)
    BY <1>2 DEF Same
  <2>2. Same(done, done, {"mastery", "misused"})
    BY <2>1 DEF Same
  <2> QED BY <2>1, <2>2, MasteredEffect
<1> HIDE DEF marked
<1>4. /\ marked.requests = c.requests \ {r} /\ marked.owed = c.owed \ {Key(r)}
      /\ marked.disconnect = c.disconnect /\ marked.ui = c.ui /\ IsClient(marked)
  BY <1>2, <1>3 DEF Same, Fields
<1>5. marked.owed = {Key(x) : x \in marked.requests}
  BY <1>4 DEF Server, Single
<1>6. \A x \in marked.requests : IsRequest(x) /\ (x.waits => x.tries = 2)
  BY <1>4 DEF Server
<1>7. marked.disconnect \in {"hidden", "show", "visible", "hide"} /\ (marked.ui.offline <=> Visible(marked.disconnect))
  BY <1>4 DEF Server
<1>8. Same(c, marked, AnswerFields)
  BY <1>2, <1>3 DEF Same, AnswerFields
<1>9. CASE r.tries > 0
  <2>1. d = UpdateDisconnect(marked)
    BY <1>1, <1>9
  <2>2. Server(d)
    BY <1>4, <1>5, <1>6, <1>7, <2>1, UpdateDisconnectKeeps
  <2>3. Same(marked, d, {"disconnect"})
    BY <1>4, <1>7, <2>1, UpdateDisconnectEffect
  <2> QED BY <1>8, <2>2, <2>3 DEF Same, AnswerFields
<1>10. CASE ~(r.tries > 0)
  <2>1. d = marked
    BY <1>1, <1>10
  <2>2. r.tries = 0
    BY <1>10 DEF Server, IsRequest
  <2>3. Waiting(d) = Waiting(c)
    BY <1>4, <2>1 DEF Waiting
  <2>4. (\A x \in d.requests : x.tries < 2) => \A x \in c.requests : x.tries < 2
    BY <1>4, <2>1, <2>2
  <2> QED BY <1>4, <1>5, <1>6, <1>8, <2>1, <2>3, <2>4 DEF Server
<1> QED BY <1>9, <1>10

\* the fields rc_client_idle may change
IdleFields == {"requests", "timer", "ui", "disconnect"}

(* The popup, once its timer has run out. *)
Elapsed(c, d, elapsed) ==
  IF elapsed THEN d.timer = FALSE /\ d.ui.progress = FALSE ELSE d.timer = c.timer /\ d.ui.progress = c.ui.progress

(* rc_client_idle: of what is due nothing waits any more; the popup goes    *)
(* with its timer.                                                         *)
LEMMA RunDueKeeps ==
  ASSUME NEW c, IsClient(c), Server(c), NEW due, due \subseteq Waiting(c), NEW elapsed, NEW d, d = RunDue(c, due, elapsed)
  PROVE  /\ Same(c, d, IdleFields) /\ SameScreen(c, d, {"offline", "progress"}) /\ Server(d)
         /\ Elapsed(c, d, elapsed)
<1> DEFINE again == {[r EXCEPT !.waits = FALSE] : r \in due}
           R == (c.requests \ due) \cup again
           sent == [c EXCEPT !.requests = R]
           u == [c.ui EXCEPT !.progress = FALSE]
           hidden == IF elapsed THEN [sent EXCEPT !.timer = FALSE, !.ui.progress = FALSE] ELSE sent
<1>1. d = RaiseDisconnect(hidden)
  BY DEF RunDue
<1>2. \A r \in due : r \in c.requests /\ IsRequest(r) /\ r.tries = 2 /\ r.waits
  BY DEF Waiting, Server
<1>3. \A r \in due : LET s == [r EXCEPT !.waits = FALSE]
                     IN  IsRequest(s) /\ Key(s) = Key(r) /\ s.tries = r.tries /\ s.waits = FALSE
  BY <1>2 DEF IsRequest, Key
<1>4. \A s \in again : \E r \in due : IsRequest(s) /\ Key(s) = Key(r) /\ s.tries = r.tries /\ s.waits = FALSE
  BY <1>3
<1>5. \A r \in due : \E s \in again : Key(s) = Key(r) /\ s.tries = r.tries
  BY <1>3
<1> HIDE DEF again
<1>6. {Key(r) : r \in R} = {Key(r) : r \in c.requests}
  BY <1>2, <1>4, <1>5
<1>7. {r \in R : r.waits} \subseteq Waiting(c)
  BY <1>4 DEF Waiting
<1>8. \A r \in R : IsRequest(r) /\ (r.waits => r.tries = 2)
  BY <1>4 DEF Server
<1>9. (\A r \in R : r.tries < 2) => \A r \in c.requests : r.tries < 2
  BY <1>2, <1>5
<1> HIDE DEF R
<1>10. Same(c, sent, {"requests"}) /\ sent.requests = R
  BY DEF IsClient, Same, Fields
<1>11. sent.ui = c.ui /\ sent.timer = c.timer /\ sent.owed = c.owed /\ sent.disconnect = c.disconnect /\ IsClient(sent)
  BY <1>10 DEF Same, Fields
<1> HIDE DEF sent
<1>12. /\ u = [f \in ScreenFields |-> u[f]] /\ u.progress = FALSE
       /\ \A f \in ScreenFields \ {"progress"} : u[f] = c.ui[f]
  BY DEF IsClient, ScreenFields
<1>13. /\ Same(sent, hidden, {"timer", "ui"}) /\ SameScreen(c, hidden, {"progress"})
       /\ elapsed => hidden.timer = FALSE /\ hidden.ui.progress = FALSE
       /\ ~elapsed => hidden.timer = c.timer /\ hidden.ui.progress = c.ui.progress
  <2>1. CASE elapsed
    <3>1. hidden = [sent EXCEPT !.timer = FALSE, !.ui = u]
      BY <1>11, <2>1
    <3> HIDE DEF hidden, u
    <3>2. Same(sent, hidden, {"timer", "ui"}) /\ hidden.ui = u /\ hidden.timer = FALSE
      BY <1>11, <1>12, <3>1 DEF IsClient, Same, Fields
    <3> QED BY <1>12, <2>1, <3>2 DEF SameScreen
  <2>2. CASE ~elapsed
    <3>1. hidden = sent
      BY <2>2
    <3> QED BY <1>11, <2>2, <3>1 DEF Same, SameScreen
  <2> QED BY <2>1, <2>2
<1> HIDE DEF hidden, u
<1>14. /\ IsClient(hidden) /\ hidden.requests = R /\ hidden.owed = c.owed /\ hidden.disconnect = c.disconnect
       /\ hidden.ui.offline = c.ui.offline
  BY <1>10, <1>11, <1>13 DEF Same, SameScreen, Fields, ScreenFields
<1>15. Server(hidden)
  <2>1. hidden.owed = {Key(r) : r \in hidden.requests}
    BY <1>6, <1>14 DEF Server
  <2>2. Waiting(hidden) # {} => Waiting(c) # {}
    BY <1>7, <1>14 DEF Waiting
  <2> QED BY <1>8, <1>9, <1>14, <2>1, <2>2 DEF Server
<1>16. Server(d)
  BY <1>1, <1>14, <1>15, RaiseDisconnectKeeps
<1>17. Same(hidden, d, {"disconnect", "ui"}) /\ SameScreen(hidden, d, {"offline"})
  BY <1>1, <1>14, RaiseDisconnectEffect
<1>18. Same(c, d, IdleFields) /\ SameScreen(c, d, {"offline", "progress"})
  BY <1>10, <1>13, <1>17 DEF Same, SameScreen, IdleFields
<1>19. d.timer = hidden.timer /\ d.ui.progress = hidden.ui.progress
  BY <1>17 DEF Same, SameScreen, Fields, ScreenFields
<1>20. Elapsed(c, d, elapsed)
  BY <1>13, <1>19 DEF Elapsed
<1> QED BY <1>16, <1>18, <1>20

-----------------------------------------------------------------------------
(* Events.                                                                 *)

Spoilt(c, won) == c.hardcore /\ \E i \in won : c.ach[i].carried = "played"
Modes(c) == IF c.hardcore THEN {"softcore", "hardcore"} ELSE {"softcore"}
Awarded(c, won, i) == IF i \in won THEN [c.ach[i] EXCEPT !.state = "unlocked", !.unlocked = @ \cup Modes(c)] ELSE c.ach[i]
AwardedAll(c, won) == [i \in Ach(c) |-> Awarded(c, won, i)]

(* rc_client_award_achievement: the achievements won and the requests for them. *)
LEMMA AwardEffect ==
  ASSUME NEW c, IsClient(c), NEW won, NEW d, d = Award(c, won)
  PROVE  /\ Same(c, d, {"ach", "early", "requests", "owed"})
         /\ d.ach = AwardedAll(c, won)
         /\ c.early = FALSE /\ ~Spoilt(c, won) => d.early = FALSE
         /\ Server(c) => Server(d)
<1> DEFINE ach == AwardedAll(c, won)
           early == c.early \/ (c.hardcore /\ \E i \in won : c.ach[i].carried = "played")
           R == {Request(c, "unlock", i) : i \in {i \in won : c.title.ach[i].category = "core" /\ ~c.spectating}}
           e == [c EXCEPT !.ach = ach, !.early = early]
<1>1. d = Send(e, R)
  BY DEF Award, AwardedAll, Awarded, Modes
<1>2. \A r \in R : IsRequest(r) /\ r.tries = 0 /\ r.waits = FALSE
  BY RequestFacts
<1>3. c.early = FALSE /\ ~Spoilt(c, won) => early = FALSE
  BY DEF Spoilt
<1> HIDE DEF R, ach, early
<1>4. Same(c, e, {"ach", "early"}) /\ e.ach = ach /\ e.early = early
  BY DEF IsClient, Same, Fields
<1> HIDE DEF e
<1>5. IsClient(e) /\ e.ui = c.ui
  BY <1>4 DEF Same, Fields
<1>6. Server(c) => Server(e)
  BY <1>4, <1>5, ServerSame DEF ServerFields
<1>7. Same(e, d, {"requests", "owed"})
  BY <1>1, <1>5, SendEffect
<1>8. Server(e) => Server(d)
  BY <1>1, <1>2, <1>5, SendKeeps
<1>9. d.ach = ach /\ d.early = early
  BY <1>4, <1>7 DEF Same, Fields
<1>10. Same(c, d, {"ach", "early", "requests", "owed"})
  BY <1>4, <1>7 DEF Same
<1> QED BY <1>3, <1>6, <1>8, <1>9, <1>10 DEF ach

(* rc_client_submit_leaderboard_entry: the requests for the entries. *)
LEMMA SubmitEffect ==
  ASSUME NEW c, IsClient(c), NEW entered, NEW d, d = Submit(c, entered)
  PROVE  Same(c, d, {"requests", "owed"}) /\ (Server(c) => Server(d))
<1>1. CASE ~c.hardcore \/ c.spectating
  <2>1. d = c
    BY <1>1 DEF Submit
  <2> QED BY <2>1 DEF Same
<1>2. CASE ~(~c.hardcore \/ c.spectating)
  <2> DEFINE R == {Request(c, "submit", c.title.lb[j].name) : j \in entered}
  <2>1. d = Send(c, R)
    BY <1>2 DEF Submit
  <2>2. \A of : LET r == Request(c, "submit", of) IN IsRequest(r) /\ r.tries = 0 /\ r.waits = FALSE
    BY DEF Request, IsRequest
  <2>3. \A r \in R : IsRequest(r) /\ r.tries = 0 /\ r.waits = FALSE
    BY <2>2
  <2> HIDE DEF R
  <2> QED BY <2>1, <2>3, SendEffect, SendKeeps
<1> QED BY <1>1, <1>2

(* What the events of the trackers show. *)
Seen(c, k) ==
  LET t == c.trackers[k]
  IN  CASE t.pending \cap {"hide", "show"} = {"hide"} -> None
        [] "hide" \notin t.pending /\ t.pending # {}  -> t.raw
        [] OTHER -> c.ui.trackers[k]
Told(a) == [a EXCEPT !.pending = {}]
ToldAll(list) == [n \in DOMAIN list |-> Told(list[n])]
SeenAll(c) == [k \in DOMAIN c.ui.trackers |-> Seen(c, k)]

(* rc_client_raise_leaderboard_tracker_events: the trackers and those seen. *)
LEMMA RaiseTrackersEffect ==
  ASSUME NEW c, IsClient(c), NEW d, d = RaiseTrackers(c)
  PROVE  /\ Same(c, d, {"ui", "trackers"}) /\ SameScreen(c, d, {"trackers"})
         /\ d.trackers = ToldAll(c.trackers)
         /\ d.ui.trackers = SeenAll(c)
<1> DEFINE trackers == ToldAll(c.trackers)
           shown == SeenAll(c)
           u == [c.ui EXCEPT !.trackers = shown]
<1>1. d = [c EXCEPT !.ui = u, !.trackers = trackers]
  BY DEF RaiseTrackers, SeenAll, Seen, ToldAll, Told
<1> HIDE DEF trackers, shown
<1>2. /\ u = [f \in ScreenFields |-> u[f]] /\ u.trackers = shown
      /\ \A f \in ScreenFields \ {"trackers"} : u[f] = c.ui[f]
  BY DEF IsClient, ScreenFields
<1> HIDE DEF u
<1>3. Same(c, d, {"ui", "trackers"}) /\ d.trackers = trackers /\ d.ui = u
  BY <1>1, <1>2 DEF IsClient, Same, Fields
<1>4. SameScreen(c, d, {"trackers"}) /\ d.ui.trackers = shown
  BY <1>2, <1>3 DEF SameScreen
<1> QED BY <1>3, <1>4 DEF trackers, shown

(* rc_client_raise_achievement_events: the achievements, their requests, the challenges. *)
LEMMA RaiseAchievementsEffect ==
  ASSUME NEW c, IsClient(c), NEW d, d = RaiseAchievements(c), NEW won, won = Raised(c, "triggered")
  PROVE  /\ Same(c, d, {"ach", "early", "requests", "owed", "ui"}) /\ SameScreen(c, d, {"challenges"})
         /\ d.ach = ToldAll(AwardedAll(c, won))
         /\ d.ui.challenges = (c.ui.challenges \cup Raised(c, "show")) \ Raised(c, "hide")
         /\ c.early = FALSE /\ ~Spoilt(c, won) => d.early = FALSE
         /\ Server(c) => Server(d)
<1> DEFINE awarded == Award(c, won)
           ach == ToldAll(awarded.ach)
           challenges == (c.ui.challenges \cup Raised(c, "show")) \ Raised(c, "hide")
           u == [c.ui EXCEPT !.challenges = challenges]
<1>1. /\ Same(c, awarded, {"ach", "early", "requests", "owed"})
      /\ awarded.ach = AwardedAll(c, won)
      /\ c.early = FALSE /\ ~Spoilt(c, won) => awarded.early = FALSE
      /\ Server(c) => Server(awarded)
  BY AwardEffect
<1>2. IsClient(awarded) /\ awarded.ui = c.ui
  BY <1>1 DEF Same, Fields
<1>3. d = [awarded EXCEPT !.ach = ach, !.ui.challenges = (awarded.ui.challenges \cup Raised(c, "show")) \ Raised(c, "hide")]
  <2>1. Ach(c) = DOMAIN awarded.ach
    BY <1>1 DEF AwardedAll
  <2>2. d = [awarded EXCEPT !.ach = [i \in Ach(c) |-> Told(awarded.ach[i])],
                            !.ui.challenges = (awarded.ui.challenges \cup Raised(c, "show")) \ Raised(c, "hide")]
    BY DEF RaiseAchievements, Raised, Told
  <2> QED BY <2>1, <2>2 DEF ToldAll
<1>4. ach = ToldAll(AwardedAll(c, won))
  BY <1>1
<1> HIDE DEF awarded, ach
<1>5. d = [awarded EXCEPT !.ach = ach, !.ui = u]
  BY <1>2, <1>3 DEF IsClient, Fields
<1> HIDE DEF challenges
<1>6. /\ u = [f \in ScreenFields |-> u[f]] /\ u.challenges = challenges
      /\ \A f \in ScreenFields \ {"challenges"} : u[f] = c.ui[f]
  BY DEF IsClient, ScreenFields
<1> HIDE DEF u
<1>7. Same(awarded, d, {"ui", "ach"}) /\ d.ach = ach /\ d.ui = u
  BY <1>2, <1>5, <1>6 DEF IsClient, Same, Fields
<1>8. SameScreen(c, d, {"challenges"}) /\ d.ui.challenges = challenges
  BY <1>6, <1>7 DEF SameScreen
<1>9. d.ui.offline = awarded.ui.offline
  BY <1>2, <1>8 DEF SameScreen, ScreenFields
<1>10. Server(awarded) => Server(d)
  BY <1>7, <1>9, ServerSame DEF ServerFields
<1>11. d.early = awarded.early
  BY <1>7 DEF Same, Fields
<1>12. Same(c, d, {"ach", "early", "requests", "owed", "ui"})
  BY <1>1, <1>7 DEF Same
<1> QED BY <1>1, <1>4, <1>7, <1>8, <1>10, <1>11, <1>12 DEF challenges

(* rc_client_raise_leaderboard_events: the leaderboards and their requests. *)
LEMMA RaiseLeaderboardsEffect ==
  ASSUME NEW c, IsClient(c), NEW d, d = RaiseLeaderboards(c)
  PROVE  /\ Same(c, d, {"lb", "requests", "owed"}) /\ (Server(c) => Server(d))
         /\ d.lb = ToldAll(c.lb)
<1> DEFINE entered == Submit(c, {j \in Lb(c) : "submitted" \in c.lb[j].pending /\ "failed" \notin c.lb[j].pending})
           lb == ToldAll(c.lb)
<1>1. d = [entered EXCEPT !.lb = lb]
  BY DEF RaiseLeaderboards, ToldAll, Told, Lb
<1>2. Same(c, entered, {"requests", "owed"}) /\ (Server(c) => Server(entered))
  BY SubmitEffect
<1> HIDE DEF entered, lb
<1>3. IsClient(entered)
  BY <1>2 DEF Same
<1>4. Same(entered, d, {"lb"}) /\ d.lb = lb
  BY <1>1, <1>3 DEF IsClient, Same, Fields
<1>5. d.ui = entered.ui
  BY <1>4 DEF Same, Fields
<1>6. Server(entered) => Server(d)
  BY <1>4, <1>5, ServerSame DEF ServerFields
<1>7. Same(c, d, {"lb", "requests", "owed"})
  BY <1>2, <1>4 DEF Same
<1> QED BY <1>2, <1>4, <1>6, <1>7 DEF lb

(* rc_client_raise_mastery_event: at most the subsets. *)
LEMMA RaiseMasteryEffect ==
  ASSUME NEW c, IsClient(c), NEW there, NEW d, d = RaiseMastery(c, there)
  PROVE  Same(c, d, {"mastery", "misused"})
<1>1. CASE \A s \in DOMAIN c.mastery : c.mastery[s] # "pending"
  <2>1. d = c
    BY <1>1 DEF RaiseMastery
  <2> QED BY <2>1 DEF Same
<1>2. CASE ~(\A s \in DOMAIN c.mastery : c.mastery[s] # "pending") /\ there
  <2> DEFINE marked == [s \in DOMAIN c.mastery |-> IF c.mastery[s] = "pending" THEN "shown" ELSE c.mastery[s]]
  <2>1. d = [c EXCEPT !.mastery = marked]
    BY <1>2 DEF RaiseMastery
  <2> HIDE DEF marked
  <2> QED BY <2>1 DEF IsClient, Same, Fields
<1>3. CASE ~(\A s \in DOMAIN c.mastery : c.mastery[s] # "pending") /\ ~there
  <2>1. d = Misuse(c)
    BY <1>3 DEF RaiseMastery
  <2> QED BY <2>1 DEF Misuse, IsClient, Same, Fields
<1> QED BY <1>1, <1>2, <1>3

(* rc_client_raise_progress_tracker_events: the popup. *)
LEMMA RaiseProgressEffect ==
  ASSUME NEW c, IsClient(c), Popup(c), NEW d, d = RaiseProgress(c)
  PROVE  /\ Same(c, d, {"action", "ui"}) /\ SameScreen(c, d, {"progress"})
         /\ d.action = "none" /\ d.ui.progress = d.timer
<1>1. CASE c.action = "none"
  <2>1. d = c
    BY <1>1 DEF RaiseProgress
  <2> QED BY <1>1, <2>1 DEF Same, SameScreen, Popup
<1>2. CASE c.action # "none"
  <2> DEFINE shown == c.action # "hide"
             u == [c.ui EXCEPT !.progress = shown]
  <2>1. d = [c EXCEPT !.action = "none", !.ui = u]
    BY <1>2 DEF RaiseProgress
  <2>2. c.timer = shown
    BY <1>2 DEF Popup
  <2> HIDE DEF shown
  <2>3. /\ u = [f \in ScreenFields |-> u[f]] /\ u.progress = shown
        /\ \A f \in ScreenFields \ {"progress"} : u[f] = c.ui[f]
    BY DEF IsClient, ScreenFields
  <2> HIDE DEF u
  <2>4. Same(c, d, {"action", "ui"}) /\ d.action = "none" /\ d.ui = u
    BY <2>1, <2>3 DEF IsClient, Same, Fields
  <2>5. d.timer = c.timer
    BY <2>4 DEF Same, Fields
  <2>6. SameScreen(c, d, {"progress"})
    BY <2>3, <2>4 DEF SameScreen
  <2> QED BY <2>2, <2>3, <2>4, <2>5, <2>6
<1> QED BY <1>1, <1>2

\* the fields the events may change
EventFields == {"ach", "early", "requests", "owed", "ui", "trackers", "lb", "mastery", "misused", "action", "listed"}

(* What they leave. *)
EventsRaised(c, d, won) ==
  /\ Same(c, d, EventFields) /\ SameScreen(c, d, {"trackers", "challenges", "progress"})
  /\ d.trackers = ToldAll(c.trackers) /\ d.ui.trackers = SeenAll(c) /\ d.lb = ToldAll(c.lb)
  /\ d.ach = ToldAll(AwardedAll(c, won))
  /\ d.ui.challenges = (c.ui.challenges \cup Raised(c, "show")) \ Raised(c, "hide")
  /\ c.early = FALSE /\ ~Spoilt(c, won) => d.early = FALSE
  /\ d.action = "none" /\ d.ui.progress = d.timer
  /\ won # {} => d.listed = Active(d)
  /\ won = {} => d.listed = c.listed
  /\ Server(c) => Server(d)

(* rc_client_raise_pending_events: what it shows and sends, and that no event is pending then. *)
LEMMA RaisePendingEffect ==
  ASSUME NEW c, IsClient(c), Popup(c), NEW there, NEW d, d = RaisePending(c, there), NEW won, won = Raised(c, "triggered")
  PROVE  EventsRaised(c, d, won)
<1>1. PICK t : t = RaiseTrackers(c)
  OBVIOUS
<1>2. PICK a : a = RaiseAchievements(t)
  OBVIOUS
<1>3. PICK l : l = RaiseLeaderboards(a)
  OBVIOUS
<1>4. PICK m : m = RaiseMastery(l, there)
  OBVIOUS
<1>5. PICK p : p = RaiseProgress(m)
  OBVIOUS
<1>6. d = IF won # {} THEN UpdateActive(p) ELSE p
  <2>1. d = IF \E i \in Ach(c) : "triggered" \in c.ach[i].pending THEN UpdateActive(p) ELSE p
    BY <1>1, <1>2, <1>3, <1>4, <1>5 DEF RaisePending
  <2>2. won # {} <=> \E i \in Ach(c) : "triggered" \in c.ach[i].pending
    BY DEF Raised
  <2> QED BY <2>1, <2>2
<1>7. /\ Same(c, t, {"ui", "trackers"}) /\ SameScreen(c, t, {"trackers"})
      /\ t.trackers = ToldAll(c.trackers) /\ t.ui.trackers = SeenAll(c)
  BY <1>1, RaiseTrackersEffect
<1>8. /\ IsClient(t) /\ t.ach = c.ach /\ t.hardcore = c.hardcore /\ t.early = c.early /\ t.lb = c.lb
      /\ t.ui.challenges = c.ui.challenges /\ t.ui.offline = c.ui.offline
  BY <1>7 DEF Same, SameScreen, Fields, ScreenFields
<1>9. /\ \A event : Raised(t, event) = Raised(c, event)
      /\ AwardedAll(t, won) = AwardedAll(c, won)
      /\ Spoilt(t, won) <=> Spoilt(c, won)
  BY <1>8 DEF Raised, Ach, AwardedAll, Awarded, Modes, Spoilt
<1>10. Server(c) => Server(t)
  BY <1>7, <1>8, ServerSame DEF ServerFields
<1>11. /\ Same(t, a, {"ach", "early", "requests", "owed", "ui"}) /\ SameScreen(t, a, {"challenges"})
       /\ a.ach = ToldAll(AwardedAll(t, won))
       /\ a.ui.challenges = (t.ui.challenges \cup Raised(t, "show")) \ Raised(t, "hide")
       /\ t.early = FALSE /\ ~Spoilt(t, won) => a.early = FALSE
       /\ Server(t) => Server(a)
  <2>1. won = Raised(t, "triggered")
    BY <1>9
  <2> QED BY <1>2, <1>8, <2>1, RaiseAchievementsEffect
<1>12. IsClient(a) /\ a.lb = c.lb
  BY <1>8, <1>11 DEF Same, Fields
<1>13. Same(a, l, {"lb", "requests", "owed"}) /\ (Server(a) => Server(l)) /\ l.lb = ToldAll(a.lb)
  BY <1>3, <1>12, RaiseLeaderboardsEffect
<1>14. IsClient(l)
  BY <1>13 DEF Same
<1>15. Same(l, m, {"mastery", "misused"})
  BY <1>4, <1>14, RaiseMasteryEffect
<1>16. /\ IsClient(m) /\ m.timer = c.timer /\ m.action = c.action /\ m.ui = a.ui /\ m.ui.progress = c.ui.progress
       /\ m.ui.offline = l.ui.offline
  BY <1>7, <1>11, <1>13, <1>15 DEF Same, SameScreen, Fields, ScreenFields
<1>17. Server(l) => Server(m)
  BY <1>15, <1>16, ServerSame DEF ServerFields
<1>18. /\ Same(m, p, {"action", "ui"}) /\ SameScreen(m, p, {"progress"})
       /\ p.action = "none" /\ p.ui.progress = p.timer
  <2>1. Popup(m)
    BY <1>16 DEF Popup
  <2> QED BY <1>5, <1>16, <2>1, RaiseProgressEffect
<1>19. IsClient(p) /\ p.ui.offline = m.ui.offline
  BY <1>18 DEF Same, SameScreen, ScreenFields
<1>20. Server(m) => Server(p)
  BY <1>18, <1>19, ServerSame DEF ServerFields
<1>21. /\ Same(c, p, EventFields) /\ p.listed = c.listed
  <2>1. Same(c, a, EventFields) /\ a.listed = c.listed
    BY <1>7, <1>11 DEF Same, EventFields, Fields
  <2>2. Same(c, m, EventFields) /\ m.listed = c.listed
    BY <1>13, <1>15, <2>1 DEF Same, EventFields, Fields
  <2> QED BY <1>18, <2>2 DEF Same, EventFields, Fields
<1>22. SameScreen(c, p, {"trackers", "challenges", "progress"})
  BY <1>7, <1>11, <1>16, <1>18 DEF SameScreen
<1>23. p.trackers = ToldAll(c.trackers) /\ p.ui.trackers = SeenAll(c)
  BY <1>7, <1>11, <1>13, <1>15, <1>16, <1>18 DEF Same, SameScreen, Fields, ScreenFields
<1>24. p.lb = ToldAll(c.lb)
  BY <1>12, <1>13, <1>15, <1>18 DEF Same, Fields
<1>25. p.ach = ToldAll(AwardedAll(c, won)) /\ (c.early = FALSE /\ ~Spoilt(c, won) => p.early = FALSE)
  BY <1>8, <1>9, <1>11, <1>13, <1>15, <1>18 DEF Same, Fields
<1>26. p.ui.challenges = (c.ui.challenges \cup Raised(c, "show")) \ Raised(c, "hide")
  BY <1>8, <1>9, <1>11, <1>16, <1>18 DEF SameScreen, ScreenFields
<1>27. Server(c) => Server(p)
  BY <1>10, <1>11, <1>13, <1>17, <1>20
<1>28. CASE won = {}
  <2>1. d = p
    BY <1>6, <1>28
  <2> QED BY <1>18, <1>21, <1>22, <1>23, <1>24, <1>25, <1>26, <1>27, <1>28, <2>1 DEF EventsRaised
<1>29. CASE won # {}
  <2>1. d = [p EXCEPT !.listed = Active(p)]
    BY <1>6, <1>29 DEF UpdateActive
  <2>2. PICK s : s = Active(p)
    OBVIOUS
  <2>3. Same(p, d, {"listed"}) /\ d.listed = s
    BY <1>19, <2>1, <2>2 DEF IsClient, Same, Fields
  <2>4. /\ d.ach = p.ach /\ d.trackers = p.trackers /\ d.lb = p.lb /\ d.ui = p.ui /\ d.early = p.early /\ d.action = p.action
        /\ d.timer = p.timer
    BY <2>3 DEF Same, Fields
  <2>5. d.listed = Active(d)
    BY <2>2, <2>3, <2>4 DEF Active, Ach
  <2>6. Same(c, d, EventFields)
    BY <1>21, <2>3 DEF Same, EventFields
  <2>7. SameScreen(c, d, {"trackers", "challenges", "progress"})
    BY <1>22, <2>4 DEF SameScreen
  <2>8. Server(p) => Server(d)
    BY <2>3, <2>4, ServerSame DEF ServerFields
  <2> QED BY <1>18, <1>23, <1>24, <1>25, <1>26, <1>27, <1>29, <2>4, <2>5, <2>6, <2>7, <2>8 DEF EventsRaised
<1> QED BY <1>28, <1>29

(* The events of the achievements: what has triggered is unlocked, and the *)
(* challenges shown are those primed.                                      *)
LEMMA RaisedAchievements ==
  ASSUME NEW c, Achievements(c), NEW won, won = Raised(c, "triggered"), NEW d,
         d.ach = ToldAll(AwardedAll(c, won)),
         d.hardcore = c.hardcore, d.encore = c.encore, d.waiting = c.waiting, d.odd = c.odd,
         c.early = FALSE /\ ~Spoilt(c, won) => d.early = FALSE,
         won # {} => d.listed = Active(d),
         won = {} => d.listed = c.listed,
         d.ui.challenges = (c.ui.challenges \cup Raised(c, "show")) \ Raised(c, "hide")
  PROVE  Achievements(d) /\ Ach(d) = Ach(c) /\ \A i \in Ach(d) : d.ach[i].pending = {}
<1>1. Ach(d) = Ach(c)
  BY DEF Ach, ToldAll, AwardedAll
<1>2. \A i \in Ach(c) : d.ach[i] = Told(Awarded(c, won, i))
  BY <1>1 DEF Ach, ToldAll, AwardedAll
<1>3. Mode(d) = Mode(c) /\ Mode(c) \in Modes(c) /\ Modes(c) \subseteq {"softcore", "hardcore"}
  BY DEF Mode, Modes
<1>4. \A i \in Ach(c) : c.ach[i] \in AchievementType /\ AsPlayed(c, i) /\ Wins(c, i)
  BY DEF Achievements
<1>5. ASSUME NEW i \in Ach(c), i \in won
      PROVE  /\ d.ach[i] \in AchievementType /\ d.ach[i].pending = {} /\ AsPlayed(d, i)
             /\ d.ach[i].state = "unlocked" /\ c.ach[i].state = "active" /\ c.ach[i].trigger # "primed"
             /\ (c.hardcore => c.ach[i].carried # "played")
  <2>1. c.ach[i] \in AchievementType /\ Wins(c, i) /\ "triggered" \in c.ach[i].pending
    BY <1>4, <1>5 DEF Raised
  <2>2. PICK w : w = [c.ach[i] EXCEPT !.state = "unlocked", !.unlocked = @ \cup Modes(c)]
    OBVIOUS
  <2>3. /\ d.ach[i] \in AchievementType /\ d.ach[i].pending = {} /\ d.ach[i].state = "unlocked"
        /\ d.ach[i].unlocked = c.ach[i].unlocked \cup Modes(c)
    <3>1. w \in AchievementType /\ w.state = "unlocked" /\ w.unlocked = c.ach[i].unlocked \cup Modes(c)
      <4>1. c.ach[i].unlocked \cup Modes(c) \in SUBSET {"softcore", "hardcore"}
        BY <1>3, <2>1 DEF AchievementType
      <4> QED BY <2>1, <2>2, <4>1 DEF AchievementType
    <3>2. d.ach[i] = [w EXCEPT !.pending = {}]
      BY <1>2, <1>5, <2>2 DEF Told, Awarded
    <3> QED BY <3>1, <3>2 DEF AchievementType
  <2>4. UnlockBit(d, i)
    BY <1>3, <2>3 DEF UnlockBit
  <2> QED BY <2>1, <2>3, <2>4 DEF AsPlayed, Wins
<1>6. ASSUME NEW i \in Ach(c), i \notin won
      PROVE  /\ d.ach[i] \in AchievementType /\ d.ach[i].pending = {} /\ AsPlayed(d, i)
             /\ d.ach[i].state = c.ach[i].state /\ d.ach[i].trigger = c.ach[i].trigger
             /\ d.ach[i].carried = c.ach[i].carried
  <2>1. c.ach[i] \in AchievementType /\ AsPlayed(c, i)
    BY <1>4
  <2>2. d.ach[i] = [c.ach[i] EXCEPT !.pending = {}]
    BY <1>2, <1>6 DEF Told, Awarded
  <2>3. /\ d.ach[i] \in AchievementType /\ d.ach[i].pending = {} /\ d.ach[i].unlocked = c.ach[i].unlocked
        /\ d.ach[i].state = c.ach[i].state /\ d.ach[i].trigger = c.ach[i].trigger
    BY <2>1, <2>2 DEF AchievementType
  <2>4. d.ach[i].carried = c.ach[i].carried
    BY <2>1, <2>2 DEF AchievementType
  <2>5. AsPlayed(d, i)
    BY <1>3, <2>1, <2>3 DEF AsPlayed, UnlockBit
  <2> QED BY <2>3, <2>4, <2>5
<1>7. \A i \in Ach(d) : d.ach[i] \in AchievementType /\ AsPlayed(d, i) /\ Wins(d, i) /\ d.ach[i].pending = {}
  <2>1. \A i \in Ach(d) : d.ach[i] \in AchievementType /\ AsPlayed(d, i) /\ d.ach[i].pending = {}
    BY <1>1, <1>5, <1>6
  <2> QED BY <2>1 DEF Wins
<1>8. Active(d) = Active(c) \ won
  BY <1>1, <1>5, <1>6 DEF Active
<1>9. Primed(d) = Primed(c)
  BY <1>1, <1>5, <1>6, <1>8 DEF Primed, Active
<1>10. d.listed = Active(d)
  BY <1>8 DEF Achievements
<1>11. Clean(d)
  <2>1. won \subseteq Ach(c)
    BY DEF Raised
  <2>2. ~Spoilt(c, won)
    BY <1>5, <2>1 DEF Spoilt
  <2>3. d.early = FALSE
    BY <2>2 DEF Achievements, Clean
  <2>4. c.hardcore /\ ~c.waiting => \A i \in Active(c) : c.ach[i].carried # "played"
    BY DEF Achievements, Clean
  <2>5. \A i \in Active(d) : i \in Active(c) /\ i \in Ach(c) /\ i \notin won
    BY <1>8 DEF Active
  <2>6. d.hardcore /\ ~d.waiting => \A i \in Active(d) : d.ach[i].carried # "played"
    BY <1>6, <2>4, <2>5
  <2> QED BY <2>3, <2>6 DEF Clean
<1>12. Challenges(d)
  <2>1. Raised(d, "show") = {} /\ Raised(d, "hide") = {}
    BY <1>7 DEF Raised
  <2> QED BY <1>9, <2>1 DEF Achievements, Challenges
<1> QED BY <1>1, <1>7, <1>10, <1>11, <1>12 DEF Achievements

-----------------------------------------------------------------------------
(* The achievements.                                                       *)

(* What changes none of their fields keeps what is said of them. *)
LEMMA AchievementsSame ==
  ASSUME NEW c, NEW d, Achievements(c), d.ach = c.ach, d.listed = c.listed, d.encore = c.encore, d.hardcore = c.hardcore,
         d.waiting = c.waiting, d.early = c.early, d.ui.challenges = c.ui.challenges, ~d.odd => ~c.odd
  PROVE  Achievements(d)
<1>1. Ach(d) = Ach(c) /\ Active(d) = Active(c) /\ Primed(d) = Primed(c) /\ \A event : Raised(d, event) = Raised(c, event)
  BY DEF Ach, Active, Primed, Raised
<1>2. \A i \in Ach(d) : d.ach[i] \in AchievementType /\ AsPlayed(d, i) /\ Wins(d, i)
  BY <1>1 DEF Achievements, AsPlayed, UnlockBit, Mode, Wins
<1>3. Clean(d) /\ Challenges(d)
  BY <1>1 DEF Achievements, Clean, Challenges
<1> QED BY <1>1, <1>2, <1>3 DEF Achievements

(* Achievements of which no event is pending. *)
AtRest(c) ==
  /\ \A i \in Ach(c) : c.ach[i] \in AchievementType /\ c.ach[i].pending = {}
  /\ c.early = FALSE
  /\ ~c.odd => c.ui.challenges = Primed(c)

(* Without pending events the achievements are at rest. *)
LEMMA AtRestFacts ==
  ASSUME NEW c, \A i \in Ach(c) : c.ach[i].pending = {}
  PROVE  /\ Achievements(c) => AtRest(c)
         /\ AtRest(c) /\ (\A i \in Ach(c) : AsPlayed(c, i)) /\ c.listed = Active(c) /\ Clean(c) => Achievements(c)
<1>1. Raised(c, "show") = {} /\ Raised(c, "hide") = {} /\ \A i \in Ach(c) : Wins(c, i)
  BY DEF Raised, Wins
<1> QED BY <1>1 DEF Achievements, AtRest, Challenges, Clean

ToggledAll(c, mode) == [i \in Ach(c) |-> ToggleAchievement(c, i, mode)]
Closed(c, mode) == {i \in Ach(c) : Deactivates(c, i, mode) /\ c.ach[i].trigger = "primed"}

(* rc_client_toggle_hardcore_achievements: the achievements and the challenges. *)
LEMMA ToggleAchievementsEffect ==
  ASSUME NEW c, IsClient(c), NEW mode, NEW d, d = ToggleAchievements(c, mode)
  PROVE  /\ Same(c, d, {"ach", "ui", "listed"}) /\ SameScreen(c, d, {"challenges"})
         /\ d.ach = ToggledAll(c, mode) /\ d.ui.challenges = c.ui.challenges \ Closed(c, mode)
         /\ d.listed = Active(d)
<1> DEFINE ach == ToggledAll(c, mode)
           challenges == c.ui.challenges \ Closed(c, mode)
           u == [c.ui EXCEPT !.challenges = challenges]
           e == [c EXCEPT !.ach = ach, !.ui = u]
<1>1. d = [e EXCEPT !.listed = Active(e)]
  BY DEF ToggleAchievements, UpdateActive, ToggledAll, Closed
<1> HIDE DEF ach, challenges
<1>2. /\ u = [f \in ScreenFields |-> u[f]] /\ u.challenges = challenges
      /\ \A f \in ScreenFields \ {"challenges"} : u[f] = c.ui[f]
  BY DEF IsClient, ScreenFields
<1> HIDE DEF u
<1>3. Same(c, e, {"ach", "ui"}) /\ e.ach = ach /\ e.ui = u
  BY <1>2 DEF IsClient, Same, Fields
<1> HIDE DEF e
<1>4. PICK s : s = Active(e)
  OBVIOUS
<1>5. Same(e, d, {"listed"}) /\ d.listed = s
  BY <1>1, <1>3, <1>4 DEF IsClient, Same, Fields
<1>6. d.ach = e.ach /\ d.ui = e.ui
  BY <1>5 DEF Same, Fields
<1>7. d.listed = Active(d)
  BY <1>4, <1>5, <1>6 DEF Active, Ach
<1>8. Same(c, d, {"ach", "ui", "listed"})
  BY <1>3, <1>5 DEF Same
<1>9. SameScreen(c, d, {"challenges"})
  BY <1>2, <1>3, <1>6 DEF SameScreen
<1> QED BY <1>2, <1>3, <1>6, <1>7, <1>8, <1>9 DEF ach, challenges

(* Switched to its mode, an achievement is as it says. *)
LEMMA ToggledAchievements ==
  ASSUME NEW c, IsClient(c), AtRest(c), NEW mode, ~c.encore => mode = Mode(c), NEW d, d = ToggleAchievements(c, mode)
  PROVE  /\ Same(c, d, {"ach", "ui", "listed"}) /\ SameScreen(c, d, {"challenges"}) /\ Ach(d) = Ach(c)
         /\ AtRest(d) /\ d.listed = Active(d)
         /\ \A i \in Ach(d) : AsPlayed(d, i) /\ (c.ach[i].carried # "played" => d.ach[i].carried # "played")
<1>1. /\ Same(c, d, {"ach", "ui", "listed"}) /\ SameScreen(c, d, {"challenges"})
      /\ d.ach = ToggledAll(c, mode) /\ d.ui.challenges = c.ui.challenges \ Closed(c, mode)
      /\ d.listed = Active(d)
  BY ToggleAchievementsEffect
<1>2. Ach(d) = Ach(c) /\ \A i \in Ach(c) : d.ach[i] = ToggleAchievement(c, i, mode)
  BY <1>1 DEF Ach, ToggledAll
<1>3. d.encore = c.encore /\ d.hardcore = c.hardcore /\ d.odd = c.odd /\ d.early = c.early /\ Mode(d) = Mode(c)
  BY <1>1 DEF Same, Fields, Mode
<1>4. ASSUME NEW i \in Ach(c)
      PROVE  /\ d.ach[i] \in AchievementType /\ d.ach[i].pending = {} /\ AsPlayed(d, i)
             /\ c.ach[i].carried # "played" => d.ach[i].carried # "played"
             /\ i \in Primed(d) <=> i \in Primed(c) /\ ~Deactivates(c, i, mode)
  <2>1. c.ach[i] \in AchievementType /\ c.ach[i].pending = {} /\ i \in Ach(d)
    BY <1>2 DEF AtRest
  <2>2. CASE Activates(c, i, mode)
    <3>1. PICK w : w = ResetTrigger(c, i)
      OBVIOUS
    <3>2. d.ach[i] = [w EXCEPT !.state = "active"]
      BY <1>2, <2>2, <3>1 DEF ToggleAchievement
    <3>3. /\ w \in AchievementType /\ w.pending = {} /\ w.trigger = "waiting" /\ w.carried # "played"
          /\ w.unlocked = c.ach[i].unlocked
      BY <2>1, <3>1 DEF ResetTrigger, AchievementType
    <3>4. /\ d.ach[i] \in AchievementType /\ d.ach[i].pending = {} /\ d.ach[i].trigger = "waiting"
          /\ d.ach[i].unlocked = c.ach[i].unlocked /\ d.ach[i].state = "active"
      BY <3>2, <3>3 DEF AchievementType
    <3>5. d.ach[i].carried # "played"
      BY <3>2, <3>3 DEF AchievementType
    <3>6. mode \notin c.ach[i].unlocked /\ c.ach[i].state # "active" /\ ~Deactivates(c, i, mode)
      BY <2>2 DEF Activates, Deactivates
    <3>7. AsPlayed(d, i)
      BY <1>3, <3>4, <3>6 DEF AsPlayed, UnlockBit
    <3>8. i \notin Primed(d) /\ i \notin Primed(c)
      BY <2>1, <3>4, <3>6 DEF Primed, Active
    <3> QED BY <3>4, <3>5, <3>7, <3>8
  <2>3. CASE ~Activates(c, i, mode) /\ Deactivates(c, i, mode)
    <3>1. d.ach[i] = [c.ach[i] EXCEPT !.state = "unlocked", !.trigger = "triggered"]
      BY <1>2, <2>3 DEF ToggleAchievement
    <3>2. /\ d.ach[i] \in AchievementType /\ d.ach[i].pending = {} /\ d.ach[i].trigger = "triggered"
          /\ d.ach[i].unlocked = c.ach[i].unlocked /\ d.ach[i].state = "unlocked"
      BY <2>1, <3>1 DEF AchievementType
    <3>3. d.ach[i].carried = c.ach[i].carried
      BY <2>1, <3>1 DEF AchievementType
    <3>4. mode \in c.ach[i].unlocked
      BY <2>3 DEF Deactivates
    <3>5. AsPlayed(d, i)
      BY <1>3, <3>2, <3>4 DEF AsPlayed, UnlockBit
    <3>6. i \notin Primed(d)
      BY <3>2 DEF Primed, Active
    <3> QED BY <2>3, <3>2, <3>3, <3>5, <3>6
  <2>4. CASE ~Activates(c, i, mode) /\ ~Deactivates(c, i, mode)
    <3>1. d.ach[i] = c.ach[i]
      BY <1>2, <2>4 DEF ToggleAchievement
    <3>2. i \in Primed(d) <=> i \in Primed(c)
      BY <1>2, <3>1 DEF Primed, Active
    <3>3. AsPlayed(d, i)
      <4>1. c.ach[i].state \in {"inactive", "active", "unlocked", "disabled"}
        BY <2>1 DEF AchievementType
      <4>2. ASSUME ~c.encore PROVE c.ach[i].state \in {"disabled", IF Mode(c) \in c.ach[i].unlocked THEN "unlocked" ELSE "active"}
        BY <2>4, <4>1, <4>2 DEF Activates, Deactivates
      <4> QED BY <1>3, <3>1, <4>2 DEF AsPlayed, UnlockBit
    <3> QED BY <2>1, <2>4, <3>1, <3>2, <3>3
  <2> QED BY <2>2, <2>3, <2>4
<1>5. ~d.odd => d.ui.challenges = Primed(d)
  <2>1. SUFFICES ASSUME ~c.odd PROVE d.ui.challenges = Primed(d)
    BY <1>3
  <2>2. d.ui.challenges = Primed(c) \ Closed(c, mode)
    BY <1>1, <2>1 DEF AtRest
  <2>3. Primed(c) \subseteq Ach(c) /\ Primed(d) \subseteq Ach(c)
    BY <1>2 DEF Primed, Active
  <2>4. \A i \in Primed(c) : i \in Closed(c, mode) <=> Deactivates(c, i, mode)
    BY <2>3 DEF Closed, Primed
  <2> QED BY <1>4, <2>2, <2>3, <2>4
<1>6. AtRest(d)
  BY <1>2, <1>3, <1>4, <1>5 DEF AtRest
<1> QED BY <1>1, <1>2, <1>4, <1>6

(* What becomes of those that read an address that is not there. *)
LostAch(c, lost) ==
  [i \in Ach(c) |-> IF c.title.ach[i].mem \in lost THEN [c.ach[i] EXCEPT !.state = "disabled", !.trigger = "disabled"]
                    ELSE c.ach[i]]
LostLb(c, lost) ==
  [j \in Lb(c) |-> IF c.title.lb[j].mem \in lost THEN [c.lb[j] EXCEPT !.state = "disabled", !.run = "disabled"] ELSE c.lb[j]]
LostShown(c, lost) ==
  \/ \E i \in Active(c) : c.title.ach[i].mem \in lost /\ c.ach[i].trigger = "primed"
  \/ \E j \in Lb(c) : c.title.lb[j].mem \in lost /\ c.lb[j].state = "tracking"

(* What reads memory that is not there: the achievements and the leaderboards. *)
LEMMA InvalidateEffect ==
  ASSUME NEW c, IsClient(c), NEW lost, NEW d, d = Invalidate(c, lost)
  PROVE  /\ Same(c, d, {"ach", "lb", "invalid", "odd"})
         /\ d.ach = LostAch(c, lost) /\ d.lb = LostLb(c, lost)
         /\ ~d.odd => ~c.odd /\ ~LostShown(c, lost)
<1> DEFINE ach == LostAch(c, lost)
           lb == LostLb(c, lost)
           odd == c.odd \/ LostShown(c, lost)
<1>1. d = [c EXCEPT !.ach = ach, !.lb = lb, !.invalid = c.invalid \cup lost, !.odd = odd]
  BY DEF Invalidate, LostAch, LostLb, LostShown
<1>2. ~odd => ~c.odd /\ ~LostShown(c, lost)
  OBVIOUS
<1> HIDE DEF ach, lb, odd
<1>3. Same(c, d, {"ach", "lb", "invalid", "odd"}) /\ d.ach = ach /\ d.lb = lb /\ d.odd = odd
  BY <1>1 DEF IsClient, Same, Fields
<1> QED BY <1>2, <1>3 DEF ach, lb

(* They are disabled, and the rest is as it was. *)
LEMMA LostAchievements ==
  ASSUME NEW c, AtRest(c), NEW lost, NEW d, d.ach = LostAch(c, lost), d.early = c.early, d.encore = c.encore,
         d.hardcore = c.hardcore, d.ui.challenges = c.ui.challenges, ~d.odd => ~c.odd /\ ~LostShown(c, lost)
  PROVE  /\ Ach(d) = Ach(c) /\ AtRest(d) /\ Active(d) \subseteq Active(c)
         /\ \A i \in Ach(d) : d.ach[i].carried = c.ach[i].carried /\ (AsPlayed(c, i) => AsPlayed(d, i))
<1>1. /\ Ach(d) = Ach(c)
      /\ \A i \in Ach(c) : d.ach[i] = IF c.title.ach[i].mem \in lost
                                      THEN [c.ach[i] EXCEPT !.state = "disabled", !.trigger = "disabled"] ELSE c.ach[i]
  BY DEF Ach, LostAch
<1>2. ASSUME NEW i \in Ach(c)
      PROVE  /\ d.ach[i] \in AchievementType /\ d.ach[i].pending = {} /\ d.ach[i].carried = c.ach[i].carried
             /\ d.ach[i].unlocked = c.ach[i].unlocked
             /\ IF c.title.ach[i].mem \in lost THEN d.ach[i].state = "disabled"
                ELSE d.ach[i].state = c.ach[i].state /\ d.ach[i].trigger = c.ach[i].trigger
  <2>1. c.ach[i] \in AchievementType /\ c.ach[i].pending = {}
    BY DEF AtRest
  <2>2. CASE c.title.ach[i].mem \in lost
    <3>1. d.ach[i] = [c.ach[i] EXCEPT !.state = "disabled", !.trigger = "disabled"]
      BY <1>1, <2>2
    <3>2. d.ach[i].carried = c.ach[i].carried
      BY <2>1, <3>1 DEF AchievementType
    <3>3. /\ d.ach[i] \in AchievementType /\ d.ach[i].pending = {} /\ d.ach[i].unlocked = c.ach[i].unlocked
          /\ d.ach[i].state = "disabled"
      BY <2>1, <3>1 DEF AchievementType
    <3> QED BY <2>2, <3>2, <3>3
  <2>3. CASE c.title.ach[i].mem \notin lost
    BY <1>1, <2>1, <2>3
  <2> QED BY <2>2, <2>3
<1>3. Active(d) \subseteq Active(c)
  BY <1>1, <1>2 DEF Active
<1>4. \A i \in Ach(d) : AsPlayed(c, i) => AsPlayed(d, i)
  BY <1>1, <1>2 DEF AsPlayed, UnlockBit, Mode
<1>5. ~d.odd => d.ui.challenges = Primed(d)
  <2>1. SUFFICES ASSUME ~d.odd PROVE Primed(d) = Primed(c)
    BY DEF AtRest
  <2>2. \A i \in Primed(c) : c.title.ach[i].mem \notin lost
    BY <2>1 DEF LostShown, Primed
  <2> QED BY <1>1, <1>2, <2>2 DEF Primed, Active
<1>6. AtRest(d)
  BY <1>1, <1>2, <1>5 DEF AtRest
<1> QED BY <1>1, <1>2, <1>3, <1>4, <1>6

(* What becomes of those that are hidden, and of those that are reset. *)
HiddenAll(c) ==
  [i \in Ach(c) |-> IF i \in Primed(c) THEN [c.ach[i] EXCEPT !.pending = @ \cup {"hide"}] ELSE c.ach[i]]
ResetAch(c) == [i \in Ach(c) |-> IF i \in Active(c) THEN ResetTrigger(HidePrimed(c), i) ELSE HiddenAll(c)[i]]

(* Achievements of which some challenges are to go. *)
Hiding(c) ==
  /\ \A i \in Ach(c) : /\ c.ach[i] \in AchievementType /\ c.ach[i].pending \in {{}, {"hide"}}
                       /\ c.ach[i].pending # {} => i \in Primed(c)
  /\ c.early = FALSE
  /\ ~c.odd => c.ui.challenges = Primed(c)

(* Nothing need be hidden of achievements at rest. *)
LEMMA RestHides ==
  ASSUME NEW c, AtRest(c)
  PROVE  Hiding(c)
BY DEF AtRest, Hiding

(* The primed achievements are to be hidden. *)
LEMMA HidePrimedEffect ==
  ASSUME NEW c, IsClient(c), NEW d, d = HidePrimed(c)
  PROVE  Same(c, d, {"ach"}) /\ d.ach = HiddenAll(c)
<1> DEFINE ach == HiddenAll(c)
<1>1. d = [c EXCEPT !.ach = ach]
  BY DEF HidePrimed, HiddenAll
<1> HIDE DEF ach
<1>2. Same(c, d, {"ach"}) /\ d.ach = ach
  BY <1>1 DEF IsClient, Same, Fields
<1> QED BY <1>2 DEF ach

(* rc_client_reset_achievements: only the achievements. *)
LEMMA ResetAchievementsEffect ==
  ASSUME NEW c, IsClient(c), NEW d, d = ResetAchievements(c)
  PROVE  Same(c, d, {"ach"}) /\ d.ach = ResetAch(c)
<1>1. Same(c, HidePrimed(c), {"ach"}) /\ HidePrimed(c).ach = HiddenAll(c)
  <2>1. PICK h : h = HidePrimed(c)
    OBVIOUS
  <2> QED BY <2>1, HidePrimedEffect
<1> DEFINE ach == ResetAch(c)
<1>2. d = [HidePrimed(c) EXCEPT !.ach = ach]
  BY <1>1 DEF ResetAchievements, ResetAch
<1> HIDE DEF ach
<1>3. PICK h : h = HidePrimed(c)
  OBVIOUS
<1>4. Same(h, d, {"ach"}) /\ d.ach = ach
  BY <1>1, <1>2, <1>3 DEF IsClient, Same, Fields
<1>5. Same(c, d, {"ach"})
  BY <1>1, <1>3, <1>4 DEF Same
<1> QED BY <1>4, <1>5 DEF ach

(* Of an achievement, what it is once hidden. *)
LEMMA HiddenFacts ==
  ASSUME NEW c, Hiding(c), NEW i \in Ach(c), NEW a, a = HiddenAll(c)[i]
  PROVE  /\ a \in AchievementType /\ a.state = c.ach[i].state /\ a.trigger = c.ach[i].trigger
         /\ a.unlocked = c.ach[i].unlocked /\ a.carried = c.ach[i].carried
         /\ a.pending = IF i \in Primed(c) THEN {"hide"} ELSE {}
<1>1. /\ c.ach[i] \in AchievementType /\ c.ach[i].pending \in {{}, {"hide"}}
      /\ c.ach[i].pending # {} => i \in Primed(c)
  BY DEF Hiding
<1>2. CASE i \in Primed(c)
  <2>1. a = [c.ach[i] EXCEPT !.pending = {"hide"}]
    <3>1. a = [c.ach[i] EXCEPT !.pending = c.ach[i].pending \cup {"hide"}]
      BY <1>2 DEF HiddenAll
    <3>2. c.ach[i].pending \cup {"hide"} = {"hide"}
      BY <1>1
    <3> QED BY <3>1, <3>2
  <2>2. /\ a \in AchievementType /\ a.state = c.ach[i].state /\ a.trigger = c.ach[i].trigger
        /\ a.unlocked = c.ach[i].unlocked /\ a.pending = {"hide"}
    BY <1>1, <2>1 DEF AchievementType
  <2>3. a.carried = c.ach[i].carried
    BY <1>1, <2>1 DEF AchievementType
  <2> QED BY <1>2, <2>2, <2>3
<1>3. CASE i \notin Primed(c)
  <2>1. a = c.ach[i] /\ c.ach[i].pending = {}
    BY <1>1, <1>3 DEF HiddenAll
  <2> QED BY <1>1, <1>3, <2>1
<1> QED BY <1>2, <1>3

(* Hidden, the achievements are as they were but for the challenges, which *)
(* are to go.                                                              *)
LEMMA HiddenAchievements ==
  ASSUME NEW c, Hiding(c), NEW d, d.ach = HiddenAll(c)
  PROVE  /\ Ach(d) = Ach(c) /\ Active(d) = Active(c) /\ Primed(d) = Primed(c)
         /\ Raised(d, "show") = {} /\ Raised(d, "triggered") = {} /\ Raised(d, "hide") = Primed(c)
         /\ d.early = c.early /\ d.ui.challenges = c.ui.challenges /\ (~d.odd => ~c.odd) => Hiding(d)
<1>1. Ach(d) = Ach(c)
  BY DEF Ach, HiddenAll
<1>2. \A i \in Ach(c) :
        /\ d.ach[i].state = c.ach[i].state /\ d.ach[i].trigger = c.ach[i].trigger
        /\ d.ach[i].pending = IF i \in Primed(c) THEN {"hide"} ELSE {}
  <2>1. TAKE i \in Ach(c)
  <2>2. PICK a : a = HiddenAll(c)[i]
    OBVIOUS
  <2> QED BY <2>2, HiddenFacts
<1>3. Primed(c) \subseteq Ach(c)
  BY DEF Primed, Active
<1>4. /\ Active(d) = Active(c) /\ Primed(d) = Primed(c)
      /\ Raised(d, "show") = {} /\ Raised(d, "triggered") = {} /\ Raised(d, "hide") = Primed(c)
  BY <1>1, <1>2, <1>3 DEF Active, Primed, Raised
<1>5. \A i \in Ach(c) : d.ach[i] \in AchievementType
  <2>1. TAKE i \in Ach(c)
  <2>2. PICK a : a = HiddenAll(c)[i]
    OBVIOUS
  <2> QED BY <2>2, HiddenFacts
<1>6. ASSUME d.early = c.early, d.ui.challenges = c.ui.challenges, ~d.odd => ~c.odd
      PROVE  Hiding(d)
  BY <1>1, <1>2, <1>4, <1>5, <1>6 DEF Hiding
<1> QED BY <1>1, <1>4, <1>6

(* Reset, no achievement is primed or has seen softcore. *)
LEMMA ResetAchievementsFacts ==
  ASSUME NEW c, Hiding(c), \A i \in Ach(c) : AsPlayed(c, i), c.listed = Active(c), IsClient(c),
         NEW d, d.ach = ResetAch(c), d.hardcore = c.hardcore, d.encore = c.encore, d.listed = c.listed,
         d.early = c.early, d.ui.challenges = c.ui.challenges, ~d.odd => ~c.odd
  PROVE  /\ Achievements(d) /\ Ach(d) = Ach(c) /\ Raised(d, "hide") = Primed(c)
         /\ \A i \in Ach(d) : d.ach[i].pending \in {{}, {"hide"}}
<1>1. Ach(d) = Ach(c)
  BY DEF Ach, ResetAch
<1>2. PICK h : h = HidePrimed(c)
  OBVIOUS
<1>3. h.ach = HiddenAll(c) /\ h.title = c.title
  BY <1>2, HidePrimedEffect DEF Same, Fields
<1>4. ASSUME NEW i \in Ach(c)
      PROVE  /\ d.ach[i] \in AchievementType /\ d.ach[i].state = c.ach[i].state
             /\ d.ach[i].unlocked = c.ach[i].unlocked
             /\ d.ach[i].pending = IF i \in Primed(c) THEN {"hide"} ELSE {}
             /\ i \in Active(c) => d.ach[i].carried # "played" /\ d.ach[i].trigger = "waiting"
  <2>1. PICK a : a = HiddenAll(c)[i]
    OBVIOUS
  <2>2. /\ a \in AchievementType /\ a.state = c.ach[i].state /\ a.unlocked = c.ach[i].unlocked
        /\ a.pending = IF i \in Primed(c) THEN {"hide"} ELSE {}
    BY <2>1, HiddenFacts
  <2>3. CASE i \in Active(c)
    <3>1. d.ach[i] = ResetTrigger(h, i)
      BY <1>2, <2>3 DEF ResetAch
    <3>2. h.ach[i] = a
      BY <1>3, <2>1
    <3>3. /\ d.ach[i] \in AchievementType /\ d.ach[i].state = a.state /\ d.ach[i].unlocked = a.unlocked
          /\ d.ach[i].pending = a.pending /\ d.ach[i].trigger = "waiting"
      BY <2>2, <3>1, <3>2 DEF ResetTrigger, AchievementType
    <3>4. d.ach[i].carried # "played"
      BY <2>2, <3>1, <3>2 DEF ResetTrigger, AchievementType
    <3> QED BY <2>2, <3>3, <3>4
  <2>4. CASE i \notin Active(c)
    <3>1. d.ach[i] = a
      BY <2>1, <2>4 DEF ResetAch
    <3> QED BY <2>2, <2>4, <3>1
  <2> QED BY <2>3, <2>4
<1>5. Active(d) = Active(c) /\ Active(c) \subseteq Ach(c) /\ Primed(c) \subseteq Ach(c)
  BY <1>1, <1>4 DEF Active, Primed
<1>6. Primed(d) = {}
  BY <1>4, <1>5 DEF Primed
<1>7. \A i \in Ach(c) : d.ach[i].pending \subseteq {"hide"} /\ ("hide" \in d.ach[i].pending <=> i \in Primed(c))
  BY <1>4
<1>8. Raised(d, "show") = {} /\ Raised(d, "triggered") = {} /\ Raised(d, "hide") = Primed(c)
  BY ONLY <1>1, <1>7, <1>5 DEF Raised
<1>9. Challenges(d)
  <2>1. ~d.odd => d.ui.challenges = Primed(c)
    BY DEF Hiding
  <2> QED BY <1>6, <1>8, <2>1 DEF Challenges
<1>10. Clean(d)
  BY <1>4, <1>5 DEF Hiding, Clean
<1>11. \A i \in Ach(d) : d.ach[i] \in AchievementType /\ AsPlayed(d, i) /\ Wins(d, i)
  <2>1. \A i \in Ach(d) : AsPlayed(d, i)
    BY <1>1, <1>4 DEF AsPlayed, UnlockBit, Mode
  <2>2. \A i \in Ach(d) : "triggered" \notin d.ach[i].pending
    BY ONLY <1>1, <1>7
  <2> QED BY <1>1, <1>4, <2>1, <2>2 DEF Wins
<1>12. \A i \in Ach(d) : d.ach[i].pending \in {{}, {"hide"}}
  BY <1>1, <1>7
<1> QED BY <1>1, <1>5, <1>8, <1>9, <1>10, <1>11, <1>12 DEF Achievements

(* What a frame makes of the achievements. *)
Processed(c, achieved, measured) == [i \in Ach(c) |-> ProcessAchievement(c, i, achieved[i], measured)]

(* The achievements after a frame: those that triggered have not seen softcore. *)
LEMMA ProcessedAchievements ==
  ASSUME NEW c, Achievements(c), \A i \in Ach(c) : c.ach[i].pending = {}, ~c.waiting, c.hardcore \in BOOLEAN,
         NEW achieved, \A i \in Active(c) : achieved[i] \in {"waiting", "active", "primed", "triggered"},
         NEW measured \in Measures \cup {Unknown}, NEW d, d.ach = Processed(c, achieved, measured),
         d.listed = c.listed, d.encore = c.encore, d.hardcore = c.hardcore, d.waiting = c.waiting, d.early = c.early,
         d.ui.challenges = c.ui.challenges, ~d.odd => ~c.odd
  PROVE  Achievements(d) /\ Ach(d) = Ach(c)
<1>1. Ach(d) = Ach(c) /\ \A i \in Ach(c) : d.ach[i] = ProcessAchievement(c, i, achieved[i], measured)
  BY DEF Ach, Processed
<1>2. \A i \in Ach(c) : c.ach[i] \in AchievementType /\ AsPlayed(c, i)
  BY DEF Achievements
<1>3. c.hardcore => \A i \in Active(c) : c.ach[i].carried # "played"
  BY DEF Achievements, Clean
<1>4. ASSUME NEW i \in Ach(c), i \in Active(c)
      PROVE  /\ d.ach[i] \in AchievementType /\ d.ach[i].state = "active" /\ d.ach[i].unlocked = c.ach[i].unlocked
             /\ c.hardcore => d.ach[i].carried # "played"
             /\ "triggered" \in d.ach[i].pending => d.ach[i].trigger # "primed"
             /\ "show" \in d.ach[i].pending <=> c.ach[i].trigger # "primed" /\ d.ach[i].trigger = "primed"
             /\ "hide" \in d.ach[i].pending <=> c.ach[i].trigger = "primed" /\ d.ach[i].trigger # "primed"
  <2>1. c.ach[i] \in AchievementType /\ c.ach[i].pending = {} /\ c.ach[i].state = "active"
    BY <1>2, <1>4 DEF Active
  <2>2. PICK to \in {"waiting", "active", "primed", "triggered"} : to = achieved[i]
    BY <1>4
  <2> DEFINE a == c.ach[i]
             events == (IF a.trigger = "primed" /\ to # "primed" THEN {"hide"} ELSE {})
                       \cup (IF a.trigger # to /\ to = "triggered" THEN {"triggered"} ELSE {})
                       \cup (IF a.trigger # to /\ to = "primed" THEN {"show"} ELSE {})
             value == IF c.title.ach[i].measured THEN measured ELSE a.measured
             carried == IF c.hardcore THEN a.carried ELSE "played"
  <2>3. d.ach[i] = [a EXCEPT !.trigger = to, !.measured = value, !.pending = a.pending \cup events, !.carried = carried]
    BY <1>1, <2>1, <2>2 DEF ProcessAchievement
  <2>4. /\ events \in SUBSET {"show", "hide", "triggered"} /\ a.pending \cup events = events
        /\ "triggered" \in events => to # "primed"
        /\ "show" \in events <=> a.trigger # "primed" /\ to = "primed"
        /\ "hide" \in events <=> a.trigger = "primed" /\ to # "primed"
    BY <2>1
  <2>5. value \in Measures \cup {Unknown}
    BY <2>1 DEF AchievementType
  <2>6. carried \in {"none", "played", "restored"} /\ (c.hardcore => carried # "played")
    BY <1>3, <1>4, <2>1 DEF AchievementType
  <2> HIDE DEF events, value, carried
  <2>7. d.ach[i] = [a EXCEPT !.trigger = to, !.measured = value, !.pending = events, !.carried = carried]
    BY <2>3, <2>4
  <2>8. /\ d.ach[i] \in AchievementType /\ d.ach[i].state = a.state /\ d.ach[i].trigger = to
        /\ d.ach[i].unlocked = a.unlocked /\ d.ach[i].pending = events
    <3>1. PICK p \in SUBSET {"show", "hide", "triggered"} : p = events
      BY <2>4
    <3>2. carried \in {"none", "played", "restored"}
      BY <2>6
    <3>3. a \in AchievementType
      BY <2>1
    <3> QED BY ONLY <2>5, <2>7, <3>1, <3>2, <3>3 DEF AchievementType
  <2>9. d.ach[i].carried = carried
    BY <2>1, <2>7 DEF AchievementType
  <2> QED BY <2>1, <2>4, <2>6, <2>8, <2>9
<1>5. \A i \in Ach(c) : i \notin Active(c) => d.ach[i] = c.ach[i]
  BY <1>1 DEF ProcessAchievement, Active
<1>6. Active(d) = Active(c)
  BY <1>1, <1>4, <1>5 DEF Active
<1>7. Clean(d)
  <2>1. Active(c) \subseteq Ach(c)
    BY DEF Active
  <2> QED BY <1>4, <1>6, <2>1 DEF Achievements, Clean
<1>8. \A i \in Ach(d) : d.ach[i] \in AchievementType /\ AsPlayed(d, i) /\ Wins(d, i)
  <2>1. TAKE i \in Ach(d)
  <2>2. CASE i \in Active(c)
    <3>1. c.ach[i].state = "active" /\ AsPlayed(c, i)
      BY <1>1, <1>2, <2>2 DEF Active
    <3>2. /\ d.ach[i] \in AchievementType /\ d.ach[i].state = "active" /\ d.ach[i].unlocked = c.ach[i].unlocked
          /\ c.hardcore => d.ach[i].carried # "played"
          /\ "triggered" \in d.ach[i].pending => d.ach[i].trigger # "primed"
      BY <1>1, <1>4, <2>2
    <3> QED BY <3>1, <3>2 DEF AsPlayed, UnlockBit, Mode, Wins
  <2>3. CASE i \notin Active(c)
    BY <1>1, <1>2, <1>5, <2>3 DEF AsPlayed, UnlockBit, Mode, Wins
  <2> QED BY <2>2, <2>3
<1>9. Challenges(d)
  <2>1. SUFFICES ASSUME ~d.odd PROVE (d.ui.challenges \cup Raised(d, "show")) \ Raised(d, "hide") = Primed(d)
    BY DEF Challenges
  <2>2. Raised(c, "show") = {} /\ Raised(c, "hide") = {}
    BY DEF Raised
  <2>3. d.ui.challenges = Primed(c)
    BY <2>1, <2>2 DEF Achievements, Challenges
  <2>4. ASSUME NEW i \in Ach(c)
        PROVE  i \in (Primed(c) \cup Raised(d, "show")) \ Raised(d, "hide") <=> i \in Primed(d)
    <3>1. CASE i \in Active(c)
      BY <1>1, <1>4, <1>6, <3>1 DEF Primed, Raised
    <3>2. CASE i \notin Active(c)
      BY <1>1, <1>5, <1>6, <3>2 DEF Primed, Raised
    <3> QED BY <3>1, <3>2
  <2>5. Primed(c) \subseteq Ach(c) /\ Primed(d) \subseteq Ach(c) /\ Raised(d, "show") \subseteq Ach(c)
    BY <1>1 DEF Primed, Active, Raised
  <2> QED BY <2>3, <2>4, <2>5
<1> QED BY <1>1, <1>6, <1>7, <1>8, <1>9 DEF Achievements

(* Achievements that a save state is to be read into, or was: the          *)
(* challenges on the screen are those that are to go.                      *)
Halted(c) ==
  /\ \A i \in Ach(c) : /\ c.ach[i] \in AchievementType /\ AsPlayed(c, i)
                       /\ c.ach[i].pending \in {{}, {"hide"}}
  /\ c.listed = Active(c) /\ Clean(c)
  /\ ~c.odd => c.ui.challenges = Raised(c, "hide")

(* What is restored of them: as far as the mode goes, they are what they   *)
(* were.                                                                   *)
RestoredAch(c, saw, achieved, measured) ==
  [i \in Ach(c) |-> IF i \notin c.listed THEN c.ach[i]
     ELSE [c.ach[i] EXCEPT !.trigger = achieved[i], !.carried = Brought(c, saw),
                           !.measured = IF c.title.ach[i].measured THEN measured ELSE @]]

(* rc_runtime_deserialize_progress, of the achievements. *)
LEMMA RestoredAchievements ==
  ASSUME NEW c, Halted(c), c.hardcore \in BOOLEAN, NEW saw,
         NEW achieved, \A i \in Active(c) : achieved[i] \in {"waiting", "active", "primed"},
         NEW measured \in Measures \cup {Unknown}, NEW d, d.ach = RestoredAch(c, saw, achieved, measured),
         d.listed = c.listed, d.encore = c.encore, d.hardcore = c.hardcore, d.waiting = c.waiting, d.early = c.early,
         d.ui.challenges = c.ui.challenges, ~d.odd => ~c.odd
  PROVE  Halted(d) /\ Ach(d) = Ach(c)
<1>1. Ach(d) = Ach(c)
  BY DEF Ach, RestoredAch
<1>2. \A i \in Ach(c) : i \in c.listed <=> i \in Active(c)
  BY DEF Halted
<1>3. ASSUME NEW i \in Ach(c)
      PROVE  /\ d.ach[i] \in AchievementType /\ d.ach[i].state = c.ach[i].state
             /\ d.ach[i].unlocked = c.ach[i].unlocked /\ d.ach[i].pending = c.ach[i].pending
             /\ i \in Active(c) /\ c.hardcore => d.ach[i].carried # "played"
  <2>1. c.ach[i] \in AchievementType
    BY DEF Halted
  <2>2. CASE i \in Active(c)
    <3> DEFINE value == IF c.title.ach[i].measured THEN measured ELSE c.ach[i].measured
               carried == Brought(c, saw)
    <3>1. PICK to \in {"waiting", "active", "primed"} : to = achieved[i]
      BY <2>2
    <3>2. d.ach[i] = [c.ach[i] EXCEPT !.trigger = to, !.carried = carried, !.measured = value]
      BY <1>2, <2>2, <3>1 DEF RestoredAch
    <3>3. value \in Measures \cup {Unknown} /\ carried \in {"none", "played", "restored"} /\ (c.hardcore => carried # "played")
      BY <2>1 DEF AchievementType, Brought
    <3> HIDE DEF value, carried
    <3>4. /\ d.ach[i] \in AchievementType /\ d.ach[i].state = c.ach[i].state
          /\ d.ach[i].unlocked = c.ach[i].unlocked /\ d.ach[i].pending = c.ach[i].pending
      BY <2>1, <3>2, <3>3 DEF AchievementType
    <3>5. d.ach[i].carried = carried
      BY <2>1, <3>2 DEF AchievementType
    <3> QED BY <3>3, <3>4, <3>5
  <2>3. CASE i \notin Active(c)
    <3>1. d.ach[i] = c.ach[i]
      BY <1>2, <2>3 DEF RestoredAch
    <3> QED BY <2>1, <2>3, <3>1
  <2> QED BY <2>2, <2>3
<1>4. Active(d) = Active(c) /\ Active(c) \subseteq Ach(c)
  BY <1>1, <1>3 DEF Active
<1>5. Raised(d, "hide") = Raised(c, "hide")
  BY <1>1, <1>3 DEF Raised
<1>6. \A i \in Ach(d) : AsPlayed(d, i)
  BY <1>1, <1>3 DEF Halted, AsPlayed, UnlockBit, Mode
<1>7. Clean(d)
  BY <1>3, <1>4 DEF Halted, Clean
<1>8. \A i \in Ach(d) : d.ach[i] \in AchievementType /\ d.ach[i].pending \in {{}, {"hide"}}
  BY <1>1, <1>3 DEF Halted
<1> QED BY <1>1, <1>4, <1>5, <1>6, <1>7, <1>8 DEF Halted

(* The challenges that stay are not hidden, and others shown.              *)
ShownAgain(c, i) ==
  IF i \notin Primed(c) THEN c.ach[i].pending
  ELSE IF "hide" \in c.ach[i].pending THEN c.ach[i].pending \ {"hide"} ELSE c.ach[i].pending \cup {"show"}
ShownAll(c) == [i \in Ach(c) |-> [c.ach[i] EXCEPT !.pending = ShownAgain(c, i)]]

(* rc_client_subset_after_deserialize_progress, of the achievements. *)
LEMMA ShownAchievements ==
  ASSUME NEW c, Halted(c), NEW d, d.ach = ShownAll(c), d.listed = c.listed, d.encore = c.encore, d.hardcore = c.hardcore,
         d.waiting = c.waiting, d.early = c.early, d.ui.challenges = c.ui.challenges, ~d.odd => ~c.odd
  PROVE  Achievements(d) /\ Ach(d) = Ach(c) /\ Raised(d, "triggered") = {}
<1>1. Ach(d) = Ach(c) /\ \A i \in Ach(c) : d.ach[i] = [c.ach[i] EXCEPT !.pending = ShownAgain(c, i)]
  BY DEF Ach, ShownAll
<1>2. ASSUME NEW i \in Ach(c)
      PROVE  /\ ShownAgain(c, i) \in SUBSET {"show", "hide"}
             /\ "show" \in ShownAgain(c, i) <=> i \in Primed(c) /\ "hide" \notin c.ach[i].pending
             /\ "hide" \in ShownAgain(c, i) <=> i \notin Primed(c) /\ "hide" \in c.ach[i].pending
  <2>1. c.ach[i].pending \in {{}, {"hide"}}
    BY DEF Halted
  <2> QED BY <2>1 DEF ShownAgain
<1>3. ASSUME NEW i \in Ach(c)
      PROVE  /\ d.ach[i] \in AchievementType /\ d.ach[i].state = c.ach[i].state /\ d.ach[i].trigger = c.ach[i].trigger
             /\ d.ach[i].unlocked = c.ach[i].unlocked /\ d.ach[i].carried = c.ach[i].carried
             /\ d.ach[i].pending = ShownAgain(c, i)
  <2>1. c.ach[i] \in AchievementType
    BY DEF Halted
  <2>2. PICK p \in SUBSET {"show", "hide"} : p = ShownAgain(c, i)
    BY <1>2
  <2>3. d.ach[i] = [c.ach[i] EXCEPT !.pending = p]
    BY <1>1, <2>2
  <2>4. /\ d.ach[i] \in AchievementType /\ d.ach[i].state = c.ach[i].state /\ d.ach[i].trigger = c.ach[i].trigger
        /\ d.ach[i].unlocked = c.ach[i].unlocked /\ d.ach[i].pending = p
    BY <2>1, <2>3 DEF AchievementType
  <2>5. d.ach[i].carried = c.ach[i].carried
    BY <2>1, <2>3 DEF AchievementType
  <2> QED BY <2>2, <2>4, <2>5
<1>4. Active(d) = Active(c) /\ Primed(d) = Primed(c) /\ Active(c) \subseteq Ach(c) /\ Primed(c) \subseteq Ach(c)
  BY <1>1, <1>3 DEF Active, Primed
<1>5. \A i \in Ach(c) : "triggered" \notin d.ach[i].pending
  BY <1>2, <1>3
<1>6. \A i \in Ach(d) : d.ach[i] \in AchievementType /\ AsPlayed(d, i) /\ Wins(d, i)
  <2>1. \A i \in Ach(d) : AsPlayed(d, i)
    BY <1>1, <1>3 DEF Halted, AsPlayed, UnlockBit, Mode
  <2> QED BY <1>1, <1>3, <1>5, <2>1 DEF Wins
<1>7. Clean(d)
  BY <1>3, <1>4 DEF Halted, Clean
<1>8. Challenges(d)
  <2>1. SUFFICES ASSUME ~d.odd PROVE (d.ui.challenges \cup Raised(d, "show")) \ Raised(d, "hide") = Primed(d)
    BY DEF Challenges
  <2>2. d.ui.challenges = Raised(c, "hide")
    BY <2>1 DEF Halted
  <2>3. ASSUME NEW i \in Ach(c)
        PROVE  i \in (Raised(c, "hide") \cup Raised(d, "show")) \ Raised(d, "hide") <=> i \in Primed(c)
    <3>1. i \in Raised(d, "show") <=> i \in Primed(c) /\ "hide" \notin c.ach[i].pending
      BY <1>1, <1>2, <1>3 DEF Raised
    <3>2. i \in Raised(d, "hide") <=> i \notin Primed(c) /\ "hide" \in c.ach[i].pending
      BY <1>1, <1>2, <1>3 DEF Raised
    <3>3. i \in Raised(c, "hide") <=> "hide" \in c.ach[i].pending
      BY DEF Raised
    <3> QED BY <3>1, <3>2, <3>3
  <2>4. Raised(c, "hide") \subseteq Ach(c) /\ Raised(d, "show") \subseteq Ach(c)
    BY <1>1 DEF Raised
  <2> QED BY <1>4, <2>2, <2>3, <2>4
<1>9. d.listed = Active(d)
  BY <1>4 DEF Halted
<1> QED BY <1>1, <1>5, <1>6, <1>7, <1>8, <1>9 DEF Achievements, Raised

-----------------------------------------------------------------------------
(* The lists of leaderboards and trackers.                                 *)

(* A function on 1..n has length n. *)
LEMMA LengthIs ==
  ASSUME NEW n \in Nat, NEW f, f = [k \in 1..n |-> f[k]]
  PROVE  Length(f) /\ Len(f) = n
<1> DEFINE S == {f[k] : k \in 1..n}
<1>1. f \in [1..n -> S]
  OBVIOUS
<1> HIDE DEF S
<1>2. f \in Seq(S)
  BY <1>1
<1>3. Len(f) \in Nat /\ DOMAIN f = 1..Len(f)
  BY <1>2, LenProperties
<1>4. DOMAIN f = 1..n
  BY <1>1
<1>5. Len(f) = n
  BY <1>3, <1>4
<1> QED BY <1>3, <1>5 DEF Length

(* A set of numbers has a least one. *)
LEMMA MinIn ==
  ASSUME NEW S \in SUBSET Nat, S # {}
  PROVE  Min(S) \in S /\ \A y \in S : Min(S) <= y
<1>1. PICK x \in S : \A y \in S : ~(<<y, x>> \in OpToRel(<, Nat))
  <2>1. IsWellFoundedOn(OpToRel(<, Nat), Nat) /\ S \subseteq Nat
    BY NatLessThanWellFounded
  <2> QED BY <2>1, WFMin
<1>2. \A y \in S : x <= y
  <2>1. TAKE y \in S
  <2>2. <<y, x>> \notin OpToRel(<, Nat)
    BY <1>1
  <2>3. x \in Nat /\ y \in Nat
    OBVIOUS
  <2>4. ~(y < x)
    BY <2>2, <2>3 DEF OpToRel
  <2> QED BY ONLY <2>3, <2>4
<1> QED BY <1>2 DEF Min

(* What a game's definition says of its leaderboards. *)
LEMMA TitleFacts ==
  ASSUME NEW t \in Titles
  PROVE  /\ t.most \in Nat /\ Len(t.lb) \in Nat /\ DOMAIN t.lb = 1..Len(t.lb)
         /\ \A j, k \in DOMAIN t.lb : t.lb[j].key = t.lb[k].key => t.lb[j].hits = t.lb[k].hits
<1>1. PICK definition \in Definitions, unofficial \in BOOLEAN : t = Copied(definition, unofficial)
  BY DEF Titles
<1>2. t.lb = definition.lb /\ t.most = definition.most
  BY <1>1 DEF Copied
<1> QED BY <1>2, PlayAssumption

(* Those that hold a tracker can be counted. *)
LEMMA HoldersFacts ==
  ASSUME NEW c, Lists(c), NEW k
  PROVE  /\ IsFiniteSet(Holders(c, k)) /\ Cardinality(Holders(c, k)) \in Nat
         /\ Cardinality(Holders(c, k)) = 0 <=> Holders(c, k) = {}
         /\ Cardinality(Holders(c, k)) <= Len(c.lb)
<1>1. Len(c.lb) \in Nat /\ Lb(c) = 1..Len(c.lb)
  BY DEF Lists, Length, Lb
<1>2. IsFiniteSet(Lb(c)) /\ Cardinality(Lb(c)) = Len(c.lb)
  BY <1>1, FS_Interval
<1>3. Holders(c, k) \in SUBSET Lb(c)
  BY DEF Holders
<1>4. IsFiniteSet(Holders(c, k)) /\ Cardinality(Holders(c, k)) <= Len(c.lb)
  BY <1>2, <1>3, FS_Subset
<1> QED BY <1>4, FS_CardinalityType, FS_EmptySet

\* the fields of the boards
BoardFields == {"lb", "trackers", "ui"}

(* What changes no tracker, and keeps who holds them, keeps them. *)
LEMMA TrackersSame ==
  ASSUME NEW c, Trackers(c), NEW d, d.title = c.title, d.trackers = c.trackers, d.ui.trackers = c.ui.trackers,
         d.lb = [j \in Lb(c) |-> d.lb[j]],
         \A j \in Lb(c) : d.lb[j] \in LeaderboardType /\ d.lb[j].tracker = c.lb[j].tracker
  PROVE  Trackers(d) /\ Lb(d) = Lb(c) /\ \A k : Holders(d, k) = Holders(c, k)
<1>1. Lb(d) = Lb(c)
  BY DEF Lb
<1>2. \A k : Holders(d, k) = Holders(c, k)
  BY <1>1 DEF Holders
<1>3. Lists(c) /\ Len(c.lb) \in Nat /\ Lb(c) = 1..Len(c.lb)
  BY DEF Trackers, Lists, Length, Lb
<1>4. Length(d.lb)
  BY <1>3, LengthIs
<1>5. Lists(d)
  BY <1>1, <1>3, <1>4 DEF Lists, Lb
<1>6. \A j \in Lb(d) : Belongs(d, j)
  BY <1>1 DEF Trackers, Belongs
<1>7. \A k \in DOMAIN d.trackers : Counted(d, k) /\ WillShow(d, k)
  BY <1>2 DEF Trackers, Counted, WillShow
<1> QED BY <1>1, <1>2, <1>5, <1>6, <1>7 DEF Trackers

\* the client with one leaderboard changed
Changed(c, j, w) == [c EXCEPT !.lb = [c.lb EXCEPT ![j] = w]]

(* A leaderboard that changes, but for its tracker. *)
LEMMA BoardChanged ==
  ASSUME NEW c, IsClient(c), Trackers(c), NEW j \in Lb(c), NEW w \in LeaderboardType, w.tracker = c.lb[j].tracker,
         NEW d, d = Changed(c, j, w)
  PROVE  /\ Same(c, d, {"lb"}) /\ Trackers(d) /\ Lb(d) = Lb(c) /\ d.lb[j] = w
         /\ \A i \in Lb(c) : i # j => d.lb[i] = c.lb[i]
<1> DEFINE lb == [c.lb EXCEPT ![j] = w]
<1>1. c.lb = [i \in Lb(c) |-> c.lb[i]] /\ \A i \in Lb(c) : c.lb[i] \in LeaderboardType
  BY DEF Trackers, Lists, Length, Lb
<1>2. lb = [i \in Lb(c) |-> lb[i]] /\ lb[j] = w /\ \A i \in Lb(c) : i # j => lb[i] = c.lb[i]
  BY <1>1 DEF Lb
<1> HIDE DEF lb
<1>3. Same(c, d, {"lb"}) /\ d.lb = lb
  BY DEF Changed, IsClient, Same, Fields, lb
<1>4. d.title = c.title /\ d.trackers = c.trackers /\ d.ui = c.ui
  BY <1>3 DEF Same, Fields
<1>5. \A i \in Lb(c) : d.lb[i] \in LeaderboardType /\ d.lb[i].tracker = c.lb[i].tracker
  BY <1>1, <1>2, <1>3
<1>6. d.lb = [i \in Lb(c) |-> d.lb[i]]
  BY <1>2, <1>3
<1>7. Trackers(d) /\ Lb(d) = Lb(c)
  BY ONLY Trackers(c), <1>4, <1>5, <1>6, TrackersSame
<1> QED BY <1>2, <1>3, <1>7

(* rc_client_update_leaderboard_tracker: a tracker takes the value of one  *)
(* of those that hold it.                                                  *)
LEMMA UpdateTrackerKeeps ==
  ASSUME NEW c, IsClient(c), Trackers(c), NEW j \in Lb(c), NEW d, d = UpdateTracker(c, j)
  PROVE  /\ Same(c, d, {"trackers"}) /\ Trackers(d) /\ DOMAIN d.trackers = DOMAIN c.trackers
         /\ c.lb[j].tracker # 0 => d.trackers[c.lb[j].tracker].raw = c.lb[j].value
         /\ \A k \in DOMAIN c.trackers : k # c.lb[j].tracker => d.trackers[k] = c.trackers[k]
<1> DEFINE k == c.lb[j].tracker
<1>1. /\ Same(c, d, {"trackers"})
      /\ k = 0 \/ c.trackers[k].raw = c.lb[j].value => d = c
      /\ k # 0 /\ c.trackers[k].raw # c.lb[j].value =>
           d.trackers = [c.trackers EXCEPT ![k] = Updated(c.trackers[k], c.lb[j].value)]
  BY UpdateTrackerEffect
<1>2. CASE k = 0 \/ c.trackers[k].raw = c.lb[j].value
  BY <1>1, <1>2
<1>3. CASE k # 0 /\ c.trackers[k].raw # c.lb[j].value
  <2> DEFINE t == Updated(c.trackers[k], c.lb[j].value)
  <2>1. Lists(c) /\ k \in DOMAIN c.trackers /\ IsTracker(c.trackers[k]) /\ c.lb[j].value \in Nat
    BY <1>3 DEF Trackers, Belongs, Lists, LeaderboardType
  <2>2. /\ IsTracker(t) /\ t.refs = c.trackers[k].refs /\ t.key = c.trackers[k].key /\ t.raw = c.lb[j].value
        /\ t.pending = c.trackers[k].pending \cup {"update"}
    BY <2>1 DEF IsTracker, Updated
  <2>3. t.hits = c.trackers[k].hits
    BY <2>1 DEF IsTracker, Updated
  <2>4. d.trackers = [c.trackers EXCEPT ![k] = t]
    BY <1>1, <1>3
  <2> HIDE DEF t
  <2>5. /\ DOMAIN d.trackers = DOMAIN c.trackers /\ d.trackers[k] = t
        /\ \A n \in DOMAIN c.trackers : n # k => d.trackers[n] = c.trackers[n]
    BY <2>1, <2>4
  <2>6. d.title = c.title /\ d.lb = c.lb /\ d.ui = c.ui
    BY <1>1 DEF Same, Fields
  <2>7. Length(c.trackers) /\ Len(c.trackers) \in Nat /\ DOMAIN c.trackers = 1..Len(c.trackers)
    BY <2>1 DEF Lists, Length
  <2>8. d.trackers = [n \in 1..Len(c.trackers) |-> d.trackers[n]]
    BY <2>4, <2>7
  <2>9. Length(d.trackers) /\ Len(d.trackers) = Len(c.trackers)
    BY <2>7, <2>8, LengthIs
  <2>10. \A n \in DOMAIN d.trackers : IsTracker(d.trackers[n])
    BY <2>1, <2>2, <2>5 DEF Lists
  <2>11. Lists(d)
    BY <2>1, <2>6, <2>9, <2>10 DEF Lists, Lb
  <2>12. \A n \in DOMAIN c.trackers : d.trackers[n].refs = c.trackers[n].refs /\ d.trackers[n].key = c.trackers[n].key
    BY <2>2, <2>5
  <2>13. \A n \in DOMAIN c.trackers : d.trackers[n].hits = c.trackers[n].hits
    BY <2>3, <2>5
  <2>14. \A n : Holders(d, n) = Holders(c, n)
    BY <2>6 DEF Holders, Lb
  <2>15. \A i \in Lb(d) : Belongs(d, i)
    BY <2>5, <2>6, <2>12, <2>13 DEF Trackers, Belongs, Lb
  <2>16. \A n \in DOMAIN d.trackers : Counted(d, n)
    BY <2>5, <2>12, <2>14 DEF Trackers, Counted
  <2>17. c.trackers[k].refs # 0
    <3>1. j \in Holders(c, k) /\ Counted(c, k)
      BY <2>1 DEF Holders, Trackers
    <3> QED BY <2>1, <3>1, HoldersFacts DEF Counted
  <2>18. WillShow(d, k)
    <3>1. WillShow(c, k)
      BY <2>1 DEF Trackers
    <3>2. "hide" \notin c.trackers[k].pending /\ ("show" \in c.trackers[k].pending => c.ui.trackers[k] = None)
      BY <2>17, <3>1 DEF WillShow
    <3>3. /\ d.trackers[k].refs # 0 /\ d.trackers[k].pending = c.trackers[k].pending \cup {"update"}
          /\ d.ui.trackers[k] = c.ui.trackers[k]
      BY <2>2, <2>5, <2>6, <2>17
    <3> QED BY ONLY <3>2, <3>3 DEF WillShow
  <2>19. \A n \in DOMAIN d.trackers : WillShow(d, n)
    BY <2>5, <2>6, <2>18 DEF Trackers, WillShow
  <2> QED BY <1>1, <1>3, <2>2, <2>5, <2>11, <2>15, <2>16, <2>19 DEF Trackers
<1> QED BY <1>2, <1>3

\* a leaderboard that is given a tracker, or none
Gives(l, k) == [l EXCEPT !.tracker = k]

(* Nothing else of it changes. *)
LEMMA GivenFacts ==
  ASSUME NEW l \in LeaderboardType, NEW k \in Nat, NEW w, w = Gives(l, k)
  PROVE  /\ w \in LeaderboardType /\ w.tracker = k /\ w.state = l.state /\ w.run = l.run /\ w.value = l.value
         /\ w.pending = l.pending
BY DEF Gives, LeaderboardType

(* rc_client_release_leaderboard_tracker, of each that leaves: the last of *)
(* them hides it.                                                          *)
LEMMA ReleaseTrackersKeeps ==
  ASSUME NEW c, IsClient(c), Trackers(c), NEW leaving \in SUBSET Lb(c), NEW d, d = ReleaseTrackers(c, leaving)
  PROVE  /\ Same(c, d, {"lb", "trackers"}) /\ Trackers(d) /\ Lb(d) = Lb(c) /\ DOMAIN d.trackers = DOMAIN c.trackers
         /\ \A j \in Lb(c) : /\ j \notin leaving => d.lb[j] = c.lb[j]
                             /\ j \in leaving => d.lb[j] = Gives(c.lb[j], 0)
         /\ \A k \in DOMAIN c.trackers : d.trackers[k].raw = c.trackers[k].raw
<1>1. /\ Same(c, d, {"lb", "trackers"}) /\ d.lb = LeavesAll(c, leaving) /\ d.trackers = LeftAll(c, leaving)
  BY ReleaseTrackersEffect
<1>2. d.title = c.title /\ d.ui = c.ui
  BY <1>1 DEF Same, Fields
<1>3. /\ Lists(c) /\ Len(c.lb) \in Nat /\ Lb(c) = 1..Len(c.lb) /\ Lb(c) = 1..Len(c.title.lb)
      /\ Len(c.trackers) \in Nat /\ DOMAIN c.trackers = 1..Len(c.trackers)
  BY DEF Trackers, Lists, Length, Lb
<1>4. /\ Lb(d) = Lb(c) /\ d.lb = [j \in 1..Len(c.lb) |-> d.lb[j]]
      /\ \A j \in Lb(c) : d.lb[j] = Leaves(c, leaving, j)
  BY <1>1, <1>3 DEF LeavesAll, Lb
<1>5. /\ DOMAIN d.trackers = DOMAIN c.trackers /\ d.trackers = [k \in 1..Len(c.trackers) |-> d.trackers[k]]
      /\ \A k \in DOMAIN c.trackers : d.trackers[k] = Left(c, leaving, k)
  BY <1>1, <1>3 DEF LeftAll
<1>6. \A j \in Lb(c) : /\ j \notin leaving => d.lb[j] = c.lb[j]
                       /\ j \in leaving => d.lb[j] = Gives(c.lb[j], 0)
  BY <1>4 DEF Leaves, Gives
<1>7. \A j \in Lb(c) : d.lb[j] \in LeaderboardType /\ (j \in leaving => d.lb[j].tracker = 0)
  <2>1. TAKE j \in Lb(c)
  <2>2. c.lb[j] \in LeaderboardType
    BY <1>3 DEF Lists
  <2>3. CASE j \in leaving
    <3>1. d.lb[j] = Gives(c.lb[j], 0) /\ 0 \in Nat
      BY <1>6, <2>3
    <3> QED BY ONLY <2>2, <3>1, GivenFacts
  <2>4. CASE j \notin leaving
    BY <1>6, <2>2, <2>4
  <2> QED BY <2>3, <2>4
<1>8. ASSUME NEW k \in DOMAIN c.trackers
      PROVE  /\ IsTracker(d.trackers[k]) /\ Counted(d, k) /\ WillShow(d, k)
             /\ d.trackers[k].raw = c.trackers[k].raw /\ d.trackers[k].key = c.trackers[k].key
             /\ d.trackers[k].hits = c.trackers[k].hits
  <2> DEFINE t == c.trackers[k]
             leave == Leave(c, leaving, k)
             refs == t.refs - Cardinality(leave)
             pending == t.pending \cup IF leave # {} /\ refs = 0 THEN {"hide"} ELSE {}
  <2>1. IsTracker(t) /\ t.refs = Cardinality(Holders(c, k)) /\ WillShow(c, k) /\ Counted(c, k)
    BY <1>3 DEF Trackers, Lists, Counted
  <2>2. k # 0
    BY <1>3
  <2>3. Holders(d, k) = Holders(c, k) \ leaving /\ leave = Holders(c, k) \cap leaving
    BY <1>4, <1>6, <1>7, <2>2 DEF Holders, Leave
  <2>4. IsFiniteSet(Holders(c, k)) /\ Cardinality(Holders(c, k)) \in Nat
    BY <1>3, HoldersFacts
  <2>5. IsFiniteSet(Holders(d, k)) /\ Cardinality(Holders(d, k)) = Cardinality(Holders(c, k)) - Cardinality(leave)
    BY <2>3, <2>4, FS_Difference
  <2>6. Cardinality(Holders(d, k)) \in Nat
    BY <2>5, FS_CardinalityType
  <2>7. refs \in Nat /\ refs = Cardinality(Holders(d, k))
    BY <2>1, <2>5, <2>6
  <2>8. leave = {} => refs = t.refs
    BY <2>1, FS_EmptySet DEF IsTracker
  <2>9. d.trackers[k] = [t EXCEPT !.refs = refs, !.pending = pending]
    BY <1>5 DEF Left
  <2>10. pending \subseteq {"show", "update", "hide"}
    BY <2>1 DEF IsTracker
  <2>11. leave # {} => t.refs # 0
    <3>1. leave # {} => Holders(c, k) # {}
      BY <2>3
    <3> QED BY <1>3, <2>1, <3>1, HoldersFacts
  <2>12. /\ refs # 0 => t.refs # 0 /\ pending = t.pending
         /\ leave = {} => pending = t.pending
         /\ leave # {} /\ refs = 0 => "hide" \in pending
         /\ "show" \in pending => "show" \in t.pending
    <3>1. refs # 0 => t.refs # 0
      BY <2>8, <2>11
    <3> HIDE DEF refs, leave, t
    <3> QED BY <3>1
  <2> HIDE DEF refs, pending, leave
  <2>13. /\ IsTracker(d.trackers[k]) /\ d.trackers[k].refs = refs /\ d.trackers[k].pending = pending
         /\ d.trackers[k].raw = t.raw /\ d.trackers[k].key = t.key
    BY <2>1, <2>7, <2>9, <2>10 DEF IsTracker
  <2>14. d.trackers[k].hits = t.hits
    BY <2>1, <2>9 DEF IsTracker
  <2>15. Counted(d, k)
    BY <2>7, <2>13 DEF Counted
  <2>16. WillShow(d, k)
    <3>1. d.ui.trackers[k] = c.ui.trackers[k]
      BY <1>2
    <3> QED BY <2>1, <2>8, <2>12, <2>13, <3>1 DEF WillShow
  <2> QED BY <2>13, <2>14, <2>15, <2>16
<1>9. Length(d.lb) /\ Length(d.trackers) /\ Len(d.trackers) = Len(c.trackers)
  BY <1>3, <1>4, <1>5, LengthIs
<1>10. Lists(d)
  BY <1>2, <1>3, <1>4, <1>5, <1>7, <1>8, <1>9 DEF Lists, Lb
<1>11. \A j \in Lb(d) : Belongs(d, j)
  <2>1. TAKE j \in Lb(d)
  <2>2. CASE j \in leaving
    BY <1>4, <1>7, <2>2 DEF Belongs
  <2>3. CASE j \notin leaving
    <3>1. d.lb[j] = c.lb[j] /\ Belongs(c, j)
      BY <1>4, <1>6, <2>3 DEF Trackers
    <3> QED BY <1>2, <1>5, <1>8, <3>1 DEF Belongs
  <2> QED BY <2>2, <2>3
<1>12. \A k \in DOMAIN d.trackers : Counted(d, k) /\ WillShow(d, k)
  BY <1>5, <1>8
<1> QED BY <1>1, <1>4, <1>5, <1>6, <1>8, <1>10, <1>11, <1>12 DEF Trackers

(* What becomes of the lists when a leaderboard is given a tracker.        *)
Given(c, j, k) == [c.lb EXCEPT ![j] = Gives(c.lb[j], k)]
WithTracker(c, k, t) == [n \in DOMAIN c.trackers \cup {k} |-> IF n = k THEN t ELSE c.trackers[n]]
WithScreen(c, k) ==
  [n \in DOMAIN c.ui.trackers \cup {k} |-> IF n \in DOMAIN c.ui.trackers THEN c.ui.trackers[n] ELSE None]

(* A tracker that is shared, or claimed, as what its next events show is   *)
(* its value.                                                              *)
Holdable(c, j, k, t) ==
  /\ IsTracker(t) /\ t.key = c.title.lb[j].key /\ t.hits = c.title.lb[j].hits
  /\ "hide" \notin t.pending
  /\ IF k \in DOMAIN c.trackers
     THEN /\ t.refs = c.trackers[k].refs + 1
          /\ c.trackers[k].refs # 0 => t.key = c.trackers[k].key /\ t.hits = c.trackers[k].hits
          /\ t.pending = {} => c.ui.trackers[k] = t.raw
          /\ "show" \in t.pending => c.ui.trackers[k] = None
     ELSE k = Len(c.trackers) + 1 /\ t.refs = 1 /\ t.pending # {}

(* A tracker is held by one leaderboard more. *)
LEMMA HeldTracker ==
  ASSUME NEW c, Trackers(c), NEW j \in Lb(c), c.lb[j].tracker = 0, NEW k, NEW t, Holdable(c, j, k, t),
         NEW d, d.title = c.title, d.lb = Given(c, j, k), d.trackers = WithTracker(c, k, t), d.ui.trackers = WithScreen(c, k)
  PROVE  /\ Trackers(d) /\ Lb(d) = Lb(c) /\ k # 0 /\ DOMAIN d.trackers = DOMAIN c.trackers \cup {k}
         /\ d.lb[j] = Gives(c.lb[j], k) /\ \A i \in Lb(c) : i # j => d.lb[i] = c.lb[i]
         /\ d.trackers[k] = t /\ \A n \in DOMAIN c.trackers : n # k => d.trackers[n] = c.trackers[n]
<1> DEFINE N == IF k \in DOMAIN c.trackers THEN Len(c.trackers) ELSE Len(c.trackers) + 1
<1>1. /\ Lists(c) /\ Len(c.lb) \in Nat /\ Lb(c) = 1..Len(c.lb) /\ Lb(c) = 1..Len(c.title.lb)
      /\ Len(c.trackers) \in Nat /\ DOMAIN c.trackers = 1..Len(c.trackers)
      /\ DOMAIN c.ui.trackers = 1..Len(c.trackers)
      /\ c.lb = [i \in 1..Len(c.lb) |-> c.lb[i]]
  BY DEF Trackers, Lists, Length, Lb
<1>2. N \in Nat /\ DOMAIN c.trackers \cup {k} = 1..N /\ k \in Nat \ {0}
  BY <1>1 DEF Holdable
<1> HIDE DEF N
<1>3. /\ d.lb = [i \in 1..Len(c.lb) |-> d.lb[i]] /\ Lb(d) = Lb(c)
      /\ d.lb[j] = Gives(c.lb[j], k) /\ \A i \in Lb(c) : i # j => d.lb[i] = c.lb[i]
  BY <1>1 DEF Given, Lb
<1>4. d.lb[j] \in LeaderboardType /\ d.lb[j].tracker = k
  <2>1. c.lb[j] \in LeaderboardType /\ k \in Nat /\ d.lb[j] = Gives(c.lb[j], k)
    BY <1>1, <1>2, <1>3 DEF Lists
  <2> QED BY ONLY <2>1, GivenFacts
<1>5. \A i \in Lb(d) : d.lb[i] \in LeaderboardType
  BY <1>1, <1>3, <1>4 DEF Lists
<1>6. /\ d.trackers = [n \in 1..N |-> d.trackers[n]] /\ DOMAIN d.trackers = DOMAIN c.trackers \cup {k}
      /\ d.trackers[k] = t /\ \A n \in DOMAIN c.trackers : n # k => d.trackers[n] = c.trackers[n]
  BY <1>2 DEF WithTracker
<1>7. /\ d.ui.trackers = [n \in 1..N |-> d.ui.trackers[n]] /\ \A n \in DOMAIN c.trackers : d.ui.trackers[n] = c.ui.trackers[n]
      /\ k \notin DOMAIN c.trackers => d.ui.trackers[k] = None
  BY <1>1, <1>2 DEF WithScreen
<1>8. Length(d.lb) /\ Length(d.trackers) /\ Length(d.ui.trackers) /\ Len(d.trackers) = N /\ Len(d.ui.trackers) = N
  BY <1>1, <1>2, <1>3, <1>6, <1>7, LengthIs
<1>9. \A n \in DOMAIN d.trackers : IsTracker(d.trackers[n])
  BY <1>1, <1>6 DEF Lists, Holdable
<1>10. Lists(d)
  BY <1>1, <1>3, <1>5, <1>8, <1>9 DEF Lists, Lb
<1>11. \A n \in DOMAIN c.trackers : n # k => Holders(d, n) = Holders(c, n)
  <2>1. 0 \notin DOMAIN c.trackers
    BY <1>1
  <2>2. \A n \in DOMAIN c.trackers : n # k => \A i \in Lb(c) : d.lb[i].tracker = n <=> c.lb[i].tracker = n
    BY <1>3, <1>4, <2>1
  <2> QED BY ONLY <1>3, <2>2 DEF Holders
<1>12. Holders(d, k) = Holders(c, k) \cup {j} /\ j \notin Holders(c, k)
  <2>1. \A i \in Lb(c) : i # j => (d.lb[i].tracker = k <=> c.lb[i].tracker = k)
    BY <1>3
  <2>2. d.lb[j].tracker = k /\ c.lb[j].tracker # k /\ j \in Lb(c) /\ Lb(d) = Lb(c)
    BY <1>2, <1>3, <1>4
  <2> QED BY ONLY <2>1, <2>2 DEF Holders
<1>13. IsFiniteSet(Holders(c, k)) /\ Cardinality(Holders(c, k)) \in Nat
  BY <1>1, HoldersFacts
<1>14. Cardinality(Holders(d, k)) = Cardinality(Holders(c, k)) + 1
  BY <1>12, <1>13, FS_AddElement
<1>15. IF k \in DOMAIN c.trackers THEN c.trackers[k].refs = Cardinality(Holders(c, k)) ELSE Holders(c, k) = {}
  BY <1>2 DEF Trackers, Counted, Belongs, Holders
<1>16. Counted(d, k)
  <2>1. t.refs = Cardinality(Holders(c, k)) + 1
    BY <1>13, <1>15, FS_EmptySet DEF Holdable
  <2> QED BY <1>6, <1>14, <2>1 DEF Counted
<1>17. WillShow(d, k)
  <2>1. t.refs # 0 /\ "hide" \notin t.pending
    BY <1>13, <1>15 DEF Holdable
  <2>2. (t.pending = {} => d.ui.trackers[k] = t.raw) /\ ("show" \in t.pending => d.ui.trackers[k] = None)
    BY <1>7 DEF Holdable
  <2> QED BY <1>6, <2>1, <2>2 DEF WillShow
<1>18. \A n \in DOMAIN d.trackers : Counted(d, n) /\ WillShow(d, n)
  <2>1. TAKE n \in DOMAIN d.trackers
  <2>2. CASE n = k
    BY <1>16, <1>17, <2>2
  <2>3. CASE n # k
    <3>1. n \in DOMAIN c.trackers
      BY <1>6, <2>3
    <3>2. /\ d.trackers[n] = c.trackers[n] /\ d.ui.trackers[n] = c.ui.trackers[n] /\ Holders(d, n) = Holders(c, n)
          /\ Counted(c, n) /\ WillShow(c, n)
      BY <1>6, <1>7, <1>11, <2>3, <3>1 DEF Trackers
    <3> QED BY ONLY <3>2 DEF Counted, WillShow
  <2> QED BY <2>2, <2>3
<1>19. \A i \in Lb(d) : Belongs(d, i)
  <2>1. TAKE i \in Lb(d)
  <2>2. CASE i = j
    BY <1>2, <1>4, <1>6, <2>2 DEF Belongs, Holdable
  <2>3. CASE i # j /\ c.lb[i].tracker = k
    <3>1. d.lb[i] = c.lb[i] /\ Belongs(c, i) /\ i \in Holders(c, k)
      BY <1>3, <2>3 DEF Trackers, Holders
    <3>2. /\ k \in DOMAIN c.trackers /\ c.trackers[k].key = c.title.lb[i].key /\ c.trackers[k].hits = c.title.lb[i].hits
          /\ c.trackers[k].refs # 0
      <4>1. k \in DOMAIN c.trackers /\ c.trackers[k].key = c.title.lb[i].key /\ c.trackers[k].hits = c.title.lb[i].hits
        BY <1>2, <2>3, <3>1 DEF Belongs
      <4>2. Cardinality(Holders(c, k)) # 0
        BY <1>1, <3>1, HoldersFacts
      <4> QED BY <1>15, <4>1, <4>2
    <3> QED BY <1>6, <2>3, <3>1, <3>2 DEF Belongs, Holdable
  <2>4. CASE i # j /\ c.lb[i].tracker # k
    <3>1. d.lb[i] = c.lb[i] /\ Belongs(c, i)
      BY <1>3, <2>4 DEF Trackers
    <3> QED BY <1>6, <2>4, <3>1 DEF Belongs
  <2> QED BY <2>2, <2>3, <2>4
<1> QED BY <1>2, <1>3, <1>6, <1>10, <1>18, <1>19 DEF Trackers

(* A tracker that another leaderboard attaches to, and one that is claimed. *)
Attached(t, value) ==
  [t EXCEPT !.refs = @ + 1, !.raw = value, !.pending = (@ \cup IF t.raw # value THEN {"update"} ELSE {}) \ {"hide"}]
Claimed(l, value) == [refs |-> 1, key |-> l.key, raw |-> value, hits |-> l.hits, pending |-> {"show"}]

\* its pending events
Attaching(t, value) == (t.pending \cup IF t.raw # value THEN {"update"} ELSE {}) \ {"hide"}

(* A tracker that another leaderboard attaches to. *)
LEMMA AttachedFacts ==
  ASSUME NEW t, IsTracker(t), NEW value, value \in Nat, NEW w, w = Attached(t, value)
  PROVE  /\ IsTracker(w) /\ w.refs = t.refs + 1 /\ w.raw = value /\ w.key = t.key /\ w.hits = t.hits
         /\ w.pending = Attaching(t, value)
<1> DEFINE pending == Attaching(t, value)
<1>1. w = [t EXCEPT !.refs = t.refs + 1, !.raw = value, !.pending = pending]
  BY DEF Attached, Attaching
<1>2. pending \subseteq {"show", "update", "hide"} /\ t.refs + 1 \in Nat
  BY DEF IsTracker, Attaching
<1> HIDE DEF pending
<1>3. IsTracker(w) /\ w.refs = t.refs + 1 /\ w.raw = value /\ w.key = t.key /\ w.pending = pending
  BY <1>1, <1>2 DEF IsTracker
<1>4. w.hits = t.hits
  BY <1>1 DEF IsTracker
<1> QED BY <1>3, <1>4 DEF pending

\* the tracker a leaderboard is given
TrackerFor(c, j) ==
  IF Shares(c, j) # {} THEN Min(Shares(c, j)) ELSE IF Unclaimed(c) # {} THEN Min(Unclaimed(c)) ELSE Len(c.trackers) + 1

(* rc_client_allocate_leaderboard_tracker: a shared tracker, or one that is claimed. *)
LEMMA AllocateTrackerEffect ==
  ASSUME NEW c, IsClient(c), NEW j, NEW d, d = AllocateTracker(c, j), NEW k,
         k = TrackerFor(c, j)
  PROVE  /\ Same(c, d, BoardFields) /\ SameScreen(c, d, {"trackers"}) /\ d.lb = Given(c, j, k)
         /\ Shares(c, j) # {} =>
              /\ d.trackers = [c.trackers EXCEPT ![k] = Attached(c.trackers[k], c.lb[j].value)]
              /\ d.ui.trackers = c.ui.trackers
         /\ Shares(c, j) = {} =>
              /\ d.trackers = WithTracker(c, k, Claimed(c.title.lb[j], c.lb[j].value))
              /\ d.ui.trackers = WithScreen(c, k)
<1> DEFINE lb == Given(c, j, k)
<1>1. CASE Shares(c, j) # {}
  <2> DEFINE trackers == [c.trackers EXCEPT ![k] = Attached(c.trackers[k], c.lb[j].value)]
  <2>1. d = [c EXCEPT !.lb = lb, !.trackers = trackers]
    BY <1>1 DEF AllocateTracker, TrackerFor, Given, Gives, Attached, IsClient, Fields
  <2> HIDE DEF lb, trackers
  <2>2. Same(c, d, {"lb", "trackers"}) /\ d.lb = lb /\ d.trackers = trackers
    BY <2>1 DEF IsClient, Same, Fields
  <2>3. d.ui = c.ui
    BY <2>2 DEF Same, Fields
  <2>4. Same(c, d, BoardFields) /\ SameScreen(c, d, {"trackers"})
    BY <2>2, <2>3 DEF Same, SameScreen, BoardFields
  <2> QED BY <1>1, <2>2, <2>3, <2>4 DEF lb, trackers
<1>2. CASE Shares(c, j) = {}
  <2> DEFINE trackers == WithTracker(c, k, Claimed(c.title.lb[j], c.lb[j].value))
             shown == WithScreen(c, k)
             u == [c.ui EXCEPT !.trackers = shown]
  <2>1. d = [c EXCEPT !.lb = lb, !.trackers = trackers, !.ui = u]
    BY <1>2, ZenonT(60) DEF AllocateTracker, TrackerFor, Given, Gives, WithTracker, WithScreen, Claimed, IsClient, Fields
  <2> HIDE DEF lb, trackers, shown
  <2>2. /\ u = [f \in ScreenFields |-> u[f]] /\ u.trackers = shown
        /\ \A f \in ScreenFields \ {"trackers"} : u[f] = c.ui[f]
    BY DEF IsClient, ScreenFields
  <2> HIDE DEF u
  <2>3. Same(c, d, BoardFields) /\ d.lb = lb /\ d.trackers = trackers /\ d.ui = u
    BY <2>1, <2>2 DEF IsClient, Same, Fields, BoardFields
  <2>4. SameScreen(c, d, {"trackers"})
    BY <2>2, <2>3 DEF SameScreen
  <2> QED BY <1>2, <2>2, <2>3, <2>4 DEF lb, trackers, shown
<1> QED BY <1>1, <1>2

(* rc_client_allocate_leaderboard_tracker: the leaderboard has a tracker   *)
(* with its value, and another's value is as it was or is not its own.     *)
LEMMA AllocateTrackerKeeps ==
  ASSUME NEW c, IsClient(c), Trackers(c), c.title \in Titles, NEW j \in Lb(c), c.lb[j].tracker = 0,
         NEW d, d = AllocateTracker(c, j)
  PROVE  /\ Same(c, d, BoardFields) /\ SameScreen(c, d, {"trackers"}) /\ Trackers(d) /\ Lb(d) = Lb(c)
         /\ \A i \in Lb(c) : i # j => d.lb[i] = c.lb[i]
         /\ \E k \in Nat \ {0} :
              /\ d.lb[j] = Gives(c.lb[j], k) /\ d.trackers[k].raw = c.lb[j].value
              /\ \A i \in Lb(c) : c.lb[i].tracker = k =>
                   c.trackers[k].raw = c.lb[j].value \/ (~c.title.lb[i].hits /\ ~c.title.lb[j].hits)
              /\ \A n \in DOMAIN c.trackers : n # k => d.trackers[n].raw = c.trackers[n].raw
<1> DEFINE l == c.title.lb[j]
           value == c.lb[j].value
<1>0. PICK k : k = TrackerFor(c, j)
  OBVIOUS
<1>1. /\ Same(c, d, BoardFields) /\ SameScreen(c, d, {"trackers"}) /\ d.lb = Given(c, j, k)
      /\ Shares(c, j) # {} =>
           /\ d.trackers = [c.trackers EXCEPT ![k] = Attached(c.trackers[k], value)]
           /\ d.ui.trackers = c.ui.trackers
      /\ Shares(c, j) = {} =>
           /\ d.trackers = WithTracker(c, k, Claimed(l, value))
           /\ d.ui.trackers = WithScreen(c, k)
  BY <1>0, AllocateTrackerEffect
<1>2. /\ Lists(c) /\ Len(c.trackers) \in Nat /\ DOMAIN c.trackers = 1..Len(c.trackers)
      /\ DOMAIN c.ui.trackers = DOMAIN c.trackers /\ value \in Nat /\ Lb(c) = DOMAIN c.title.lb
      /\ \A n \in DOMAIN c.trackers : IsTracker(c.trackers[n]) /\ Counted(c, n) /\ WillShow(c, n)
      /\ \A i \in Lb(c) : Belongs(c, i)
      /\ c.trackers = [n \in DOMAIN c.trackers |-> c.trackers[n]]
      /\ c.ui.trackers = [n \in DOMAIN c.trackers |-> c.ui.trackers[n]]
  BY TitleFacts DEF Trackers, Lists, Length, LeaderboardType, Lb
<1>3. d.title = c.title
  BY <1>1 DEF Same, Fields, BoardFields
<1>4. \A i \in Lb(c) : c.title.lb[i].key = l.key => c.title.lb[i].hits = l.hits
  BY <1>2, TitleFacts
<1>5. CASE Shares(c, j) # {}
  <2>1. k \in Shares(c, j)
    <3>1. Shares(c, j) \in SUBSET Nat
      BY <1>2 DEF Shares
    <3> QED BY <1>0, <1>5, <3>1, MinIn DEF TrackerFor
  <2>2. /\ k \in DOMAIN c.trackers /\ c.trackers[k].refs > 0 /\ c.trackers[k].key = l.key
        /\ c.trackers[k].raw = value \/ ~c.trackers[k].hits
    BY <2>1 DEF Shares
  <2>0. PICK t : t = Attached(c.trackers[k], value)
    OBVIOUS
  <2> DEFINE old == c.trackers[k]
             pending == Attaching(old, value)
  <2>3. IsTracker(old) /\ WillShow(c, k) /\ old.refs # 0
    BY <1>2, <2>2 DEF IsTracker
  <2>4. "hide" \notin old.pending /\ (old.pending = {} => c.ui.trackers[k] = old.raw)
        /\ ("show" \in old.pending => c.ui.trackers[k] = None)
    BY <2>3 DEF WillShow
  <2>5. /\ pending \subseteq {"show", "update", "hide"} /\ "hide" \notin pending
        /\ pending = {} => c.ui.trackers[k] = value
        /\ "show" \in pending => c.ui.trackers[k] = None
    BY <2>3, <2>4 DEF IsTracker, Attaching
  <2>6. value \in Nat
    BY <1>2
  <2>7. IsTracker(t) /\ t.refs = old.refs + 1 /\ t.raw = value /\ t.pending = pending /\ t.key = old.key
    BY ONLY <2>0, <2>3, <2>6, AttachedFacts
  <2>8. t.hits = old.hits
    BY ONLY <2>0, <2>3, <2>6, AttachedFacts
  <2> HIDE DEF pending
  <2>9. PICK i \in Lb(c) : c.lb[i].tracker = k
    <3>1. Cardinality(Holders(c, k)) # 0
      BY <1>2, <2>2, <2>3 DEF Counted
    <3>2. Holders(c, k) # {}
      BY <1>2, <3>1, HoldersFacts
    <3> QED BY <3>2 DEF Holders
  <2>10. old.hits = l.hits
    <3>1. k # 0
      BY <1>2, <2>2
    <3>2. old.key = c.title.lb[i].key /\ old.hits = c.title.lb[i].hits
      BY <1>2, <2>9, <3>1 DEF Belongs
    <3> QED BY <1>4, <2>2, <3>2
  <2>11. Holdable(c, j, k, t)
    BY <2>2, <2>5, <2>7, <2>8, <2>10 DEF Holdable
  <2>12. d.trackers = WithTracker(c, k, t) /\ d.ui.trackers = WithScreen(c, k) /\ d.lb = Given(c, j, k)
    <3>1. d.trackers = [c.trackers EXCEPT ![k] = t] /\ d.ui.trackers = c.ui.trackers /\ d.lb = Given(c, j, k)
      BY <1>1, <1>5, <2>0
    <3> QED BY <1>2, <2>2, <3>1 DEF WithTracker, WithScreen
  <2>13. /\ Trackers(d) /\ Lb(d) = Lb(c) /\ k # 0
         /\ d.lb[j] = Gives(c.lb[j], k) /\ \A n \in Lb(c) : n # j => d.lb[n] = c.lb[n]
         /\ d.trackers[k] = t /\ \A n \in DOMAIN c.trackers : n # k => d.trackers[n] = c.trackers[n]
    BY <1>3, <2>11, <2>12, HeldTracker
  <2>14. \A n \in Lb(c) : c.lb[n].tracker = k => old.raw = value \/ (~c.title.lb[n].hits /\ ~l.hits)
    <3>1. \A n \in Lb(c) : c.lb[n].tracker = k => c.title.lb[n].hits = old.hits
      BY <1>2, <2>13 DEF Belongs
    <3> QED BY <2>2, <2>10, <3>1
  <2>15. k \in Nat \ {0}
    BY <1>2, <2>2
  <2> QED BY <1>1, <2>7, <2>13, <2>14, <2>15
<1>6. CASE Shares(c, j) = {}
  <2>1. IF k \in DOMAIN c.trackers THEN k \in Unclaimed(c) ELSE k = Len(c.trackers) + 1
    <3>1. CASE Unclaimed(c) # {}
      <4>1. Unclaimed(c) \in SUBSET Nat
        BY <1>2 DEF Unclaimed
      <4>2. k \in Unclaimed(c)
        BY <1>0, <1>6, <3>1, <4>1, MinIn DEF TrackerFor
      <4> QED BY <4>2 DEF Unclaimed
    <3>2. CASE Unclaimed(c) = {}
      BY <1>0, <1>2, <1>6, <3>2 DEF TrackerFor
    <3> QED BY <3>1, <3>2
  <2> DEFINE t == Claimed(l, value)
  <2>2. /\ IsTracker(t) /\ t.refs = 1 /\ t.raw = value /\ t.key = l.key /\ t.pending = {"show"}
    BY <1>2 DEF IsTracker, Claimed
  <2>3. t.hits = l.hits
    BY DEF Claimed
  <2> HIDE DEF t
  <2>4. k \in DOMAIN c.trackers => c.trackers[k].refs = 0 /\ c.ui.trackers[k] = None
    BY <1>2, <2>1 DEF Unclaimed, WillShow
  <2>5. Holdable(c, j, k, t)
    BY <2>1, <2>2, <2>3, <2>4 DEF Holdable
  <2>6. d.trackers = WithTracker(c, k, t) /\ d.ui.trackers = WithScreen(c, k) /\ d.lb = Given(c, j, k)
    BY <1>1, <1>6 DEF t
  <2>7. /\ Trackers(d) /\ Lb(d) = Lb(c) /\ k # 0
        /\ d.lb[j] = Gives(c.lb[j], k) /\ \A n \in Lb(c) : n # j => d.lb[n] = c.lb[n]
        /\ d.trackers[k] = t /\ \A n \in DOMAIN c.trackers : n # k => d.trackers[n] = c.trackers[n]
    BY <1>3, <2>5, <2>6, HeldTracker
  <2>8. \A i \in Lb(c) : c.lb[i].tracker # k
    <3>1. TAKE i \in Lb(c)
    <3>2. CASE k \in DOMAIN c.trackers
      <4>1. Holders(c, k) = {}
        BY <1>2, <2>4, <3>2, HoldersFacts DEF Counted
      <4> QED BY <4>1 DEF Holders
    <3>3. CASE k \notin DOMAIN c.trackers
      BY <1>2, <2>7, <3>3 DEF Belongs
    <3> QED BY <3>2, <3>3
  <2>9. k \in Nat \ {0}
    BY <1>2, <2>1, <2>7
  <2> QED BY <1>1, <2>2, <2>7, <2>8, <2>9
<1> QED BY <1>5, <1>6

(* The events of the trackers: each that is held shows its value.          *)
LEMMA RaisedBoards ==
  ASSUME NEW c, Trackers(c), NEW d, d.title = c.title, d.hardcore = c.hardcore, d.odd = c.odd,
         d.trackers = ToldAll(c.trackers), d.ui.trackers = SeenAll(c), d.lb = ToldAll(c.lb)
  PROVE  /\ Trackers(d) /\ Lb(d) = Lb(c)
         /\ \A j \in Lb(d) : d.lb[j].pending = {} /\ (BoardAsPlayed(c, j) => BoardAsPlayed(d, j))
                                                  /\ (SameValue(c, j) => SameValue(d, j))
         /\ \A k \in DOMAIN d.trackers : d.trackers[k].pending = {}
<1>1. /\ Lists(c) /\ Len(c.lb) \in Nat /\ Lb(c) = 1..Len(c.lb) /\ Lb(c) = 1..Len(c.title.lb)
      /\ Len(c.trackers) \in Nat /\ DOMAIN c.trackers = 1..Len(c.trackers)
      /\ DOMAIN c.ui.trackers = 1..Len(c.trackers)
  BY DEF Trackers, Lists, Length, Lb
<1>2. /\ Lb(d) = Lb(c) /\ d.lb = [j \in 1..Len(c.lb) |-> d.lb[j]] /\ \A j \in Lb(c) : d.lb[j] = Told(c.lb[j])
  BY <1>1 DEF ToldAll, Lb
<1>3. /\ DOMAIN d.trackers = DOMAIN c.trackers /\ d.trackers = [k \in 1..Len(c.trackers) |-> d.trackers[k]]
      /\ \A k \in DOMAIN c.trackers : d.trackers[k] = Told(c.trackers[k])
  BY <1>1 DEF ToldAll
<1>4. /\ d.ui.trackers = [k \in 1..Len(c.trackers) |-> d.ui.trackers[k]]
      /\ \A k \in DOMAIN c.trackers : d.ui.trackers[k] = Seen(c, k)
  BY <1>1 DEF SeenAll
<1>5. \A j \in Lb(c) : /\ d.lb[j] \in LeaderboardType /\ d.lb[j].state = c.lb[j].state /\ d.lb[j].run = c.lb[j].run
                       /\ d.lb[j].value = c.lb[j].value /\ d.lb[j].tracker = c.lb[j].tracker /\ d.lb[j].pending = {}
  <2>1. \A l \in LeaderboardType : /\ Told(l) \in LeaderboardType /\ Told(l).state = l.state /\ Told(l).run = l.run
                                   /\ Told(l).value = l.value /\ Told(l).tracker = l.tracker /\ Told(l).pending = {}
    BY DEF Told, LeaderboardType
  <2>2. \A j \in Lb(c) : c.lb[j] \in LeaderboardType
    BY <1>1 DEF Lists
  <2> QED BY <1>2, <2>1, <2>2, ZenonT(60)
<1>6. \A k \in DOMAIN c.trackers :
        /\ IsTracker(d.trackers[k]) /\ d.trackers[k].refs = c.trackers[k].refs /\ d.trackers[k].key = c.trackers[k].key
        /\ d.trackers[k].raw = c.trackers[k].raw /\ d.trackers[k].pending = {}
  <2>1. TAKE k \in DOMAIN c.trackers
  <2>2. IsTracker(c.trackers[k]) /\ d.trackers[k] = [c.trackers[k] EXCEPT !.pending = {}]
    BY <1>1, <1>3 DEF Lists, Told
  <2> QED BY <2>2 DEF IsTracker
<1>7. \A k \in DOMAIN c.trackers : d.trackers[k].hits = c.trackers[k].hits
  <2>1. TAKE k \in DOMAIN c.trackers
  <2>2. IsTracker(c.trackers[k]) /\ d.trackers[k] = [c.trackers[k] EXCEPT !.pending = {}]
    BY <1>1, <1>3 DEF Lists, Told
  <2> QED BY <2>2 DEF IsTracker
<1>8. Length(d.lb) /\ Length(d.trackers) /\ Length(d.ui.trackers) /\ Len(d.trackers) = Len(c.trackers)
      /\ Len(d.ui.trackers) = Len(c.trackers)
  BY <1>1, <1>2, <1>3, <1>4, LengthIs
<1>9. Lists(d)
  BY <1>1, <1>2, <1>3, <1>5, <1>6, <1>8 DEF Lists, Lb
<1>10. \A j \in Lb(d) : Belongs(d, j)
  <2>1. TAKE j \in Lb(d)
  <2>2. Belongs(c, j) /\ d.lb[j].tracker = c.lb[j].tracker
    BY <1>2, <1>5 DEF Trackers
  <2>3. \A k \in DOMAIN c.trackers : d.trackers[k].key = c.trackers[k].key /\ d.trackers[k].hits = c.trackers[k].hits
    BY <1>6, <1>7
  <2>4. DOMAIN d.trackers = DOMAIN c.trackers /\ d.title = c.title
    BY <1>3
  <2> QED BY ONLY <2>2, <2>3, <2>4 DEF Belongs
<1>11. \A k \in DOMAIN d.trackers : Counted(d, k)
  <2>1. \A k : Holders(d, k) = Holders(c, k)
    BY <1>2, <1>5 DEF Holders
  <2> QED BY <1>3, <1>6, <2>1 DEF Trackers, Counted
<1>12. ASSUME NEW k \in DOMAIN c.trackers PROVE WillShow(d, k)
  <2>1. WillShow(c, k) /\ IsTracker(c.trackers[k])
    BY <1>1 DEF Trackers, Lists
  <2>2. /\ "hide" \notin c.trackers[k].pending /\ c.trackers[k].pending # {} => Seen(c, k) = c.trackers[k].raw
        /\ "hide" \in c.trackers[k].pending /\ "show" \notin c.trackers[k].pending => Seen(c, k) = None
        /\ c.trackers[k].pending = {} => Seen(c, k) = c.ui.trackers[k]
        /\ "hide" \in c.trackers[k].pending /\ "show" \in c.trackers[k].pending => Seen(c, k) = c.ui.trackers[k]
    <3> DEFINE p == c.trackers[k].pending
    <3>1. Seen(c, k) = CASE p \cap {"hide", "show"} = {"hide"} -> None
                         [] "hide" \notin p /\ p # {} -> c.trackers[k].raw
                         [] OTHER -> c.ui.trackers[k]
      BY DEF Seen
    <3>2. p \cap {"hide", "show"} = {"hide"} <=> "hide" \in p /\ "show" \notin p
      OBVIOUS
    <3> HIDE DEF p
    <3>3. /\ "hide" \notin p /\ p # {} => Seen(c, k) = c.trackers[k].raw
          /\ "hide" \in p /\ "show" \notin p => Seen(c, k) = None
          /\ p = {} => Seen(c, k) = c.ui.trackers[k]
          /\ "hide" \in p /\ "show" \in p => Seen(c, k) = c.ui.trackers[k]
      BY <3>1, <3>2
    <3> QED BY <3>3 DEF p
  <2>3. IF c.trackers[k].refs = 0 THEN Seen(c, k) = None ELSE Seen(c, k) = c.trackers[k].raw
    BY <2>1, <2>2 DEF WillShow
  <2>4. d.trackers[k].pending = {} /\ d.trackers[k].refs = c.trackers[k].refs /\ d.trackers[k].raw = c.trackers[k].raw
        /\ d.ui.trackers[k] = Seen(c, k)
    BY <1>4, <1>6
  <2> QED BY <2>3, <2>4 DEF WillShow
<1>13. \A j \in Lb(d) : BoardAsPlayed(c, j) => BoardAsPlayed(d, j)
  BY <1>2, <1>5 DEF BoardAsPlayed
<1>14. \A j \in Lb(d) : SameValue(c, j) => SameValue(d, j)
  <2>1. TAKE j \in Lb(d)
  <2>2. d.lb[j].tracker = c.lb[j].tracker /\ d.lb[j].value = c.lb[j].value
    BY <1>2, <1>5
  <2>3. c.lb[j].tracker # 0 => c.lb[j].tracker \in DOMAIN c.trackers
    BY <1>2 DEF Trackers, Belongs
  <2>4. \A k \in DOMAIN c.trackers : d.trackers[k].raw = c.trackers[k].raw
    BY <1>6
  <2> QED BY ONLY <2>2, <2>3, <2>4 DEF SameValue
<1> QED BY <1>2, <1>3, <1>5, <1>6, <1>9, <1>10, <1>11, <1>12, <1>13, <1>14 DEF Trackers

-----------------------------------------------------------------------------
(* Each leaderboard in its order.                                          *)

(* What holds of 0 and passes from each number to the next holds of all.   *)
LEMMA InductiveSet ==
  ASSUME NEW S \in SUBSET Nat, 0 \in S, \A n \in Nat : n \in S => n + 1 \in S
  PROVE  S = Nat
<1>1. SUFFICES ASSUME Nat \ S # {} PROVE FALSE
  OBVIOUS
<1>2. Nat \ S \in SUBSET Nat
  OBVIOUS
<1>3. PICK x : x = Min(Nat \ S)
  OBVIOUS
<1>4. x \in Nat \ S /\ \A y \in Nat \ S : x <= y
  BY <1>1, <1>2, <1>3, MinIn
<1>5. x - 1 \in Nat /\ ~(x <= x - 1) /\ x = (x - 1) + 1
  BY <1>4
<1>6. x - 1 \in S
  BY <1>4, <1>5
<1> QED BY <1>4, <1>5, <1>6

(* What of an earlier client a step may change, of the leaderboard j: no   *)
(* other changes, no tracker but that it has or is given takes a value,    *)
(* and it is its own.                                                      *)
Moved(c, d, j) ==
  /\ Same(c, d, BoardFields) /\ SameScreen(c, d, {"trackers"}) /\ Lb(d) = Lb(c)
  /\ \A i \in Lb(c) : i # j => d.lb[i] = c.lb[i]
  /\ c.lb[j].tracker # 0 => d.lb[j].tracker \in {0, c.lb[j].tracker}

(* The other leaderboards are as they were. *)
LEMMA MovedFacts ==
  ASSUME NEW c, NEW d, NEW j, Moved(c, d, j)
  PROVE  /\ IsClient(d) /\ d.title = c.title /\ d.hardcore = c.hardcore /\ d.odd = c.odd
         /\ \A i \in Lb(c) : i # j => (BoardAsPlayed(d, i) <=> BoardAsPlayed(c, i))
<1>1. IsClient(d) /\ d.title = c.title /\ d.hardcore = c.hardcore /\ d.odd = c.odd
  BY DEF Moved, Same, Fields, BoardFields
<1> QED BY <1>1 DEF Moved, BoardAsPlayed

\* the trackers of the others have the values they had; or the leaderboard's own, if they are its own or count no hits
OthersValue(c, d, j, value) ==
  \A i \in Lb(c) :
    LET k == c.lb[i].tracker
    IN  i # j /\ k # 0 =>
          \/ d.trackers[k].raw = c.trackers[k].raw
          \/ /\ d.trackers[k].raw = value
             /\ c.lb[j].tracker = k \/ (~c.title.lb[i].hits /\ ~c.title.lb[j].hits)

\* and if a value changed, the leaderboard holds that tracker
OwnValue(c, d, j) ==
  \A i \in Lb(c) :
    LET k == c.lb[i].tracker
    IN  i # j /\ k # 0 => d.trackers[k].raw = c.trackers[k].raw \/ d.lb[j].tracker = k

(* A leaderboard that changes, but for its tracker. *)
LEMMA ChangedOne ==
  ASSUME NEW c, IsClient(c), Trackers(c), NEW j \in Lb(c), NEW w \in LeaderboardType, w.tracker = c.lb[j].tracker,
         NEW value, NEW d, d = Changed(c, j, w)
  PROVE  Moved(c, d, j) /\ Trackers(d) /\ OthersValue(c, d, j, value) /\ d.lb[j] = w
<1>1. /\ Same(c, d, {"lb"}) /\ Trackers(d) /\ Lb(d) = Lb(c) /\ d.lb[j] = w
      /\ \A i \in Lb(c) : i # j => d.lb[i] = c.lb[i]
  BY BoardChanged
<1>2. d.trackers = c.trackers /\ d.ui = c.ui
  BY <1>1 DEF Same, Fields
<1>3. Same(c, d, BoardFields) /\ SameScreen(c, d, {"trackers"})
  BY <1>1, <1>2 DEF Same, SameScreen, BoardFields
<1>4. Moved(c, d, j)
  BY <1>1, <1>3 DEF Moved
<1>5. OthersValue(c, d, j, value)
  BY <1>2 DEF OthersValue
<1> QED BY <1>1, <1>4, <1>5

(* A leaderboard that changes, and whose value is shown. *)
LEMMA TimedOne ==
  ASSUME NEW c, IsClient(c), Trackers(c), c.title \in Titles, NEW j \in Lb(c), NEW w \in LeaderboardType,
         w.tracker = c.lb[j].tracker, NEW e, e = Changed(c, j, w),
         NEW d, d = IF c.lb[j].tracker # 0 THEN UpdateTracker(e, j) ELSE AllocateTracker(e, j)
  PROVE  /\ Moved(c, d, j) /\ Trackers(d) /\ OthersValue(c, d, j, w.value) /\ OwnValue(c, d, j)
         /\ \E k \in Nat \ {0} : d.lb[j] = Gives(w, k) /\ d.trackers[k].raw = w.value
<1>1. /\ Same(c, e, {"lb"}) /\ Trackers(e) /\ Lb(e) = Lb(c) /\ e.lb[j] = w
      /\ \A i \in Lb(c) : i # j => e.lb[i] = c.lb[i]
  BY BoardChanged
<1>2. e.trackers = c.trackers /\ e.ui = c.ui /\ e.title = c.title /\ IsClient(e)
  BY <1>1 DEF Same, Fields
<1>3. CASE c.lb[j].tracker # 0
  <2>1. d = UpdateTracker(e, j) /\ e.lb[j].tracker = w.tracker
    BY <1>1, <1>3
  <2>2. /\ Same(e, d, {"trackers"}) /\ Trackers(d) /\ DOMAIN d.trackers = DOMAIN e.trackers
        /\ d.trackers[w.tracker].raw = w.value
        /\ \A k \in DOMAIN e.trackers : k # w.tracker => d.trackers[k] = e.trackers[k]
    <3>1. j \in Lb(e) /\ w.tracker # 0
      BY <1>1, <1>3
    <3> QED BY <1>1, <1>2, <2>1, <3>1, UpdateTrackerKeeps
  <2>3. d.lb = e.lb /\ d.ui = e.ui /\ Lb(d) = Lb(c)
    BY <1>1, <2>2 DEF Same, Fields, Lb
  <2>4. Same(c, d, BoardFields) /\ SameScreen(c, d, {"trackers"})
    BY <1>1, <1>2, <2>2, <2>3 DEF Same, SameScreen, BoardFields
  <2>5. Moved(c, d, j)
    BY <1>1, <2>3, <2>4 DEF Moved
  <2>6. OthersValue(c, d, j, w.value)
    <3>1. \A i \in Lb(c) : c.lb[i].tracker # 0 => c.lb[i].tracker \in DOMAIN c.trackers
      BY DEF Trackers, Belongs
    <3> QED BY <1>2, <2>2, <3>1 DEF OthersValue
  <2>8. OwnValue(c, d, j)
    <3>1. \A i \in Lb(c) : c.lb[i].tracker # 0 => c.lb[i].tracker \in DOMAIN c.trackers
      BY DEF Trackers, Belongs
    <3>2. d.lb[j].tracker = w.tracker
      BY <1>1, <2>3
    <3> QED BY <1>2, <2>2, <3>1, <3>2 DEF OwnValue
  <2>7. d.lb[j] = Gives(w, w.tracker) /\ w.tracker \in Nat \ {0}
    <3>1. w = Gives(w, w.tracker) /\ w.tracker \in Nat
      BY DEF Gives, LeaderboardType
    <3> QED BY <1>1, <1>3, <2>3, <3>1
  <2> QED BY <2>2, <2>5, <2>6, <2>7, <2>8
<1>4. CASE c.lb[j].tracker = 0
  <2>1. d = AllocateTracker(e, j) /\ e.lb[j].tracker = 0 /\ j \in Lb(e) /\ e.title \in Titles
    BY <1>1, <1>2, <1>4
  <2>2. /\ Same(e, d, BoardFields) /\ SameScreen(e, d, {"trackers"}) /\ Trackers(d) /\ Lb(d) = Lb(e)
        /\ \A i \in Lb(e) : i # j => d.lb[i] = e.lb[i]
        /\ \E k \in Nat \ {0} :
             /\ d.lb[j] = Gives(e.lb[j], k) /\ d.trackers[k].raw = e.lb[j].value
             /\ \A i \in Lb(e) : e.lb[i].tracker = k =>
                  e.trackers[k].raw = e.lb[j].value \/ (~e.title.lb[i].hits /\ ~e.title.lb[j].hits)
             /\ \A n \in DOMAIN e.trackers : n # k => d.trackers[n].raw = e.trackers[n].raw
    BY <1>1, <1>2, <2>1, AllocateTrackerKeeps
  <2>3. PICK k \in Nat \ {0} :
          /\ d.lb[j] = Gives(w, k) /\ d.trackers[k].raw = w.value
          /\ \A i \in Lb(c) : e.lb[i].tracker = k =>
               c.trackers[k].raw = w.value \/ (~c.title.lb[i].hits /\ ~c.title.lb[j].hits)
          /\ \A n \in DOMAIN c.trackers : n # k => d.trackers[n].raw = c.trackers[n].raw
    BY <1>1, <1>2, <2>2
  <2>4. \A i \in Lb(c) : i # j => d.lb[i] = c.lb[i]
    BY <1>1, <2>2
  <2>5. Same(c, d, BoardFields) /\ SameScreen(c, d, {"trackers"})
    BY <1>1, <1>2, <2>2 DEF Same, SameScreen, BoardFields
  <2>6. Moved(c, d, j)
    BY <1>1, <1>4, <2>2, <2>4, <2>5 DEF Moved
  <2>7. OthersValue(c, d, j, w.value)
    <3>1. SUFFICES ASSUME NEW i \in Lb(c), i # j, c.lb[i].tracker # 0
                   PROVE  LET n == c.lb[i].tracker
                          IN  \/ d.trackers[n].raw = c.trackers[n].raw
                              \/ d.trackers[n].raw = w.value /\ ~c.title.lb[i].hits /\ ~c.title.lb[j].hits
      BY DEF OthersValue
    <3>2. c.lb[i].tracker \in DOMAIN c.trackers /\ e.lb[i] = c.lb[i]
      BY <1>1, <3>1 DEF Trackers, Belongs
    <3>3. CASE c.lb[i].tracker = k
      BY <2>3, <3>2, <3>3
    <3>4. CASE c.lb[i].tracker # k
      BY <2>3, <3>2, <3>4
    <3> QED BY <3>3, <3>4
  <2>8. OwnValue(c, d, j)
    <3>1. \A i \in Lb(c) : c.lb[i].tracker # 0 => c.lb[i].tracker \in DOMAIN c.trackers
      BY DEF Trackers, Belongs
    <3>2. d.lb[j].tracker = k
      BY ONLY <2>3, GivenFacts, w \in LeaderboardType
    <3> QED BY <2>3, <3>1, <3>2 DEF OwnValue
  <2> QED BY <2>2, <2>3, <2>6, <2>7, <2>8
<1> QED BY <1>3, <1>4

(* And that leaves its tracker in the end. *)
LEMMA ReleasedOne ==
  ASSUME NEW c, NEW j \in Lb(c), NEW e, NEW value, Moved(c, e, j), Trackers(e), OthersValue(c, e, j, value),
         NEW d, d = ReleaseTrackers(e, {j}), Trackers(c)
  PROVE  Moved(c, d, j) /\ Trackers(d) /\ OthersValue(c, d, j, value) /\ d.lb[j] = Gives(e.lb[j], 0)
<1>1. Lb(e) = Lb(c) /\ IsClient(e) /\ {j} \in SUBSET Lb(e)
  BY DEF Moved, Same
<1>2. /\ Same(e, d, {"lb", "trackers"}) /\ Trackers(d) /\ Lb(d) = Lb(e)
      /\ \A i \in Lb(e) : /\ i \notin {j} => d.lb[i] = e.lb[i]
                          /\ i \in {j} => d.lb[i] = Gives(e.lb[i], 0)
      /\ \A k \in DOMAIN e.trackers : d.trackers[k].raw = e.trackers[k].raw
  BY <1>1, ReleaseTrackersKeeps
<1>3. d.lb[j] = Gives(e.lb[j], 0) /\ \A i \in Lb(c) : i # j => d.lb[i] = c.lb[i]
  BY <1>1, <1>2 DEF Moved
<1>4. d.lb[j].tracker = 0
  <2>1. e.lb[j] \in LeaderboardType /\ 0 \in Nat
    BY <1>1 DEF Trackers, Lists
  <2> QED BY ONLY <1>3, <2>1, GivenFacts
<1>5. d.ui = e.ui
  BY <1>2 DEF Same, Fields
<1>6. Same(c, d, BoardFields) /\ SameScreen(c, d, {"trackers"})
  BY <1>2, <1>5 DEF Moved, Same, SameScreen, BoardFields
<1>7. Moved(c, d, j)
  BY <1>1, <1>2, <1>3, <1>4, <1>6 DEF Moved
<1>8. OthersValue(c, d, j, value)
  <2>1. \A i \in Lb(c) : i # j /\ c.lb[i].tracker # 0 => c.lb[i].tracker \in DOMAIN e.trackers
    <3>1. TAKE i \in Lb(c)
    <3>2. i # j => e.lb[i] = c.lb[i]
      BY DEF Moved
    <3>3. Belongs(e, i)
      BY <1>1 DEF Trackers
    <3> QED BY <3>2, <3>3 DEF Belongs
  <2>2. \A i \in Lb(c) : i # j /\ c.lb[i].tracker # 0 => d.trackers[c.lb[i].tracker].raw = e.trackers[c.lb[i].tracker].raw
    BY <1>2, <2>1
  <2> QED BY <2>2 DEF OthersValue
<1> QED BY <1>2, <1>3, <1>7, <1>8

\* what a frame makes of a leaderboard, but for its tracker
Valued(l, v) == [l EXCEPT !.value = v]
Begun(l, v) == [l EXCEPT !.value = v, !.run = "started", !.state = "tracking", !.pending = @ \cup {"started"}]
Ended(l, v, event) == [l EXCEPT !.value = v, !.run = "waiting", !.state = "active", !.pending = @ \cup {event}]
Turned(l, to) == [l EXCEPT !.value = 0, !.run = to]

(* Each is a leaderboard still. *)
LEMMA ProcessedTypes ==
  ASSUME NEW l \in LeaderboardType, NEW v, v \in Nat
  PROVE  /\ LET w == Valued(l, v)
            IN  /\ w \in LeaderboardType /\ w.value = v /\ w.run = l.run /\ w.state = l.state /\ w.tracker = l.tracker
         /\ LET w == Begun(l, v)
            IN  /\ w \in LeaderboardType /\ w.value = v /\ w.run = "started" /\ w.state = "tracking" /\ w.tracker = l.tracker
         /\ \A event \in {"failed", "submitted"} : LET w == Ended(l, v, event)
            IN  /\ w \in LeaderboardType /\ w.value = v /\ w.run = "waiting" /\ w.state = "active" /\ w.tracker = l.tracker
         /\ \A to \in {"waiting", "active"} : LET w == Turned(l, to)
            IN  /\ w \in LeaderboardType /\ w.value = 0 /\ w.run = to /\ w.state = l.state /\ w.tracker = l.tracker
<1>1. LET w == Valued(l, v)
      IN  /\ w \in LeaderboardType /\ w.value = v /\ w.run = l.run /\ w.state = l.state /\ w.tracker = l.tracker
  BY DEF Valued, LeaderboardType
<1>2. LET w == Begun(l, v)
      IN  /\ w \in LeaderboardType /\ w.value = v /\ w.run = "started" /\ w.state = "tracking" /\ w.tracker = l.tracker
  BY DEF Begun, LeaderboardType
<1>3. \A event \in {"failed", "submitted"} : LET w == Ended(l, v, event)
      IN  /\ w \in LeaderboardType /\ w.value = v /\ w.run = "waiting" /\ w.state = "active" /\ w.tracker = l.tracker
  BY DEF Ended, LeaderboardType
<1>4. \A to \in {"waiting", "active"} : LET w == Turned(l, to)
      IN  /\ w \in LeaderboardType /\ w.value = 0 /\ w.run = to /\ w.state = l.state /\ w.tracker = l.tracker
  BY DEF Turned, LeaderboardType
<1> QED BY <1>1, <1>2, <1>3, <1>4

\* a leaderboard that was processed, and whose value that frame is `value`
BoardProcessed(c, d, j, value) ==
  /\ Moved(c, d, j) /\ Trackers(d) /\ OthersValue(c, d, j, value) /\ BoardAsPlayed(d, j)
  /\ ~c.odd /\ d.lb[j].tracker # 0 => d.lb[j].value = value /\ d.trackers[d.lb[j].tracker].raw = value

(* Of one leaderboard in a frame.                                          *)
LEMMA ProcessedOne ==
  ASSUME NEW c, IsClient(c), Trackers(c), c.title \in Titles, NEW j \in Lb(c), BoardAsPlayed(c, j),
         NEW to, c.lb[j].state \in {"active", "tracking"} => to \in Attempts(c.lb[j].run),
         NEW value, value \in Nat, value <= c.title.most,
         NEW d, d = ProcessLeaderboard(c, j, to, value)
  PROVE  BoardProcessed(c, d, j, value)
<1>1. PICK l \in LeaderboardType : l = c.lb[j]
  BY DEF Trackers, Lists
<1>2. /\ l.state # "disabled" => (l.state = "inactive" <=> ~c.hardcore)
      /\ l.state = "tracking" => l.run = "started" /\ l.tracker # 0
      /\ l.state = "active" => l.run \in {"waiting", "active"} /\ l.tracker = 0
      /\ l.state = "inactive" => l.tracker = 0
      /\ l.state = "disabled" /\ l.tracker # 0 => c.odd
      /\ l.value <= c.title.most
  BY <1>1 DEF BoardAsPlayed
<1>3. 0 <= c.title.most
  BY TitleFacts
<1>4. CASE l.state \in {"inactive", "disabled"}
  <2>1. d = c
    BY <1>1, <1>4 DEF ProcessLeaderboard
  <2>2. Moved(c, c, j)
    BY DEF Moved, Same, SameScreen
  <2>3. OthersValue(c, c, j, value)
    BY DEF OthersValue
  <2>4. ~(~c.odd /\ l.tracker # 0)
    BY <1>2, <1>4
  <2> QED BY <1>1, <2>1, <2>2, <2>3, <2>4 DEF BoardProcessed
<1>5. CASE l.state \in {"active", "tracking"}
  <2>1. to \in Attempts(l.run) /\ c.hardcore /\ l.run \in {"waiting", "active", "started"}
    BY <1>1, <1>2, <1>5
  <2>2. /\ to = "started" => d = IF l.run = "started" THEN UpdateTracker(Changed(c, j, Valued(l, value)), j)
                                 ELSE AllocateTracker(Changed(c, j, Begun(l, value)), j)
        /\ to = "canceled" => d = ReleaseTrackers(Changed(c, j, Ended(l, 0, "failed")), {j})
        /\ to = "triggered" =>
             LET e == Changed(c, j, Ended(l, value, "submitted"))
             IN  d = ReleaseTrackers(IF l.run = "started" THEN UpdateTracker(e, j) ELSE AllocateTracker(e, j), {j})
        /\ to \in {"waiting", "active"} => d = Changed(c, j, Turned(l, to))
    <3>1. l.state \notin {"inactive", "disabled"} /\ l = c.lb[j]
      BY <1>1, <1>5
    <3>2. CASE to = "started"
      BY <3>1, <3>2 DEF ProcessLeaderboard, Changed, Valued, Begun
    <3>3. CASE to = "canceled"
      BY <3>1, <3>3 DEF ProcessLeaderboard, Changed, Ended
    <3>4. CASE to = "triggered"
      BY <3>1, <3>4 DEF ProcessLeaderboard, Changed, Ended
    <3>5. CASE to \in {"waiting", "active"}
      BY <3>1, <3>5 DEF ProcessLeaderboard, Changed, Turned
    <3> QED BY <3>2, <3>3, <3>4, <3>5
  <2>3. l.run = "started" <=> l.tracker # 0
    BY <1>2, <1>5
  <2>4. CASE to = "started"
    <3>1. PICK w : w = IF l.run = "started" THEN Valued(l, value) ELSE Begun(l, value)
      OBVIOUS
    <3>2. w \in LeaderboardType /\ w.tracker = l.tracker /\ w.value = value /\ w.run = "started" /\ w.state = "tracking"
      BY <1>2, <1>5, <3>1, ProcessedTypes
    <3>3. PICK e : e = Changed(c, j, w)
      OBVIOUS
    <3>4. d = IF c.lb[j].tracker # 0 THEN UpdateTracker(e, j) ELSE AllocateTracker(e, j)
      BY <1>1, <2>2, <2>3, <2>4, <3>1, <3>3
    <3>5. w.tracker = c.lb[j].tracker
      BY <1>1, <3>2
    <3>6. /\ Moved(c, d, j) /\ Trackers(d) /\ OthersValue(c, d, j, w.value)
          /\ \E k \in Nat \ {0} : d.lb[j] = Gives(w, k) /\ d.trackers[k].raw = w.value
      BY ONLY IsClient(c), Trackers(c), c.title \in Titles, j \in Lb(c), <3>2, <3>3, <3>4, <3>5, TimedOne
    <3>7. PICK k \in Nat \ {0} : d.lb[j] = Gives(w, k) /\ d.trackers[k].raw = value
      BY <3>2, <3>6
    <3>8. /\ d.lb[j].tracker = k /\ d.lb[j].state = "tracking" /\ d.lb[j].run = "started" /\ d.lb[j].value = value
      BY ONLY <3>2, <3>7, GivenFacts
    <3>9. d.title = c.title /\ d.hardcore = c.hardcore
      BY <3>6, MovedFacts
    <3>10. BoardAsPlayed(d, j)
      BY <2>1, <3>7, <3>8, <3>9 DEF BoardAsPlayed
    <3> QED BY <3>2, <3>6, <3>7, <3>8, <3>10 DEF BoardProcessed
  <2>5. CASE to = "canceled" \/ to = "triggered"
    <3>1. PICK v, event : v = (IF to = "canceled" THEN 0 ELSE value)
                       /\ event = (IF to = "canceled" THEN "failed" ELSE "submitted")
      OBVIOUS
    <3>2. PICK w : w = Ended(l, v, event)
      OBVIOUS
    <3>3. v \in Nat /\ event \in {"failed", "submitted"} /\ v <= c.title.most
      BY <1>3, <3>1
    <3>4. w \in LeaderboardType /\ w.tracker = l.tracker /\ w.value = v /\ w.run = "waiting" /\ w.state = "active"
      BY <3>2, <3>3, ProcessedTypes
    <3>5. PICK e : e = Changed(c, j, w)
      OBVIOUS
    <3>6. PICK f : /\ to = "canceled" => f = e
                   /\ to = "triggered" => f = IF c.lb[j].tracker # 0 THEN UpdateTracker(e, j) ELSE AllocateTracker(e, j)
      <4>1. CASE to = "canceled"
        BY <4>1
      <4>2. CASE to = "triggered"
        BY <4>2
      <4> QED BY <2>5, <4>1, <4>2
    <3>7. d = ReleaseTrackers(f, {j})
      <4>1. to = "canceled" => d = ReleaseTrackers(e, {j})
        BY <2>2, <3>1, <3>2, <3>5
      <4>2. to = "triggered" => d = ReleaseTrackers(IF c.lb[j].tracker # 0 THEN UpdateTracker(e, j) ELSE AllocateTracker(e, j), {j})
        BY <1>1, <2>2, <2>3, <3>1, <3>2, <3>5
      <4> QED BY <2>5, <3>6, <4>1, <4>2
    <3>8. w.tracker = c.lb[j].tracker
      BY <1>1, <3>4
    <3>9. /\ Moved(c, f, j) /\ Trackers(f) /\ OthersValue(c, f, j, value)
          /\ \E k \in Nat : f.lb[j] = Gives(w, k)
      <4>1. CASE to = "canceled"
        <5>1. f = Changed(c, j, w)
          BY <3>5, <3>6, <4>1
        <5>2. Moved(c, f, j) /\ Trackers(f) /\ OthersValue(c, f, j, value) /\ f.lb[j] = w
          BY ONLY IsClient(c), Trackers(c), j \in Lb(c), <3>4, <3>8, <5>1, ChangedOne
        <5>3. w = Gives(w, w.tracker) /\ w.tracker \in Nat
          BY ONLY <3>4 DEF Gives, LeaderboardType
        <5> QED BY <5>2, <5>3
      <4>2. CASE to = "triggered"
        <5>1. f = IF c.lb[j].tracker # 0 THEN UpdateTracker(e, j) ELSE AllocateTracker(e, j)
          BY <3>6, <4>2
        <5>2. /\ Moved(c, f, j) /\ Trackers(f) /\ OthersValue(c, f, j, w.value)
              /\ \E k \in Nat \ {0} : f.lb[j] = Gives(w, k) /\ f.trackers[k].raw = w.value
          BY ONLY IsClient(c), Trackers(c), c.title \in Titles, j \in Lb(c), <3>4, <3>5, <3>8, <5>1, TimedOne
        <5>3. w.value = value
          BY <3>1, <3>4, <4>2
        <5> QED BY <5>2, <5>3
      <4> QED BY <2>5, <4>1, <4>2
    <3>10. Moved(c, d, j) /\ Trackers(d) /\ OthersValue(c, d, j, value) /\ d.lb[j] = Gives(f.lb[j], 0)
      BY ONLY j \in Lb(c), Trackers(c), <3>7, <3>9, ReleasedOne
    <3>11. PICK k \in Nat : f.lb[j] = Gives(w, k)
      BY <3>9
    <3>12. f.lb[j] \in LeaderboardType /\ f.lb[j].state = "active" /\ f.lb[j].run = "waiting" /\ f.lb[j].value = v
      BY ONLY <3>4, <3>11, GivenFacts
    <3>13. d.lb[j].tracker = 0 /\ d.lb[j].state = "active" /\ d.lb[j].run = "waiting" /\ d.lb[j].value = v
      <4>1. 0 \in Nat
        OBVIOUS
      <4> QED BY ONLY <3>10, <3>12, <4>1, GivenFacts
    <3>14. d.title = c.title /\ d.hardcore = c.hardcore
      BY <3>10, MovedFacts
    <3>15. BoardAsPlayed(d, j)
      BY <2>1, <3>3, <3>13, <3>14 DEF BoardAsPlayed
    <3> QED BY <3>10, <3>13, <3>15 DEF BoardProcessed
  <2>6. CASE to \in {"waiting", "active"}
    <3>1. PICK w : w = Turned(l, to)
      OBVIOUS
    <3>2. w \in LeaderboardType /\ w.tracker = l.tracker /\ w.value = 0 /\ w.run = to /\ w.state = l.state
      <4>1. 0 \in Nat
        OBVIOUS
      <4> QED BY <2>6, <3>1, <4>1, ProcessedTypes
    <3>3. d = Changed(c, j, w) /\ w.tracker = c.lb[j].tracker
      BY <1>1, <2>2, <2>6, <3>1, <3>2
    <3>4. Moved(c, d, j) /\ Trackers(d) /\ OthersValue(c, d, j, value) /\ d.lb[j] = w
      BY ONLY IsClient(c), Trackers(c), j \in Lb(c), <3>2, <3>3, ChangedOne
    <3>5. l.state = "active" /\ l.tracker = 0
      <4>1. l.run # "started"
        BY <2>1, <2>6 DEF Attempts
      <4> QED BY <1>2, <1>5, <4>1
    <3>6. d.title = c.title /\ d.hardcore = c.hardcore
      BY <3>4, MovedFacts
    <3>7. BoardAsPlayed(d, j)
      BY <1>3, <2>1, <2>6, <3>2, <3>4, <3>5, <3>6 DEF BoardAsPlayed
    <3> QED BY <3>2, <3>4, <3>5, <3>7 DEF BoardProcessed
  <2>7. to \in {"waiting", "active", "started", "canceled", "triggered"}
    BY <2>1 DEF Attempts
  <2> QED BY <2>4, <2>5, <2>6, <2>7
<1> QED BY <1>4, <1>5 DEF LeaderboardType

\* of one leaderboard: after a save state, or in a frame
OneStep(restore, c, j, attempted, values) ==
  IF restore THEN TrackRestored(c, j, values[j]) ELSE ProcessLeaderboard(c, j, attempted[j], values[j])

\* after is what the first n leave, for each n up to m
Folded(c, restore, attempted, values, after, m) ==
  after = [n \in 0..m |-> IF n = 0 THEN c ELSE OneStep(restore, after[n - 1], n, attempted, values)]

(* However many there are, there is such a function. *)
LEMMA FoldedExists ==
  ASSUME NEW c, NEW restore, NEW attempted, NEW values, NEW m \in Nat
  PROVE  \E after : Folded(c, restore, attempted, values, after, m)
<1> DEFINE S == {k \in Nat : \E after : Folded(c, restore, attempted, values, after, k)}
<1>1. 0 \in S
  <2>1. PICK after : after = [n \in 0..0 |-> c]
    OBVIOUS
  <2>2. after = [n \in 0..0 |-> IF n = 0 THEN c ELSE OneStep(restore, after[n - 1], n, attempted, values)]
    BY <2>1
  <2> QED BY <2>2 DEF Folded
<1>2. ASSUME NEW k \in Nat, k \in S PROVE k + 1 \in S
  <2>1. PICK after : Folded(c, restore, attempted, values, after, k)
    BY <1>2
  <2>2. PICK next : next = [n \in 0..(k + 1) |-> IF n = 0 THEN c ELSE OneStep(restore, after[n - 1], n, attempted, values)]
    OBVIOUS
  <2>3. \A n \in 0..k : after[n] = IF n = 0 THEN c ELSE OneStep(restore, after[n - 1], n, attempted, values)
    <3>1. after = [n \in 0..k |-> IF n = 0 THEN c ELSE OneStep(restore, after[n - 1], n, attempted, values)]
      BY <2>1 DEF Folded
    <3> QED BY <3>1
  <2>4. \A n \in 0..k : next[n] = after[n]
    <3>1. \A n \in 0..k : n \in 0..(k + 1)
      OBVIOUS
    <3> QED BY <2>2, <2>3, <3>1
  <2>5. \A n \in 0..(k + 1) : n # 0 => n - 1 \in 0..k
    OBVIOUS
  <2>6. next = [n \in 0..(k + 1) |-> IF n = 0 THEN c ELSE OneStep(restore, next[n - 1], n, attempted, values)]
    BY <2>2, <2>4, <2>5
  <2> QED BY <2>6 DEF Folded
<1> HIDE DEF S
<1>3. S \in SUBSET Nat
  BY DEF S
<1>4. S = Nat
  BY <1>1, <1>2, <1>3, InductiveSet
<1> QED BY <1>4 DEF S

\* the leaderboards of a frame, and of a save state
TrackAll(c, attempted, values) == OnEach(c, LAMBDA d, j : ProcessLeaderboard(d, j, attempted[j], values[j]))
RestoreAll(c, values) == OnEach(c, LAMBDA d, j : TrackRestored(d, j, values[j]))

\* after is what the first n leave, and d what all leave
Tracks(after, c, attempted, values, d) ==
  /\ after[0] = c /\ after[Len(c.lb)] = d
  /\ \A n \in Nat : n + 1 <= Len(c.lb) => after[n + 1] = ProcessLeaderboard(after[n], n + 1, attempted[n + 1], values[n + 1])
Restores(after, c, values, d) ==
  /\ after[0] = c /\ after[Len(c.lb)] = d
  /\ \A n \in Nat : n + 1 <= Len(c.lb) => after[n + 1] = TrackRestored(after[n], n + 1, values[n + 1])

(* A frame's leaderboards, one after another. *)
LEMMA TrackAllSteps ==
  ASSUME NEW c, NEW attempted, NEW values, Len(c.lb) \in Nat, NEW d, d = TrackAll(c, attempted, values)
  PROVE  \E after : Tracks(after, c, attempted, values, d)
<1> DEFINE N == Len(c.lb)
           after == CHOOSE f : f = [n \in 0..N |-> IF n = 0 THEN c ELSE ProcessLeaderboard(f[n - 1], n, attempted[n], values[n])]
<1>1. d = after[N]
  BY DEF TrackAll, OnEach
<1> HIDE DEF N
<1>2. after = [n \in 0..N |-> IF n = 0 THEN c ELSE ProcessLeaderboard(after[n - 1], n, attempted[n], values[n])]
  <2>1. N \in Nat
    BY DEF N
  <2>2. PICK g : Folded(c, FALSE, attempted, values, g, N)
    BY <2>1, FoldedExists
  <2>3. g = [n \in 0..N |-> IF n = 0 THEN c ELSE ProcessLeaderboard(g[n - 1], n, attempted[n], values[n])]
    BY <2>2 DEF Folded, OneStep
  <2> QED BY <2>3
<1> HIDE DEF after
<1>3. N \in Nat
  BY DEF N
<1>4. \A n \in 0..N : after[n] = IF n = 0 THEN c ELSE ProcessLeaderboard(after[n - 1], n, attempted[n], values[n])
  BY <1>2
<1>5. after[0] = c
  BY <1>3, <1>4
<1>6. ASSUME NEW n \in Nat, n + 1 <= N PROVE after[n + 1] = ProcessLeaderboard(after[n], n + 1, attempted[n + 1], values[n + 1])
  <2>1. n + 1 \in 0..N /\ n + 1 # 0 /\ (n + 1) - 1 = n
    BY <1>3, <1>6
  <2> QED BY <1>4, <2>1
<1> QED BY <1>1, <1>5, <1>6 DEF N, Tracks

(* The leaderboards of a save state, one after another. *)
LEMMA RestoreAllSteps ==
  ASSUME NEW c, NEW values, Len(c.lb) \in Nat, NEW d, d = RestoreAll(c, values)
  PROVE  \E after : Restores(after, c, values, d)
<1> DEFINE N == Len(c.lb)
           after == CHOOSE f : f = [n \in 0..N |-> IF n = 0 THEN c ELSE TrackRestored(f[n - 1], n, values[n])]
<1>1. d = after[N]
  BY DEF RestoreAll, OnEach
<1> HIDE DEF N
<1>2. after = [n \in 0..N |-> IF n = 0 THEN c ELSE TrackRestored(after[n - 1], n, values[n])]
  <2>1. N \in Nat
    BY DEF N
  <2>2. PICK g : Folded(c, TRUE, values, values, g, N)
    BY <2>1, FoldedExists
  <2>3. g = [n \in 0..N |-> IF n = 0 THEN c ELSE TrackRestored(g[n - 1], n, values[n])]
    BY <2>2 DEF Folded, OneStep
  <2> QED BY <2>3
<1> HIDE DEF after
<1>3. N \in Nat
  BY DEF N
<1>4. \A n \in 0..N : after[n] = IF n = 0 THEN c ELSE TrackRestored(after[n - 1], n, values[n])
  BY <1>2
<1>5. after[0] = c
  BY <1>3, <1>4
<1>6. ASSUME NEW n \in Nat, n + 1 <= N PROVE after[n + 1] = TrackRestored(after[n], n + 1, values[n + 1])
  <2>1. n + 1 \in 0..N /\ n + 1 # 0 /\ (n + 1) - 1 = n
    BY <1>3, <1>6
  <2> QED BY <1>4, <2>1
<1> QED BY <1>1, <1>5, <1>6 DEF N, Restores

\* a leaderboard that counts hits shares a tracker that another, which comes after it, had before
Late(s, d, j) ==
  /\ s.title.lb[j].hits /\ s.lb[j].tracker = 0
  /\ \E i \in Lb(s) : j < i /\ s.lb[i].tracker = d.lb[j].tracker

\* the values a frame may find: one of those that count no hits, and one of those that have counted as many
Readable(s, values) ==
  /\ \A j \in Lb(s) : values[j] \in Nat /\ values[j] <= s.title.most
  /\ \A i, j \in Lb(s) : ~s.title.lb[i].hits /\ ~s.title.lb[j].hits => values[i] = values[j]
  /\ \A i, j \in Lb(s) :
       /\ s.title.lb[i].hits /\ s.title.lb[j].hits /\ s.lb[i].value = s.lb[j].value
       /\ s.lb[i].state = "tracking" /\ s.lb[j].state = "tracking"
       => values[i] = values[j]

\* and how each attempt may end
Attemptable(s, attempted) ==
  \A j \in Lb(s) : s.lb[j].state \in {"active", "tracking"} => attempted[j] \in Attempts(s.lb[j].run)
Follows(n, j) == n \in Nat /\ j = n + 1

\* what holds of d once the leaderboards up to n of s are processed
Same2(s, d, n) ==
  /\ Same(s, d, BoardFields) /\ SameScreen(s, d, {"trackers"}) /\ Lb(d) = Lb(s)
  /\ \A j \in Lb(s) : IF j <= n THEN s.lb[j].tracker # 0 => d.lb[j].tracker \in {0, s.lb[j].tracker} ELSE d.lb[j] = s.lb[j]
Valid(s, d, n, values) ==
  ~s.odd => \A j \in Lb(s) : j <= n /\ d.lb[j].tracker # 0 =>
              /\ d.lb[j].value = values[j]
              /\ d.trackers[d.lb[j].tracker].raw = values[j] \/ Late(s, d, j)
Until(s, d, n, values) ==
  Same2(s, d, n) /\ Trackers(d) /\ (\A j \in Lb(s) : BoardAsPlayed(d, j)) /\ Valid(s, d, n, values)

(* One leaderboard more. *)
LEMMA FrameStep ==
  ASSUME NEW s, IsClient(s), Boards(s), s.title \in Titles, NEW values, Readable(s, values),
         NEW attempted, Attemptable(s, attempted),
         NEW n, NEW j, Follows(n, j), j \in Lb(s), NEW d, Until(s, d, n, values),
         NEW e, e = ProcessLeaderboard(d, j, attempted[j], values[j])
  PROVE  Until(s, e, j, values)
<1>1. /\ IsClient(d) /\ Lb(d) = Lb(s) /\ d.title = s.title /\ d.odd = s.odd /\ Trackers(d) /\ d.lb[j] = s.lb[j]
      /\ BoardAsPlayed(d, j) /\ Same2(s, d, n)
  <2>1. ~(j <= n)
    BY DEF Follows
  <2> QED BY <2>1 DEF Until, Same2, Same, Fields, BoardFields
<1>2. BoardProcessed(d, e, j, values[j])
  <2>1. d.title \in Titles /\ j \in Lb(d) /\ values[j] \in Nat /\ values[j] <= d.title.most
    BY <1>1 DEF Readable
  <2>2. d.lb[j].state \in {"active", "tracking"} => attempted[j] \in Attempts(d.lb[j].run)
    BY <1>1 DEF Attemptable
  <2> QED BY ONLY <1>1, <2>1, <2>2, e = ProcessLeaderboard(d, j, attempted[j], values[j]), ProcessedOne
<1>3. /\ Moved(d, e, j) /\ Trackers(e) /\ OthersValue(d, e, j, values[j]) /\ BoardAsPlayed(e, j)
      /\ ~s.odd /\ e.lb[j].tracker # 0 => e.lb[j].value = values[j] /\ e.trackers[e.lb[j].tracker].raw = values[j]
  BY <1>1, <1>2 DEF BoardProcessed
<1>4. Same2(s, e, j)
  <2>1. Same(s, e, BoardFields) /\ SameScreen(s, e, {"trackers"}) /\ Lb(e) = Lb(s)
    BY <1>1, <1>3 DEF Moved, Same, SameScreen, Same2
  <2>2. \A i \in Lb(s) : IF i <= n THEN s.lb[i].tracker # 0 => d.lb[i].tracker \in {0, s.lb[i].tracker} ELSE d.lb[i] = s.lb[i]
    BY <1>1 DEF Same2
  <2>3. \A i \in Lb(s) : i # j => e.lb[i] = d.lb[i]
    BY <1>1, <1>3 DEF Moved
  <2>4. d.lb[j].tracker # 0 => e.lb[j].tracker \in {0, d.lb[j].tracker}
    BY <1>3 DEF Moved
  <2>5. \A i \in Lb(s) : i # j => (i <= n <=> i <= j)
    <3>1. Lb(s) \subseteq Nat
      BY DEF Boards, Trackers, Lists, Length, Lb
    <3> QED BY <3>1 DEF Follows
  <2>6. \A i \in Lb(s) : IF i <= j THEN s.lb[i].tracker # 0 => e.lb[i].tracker \in {0, s.lb[i].tracker} ELSE e.lb[i] = s.lb[i]
    <3>1. TAKE i \in Lb(s)
    <3>2. CASE i = j
      <4>1. j <= j
        BY DEF Follows
      <4> QED BY ONLY <1>1, <2>4, <3>2, <4>1
    <3>3. CASE i # j
      <4>1. IF i <= n THEN s.lb[i].tracker # 0 => d.lb[i].tracker \in {0, s.lb[i].tracker} ELSE d.lb[i] = s.lb[i]
        BY <2>2
      <4>2. e.lb[i] = d.lb[i] /\ (i <= n <=> i <= j)
        BY <2>3, <2>5, <3>3
      <4> QED BY ONLY <4>1, <4>2
    <3> QED BY <3>2, <3>3
  <2> QED BY <2>1, <2>6 DEF Same2
<1>5. \A i \in Lb(s) : BoardAsPlayed(e, i)
  BY <1>1, <1>3, MovedFacts DEF Until
<1>6. Valid(s, e, j, values)
  <2>1. SUFFICES ASSUME ~s.odd, NEW i \in Lb(s), i <= j, e.lb[i].tracker # 0
                 PROVE  /\ e.lb[i].value = values[i]
                        /\ e.trackers[e.lb[i].tracker].raw = values[i] \/ Late(s, e, i)
    BY DEF Valid
  <2>2. CASE i = j
    BY <1>3, <2>1, <2>2
  <2>3. CASE i # j
    <3> DEFINE k == d.lb[i].tracker
    <3>1. e.lb[i] = d.lb[i] /\ i \in Lb(d) /\ i <= n /\ i < j
      <4>1. i \in Nat
        BY DEF Boards, Trackers, Lists, Length, Lb
      <4> QED BY <1>1, <1>3, <2>1, <2>3, <4>1 DEF Moved, Follows
    <3>2. k # 0
      BY <2>1, <3>1
    <3>3. d.lb[i].value = values[i] /\ (d.trackers[k].raw = values[i] \/ Late(s, d, i))
      BY <2>1, <3>1, <3>2 DEF Until, Valid
    <3>4. Late(s, d, i) => Late(s, e, i)
      BY <3>1 DEF Late
    <3>5. \/ e.trackers[k].raw = d.trackers[k].raw
          \/ /\ e.trackers[k].raw = values[j]
             /\ d.lb[j].tracker = k \/ (~d.title.lb[i].hits /\ ~d.title.lb[j].hits)
      BY <1>3, <2>3, <3>1, <3>2 DEF OthersValue
    <3>6. CASE e.trackers[k].raw = d.trackers[k].raw
      BY <3>1, <3>3, <3>4, <3>6
    <3>7. CASE e.trackers[k].raw = values[j] /\ ~d.title.lb[i].hits /\ ~d.title.lb[j].hits
      BY <1>1, <3>1, <3>3, <3>7 DEF Readable
    <3>8. CASE e.trackers[k].raw = values[j] /\ d.lb[j].tracker = k
      <4>1. d.title.lb[i].hits = d.trackers[k].hits /\ d.title.lb[j].hits = d.trackers[k].hits
        BY <1>1, <3>1, <3>2, <3>8 DEF Trackers, Belongs
      <4>2. CASE ~d.title.lb[j].hits
        BY <1>1, <3>1, <3>3, <3>8, <4>1, <4>2 DEF Readable
      <4>3. CASE d.title.lb[j].hits /\ s.lb[i].tracker = 0
        <5>1. s.title.lb[i].hits /\ s.lb[j].tracker = e.lb[i].tracker
          BY <1>1, <3>1, <3>8, <4>1, <4>3
        <5> QED BY <3>1, <3>3, <4>3, <5>1 DEF Late
      <4>4. CASE d.title.lb[j].hits /\ s.lb[i].tracker # 0
        <5>1. s.lb[i].tracker = k /\ s.lb[j].tracker = k
          BY <1>1, <3>1, <3>2, <3>8, <4>4 DEF Same2
        <5>2. BoardAsPlayed(s, i) /\ BoardAsPlayed(s, j) /\ SameValue(s, i) /\ SameValue(s, j)
          BY <2>1 DEF Boards
        <5>3. s.lb[i].state = "tracking" /\ s.lb[j].state = "tracking"
          <6>1. s.lb[i] \in LeaderboardType /\ s.lb[j] \in LeaderboardType
            BY DEF Boards, Trackers, Lists
          <6> QED BY <2>1, <3>2, <5>1, <5>2, <6>1 DEF BoardAsPlayed, LeaderboardType
        <5>4. s.lb[i].value = s.lb[j].value
          BY <3>2, <5>1, <5>2 DEF SameValue
        <5>5. values[i] = values[j]
          BY <1>1, <4>1, <4>4, <5>3, <5>4 DEF Readable
        <5> QED BY <3>1, <3>3, <3>8, <5>5
      <4> QED BY <4>2, <4>3, <4>4
    <3> QED BY <3>5, <3>6, <3>7, <3>8
  <2> QED BY <2>2, <2>3
<1> QED BY <1>3, <1>4, <1>5, <1>6 DEF Until

\* odd, if it was so or one has shared a tracker late
OddIf(d, bad) == [d EXCEPT !.odd = @ \/ bad]

(* Nothing but the mark changes. *)
LEMMA OddIfFacts ==
  ASSUME NEW d, IsClient(d), NEW bad, NEW e, e = OddIf(d, bad)
  PROVE  Same(d, e, {"odd"}) /\ e.ui = d.ui /\ (e.odd <=> d.odd \/ bad)
<1>1. PICK odd : odd = (d.odd \/ bad)
  OBVIOUS
<1>2. e = [d EXCEPT !.odd = odd]
  BY <1>1 DEF OddIf
<1>3. Same(d, e, {"odd"}) /\ e.ui = d.ui /\ e.odd = odd
  BY <1>2 DEF IsClient, Same, Fields
<1> QED BY <1>1, <1>3

(* What is only odd in addition keeps its leaderboards. *)
LEMMA OddBoards ==
  ASSUME NEW d, IsClient(d), NEW e, Same(d, e, {"odd"}), d.odd => e.odd, Trackers(d),
         \A j \in Lb(d) : BoardAsPlayed(d, j), ~e.odd => \A j \in Lb(d) : SameValue(d, j)
  PROVE  Boards(e) /\ Lb(e) = Lb(d)
<1>1. e.lb = d.lb /\ e.trackers = d.trackers /\ e.ui = d.ui /\ e.title = d.title /\ e.hardcore = d.hardcore
  BY DEF Same, Fields
<1>2. Lb(e) = Lb(d)
  BY <1>1 DEF Lb
<1>3. Trackers(e)
  <2>1. e.lb = [j \in Lb(d) |-> e.lb[j]]
    BY <1>1 DEF Trackers, Lists, Length, Lb
  <2>2. \A j \in Lb(d) : e.lb[j] \in LeaderboardType /\ e.lb[j].tracker = d.lb[j].tracker
    BY <1>1 DEF Trackers, Lists
  <2>3. e.ui.trackers = d.ui.trackers
    BY <1>1
  <2> QED BY ONLY Trackers(d), <1>1, <2>1, <2>2, <2>3, TrackersSame
<1>4. \A j \in Lb(d) : BoardAsPlayed(e, j)
  BY <1>1 DEF BoardAsPlayed
<1>5. \A j \in Lb(d) : SameValue(d, j) => SameValue(e, j)
  BY <1>1 DEF SameValue
<1> QED BY <1>2, <1>3, <1>4, <1>5 DEF Boards

(* All the leaderboards of a frame. *)
LEMMA TrackAllKeeps ==
  ASSUME NEW s, IsClient(s), Boards(s), s.title \in Titles, NEW values, Readable(s, values),
         NEW attempted, Attemptable(s, attempted),
         NEW d, d = TrackAll(s, attempted, values), NEW e, e = OddIf(d, SharesLate(s, d))
  PROVE  /\ Same(s, e, BoardFields \cup {"odd"}) /\ SameScreen(s, e, {"trackers"}) /\ Lb(e) = Lb(s)
         /\ Boards(e) /\ (s.odd => e.odd)
<1>1. Len(s.lb) \in Nat /\ Lb(s) = 1..Len(s.lb)
  BY DEF Boards, Trackers, Lists, Length, Lb
<1> DEFINE N == Len(s.lb)
<1>0. PICK after : Tracks(after, s, attempted, values, d)
  BY <1>1, TrackAllSteps
<1>2. /\ after[0] = s /\ after[N] = d
      /\ \A n \in Nat : n + 1 <= N => after[n + 1] = ProcessLeaderboard(after[n], n + 1, attempted[n + 1], values[n + 1])
  BY <1>0 DEF Tracks
<1> HIDE DEF N
<1> DEFINE S == {n \in Nat : n <= N => Until(s, after[n], n, values)}
<1>3. Until(s, s, 0, values)
  <2>1. \A j \in Lb(s) : ~(j <= 0)
    BY <1>1
  <2> QED BY <2>1 DEF Until, Same2, Valid, Same, SameScreen, Boards
<1>4. 0 \in S
  BY <1>2, <1>3
<1>5. ASSUME NEW n \in Nat, n \in S PROVE n + 1 \in S
  <2>1. SUFFICES ASSUME n + 1 <= N PROVE Until(s, after[n + 1], n + 1, values)
    OBVIOUS
  <2>2. N \in Nat /\ n <= N
    BY <1>1, <2>1 DEF N
  <2>3. Until(s, after[n], n, values) /\ after[n + 1] = ProcessLeaderboard(after[n], n + 1, attempted[n + 1], values[n + 1])
    BY <1>2, <1>5, <2>1, <2>2
  <2>4. PICK j : j = n + 1
    OBVIOUS
  <2>5. PICK f : f = after[n]
    OBVIOUS
  <2>6. PICK g : g = after[n + 1]
    OBVIOUS
  <2>7. j \in Lb(s) /\ n \in Nat
    BY <1>1, <2>1, <2>4 DEF N
  <2>8. g = ProcessLeaderboard(f, j, attempted[j], values[j]) /\ Until(s, f, n, values)
    BY <2>3, <2>4, <2>5, <2>6
  <2>9. Until(s, g, j, values)
    <3>1. Follows(n, j)
      BY <2>4 DEF Follows
    <3> QED BY <2>7, <2>8, <3>1, FrameStep
  <2> QED BY <2>4, <2>6, <2>9
<1> HIDE DEF S
<1>6. S \in SUBSET Nat
  BY DEF S
<1>7. S = Nat
  BY <1>4, <1>5, <1>6, InductiveSet
<1>8. Until(s, d, N, values)
  <2>1. N \in S
    BY <1>1, <1>7 DEF N
  <2>2. N <= N
    BY <1>1 DEF N
  <2> QED BY <1>2, <2>1, <2>2 DEF S
<1>9. IsClient(d) /\ Trackers(d) /\ Lb(d) = Lb(s) /\ d.odd = s.odd /\ d.title = s.title
  BY <1>8 DEF Until, Same2, Same, Fields, BoardFields
<1>10. Same(d, e, {"odd"}) /\ e.ui = d.ui /\ (e.odd <=> d.odd \/ SharesLate(s, d))
  BY <1>9, OddIfFacts
<1>11. ~e.odd => \A j \in Lb(d) : SameValue(d, j)
  <2>1. SUFFICES ASSUME ~s.odd, ~SharesLate(s, d), NEW j \in Lb(d), d.lb[j].tracker # 0
                 PROVE  d.trackers[d.lb[j].tracker].raw = d.lb[j].value
    BY <1>9, <1>10 DEF SameValue
  <2>2. j \in Lb(s) /\ j <= N
    BY <1>1, <1>9 DEF N
  <2>3. d.lb[j].value = values[j] /\ (d.trackers[d.lb[j].tracker].raw = values[j] \/ Late(s, d, j))
    BY <1>8, <2>1, <2>2 DEF Until, Valid
  <2>4. ~Late(s, d, j)
    <3>1. d.trackers[d.lb[j].tracker].hits = s.title.lb[j].hits
      BY <1>9, <2>1 DEF Trackers, Belongs
    <3> QED BY <2>1, <2>2, <3>1 DEF Late, SharesLate
  <2> QED BY <2>3, <2>4
<1>12. Boards(e) /\ Lb(e) = Lb(d)
  BY <1>8, <1>9, <1>10, <1>11, OddBoards DEF Until
<1>13. Same(s, e, BoardFields \cup {"odd"}) /\ SameScreen(s, e, {"trackers"})
  BY <1>8, <1>10 DEF Until, Same2, Same, SameScreen
<1> QED BY <1>9, <1>10, <1>12, <1>13

\* a leaderboard into which a save state was read
Restorable(c, j) ==
  LET l == c.lb[j]
  IN  /\ l.state # "disabled" => (l.state = "inactive" <=> ~c.hardcore)
      /\ l.state \in {"active", "tracking"} => l.run \in {"waiting", "active", "started"}
      /\ l.state = "tracking" => l.tracker # 0 /\ "failed" \in l.pending
      /\ l.state = "active" => l.tracker = 0 /\ ("failed" \in l.pending => l.run # "started")
      /\ l.state = "inactive" => l.tracker = 0
      /\ l.state = "disabled" /\ l.tracker # 0 => c.odd
      /\ l.value <= c.title.most
Restart(l, v) == [l EXCEPT !.pending = @ \ {"failed"}, !.state = "tracking", !.value = v]
Failed(l) == [l EXCEPT !.pending = @ \ {"failed"}, !.state = "active"]

(* What becomes of one but for its tracker. *)
LEMMA RestoredTypes ==
  ASSUME NEW l \in LeaderboardType, NEW v, v \in Nat
  PROVE  /\ LET w == Restart(l, v)
            IN  w \in LeaderboardType /\ w.value = v /\ w.run = l.run /\ w.state = "tracking" /\ w.tracker = l.tracker
         /\ LET w == Failed(l)
            IN  w \in LeaderboardType /\ w.value = l.value /\ w.run = l.run /\ w.state = "active" /\ w.tracker = l.tracker
<1>1. LET w == Restart(l, v)
      IN  w \in LeaderboardType /\ w.value = v /\ w.run = l.run /\ w.state = "tracking" /\ w.tracker = l.tracker
  BY DEF Restart, LeaderboardType
<1>2. LET w == Failed(l)
      IN  w \in LeaderboardType /\ w.value = l.value /\ w.run = l.run /\ w.state = "active" /\ w.tracker = l.tracker
  BY DEF Failed, LeaderboardType
<1> QED BY <1>1, <1>2

\* a leaderboard that goes on as it was saved
BoardRestored(c, d, j) ==
  /\ Moved(c, d, j) /\ Trackers(d) /\ OwnValue(c, d, j) /\ BoardAsPlayed(d, j)
  /\ ~c.odd => SameValue(d, j)

(* rc_client_subset_after_deserialize_progress, of one leaderboard.        *)
LEMMA RestoredOne ==
  ASSUME NEW c, IsClient(c), Trackers(c), c.title \in Titles, NEW j \in Lb(c), Restorable(c, j),
         NEW value, c.lb[j].state \in {"active", "tracking"} /\ c.lb[j].run = "started" => value \in Nat /\ value <= c.title.most,
         NEW d, d = TrackRestored(c, j, value)
  PROVE  BoardRestored(c, d, j)
<1>1. PICK l \in LeaderboardType : l = c.lb[j]
  BY DEF Trackers, Lists
<1>2. /\ l.state # "disabled" => (l.state = "inactive" <=> ~c.hardcore)
      /\ l.state \in {"active", "tracking"} => l.run \in {"waiting", "active", "started"}
      /\ l.state = "tracking" => l.tracker # 0 /\ "failed" \in l.pending
      /\ l.state = "active" => l.tracker = 0 /\ ("failed" \in l.pending => l.run # "started")
      /\ l.state = "inactive" => l.tracker = 0
      /\ l.state = "disabled" /\ l.tracker # 0 => c.odd
      /\ l.value <= c.title.most
  BY <1>1 DEF Restorable
<1>3. CASE l.state \in {"inactive", "disabled"} \/ (l.run # "started" /\ "failed" \notin l.pending)
  <2>1. d = c
    BY <1>1, <1>3 DEF TrackRestored
  <2>2. Moved(c, c, j)
    BY DEF Moved, Same, SameScreen
  <2>3. OwnValue(c, c, j)
    BY DEF OwnValue
  <2>4. BoardAsPlayed(c, j)
    BY <1>1, <1>2, <1>3 DEF BoardAsPlayed
  <2>5. ~c.odd => l.tracker = 0
    BY <1>2, <1>3 DEF LeaderboardType
  <2> QED BY <1>1, <2>1, <2>2, <2>3, <2>4, <2>5 DEF BoardRestored, SameValue
<1>4. CASE l.state \in {"active", "tracking"} /\ l.run = "started"
  <2>1. value \in Nat /\ value <= c.title.most /\ c.hardcore
    BY <1>1, <1>2, <1>4
  <2>2. PICK w : w = Restart(l, value)
    OBVIOUS
  <2>3. w \in LeaderboardType /\ w.tracker = l.tracker /\ w.value = value /\ w.run = "started" /\ w.state = "tracking"
    BY <1>4, <2>1, <2>2, RestoredTypes
  <2>4. PICK e : e = Changed(c, j, w)
    OBVIOUS
  <2>5. "failed" \in l.pending <=> l.tracker # 0
    BY <1>2, <1>4
  <2>6. d = IF c.lb[j].tracker # 0 THEN UpdateTracker(e, j) ELSE AllocateTracker(e, j)
    <3>1. d = IF "failed" \in l.pending THEN UpdateTracker(e, j) ELSE AllocateTracker(e, j)
      BY <1>1, <1>4, <2>2, <2>4 DEF TrackRestored, Restart, Changed
    <3> QED BY <1>1, <2>5, <3>1
  <2>7. w.tracker = c.lb[j].tracker
    BY <1>1, <2>3
  <2>8. /\ Moved(c, d, j) /\ Trackers(d) /\ OthersValue(c, d, j, w.value) /\ OwnValue(c, d, j)
        /\ \E k \in Nat \ {0} : d.lb[j] = Gives(w, k) /\ d.trackers[k].raw = w.value
    BY ONLY IsClient(c), Trackers(c), c.title \in Titles, j \in Lb(c), <2>3, <2>4, <2>6, <2>7, TimedOne
  <2>9. PICK k \in Nat \ {0} : d.lb[j] = Gives(w, k) /\ d.trackers[k].raw = value
    BY <2>3, <2>8
  <2>10. d.lb[j].tracker = k /\ d.lb[j].state = "tracking" /\ d.lb[j].run = "started" /\ d.lb[j].value = value
    BY ONLY <2>3, <2>9, GivenFacts
  <2>11. d.title = c.title /\ d.hardcore = c.hardcore
    BY <2>8, MovedFacts
  <2>12. BoardAsPlayed(d, j)
    BY <2>1, <2>9, <2>10, <2>11 DEF BoardAsPlayed
  <2> QED BY <2>8, <2>9, <2>10, <2>12 DEF BoardRestored, SameValue
<1>5. CASE l.state \in {"active", "tracking"} /\ l.run # "started" /\ "failed" \in l.pending
  <2>1. PICK w : w = Failed(l)
    OBVIOUS
  <2>2. w \in LeaderboardType /\ w.tracker = l.tracker /\ w.value = l.value /\ w.run = l.run /\ w.state = "active"
    <3>1. 0 \in Nat
      OBVIOUS
    <3> QED BY <2>1, <3>1, RestoredTypes
  <2>3. PICK e : e = Changed(c, j, w)
    OBVIOUS
  <2>4. d = ReleaseTrackers(e, {j})
    BY <1>1, <1>5, <2>1, <2>3 DEF TrackRestored, Failed, Changed
  <2>5. w.tracker = c.lb[j].tracker
    BY <1>1, <2>2
  <2>6. Moved(c, e, j) /\ Trackers(e) /\ OthersValue(c, e, j, None) /\ e.lb[j] = w
    BY ONLY IsClient(c), Trackers(c), j \in Lb(c), <2>2, <2>3, <2>5, ChangedOne
  <2>7. Moved(c, d, j) /\ Trackers(d) /\ OthersValue(c, d, j, None) /\ d.lb[j] = Gives(w, 0)
    BY ONLY j \in Lb(c), Trackers(c), <2>4, <2>6, ReleasedOne
  <2>8. OwnValue(c, d, j)
    <3>1. SUFFICES ASSUME NEW i \in Lb(c), i # j, c.lb[i].tracker # 0
                   PROVE  d.trackers[c.lb[i].tracker].raw # None
      BY <2>7 DEF OwnValue, OthersValue
    <3>2. d.lb[i] = c.lb[i] /\ i \in Lb(d)
      BY <2>7, <3>1 DEF Moved
    <3>3. c.lb[i].tracker \in DOMAIN d.trackers
      BY <2>7, <3>1, <3>2 DEF Trackers, Belongs
    <3>4. d.trackers[c.lb[i].tracker].raw \in Nat
      BY <2>7, <3>3 DEF Trackers, Lists, IsTracker
    <3> QED BY <3>4, PlayAssumption
  <2>9. d.lb[j].tracker = 0 /\ d.lb[j].state = "active" /\ d.lb[j].run = l.run /\ d.lb[j].value = l.value
    <3>1. 0 \in Nat
      OBVIOUS
    <3> QED BY ONLY <2>2, <2>7, <3>1, GivenFacts
  <2>10. d.title = c.title /\ d.hardcore = c.hardcore
    BY <2>7, MovedFacts
  <2>11. BoardAsPlayed(d, j)
    BY <1>2, <1>5, <2>9, <2>10 DEF BoardAsPlayed
  <2> QED BY <2>7, <2>8, <2>9, <2>11 DEF BoardRestored, SameValue
<1> QED BY <1>3, <1>4, <1>5 DEF LeaderboardType

\* what holds of d once the leaderboards up to n of s go on: each tracker has the value of one that holds it
Given1(s, d, n, k) == \E i \in Lb(s) : i <= n /\ d.lb[i].tracker = k /\ d.trackers[k].raw = d.lb[i].value
RestoredUntil(s, d, n) ==
  /\ Same(s, d, BoardFields) /\ SameScreen(s, d, {"trackers"}) /\ Lb(d) = Lb(s) /\ Trackers(d)
  /\ \A j \in Lb(s) : IF j <= n THEN BoardAsPlayed(d, j) ELSE d.lb[j] = s.lb[j]
  /\ ~s.odd => \A j \in Lb(s) : j <= n /\ d.lb[j].tracker # 0 => Given1(s, d, n, d.lb[j].tracker)

\* leaderboards into which a save state was read, with a value for each that has started
Startable(s, values) ==
  \A j \in Lb(s) : /\ Restorable(s, j)
                   /\ s.lb[j].state \in {"active", "tracking"} /\ s.lb[j].run = "started" =>
                        values[j] \in Nat /\ values[j] <= s.title.most

(* One leaderboard more. *)
LEMMA RestoreStep ==
  ASSUME NEW s, IsClient(s), Trackers(s), s.title \in Titles, NEW values, Startable(s, values),
         NEW n, NEW j, Follows(n, j), j \in Lb(s), NEW d, RestoredUntil(s, d, n), NEW e, e = TrackRestored(d, j, values[j])
  PROVE  RestoredUntil(s, e, j)
<1>1. /\ IsClient(d) /\ Lb(d) = Lb(s) /\ d.title = s.title /\ d.odd = s.odd /\ d.hardcore = s.hardcore
      /\ Trackers(d) /\ d.lb[j] = s.lb[j]
  <2>1. ~(j <= n)
    BY DEF Follows
  <2> QED BY <2>1 DEF RestoredUntil, Same, Fields, BoardFields
<1>2. Restorable(d, j)
  BY <1>1 DEF Startable, Restorable
<1>3. BoardRestored(d, e, j)
  <2>1. d.title \in Titles /\ j \in Lb(d)
    BY <1>1
  <2>2. d.lb[j].state \in {"active", "tracking"} /\ d.lb[j].run = "started" => values[j] \in Nat /\ values[j] <= d.title.most
    BY <1>1 DEF Startable
  <2> QED BY ONLY <1>1, <1>2, <2>1, <2>2, e = TrackRestored(d, j, values[j]), RestoredOne
<1>4. /\ Moved(d, e, j) /\ Trackers(e) /\ OwnValue(d, e, j) /\ BoardAsPlayed(e, j) /\ (~s.odd => SameValue(e, j))
  BY <1>1, <1>3 DEF BoardRestored
<1>5. /\ Same(s, e, BoardFields) /\ SameScreen(s, e, {"trackers"}) /\ Lb(e) = Lb(s)
      /\ \A i \in Lb(s) : i # j => e.lb[i] = d.lb[i]
  BY <1>1, <1>4 DEF Moved, Same, SameScreen, RestoredUntil
<1>6. \A i \in Lb(s) : i \in Nat /\ (i # j => (i <= n <=> i <= j))
  <2>1. Lb(s) \subseteq Nat
    BY DEF Trackers, Lists, Length, Lb
  <2> QED BY <2>1 DEF Follows
<1>7. ASSUME NEW i \in Lb(s) PROVE IF i <= j THEN BoardAsPlayed(e, i) ELSE e.lb[i] = s.lb[i]
  <2>1. CASE i = j
    <3>1. j <= j
      BY DEF Follows
    <3> QED BY <1>4, <2>1, <3>1
  <2>2. CASE i # j
    <3>1. IF i <= n THEN BoardAsPlayed(d, i) ELSE d.lb[i] = s.lb[i]
      BY DEF RestoredUntil
    <3>2. BoardAsPlayed(e, i) <=> BoardAsPlayed(d, i)
      BY <1>1, <1>4, <2>2, MovedFacts
    <3> QED BY <1>5, <1>6, <2>2, <3>1, <3>2
  <2> QED BY <2>1, <2>2
<1>8. ASSUME ~s.odd, NEW i \in Lb(s), i <= j, e.lb[i].tracker # 0 PROVE Given1(s, e, j, e.lb[i].tracker)
  <2> DEFINE k == e.lb[i].tracker
  <2>1. CASE e.lb[j].tracker = k
    <3>1. e.trackers[k].raw = e.lb[j].value /\ j <= j
      BY <1>4, <1>8, <2>1 DEF SameValue, Follows
    <3> QED BY <2>1, <3>1 DEF Given1
  <2>2. CASE e.lb[j].tracker # k
    <3>1. i # j /\ d.lb[i].tracker = k /\ i <= n
      BY <1>5, <1>6, <1>8, <2>2
    <3>2. PICK h \in Lb(s) : h <= n /\ d.lb[h].tracker = k /\ d.trackers[k].raw = d.lb[h].value
      BY <1>8, <3>1 DEF RestoredUntil, Given1
    <3>3. h # j /\ h <= j
      <4>1. ~(j <= n)
        BY DEF Follows
      <4> QED BY <1>6, <3>2, <4>1
    <3>4. e.lb[h] = d.lb[h] /\ e.trackers[k].raw = d.trackers[k].raw
      BY <1>1, <1>4, <1>5, <1>8, <2>2, <3>2, <3>3 DEF OwnValue
    <3> QED BY <3>2, <3>3, <3>4 DEF Given1
  <2> QED BY <2>1, <2>2
<1> QED BY <1>4, <1>5, <1>7, <1>8 DEF RestoredUntil

(* All the leaderboards of a save state.                                   *)
LEMMA RestoreAllKeeps ==
  ASSUME NEW s, IsClient(s), Trackers(s), s.title \in Titles, NEW values, Startable(s, values),
         NEW d, d = RestoreAll(s, values), NEW e, e = OddIf(d, Apart(d))
  PROVE  /\ Same(s, e, BoardFields \cup {"odd"}) /\ SameScreen(s, e, {"trackers"}) /\ Lb(e) = Lb(s)
         /\ Boards(e) /\ (s.odd => e.odd)
<1>1. Len(s.lb) \in Nat /\ Lb(s) = 1..Len(s.lb)
  BY DEF Trackers, Lists, Length, Lb
<1> DEFINE N == Len(s.lb)
<1>0. PICK after : Restores(after, s, values, d)
  BY <1>1, RestoreAllSteps
<1>2. /\ after[0] = s /\ after[N] = d
      /\ \A n \in Nat : n + 1 <= N => after[n + 1] = TrackRestored(after[n], n + 1, values[n + 1])
  BY <1>0 DEF Restores
<1> HIDE DEF N
<1> DEFINE S == {n \in Nat : n <= N => RestoredUntil(s, after[n], n)}
<1>3. RestoredUntil(s, s, 0)
  <2>1. \A j \in Lb(s) : ~(j <= 0)
    BY <1>1
  <2> QED BY <2>1 DEF RestoredUntil, Same, SameScreen
<1>4. 0 \in S
  BY <1>2, <1>3
<1>5. ASSUME NEW n \in Nat, n \in S PROVE n + 1 \in S
  <2>1. SUFFICES ASSUME n + 1 <= N PROVE RestoredUntil(s, after[n + 1], n + 1)
    OBVIOUS
  <2>2. N \in Nat /\ n <= N
    BY <1>1, <2>1 DEF N
  <2>3. RestoredUntil(s, after[n], n) /\ after[n + 1] = TrackRestored(after[n], n + 1, values[n + 1])
    BY <1>2, <1>5, <2>1, <2>2
  <2>4. PICK j : j = n + 1
    OBVIOUS
  <2>5. PICK f : f = after[n]
    OBVIOUS
  <2>6. PICK g : g = after[n + 1]
    OBVIOUS
  <2>7. j \in Lb(s) /\ n \in Nat
    BY <1>1, <2>1, <2>4 DEF N
  <2>8. g = TrackRestored(f, j, values[j]) /\ RestoredUntil(s, f, n)
    BY <2>3, <2>4, <2>5, <2>6
  <2>9. RestoredUntil(s, g, j)
    <3>1. Follows(n, j)
      BY <2>4 DEF Follows
    <3> QED BY <2>7, <2>8, <3>1, RestoreStep
  <2> QED BY <2>4, <2>6, <2>9
<1> HIDE DEF S
<1>6. S \in SUBSET Nat
  BY DEF S
<1>7. S = Nat
  BY <1>4, <1>5, <1>6, InductiveSet
<1>8. RestoredUntil(s, d, N)
  <2>1. N \in S
    BY <1>1, <1>7 DEF N
  <2>2. N <= N
    BY <1>1 DEF N
  <2> QED BY <1>2, <2>1, <2>2 DEF S
<1>9. IsClient(d) /\ Trackers(d) /\ Lb(d) = Lb(s) /\ d.odd = s.odd
  BY <1>8 DEF RestoredUntil, Same, Fields, BoardFields
<1>10. Same(d, e, {"odd"}) /\ e.ui = d.ui /\ (e.odd <=> d.odd \/ Apart(d))
  BY <1>9, OddIfFacts
<1>11. \A j \in Lb(s) : j <= N
  BY <1>1 DEF N
<1>12. ~e.odd => \A j \in Lb(d) : SameValue(d, j)
  <2>1. SUFFICES ASSUME ~s.odd, ~Apart(d), NEW j \in Lb(d), d.lb[j].tracker # 0
                 PROVE  d.trackers[d.lb[j].tracker].raw = d.lb[j].value
    BY <1>9, <1>10 DEF SameValue
  <2>2. Given1(s, d, N, d.lb[j].tracker)
    BY <1>8, <1>9, <1>11, <2>1 DEF RestoredUntil
  <2>3. PICK i \in Lb(s) : d.lb[i].tracker = d.lb[j].tracker /\ d.trackers[d.lb[j].tracker].raw = d.lb[i].value
    BY <2>2 DEF Given1
  <2>4. d.lb[i].value = d.lb[j].value
    BY <1>9, <2>1, <2>3 DEF Apart
  <2> QED BY <2>3, <2>4
<1>13. \A j \in Lb(d) : BoardAsPlayed(d, j)
  BY <1>8, <1>9, <1>11 DEF RestoredUntil
<1>14. Boards(e) /\ Lb(e) = Lb(d)
  BY <1>9, <1>10, <1>12, <1>13, OddBoards
<1>15. Same(s, e, BoardFields \cup {"odd"}) /\ SameScreen(s, e, {"trackers"})
  BY <1>8, <1>10 DEF RestoredUntil, Same, SameScreen
<1> QED BY <1>9, <1>10, <1>14, <1>15

-----------------------------------------------------------------------------
(* Resets, modes and the end of the game, of the leaderboards.             *)

\* only what is tracked has a tracker, but for one that was disabled
Loose(c) ==
  /\ Trackers(c)
  /\ \A j \in Lb(c) : LET l == c.lb[j]
       IN  l.value <= c.title.most /\ (l.tracker # 0 => l.state = "tracking" \/ (l.state = "disabled" /\ c.odd))

\* no attempt is under way
Dormant(c) ==
  /\ Trackers(c)
  /\ \A j \in Lb(c) : LET l == c.lb[j]
       IN  /\ l.value <= c.title.most /\ l.state \in {"inactive", "disabled"}
           /\ l.tracker # 0 => l.state = "disabled" /\ c.odd

(* What the invariant says of them is enough. *)
LEMMA BoardsLoose ==
  ASSUME NEW c, Boards(c)
  PROVE  Loose(c) /\ (~c.hardcore => Dormant(c))
<1>1. SUFFICES ASSUME NEW j \in Lb(c)
               PROVE  LET l == c.lb[j]
                      IN  /\ l.value <= c.title.most /\ (l.tracker # 0 => l.state = "tracking" \/ (l.state = "disabled" /\ c.odd))
                          /\ ~c.hardcore => /\ l.state \in {"inactive", "disabled"}
                                            /\ l.tracker # 0 => l.state = "disabled" /\ c.odd
  BY DEF Boards, Loose, Dormant
<1>2. BoardAsPlayed(c, j) /\ c.lb[j] \in LeaderboardType
  BY DEF Boards, Trackers, Lists
<1> QED BY <1>2 DEF BoardAsPlayed, LeaderboardType

(* In softcore no attempt is to be under way.                              *)
LEMMA DormantBoards ==
  ASSUME NEW c, Dormant(c), c.hardcore = FALSE
  PROVE  Boards(c)
<1>1. \A j \in Lb(c) : BoardAsPlayed(c, j) /\ (~c.odd => SameValue(c, j))
  <2>1. TAKE j \in Lb(c)
  <2>2. LET l == c.lb[j]
        IN  /\ l.value <= c.title.most /\ l.state \in {"inactive", "disabled"}
            /\ l.tracker # 0 => l.state = "disabled" /\ c.odd
    BY DEF Dormant
  <2> QED BY <2>2 DEF BoardAsPlayed, SameValue
<1> QED BY <1>1 DEF Boards, Dormant

(* A leaderboard that is disabled, reset, switched off or on.              *)
Disabled(l) == [l EXCEPT !.state = "disabled", !.run = "disabled"]
ResetBoard(l) == IF l.state \in {"inactive", "disabled"} THEN l ELSE [l EXCEPT !.state = "active", !.run = "waiting"]
SwitchedOff(l) == IF l.state = "disabled" THEN l ELSE [l EXCEPT !.state = "inactive"]
SwitchedOn(l) == IF l.state = "inactive" THEN [l EXCEPT !.state = "active", !.run = "waiting"] ELSE l

(* Its tracker and its value stay.                                         *)
LEMMA SwitchedTypes ==
  ASSUME NEW l \in LeaderboardType
  PROVE  \A w \in {Disabled(l), ResetBoard(l), SwitchedOff(l), SwitchedOn(l)} :
           w \in LeaderboardType /\ w.value = l.value /\ w.tracker = l.tracker /\ w.pending = l.pending
<1>1. Disabled(l) \in LeaderboardType /\ Disabled(l).value = l.value /\ Disabled(l).tracker = l.tracker
      /\ Disabled(l).pending = l.pending
  BY DEF Disabled, LeaderboardType
<1>2. LET w == ResetBoard(l)
      IN  w \in LeaderboardType /\ w.value = l.value /\ w.tracker = l.tracker /\ w.pending = l.pending
  BY DEF ResetBoard, LeaderboardType
<1>3. LET w == SwitchedOff(l)
      IN  w \in LeaderboardType /\ w.value = l.value /\ w.tracker = l.tracker /\ w.pending = l.pending
  BY DEF SwitchedOff, LeaderboardType
<1>4. LET w == SwitchedOn(l)
      IN  w \in LeaderboardType /\ w.value = l.value /\ w.tracker = l.tracker /\ w.pending = l.pending
  BY DEF SwitchedOn, LeaderboardType
<1> QED BY <1>1, <1>2, <1>3, <1>4

(* What loses its memory is disabled; it is odd if it was tracked.         *)
LEMMA LostBoards ==
  ASSUME NEW c, Trackers(c), NEW lost, NEW d, d.lb = LostLb(c, lost), d.title = c.title, d.hardcore = c.hardcore,
         d.trackers = c.trackers, d.ui = c.ui, ~d.odd => ~c.odd /\ ~LostShown(c, lost)
  PROVE  /\ Trackers(d) /\ Lb(d) = Lb(c) /\ (Boards(c) => Boards(d)) /\ (Dormant(c) => Dormant(d))
         /\ \A j \in Lb(c) : d.lb[j].pending = c.lb[j].pending /\ (d.lb[j].state # "disabled" => d.lb[j] = c.lb[j])
<1>1. \A j \in Lb(c) : d.lb[j] = IF c.title.lb[j].mem \in lost THEN Disabled(c.lb[j]) ELSE c.lb[j]
  BY DEF LostLb, Disabled
<1>2. \A j \in Lb(c) : c.lb[j] \in LeaderboardType
  BY DEF Trackers, Lists
<1>3. \A j \in Lb(c) : /\ d.lb[j] \in LeaderboardType /\ d.lb[j].value = c.lb[j].value
                       /\ d.lb[j].tracker = c.lb[j].tracker /\ d.lb[j].pending = c.lb[j].pending
                       /\ d.lb[j].state # "disabled" => d.lb[j] = c.lb[j]
  <2>1. TAKE j \in Lb(c)
  <2>2. CASE c.title.lb[j].mem \in lost
    <3>1. d.lb[j] = Disabled(c.lb[j])
      BY <1>1, <2>2
    <3>2. Disabled(c.lb[j]).state = "disabled"
      BY <1>2 DEF Disabled, LeaderboardType
    <3> QED BY <1>2, <3>1, <3>2, SwitchedTypes
  <2>3. CASE c.title.lb[j].mem \notin lost
    BY <1>1, <1>2, <2>3
  <2> QED BY <2>2, <2>3
<1>4. Trackers(d) /\ Lb(d) = Lb(c)
  <2>1. d.lb = [j \in Lb(c) |-> d.lb[j]] /\ d.ui.trackers = c.ui.trackers
    BY DEF LostLb
  <2> QED BY <1>3, <2>1, TrackersSame
<1>5. Dormant(c) => Dormant(d)
  <2>1. SUFFICES ASSUME Dormant(c), NEW j \in Lb(c)
                 PROVE  LET l == d.lb[j]
                        IN  /\ l.value <= d.title.most /\ l.state \in {"inactive", "disabled"}
                            /\ l.tracker # 0 => l.state = "disabled" /\ d.odd
    BY <1>4 DEF Dormant
  <2>2. LET l == c.lb[j]
        IN  /\ l.value <= c.title.most /\ l.state \in {"inactive", "disabled"}
            /\ l.tracker # 0 => l.state = "disabled" /\ c.odd
    BY <2>1 DEF Dormant
  <2>3. d.lb[j].state = "disabled" \/ d.lb[j] = c.lb[j]
    BY <1>3
  <2> QED BY <1>3, <2>2, <2>3
<1>6. Boards(c) => Boards(d)
  <2>1. SUFFICES ASSUME Boards(c), NEW j \in Lb(c)
                 PROVE  BoardAsPlayed(d, j) /\ (~d.odd => SameValue(d, j))
    BY <1>4 DEF Boards
  <2>2. BoardAsPlayed(c, j) /\ (~c.odd => SameValue(c, j))
    BY <2>1 DEF Boards
  <2>3. ~d.odd => SameValue(d, j)
    BY <1>3, <2>2 DEF SameValue
  <2>4. CASE d.lb[j] = c.lb[j]
    BY <2>2, <2>3, <2>4 DEF BoardAsPlayed
  <2>5. CASE d.lb[j] # c.lb[j]
    <3>1. d.lb[j].state = "disabled" /\ c.title.lb[j].mem \in lost
      BY <1>1, <1>3, <2>5
    <3>2. c.lb[j].tracker # 0 => c.lb[j].state = "tracking" \/ c.odd
      BY <1>2, <2>2 DEF BoardAsPlayed, LeaderboardType
    <3>3. c.lb[j].state = "tracking" => LostShown(c, lost)
      BY <3>1 DEF LostShown
    <3>4. d.lb[j].tracker # 0 => d.odd
      BY <1>3, <3>2, <3>3
    <3>5. d.lb[j].value <= d.title.most
      BY <1>3, <2>2 DEF BoardAsPlayed
    <3> QED BY <2>3, <3>1, <3>4, <3>5 DEF BoardAsPlayed
  <2> QED BY <2>4, <2>5
<1> QED BY <1>3, <1>4, <1>5, <1>6

(* Released, what was tracked has no tracker.                              *)
LEMMA ReleasedBoards ==
  ASSUME NEW c, IsClient(c), Loose(c), NEW d, d = ReleaseTrackers(c, Tracking(c))
  PROVE  /\ Same(c, d, {"lb", "trackers"}) /\ Trackers(d) /\ Lb(d) = Lb(c)
         /\ \A j \in Lb(c) : /\ d.lb[j].value = c.lb[j].value /\ d.lb[j].state = c.lb[j].state /\ d.lb[j].run = c.lb[j].run
                             /\ d.lb[j].pending = c.lb[j].pending
                             /\ d.lb[j].tracker # 0 => c.lb[j].state = "disabled" /\ c.odd
<1>1. PICK leaving : leaving = Tracking(c)
  OBVIOUS
<1>2. leaving \in SUBSET Lb(c) /\ Trackers(c)
  BY <1>1 DEF Tracking, Loose
<1>3. /\ Same(c, d, {"lb", "trackers"}) /\ Trackers(d) /\ Lb(d) = Lb(c)
      /\ \A j \in Lb(c) : /\ j \notin leaving => d.lb[j] = c.lb[j]
                          /\ j \in leaving => d.lb[j] = Gives(c.lb[j], 0)
  BY <1>1, <1>2, ReleaseTrackersKeeps
<1>4. ASSUME NEW j \in Lb(c)
      PROVE  /\ d.lb[j].value = c.lb[j].value /\ d.lb[j].state = c.lb[j].state /\ d.lb[j].run = c.lb[j].run
             /\ d.lb[j].pending = c.lb[j].pending
             /\ d.lb[j].tracker # 0 => c.lb[j].state = "disabled" /\ c.odd
  <2>1. c.lb[j] \in LeaderboardType
    BY <1>2 DEF Trackers, Lists
  <2>2. CASE j \in leaving
    <3>1. d.lb[j] = Gives(c.lb[j], 0) /\ 0 \in Nat
      BY <1>3, <2>2
    <3> QED BY ONLY <2>1, <3>1, GivenFacts
  <2>3. CASE j \notin leaving
    BY <1>1, <1>3, <2>3 DEF Loose, Tracking
  <2> QED BY <2>2, <2>3
<1> QED BY <1>3, <1>4

(* rc_client_reset_leaderboards: none is tracked any more.                 *)
LEMMA ResetLeaderboardsKeeps ==
  ASSUME NEW c, IsClient(c), Boards(c), NEW d, d = ResetLeaderboards(c)
  PROVE  /\ Same(c, d, {"lb", "trackers"}) /\ Lb(d) = Lb(c) /\ Boards(d)
         /\ \A j \in Lb(d) : d.lb[j].state # "tracking"
<1>1. PICK e : e = ReleaseTrackers(c, Tracking(c))
  OBVIOUS
<1>2. Loose(c)
  BY BoardsLoose
<1>3. /\ Same(c, e, {"lb", "trackers"}) /\ Trackers(e) /\ Lb(e) = Lb(c)
      /\ \A j \in Lb(c) : /\ e.lb[j].value = c.lb[j].value /\ e.lb[j].state = c.lb[j].state
                          /\ e.lb[j].tracker # 0 => c.lb[j].state = "disabled" /\ c.odd
  BY <1>1, <1>2, ReleasedBoards
<1> DEFINE lb == [j \in Lb(c) |-> ResetBoard(e.lb[j])]
<1>4. d = [e EXCEPT !.lb = lb]
  BY <1>1 DEF ResetLeaderboards, ResetBoard
<1> HIDE DEF lb
<1>5. Same(e, d, {"lb"}) /\ d.lb = lb
  BY <1>3, <1>4 DEF IsClient, Same, Fields
<1>6. d.title = c.title /\ d.hardcore = c.hardcore /\ d.odd = c.odd /\ d.trackers = e.trackers /\ d.ui = e.ui /\ d.title = e.title
  BY <1>3, <1>5 DEF Same, Fields
<1>7. d.lb = [j \in Lb(e) |-> d.lb[j]] /\ \A j \in Lb(e) : d.lb[j] = ResetBoard(e.lb[j])
  BY <1>3, <1>5 DEF lb
<1>8. \A j \in Lb(e) : e.lb[j] \in LeaderboardType
  BY <1>3 DEF Trackers, Lists
<1>9. \A j \in Lb(e) : d.lb[j] \in LeaderboardType /\ d.lb[j].value = e.lb[j].value /\ d.lb[j].tracker = e.lb[j].tracker
  BY <1>7, <1>8, SwitchedTypes
<1>10. Trackers(d) /\ Lb(d) = Lb(e)
  BY <1>3, <1>6, <1>7, <1>9, TrackersSame
<1>11. ASSUME NEW j \in Lb(e)
       PROVE  /\ IF e.lb[j].state \in {"inactive", "disabled"} THEN d.lb[j].state = e.lb[j].state
                 ELSE d.lb[j].state = "active" /\ d.lb[j].run = "waiting"
              /\ d.lb[j].state # "tracking"
  <2>1. e.lb[j] \in LeaderboardType /\ d.lb[j] = ResetBoard(e.lb[j])
    BY <1>7, <1>8
  <2> QED BY ONLY <2>1 DEF ResetBoard, LeaderboardType
<1>12. ASSUME NEW j \in Lb(c) PROVE BoardAsPlayed(d, j) /\ (~d.odd => SameValue(d, j))
  <2>1. BoardAsPlayed(c, j)
    BY DEF Boards
  <2>2. d.lb[j].tracker # 0 => d.lb[j].state = "disabled" /\ d.odd
    BY <1>3, <1>6, <1>9, <1>11
  <2>3. d.lb[j].value <= d.title.most
    BY <1>3, <1>6, <1>9, <2>1 DEF BoardAsPlayed
  <2>4. IF c.lb[j].state \in {"inactive", "disabled"} THEN d.lb[j].state = c.lb[j].state
        ELSE d.lb[j].state = "active" /\ d.lb[j].run = "waiting"
    BY <1>3, <1>11
  <2>5. c.lb[j].state # "disabled" => (c.lb[j].state = "inactive" <=> ~d.hardcore)
    BY <1>6, <2>1 DEF BoardAsPlayed
  <2> QED BY ONLY <2>2, <2>3, <2>4, <2>5 DEF BoardAsPlayed, SameValue
<1> QED BY <1>3, <1>5, <1>10, <1>11, <1>12 DEF Boards, Same

(* rc_client_deactivate_leaderboards: no attempt is under way any more.    *)
LEMMA DeactivateLeaderboardsKeeps ==
  ASSUME NEW c, IsClient(c), Loose(c), NEW d, d = DeactivateLeaderboards(c)
  PROVE  Same(c, d, {"lb", "trackers"}) /\ Lb(d) = Lb(c) /\ Dormant(d)
<1>1. PICK e : e = ReleaseTrackers(c, Tracking(c))
  OBVIOUS
<1>2. /\ Same(c, e, {"lb", "trackers"}) /\ Trackers(e) /\ Lb(e) = Lb(c)
      /\ \A j \in Lb(c) : /\ e.lb[j].value = c.lb[j].value /\ e.lb[j].state = c.lb[j].state
                          /\ e.lb[j].tracker # 0 => c.lb[j].state = "disabled" /\ c.odd
  BY <1>1, ReleasedBoards
<1> DEFINE lb == [j \in Lb(c) |-> SwitchedOff(e.lb[j])]
<1>3. d = [e EXCEPT !.lb = lb]
  BY <1>1 DEF DeactivateLeaderboards, SwitchedOff
<1> HIDE DEF lb
<1>4. Same(e, d, {"lb"}) /\ d.lb = lb
  BY <1>2, <1>3 DEF IsClient, Same, Fields
<1>5. d.odd = c.odd /\ d.trackers = e.trackers /\ d.ui = e.ui /\ d.title = e.title /\ e.title = c.title
  BY <1>2, <1>4 DEF Same, Fields
<1>6. d.lb = [j \in Lb(e) |-> d.lb[j]] /\ \A j \in Lb(e) : d.lb[j] = SwitchedOff(e.lb[j])
  BY <1>2, <1>4 DEF lb
<1>7. \A j \in Lb(e) : e.lb[j] \in LeaderboardType
  BY <1>2 DEF Trackers, Lists
<1>8. \A j \in Lb(e) : d.lb[j] \in LeaderboardType /\ d.lb[j].value = e.lb[j].value /\ d.lb[j].tracker = e.lb[j].tracker
  BY <1>6, <1>7, SwitchedTypes
<1>9. Trackers(d) /\ Lb(d) = Lb(e)
  BY <1>2, <1>5, <1>6, <1>8, TrackersSame
<1>10. \A j \in Lb(e) : d.lb[j].state = IF e.lb[j].state = "disabled" THEN "disabled" ELSE "inactive"
  <2>1. TAKE j \in Lb(e)
  <2>2. e.lb[j] \in LeaderboardType /\ d.lb[j] = SwitchedOff(e.lb[j])
    BY <1>6, <1>7
  <2> QED BY ONLY <2>2 DEF SwitchedOff, LeaderboardType
<1>11. ASSUME NEW j \in Lb(c)
       PROVE  LET l == d.lb[j]
              IN  /\ l.value <= d.title.most /\ l.state \in {"inactive", "disabled"}
                  /\ l.tracker # 0 => l.state = "disabled" /\ d.odd
  <2>1. c.lb[j].value <= c.title.most
    BY DEF Loose
  <2> QED BY <1>2, <1>5, <1>8, <1>10, <2>1
<1> QED BY <1>2, <1>4, <1>9, <1>11 DEF Dormant, Same

(* rc_client_activate_leaderboards, while none is under way: in hardcore   *)
(* each may start.                                                         *)
LEMMA ActivateLeaderboardsKeeps ==
  ASSUME NEW c, IsClient(c), Dormant(c), c.hardcore \in BOOLEAN, NEW d, d = ActivateLeaderboards(c)
  PROVE  /\ Same(c, d, {"lb"}) /\ Lb(d) = Lb(c) /\ Boards(d) /\ \A j \in Lb(c) : d.lb[j].pending = c.lb[j].pending
<1> DEFINE becomes(l) == IF c.hardcore THEN SwitchedOn(l) ELSE SwitchedOff(l)
           lb == [j \in Lb(c) |-> becomes(c.lb[j])]
<1>1. Trackers(c) /\ \A j \in Lb(c) : c.lb[j] \in LeaderboardType /\ c.lb[j].state \in {"inactive", "disabled"}
  BY DEF Dormant, Trackers, Lists
<1>2. \A j \in Lb(c) : becomes(c.lb[j]) = IF c.lb[j].state = "disabled" THEN c.lb[j]
                         ELSE IF ~c.hardcore THEN [c.lb[j] EXCEPT !.state = "inactive"]
                         ELSE IF c.lb[j].state = "inactive" THEN [c.lb[j] EXCEPT !.state = "active", !.run = "waiting"] ELSE c.lb[j]
  <2>1. TAKE j \in Lb(c)
  <2>2. c.lb[j].state \in {"inactive", "disabled"}
    BY <1>1
  <2>3. CASE c.hardcore
    BY <2>2, <2>3 DEF SwitchedOn
  <2>4. CASE ~c.hardcore
    BY <2>2, <2>4 DEF SwitchedOff
  <2> QED BY <2>3, <2>4
<1> HIDE DEF becomes
<1>3. d = [c EXCEPT !.lb = lb]
  BY <1>2 DEF ActivateLeaderboards
<1>4. lb = [j \in Lb(c) |-> lb[j]] /\ \A j \in Lb(c) : lb[j] = becomes(c.lb[j])
  OBVIOUS
<1> HIDE DEF lb
<1>5. Same(c, d, {"lb"}) /\ d.lb = lb
  BY <1>3 DEF IsClient, Same, Fields
<1>6. d.odd = c.odd /\ d.trackers = c.trackers /\ d.ui = c.ui /\ d.title = c.title /\ d.hardcore = c.hardcore
  BY <1>5 DEF Same, Fields
<1>7. \A j \in Lb(c) : /\ d.lb[j] \in LeaderboardType /\ d.lb[j].value = c.lb[j].value
                       /\ d.lb[j].tracker = c.lb[j].tracker /\ d.lb[j].pending = c.lb[j].pending
  BY <1>1, <1>4, <1>5, SwitchedTypes DEF becomes
<1>8. Trackers(d) /\ Lb(d) = Lb(c)
  <2>1. d.lb = [j \in Lb(c) |-> d.lb[j]] /\ d.ui.trackers = c.ui.trackers
    BY <1>4, <1>5, <1>6
  <2> QED BY <1>1, <1>6, <1>7, <2>1, TrackersSame
<1>9. ASSUME NEW j \in Lb(c) PROVE BoardAsPlayed(d, j) /\ (~d.odd => SameValue(d, j))
  <2>1. d.lb[j] = becomes(c.lb[j]) /\ c.lb[j] \in LeaderboardType
    BY <1>1, <1>4, <1>5
  <2>2. /\ c.lb[j].value <= c.title.most /\ c.lb[j].state \in {"inactive", "disabled"}
        /\ c.lb[j].tracker # 0 => c.lb[j].state = "disabled" /\ c.odd
    BY DEF Dormant
  <2>3. CASE c.hardcore
    <3>1. IF c.lb[j].state = "disabled" THEN d.lb[j].state = "disabled"
          ELSE d.lb[j].state = "active" /\ d.lb[j].run = "waiting"
      BY <2>1, <2>2, <2>3 DEF becomes, SwitchedOn, LeaderboardType
    <3> QED BY <1>6, <1>7, <2>2, <2>3, <3>1 DEF BoardAsPlayed, SameValue
  <2>4. CASE ~c.hardcore
    <3>1. d.lb[j].state = IF c.lb[j].state = "disabled" THEN "disabled" ELSE "inactive"
      BY <2>1, <2>2, <2>4 DEF becomes, SwitchedOff, LeaderboardType
    <3> QED BY <1>6, <1>7, <2>2, <2>4, <3>1 DEF BoardAsPlayed, SameValue
  <2> QED BY <2>3, <2>4
<1> QED BY <1>5, <1>7, <1>8, <1>9 DEF Boards

(* A game's leaderboards when it is loaded.                                *)
LEMMA CopiedBoards ==
  ASSUME NEW c, c.title \in Titles, c.lb = [j \in DOMAIN c.title.lb |-> CopyLeaderboard(c.title.lb[j])],
         c.trackers = <<>>, c.ui.trackers = <<>>
  PROVE  Dormant(c) /\ \A j \in Lb(c) : c.lb[j].pending = {}
<1>1. Len(c.title.lb) \in Nat /\ DOMAIN c.title.lb = 1..Len(c.title.lb) /\ c.title.most \in Nat
  BY TitleFacts
<1>2. /\ Lb(c) = 1..Len(c.title.lb) /\ c.lb = [j \in 1..Len(c.title.lb) |-> c.lb[j]]
      /\ \A j \in Lb(c) : c.lb[j] = CopyLeaderboard(c.title.lb[j])
  BY <1>1 DEF Lb
<1>3. Length(c.lb)
  BY <1>1, <1>2, LengthIs
<1>4. Len(<<>>) = 0 /\ DOMAIN <<>> = {} /\ \A n : n \notin DOMAIN <<>>
  OBVIOUS
<1>5. Length(c.trackers) /\ Length(c.ui.trackers) /\ Len(c.trackers) = Len(c.ui.trackers) /\ DOMAIN c.trackers = {}
  <2>1. c.trackers = [n \in 1..0 |-> c.trackers[n]]
    BY <1>4
  <2>2. Length(c.trackers) /\ Len(c.trackers) = 0
    BY <2>1, LengthIs
  <2> QED BY <1>4, <2>2
<1>6. \A j \in Lb(c) : /\ c.lb[j] \in LeaderboardType /\ c.lb[j].state = "inactive" /\ c.lb[j].tracker = 0
                       /\ c.lb[j].value = 0 /\ c.lb[j].pending = {}
  BY <1>2 DEF CopyLeaderboard, LeaderboardType
<1>7. Lists(c)
  BY <1>2, <1>3, <1>5, <1>6 DEF Lists, Lb
<1>8. Trackers(c)
  BY <1>5, <1>6, <1>7 DEF Trackers, Belongs
<1>9. 0 <= c.title.most
  BY <1>1
<1>10. \A j \in Lb(c) : LET l == c.lb[j]
         IN  /\ l.value <= c.title.most /\ l.state \in {"inactive", "disabled"}
             /\ l.tracker # 0 => l.state = "disabled" /\ c.odd
  BY <1>6, <1>9
<1> QED BY <1>6, <1>8, <1>10 DEF Dormant

(* Once the last events are raised, nothing of a game that is left is      *)
(* shown.                                                                  *)
LEMMA NoneShown ==
  ASSUME NEW c, Trackers(c), \A j \in Lb(c) : c.lb[j].tracker = 0, \A k \in DOMAIN c.trackers : c.trackers[k].pending = {}
  PROVE  \A k \in DOMAIN c.ui.trackers : c.ui.trackers[k] = None
<1>1. /\ Lists(c) /\ DOMAIN c.trackers = 1..Len(c.trackers) /\ DOMAIN c.ui.trackers = DOMAIN c.trackers
      /\ Len(c.trackers) \in Nat
  BY DEF Trackers, Lists, Length
<1>2. ASSUME NEW k \in DOMAIN c.trackers PROVE c.ui.trackers[k] = None
  <2>1. k # 0
    BY <1>1
  <2>2. Holders(c, k) = {}
    BY <2>1 DEF Holders
  <2>3. Counted(c, k) /\ WillShow(c, k)
    BY DEF Trackers
  <2>4. c.trackers[k].refs = 0
    BY <1>1, <2>2, <2>3, HoldersFacts DEF Counted
  <2> QED BY <2>3, <2>4 DEF WillShow
<1> QED BY <1>1, <1>2

-----------------------------------------------------------------------------
(* The calls of the API and the answers of the server.                     *)

\* fields that only say what the server answered, and what is told of it
OutsideFields == {"requests", "owed", "mastery", "misused", "disconnect", "timer", "ui"}

(* What changes none of their fields keeps the trackers. *)
LEMMA TrackersAgain ==
  ASSUME NEW c, Trackers(c), NEW d, d.title = c.title, d.lb = c.lb, d.trackers = c.trackers, d.ui.trackers = c.ui.trackers
  PROVE  Trackers(d) /\ Lb(d) = Lb(c)
<1>1. Lb(d) = Lb(c)
  BY DEF Lb
<1>2. d.lb = [j \in Lb(c) |-> d.lb[j]]
  BY DEF Trackers, Lists, Length, Lb
<1>3. \A j \in Lb(c) : d.lb[j] \in LeaderboardType /\ d.lb[j].tracker = c.lb[j].tracker
  BY DEF Trackers, Lists
<1> QED BY <1>1, <1>2, <1>3, TrackersSame

(* Nor are they loosened or woken by it. *)
LEMMA LooseSame ==
  ASSUME NEW c, NEW d, d.title = c.title, d.lb = c.lb, d.trackers = c.trackers, d.ui.trackers = c.ui.trackers, c.odd => d.odd
  PROVE  (Loose(c) => Loose(d)) /\ (Dormant(c) => Dormant(d))
<1>1. Lb(d) = Lb(c)
  BY DEF Lb
<1>2. Trackers(c) => Trackers(d)
  BY TrackersAgain
<1>3. Loose(c) => Loose(d)
  BY <1>1, <1>2 DEF Loose
<1>4. Dormant(c) => Dormant(d)
  BY <1>1, <1>2 DEF Dormant
<1> QED BY <1>3, <1>4

(* What changes none of their fields keeps the leaderboards. *)
LEMMA BoardsSame ==
  ASSUME NEW c, Boards(c), NEW d, d.title = c.title, d.hardcore = c.hardcore, d.lb = c.lb, d.trackers = c.trackers,
         d.ui.trackers = c.ui.trackers, c.odd => d.odd
  PROVE  Boards(d) /\ Lb(d) = Lb(c)
<1>1. Trackers(d) /\ Lb(d) = Lb(c)
  BY TrackersAgain DEF Boards
<1>3. \A j \in Lb(d) : BoardAsPlayed(d, j) /\ (~d.odd => SameValue(d, j))
  BY <1>1 DEF Boards, BoardAsPlayed, SameValue
<1> QED BY <1>1, <1>3 DEF Boards

(* What happens outside the game keeps the game. *)
LEMMA OutsideKeeps ==
  ASSUME NEW c, PlayInv(c), NEW d, Same(c, d, OutsideFields), SameScreen(c, d, {"offline", "progress"}),
         Server(d), Single(d), Popup(d), c.timer = FALSE => d.timer = FALSE
  PROVE  PlayInv(d)
<1>1. /\ IsClient(d) /\ d.title = c.title /\ d.encore = c.encore /\ d.hardcore = c.hardcore /\ d.loaded = c.loaded
      /\ d.waiting = c.waiting /\ d.ach = c.ach /\ d.lb = c.lb /\ d.trackers = c.trackers /\ d.listed = c.listed
      /\ d.action = c.action /\ d.odd = c.odd /\ d.early = c.early
  BY DEF Same, Fields, OutsideFields
<1>2. d.ui.trackers = c.ui.trackers /\ d.ui.challenges = c.ui.challenges
  BY DEF SameScreen, ScreenFields
<1>3. Achievements(d)
  BY <1>1, <1>2, AchievementsSame DEF PlayInv
<1>4. Boards(c) => Boards(d)
  BY <1>1, <1>2, BoardsSame
<1>5. Empty(c) => Empty(d)
  BY <1>1, <1>2 DEF Empty
<1>6. Played(d)
  BY <1>1, <1>4, <1>5 DEF PlayInv, Played
<1>7. Quiet(d)
  BY <1>1 DEF PlayInv, Quiet, Ach, Lb
<1> QED BY <1>1, <1>3, <1>6, <1>7 DEF PlayInv

\* a game that is played, with events to be raised
Playing(c) ==
  /\ IsClient(c) /\ c.title \in Titles /\ c.hardcore \in BOOLEAN
  /\ Server(c) /\ Popup(c) /\ Achievements(c)
  /\ c.loaded /\ DOMAIN c.ach = DOMAIN c.title.ach /\ Boards(c)

(* A loaded game is being played. *)
LEMMA PlayingNow ==
  ASSUME NEW c, PlayInv(c), c.loaded
  PROVE  Playing(c) /\ Quiet(c)
BY DEF PlayInv, Played, Playing

(* Nothing that triggers in hardcore has seen softcore. *)
LEMMA NoneSpoilt ==
  ASSUME NEW c, Achievements(c)
  PROVE  c.early = FALSE /\ ~Spoilt(c, Raised(c, "triggered"))
BY DEF Achievements, Clean, Spoilt, Raised, Wins

(* rc_client_raise_pending_events.                                         *)
LEMMA RaisedPlay ==
  ASSUME NEW c, Playing(c), NEW d, d = RaisePending(c, TRUE)
  PROVE  Playing(d) /\ Quiet(d)
<1>1. PICK won : won = Raised(c, "triggered")
  OBVIOUS
<1>2. c.early = FALSE /\ ~Spoilt(c, won)
  BY <1>1, NoneSpoilt DEF Playing
<1>3. PICK there : there = TRUE
  OBVIOUS
<1>4. /\ Same(c, d, EventFields) /\ SameScreen(c, d, {"trackers", "challenges", "progress"})
      /\ d.trackers = ToldAll(c.trackers) /\ d.ui.trackers = SeenAll(c) /\ d.lb = ToldAll(c.lb)
      /\ d.ach = ToldAll(AwardedAll(c, won))
      /\ d.ui.challenges = (c.ui.challenges \cup Raised(c, "show")) \ Raised(c, "hide")
      /\ d.early = FALSE
      /\ d.action = "none" /\ d.ui.progress = d.timer
      /\ won # {} => d.listed = Active(d)
      /\ won = {} => d.listed = c.listed
      /\ Server(d)
  <2>1. d = RaisePending(c, there) /\ IsClient(c) /\ Popup(c) /\ Server(c)
    BY <1>3 DEF Playing
  <2>2. EventsRaised(c, d, won)
    BY ONLY <1>1, <2>1, RaisePendingEffect
  <2> QED BY ONLY <1>2, <2>1, <2>2 DEF EventsRaised
<1>5. /\ IsClient(d) /\ d.title = c.title /\ d.hardcore = c.hardcore /\ d.encore = c.encore /\ d.waiting = c.waiting
      /\ d.odd = c.odd /\ d.loaded = c.loaded
  BY <1>4 DEF Same, Fields, EventFields
<1>6. Achievements(d) /\ Ach(d) = Ach(c) /\ \A i \in Ach(d) : d.ach[i].pending = {}
  <2>1. Achievements(c)
    BY DEF Playing
  <2> QED BY ONLY <1>1, <1>2, <1>4, <1>5, <2>1, RaisedAchievements, ZenonT(60)
<1>7. Boards(d) /\ (\A j \in Lb(d) : d.lb[j].pending = {}) /\ \A k \in DOMAIN d.trackers : d.trackers[k].pending = {}
  <2>1. Boards(c) /\ Trackers(c)
    BY DEF Playing, Boards
  <2>2. /\ Trackers(d) /\ Lb(d) = Lb(c)
        /\ \A j \in Lb(d) : d.lb[j].pending = {} /\ (BoardAsPlayed(c, j) => BoardAsPlayed(d, j))
                                                 /\ (SameValue(c, j) => SameValue(d, j))
        /\ \A k \in DOMAIN d.trackers : d.trackers[k].pending = {}
    BY ONLY <1>4, <1>5, <2>1, RaisedBoards
  <2> QED BY <1>5, <2>1, <2>2 DEF Boards
<1>8. DOMAIN d.ach = DOMAIN d.title.ach
  BY <1>5, <1>6 DEF Playing, Ach
<1>9. Popup(d)
  <2>1. d.timer = c.timer
    BY <1>4 DEF Same, Fields, EventFields
  <2> QED BY <1>4, <2>1 DEF Playing, Popup
<1>10. d.title \in Titles /\ d.hardcore \in BOOLEAN /\ d.loaded
  BY <1>5 DEF Playing
<1>11. Quiet(d)
  BY <1>4, <1>6, <1>7 DEF Quiet
<1> QED BY <1>4, <1>5, <1>6, <1>7, <1>8, <1>9, <1>10, <1>11 DEF Playing

(* A game that is played, with no event pending, satisfies the invariant. *)
LEMMA PlayingKeeps ==
  ASSUME NEW c, Playing(c), Quiet(c), Single(c)
  PROVE  PlayInv(c)
BY DEF PlayInv, Played, Playing

(* rc_client_idle.                                                         *)
LEMMA IdleKeeps ==
  ASSUME NEW c, PlayInv(c), NEW due, due \subseteq Waiting(c), NEW elapsed, NEW d, d = RunDue(c, due, elapsed), Single(d)
  PROVE  PlayInv(d)
<1>1. Same(c, d, IdleFields) /\ SameScreen(c, d, {"offline", "progress"}) /\ Server(d) /\ Elapsed(c, d, elapsed)
  <2>1. IsClient(c) /\ Server(c)
    BY DEF PlayInv
  <2> QED BY ONLY <2>1, due \subseteq Waiting(c), d = RunDue(c, due, elapsed), RunDueKeeps
<1>2. Same(c, d, OutsideFields)
  BY <1>1 DEF Same, IdleFields, OutsideFields
<1>3. c.action = "none" /\ d.action = "none"
  BY <1>1 DEF Same, IdleFields, Fields, PlayInv, Quiet
<1>4. Popup(d)
  BY <1>1, <1>3 DEF Popup, PlayInv, Elapsed
<1>5. c.timer = FALSE => d.timer = FALSE
  BY <1>1 DEF Elapsed
<1> QED BY <1>1, <1>2, <1>4, <1>5, OutsideKeeps

(* An answer, or a failure that is tried again.                            *)
LEMMA RespondKeeps ==
  ASSUME NEW c, PlayInv(c), NEW r \in c.requests, ~r.waits, NEW answer,
         NEW d, d = Retry(c, r) \/ d = Answered(c, r, answer), Single(d)
  PROVE  PlayInv(d)
<1>1. IsClient(c) /\ Server(c) /\ Single(c)
  BY DEF PlayInv
<1>2. r.waits = FALSE
  BY <1>1 DEF Server, IsRequest
<1>3. Same(c, d, AnswerFields) /\ Server(d)
  <2>1. CASE d = Retry(c, r)
    <3>1. Same(c, d, {"requests", "disconnect"}) /\ Server(d)
      BY <1>1, <2>1, RetryKeeps
    <3> QED BY <3>1 DEF Same, AnswerFields
  <2>2. CASE d = Answered(c, r, answer)
    BY <1>1, <1>2, <2>2, AnsweredKeeps
  <2> QED BY <2>1, <2>2
<1>4. d.ui = c.ui /\ d.timer = c.timer /\ d.action = c.action
  BY <1>3 DEF Same, AnswerFields, Fields
<1>5. Same(c, d, OutsideFields) /\ SameScreen(c, d, {"offline", "progress"})
  BY <1>3, <1>4 DEF Same, AnswerFields, OutsideFields, SameScreen
<1>6. Popup(d)
  BY <1>4 DEF Popup, PlayInv
<1> QED BY <1>3, <1>4, <1>5, <1>6, OutsideKeeps

(* rc_client_reset.                                                        *)
LEMMA ResetKeeps ==
  ASSUME NEW c, PlayInv(c), c.loaded,
         NEW d, d = RaisePending(ResetAll(HideProgressTracker([c EXCEPT !.waiting = FALSE])), TRUE), Single(d)
  PROVE  PlayInv(d)
<1>1. Playing(c) /\ Quiet(c)
  BY PlayingNow
<1>2. PICK w : w = [c EXCEPT !.waiting = FALSE]
  OBVIOUS
<1>3. PICK h : h = HideProgressTracker(w)
  OBVIOUS
<1>4. PICK a : a = ResetAchievements(h)
  OBVIOUS
<1>5. PICK l : l = ResetLeaderboards(a)
  OBVIOUS
<1>6. d = RaisePending(l, TRUE)
  BY <1>2, <1>3, <1>4, <1>5 DEF ResetAll
<1>7. IsClient(c)
  BY DEF PlayInv
<1>8. Same(c, w, {"waiting"})
  BY <1>2, <1>7 DEF IsClient, Same, Fields
<1>9. /\ Same(w, h, {"timer", "action"})
      /\ w.timer /\ w.action = "none" => h.timer = FALSE /\ h.action = "hide"
      /\ ~(w.timer /\ w.action = "none") => h = w
  <2>1. IsClient(w)
    BY <1>8 DEF Same
  <2> QED BY <1>3, <2>1, HideProgressTrackerEffect
<1>10. Same(h, a, {"ach"}) /\ a.ach = ResetAch(h)
  <2>1. IsClient(h)
    BY <1>9 DEF Same
  <2> QED BY <1>4, <2>1, ResetAchievementsEffect
<1>11. Popup(h)
  <2>1. w.timer = c.timer /\ w.action = c.action /\ w.ui = c.ui
    BY <1>8 DEF Same, Fields
  <2>2. h.ui = w.ui
    BY <1>9 DEF Same, Fields
  <2>3. Popup(w) /\ w.action = "none"
    BY <1>1, <2>1 DEF Popup, Playing, Quiet
  <2>4. CASE w.timer
    BY <1>9, <2>3, <2>4 DEF Popup
  <2>5. CASE ~w.timer
    BY <1>9, <2>3, <2>5
  <2> QED BY <2>4, <2>5
<1>12. /\ a.title = c.title /\ a.hardcore = c.hardcore /\ a.encore = c.encore /\ a.early = c.early /\ a.odd = c.odd
       /\ a.listed = c.listed /\ a.loaded = c.loaded /\ a.lb = c.lb /\ a.trackers = c.trackers /\ a.ui = c.ui
       /\ h.ach = c.ach /\ h.hardcore = c.hardcore /\ h.encore = c.encore /\ h.early = c.early /\ h.odd = c.odd
       /\ h.listed = c.listed /\ h.ui = c.ui /\ h.title = c.title
       /\ a.timer = h.timer /\ a.action = h.action
       /\ IsClient(h) /\ IsClient(a)
  BY <1>8, <1>9, <1>10 DEF Same, Fields
<1>13. Achievements(a) /\ Ach(a) = Ach(c)
  <2>1. AtRest(c)
    BY <1>1, AtRestFacts DEF Playing, Quiet
  <2>2. Hiding(c) /\ (\A i \in Ach(c) : AsPlayed(c, i)) /\ c.listed = Active(c)
    BY <1>1, <2>1, RestHides DEF Playing, Achievements
  <2>3. Ach(h) = Ach(c) /\ Active(h) = Active(c) /\ Primed(h) = Primed(c) /\ \A i \in Ach(c) : UnlockBit(h, i) = UnlockBit(c, i)
    BY <1>12 DEF Ach, Active, Primed, UnlockBit, Mode
  <2>4. Hiding(h)
    BY ONLY <1>12, <2>2, <2>3 DEF Hiding
  <2>5. \A i \in Ach(h) : AsPlayed(h, i)
    BY ONLY <1>12, <2>2, <2>3 DEF AsPlayed
  <2>6. h.listed = Active(h)
    BY <1>12, <2>2, <2>3
  <2>7. /\ a.hardcore = h.hardcore /\ a.encore = h.encore /\ a.listed = h.listed /\ a.early = h.early
        /\ a.ui.challenges = h.ui.challenges /\ (~a.odd => ~h.odd)
    BY <1>12
  <2>8. Achievements(a) /\ Ach(a) = Ach(h)
    BY ONLY <1>10, <1>12, <2>4, <2>5, <2>6, <2>7, ResetAchievementsFacts
  <2> QED BY <2>3, <2>8
<1>14. Server(a)
  <2>1. a.requests = c.requests /\ a.owed = c.owed /\ a.disconnect = c.disconnect
    BY <1>8, <1>9, <1>10 DEF Same, Fields
  <2> QED BY <1>1, <1>12, <2>1 DEF Playing, Server, Waiting
<1>15. Boards(a)
  <2>1. Boards(c)
    BY <1>1 DEF Playing
  <2> QED BY <1>12, <2>1, BoardsSame
<1>16. Same(a, l, {"lb", "trackers"}) /\ Boards(l)
  BY ONLY <1>5, <1>12, <1>15, ResetLeaderboardsKeeps
<1>17. /\ IsClient(l) /\ l.title = a.title /\ l.hardcore = a.hardcore /\ l.loaded = a.loaded /\ l.ui = a.ui /\ l.ach = a.ach
       /\ l.timer = a.timer /\ l.action = a.action
  BY <1>16 DEF Same, Fields
<1>18. Achievements(l)
  <2>1. /\ l.listed = a.listed /\ l.encore = a.encore /\ l.waiting = a.waiting /\ l.early = a.early /\ l.odd = a.odd
    BY <1>16 DEF Same, Fields
  <2> QED BY <1>13, <1>17, <2>1, AchievementsSame
<1>19. Server(l)
  BY <1>14, <1>16, <1>17, ServerSame DEF ServerFields
<1>20. Popup(l)
  BY <1>11, <1>12, <1>17 DEF Popup
<1>21. DOMAIN l.ach = DOMAIN l.title.ach
  BY <1>1, <1>12, <1>13, <1>17 DEF Playing, Ach
<1>22. Playing(l)
  BY <1>1, <1>12, <1>16, <1>17, <1>18, <1>19, <1>20, <1>21 DEF Playing
<1> QED BY <1>6, <1>22, RaisedPlay, PlayingKeeps

(* Without a game, a change of mode leaves nothing still. *)
LEMMA EmptyKeeps ==
  ASSUME NEW c, PlayInv(c), ~c.loaded, NEW d, Same(c, d, {"hardcore"}), d.hardcore \in BOOLEAN
  PROVE  PlayInv(d)
<1>1. /\ IsClient(d) /\ d.title = c.title /\ d.loaded = c.loaded /\ d.waiting = c.waiting
      /\ d.ach = c.ach /\ d.lb = c.lb /\ d.trackers = c.trackers /\ d.listed = c.listed
      /\ d.action = c.action /\ d.odd = c.odd /\ d.early = c.early /\ d.timer = c.timer /\ d.ui = c.ui
      /\ d.requests = c.requests /\ d.owed = c.owed /\ d.disconnect = c.disconnect
  BY DEF Same, Fields
<1>2. Empty(c) /\ Achievements(c)
  BY DEF PlayInv, Played
<1>3. Ach(c) = {} /\ Ach(d) = {}
  BY <1>1, <1>2 DEF Empty, Ach
<1>4. Active(c) = {} /\ Active(d) = {} /\ Primed(d) = {} /\ Primed(c) = {}
  BY <1>3 DEF Active, Primed
<1>5. Raised(c, "show") = {} /\ Raised(c, "hide") = {} /\ Raised(d, "show") = {} /\ Raised(d, "hide") = {}
  BY <1>3 DEF Raised
<1>6. Challenges(d)
  BY <1>1, <1>2, <1>4, <1>5 DEF Achievements, Challenges
<1>7. Achievements(d)
  BY <1>1, <1>2, <1>3, <1>4, <1>6 DEF Achievements, Clean
<1>8. Server(d) /\ Single(d) /\ Popup(d)
  BY <1>1 DEF PlayInv, Server, Single, Popup, Waiting
<1>9. Empty(d)
  BY <1>1, <1>2 DEF Empty
<1>10. Quiet(d)
  BY <1>1 DEF PlayInv, Quiet, Ach, Lb
<1> QED BY <1>1, <1>7, <1>8, <1>9, <1>10 DEF PlayInv, Played

\* the client in another mode
Switched(c, hardcore) == [c EXCEPT !.hardcore = hardcore]

(* Switched to a mode, the achievements are as it says, unless they have   *)
(* seen softcore.                                                          *)
LEMMA SwitchedAchievements ==
  ASSUME NEW c, PlayInv(c), NEW hardcore \in BOOLEAN, NEW o, o = Switched(c, hardcore),
         NEW mode, mode = Mode(o), NEW d, d = ToggleAchievements(o, mode)
  PROVE  /\ Same(o, d, {"ach", "ui", "listed"}) /\ SameScreen(o, d, {"challenges"}) /\ Ach(d) = Ach(c) /\ Same(c, o, {"hardcore"})
         /\ o.hardcore = hardcore /\ AtRest(d) /\ d.listed = Active(d) /\ \A i \in Ach(d) : AsPlayed(d, i)
<1>1. Same(c, o, {"hardcore"}) /\ o.hardcore = hardcore
  BY DEF PlayInv, Switched, IsClient, Same, Fields
<1>2. IsClient(o) /\ o.ach = c.ach /\ o.early = c.early /\ o.odd = c.odd /\ o.ui = c.ui
  BY <1>1 DEF Same, Fields
<1>3. AtRest(c)
  BY AtRestFacts DEF PlayInv, Quiet
<1>4. Ach(o) = Ach(c) /\ Active(o) = Active(c) /\ Primed(o) = Primed(c)
  BY <1>2 DEF Ach, Active, Primed
<1>5. AtRest(o)
  BY ONLY <1>2, <1>3, <1>4 DEF AtRest
<1>6. ~o.encore => mode = Mode(o)
  OBVIOUS
<1>7. /\ Same(o, d, {"ach", "ui", "listed"}) /\ SameScreen(o, d, {"challenges"}) /\ Ach(d) = Ach(o)
      /\ AtRest(d) /\ d.listed = Active(d)
      /\ \A i \in Ach(d) : AsPlayed(d, i) /\ (o.ach[i].carried # "played" => d.ach[i].carried # "played")
  BY ONLY <1>2, <1>5, <1>6, d = ToggleAchievements(o, mode), ToggledAchievements
<1> QED BY <1>1, <1>4, <1>7

(* rc_client_set_hardcore_enabled(TRUE).                                   *)
LEMMA EnableKeeps ==
  ASSUME NEW c, PlayInv(c), ~c.hardcore, NEW on, on = [c EXCEPT !.hardcore = TRUE], NEW d, d = IF on.loaded THEN Hardcore(on) ELSE on
  PROVE  PlayInv(d)
<1>1. Same(c, on, {"hardcore"}) /\ on.hardcore = TRUE
  BY DEF PlayInv, IsClient, Same, Fields
<1>2. CASE ~c.loaded
  <2>1. d = on
    BY <1>1, <1>2 DEF Same, Fields
  <2> QED BY <1>1, <1>2, <2>1, EmptyKeeps
<1>4. CASE c.loaded /\ c.hardcore = FALSE
  <2>1. PICK a : a = ToggleAchievements(on, "hardcore")
    OBVIOUS
  <2>2. PICK l : l = ActivateLeaderboards(a)
    OBVIOUS
  <2>3. d = [l EXCEPT !.waiting = TRUE]
    BY <1>1, <1>4, <2>1, <2>2 DEF Hardcore, Same, Fields
  <2>4. PICK yes : yes = TRUE
    OBVIOUS
  <2>5. PICK mode : mode = Mode(on)
    OBVIOUS
  <2>6. /\ Same(on, a, {"ach", "ui", "listed"}) /\ SameScreen(on, a, {"challenges"}) /\ Ach(a) = Ach(c)
        /\ AtRest(a) /\ a.listed = Active(a) /\ \A i \in Ach(a) : AsPlayed(a, i)
    <3>1. on = Switched(c, yes)
      BY <2>4 DEF Switched
    <3>2. mode = "hardcore"
      BY <1>1, <2>5 DEF Mode
    <3>3. a = ToggleAchievements(on, mode) /\ yes \in BOOLEAN
      BY <2>1, <2>4, <3>2
    <3> QED BY ONLY PlayInv(c), <2>5, <3>1, <3>3, SwitchedAchievements
  <2>7. /\ IsClient(a) /\ a.title = c.title /\ a.lb = c.lb /\ a.trackers = c.trackers /\ a.odd = c.odd /\ a.hardcore = TRUE
        /\ a.ui.trackers = c.ui.trackers /\ a.ui.progress = c.ui.progress /\ a.ui.offline = c.ui.offline
        /\ a.timer = c.timer /\ a.action = c.action /\ a.loaded = c.loaded
        /\ a.requests = c.requests /\ a.owed = c.owed /\ a.disconnect = c.disconnect
    BY <1>1, <2>6 DEF Same, SameScreen, Fields, ScreenFields
  <2>8. Dormant(a)
    <3>1. Dormant(c)
      BY <1>4, BoardsLoose DEF PlayInv, Played
    <3> QED BY ONLY <2>7, <3>1, LooseSame
  <2>9. /\ Same(a, l, {"lb"}) /\ Lb(l) = Lb(a) /\ Boards(l) /\ \A j \in Lb(a) : l.lb[j].pending = a.lb[j].pending
    <3>1. a.hardcore \in BOOLEAN
      BY <2>7
    <3> QED BY ONLY <2>2, <2>7, <2>8, <3>1, ActivateLeaderboardsKeeps
  <2>10. Same(l, d, {"waiting"}) /\ d.waiting = TRUE
    BY <2>3, <2>9 DEF IsClient, Same, Fields
  <2>11. /\ IsClient(d) /\ d.title = c.title /\ d.trackers = c.trackers /\ d.odd = c.odd /\ d.hardcore = TRUE
         /\ d.ui = a.ui /\ d.ach = a.ach /\ d.listed = a.listed /\ d.early = a.early /\ d.encore = a.encore
         /\ d.timer = c.timer /\ d.action = c.action /\ d.loaded = c.loaded /\ d.lb = l.lb
         /\ l.title = c.title /\ l.hardcore = TRUE /\ l.odd = c.odd /\ l.ui = a.ui /\ l.trackers = c.trackers
    <3>1. /\ l.title = a.title /\ l.hardcore = a.hardcore /\ l.odd = a.odd /\ l.ui = a.ui /\ l.trackers = a.trackers
      BY <2>9 DEF Same, Fields
    <3>2. /\ l.ach = a.ach /\ l.listed = a.listed /\ l.early = a.early /\ l.encore = a.encore
          /\ l.timer = a.timer /\ l.action = a.action /\ l.loaded = a.loaded
      BY <2>9 DEF Same, Fields
    <3>3. /\ IsClient(d) /\ d.title = l.title /\ d.trackers = l.trackers /\ d.odd = l.odd /\ d.hardcore = l.hardcore
          /\ d.ui = l.ui /\ d.lb = l.lb
      BY <2>10 DEF Same, Fields
    <3>4. /\ d.ach = l.ach /\ d.listed = l.listed /\ d.early = l.early /\ d.encore = l.encore
          /\ d.timer = l.timer /\ d.action = l.action /\ d.loaded = l.loaded
      BY <2>10 DEF Same, Fields
    <3> QED BY ONLY <2>7, <3>1, <3>2, <3>3, <3>4
  <2>12. Ach(d) = Ach(a) /\ Active(d) = Active(a) /\ Primed(d) = Primed(a)
    <3>1. d.ach = a.ach
      BY <2>11
    <3> QED BY ONLY <3>1 DEF Ach, Active, Primed
  <2>13. Achievements(d)
    <3>1. AtRest(d)
      BY ONLY <2>6, <2>11, <2>12, <2>7 DEF AtRest
    <3>2. \A i \in Ach(d) : AsPlayed(d, i)
      <4>1. \A i \in Ach(d) : UnlockBit(d, i) = UnlockBit(a, i)
        BY <2>11, <2>7 DEF UnlockBit, Mode
      <4> QED BY <2>6, <2>11, <2>12, <4>1 DEF AsPlayed
    <3>3. Clean(d)
      BY <2>10, <3>1 DEF Clean, AtRest
    <3>4. \A i \in Ach(d) : d.ach[i].pending = {}
      BY <3>1 DEF AtRest
    <3>5. d.listed = Active(d)
      BY <2>6, <2>11, <2>12
    <3> QED BY ONLY <3>1, <3>2, <3>3, <3>4, <3>5, AtRestFacts
  <2>14. Boards(d) /\ Lb(d) = Lb(l)
    <3>1. Boards(l)
      BY <2>9
    <3>2. d.title = l.title /\ d.hardcore = l.hardcore /\ d.lb = l.lb /\ d.trackers = l.trackers /\ d.ui = l.ui /\ d.odd = l.odd
      BY <2>11
    <3> QED BY ONLY <3>1, <3>2, BoardsSame
  <2>15. Server(d) /\ Single(d)
    <3>1. d.requests = l.requests /\ d.owed = l.owed /\ d.disconnect = l.disconnect
      BY <2>10 DEF Same, Fields
    <3>2. l.requests = a.requests /\ l.owed = a.owed /\ l.disconnect = a.disconnect
      BY <2>9 DEF Same, Fields
    <3>3. d.requests = c.requests /\ d.owed = c.owed /\ d.disconnect = c.disconnect /\ d.ui.offline = c.ui.offline
      BY ONLY <2>7, <2>11, <3>1, <3>2
    <3> QED BY <3>3 DEF PlayInv, Server, Single, Waiting
  <2>16. Popup(d)
    BY <2>7, <2>11 DEF PlayInv, Popup
  <2>17. Quiet(d)
    <3>1. \A i \in Ach(d) : d.ach[i].pending = {}
      BY <2>6, <2>11, <2>12 DEF AtRest
    <3>2. \A j \in Lb(d) : d.lb[j].pending = {}
      BY <2>7, <2>9, <2>11, <2>14 DEF PlayInv, Quiet, Lb
    <3> QED BY <2>11, <3>1, <3>2 DEF PlayInv, Quiet
  <2>18. DOMAIN d.ach = DOMAIN d.title.ach
    BY <1>4, <2>6, <2>11 DEF PlayInv, Played, Ach
  <2> QED BY <1>4, <2>11, <2>13, <2>14, <2>15, <2>16, <2>17, <2>18 DEF PlayInv, Played
<1> QED BY <1>2, <1>4 DEF PlayInv

(* rc_client_set_hardcore_enabled(FALSE).                                  *)
LEMMA DisableKeeps ==
  ASSUME NEW c, PlayInv(c), c.hardcore = TRUE, NEW off, off = [c EXCEPT !.hardcore = FALSE],
         NEW d, d = IF ~off.loaded THEN off ELSE RaisePending(DeactivateLeaderboards(ToggleAchievements(off, "softcore")), TRUE),
         Single(d)
  PROVE  PlayInv(d)
<1>1. Same(c, off, {"hardcore"}) /\ off.hardcore = FALSE
  BY DEF PlayInv, IsClient, Same, Fields
<1>2. CASE ~c.loaded
  <2>1. d = off
    BY <1>1, <1>2 DEF Same, Fields
  <2> QED BY <1>1, <1>2, <2>1, EmptyKeeps
<1>3. CASE c.loaded
  <2>1. PICK a : a = ToggleAchievements(off, "softcore")
    OBVIOUS
  <2>2. PICK l : l = DeactivateLeaderboards(a)
    OBVIOUS
  <2>3. d = RaisePending(l, TRUE)
    BY <1>1, <1>3, <2>1, <2>2 DEF Same, Fields
  <2>4. PICK no : no = FALSE
    OBVIOUS
  <2>5. PICK mode : mode = Mode(off)
    OBVIOUS
  <2>6. /\ Same(off, a, {"ach", "ui", "listed"}) /\ SameScreen(off, a, {"challenges"}) /\ Ach(a) = Ach(c)
        /\ AtRest(a) /\ a.listed = Active(a) /\ \A i \in Ach(a) : AsPlayed(a, i)
    <3>1. off = Switched(c, no)
      BY <2>4 DEF Switched
    <3>2. mode = "softcore"
      BY <1>1, <2>5 DEF Mode
    <3>3. a = ToggleAchievements(off, mode) /\ no \in BOOLEAN
      BY <2>1, <2>4, <3>2
    <3> QED BY ONLY PlayInv(c), <2>5, <3>1, <3>3, SwitchedAchievements
  <2>7. /\ IsClient(a) /\ a.title = c.title /\ a.lb = c.lb /\ a.trackers = c.trackers /\ a.odd = c.odd /\ a.hardcore = FALSE
        /\ a.ui.trackers = c.ui.trackers /\ a.ui.progress = c.ui.progress /\ a.ui.offline = c.ui.offline
        /\ a.timer = c.timer /\ a.action = c.action /\ a.loaded = c.loaded
        /\ a.requests = c.requests /\ a.owed = c.owed /\ a.disconnect = c.disconnect
    BY <1>1, <2>6 DEF Same, SameScreen, Fields, ScreenFields
  <2>8. Loose(a)
    <3>1. Loose(c)
      BY <1>3, BoardsLoose DEF PlayInv, Played
    <3> QED BY ONLY <2>7, <3>1, LooseSame
  <2>9. Same(a, l, {"lb", "trackers"}) /\ Lb(l) = Lb(a) /\ Dormant(l)
    BY ONLY <2>2, <2>7, <2>8, DeactivateLeaderboardsKeeps
  <2>10. /\ IsClient(l) /\ l.title = a.title /\ l.hardcore = a.hardcore /\ l.odd = a.odd /\ l.ui = a.ui
         /\ l.timer = a.timer /\ l.action = a.action /\ l.loaded = a.loaded
    BY <2>9 DEF Same, Fields
  <2>11. l.ach = a.ach /\ l.listed = a.listed /\ l.early = a.early /\ l.encore = a.encore /\ l.waiting = a.waiting
    BY <2>9 DEF Same, Fields
  <2>12. Boards(l)
    BY <2>7, <2>9, <2>10, DormantBoards
  <2>13. Achievements(l)
    <3>1. Clean(a)
      BY <2>6, <2>7 DEF Clean, AtRest
    <3>2. \A i \in Ach(a) : a.ach[i].pending = {}
      BY <2>6 DEF AtRest
    <3>3. Achievements(a)
      BY ONLY <2>6, <3>1, <3>2, AtRestFacts
    <3>4. l.ui.challenges = a.ui.challenges
      BY <2>10
    <3> QED BY ONLY <2>10, <2>11, <3>3, <3>4, AchievementsSame
  <2>14. Server(l)
    <3>1. l.requests = a.requests /\ l.owed = a.owed /\ l.disconnect = a.disconnect
      BY <2>9 DEF Same, Fields
    <3>2. l.requests = c.requests /\ l.owed = c.owed /\ l.disconnect = c.disconnect /\ l.ui.offline = c.ui.offline
      BY ONLY <2>7, <2>10, <3>1
    <3> QED BY <3>2 DEF PlayInv, Server, Waiting
  <2>15. Popup(l)
    BY <2>7, <2>10 DEF PlayInv, Popup
  <2>16. DOMAIN l.ach = DOMAIN l.title.ach
    BY <1>3, <2>6, <2>7, <2>10, <2>11 DEF PlayInv, Played, Ach
  <2>17. l.title \in Titles /\ l.hardcore \in BOOLEAN /\ l.loaded
    BY <1>3, <2>7, <2>10 DEF PlayInv
  <2>18. Playing(l)
    BY ONLY <2>10, <2>12, <2>13, <2>14, <2>15, <2>16, <2>17 DEF Playing
  <2> QED BY <2>3, <2>18, RaisedPlay, PlayingKeeps
<1> QED BY <1>2, <1>3

\* the screen after the game
NothingShownOf(c, e) ==
  /\ Same(c, e, EventFields \cup {"timer"}) /\ SameScreen(c, e, {"trackers", "challenges", "progress"}) /\ Server(e)
  /\ e.early = FALSE /\ e.ui.progress = FALSE /\ (~c.odd => e.ui.challenges = {})
  /\ ~c.odd => \A k \in DOMAIN e.ui.trackers : e.ui.trackers[k] = None

(* rc_client_game_mark_ui_to_be_hidden, and the events it leads to: none   *)
(* is shown any more.                                                      *)
LEMMA HiddenGame ==
  ASSUME NEW c, PlayInv(c), c.loaded, NEW there, NEW e, e = RaisePending(MarkHidden(c), there)
  PROVE  NothingShownOf(c, e)
<1>1. Playing(c) /\ Quiet(c)
  BY PlayingNow
<1>2. PICK h : h = HidePrimed(c)
  OBVIOUS
<1>3. PICK r : r = ReleaseTrackers(h, Tracking(h))
  OBVIOUS
<1>4. PICK p : p = HideProgressTracker(r)
  OBVIOUS
<1>5. IsClient(c) /\ Boards(c) /\ Achievements(c) /\ Server(c) /\ Popup(c)
  BY <1>1 DEF Playing
<1>6. Same(c, h, {"ach"}) /\ h.ach = HiddenAll(c)
  BY <1>2, <1>5, HidePrimedEffect
<1>7. /\ IsClient(h) /\ h.lb = c.lb /\ h.trackers = c.trackers /\ h.title = c.title /\ h.odd = c.odd /\ h.ui = c.ui
      /\ h.timer = c.timer /\ h.action = c.action /\ h.early = c.early /\ h.hardcore = c.hardcore
  BY <1>6 DEF Same, Fields
<1>8. e = RaisePending(p, there)
  <2>1. Tracking(h) = Tracking(c)
    BY <1>7 DEF Tracking, Lb
  <2> QED BY <1>2, <1>3, <1>4, <2>1 DEF MarkHidden
<1>9. Loose(h)
  <2>1. Loose(c)
    BY <1>5, BoardsLoose
  <2> QED BY ONLY <1>7, <2>1, LooseSame
<1>10. /\ Same(h, r, {"lb", "trackers"}) /\ Trackers(r) /\ Lb(r) = Lb(h)
       /\ \A j \in Lb(h) : r.lb[j].tracker # 0 => h.lb[j].state = "disabled" /\ h.odd
  <2>1. /\ Same(h, r, {"lb", "trackers"}) /\ Trackers(r) /\ Lb(r) = Lb(h)
        /\ \A j \in Lb(h) : /\ r.lb[j].value = h.lb[j].value /\ r.lb[j].state = h.lb[j].state /\ r.lb[j].run = h.lb[j].run
                            /\ r.lb[j].pending = h.lb[j].pending
                            /\ r.lb[j].tracker # 0 => h.lb[j].state = "disabled" /\ h.odd
    BY ONLY <1>3, <1>7, <1>9, ReleasedBoards
  <2> QED BY ONLY <2>1
<1>11. /\ Same(r, p, {"timer", "action"})
       /\ r.timer /\ r.action = "none" => p.timer = FALSE /\ p.action = "hide"
       /\ ~(r.timer /\ r.action = "none") => p = r
  <2>1. IsClient(r)
    BY <1>10 DEF Same
  <2> QED BY <1>4, <2>1, HideProgressTrackerEffect
<1>12. r.timer = c.timer /\ r.action = "none" /\ r.ui = c.ui
  <2>1. r.timer = h.timer /\ r.action = h.action /\ r.ui = h.ui
    BY <1>10 DEF Same, Fields
  <2> QED BY <1>1, <1>7, <2>1 DEF Quiet
<1>13. /\ IsClient(p) /\ p.lb = r.lb /\ p.trackers = r.trackers /\ p.ui = c.ui /\ p.title = r.title /\ p.odd = r.odd
       /\ p.ach = r.ach /\ p.early = r.early /\ p.hardcore = r.hardcore
  BY <1>11, <1>12 DEF Same, Fields
<1>14. r.title = h.title /\ r.odd = h.odd /\ r.ach = h.ach /\ r.early = h.early /\ r.hardcore = h.hardcore
  BY <1>10 DEF Same, Fields
<1>15. p.timer = FALSE /\ Popup(p)
  <2>1. CASE r.timer = TRUE
    BY <1>11, <1>12, <2>1 DEF Popup
  <2>2. CASE r.timer = FALSE
    <3>1. p = r
      BY <1>11, <2>2
    <3>2. Popup(r)
      BY <1>5, <1>7, <1>12, <2>2, <1>1 DEF Popup, Quiet
    <3> QED BY <2>2, <3>1, <3>2
  <2> QED BY <1>5, <1>12, <2>1, <2>2 DEF Popup
<1>16. Same(c, p, {"ach", "lb", "trackers", "timer", "action"})
  BY <1>6, <1>10, <1>11 DEF Same
<1>17. Server(p)
  <2>1. p.ui.offline = c.ui.offline
    BY <1>13
  <2>2. {"ach", "lb", "trackers", "timer", "action"} \cap ServerFields = {}
    BY DEF ServerFields
  <2>3. PICK S : S = {"ach", "lb", "trackers", "timer", "action"}
    OBVIOUS
  <2>4. Same(c, p, S) /\ S \cap ServerFields = {}
    BY <1>16, <2>2, <2>3
  <2> QED BY ONLY <1>5, <2>1, <2>4, ServerSame
<1>18. Raised(p, "show") = {} /\ Raised(p, "triggered") = {} /\ Raised(p, "hide") = Primed(c)
  <2>1. Hiding(c)
    BY <1>1, <1>5, AtRestFacts, RestHides DEF Quiet
  <2>2. Raised(h, "show") = {} /\ Raised(h, "triggered") = {} /\ Raised(h, "hide") = Primed(c)
    BY ONLY <1>6, <2>1, HiddenAchievements
  <2>3. p.ach = h.ach
    BY <1>13, <1>14
  <2> QED BY ONLY <2>2, <2>3 DEF Raised, Ach
<1>19. PICK won : won = Raised(p, "triggered")
  OBVIOUS
<1>20. EventsRaised(p, e, won)
  BY ONLY <1>8, <1>13, <1>15, <1>19, RaisePendingEffect
<1>21. Same(c, e, EventFields \cup {"timer"}) /\ SameScreen(c, e, {"trackers", "challenges", "progress"})
  <2>1. Same(p, e, EventFields) /\ SameScreen(p, e, {"trackers", "challenges", "progress"})
    BY <1>20 DEF EventsRaised
  <2> QED BY <1>13, <1>16, <2>1 DEF Same, SameScreen, EventFields
<1>22. e.ui.progress = FALSE
  <2>1. e.timer = p.timer
    BY <1>20 DEF EventsRaised, Same, EventFields, Fields
  <2> QED BY <1>15, <1>20, <2>1 DEF EventsRaised
<1>23. e.early = FALSE
  <2>1. p.early = FALSE
    BY <1>5, <1>7, <1>13, <1>14 DEF Achievements, Clean
  <2>2. ~Spoilt(p, won)
    BY <1>18, <1>19 DEF Spoilt
  <2> QED BY <1>20, <2>1, <2>2 DEF EventsRaised
<1>24. ~c.odd => e.ui.challenges = {}
  <2>1. e.ui.challenges = (c.ui.challenges \cup Raised(p, "show")) \ Raised(p, "hide")
    BY <1>13, <1>20 DEF EventsRaised
  <2>2. ~c.odd => c.ui.challenges = Primed(c)
    BY <1>1, <1>5, AtRestFacts DEF Quiet, AtRest
  <2> QED BY <1>18, <2>1, <2>2
<1>25. ~c.odd => \A k \in DOMAIN e.ui.trackers : e.ui.trackers[k] = None
  <2>1. SUFFICES ASSUME ~c.odd PROVE \A k \in DOMAIN e.ui.trackers : e.ui.trackers[k] = None
    OBVIOUS
  <2>2. Trackers(p) /\ \A j \in Lb(p) : p.lb[j].tracker = 0
    <3>1. Trackers(p) /\ Lb(p) = Lb(r)
      <4>1. p.title = r.title /\ p.lb = r.lb /\ p.trackers = r.trackers /\ p.ui.trackers = r.ui.trackers
        BY <1>12, <1>13
      <4> QED BY ONLY <1>10, <4>1, TrackersAgain
    <3> QED BY <1>7, <1>10, <1>13, <2>1, <3>1
  <2>3. e.trackers = ToldAll(p.trackers) /\ e.ui.trackers = SeenAll(p) /\ e.lb = ToldAll(p.lb)
    BY <1>20 DEF EventsRaised
  <2>4. e.title = p.title /\ e.hardcore = p.hardcore /\ e.odd = p.odd
    BY <1>20 DEF EventsRaised, Same, EventFields, Fields
  <2>5. /\ Trackers(e) /\ Lb(e) = Lb(p)
        /\ \A j \in Lb(e) : e.lb[j].pending = {} /\ (BoardAsPlayed(p, j) => BoardAsPlayed(e, j))
                                                 /\ (SameValue(p, j) => SameValue(e, j))
        /\ \A k \in DOMAIN e.trackers : e.trackers[k].pending = {}
    BY ONLY <2>2, <2>3, <2>4, RaisedBoards
  <2>6. \A j \in Lb(e) : e.lb[j].tracker = 0
    <3>1. \A j \in Lb(p) : p.lb[j] \in LeaderboardType /\ e.lb[j] = Told(p.lb[j])
      BY <2>2, <2>3 DEF Trackers, Lists, ToldAll, Lb
    <3>2. \A l \in LeaderboardType : Told(l).tracker = l.tracker
      BY DEF Told, LeaderboardType
    <3> QED BY ONLY <2>2, <2>5, <3>1, <3>2
  <2> QED BY ONLY <2>5, <2>6, NoneShown
<1> QED BY <1>17, <1>20, <1>21, <1>22, <1>23, <1>24, <1>25 DEF EventsRaised, NothingShownOf

(* rc_client_unload_game.                                                  *)
LEMMA UnloadKeeps ==
  ASSUME NEW c, PlayInv(c), c.loaded, NEW d, d = Unloaded(RaisePending(MarkHidden(c), FALSE)), Single(d)
  PROVE  PlayInv(d)
<1>1. PICK there : there = FALSE
  OBVIOUS
<1>2. PICK e : e = RaisePending(MarkHidden(c), there)
  OBVIOUS
<1>3. /\ Same(c, e, EventFields \cup {"timer"}) /\ SameScreen(c, e, {"trackers", "challenges", "progress"}) /\ Server(e)
      /\ e.early = FALSE /\ e.ui.progress = FALSE /\ (~c.odd => e.ui.challenges = {})
      /\ ~c.odd => \A k \in DOMAIN e.ui.trackers : e.ui.trackers[k] = None
  <2>1. NothingShownOf(c, e)
    BY ONLY PlayInv(c), c.loaded, <1>2, HiddenGame
  <2> QED BY ONLY <2>1 DEF NothingShownOf
<1>4. d = Unloaded(e)
  BY <1>1, <1>2
<1>5. IsClient(e) /\ e.title = c.title /\ e.hardcore = c.hardcore /\ e.odd = c.odd
  BY <1>3 DEF Same, EventFields, Fields
<1>6. PICK fs : fs = {"loaded", "waiting", "ach", "lb", "trackers", "mastery", "listed", "timer", "action", "invalid"}
  OBVIOUS
<1>7. Same(e, d, fs) /\ d.loaded = FALSE /\ d.waiting = FALSE /\ d.timer = FALSE /\ d.action = "none"
  BY <1>4, <1>5, <1>6, ZenonT(60) DEF Unloaded, IsClient, Same, Fields
<1>8. d.ach = <<>> /\ d.lb = <<>> /\ d.trackers = <<>> /\ d.listed = {}
  BY <1>4, <1>5 DEF Unloaded, IsClient, Fields
<1>9. IsClient(d) /\ d.title = c.title /\ d.hardcore = c.hardcore /\ d.odd = c.odd /\ d.ui = e.ui /\ d.early = FALSE
  BY <1>3, <1>5, <1>6, <1>7 DEF Same, Fields
<1>10. Ach(d) = {} /\ Lb(d) = {} /\ DOMAIN d.trackers = {}
  <2>1. Ach(d) = {}
    BY ONLY <1>8 DEF Ach
  <2>2. Lb(d) = {}
    BY ONLY <1>8 DEF Lb
  <2>3. DOMAIN d.trackers = {}
    BY ONLY <1>8
  <2> QED BY <2>1, <2>2, <2>3
<1>11. Active(d) = {} /\ Primed(d) = {} /\ Raised(d, "show") = {} /\ Raised(d, "hide") = {}
  BY <1>10 DEF Active, Primed, Raised
<1>12. Achievements(d)
  BY <1>3, <1>8, <1>9, <1>10, <1>11 DEF Achievements, Clean, Challenges
<1>13. Server(d)
  <2>1. fs \cap ServerFields = {}
    BY <1>6 DEF ServerFields
  <2> QED BY <1>3, <1>7, <1>9, <2>1, ServerSame
<1>14. Popup(d)
  BY <1>3, <1>7, <1>9 DEF Popup
<1>15. Empty(d)
  BY <1>3, <1>7, <1>8, <1>9 DEF Empty
<1>16. Quiet(d)
  BY <1>7, <1>10 DEF Quiet
<1> QED BY <1>7, <1>9, <1>12, <1>13, <1>14, <1>15, <1>16 DEF PlayInv, Played

(* The client before any game. *)
LEMMA InitPlay ==
  ASSUME Init
  PROVE  PlayInv(client)
<1>0. PICK definition \in Definitions, unofficial \in BOOLEAN, hardcore \in BOOLEAN : \E mode \in definition.modes :
        client = [title |-> Copied(definition, unofficial), encore |-> mode = "encore", spectating |-> mode = "spectating",
                  hardcore |-> hardcore, loaded |-> FALSE, waiting |-> FALSE, ach |-> <<>>, lb |-> <<>>, trackers |-> <<>>,
                  mastery |-> <<>>, listed |-> {}, timer |-> FALSE, action |-> "none", invalid |-> {},
                  requests |-> {}, owed |-> {}, disconnect |-> "hidden", ui |-> NothingShown,
                  odd |-> FALSE, early |-> FALSE, misused |-> FALSE]
  BY DEF Init
<1>1. PICK mode \in definition.modes :
        client = [title |-> Copied(definition, unofficial), encore |-> mode = "encore", spectating |-> mode = "spectating",
                  hardcore |-> hardcore, loaded |-> FALSE, waiting |-> FALSE, ach |-> <<>>, lb |-> <<>>, trackers |-> <<>>,
                  mastery |-> <<>>, listed |-> {}, timer |-> FALSE, action |-> "none", invalid |-> {},
                  requests |-> {}, owed |-> {}, disconnect |-> "hidden", ui |-> NothingShown,
                  odd |-> FALSE, early |-> FALSE, misused |-> FALSE]
  BY <1>0
<1>2. PICK title : title = Copied(definition, unofficial)
  OBVIOUS
<1>3. PICK encore, spectating : encore = (mode = "encore") /\ spectating = (mode = "spectating")
  OBVIOUS
<1>4. PICK u : u = NothingShown
  OBVIOUS
<1>5. client = [title |-> title, encore |-> encore, spectating |-> spectating,
                hardcore |-> hardcore, loaded |-> FALSE, waiting |-> FALSE, ach |-> <<>>, lb |-> <<>>, trackers |-> <<>>,
                mastery |-> <<>>, listed |-> {}, timer |-> FALSE, action |-> "none", invalid |-> {},
                requests |-> {}, owed |-> {}, disconnect |-> "hidden", ui |-> u,
                odd |-> FALSE, early |-> FALSE, misused |-> FALSE]
  BY <1>1, <1>2, <1>3, <1>4
<1>6. u = [f \in ScreenFields |-> u[f]] /\ u.challenges = {} /\ u.trackers = <<>> /\ u.progress = FALSE /\ u.offline = FALSE
  BY <1>4 DEF NothingShown, ScreenFields
<1>7. IsClient(client)
  BY <1>5, <1>6 DEF IsClient, Fields
<1>8. /\ client.title = title /\ client.hardcore = hardcore /\ client.loaded = FALSE /\ client.waiting = FALSE
      /\ client.ach = <<>> /\ client.lb = <<>> /\ client.trackers = <<>> /\ client.listed = {} /\ client.timer = FALSE
      /\ client.action = "none" /\ client.requests = {} /\ client.owed = {} /\ client.disconnect = "hidden"
      /\ client.ui = u /\ client.early = FALSE
  BY <1>5
<1>9. title \in Titles
  BY <1>2 DEF Titles
<1>10. Ach(client) = {} /\ Lb(client) = {} /\ DOMAIN client.trackers = {} /\ DOMAIN client.ui.trackers = {}
  <2>1. Ach(client) = {}
    BY ONLY <1>8 DEF Ach
  <2>2. Lb(client) = {}
    BY ONLY <1>8 DEF Lb
  <2>3. DOMAIN client.trackers = {}
    BY ONLY <1>8
  <2>4. DOMAIN client.ui.trackers = {}
    BY ONLY <1>6, <1>8
  <2> QED BY <2>1, <2>2, <2>3, <2>4
<1>11. Active(client) = {} /\ Primed(client) = {} /\ Raised(client, "show") = {} /\ Raised(client, "hide") = {}
  BY <1>10 DEF Active, Primed, Raised
<1>12. Achievements(client)
  BY <1>6, <1>8, <1>10, <1>11 DEF Achievements, Clean, Challenges
<1>13. Server(client) /\ Single(client)
  BY <1>6, <1>8 DEF Server, Single, Waiting, Visible
<1>14. Popup(client)
  BY <1>6, <1>8 DEF Popup
<1>15. Empty(client) /\ Quiet(client)
  BY <1>8, <1>10 DEF Empty, Quiet
<1> QED BY <1>7, <1>8, <1>9, <1>12, <1>13, <1>14, <1>15 DEF PlayInv, Played

\* a game's achievements when it is loaded, and with what was unlocked before
CopiedAll(c) == [i \in DOMAIN c.title.ach |-> CopyAchievement(c.title.ach[i])]
CopiedLb(c) == [j \in DOMAIN c.title.lb |-> CopyLeaderboard(c.title.lb[j])]
GameFields == {"loaded", "ach", "lb", "mastery", "ui"}

\* a game that was copied: nothing of it is active, or has seen a frame
Fresh(c, d) ==
  /\ Same(c, d, GameFields) /\ SameScreen(c, d, {"trackers"}) /\ d.ui.trackers = <<>> /\ d.lb = CopiedLb(c) /\ d.loaded = TRUE
  /\ Ach(d) = DOMAIN c.title.ach
  /\ \A i \in Ach(d) : /\ d.ach[i] \in AchievementType /\ d.ach[i].pending = {} /\ d.ach[i].carried # "played"
                       /\ d.ach[i].state # "active"

(* rc_client_copy_achievements and _leaderboards.                          *)
LEMMA CopiedGame ==
  ASSUME NEW c, IsClient(c),
         NEW d, d = [c EXCEPT !.loaded = TRUE, !.ach = [i \in DOMAIN c.title.ach |-> CopyAchievement(c.title.ach[i])],
                              !.lb = [j \in DOMAIN c.title.lb |-> CopyLeaderboard(c.title.lb[j])],
                              !.mastery = [s \in Subsets(c) |-> "none"], !.ui.trackers = <<>>]
  PROVE  Fresh(c, d)
<1>1. PICK a : a = CopiedAll(c)
  OBVIOUS
<1>2. PICK l : l = CopiedLb(c)
  OBVIOUS
<1>3. PICK m : m = [s \in Subsets(c) |-> "none"]
  OBVIOUS
<1>4. PICK u : u = [c.ui EXCEPT !.trackers = <<>>]
  OBVIOUS
<1>5. d = [c EXCEPT !.loaded = TRUE, !.ach = a, !.lb = l, !.mastery = m, !.ui = u]
  BY <1>1, <1>2, <1>3, <1>4 DEF CopiedAll, CopiedLb
<1>6. u = [f \in ScreenFields |-> u[f]] /\ u.trackers = <<>> /\ \A f \in ScreenFields \ {"trackers"} : u[f] = c.ui[f]
  BY <1>4 DEF IsClient, ScreenFields
<1>7. Same(c, d, GameFields) /\ d.loaded = TRUE /\ d.ach = a /\ d.lb = l /\ d.ui = u
  BY <1>5, <1>6, ZenonT(60) DEF IsClient, Same, Fields, GameFields
<1>8. SameScreen(c, d, {"trackers"})
  BY <1>6, <1>7 DEF SameScreen
<1>9. Ach(d) = DOMAIN c.title.ach
  BY <1>1, <1>7 DEF Ach, CopiedAll
<1>10. \A x : LET y == CopyAchievement(x)
              IN  y \in AchievementType /\ y.pending = {} /\ y.carried # "played" /\ y.state # "active"
  BY DEF CopyAchievement, AchievementType, Unknown
<1>11. \A i \in Ach(d) : d.ach[i] = CopyAchievement(c.title.ach[i])
  BY <1>1, <1>7, <1>9 DEF CopiedAll
<1>12. \A i \in Ach(d) : /\ d.ach[i] \in AchievementType /\ d.ach[i].pending = {} /\ d.ach[i].carried # "played"
                         /\ d.ach[i].state # "active"
  <2>1. TAKE i \in Ach(d)
  <2>2. PICK x : x = c.title.ach[i]
    OBVIOUS
  <2>3. PICK y : y = CopyAchievement(x)
    OBVIOUS
  <2>4. y \in AchievementType /\ y.pending = {} /\ y.carried # "played" /\ y.state # "active"
    BY ONLY <1>10, <2>3
  <2>5. d.ach[i] = y
    BY ONLY <1>11, <2>2, <2>3
  <2> QED BY ONLY <2>4, <2>5
<1> QED BY <1>2, <1>6, <1>7, <1>8, <1>9, <1>12 DEF Fresh

(* rc_client_apply_unlocks.                                                *)
LEMMA UnlockedGame ==
  ASSUME NEW c, NEW g, Fresh(c, g), NEW unlocks, NEW d, d = ApplyUnlocks(g, unlocks)
  PROVE  Fresh(c, d)
<1> DEFINE modes(unlock) == IF unlock = "hardcore" THEN {"softcore", "hardcore"} ELSE IF unlock = "softcore" THEN {"softcore"} ELSE {}
           a == [i \in Ach(g) |-> [g.ach[i] EXCEPT !.unlocked = modes(unlocks[i])]]
<1>1. d = [g EXCEPT !.ach = a]
  BY DEF ApplyUnlocks
<1>2. \A x : modes(x) \in SUBSET {"softcore", "hardcore"}
  OBVIOUS
<1> HIDE DEF modes
<1>3. \A i \in Ach(g) : a[i] = [g.ach[i] EXCEPT !.unlocked = modes(unlocks[i])]
  OBVIOUS
<1>4. DOMAIN a = Ach(g)
  OBVIOUS
<1> HIDE DEF a
<1>5. IsClient(g)
  BY DEF Fresh, Same
<1>6. Same(g, d, {"ach"}) /\ d.ach = a
  BY <1>1, <1>5 DEF IsClient, Same, Fields
<1>7. Same(c, d, GameFields)
  BY <1>6 DEF Fresh, Same, GameFields
<1>8. d.ui = g.ui /\ d.lb = g.lb /\ d.loaded = g.loaded
  BY <1>6 DEF Same, Fields
<1>9. Ach(d) = Ach(g)
  BY <1>4, <1>6 DEF Ach
<1>10. ASSUME NEW x \in AchievementType, x.pending = {}, x.carried # "played", x.state # "active",
              NEW s \in SUBSET {"softcore", "hardcore"}, NEW y, y = [x EXCEPT !.unlocked = s]
       PROVE  y \in AchievementType /\ y.pending = {} /\ y.carried # "played" /\ y.state # "active"
  BY <1>10 DEF AchievementType
<1>11. \A i \in Ach(d) : /\ d.ach[i] \in AchievementType /\ d.ach[i].pending = {} /\ d.ach[i].carried # "played"
                         /\ d.ach[i].state # "active"
  <2>1. TAKE i \in Ach(d)
  <2>2. g.ach[i] \in AchievementType /\ g.ach[i].pending = {} /\ g.ach[i].carried # "played" /\ g.ach[i].state # "active"
    BY <1>9 DEF Fresh
  <2>3. d.ach[i] = [g.ach[i] EXCEPT !.unlocked = modes(unlocks[i])]
    BY <1>3, <1>6, <1>9
  <2>4. PICK s : s = modes(unlocks[i])
    OBVIOUS
  <2>5. PICK x : x = g.ach[i]
    OBVIOUS
  <2>6. PICK y : y = [x EXCEPT !.unlocked = s]
    OBVIOUS
  <2>7. s \in SUBSET {"softcore", "hardcore"}
    BY <1>2, <2>4
  <2>8. x \in AchievementType /\ x.pending = {} /\ x.carried # "played" /\ x.state # "active"
    BY <2>2, <2>5
  <2>9. y \in AchievementType /\ y.pending = {} /\ y.carried # "played" /\ y.state # "active"
    BY ONLY <1>10, <2>6, <2>7, <2>8
  <2>10. d.ach[i] = y
    BY <2>3, <2>4, <2>5, <2>6
  <2> QED BY ONLY <2>9, <2>10
<1> QED BY <1>7, <1>8, <1>9, <1>11 DEF Fresh, SameScreen

(* rc_client_activate_game.                                                *)
LEMMA LoadKeeps ==
  ASSUME NEW c, PlayInv(c), ~c.loaded, NEW unlocks, NEW lost, NEW d, d = ActivateGame(c, unlocks, lost)
  PROVE  PlayInv(d)
<1>1. PICK g : g = [c EXCEPT !.loaded = TRUE, !.ach = [i \in DOMAIN c.title.ach |-> CopyAchievement(c.title.ach[i])],
                             !.lb = [j \in DOMAIN c.title.lb |-> CopyLeaderboard(c.title.lb[j])],
                             !.mastery = [s \in Subsets(c) |-> "none"], !.ui.trackers = <<>>]
  OBVIOUS
<1>2. PICK u : u = IF c.spectating THEN g ELSE ApplyUnlocks(g, unlocks)
  OBVIOUS
<1>3. PICK v : v = Invalidate(u, lost)
  OBVIOUS
<1>4. PICK mode : mode = IF v.encore THEN "none" ELSE Mode(v)
  OBVIOUS
<1>5. PICK a : a = ToggleAchievements(v, mode)
  OBVIOUS
<1>6. d = ActivateLeaderboards(a)
  <2>1. ActivateGame(c, unlocks, lost) = ActivateLeaderboards(ActivateAchievements(Invalidate(u, lost)))
    BY ONLY <1>1, <1>2 DEF ActivateGame
  <2>2. ActivateAchievements(v) = a
    BY ONLY <1>4, <1>5 DEF ActivateAchievements
  <2> QED BY <1>3, <2>1, <2>2
<1>7. IsClient(c) /\ c.title \in Titles /\ c.hardcore \in BOOLEAN /\ Server(c) /\ Single(c) /\ Popup(c) /\ Achievements(c)
      /\ Empty(c) /\ Quiet(c)
  BY DEF PlayInv, Played
<1>8. Fresh(c, u)
  <2>1. Fresh(c, g)
    BY ONLY <1>1, <1>7, CopiedGame
  <2>2. CASE c.spectating
    BY <1>2, <2>1, <2>2
  <2>3. CASE ~c.spectating
    <3>1. u = ApplyUnlocks(g, unlocks)
      BY <1>2, <2>3
    <3> QED BY ONLY <2>1, <3>1, UnlockedGame
  <2> QED BY <2>2, <2>3
<1>9. /\ IsClient(u) /\ u.title = c.title /\ u.hardcore = c.hardcore /\ u.encore = c.encore /\ u.odd = c.odd /\ u.early = c.early
      /\ u.trackers = c.trackers /\ u.loaded = TRUE /\ u.ui.trackers = <<>> /\ u.ui.challenges = c.ui.challenges
      /\ u.ui.progress = c.ui.progress /\ u.ui.offline = c.ui.offline /\ u.lb = CopiedLb(c) /\ Ach(u) = DOMAIN c.title.ach
  BY <1>8 DEF Fresh, Same, SameScreen, Fields, ScreenFields, GameFields
<1>10. AtRest(u)
  <2>1. Active(u) = {} /\ Primed(u) = {}
    BY <1>8 DEF Fresh, Active, Primed
  <2>2. Ach(c) = {}
    BY <1>7 DEF Empty, Ach
  <2>3. Raised(c, "show") = {} /\ Raised(c, "hide") = {} /\ Primed(c) = {}
    BY <2>2 DEF Raised, Primed, Active
  <2>4. ~c.odd => c.ui.challenges = {}
    BY <1>7, <2>3 DEF Achievements, Challenges
  <2>5. c.early = FALSE
    BY <1>7 DEF Achievements, Clean
  <2>6. \A i \in Ach(u) : u.ach[i] \in AchievementType /\ u.ach[i].pending = {}
    BY <1>8 DEF Fresh
  <2> QED BY ONLY <1>9, <2>1, <2>4, <2>5, <2>6 DEF AtRest
<1>11. /\ Same(u, v, {"ach", "lb", "invalid", "odd"})
       /\ v.ach = LostAch(u, lost) /\ v.lb = LostLb(u, lost)
       /\ ~v.odd => ~u.odd /\ ~LostShown(u, lost)
  BY ONLY <1>3, <1>9, InvalidateEffect
<1>12. /\ IsClient(v) /\ v.title = u.title /\ v.hardcore = u.hardcore /\ v.encore = u.encore /\ v.early = u.early
       /\ v.trackers = u.trackers /\ v.loaded = u.loaded /\ v.ui = u.ui
  BY <1>11 DEF Same, Fields
<1>13. /\ Ach(v) = Ach(u) /\ AtRest(v)
       /\ \A i \in Ach(v) : v.ach[i].carried = u.ach[i].carried /\ (AsPlayed(u, i) => AsPlayed(v, i))
  <2>1. /\ v.early = u.early /\ v.encore = u.encore /\ v.hardcore = u.hardcore /\ v.ui.challenges = u.ui.challenges
    BY <1>12
  <2>2. /\ Ach(v) = Ach(u) /\ AtRest(v) /\ Active(v) \subseteq Active(u)
        /\ \A i \in Ach(v) : v.ach[i].carried = u.ach[i].carried /\ (AsPlayed(u, i) => AsPlayed(v, i))
    BY ONLY <1>10, <1>11, <2>1, LostAchievements
  <2> QED BY ONLY <2>2
<1>14. \A i \in Ach(v) : v.ach[i].carried # "played"
  <2>1. \A i \in Ach(u) : u.ach[i].carried # "played"
    BY <1>8 DEF Fresh
  <2> QED BY ONLY <1>13, <2>1
<1>15. /\ Same(v, a, {"ach", "ui", "listed"}) /\ SameScreen(v, a, {"challenges"}) /\ Ach(a) = Ach(v)
       /\ AtRest(a) /\ a.listed = Active(a)
       /\ \A i \in Ach(a) : AsPlayed(a, i) /\ (v.ach[i].carried # "played" => a.ach[i].carried # "played")
  <2>1. ~v.encore => mode = Mode(v)
    BY <1>4
  <2>2. IsClient(v) /\ AtRest(v)
    BY <1>12, <1>13
  <2> QED BY ONLY <1>5, <2>1, <2>2, ToggledAchievements
<1>16. Dormant(u) /\ \A j \in Lb(u) : u.lb[j].pending = {}
  <2>1. u.lb = [j \in DOMAIN u.title.lb |-> CopyLeaderboard(u.title.lb[j])]
    BY <1>9 DEF CopiedLb
  <2>2. u.title \in Titles /\ u.trackers = <<>> /\ u.ui.trackers = <<>>
    BY <1>7, <1>9 DEF Empty
  <2> QED BY ONLY <2>1, <2>2, CopiedBoards
<1>17. Dormant(v) /\ \A j \in Lb(v) : v.lb[j].pending = {}
  <2>1. Trackers(u)
    BY <1>16 DEF Dormant
  <2>2. /\ Trackers(v) /\ Lb(v) = Lb(u) /\ (Boards(u) => Boards(v)) /\ (Dormant(u) => Dormant(v))
        /\ \A j \in Lb(u) : v.lb[j].pending = u.lb[j].pending /\ (v.lb[j].state # "disabled" => v.lb[j] = u.lb[j])
    BY ONLY <1>11, <1>12, <2>1, LostBoards
  <2> QED BY ONLY <1>16, <2>2
<1>18. /\ IsClient(a) /\ a.title = v.title /\ a.hardcore = v.hardcore /\ a.encore = v.encore /\ a.odd = v.odd /\ a.lb = v.lb
       /\ a.trackers = v.trackers /\ a.loaded = v.loaded /\ a.ui.trackers = v.ui.trackers /\ a.ui.progress = v.ui.progress
       /\ a.ui.offline = v.ui.offline
  BY <1>15 DEF Same, SameScreen, Fields, ScreenFields
<1>19. Dormant(a) /\ Lb(a) = Lb(v)
  <2>1. v.odd => a.odd
    BY <1>18
  <2>2. Lb(a) = Lb(v)
    BY <1>18 DEF Lb
  <2> QED BY ONLY <1>17, <1>18, <2>1, <2>2, LooseSame
<1>20. Same(a, d, {"lb"}) /\ Lb(d) = Lb(a) /\ Boards(d) /\ \A j \in Lb(a) : d.lb[j].pending = a.lb[j].pending
  <2>1. a.hardcore \in BOOLEAN
    BY <1>7, <1>9, <1>12, <1>18
  <2> QED BY ONLY <1>6, <1>18, <1>19, <2>1, ActivateLeaderboardsKeeps
<1>21. /\ IsClient(d) /\ d.title = a.title /\ d.hardcore = a.hardcore /\ d.encore = a.encore /\ d.odd = a.odd /\ d.ach = a.ach
       /\ d.trackers = a.trackers /\ d.loaded = a.loaded /\ d.ui = a.ui /\ d.listed = a.listed /\ d.early = a.early
  BY <1>20 DEF Same, Fields
<1>22. Same(c, d, GameFields \cup {"listed", "invalid", "odd"})
  BY <1>8, <1>11, <1>15, <1>20 DEF Fresh, Same, GameFields
<1>23. /\ d.requests = c.requests /\ d.owed = c.owed /\ d.disconnect = c.disconnect /\ d.timer = c.timer /\ d.action = c.action
       /\ d.waiting = c.waiting
  BY <1>22 DEF Same, Fields, GameFields
<1>24. d.ui.progress = c.ui.progress /\ d.ui.offline = c.ui.offline /\ d.title = c.title /\ d.hardcore = c.hardcore
       /\ d.loaded = TRUE /\ d.trackers = <<>>
  BY <1>7, <1>9, <1>12, <1>18, <1>21 DEF Empty
<1>25. Ach(d) = Ach(a) /\ Active(d) = Active(a) /\ Primed(d) = Primed(a)
  <2>1. d.ach = a.ach
    BY <1>21
  <2> QED BY ONLY <2>1 DEF Ach, Active, Primed
<1>26. Achievements(d)
  <2>1. \A i \in Ach(a) : a.ach[i].carried # "played"
    BY ONLY <1>14, <1>15
  <2>2. Clean(a)
    <3>1. \A i \in Active(a) : a.ach[i].carried # "played"
      BY <2>1 DEF Active
    <3>2. a.early = FALSE
      BY <1>15 DEF AtRest
    <3> QED BY ONLY <3>1, <3>2 DEF Clean
  <2>3. \A i \in Ach(a) : a.ach[i].pending = {} /\ AsPlayed(a, i)
    BY <1>15 DEF AtRest
  <2>4. Achievements(a)
    BY ONLY <1>15, <2>2, <2>3, AtRestFacts
  <2>5. d.ui.challenges = a.ui.challenges /\ (~d.odd => ~a.odd)
    BY <1>21
  <2>6. d.waiting = a.waiting
    BY <1>20 DEF Same, Fields
  <2> QED BY ONLY <1>21, <2>4, <2>5, <2>6, AchievementsSame
<1>27. Server(d) /\ Single(d)
  BY <1>7, <1>23, <1>24 DEF Server, Single, Waiting
<1>28. Popup(d)
  BY <1>7, <1>23, <1>24 DEF Popup
<1>29. Quiet(d)
  <2>1. \A i \in Ach(d) : d.ach[i].pending = {}
    BY <1>15, <1>21, <1>25 DEF AtRest
  <2>2. \A j \in Lb(d) : d.lb[j].pending = {}
    BY ONLY <1>17, <1>18, <1>19, <1>20
  <2>3. DOMAIN d.trackers = {}
    BY ONLY <1>24
  <2>4. d.action = "none"
    BY <1>7, <1>23 DEF Quiet
  <2> QED BY ONLY <2>1, <2>2, <2>3, <2>4 DEF Quiet
<1>30. DOMAIN d.ach = DOMAIN d.title.ach
  BY <1>9, <1>13, <1>15, <1>24, <1>25 DEF Ach
<1> QED BY <1>7, <1>20, <1>21, <1>24, <1>26, <1>27, <1>28, <1>29, <1>30 DEF PlayInv, Played

-----------------------------------------------------------------------------
(* A frame.                                                                *)

(* What changes the leaderboards only, and keeps them, keeps the game.     *)
LEMMA PlayingBut ==
  ASSUME NEW c, Playing(c), NEW d, Same(c, d, BoardFields \cup {"odd"}), SameScreen(c, d, {"trackers"}), c.odd => d.odd, Boards(d)
  PROVE  Playing(d)
<1>1. /\ IsClient(d) /\ d.title = c.title /\ d.hardcore = c.hardcore /\ d.loaded = c.loaded /\ d.ach = c.ach
      /\ d.listed = c.listed /\ d.encore = c.encore /\ d.waiting = c.waiting /\ d.early = c.early
      /\ d.timer = c.timer /\ d.action = c.action
  BY DEF Same, Fields, BoardFields
<1>2. d.requests = c.requests /\ d.owed = c.owed /\ d.disconnect = c.disconnect
  BY DEF Same, Fields, BoardFields
<1>3. d.ui.challenges = c.ui.challenges /\ d.ui.progress = c.ui.progress /\ d.ui.offline = c.ui.offline
  BY DEF SameScreen, ScreenFields
<1>4. Achievements(d)
  <2>1. Achievements(c)
    BY DEF Playing
  <2> QED BY <1>1, <1>3, <2>1, AchievementsSame
<1>5. Server(d)
  BY <1>2, <1>3 DEF Playing, Server, Waiting
<1>6. Popup(d)
  BY <1>1, <1>3 DEF Playing, Popup
<1> QED BY <1>1, <1>4, <1>5, <1>6 DEF Playing

\* the game that a frame reads: what has lost its memory is disabled
ReadOf(c, lost) == IF lost = {} THEN c ELSE UpdateActive(Invalidate(c, lost))
Rested(c) == \A i \in Ach(c) : c.ach[i].pending = {}
LeftRunning(c, d) ==
  Lb(d) = Lb(c) /\ \A j \in Lb(c) : d.lb[j].state # "disabled" => d.lb[j] = c.lb[j]

(* rc_client_invalidate_processing_memref. *)
LEMMA ReadKeeps ==
  ASSUME NEW c, Playing(c), Rested(c), NEW lost, NEW d, d = ReadOf(c, lost)
  PROVE  /\ Playing(d) /\ Rested(d) /\ LeftRunning(c, d) /\ Ach(d) = Ach(c) /\ Active(d) \subseteq Active(c)
         /\ d.title = c.title /\ d.hardcore = c.hardcore /\ d.waiting = c.waiting
<1>1. CASE lost = {}
  <2>1. d = c
    BY <1>1 DEF ReadOf
  <2> QED BY <2>1 DEF LeftRunning
<1>2. CASE lost # {}
  <2>1. PICK v : v = Invalidate(c, lost)
    OBVIOUS
  <2>2. PICK active : active = Active(v)
    OBVIOUS
  <2>3. d = [v EXCEPT !.listed = active]
    BY <1>2, <2>1, <2>2 DEF ReadOf, UpdateActive
  <2>4. IsClient(c) /\ Boards(c) /\ Achievements(c) /\ c.hardcore \in BOOLEAN
    BY DEF Playing
  <2>5. /\ Same(c, v, {"ach", "lb", "invalid", "odd"})
        /\ v.ach = LostAch(c, lost) /\ v.lb = LostLb(c, lost)
        /\ ~v.odd => ~c.odd /\ ~LostShown(c, lost)
    BY ONLY <2>1, <2>4, InvalidateEffect
  <2>6. Same(v, d, {"listed"}) /\ d.listed = active
    BY <2>3, <2>5 DEF IsClient, Same, Fields
  <2>7. /\ IsClient(v) /\ v.title = c.title /\ v.hardcore = c.hardcore /\ v.encore = c.encore /\ v.early = c.early
        /\ v.trackers = c.trackers /\ v.loaded = c.loaded /\ v.ui = c.ui /\ v.waiting = c.waiting
        /\ v.timer = c.timer /\ v.action = c.action
    BY <2>5 DEF Same, Fields
  <2>8. /\ IsClient(d) /\ d.title = v.title /\ d.hardcore = v.hardcore /\ d.encore = v.encore /\ d.early = v.early
        /\ d.trackers = v.trackers /\ d.loaded = v.loaded /\ d.ui = v.ui /\ d.waiting = v.waiting
        /\ d.timer = v.timer /\ d.action = v.action /\ d.ach = v.ach /\ d.lb = v.lb /\ d.odd = v.odd
    BY <2>6 DEF Same, Fields
  <2>9. /\ Ach(v) = Ach(c) /\ AtRest(v) /\ Active(v) \subseteq Active(c)
        /\ \A i \in Ach(v) : v.ach[i].carried = c.ach[i].carried /\ (AsPlayed(c, i) => AsPlayed(v, i))
    <3>1. AtRest(c)
      BY <2>4, AtRestFacts DEF Rested
    <3>2. v.ui.challenges = c.ui.challenges
      BY <2>7
    <3> QED BY ONLY <2>5, <2>7, <3>1, <3>2, LostAchievements
  <2>10. Ach(d) = Ach(v) /\ Active(d) = Active(v) /\ Primed(d) = Primed(v)
    BY ONLY <2>8 DEF Ach, Active, Primed
  <2>11. AtRest(d)
    BY ONLY <2>8, <2>9, <2>10 DEF AtRest
  <2>12. \A i \in Ach(d) : AsPlayed(d, i)
    <3>1. \A i \in Ach(v) : AsPlayed(v, i)
      BY <2>4, <2>9 DEF Achievements
    <3>2. \A i \in Ach(d) : UnlockBit(d, i) = UnlockBit(v, i)
      BY ONLY <2>8 DEF UnlockBit, Mode
    <3> QED BY ONLY <2>8, <2>10, <3>1, <3>2 DEF AsPlayed
  <2>13. Clean(d)
    <3>1. c.hardcore /\ ~c.waiting => \A i \in Active(c) : c.ach[i].carried # "played"
      BY <2>4 DEF Achievements, Clean
    <3>2. \A i \in Active(d) : i \in Active(c) /\ i \in Ach(v) /\ d.ach[i].carried = c.ach[i].carried
      BY ONLY <2>8, <2>9, <2>10 DEF Active
    <3> QED BY ONLY <2>7, <2>8, <2>11, <3>1, <3>2 DEF Clean, AtRest
  <2>14. Rested(d)
    BY <2>11 DEF AtRest, Rested
  <2>15. Achievements(d)
    BY ONLY <2>2, <2>6, <2>10, <2>11, <2>12, <2>13, <2>14, AtRestFacts DEF Rested
  <2>16. /\ Boards(v) /\ Lb(v) = Lb(c)
         /\ \A j \in Lb(c) : v.lb[j].pending = c.lb[j].pending /\ (v.lb[j].state # "disabled" => v.lb[j] = c.lb[j])
    <3>1. Trackers(c)
      BY <2>4 DEF Boards
    <3>2. /\ Trackers(v) /\ Lb(v) = Lb(c) /\ (Boards(c) => Boards(v)) /\ (Dormant(c) => Dormant(v))
          /\ \A j \in Lb(c) : v.lb[j].pending = c.lb[j].pending /\ (v.lb[j].state # "disabled" => v.lb[j] = c.lb[j])
      BY ONLY <2>5, <2>7, <3>1, LostBoards
    <3> QED BY ONLY <2>4, <3>2
  <2>17. Boards(d) /\ Lb(d) = Lb(v)
    <3>1. v.odd => d.odd
      BY <2>8
    <3>2. d.ui.trackers = v.ui.trackers
      BY <2>8
    <3> QED BY ONLY <2>8, <2>16, <3>1, <3>2, BoardsSame
  <2>18. LeftRunning(c, d)
    BY ONLY <2>8, <2>16, <2>17 DEF LeftRunning
  <2>19. Server(d)
    <3>1. d.requests = v.requests /\ d.owed = v.owed /\ d.disconnect = v.disconnect
      BY <2>6 DEF Same, Fields
    <3>2. v.requests = c.requests /\ v.owed = c.owed /\ v.disconnect = c.disconnect
      BY <2>5 DEF Same, Fields
    <3> QED BY <2>7, <2>8, <3>1, <3>2 DEF Playing, Server, Waiting
  <2>20. Popup(d)
    BY <2>7, <2>8 DEF Playing, Popup
  <2>21. DOMAIN d.ach = DOMAIN d.title.ach
    BY <2>7, <2>8, <2>9, <2>10 DEF Playing, Ach
  <2>22. d.title \in Titles /\ d.hardcore \in BOOLEAN /\ d.loaded
    BY <2>7, <2>8 DEF Playing
  <2>23. Playing(d)
    BY ONLY <2>8, <2>15, <2>17, <2>19, <2>20, <2>21, <2>22 DEF Playing
  <2> QED BY <2>7, <2>8, <2>9, <2>10, <2>14, <2>18, <2>23
<1> QED BY <1>1, <1>2

\* the game whose achievements a frame has processed, and the popup that shows what has progressed
EvaluatedOf(c, achieved, measured) == [c EXCEPT !.ach = Processed(c, achieved, measured)]
EvaluatedIn(c, read, achieved, measured) ==
  [read EXCEPT !.ach = [i \in Ach(c) |-> ProcessAchievement(read, i, achieved[i], measured)]]
ShownOf(c, d) == IF Progressed(c, d) THEN UpdateProgressTracker(d) ELSE d

\* how a trigger may be left
Evaluable(c, achieved) == \A i \in Active(c) : achieved[i] \in {"waiting", "active", "primed", "triggered"}

(* rc_client_do_frame_process_achievements and _update_progress_tracker.   *)
LEMMA ProcessedKeeps ==
  ASSUME NEW c, Playing(c), Rested(c), ~c.waiting, NEW achieved, Evaluable(c, achieved), NEW measured \in Measures \cup {Unknown},
         NEW e, e = EvaluatedOf(c, achieved, measured), NEW d, d = ShownOf(c, e)
  PROVE  Playing(d) /\ d.lb = c.lb /\ d.title = c.title /\ d.hardcore = c.hardcore
<1>1. PICK a : a = Processed(c, achieved, measured)
  OBVIOUS
<1>2. e = [c EXCEPT !.ach = a] /\ IsClient(c)
  BY <1>1 DEF EvaluatedOf, Playing
<1>3. Same(c, e, {"ach"}) /\ e.ach = a
  BY <1>2 DEF IsClient, Same, Fields
<1>4. Same(e, d, {"timer", "action"}) /\ Popup(d)
  <2>1. Popup(e)
    BY <1>3 DEF Playing, Popup, Same, Fields
  <2>2. CASE Progressed(c, e)
    <3>1. PICK action : action = IF e.timer THEN "update" ELSE "show"
      OBVIOUS
    <3>2. d = [e EXCEPT !.action = action, !.timer = TRUE]
      BY <2>2, <3>1 DEF ShownOf, UpdateProgressTracker
    <3>3. Same(e, d, {"timer", "action"}) /\ d.action = action /\ d.timer = TRUE
      BY <1>3, <3>2 DEF IsClient, Same, Fields
    <3> QED BY <3>1, <3>3 DEF Popup
  <2>3. CASE ~Progressed(c, e)
    <3>1. d = e
      BY <2>3 DEF ShownOf
    <3> QED BY <1>3, <2>1, <3>1 DEF Same
  <2> QED BY <2>2, <2>3
<1>5. /\ e.title = c.title /\ e.hardcore = c.hardcore /\ e.encore = c.encore /\ e.early = c.early /\ e.odd = c.odd
      /\ e.trackers = c.trackers /\ e.loaded = c.loaded /\ e.ui = c.ui /\ e.waiting = c.waiting /\ e.lb = c.lb
      /\ e.listed = c.listed
  BY <1>3 DEF Same, Fields
<1>6. /\ IsClient(d) /\ d.title = e.title /\ d.hardcore = e.hardcore /\ d.encore = e.encore /\ d.early = e.early /\ d.odd = e.odd
      /\ d.trackers = e.trackers /\ d.loaded = e.loaded /\ d.ui = e.ui /\ d.waiting = e.waiting /\ d.lb = e.lb
      /\ d.listed = e.listed /\ d.ach = e.ach
  BY <1>4 DEF Same, Fields
<1>7. Achievements(d) /\ Ach(d) = Ach(c)
  <2>1. Achievements(c) /\ c.hardcore \in BOOLEAN
    BY DEF Playing
  <2>2. \A i \in Ach(c) : c.ach[i].pending = {}
    BY DEF Rested
  <2>3. \A i \in Active(c) : achieved[i] \in {"waiting", "active", "primed", "triggered"}
    BY DEF Evaluable
  <2>4. d.ach = Processed(c, achieved, measured)
    BY <1>1, <1>3, <1>6
  <2>5. /\ d.listed = c.listed /\ d.encore = c.encore /\ d.hardcore = c.hardcore /\ d.waiting = c.waiting /\ d.early = c.early
        /\ d.ui.challenges = c.ui.challenges /\ (~d.odd => ~c.odd)
    BY <1>5, <1>6
  <2> QED BY ONLY ~c.waiting, measured \in Measures \cup {Unknown}, <2>1, <2>2, <2>3, <2>4, <2>5, ProcessedAchievements
<1>8. Boards(d)
  <2>1. Boards(c) /\ (c.odd => d.odd) /\ d.ui.trackers = c.ui.trackers
    BY <1>5, <1>6 DEF Playing
  <2>2. d.title = c.title /\ d.hardcore = c.hardcore /\ d.lb = c.lb /\ d.trackers = c.trackers
    BY <1>5, <1>6
  <2> QED BY ONLY <2>1, <2>2, BoardsSame
<1>9. Server(d)
  <2>1. d.requests = e.requests /\ d.owed = e.owed /\ d.disconnect = e.disconnect
    BY <1>4 DEF Same, Fields
  <2>2. e.requests = c.requests /\ e.owed = c.owed /\ e.disconnect = c.disconnect
    BY <1>3 DEF Same, Fields
  <2> QED BY <1>5, <1>6, <2>1, <2>2 DEF Playing, Server, Waiting
<1>10. DOMAIN d.ach = DOMAIN d.title.ach /\ d.title \in Titles /\ d.hardcore \in BOOLEAN /\ d.loaded
  BY <1>5, <1>6, <1>7 DEF Playing, Ach
<1>11. Playing(d)
  BY ONLY <1>4, <1>6, <1>7, <1>8, <1>9, <1>10 DEF Playing
<1> QED BY <1>5, <1>6, <1>11

\* the value of a leaderboard's attempt so far
Own(c, j) == IF c.lb[j].run = "started" THEN c.lb[j].value ELSE 0

(* What a frame reads is a value in reach, the same for those of one kind. *)
LEMMA ValuesReadable ==
  ASSUME NEW c, NEW s, Boards(s), LeftRunning(c, s), s.title = c.title, c.title \in Titles,
         \A j \in Lb(c) : c.lb[j] \in LeaderboardType, NEW tick, tick \in Nat, tick <= c.title.most,
         NEW values, values = Values(c, tick)
  PROVE  Readable(s, values)
<1>1. Lb(s) = Lb(c) /\ c.title.most \in Nat
  BY TitleFacts DEF LeftRunning
<1>2. \A j \in Lb(c) : values[j] = IF c.title.lb[j].hits THEN Min({Own(c, j) + tick, c.title.most}) ELSE tick
  BY DEF Values, Own
<1>3. \A j \in Lb(c) : Own(c, j) \in Nat
  BY DEF Own, LeaderboardType
<1>4. \A j \in Lb(s) : values[j] \in Nat /\ values[j] <= s.title.most
  <2>1. TAKE j \in Lb(s)
  <2>2. CASE c.title.lb[j].hits
    <3>1. PICK S : S = {Own(c, j) + tick, c.title.most}
      OBVIOUS
    <3>2. S \in SUBSET Nat /\ S # {} /\ c.title.most \in S
      BY <1>1, <1>3, <2>1, <3>1
    <3>3. Min(S) \in S /\ \A y \in S : Min(S) <= y
      BY ONLY <3>2, MinIn
    <3>4. values[j] = Min(S)
      BY <1>1, <1>2, <2>1, <2>2, <3>1
    <3>5. Min(S) \in Nat /\ Min(S) <= c.title.most
      BY ONLY <3>2, <3>3
    <3> QED BY <3>4, <3>5
  <2>3. CASE ~c.title.lb[j].hits
    BY <1>1, <1>2, <2>1, <2>3
  <2> QED BY <2>2, <2>3
<1>5. \A i, j \in Lb(s) : ~s.title.lb[i].hits /\ ~s.title.lb[j].hits => values[i] = values[j]
  BY <1>1, <1>2
<1>6. ASSUME NEW i \in Lb(s), NEW j \in Lb(s), s.title.lb[i].hits, s.title.lb[j].hits, s.lb[i].value = s.lb[j].value,
             s.lb[i].state = "tracking", s.lb[j].state = "tracking"
      PROVE  values[i] = values[j]
  <2>1. s.lb[i] = c.lb[i] /\ s.lb[j] = c.lb[j]
    BY <1>1, <1>6 DEF LeftRunning
  <2>2. s.lb[i].run = "started" /\ s.lb[j].run = "started"
    BY <1>6 DEF Boards, BoardAsPlayed
  <2>3. Own(c, i) = Own(c, j)
    BY <1>6, <2>1, <2>2 DEF Own
  <2> QED BY <1>1, <1>2, <1>6, <2>3
<1> QED BY <1>4, <1>5, <1>6 DEF Readable

(* rc_client_do_frame, up to its call of rc_client_idle.                   *)
LEMMA FrameKeeps ==
  ASSUME NEW c, PlayInv(c), c.loaded, ~c.waiting, NEW lost, NEW achieved, Evaluable(c, achieved),
         NEW measured \in Measures \cup {Unknown}, NEW attempted, Attemptable(c, attempted),
         NEW tick, tick \in Nat, tick <= c.title.most, NEW d, d = Frame(c, lost, achieved, measured, attempted, tick)
  PROVE  Playing(d) /\ Quiet(d)
<1>1. Playing(c) /\ Quiet(c) /\ Rested(c)
  BY PlayingNow DEF Quiet, Rested
<1>2. PICK r : r = ReadOf(c, lost)
  OBVIOUS
<1>3. PICK e : e = EvaluatedOf(r, achieved, measured)
  OBVIOUS
<1>4. PICK s : s = ShownOf(r, e)
  OBVIOUS
<1>5. PICK values : values = Values(c, tick)
  OBVIOUS
<1>6. PICK t : t = IF c.hardcore THEN TrackAll(s, attempted, values) ELSE s
  OBVIOUS
<1>7. PICK o : o = OddIf(t, SharesLate(s, t))
  OBVIOUS
<1>8. /\ Playing(r) /\ Rested(r) /\ LeftRunning(c, r) /\ Ach(r) = Ach(c) /\ Active(r) \subseteq Active(c)
      /\ r.title = c.title /\ r.hardcore = c.hardcore /\ r.waiting = c.waiting
  BY ONLY <1>1, <1>2, ReadKeeps
<1>9. d = RaisePending(o, TRUE)
  <2> DEFINE R == ReadOf(c, lost)
             E == EvaluatedIn(c, R, achieved, measured)
             S == ShownOf(R, E)
             T == IF c.hardcore THEN TrackAll(S, attempted, Values(c, tick)) ELSE S
  <2>1. d = RaisePending(OddIf(T, SharesLate(S, T)), TRUE)
    BY DEF Frame, ReadOf, EvaluatedIn, ShownOf, TrackAll, OddIf
  <2>2. E = EvaluatedOf(r, achieved, measured)
    BY <1>2, <1>8 DEF EvaluatedIn, EvaluatedOf, Processed
  <2>3. R = r
    BY <1>2
  <2> HIDE DEF R, E
  <2>4. S = s
    BY <1>3, <1>4, <2>2, <2>3
  <2> HIDE DEF S
  <2>5. T = t
    BY <1>5, <1>6, <2>4
  <2> HIDE DEF T
  <2> QED BY <1>7, <2>1, <2>4, <2>5
<1>10. Playing(s) /\ s.lb = r.lb /\ s.title = r.title /\ s.hardcore = r.hardcore
  <2>1. ~r.waiting
    BY <1>8
  <2>2. Evaluable(r, achieved)
    BY <1>8 DEF Evaluable
  <2> QED BY ONLY measured \in Measures \cup {Unknown}, <1>3, <1>4, <1>8, <2>1, <2>2, ProcessedKeeps
<1>11. IsClient(s) /\ Boards(s) /\ s.title \in Titles /\ s.hardcore \in BOOLEAN /\ s.title = c.title
  BY <1>8, <1>10 DEF Playing
<1>12. LeftRunning(c, s)
  BY <1>8, <1>10 DEF LeftRunning, Lb
<1>13. Readable(s, values)
  <2>1. \A j \in Lb(c) : c.lb[j] \in LeaderboardType
    BY <1>1 DEF Playing, Boards, Trackers, Lists
  <2>2. c.title \in Titles
    BY <1>11
  <2> QED BY ONLY tick \in Nat, tick <= c.title.most, <1>5, <1>11, <1>12, <2>1, <2>2, ValuesReadable
<1>14. Attemptable(s, attempted)
  BY <1>12 DEF Attemptable, LeftRunning
<1>15. Playing(o)
  <2>1. CASE c.hardcore
    <3>1. t = TrackAll(s, attempted, values)
      BY <1>6, <2>1
    <3>2. /\ Same(s, o, BoardFields \cup {"odd"}) /\ SameScreen(s, o, {"trackers"}) /\ Lb(o) = Lb(s)
          /\ Boards(o) /\ (s.odd => o.odd)
      BY ONLY <1>7, <1>11, <1>13, <1>14, <3>1, TrackAllKeeps
    <3> QED BY ONLY <1>10, <3>2, PlayingBut
  <2>2. CASE ~c.hardcore
    <3>1. PICK bad : bad = SharesLate(s, t)
      OBVIOUS
    <3>2. t = s /\ o = OddIf(s, bad)
      BY <1>6, <1>7, <2>2, <3>1
    <3>3. Same(s, o, {"odd"}) /\ o.ui = s.ui /\ (o.odd <=> s.odd \/ bad)
      BY ONLY <1>11, <3>2, OddIfFacts
    <3>4. Same(s, o, BoardFields \cup {"odd"}) /\ SameScreen(s, o, {"trackers"}) /\ (s.odd => o.odd)
      BY <3>3 DEF Same, SameScreen
    <3>5. o.title = s.title /\ o.hardcore = s.hardcore /\ o.lb = s.lb /\ o.trackers = s.trackers /\ o.ui.trackers = s.ui.trackers
      BY <3>3 DEF Same, Fields
    <3>6. Boards(o)
      BY ONLY <1>11, <3>4, <3>5, BoardsSame
    <3> QED BY ONLY <1>10, <3>4, <3>6, PlayingBut
  <2> QED BY <2>1, <2>2
<1> QED BY <1>9, <1>15, RaisedPlay

(* Where nothing is due, rc_client_idle sends nothing. *)
LEMMA NoneDue ==
  ASSUME NEW c, IsClient(c), NEW d, d = RunDue(c, {}, FALSE)
  PROVE  d.requests = c.requests
<1>1. PICK sent : sent = [c EXCEPT !.requests = c.requests]
  OBVIOUS
<1>2. IsClient(sent) /\ sent.requests = c.requests
  BY <1>1 DEF IsClient, Fields
<1>3. d = RaiseDisconnect(sent)
  <2>1. (c.requests \ {}) \cup {[r EXCEPT !.waits = FALSE] : r \in {}} = c.requests
    OBVIOUS
  <2> QED BY <1>1, <2>1 DEF RunDue
<1>4. Same(sent, d, {"disconnect", "ui"})
  BY <1>2, <1>3, RaiseDisconnectEffect
<1> QED BY <1>2, <1>4 DEF Same, Fields

(* And keeps what is played.                                               *)
LEMMA PlayedOn ==
  ASSUME NEW c, Playing(c), Quiet(c), NEW d, d = RunDue(c, {}, FALSE), Single(d)
  PROVE  PlayInv(d)
<1>1. IsClient(c)
  BY DEF Playing
<1>2. d.requests = c.requests
  BY <1>1, NoneDue
<1>3. PlayInv(c)
  BY <1>2, PlayingKeeps DEF Single
<1>4. PICK due, elapsed : due = {} /\ elapsed = FALSE
  OBVIOUS
<1>5. d = RunDue(c, due, elapsed) /\ due \subseteq Waiting(c)
  BY <1>4
<1> QED BY ONLY <1>3, <1>5, Single(d), IdleKeeps

-----------------------------------------------------------------------------
(* Save states.                                                            *)

\* a game that a save state was read into, or nothing was
Resumable(c) ==
  /\ IsClient(c) /\ c.title \in Titles /\ c.hardcore \in BOOLEAN
  /\ Server(c) /\ Popup(c) /\ Halted(c) /\ Trackers(c)
  /\ c.loaded /\ DOMAIN c.ach = DOMAIN c.title.ach

\* rc_client_subset_before_deserialize_progress, of the leaderboards: those that are tracked are to fail
HeldOf(l) == IF l.run = "started" /\ l.state = "tracking" THEN {"failed"} ELSE {}
HeldLb(c) == [j \in Lb(c) |-> [c.lb[j] EXCEPT !.pending = @ \cup HeldOf(c.lb[j])]]
Held(l) == l.state = "tracking" <=> "failed" \in l.pending

(* Of one that is played, all but its pending events stay.                 *)
LEMMA HeldFacts ==
  ASSUME NEW l \in LeaderboardType, l.pending = {}, l.state = "tracking" => l.run = "started",
         NEW w, w = [l EXCEPT !.pending = @ \cup HeldOf(l)]
  PROVE  /\ w \in LeaderboardType /\ w.state = l.state /\ w.run = l.run /\ w.value = l.value /\ w.tracker = l.tracker
         /\ Held(w)
<1>1. HeldOf(l) = IF l.state = "tracking" THEN {"failed"} ELSE {}
  BY DEF HeldOf
<1>2. PICK h : h = HeldOf(l)
  OBVIOUS
<1>3. h \in SUBSET {"started", "failed", "submitted"} /\ ("failed" \in h <=> l.state = "tracking")
  BY <1>1, <1>2
<1>4. w = [l EXCEPT !.pending = h]
  BY <1>2
<1>5. /\ w \in LeaderboardType /\ w.state = l.state /\ w.run = l.run /\ w.value = l.value /\ w.tracker = l.tracker
      /\ w.pending = h
  BY <1>3, <1>4 DEF LeaderboardType
<1> QED BY <1>3, <1>5 DEF Held

(* Before a save state is read, the challenges and the trackers are still  *)
(* shown, and their events say they are to go.                             *)
LEMMA BeforeKeeps ==
  ASSUME NEW c, PlayInv(c), c.loaded, NEW d, d = HideProgressTracker(BeforeDeserialize(c))
  PROVE  /\ Resumable(d) /\ Hiding(d) /\ Boards(d) /\ \A j \in Lb(d) : Held(d.lb[j])
         /\ Ach(d) = Ach(c) /\ Active(d) = Active(c) /\ Lb(d) = Lb(c) /\ d.title = c.title /\ d.hardcore = c.hardcore
         /\ \A j \in Lb(c) : d.lb[j].state = c.lb[j].state
<1>1. Playing(c) /\ Quiet(c)
  BY PlayingNow
<1>2. PICK h : h = HidePrimed(c)
  OBVIOUS
<1>3. PICK lb : lb = HeldLb(c)
  OBVIOUS
<1>4. PICK b : b = BeforeDeserialize(c)
  OBVIOUS
<1>5. IsClient(c) /\ Boards(c) /\ Achievements(c) /\ Server(c) /\ Popup(c) /\ c.action = "none"
  BY <1>1 DEF Playing, Quiet
<1>6. Same(c, h, {"ach"}) /\ h.ach = HiddenAll(c)
  BY <1>2, <1>5, HidePrimedEffect
<1>7. b = [h EXCEPT !.lb = lb]
  BY <1>2, <1>3, <1>4 DEF BeforeDeserialize, HeldLb, HeldOf
<1>8. Same(h, b, {"lb"}) /\ b.lb = lb
  BY <1>6, <1>7 DEF IsClient, Same, Fields
<1>9. /\ Same(b, d, {"timer", "action"})
      /\ b.timer /\ b.action = "none" => d.timer = FALSE /\ d.action = "hide"
      /\ ~(b.timer /\ b.action = "none") => d = b
  <2>1. IsClient(b)
    BY <1>8 DEF Same
  <2>2. d = HideProgressTracker(b)
    BY <1>4
  <2> QED BY ONLY <2>1, <2>2, HideProgressTrackerEffect
<1>10. Same(c, d, {"ach", "lb", "timer", "action"})
  BY <1>6, <1>8, <1>9 DEF Same
<1>11. /\ IsClient(d) /\ d.title = c.title /\ d.hardcore = c.hardcore /\ d.encore = c.encore /\ d.early = c.early
       /\ d.trackers = c.trackers /\ d.loaded = c.loaded /\ d.ui = c.ui /\ d.waiting = c.waiting /\ d.odd = c.odd
       /\ d.listed = c.listed
  BY <1>10 DEF Same, Fields
<1>12. d.ach = HiddenAll(c) /\ d.lb = HeldLb(c)
  BY <1>3, <1>6, <1>8, <1>9 DEF Same, Fields
<1>13. Popup(d)
  <2>1. b.timer = c.timer /\ b.action = c.action /\ b.ui = c.ui
    BY <1>6, <1>8 DEF Same, Fields
  <2>2. CASE c.timer = TRUE
    BY <1>5, <1>9, <2>1, <2>2 DEF Popup
  <2>3. CASE c.timer = FALSE
    BY <1>5, <1>9, <2>1, <2>3 DEF Popup
  <2> QED BY <1>5, <2>2, <2>3 DEF Popup
<1>14. Server(d)
  <2>1. d.requests = c.requests /\ d.owed = c.owed /\ d.disconnect = c.disconnect
    BY <1>10 DEF Same, Fields
  <2> QED BY <1>5, <1>11, <2>1 DEF Server, Waiting
<1>15. Hiding(c)
  BY <1>1, <1>5, AtRestFacts, RestHides DEF Quiet
<1>16. /\ Ach(d) = Ach(c) /\ Active(d) = Active(c) /\ Raised(d, "hide") = Primed(c) /\ Hiding(d)
  <2>1. d.early = c.early /\ d.ui.challenges = c.ui.challenges /\ (~d.odd => ~c.odd)
    BY <1>11
  <2>2. /\ Ach(d) = Ach(c) /\ Active(d) = Active(c) /\ Primed(d) = Primed(c)
        /\ Raised(d, "show") = {} /\ Raised(d, "triggered") = {} /\ Raised(d, "hide") = Primed(c)
        /\ d.early = c.early /\ d.ui.challenges = c.ui.challenges /\ (~d.odd => ~c.odd) => Hiding(d)
    BY ONLY <1>12, <1>15, HiddenAchievements
  <2> QED BY ONLY <2>1, <2>2
<1>17. Halted(d)
  <2>1. \A i \in Ach(c) : d.ach[i].state = c.ach[i].state /\ d.ach[i].unlocked = c.ach[i].unlocked /\ d.ach[i].carried = c.ach[i].carried
    <3>1. TAKE i \in Ach(c)
    <3>2. PICK a : a = HiddenAll(c)[i]
      OBVIOUS
    <3>3. a.state = c.ach[i].state /\ a.unlocked = c.ach[i].unlocked /\ a.carried = c.ach[i].carried
      BY ONLY <1>15, <3>1, <3>2, HiddenFacts
    <3> QED BY <1>12, <3>2, <3>3
  <2>2. \A i \in Ach(d) : AsPlayed(d, i)
    <3>1. \A i \in Ach(c) : UnlockBit(d, i) = UnlockBit(c, i) /\ AsPlayed(c, i)
      BY <1>5, <1>11, <2>1 DEF UnlockBit, Mode, Achievements
    <3> QED BY ONLY <1>11, <1>16, <2>1, <3>1 DEF AsPlayed
  <2>3. Clean(d)
    <3>1. Clean(c)
      BY <1>5 DEF Achievements
    <3>2. \A i \in Active(c) : i \in Ach(c)
      BY DEF Active
    <3> QED BY ONLY <1>11, <1>16, <2>1, <3>1, <3>2 DEF Clean
  <2>4. d.listed = Active(d)
    BY <1>5, <1>11, <1>16 DEF Achievements
  <2>5. ~d.odd => d.ui.challenges = Raised(d, "hide")
    BY <1>11, <1>15, <1>16 DEF Hiding
  <2>6. \A i \in Ach(d) : d.ach[i] \in AchievementType /\ d.ach[i].pending \in {{}, {"hide"}}
    BY <1>16 DEF Hiding
  <2> QED BY ONLY <2>2, <2>3, <2>4, <2>5, <2>6 DEF Halted
<1>18. ASSUME NEW j \in Lb(c)
       PROVE  /\ d.lb[j] \in LeaderboardType /\ d.lb[j].state = c.lb[j].state /\ d.lb[j].run = c.lb[j].run
              /\ d.lb[j].value = c.lb[j].value /\ d.lb[j].tracker = c.lb[j].tracker /\ Held(d.lb[j])
  <2>1. c.lb[j] \in LeaderboardType /\ c.lb[j].pending = {} /\ (c.lb[j].state = "tracking" => c.lb[j].run = "started")
    BY <1>1, <1>5 DEF Boards, Trackers, Lists, BoardAsPlayed, Quiet
  <2>2. PICK l : l = c.lb[j]
    OBVIOUS
  <2>3. PICK w : w = [l EXCEPT !.pending = @ \cup HeldOf(l)]
    OBVIOUS
  <2>4. d.lb[j] = w
    BY <1>12, <1>18, <2>2, <2>3 DEF HeldLb
  <2>5. l \in LeaderboardType /\ l.pending = {} /\ (l.state = "tracking" => l.run = "started")
    BY <2>1, <2>2
  <2>6. /\ w \in LeaderboardType /\ w.state = l.state /\ w.run = l.run /\ w.value = l.value /\ w.tracker = l.tracker
        /\ Held(w)
    BY ONLY <2>3, <2>5, HeldFacts
  <2> QED BY ONLY <2>2, <2>4, <2>6
<1>19. Trackers(d) /\ Lb(d) = Lb(c)
  <2>1. Trackers(c)
    BY <1>5 DEF Boards
  <2>2. d.lb = [j \in Lb(c) |-> d.lb[j]]
    BY <1>12 DEF HeldLb
  <2>3. d.ui.trackers = c.ui.trackers
    BY <1>11
  <2> QED BY ONLY <1>11, <1>18, <2>1, <2>2, <2>3, TrackersSame
<1>20. Boards(d)
  <2>1. \A j \in Lb(d) : BoardAsPlayed(d, j)
    BY <1>5, <1>11, <1>18, <1>19 DEF Boards, BoardAsPlayed
  <2>2. ~d.odd => \A j \in Lb(d) : SameValue(d, j)
    BY <1>5, <1>11, <1>18, <1>19 DEF Boards, SameValue
  <2> QED BY ONLY <1>19, <2>1, <2>2 DEF Boards
<1>21. DOMAIN d.ach = DOMAIN d.title.ach /\ d.loaded /\ d.title \in Titles /\ d.hardcore \in BOOLEAN
  BY <1>1, <1>11, <1>16 DEF Playing, Ach
<1>22. Resumable(d)
  BY ONLY <1>11, <1>13, <1>14, <1>17, <1>19, <1>21 DEF Resumable
<1> QED BY <1>11, <1>16, <1>18, <1>19, <1>20, <1>22

\* what a save state leaves of the leaderboards
RestoredLb(c, attempted) ==
  [j \in Lb(c) |-> IF c.lb[j].state \in {"inactive", "disabled"} THEN c.lb[j] ELSE [c.lb[j] EXCEPT !.run = attempted[j]]]

\* what it may hold of each
Savable(c, attempted, values) ==
  \A j \in Lb(c) : c.lb[j].state \in {"active", "tracking"} =>
     /\ attempted[j] \in {"waiting", "active", "started"}
     /\ attempted[j] = "started" => values[j] \in Nat /\ values[j] <= c.title.most
SavableAch(c, achieved) == \A i \in Active(c) : achieved[i] \in {"waiting", "active", "primed"}

(* rc_runtime_deserialize_progress.                                        *)
LEMMA RestoredKeeps ==
  ASSUME NEW c, Resumable(c), Boards(c), \A j \in Lb(c) : Held(c.lb[j]), NEW saw, NEW achieved, SavableAch(c, achieved),
         NEW measured \in Measures \cup {Unknown}, NEW attempted, NEW values, Savable(c, attempted, values),
         NEW d, d = Restored(c, saw, achieved, measured, attempted)
  PROVE  Resumable(d) /\ Startable(d, values)
<1>1. PICK a : a = RestoredAch(c, saw, achieved, measured)
  OBVIOUS
<1>2. PICK lb : lb = RestoredLb(c, attempted)
  OBVIOUS
<1>3. IsClient(c) /\ Halted(c) /\ Trackers(c) /\ c.title \in Titles /\ c.hardcore \in BOOLEAN
  BY DEF Resumable
<1>4. d = [c EXCEPT !.ach = a, !.lb = lb]
  BY <1>1, <1>2 DEF Restored, RestoredAch, RestoredLb
<1>5. Same(c, d, {"ach", "lb"}) /\ d.ach = a /\ d.lb = lb
  BY <1>3, <1>4 DEF IsClient, Same, Fields
<1>6. /\ IsClient(d) /\ d.title = c.title /\ d.hardcore = c.hardcore /\ d.encore = c.encore /\ d.early = c.early
      /\ d.trackers = c.trackers /\ d.loaded = c.loaded /\ d.ui = c.ui /\ d.waiting = c.waiting /\ d.odd = c.odd
      /\ d.listed = c.listed /\ d.timer = c.timer /\ d.action = c.action
  BY <1>5 DEF Same, Fields
<1>7. Halted(d) /\ Ach(d) = Ach(c)
  <2>1. \A i \in Active(c) : achieved[i] \in {"waiting", "active", "primed"}
    BY DEF SavableAch
  <2>2. d.ach = RestoredAch(c, saw, achieved, measured)
    BY <1>1, <1>5
  <2>3. d.ui.challenges = c.ui.challenges /\ (~d.odd => ~c.odd)
    BY <1>6
  <2> QED BY ONLY measured \in Measures \cup {Unknown}, <1>3, <1>6, <2>1, <2>2, <2>3, RestoredAchievements
<1>8. ASSUME NEW j \in Lb(c)
      PROVE  /\ d.lb[j] \in LeaderboardType /\ d.lb[j].tracker = c.lb[j].tracker /\ d.lb[j].state = c.lb[j].state
             /\ d.lb[j].value = c.lb[j].value /\ d.lb[j].pending = c.lb[j].pending
             /\ c.lb[j].state \in {"active", "tracking"} => d.lb[j].run = attempted[j]
  <2>1. PICK l : l = c.lb[j]
    OBVIOUS
  <2>2. l \in LeaderboardType
    BY <1>3, <2>1 DEF Trackers, Lists
  <2>3. CASE l.state \in {"inactive", "disabled"}
    <3>1. d.lb[j] = l
      BY <1>2, <1>5, <2>1, <2>3 DEF RestoredLb
    <3> QED BY <2>1, <2>2, <2>3, <3>1
  <2>4. CASE l.state \notin {"inactive", "disabled"}
    <3>1. PICK run : run = attempted[j]
      OBVIOUS
    <3>2. d.lb[j] = [l EXCEPT !.run = run]
      BY <1>2, <1>5, <2>1, <2>4, <3>1 DEF RestoredLb
    <3>3. l.state \in {"active", "tracking"}
      BY <2>2, <2>4 DEF LeaderboardType
    <3>4. run \in {"waiting", "active", "started"}
      BY <2>1, <3>1, <3>3 DEF Savable
    <3>5. /\ d.lb[j] \in LeaderboardType /\ d.lb[j].tracker = l.tracker /\ d.lb[j].state = l.state
          /\ d.lb[j].value = l.value /\ d.lb[j].pending = l.pending /\ d.lb[j].run = run
      BY <2>2, <3>2, <3>4 DEF LeaderboardType
    <3> QED BY <2>1, <3>1, <3>5
  <2> QED BY <2>3, <2>4
<1>9. Trackers(d) /\ Lb(d) = Lb(c)
  <2>1. d.lb = [j \in Lb(c) |-> d.lb[j]]
    BY <1>2, <1>5 DEF RestoredLb
  <2>2. d.ui.trackers = c.ui.trackers
    BY <1>6
  <2> QED BY ONLY <1>3, <1>6, <1>8, <2>1, <2>2, TrackersSame
<1>10. ASSUME NEW j \in Lb(d)
       PROVE  /\ Restorable(d, j)
              /\ d.lb[j].state \in {"active", "tracking"} /\ d.lb[j].run = "started" =>
                   values[j] \in Nat /\ values[j] <= d.title.most
  <2>1. BoardAsPlayed(c, j) /\ Held(c.lb[j]) /\ c.lb[j] \in LeaderboardType
    BY <1>9, <1>10 DEF Boards, Trackers, Lists
  <2>2. /\ d.lb[j].tracker = c.lb[j].tracker /\ d.lb[j].state = c.lb[j].state
        /\ d.lb[j].value = c.lb[j].value /\ d.lb[j].pending = c.lb[j].pending
        /\ c.lb[j].state \in {"active", "tracking"} => d.lb[j].run = attempted[j]
    BY <1>8, <1>9, <1>10
  <2>3. c.lb[j].state \in {"active", "tracking"} =>
          /\ attempted[j] \in {"waiting", "active", "started"}
          /\ attempted[j] = "started" => values[j] \in Nat /\ values[j] <= c.title.most
    BY <1>9, <1>10 DEF Savable
  <2>4. Restorable(d, j)
    BY ONLY <1>6, <2>1, <2>2, <2>3 DEF Restorable, BoardAsPlayed, Held
  <2> QED BY ONLY <1>6, <2>2, <2>3, <2>4
<1>11. Startable(d, values)
  BY ONLY <1>10 DEF Startable
<1>12. Server(d)
  <2>1. d.requests = c.requests /\ d.owed = c.owed /\ d.disconnect = c.disconnect
    BY <1>5 DEF Same, Fields
  <2> QED BY <1>6, <2>1 DEF Resumable, Server, Waiting
<1>13. Popup(d)
  BY <1>6 DEF Resumable, Popup
<1>14. DOMAIN d.ach = DOMAIN d.title.ach /\ d.title \in Titles /\ d.hardcore \in BOOLEAN /\ d.loaded
  BY <1>6, <1>7 DEF Resumable, Ach
<1>15. Resumable(d)
  BY ONLY <1>6, <1>7, <1>9, <1>12, <1>13, <1>14 DEF Resumable
<1> QED BY <1>11, <1>15

(* Of nothing, a reset.                                                    *)
LEMMA ResetRestored ==
  ASSUME NEW c, Resumable(c), Hiding(c), Boards(c), NEW d, d = ResetAll(c), NEW values
  PROVE  Resumable(d) /\ Startable(d, values)
<1>1. PICK a : a = ResetAchievements(c)
  OBVIOUS
<1>2. d = ResetLeaderboards(a)
  BY <1>1 DEF ResetAll
<1>3. IsClient(c) /\ Halted(c) /\ c.title \in Titles /\ c.hardcore \in BOOLEAN
  BY DEF Resumable
<1>4. Same(c, a, {"ach"}) /\ a.ach = ResetAch(c)
  BY <1>1, <1>3, ResetAchievementsEffect
<1>5. /\ IsClient(a) /\ a.title = c.title /\ a.hardcore = c.hardcore /\ a.encore = c.encore /\ a.early = c.early
      /\ a.trackers = c.trackers /\ a.loaded = c.loaded /\ a.ui = c.ui /\ a.waiting = c.waiting /\ a.odd = c.odd
      /\ a.listed = c.listed /\ a.timer = c.timer /\ a.action = c.action /\ a.lb = c.lb
  BY <1>4 DEF Same, Fields
<1>6. Achievements(a) /\ Ach(a) = Ach(c) /\ Raised(a, "hide") = Primed(c) /\ \A i \in Ach(a) : a.ach[i].pending \in {{}, {"hide"}}
  <2>1. (\A i \in Ach(c) : AsPlayed(c, i)) /\ c.listed = Active(c)
    BY <1>3 DEF Halted
  <2>2. a.ui.challenges = c.ui.challenges /\ (~a.odd => ~c.odd)
    BY <1>5
  <2> QED BY ONLY Hiding(c), <1>3, <1>4, <1>5, <2>1, <2>2, ResetAchievementsFacts
<1>7. Halted(a)
  <2>1. ~a.odd => a.ui.challenges = Raised(a, "hide")
    BY <1>5, <1>6 DEF Hiding
  <2> QED BY <1>6, <2>1 DEF Halted, Achievements
<1>8. Boards(a)
  <2>1. c.odd => a.odd
    BY <1>5
  <2>2. a.ui.trackers = c.ui.trackers
    BY <1>5
  <2> QED BY ONLY Boards(c), <1>5, <2>1, <2>2, BoardsSame
<1>9. /\ Same(a, d, {"lb", "trackers"}) /\ Lb(d) = Lb(a) /\ Boards(d)
      /\ \A j \in Lb(d) : d.lb[j].state # "tracking"
  BY ONLY <1>2, <1>5, <1>8, ResetLeaderboardsKeeps
<1>10. /\ IsClient(d) /\ d.title = a.title /\ d.hardcore = a.hardcore /\ d.encore = a.encore /\ d.early = a.early
       /\ d.loaded = a.loaded /\ d.ui = a.ui /\ d.waiting = a.waiting /\ d.odd = a.odd
       /\ d.listed = a.listed /\ d.timer = a.timer /\ d.action = a.action /\ d.ach = a.ach
  BY <1>9 DEF Same, Fields
<1>11. Halted(d)
  <2>1. Ach(d) = Ach(a) /\ Active(d) = Active(a) /\ Raised(d, "hide") = Raised(a, "hide")
    BY ONLY <1>10 DEF Ach, Active, Raised
  <2>2. \A i \in Ach(a) : AsPlayed(a, i) => AsPlayed(d, i)
    BY ONLY <1>10 DEF AsPlayed, UnlockBit, Mode
  <2>3. Clean(a) => Clean(d)
    BY ONLY <1>10, <2>1 DEF Clean
  <2> QED BY ONLY <1>7, <1>10, <2>1, <2>2, <2>3 DEF Halted
<1>12. ASSUME NEW j \in Lb(d)
       PROVE  /\ Restorable(d, j)
              /\ d.lb[j].state \in {"active", "tracking"} /\ d.lb[j].run = "started" =>
                   values[j] \in Nat /\ values[j] <= d.title.most
  <2>1. BoardAsPlayed(d, j) /\ d.lb[j].state # "tracking"
    BY <1>9, <1>12 DEF Boards
  <2>2. Restorable(d, j)
    BY ONLY <2>1 DEF Restorable, BoardAsPlayed
  <2>3. ~(d.lb[j].state \in {"active", "tracking"} /\ d.lb[j].run = "started")
    BY ONLY <2>1 DEF BoardAsPlayed
  <2> QED BY <2>2, <2>3
<1>13. Startable(d, values)
  BY ONLY <1>12 DEF Startable
<1>14. Server(d)
  <2>1. d.requests = a.requests /\ d.owed = a.owed /\ d.disconnect = a.disconnect
    BY <1>9 DEF Same, Fields
  <2>2. a.requests = c.requests /\ a.owed = c.owed /\ a.disconnect = c.disconnect
    BY <1>4 DEF Same, Fields
  <2> QED BY <1>5, <1>10, <2>1, <2>2 DEF Resumable, Server, Waiting
<1>15. Popup(d)
  BY <1>5, <1>10 DEF Resumable, Popup
<1>16. DOMAIN d.ach = DOMAIN d.title.ach /\ d.title \in Titles /\ d.hardcore \in BOOLEAN /\ d.loaded
  BY <1>5, <1>6, <1>10 DEF Resumable, Ach
<1>17. Trackers(d)
  BY <1>9 DEF Boards
<1>18. Resumable(d)
  BY ONLY <1>10, <1>11, <1>14, <1>15, <1>16, <1>17 DEF Resumable
<1> QED BY <1>13, <1>18

(* rc_client_subset_after_deserialize_progress, and the events.            *)
LEMMA AfterKeeps ==
  ASSUME NEW x, NEW c, Resumable(c), NEW values, Startable(c, values), NEW d, d = Deserialized(x, c, values)
  PROVE  Playing(d) /\ Quiet(d)
<1>1. PICK a : a = ShownAll(c)
  OBVIOUS
<1>2. PICK s : s = [c EXCEPT !.ach = a]
  OBVIOUS
<1>3. PICK t : t = RestoreAll(s, values)
  OBVIOUS
<1>4. PICK e : e = OddIf(t, Apart(t))
  OBVIOUS
<1>5. d = RaisePending(e, TRUE)
  <2> DEFINE S == [c EXCEPT !.ach = ShownAll(c)]
             T == RestoreAll(S, values)
  <2>1. d = RaisePending(OddIf(T, Apart(T)), TRUE)
    BY DEF Deserialized, AfterDeserialize, ShownAll, ShownAgain, RestoreAll, OddIf
  <2>2. S = s
    BY <1>1, <1>2
  <2> HIDE DEF S
  <2>3. T = t
    BY <1>3, <2>2
  <2> HIDE DEF T
  <2> QED BY <1>4, <2>1, <2>3
<1>6. IsClient(c) /\ Halted(c) /\ Trackers(c) /\ c.title \in Titles /\ c.hardcore \in BOOLEAN
  BY DEF Resumable
<1>7. Same(c, s, {"ach"}) /\ s.ach = a
  BY <1>2, <1>6 DEF IsClient, Same, Fields
<1>8. /\ IsClient(s) /\ s.title = c.title /\ s.hardcore = c.hardcore /\ s.encore = c.encore /\ s.early = c.early
      /\ s.trackers = c.trackers /\ s.loaded = c.loaded /\ s.ui = c.ui /\ s.waiting = c.waiting /\ s.odd = c.odd
      /\ s.listed = c.listed /\ s.timer = c.timer /\ s.action = c.action /\ s.lb = c.lb
  BY <1>7 DEF Same, Fields
<1>9. Achievements(s) /\ Ach(s) = Ach(c)
  <2>1. s.ach = ShownAll(c)
    BY <1>1, <1>7
  <2>2. s.ui.challenges = c.ui.challenges /\ (~s.odd => ~c.odd)
    BY <1>8
  <2> QED BY ONLY <1>6, <1>8, <2>1, <2>2, ShownAchievements
<1>10. Trackers(s) /\ Lb(s) = Lb(c)
  <2>1. s.ui.trackers = c.ui.trackers
    BY <1>8
  <2> QED BY ONLY <1>6, <1>8, <2>1, TrackersAgain
<1>11. Startable(s, values)
  BY ONLY <1>8, <1>10, Startable(c, values) DEF Startable, Restorable
<1>12. /\ Same(s, e, BoardFields \cup {"odd"}) /\ SameScreen(s, e, {"trackers"}) /\ Lb(e) = Lb(s)
       /\ Boards(e) /\ (s.odd => e.odd)
  <2>1. s.title \in Titles
    BY <1>6, <1>8
  <2> QED BY ONLY <1>3, <1>4, <1>8, <1>10, <1>11, <2>1, RestoreAllKeeps
<1>13. /\ IsClient(e) /\ e.title = s.title /\ e.hardcore = s.hardcore /\ e.loaded = s.loaded /\ e.ach = s.ach
       /\ e.listed = s.listed /\ e.encore = s.encore /\ e.waiting = s.waiting /\ e.early = s.early
       /\ e.timer = s.timer /\ e.action = s.action
  BY <1>12 DEF Same, Fields, BoardFields
<1>14. e.ui.challenges = s.ui.challenges /\ e.ui.progress = s.ui.progress /\ e.ui.offline = s.ui.offline
  BY <1>12 DEF SameScreen, ScreenFields
<1>15. Achievements(e)
  BY ONLY <1>9, <1>12, <1>13, <1>14, AchievementsSame
<1>16. Server(e)
  <2>1. e.requests = s.requests /\ e.owed = s.owed /\ e.disconnect = s.disconnect
    BY <1>12 DEF Same, Fields, BoardFields
  <2>2. s.requests = c.requests /\ s.owed = c.owed /\ s.disconnect = c.disconnect
    BY <1>7 DEF Same, Fields
  <2> QED BY <1>8, <1>14, <2>1, <2>2 DEF Resumable, Server, Waiting
<1>17. Popup(e)
  BY <1>8, <1>13, <1>14 DEF Resumable, Popup
<1>18. DOMAIN e.ach = DOMAIN e.title.ach /\ e.title \in Titles /\ e.hardcore \in BOOLEAN /\ e.loaded
  BY <1>8, <1>9, <1>13 DEF Resumable, Ach
<1>19. Playing(e)
  BY ONLY <1>12, <1>13, <1>15, <1>16, <1>17, <1>18 DEF Playing
<1> QED BY <1>5, <1>19, RaisedPlay

(* rc_client_deserialize_progress, of a state that was saved.              *)
LEMMA DeserializeKeeps ==
  ASSUME NEW c, PlayInv(c), c.loaded, NEW before, before = HideProgressTracker(BeforeDeserialize(c)),
         NEW saw, NEW achieved, SavableAch(c, achieved), NEW measured \in Measures \cup {Unknown},
         NEW attempted, NEW values, Savable(c, attempted, values),
         NEW d, d = Deserialized(before, Restored(before, saw, achieved, measured, attempted), values), Single(d)
  PROVE  PlayInv(d)
<1>1. /\ Resumable(before) /\ Hiding(before) /\ Boards(before) /\ \A j \in Lb(before) : Held(before.lb[j])
      /\ Ach(before) = Ach(c) /\ Active(before) = Active(c) /\ Lb(before) = Lb(c) /\ before.title = c.title
      /\ before.hardcore = c.hardcore
      /\ \A j \in Lb(c) : before.lb[j].state = c.lb[j].state
  BY BeforeKeeps
<1>2. PICK r : r = Restored(before, saw, achieved, measured, attempted)
  OBVIOUS
<1>3. SavableAch(before, achieved) /\ Savable(before, attempted, values)
  BY <1>1 DEF SavableAch, Savable
<1>4. Resumable(r) /\ Startable(r, values)
  BY ONLY measured \in Measures \cup {Unknown}, <1>1, <1>2, <1>3, RestoredKeeps
<1>5. d = Deserialized(before, r, values)
  BY <1>2
<1>6. Playing(d) /\ Quiet(d)
  BY ONLY <1>4, <1>5, AfterKeeps
<1> QED BY <1>6, PlayingKeeps

(* And of one that cannot be read.                                         *)
LEMMA DamagedKeeps ==
  ASSUME NEW c, PlayInv(c), c.loaded, NEW before, before = HideProgressTracker(BeforeDeserialize(c)),
         NEW d, d = Deserialized(before, ResetAll(before), <<>>), Single(d)
  PROVE  PlayInv(d)
<1>1. Resumable(before) /\ Hiding(before) /\ Boards(before)
  BY BeforeKeeps
<1>2. PICK r : r = ResetAll(before)
  OBVIOUS
<1>3. PICK values : values = <<>>
  OBVIOUS
<1>4. Resumable(r) /\ Startable(r, values)
  BY ONLY <1>1, <1>2, ResetRestored
<1>5. d = Deserialized(before, r, values)
  BY <1>2, <1>3
<1>6. Playing(d) /\ Quiet(d)
  BY ONLY <1>4, <1>5, AfterKeeps
<1> QED BY <1>6, PlayingKeeps

-----------------------------------------------------------------------------
(* Every step.                                                             *)

(* rc_client_do_frame.                                                     *)
LEMMA DoFrameKeeps ==
  ASSUME IInv, DoFrame
  PROVE  IInv'
<1>1. client.loaded /\ PlayInv(client)
  BY DEF DoFrame, IInv
<1>2. CASE client.waiting
  <2>1. client' = RunDue(client, {}, FALSE) /\ Single(client')
    BY <1>2 DEF DoFrame, Step, Bounded, Single
  <2>2. Playing(client) /\ Quiet(client)
    BY ONLY <1>1, PlayingNow
  <2>3. PICK d : d = client'
    OBVIOUS
  <2>4. d = RunDue(client, {}, FALSE) /\ Single(d)
    BY <2>1, <2>3
  <2>5. PlayInv(d)
    BY ONLY <2>2, <2>4, PlayedOn
  <2> QED BY <2>3, <2>5 DEF IInv
<1>3. CASE ~client.waiting
  <2>1. PICK achieved \in Evaluated(client, LAMBDA i : Evaluations(client.ach[i].trigger), None),
             attempted \in Attempted(client, LAMBDA j : Attempts(client.lb[j].run), None),
             measured \in Measurable(client, Measures), tick \in Ticks(client), lost \in SUBSET (Memory(client) \ client.invalid) :
            Step(RunDue(Frame(client, lost, achieved, measured, attempted, tick), {}, FALSE))
    BY <1>3 DEF DoFrame
  <2>2. PICK f : f = Frame(client, lost, achieved, measured, attempted, tick)
    OBVIOUS
  <2>3. PICK d : d = client'
    OBVIOUS
  <2>4. d = RunDue(f, {}, FALSE) /\ Single(d)
    BY <2>1, <2>2, <2>3 DEF Step, Bounded, Single
  <2>5. Evaluable(client, achieved)
    <3>1. \A i \in Active(client) : i \in Ach(client) /\ achieved[i] \in Evaluations(client.ach[i].trigger)
      BY <2>1 DEF Evaluated, Active
    <3>2. \A trigger : Evaluations(trigger) \subseteq {"waiting", "active", "primed", "triggered"}
      BY DEF Evaluations
    <3> QED BY <3>1, <3>2 DEF Evaluable
  <2>6. Attemptable(client, attempted)
    BY <2>1 DEF Attempted, Attemptable
  <2>7. measured \in Measures \cup {Unknown}
    BY <2>1 DEF Measurable
  <2>8. tick \in Nat /\ tick <= client.title.most
    <3>1. client.title.most \in Nat
      BY <1>1, TitleFacts DEF PlayInv
    <3> QED BY <2>1, <3>1 DEF Ticks
  <2>9. Playing(f) /\ Quiet(f)
    BY ONLY <1>1, <1>3, <2>2, <2>5, <2>6, <2>7, <2>8, FrameKeeps
  <2>10. PlayInv(d)
    BY ONLY <2>4, <2>9, PlayedOn
  <2> QED BY <2>3, <2>10 DEF IInv
<1> QED BY <1>2, <1>3

(* The values up to a bound.                                               *)
LEMMA UpTo == \A v, most : most \in Nat /\ v \in 0..most => v \in Nat /\ v <= most
  OBVIOUS

(* rc_client_deserialize_progress.                                         *)
LEMMA DeserializeStep ==
  ASSUME IInv, Deserialize
  PROVE  IInv'
<1>1. client.loaded /\ PlayInv(client)
  BY DEF Deserialize, IInv
<1>2. PICK before : before = HideProgressTracker(BeforeDeserialize(client))
  OBVIOUS
<1>3. PICK d : d = client'
  OBVIOUS
<1>4. CASE Step(Deserialized(before, ResetAll(before), <<>>))
  <2>1. d = Deserialized(before, ResetAll(before), <<>>) /\ Single(d)
    BY <1>3, <1>4 DEF Step, Bounded, Single
  <2>2. PlayInv(d)
    BY ONLY <1>1, <1>2, <2>1, DamagedKeeps
  <2> QED BY <1>3, <2>2 DEF IInv
<1>5. CASE \E saw \in {"softcore", "hardcore"},
              achieved \in Evaluated(client, LAMBDA i : {"waiting", "active", "primed"}, None),
              attempted \in Attempted(client, LAMBDA j : {"waiting", "active", "started"}, None),
              measured \in Measurable(client, Measures \cup {Unknown}) :
             \E values \in [{j \in Lb(client) : attempted[j] = "started"} -> 0..client.title.most] :
               Step(Deserialized(before, Restored(before, saw, achieved, measured, attempted), values))
  <2>1. PICK saw \in {"softcore", "hardcore"},
             achieved \in Evaluated(client, LAMBDA i : {"waiting", "active", "primed"}, None),
             attempted \in Attempted(client, LAMBDA j : {"waiting", "active", "started"}, None),
             measured \in Measurable(client, Measures \cup {Unknown}) :
             \E values \in [{j \in Lb(client) : attempted[j] = "started"} -> 0..client.title.most] :
               Step(Deserialized(before, Restored(before, saw, achieved, measured, attempted), values))
    BY <1>5
  <2>2. PICK values \in [{j \in Lb(client) : attempted[j] = "started"} -> 0..client.title.most] :
               Step(Deserialized(before, Restored(before, saw, achieved, measured, attempted), values))
    BY <2>1
  <2>3. d = Deserialized(before, Restored(before, saw, achieved, measured, attempted), values) /\ Single(d)
    BY <1>3, <2>2 DEF Step, Bounded, Single
  <2>4. SavableAch(client, achieved)
    BY <2>1 DEF Evaluated, Active, SavableAch
  <2>5. measured \in Measures \cup {Unknown}
    BY <2>1 DEF Measurable
  <2>6. Savable(client, attempted, values)
    <3>1. client.title.most \in Nat
      BY <1>1, TitleFacts DEF PlayInv
    <3>2. \A j \in Lb(client) : attempted[j] = "started" => values[j] \in 0..client.title.most
      BY <2>2
    <3>3. \A j \in Lb(client) : attempted[j] = "started" => values[j] \in Nat /\ values[j] <= client.title.most
      BY <3>1, <3>2, UpTo
    <3>4. \A j \in Lb(client) : client.lb[j].state \in {"active", "tracking"} => attempted[j] \in {"waiting", "active", "started"}
      BY <2>1 DEF Attempted
    <3> QED BY ONLY <3>3, <3>4 DEF Savable
  <2>7. PlayInv(d)
    BY ONLY <1>1, <1>2, <2>3, <2>4, <2>5, <2>6, DeserializeKeeps
  <2> QED BY <1>3, <2>7 DEF IInv
<1> QED BY <1>2, <1>4, <1>5 DEF Deserialize

(* IInv is inductive. *)
LEMMA StepKeeps ==
  ASSUME IInv, [Next]_client
  PROVE  IInv'
<1>1. PICK d : d = client'
  OBVIOUS
<1>2. SUFFICES PlayInv(d)
  BY <1>1 DEF IInv
<1>3. PlayInv(client)
  BY DEF IInv
<1>4. CASE LoadGame
  <2>1. PICK unlocks, lost : Step(ActivateGame(client, unlocks, lost))
    BY <1>4 DEF LoadGame
  <2>2. d = ActivateGame(client, unlocks, lost) /\ ~client.loaded
    BY <1>1, <1>4, <2>1 DEF LoadGame, Step
  <2> QED BY ONLY <1>3, <2>2, LoadKeeps
<1>5. CASE DoFrame
  BY <1>1, <1>5, DoFrameKeeps DEF IInv
<1>6. CASE Idle
  <2>1. PICK due \in SUBSET Waiting(client), elapsed \in {FALSE, client.timer} : Step(RunDue(client, due, elapsed))
    BY <1>6 DEF Idle
  <2>2. d = RunDue(client, due, elapsed) /\ Single(d) /\ due \subseteq Waiting(client)
    BY <1>1, <2>1 DEF Step, Bounded, Single
  <2> QED BY ONLY <1>3, <2>2, IdleKeeps
<1>7. CASE Reset
  <2>1. d = RaisePending(ResetAll(HideProgressTracker([client EXCEPT !.waiting = FALSE])), TRUE) /\ Single(d) /\ client.loaded
    BY <1>1, <1>7 DEF Reset, Step, Bounded, Single
  <2> QED BY ONLY <1>3, <2>1, ResetKeeps
<1>8. CASE Deserialize
  BY <1>1, <1>8, DeserializeStep DEF IInv
<1>9. CASE EnableHardcore
  <2>1. PICK on : on = [client EXCEPT !.hardcore = TRUE]
    OBVIOUS
  <2>2. (d = IF on.loaded THEN Hardcore(on) ELSE on) /\ ~client.hardcore
    BY <1>1, <1>9, <2>1 DEF EnableHardcore, Step
  <2> QED BY ONLY <1>3, <2>1, <2>2, EnableKeeps
<1>10. CASE DisableHardcore
  <2>1. PICK off : off = [client EXCEPT !.hardcore = FALSE]
    OBVIOUS
  <2>2. d = IF ~off.loaded THEN off ELSE RaisePending(DeactivateLeaderboards(ToggleAchievements(off, "softcore")), TRUE)
    BY <1>1, <1>10, <2>1 DEF DisableHardcore, Step
  <2>3. Single(d) /\ client.hardcore = TRUE
    BY <1>1, <1>3, <1>10 DEF DisableHardcore, Step, Bounded, Single, PlayInv
  <2> QED BY ONLY <1>3, <2>1, <2>2, <2>3, DisableKeeps
<1>11. CASE UnloadGame
  <2>1. d = Unloaded(RaisePending(MarkHidden(client), FALSE)) /\ Single(d) /\ client.loaded
    BY <1>1, <1>11 DEF UnloadGame, Step, Bounded, Single
  <2> QED BY ONLY <1>3, <2>1, UnloadKeeps
<1>12. CASE Respond
  <2>1. PICK r \in client.requests, answer \in {"ok", "last", "refused", "failed"} : ~r.waits /\ Step(IF answer = "failed" THEN Retry(client, r) ELSE Answered(client, r, answer))
    BY <1>12 DEF Respond
  <2>2. (d = Retry(client, r) \/ d = Answered(client, r, answer)) /\ Single(d)
    BY <1>1, <2>1 DEF Step, Bounded, Single
  <2> QED BY ONLY <1>3, r \in client.requests, <2>1, <2>2, RespondKeeps
<1>13. CASE UNCHANGED client
  BY <1>1, <1>3, <1>13
<1> QED BY <1>4, <1>5, <1>6, <1>7, <1>8, <1>9, <1>10, <1>11, <1>12, <1>13 DEF Next

(* Whatever is played, switched, restored and answered, the client, the    *)
(* screen and what the server owes keep to the invariant.                  *)
THEOREM Invariance == Spec => []IInv
<1>1. Init => IInv
  BY InitPlay DEF IInv
<1>2. IInv /\ [Next]_client => IInv'
  BY StepKeeps
<1> QED BY <1>1, <1>2, PTL DEF Spec

-----------------------------------------------------------------------------
(* What follows of every state.                                            *)

(* An index of the leaderboards, or of their trackers.                     *)
LEMMA Within == \A n \in Nat : \A m : (m \in 1..n => m \in 0..n) /\ 0 \in 0..n /\ (m \in Nat /\ m <= n => m \in 0..n)
  OBVIOUS

(* What is held, and as what, has its type: whatever is loaded and done    *)
(* with it, no tracker is held by more leaderboards than there are, and no *)
(* event is left pending when a call returns.                              *)
THEOREM TypeCorrect == Spec => []TypeOK
<1>1. ASSUME IInv
      PROVE  TypeOK
  <2>1. PICK c : c = client
    OBVIOUS
  <2>2. PlayInv(c)
    BY <1>1, <2>1 DEF IInv
  <2>3. c.title \in {Copied(d, u) : d \in Definitions, u \in BOOLEAN}
    BY <2>2 DEF PlayInv, Titles
  <2>4. \A i \in Ach(c) : LET a == c.ach[i]
        IN  /\ a.state \in {"inactive", "active", "unlocked", "disabled"} /\ a.pending = {}
            /\ a.trigger \in {"waiting", "active", "primed", "triggered", "disabled"}
            /\ a.measured \in Measures \cup {Unknown} /\ a.unlocked \subseteq {"softcore", "hardcore"}
            /\ a.carried \in {"none", "played", "restored"}
    <3> TAKE i \in Ach(c)
    <3>1. PICK a : a = c.ach[i]
      OBVIOUS
    <3>2. a \in AchievementType /\ a.pending = {}
      BY <2>2, <3>1 DEF PlayInv, Achievements, Quiet
    <3>3. /\ a.state \in {"inactive", "active", "unlocked", "disabled"}
          /\ a.trigger \in {"waiting", "active", "primed", "triggered", "disabled"}
          /\ a.measured \in Measures \cup {Unknown} /\ a.unlocked \subseteq {"softcore", "hardcore"}
          /\ a.carried \in {"none", "played", "restored"}
      BY ONLY <3>2 DEF AchievementType
    <3> QED BY <3>1, <3>2, <3>3
  <2>5. /\ \A j \in Lb(c) : LET l == c.lb[j]
           IN  /\ l.state \in {"inactive", "active", "tracking", "disabled"} /\ l.pending = {}
               /\ l.run \in {"waiting", "active", "started", "disabled"} /\ l.value \in 0..c.title.most
               /\ l.tracker \in 0..Len(c.trackers)
        /\ \A k \in DOMAIN c.trackers : c.trackers[k].refs \in 0..Len(c.lb) /\ c.trackers[k].pending = {}
    <3>1. CASE ~c.loaded
      <4>1. c.lb = <<>> /\ c.trackers = <<>>
        BY <2>2, <3>1 DEF PlayInv, Played, Empty
      <4>2. Lb(c) = {} /\ DOMAIN c.trackers = {}
        BY ONLY <4>1 DEF Lb
      <4> QED BY ONLY <4>2
    <3>2. CASE c.loaded
      <4>1. Boards(c) /\ Lists(c) /\ Quiet(c) /\ c.title.most \in Nat
        BY <2>2, <3>2, TitleFacts DEF PlayInv, Played, Boards, Trackers
      <4>2. Len(c.trackers) \in Nat /\ DOMAIN c.trackers = 1..Len(c.trackers) /\ Len(c.lb) \in Nat
        BY ONLY <4>1 DEF Lists, Length
      <4>3. ASSUME NEW j \in Lb(c)
            PROVE  LET l == c.lb[j]
                   IN  /\ l.state \in {"inactive", "active", "tracking", "disabled"} /\ l.pending = {}
                       /\ l.run \in {"waiting", "active", "started", "disabled"} /\ l.value \in 0..c.title.most
                       /\ l.tracker \in 0..Len(c.trackers)
        <5>1. PICK l : l = c.lb[j]
          OBVIOUS
        <5>2. /\ l \in LeaderboardType /\ l.pending = {} /\ l.value <= c.title.most
              /\ l.tracker # 0 => l.tracker \in DOMAIN c.trackers
          BY <4>1, <4>3, <5>1 DEF Lists, Quiet, Boards, Trackers, BoardAsPlayed, Belongs
        <5>3. /\ l.state \in {"inactive", "active", "tracking", "disabled"}
              /\ l.run \in {"waiting", "active", "started", "disabled"} /\ l.value \in Nat
          BY ONLY <5>2 DEF LeaderboardType
        <5>4. l.value \in 0..c.title.most /\ l.tracker \in 0..Len(c.trackers)
          BY <4>1, <4>2, <5>2, <5>3, Within
        <5> QED BY <5>1, <5>2, <5>3, <5>4
      <4>4. ASSUME NEW k \in DOMAIN c.trackers
            PROVE  c.trackers[k].refs \in 0..Len(c.lb) /\ c.trackers[k].pending = {}
        <5>1. c.trackers[k].refs = Cardinality(Holders(c, k)) /\ c.trackers[k].pending = {}
          BY <4>1, <4>4 DEF Boards, Trackers, Counted, Quiet
        <5>2. Cardinality(Holders(c, k)) \in Nat /\ Cardinality(Holders(c, k)) <= Len(c.lb)
          BY <4>1, HoldersFacts
        <5> QED BY ONLY <4>2, <5>1, <5>2, Within
      <4> QED BY <4>3, <4>4
    <3> QED BY <3>1, <3>2
  <2>6. /\ c.disconnect \in {"hidden", "show", "visible", "hide"} /\ c.action = "none"
        /\ \A r \in c.requests : r.what \in {"unlock", "submit"} /\ r.tries \in 0..2 /\ (r.waits => r.tries = 2)
    BY <2>2 DEF PlayInv, Server, IsRequest, Quiet
  <2> QED BY <2>1, <2>3, <2>4, <2>5, <2>6 DEF TypeOK
<1> QED BY Invariance, <1>1, PTL

(* What the player sees is what the client tracks: the primed challenges,  *)
(* the popup while its timer runs, and for every attempt under way its     *)
(* tracker with its value; nothing of a game that is unloaded.  So for any *)
(* games, and however many leaderboards share, leave and meet again at a   *)
(* tracker, in one frame or through resets, save states and modes.         *)
THEOREM ScreenFollows == Spec => []OnScreen
<1>1. ASSUME IInv, ~client.odd
      PROVE  /\ client.ui.challenges = Primed(client)
             /\ client.ui.progress = client.timer
             /\ \A j \in Lb(client) : LET l == client.lb[j]
                  IN  /\ l.state = "tracking" <=> l.tracker # 0
                      /\ l.tracker # 0 => client.ui.trackers[l.tracker] = l.value
             /\ \A k \in DOMAIN client.ui.trackers :
                  LET holders == {j \in Lb(client) : client.lb[j].tracker = k}
                  IN  /\ k \in DOMAIN client.trackers => client.trackers[k].refs = Cardinality(holders)
                      /\ client.ui.trackers[k] # None <=> holders # {}
  <2> DEFINE c == client
  <2>2. PlayInv(c) /\ ~c.odd
    BY <1>1 DEF IInv
  <2> HIDE DEF c
  <2>3. c.ui.challenges = Primed(c)
    <3>1. Raised(c, "show") = {} /\ Raised(c, "hide") = {}
      BY <2>2 DEF PlayInv, Quiet, Raised
    <3>2. (c.ui.challenges \cup Raised(c, "show")) \ Raised(c, "hide") = Primed(c)
      BY <2>2 DEF PlayInv, Achievements, Challenges
    <3> QED BY ONLY <3>1, <3>2
  <2>4. c.ui.progress = c.timer
    BY <2>2 DEF PlayInv, Quiet, Popup
  <2>5. /\ \A j \in Lb(c) : LET l == c.lb[j]
           IN  /\ l.state = "tracking" <=> l.tracker # 0
               /\ l.tracker # 0 => c.ui.trackers[l.tracker] = l.value
        /\ \A k \in DOMAIN c.ui.trackers :
             /\ k \in DOMAIN c.trackers => c.trackers[k].refs = Cardinality(Holders(c, k))
             /\ c.ui.trackers[k] # None <=> Holders(c, k) # {}
    <3>1. CASE ~c.loaded
      <4>1. c.lb = <<>> /\ c.trackers = <<>> /\ \A k \in DOMAIN c.ui.trackers : c.ui.trackers[k] = None
        BY <2>2, <3>1 DEF PlayInv, Played, Empty
      <4>2. Lb(c) = {} /\ DOMAIN c.trackers = {}
        BY ONLY <4>1 DEF Lb
      <4>3. \A k : Holders(c, k) = {}
        BY ONLY <4>2 DEF Holders
      <4> QED BY ONLY <4>1, <4>2, <4>3
    <3>2. CASE c.loaded
      <4>1. Boards(c) /\ Lists(c) /\ Quiet(c)
        BY <2>2, <3>2 DEF PlayInv, Played, Boards, Trackers
      <4>2. DOMAIN c.ui.trackers = DOMAIN c.trackers
        BY ONLY <4>1 DEF Lists, Length
      <4>3. ASSUME NEW k \in DOMAIN c.trackers
            PROVE  /\ c.trackers[k].refs = Cardinality(Holders(c, k)) /\ c.trackers[k].raw \in Nat
                   /\ Holders(c, k) # {} => c.ui.trackers[k] = c.trackers[k].raw
                   /\ Holders(c, k) = {} => c.ui.trackers[k] = None
        <5>1. /\ c.trackers[k].refs = Cardinality(Holders(c, k)) /\ c.trackers[k].pending = {} /\ WillShow(c, k)
              /\ c.trackers[k].raw \in Nat
          BY <4>1, <4>3 DEF Boards, Trackers, Counted, Quiet, Lists, IsTracker
        <5>2. Cardinality(Holders(c, k)) = 0 <=> Holders(c, k) = {}
          BY <4>1, HoldersFacts
        <5> QED BY ONLY <5>1, <5>2 DEF WillShow
      <4>4. ASSUME NEW j \in Lb(c)
            PROVE  LET l == c.lb[j]
                   IN  /\ l.state = "tracking" <=> l.tracker # 0
                       /\ l.tracker # 0 => c.ui.trackers[l.tracker] = l.value
        <5>1. PICK l : l = c.lb[j]
          OBVIOUS
        <5>2. l \in LeaderboardType /\ BoardAsPlayed(c, j) /\ Belongs(c, j) /\ SameValue(c, j)
          BY <2>2, <4>1, <4>4, <5>1 DEF Boards, Trackers, Lists
        <5>3. l.state \in {"inactive", "active", "tracking", "disabled"}
          BY ONLY <5>2 DEF LeaderboardType
        <5>4. l.state = "tracking" <=> l.tracker # 0
          BY <2>2, <5>1, <5>2, <5>3 DEF BoardAsPlayed
        <5>5. ASSUME l.tracker # 0
              PROVE  c.ui.trackers[l.tracker] = l.value
          <6>1. l.tracker \in DOMAIN c.trackers /\ c.trackers[l.tracker].raw = l.value
            BY <5>1, <5>2, <5>5 DEF Belongs, SameValue
          <6>2. j \in Holders(c, l.tracker)
            BY <4>4, <5>1 DEF Holders
          <6> QED BY <4>3, <6>1, <6>2
        <5> QED BY <5>1, <5>4, <5>5
      <4>5. \A k \in DOMAIN c.trackers : c.ui.trackers[k] # None <=> Holders(c, k) # {}
        BY <4>3, PlayAssumption
      <4> QED BY ONLY <4>2, <4>3, <4>4, <4>5
    <3> QED BY <3>1, <3>2
  <2>6. /\ \A j \in Lb(c) : LET l == c.lb[j]
           IN  /\ l.state = "tracking" <=> l.tracker # 0
               /\ l.tracker # 0 => c.ui.trackers[l.tracker] = l.value
        /\ \A k \in DOMAIN c.ui.trackers :
             LET holders == {j \in Lb(c) : c.lb[j].tracker = k}
             IN  /\ k \in DOMAIN c.trackers => c.trackers[k].refs = Cardinality(holders)
                 /\ c.ui.trackers[k] # None <=> holders # {}
    BY ONLY <2>5 DEF Holders
  <2> QED BY ONLY <2>3, <2>4, <2>6 DEF c
<1>2. IInv => OnScreen
  BY <1>1 DEF OnScreen
<1> QED BY Invariance, <1>2, PTL

(* What is active is what the mode says, and what the runtime lists,       *)
(* whatever is loaded, switched, won and lost.                             *)
THEOREM ActiveFollowsMode == Spec => []ActiveAsPlayed
<1>1. IInv => ActiveAsPlayed
  BY DEF IInv, PlayInv, Achievements, AsPlayed, Played, Boards, BoardAsPlayed, ActiveAsPlayed
<1> QED BY Invariance, <1>1, PTL

(* The server is asked until it answers, and the player knows while it     *)
(* does not: for any number of requests and any order of their answers.    *)
THEOREM ServerIsAsked == Spec => []DisconnectFollows
<1>1. IInv => DisconnectFollows
  BY DEF IInv, PlayInv, Server, DisconnectFollows
<1> QED BY Invariance, <1>1, PTL

(* Nothing is won in hardcore by what was seen in softcore frames; what a  *)
(* save state brings along is another matter.                              *)
THEOREM NothingIsCarriedOver == Spec => []HardcoreStartsClean
<1>1. IInv => HardcoreStartsClean
  BY DEF IInv, PlayInv, Achievements, Clean, HardcoreStartsClean
<1> QED BY Invariance, <1>1, PTL

-----------------------------------------------------------------------------
(* The lists.                                                              *)

(* What is named by the elements of a finite set is no more than these. *)
LEMMA NoMore ==
  ASSUME NEW S, IsFiniteSet(S), NEW T, NEW f, \A t \in T : \E s \in S : f[s] = t
  PROVE  IsFiniteSet(T) /\ Cardinality(T) <= Cardinality(S)
<1> DEFINE R == {s \in S : f[s] \in T}
           g == [s \in R |-> f[s]]
<1>1. IsFiniteSet(R) /\ Cardinality(R) <= Cardinality(S)
  BY FS_Subset
<1>2. g \in Surjection(R, T)
  BY DEF Surjection
<1>3. IsFiniteSet(T) /\ Cardinality(T) <= Cardinality(R)
  BY <1>1, <1>2, FS_Surjection
<1>4. Cardinality(R) \in Nat /\ Cardinality(S) \in Nat /\ Cardinality(T) \in Nat
  BY <1>1, <1>3, FS_CardinalityType
<1> QED BY <1>1, <1>3, <1>4

(* A set with two elements has more than one. *)
LEMMA NotAlone ==
  ASSUME NEW S, IsFiniteSet(S), ~(Cardinality(S) > 1), NEW a \in S, NEW b \in S
  PROVE  a = b
<1> SUFFICES ASSUME a # b PROVE FALSE
  OBVIOUS
<1>1. IsFiniteSet({a}) /\ Cardinality({a}) = 1
  BY FS_Singleton
<1>2. IsFiniteSet({a} \cup {b}) /\ Cardinality({a} \cup {b}) = 2
  <2>1. PICK T : T = {a}
    OBVIOUS
  <2>2. b \notin T /\ IsFiniteSet(T) /\ Cardinality(T) = 1
    BY <1>1, <2>1
  <2>3. IsFiniteSet(T \cup {b}) /\ Cardinality(T \cup {b}) = IF b \in T THEN Cardinality(T) ELSE Cardinality(T) + 1
    BY ONLY <2>2, FS_AddElement
  <2> QED BY ONLY <2>1, <2>2, <2>3
<1>3. Cardinality({a} \cup {b}) <= Cardinality(S)
  BY FS_Subset
<1>4. Cardinality(S) \in Nat
  BY FS_CardinalityType
<1> QED BY <1>2, <1>3, <1>4

(* What is listed: finitely many entries, each of a subset of the game and *)
(* in a bucket of the whole game or of its subset.                         *)
Listable(c, entries, subset, bucket, shared, split) ==
  /\ IsFiniteSet(entries) /\ IsFiniteSet(Subsets(c))
  /\ \A e \in entries : subset[e] \in Subsets(c) /\ bucket[e] \in shared \cup split
  /\ shared \cap split = {}

(* The buckets an entry may be in. *)
Of(entries, bucket, t) == {e \in entries : bucket[e] = t}
OfSubset(entries, subset, bucket, s, t) == {e \in entries : bucket[e] = t /\ subset[e] = s}

(* The buckets are those of each type there is of the whole game, and of   *)
(* each subset.                                                            *)
Whole(entries, bucket, t) == Bucket(TRUE, 0, t, Of(entries, bucket, t))
Part(entries, subset, bucket, s, t) == Bucket(FALSE, s, t, OfSubset(entries, subset, bucket, s, t))
Composed(c, entries, subset, bucket, shared, split, B) ==
  /\ \A b \in B : \/ \E t \in shared : b = Whole(entries, bucket, t) /\ Of(entries, bucket, t) # {}
                  \/ \E s \in Subsets(c), t \in split : /\ b = Part(entries, subset, bucket, s, t)
                                                        /\ OfSubset(entries, subset, bucket, s, t) # {}
  /\ \A t \in shared : Of(entries, bucket, t) # {} => Whole(entries, bucket, t) \in B
  /\ \A s \in Subsets(c), t \in split : OfSubset(entries, subset, bucket, s, t) # {} => Part(entries, subset, bucket, s, t) \in B

(* What the code makes of them is that. *)
LEMMA BucketsFacts ==
  ASSUME NEW c, NEW entries, NEW subset, NEW bucket, NEW shared, NEW split, NEW B,
         B = Buckets(c, entries, subset, bucket, shared, split)
  PROVE  Composed(c, entries, subset, bucket, shared, split, B)
<1> DEFINE S == Subsets(c)
           of(t) == {e \in entries : bucket[e] = t}
           P == {x \in S \X split : \E e \in of(x[2]) : subset[e] = x[1]}
           whole == {Bucket(TRUE, 0, t, of(t)) : t \in {t \in shared : of(t) # {}}}
           parts == {Bucket(FALSE, x[1], x[2], {e \in of(x[2]) : subset[e] = x[1]}) : x \in P}
<1>1. B = whole \cup parts
  BY DEF Buckets
<1>2. \A t : of(t) = Of(entries, bucket, t)
  BY DEF Of
<1>3. \A s, t : {e \in of(t) : subset[e] = s} = OfSubset(entries, subset, bucket, s, t)
  BY DEF OfSubset
<1>4. \A b \in parts : \E s \in S, t \in split : /\ b = Bucket(FALSE, s, t, OfSubset(entries, subset, bucket, s, t))
                                                 /\ OfSubset(entries, subset, bucket, s, t) # {}
  <2> TAKE b \in parts
  <2>1. PICK x \in P : b = Bucket(FALSE, x[1], x[2], {e \in of(x[2]) : subset[e] = x[1]})
    OBVIOUS
  <2>2. x[1] \in S /\ x[2] \in split /\ {e \in of(x[2]) : subset[e] = x[1]} # {}
    OBVIOUS
  <2>3. PICK s, t : s = x[1] /\ t = x[2]
    OBVIOUS
  <2>4. {e \in of(x[2]) : subset[e] = x[1]} = OfSubset(entries, subset, bucket, s, t)
    BY <2>3 DEF OfSubset
  <2> HIDE DEF P, of, parts, S
  <2>5. b = Bucket(FALSE, s, t, OfSubset(entries, subset, bucket, s, t))
    BY <2>1, <2>3, <2>4
  <2> QED BY <2>2, <2>3, <2>4, <2>5
<1>5. \A s \in S, t \in split :
        OfSubset(entries, subset, bucket, s, t) # {} => Bucket(FALSE, s, t, OfSubset(entries, subset, bucket, s, t)) \in parts
  <2> TAKE s \in S, t \in split
  <2> HAVE OfSubset(entries, subset, bucket, s, t) # {}
  <2>1. PICK x : x = <<s, t>>
    OBVIOUS
  <2>2. x[1] = s /\ x[2] = t /\ x \in P
    BY <1>3, <2>1
  <2>3. Bucket(FALSE, x[1], x[2], {e \in of(x[2]) : subset[e] = x[1]}) \in parts
    BY <2>2
  <2> HIDE DEF P, of, parts, S
  <2> QED BY <1>3, <2>2, <2>3
<1>6. \A b \in whole : \E t \in shared : b = Bucket(TRUE, 0, t, of(t)) /\ of(t) # {}
  OBVIOUS
<1>7. \A t \in shared : of(t) # {} => Bucket(TRUE, 0, t, of(t)) \in whole
  OBVIOUS
<1> HIDE DEF P, of, parts, whole, S
<1>8. \A t : Whole(entries, bucket, t) = Bucket(TRUE, 0, t, of(t))
  BY <1>2 DEF Whole
<1>9. \A b \in B : \/ \E t \in shared : b = Whole(entries, bucket, t) /\ Of(entries, bucket, t) # {}
                   \/ \E s \in S, t \in split : /\ b = Part(entries, subset, bucket, s, t)
                                               /\ OfSubset(entries, subset, bucket, s, t) # {}
  <2> TAKE b \in B
  <2>1. CASE b \in whole
    BY <1>2, <1>6, <1>8, <2>1
  <2>2. CASE b \in parts
    BY <1>4, <2>2 DEF Part
  <2> QED BY <1>1, <2>1, <2>2
<1>10. \A t \in shared : Of(entries, bucket, t) # {} => Whole(entries, bucket, t) \in B
  BY <1>1, <1>2, <1>7, <1>8
<1>11. \A s \in S, t \in split : OfSubset(entries, subset, bucket, s, t) # {} => Part(entries, subset, bucket, s, t) \in B
  BY <1>1, <1>5 DEF Part
<1> QED BY <1>9, <1>10, <1>11 DEF S, Composed

(* Each entry is in one bucket, and nothing else is in any. *)
Once(entries, B) ==
  /\ \A e \in entries : Cardinality({b \in B : e \in b.of}) = 1
  /\ \A e : e \notin entries => Cardinality({b \in B : e \in b.of}) = 0
LEMMA ListedOnce ==
  ASSUME NEW c, NEW entries, NEW subset, NEW bucket, NEW shared, NEW split, Listable(c, entries, subset, bucket, shared, split),
         NEW B, B = Buckets(c, entries, subset, bucket, shared, split)
  PROVE  Once(entries, B)
<1>1. Composed(c, entries, subset, bucket, shared, split, B)
  BY BucketsFacts
<1>2. /\ \A t : Whole(entries, bucket, t).of = Of(entries, bucket, t)
      /\ \A s, t : Part(entries, subset, bucket, s, t).of = OfSubset(entries, subset, bucket, s, t)
  BY DEF Whole, Part, Bucket
<1>3. ASSUME NEW e \in entries
      PROVE  \E own : {b \in B : e \in b.of} = {own}
  <2>1. subset[e] \in Subsets(c) /\ bucket[e] \in shared \cup split /\ shared \cap split = {}
    BY DEF Listable
  <2>2. PICK s, t : s = subset[e] /\ t = bucket[e]
    OBVIOUS
  <2>3. \A k : e \in Of(entries, bucket, k) <=> k = t
    BY <2>2 DEF Of
  <2>4. \A r, k : e \in OfSubset(entries, subset, bucket, r, k) <=> r = s /\ k = t
    BY <2>2 DEF OfSubset
  <2>5. CASE t \in shared
    <3>1. PICK own : own = Whole(entries, bucket, t)
      OBVIOUS
    <3>2. own \in B /\ e \in own.of
      BY <1>1, <1>2, <2>3, <2>5, <3>1 DEF Composed
    <3>3. ASSUME NEW b \in B, e \in b.of
          PROVE  b = own
      <4>1. CASE \E k \in shared : b = Whole(entries, bucket, k)
        BY <1>2, <2>3, <3>1, <3>3, <4>1
      <4>2. CASE \E r \in Subsets(c), k \in split : b = Part(entries, subset, bucket, r, k)
        BY <1>2, <2>1, <2>2, <2>4, <2>5, <3>3, <4>2
      <4> QED BY <1>1, <4>1, <4>2 DEF Composed
    <3> QED BY <3>2, <3>3
  <2>6. CASE t \in split
    <3>1. PICK own : own = Part(entries, subset, bucket, s, t)
      OBVIOUS
    <3>2. own \in B /\ e \in own.of
      BY <1>1, <1>2, <2>1, <2>2, <2>4, <2>6, <3>1 DEF Composed
    <3>3. ASSUME NEW b \in B, e \in b.of
          PROVE  b = own
      <4>1. CASE \E k \in shared : b = Whole(entries, bucket, k)
        BY <1>2, <2>1, <2>2, <2>3, <2>6, <3>3, <4>1
      <4>2. CASE \E r \in Subsets(c), k \in split : b = Part(entries, subset, bucket, r, k)
        BY <1>2, <2>4, <3>1, <3>3, <4>2
      <4> QED BY <1>1, <4>1, <4>2 DEF Composed
    <3> QED BY <3>2, <3>3
  <2> QED BY <2>1, <2>2, <2>5, <2>6
<1>4. ASSUME NEW e, e \notin entries
      PROVE  {b \in B : e \in b.of} = {}
  <2>1. \A s, t : e \notin Of(entries, bucket, t) /\ e \notin OfSubset(entries, subset, bucket, s, t)
    BY <1>4 DEF Of, OfSubset
  <2> QED BY <1>1, <1>2, <2>1 DEF Composed
<1>5. \A S : (\E own : S = {own}) => Cardinality(S) = 1
  BY FS_Singleton
<1> QED BY <1>3, <1>4, <1>5, FS_EmptySet DEF Once

(* There is room for the buckets: a subset's own are split where there are *)
(* several subsets, and where there is one each type has one bucket.       *)
LEMMA RoomForAll ==
  ASSUME NEW c, NEW entries, NEW subset, NEW bucket, NEW shared, NEW split, Listable(c, entries, subset, bucket, shared, split),
         NEW B, B = Buckets(c, entries, subset, bucket, shared, split)
  PROVE  Cardinality(B) <= BucketsCounted(c, entries, subset, bucket, split)
<1> DEFINE types == {bucket[e] : e \in entries}
<1>1. IsFiniteSet(types)
  <2> DEFINE f == [e \in entries |-> bucket[e]]
  <2>1. \A t \in types : \E e \in entries : f[e] = t
    OBVIOUS
  <2> HIDE DEF types, f
  <2> QED BY <2>1, NoMore DEF Listable
<1>2. /\ \A b \in B : \/ \E t \in shared : b = Whole(entries, bucket, t) /\ t \in types
                      \/ \E s \in Subsets(c), t \in split :
                           /\ b = Part(entries, subset, bucket, s, t)
                           /\ \E e \in entries : bucket[e] = t /\ subset[e] = s
  <2>1. \A t : Of(entries, bucket, t) # {} => t \in types
    BY DEF Of
  <2>2. \A s, t : OfSubset(entries, subset, bucket, s, t) # {} => \E e \in entries : bucket[e] = t /\ subset[e] = s
    BY DEF OfSubset
  <2>3. Composed(c, entries, subset, bucket, shared, split, B)
    BY BucketsFacts
  <2> HIDE DEF types
  <2> QED BY <2>1, <2>2, <2>3 DEF Composed
<1>3. CASE Cardinality(Subsets(c)) > 1
  <2> DEFINE splits == types \cap split
             Q == {<<subset[e], bucket[e]>> : e \in {e \in entries : bucket[e] \in splits}}
             whole == {b \in B : \E t \in shared : b = Whole(entries, bucket, t) /\ t \in types}
             parts == B \ whole
  <2>1. BucketsCounted(c, entries, subset, bucket, split) = Cardinality(types \ splits) + Cardinality(Q)
    BY <1>3 DEF BucketsCounted
  <2>2. IsFiniteSet(types \ splits)
    BY <1>1, FS_Subset
  <2>3. IsFiniteSet(Q)
    <3> DEFINE f == [e \in entries |-> <<subset[e], bucket[e]>>]
    <3>1. \A q \in Q : \E e \in entries : f[e] = q
      OBVIOUS
    <3> HIDE DEF Q, f
    <3> QED BY <3>1, NoMore DEF Listable
  <2>4. IsFiniteSet(whole) /\ Cardinality(whole) <= Cardinality(types \ splits)
    <3> DEFINE f == [t \in types |-> Whole(entries, bucket, t)]
    <3>1. \A b \in whole : \E t \in types \ splits : f[t] = b
      BY DEF Listable
    <3> HIDE DEF whole, types, splits, f
    <3> QED BY <2>2, <3>1, NoMore
  <2>5. IsFiniteSet(parts) /\ Cardinality(parts) <= Cardinality(Q)
    <3> DEFINE f == [q \in Q |-> Part(entries, subset, bucket, q[1], q[2])]
    <3>1. ASSUME NEW b \in parts
          PROVE  \E q \in Q : f[q] = b
      <4>1. PICK s \in Subsets(c), t \in split : /\ b = Part(entries, subset, bucket, s, t)
                                                 /\ \E e \in entries : bucket[e] = t /\ subset[e] = s
        BY <1>2
      <4>2. PICK e \in entries : bucket[e] = t /\ subset[e] = s
        BY <4>1
      <4>3. PICK q : q = <<subset[e], bucket[e]>>
        OBVIOUS
      <4>4. q \in Q /\ q[1] = s /\ q[2] = t
        BY <4>2, <4>3
      <4>5. f[q] = Part(entries, subset, bucket, q[1], q[2])
        BY <4>4
      <4> HIDE DEF f, Q
      <4> QED BY <4>1, <4>4, <4>5
    <3> HIDE DEF parts, Q, f
    <3> QED BY <2>3, <3>1, NoMore
  <2>6. B = whole \cup parts /\ whole \cap parts = {}
    OBVIOUS
  <2> HIDE DEF whole, parts, Q, splits, types
  <2>7. Cardinality(B) = Cardinality(whole) + Cardinality(parts) - Cardinality(whole \cap parts)
    BY <2>4, <2>5, <2>6, FS_Union
  <2>8. Cardinality(whole \cap parts) = 0
    BY <2>6, FS_EmptySet
  <2>9. /\ Cardinality(whole) \in Nat /\ Cardinality(parts) \in Nat /\ Cardinality(Q) \in Nat
        /\ Cardinality(types \ splits) \in Nat
    BY <2>2, <2>3, <2>4, <2>5, FS_CardinalityType
  <2> QED BY ONLY <2>1, <2>4, <2>5, <2>7, <2>8, <2>9
<1>4. CASE ~(Cardinality(Subsets(c)) > 1)
  <2>1. BucketsCounted(c, entries, subset, bucket, split) = Cardinality(types)
    <3>1. BucketsCounted(c, entries, subset, bucket, split)
            = Cardinality(types \ {}) + Cardinality({<<subset[e], bucket[e]>> : e \in {e \in entries : bucket[e] \in {}}})
      BY <1>4 DEF BucketsCounted
    <3>2. {<<subset[e], bucket[e]>> : e \in {e \in entries : bucket[e] \in {}}} = {} /\ types \ {} = types
      OBVIOUS
    <3>3. Cardinality(types) \in Nat
      BY <1>1, FS_CardinalityType
    <3> HIDE DEF types
    <3> QED BY <3>1, <3>2, <3>3, FS_EmptySet
  <2> DEFINE only == CHOOSE s \in Subsets(c) : TRUE
             f == [t \in types |-> IF t \in shared THEN Whole(entries, bucket, t)
                                   ELSE Part(entries, subset, bucket, only, t)]
  <2>2. \A s \in Subsets(c) : s = only
    BY <1>4, NotAlone DEF Listable
  <2>3. ASSUME NEW b \in B
        PROVE  \E t \in types : f[t] = b
    <3>1. CASE \E t \in shared : b = Whole(entries, bucket, t) /\ t \in types
      BY <3>1
    <3>2. CASE \E s \in Subsets(c), t \in split : /\ b = Part(entries, subset, bucket, s, t)
                                                  /\ \E e \in entries : bucket[e] = t /\ subset[e] = s
      <4>1. PICK s \in Subsets(c), t \in split : /\ b = Part(entries, subset, bucket, s, t)
                                                 /\ \E e \in entries : bucket[e] = t /\ subset[e] = s
        BY <3>2
      <4>2. t \in types /\ t \notin shared /\ s = only
        BY <2>2, <4>1 DEF Listable
      <4> HIDE DEF only
      <4>3. f[t] = Part(entries, subset, bucket, only, t)
        BY <4>2
      <4> QED BY <4>1, <4>2, <4>3
    <3> QED BY <1>2, <3>1, <3>2
  <2> HIDE DEF f, types
  <2>4. Cardinality(B) <= Cardinality(types)
    BY <1>1, <2>3, NoMore
  <2> QED BY <2>1, <2>4
<1> QED BY <1>3, <1>4

(* The subsets of a game are finitely many. *)
LEMMA SubsetsFacts ==
  ASSUME NEW c, c.title \in Titles
  PROVE  /\ IsFiniteSet(DOMAIN c.title.ach) /\ IsFiniteSet(DOMAIN c.title.lb) /\ IsFiniteSet(Subsets(c))
         /\ \A i \in DOMAIN c.title.ach : c.title.ach[i].subset \in Subsets(c)
         /\ \A j \in DOMAIN c.title.lb : c.title.lb[j].subset \in Subsets(c)
<1>1. PICK definition \in Definitions, unofficial \in BOOLEAN : c.title = Copied(definition, unofficial)
  BY DEF Titles
<1>2. PICK t : t = c.title
  OBVIOUS
<1>3. IsFiniteSet(DOMAIN t.ach)
  <2>1. DOMAIN t.ach \in SUBSET DOMAIN definition.ach
    BY <1>1, <1>2 DEF Copied
  <2>2. IsFiniteSet(DOMAIN definition.ach)
    BY PlayAssumption
  <2> QED BY <2>1, <2>2, FS_Subset
<1>4. IsFiniteSet(DOMAIN t.lb)
  <2>1. Len(t.lb) \in Nat /\ DOMAIN t.lb = 1..Len(t.lb)
    BY <1>2, TitleFacts
  <2>2. PICK n \in Nat : n = Len(t.lb)
    BY <2>1
  <2>3. 1 \in Int /\ n \in Int
    OBVIOUS
  <2>4. IsFiniteSet(1..n)
    BY ONLY <2>3, FS_Interval
  <2> QED BY <2>1, <2>2, <2>4
<1> DEFINE A == {t.ach[i].subset : i \in DOMAIN t.ach}
           L == {t.lb[j].subset : j \in DOMAIN t.lb}
<1>5. IsFiniteSet(A)
  <2> DEFINE f == [i \in DOMAIN t.ach |-> t.ach[i].subset]
  <2>1. \A s \in A : \E i \in DOMAIN t.ach : f[i] = s
    OBVIOUS
  <2> HIDE DEF A, f
  <2> QED BY <1>3, <2>1, NoMore
<1>6. IsFiniteSet(L)
  <2> DEFINE f == [j \in DOMAIN t.lb |-> t.lb[j].subset]
  <2>1. \A s \in L : \E j \in DOMAIN t.lb : f[j] = s
    OBVIOUS
  <2> HIDE DEF L, f
  <2> QED BY <1>4, <2>1, NoMore
<1>7. Subsets(c) = A \cup L
  BY <1>2 DEF Subsets
<1>8. IsFiniteSet(A \cup L)
  BY <1>5, <1>6, FS_Union
<1>9. (\A i \in DOMAIN t.ach : t.ach[i].subset \in A) /\ \A j \in DOMAIN t.lb : t.lb[j].subset \in L
  OBVIOUS
<1> HIDE DEF A, L
<1> QED BY <1>2, <1>3, <1>4, <1>7, <1>8, <1>9

(* The bucket of an achievement: unlocked, when grouped by that, if and    *)
(* only if it is.                                                          *)
LEMMA MappedBucket ==
  ASSUME NEW c, NEW i, NEW recent, NEW almost, NEW b, b = MapBucket(DisplayBucket(c, i, recent, almost), "lock state")
  PROVE  b \in SubsetBuckets /\ (b = "unlocked" <=> c.ach[i].state = "unlocked")
<1>1. PICK shown : shown = DisplayBucket(c, i, recent, almost)
  OBVIOUS
<1>2. /\ shown \in {"unsupported", "recent", "unsynced", "unlocked", "challenge", "almost", "locked", "unofficial"}
      /\ shown \in {"recent", "unsynced", "unlocked"} <=> c.ach[i].state = "unlocked"
  BY <1>1 DEF DisplayBucket
<1> QED BY <1>1, <1>2 DEF MapBucket, SubsetBuckets

(* And in any grouping it is one of those there are. *)
LEMMA ShownBucket ==
  ASSUME NEW c, NEW i, NEW recent, NEW almost, NEW b, b = MapBucket(DisplayBucket(c, i, recent, almost), "progress")
  PROVE  b \in SharedBuckets \cup SubsetBuckets
<1>1. PICK shown : shown = DisplayBucket(c, i, recent, almost)
  OBVIOUS
<1>2. shown \in {"unsupported", "recent", "unsynced", "unlocked", "challenge", "almost", "locked", "unofficial"}
  BY <1>1 DEF DisplayBucket
<1>3. b = shown
  BY <1>1 DEF MapBucket
<1> QED BY <1>2, <1>3 DEF SharedBuckets, SubsetBuckets

(* The entries of the unlocked buckets are those in an unlocked bucket.    *)
LEMMA UnlockedListed ==
  ASSUME NEW c, NEW entries, NEW subset, NEW bucket, Listable(c, entries, subset, bucket, {}, SubsetBuckets),
         NEW B, B = Buckets(c, entries, subset, bucket, {}, SubsetBuckets)
  PROVE  UNION {b.of : b \in {b \in B : b.type = "unlocked"}} = Of(entries, bucket, "unlocked")
<1>1. Composed(c, entries, subset, bucket, {}, SubsetBuckets, B)
  BY BucketsFacts
<1>2. \A s, t : Part(entries, subset, bucket, s, t).of = OfSubset(entries, subset, bucket, s, t)
                /\ Part(entries, subset, bucket, s, t).type = t
  BY DEF Part, Bucket
<1>3. ASSUME NEW b \in B, b.type = "unlocked"
      PROVE  b.of \subseteq Of(entries, bucket, "unlocked")
  <2>1. PICK s \in Subsets(c), t \in SubsetBuckets : b = Part(entries, subset, bucket, s, t)
    BY <1>1 DEF Composed
  <2>2. t = "unlocked" /\ b.of = OfSubset(entries, subset, bucket, s, t)
    BY <1>2, <1>3, <2>1
  <2> QED BY <2>2 DEF Of, OfSubset
<1>4. ASSUME NEW e \in Of(entries, bucket, "unlocked")
      PROVE  \E b \in B : b.type = "unlocked" /\ e \in b.of
  <2>1. PICK s \in Subsets(c) : s = subset[e]
    BY DEF Of, Listable
  <2>2. e \in OfSubset(entries, subset, bucket, s, "unlocked") /\ "unlocked" \in SubsetBuckets
    BY <2>1 DEF Of, OfSubset, SubsetBuckets
  <2>3. PICK b : b = Part(entries, subset, bucket, s, "unlocked")
    OBVIOUS
  <2>4. b \in B
    BY <1>1, <2>2, <2>3 DEF Composed
  <2> QED BY <1>2, <2>2, <2>3, <2>4
<1> QED BY <1>3, <1>4

(* The list of the achievements. *)
AllListed(c, list, categories) ==
  /\ \A i \in Ach(c) : Cardinality({b \in list.buckets : i \in b.of}) = IF i \in Listed(c, categories) THEN 1 ELSE 0
  /\ Cardinality(list.buckets) <= list.room
LEMMA AchievementsListed ==
  ASSUME NEW c, c.title \in Titles, Ach(c) = DOMAIN c.title.ach, NEW categories, NEW grouping \in {"progress", "lock state"},
         NEW recent, NEW almost, NEW list, list = AchievementList(c, categories, grouping, recent, almost)
  PROVE  AllListed(c, list, categories)
<1> DEFINE subset == [i \in Ach(c) |-> c.title.ach[i].subset]
           bucket == [i \in Ach(c) |-> MapBucket(DisplayBucket(c, i, recent, almost), grouping)]
           shared == IF grouping = "progress" THEN SharedBuckets ELSE {}
           entries == Listed(c, categories)
<1>1. list = [buckets |-> Buckets(c, entries, subset, bucket, shared, SubsetBuckets),
              room |-> BucketsCounted(c, entries, subset, bucket, SubsetBuckets)]
  BY DEF AchievementList
<1>2. entries \in SUBSET Ach(c)
  BY DEF Listed
<1>3. Listable(c, entries, subset, bucket, shared, SubsetBuckets)
  <2>1. IsFiniteSet(entries) /\ IsFiniteSet(Subsets(c))
    BY <1>2, SubsetsFacts, FS_Subset
  <2>2. \A i \in Ach(c) : subset[i] \in Subsets(c)
    BY SubsetsFacts
  <2>3. ASSUME NEW i \in Ach(c)
        PROVE  bucket[i] \in shared \cup SubsetBuckets
    <3>1. PICK b : b = MapBucket(DisplayBucket(c, i, recent, almost), grouping)
      OBVIOUS
    <3>2. CASE grouping = "progress"
      BY <3>1, <3>2, ShownBucket
    <3>3. CASE grouping = "lock state"
      BY <3>1, <3>3, MappedBucket
    <3> QED BY <3>2, <3>3
  <2>4. shared \cap SubsetBuckets = {}
    BY DEF SharedBuckets, SubsetBuckets
  <2> HIDE DEF entries, subset, bucket, shared
  <2> QED BY <1>2, <2>1, <2>2, <2>3, <2>4 DEF Listable
<1> HIDE DEF entries, subset, bucket, shared
<1>4. PICK B : B = Buckets(c, entries, subset, bucket, shared, SubsetBuckets)
  OBVIOUS
<1>5. list.buckets = B /\ list.room = BucketsCounted(c, entries, subset, bucket, SubsetBuckets)
  BY ONLY <1>1, <1>4
<1>6. Once(entries, B)
  BY ONLY <1>3, <1>4, ListedOnce
<1>7. Cardinality(B) <= BucketsCounted(c, entries, subset, bucket, SubsetBuckets)
  BY ONLY <1>3, <1>4, RoomForAll
<1> QED BY <1>5, <1>6, <1>7 DEF AllListed, Once, entries

(* The list of the leaderboards. *)
LEMMA LeaderboardsListed ==
  ASSUME NEW c, c.title \in Titles, Lb(c) = DOMAIN c.title.lb, NEW grouping \in {"none", "tracking"},
         NEW list, list = LeaderboardList(c, grouping)
  PROVE  /\ \A j \in Lb(c) : Cardinality({b \in list.buckets : j \in b.of}) = IF c.title.lb[j].hidden THEN 0 ELSE 1
         /\ Cardinality(list.buckets) <= list.room
<1> DEFINE subset == [j \in Lb(c) |-> c.title.lb[j].subset]
           bucket == [j \in Lb(c) |-> LeaderboardBucket(c, j, grouping)]
           shared == IF grouping = "tracking" THEN {"active"} ELSE {}
           split == {"all", "inactive", "unsupported"}
           entries == {j \in Lb(c) : ~c.title.lb[j].hidden}
<1>1. list = [buckets |-> Buckets(c, entries, subset, bucket, shared, split),
              room |-> BucketsCounted(c, entries, subset, bucket, split)]
  BY DEF LeaderboardList
<1>2. entries \in SUBSET Lb(c) /\ \A j \in Lb(c) : j \in entries <=> ~c.title.lb[j].hidden
  OBVIOUS
<1>3. Listable(c, entries, subset, bucket, shared, split)
  <2>1. IsFiniteSet(entries) /\ IsFiniteSet(Subsets(c))
    BY <1>2, SubsetsFacts, FS_Subset
  <2>2. \A j \in Lb(c) : subset[j] \in Subsets(c)
    BY SubsetsFacts
  <2>3. \A j \in Lb(c) : bucket[j] \in shared \cup split
    BY DEF LeaderboardBucket
  <2>4. shared \cap split = {}
    OBVIOUS
  <2> HIDE DEF entries, subset, bucket, shared, split
  <2> QED BY <1>2, <2>1, <2>2, <2>3, <2>4 DEF Listable
<1> HIDE DEF entries, subset, bucket, shared, split
<1>4. PICK B : B = Buckets(c, entries, subset, bucket, shared, split)
  OBVIOUS
<1>5. list.buckets = B /\ list.room = BucketsCounted(c, entries, subset, bucket, split)
  BY <1>1, <1>4
<1>6. Once(entries, B)
  BY ONLY <1>3, <1>4, ListedOnce
<1>7. Cardinality(B) <= BucketsCounted(c, entries, subset, bucket, split)
  BY ONLY <1>3, <1>4, RoomForAll
<1> QED BY <1>2, <1>5, <1>6, <1>7 DEF Once

(* Those the list shows unlocked, and those unlocked but not supported,    *)
(* are those the summary counts.                                           *)
LEMMA UnlockedCounted ==
  ASSUME NEW c, c.title \in Titles, Ach(c) = DOMAIN c.title.ach, \A i \in Ach(c) : AsPlayed(c, i), ~c.encore,
         NEW recent, NEW almost, NEW list, list = AchievementList(c, {"core"}, "lock state", recent, almost),
         NEW unlocked, unlocked = UNION {b.of : b \in {b \in list.buckets : b.type = "unlocked"}}
  PROVE  Cardinality(unlocked) + Cardinality({i \in Listed(c, {"core"}) : c.ach[i].state = "disabled" /\ UnlockBit(c, i)})
           = Cardinality({i \in Listed(c, {"core"}) : UnlockBit(c, i)})
<1> DEFINE subset == [i \in Ach(c) |-> c.title.ach[i].subset]
           bucket == [i \in Ach(c) |-> MapBucket(DisplayBucket(c, i, recent, almost), "lock state")]
           entries == Listed(c, {"core"})
           gone == {i \in entries : c.ach[i].state = "disabled" /\ UnlockBit(c, i)}
           all == {i \in entries : UnlockBit(c, i)}
<1>1. list.buckets = Buckets(c, entries, subset, bucket, {}, SubsetBuckets)
  BY DEF AchievementList
<1>2. entries \in SUBSET Ach(c)
  BY DEF Listed
<1>3. ASSUME NEW i \in Ach(c)
      PROVE  bucket[i] \in SubsetBuckets /\ (bucket[i] = "unlocked" <=> c.ach[i].state = "unlocked")
  <2>1. PICK b : b = MapBucket(DisplayBucket(c, i, recent, almost), "lock state")
    OBVIOUS
  <2>2. bucket[i] = b
    BY <2>1
  <2> QED BY <2>1, <2>2, MappedBucket
<1>4. IsFiniteSet(entries) /\ IsFiniteSet(Subsets(c))
  BY <1>2, SubsetsFacts, FS_Subset
<1>5. Listable(c, entries, subset, bucket, {}, SubsetBuckets)
  <2>1. \A i \in Ach(c) : subset[i] \in Subsets(c)
    BY SubsetsFacts
  <2> HIDE DEF entries, subset, bucket
  <2> QED BY <1>2, <1>3, <1>4, <2>1 DEF Listable
<1> HIDE DEF subset, bucket
<1>6. unlocked = Of(entries, bucket, "unlocked")
  <2> HIDE DEF entries
  <2>1. PICK B : B = list.buckets
    OBVIOUS
  <2>2. B = Buckets(c, entries, subset, bucket, {}, SubsetBuckets)
    BY <1>1, <2>1
  <2>3. UNION {b.of : b \in {b \in B : b.type = "unlocked"}} = Of(entries, bucket, "unlocked")
    BY ONLY <1>5, <2>2, UnlockedListed
  <2> QED BY <2>1, <2>3
<1>7. unlocked = {i \in entries : c.ach[i].state = "unlocked"}
  BY <1>2, <1>3, <1>6 DEF Of
<1>8. \A i \in entries : /\ c.ach[i].state = "unlocked" => UnlockBit(c, i)
                         /\ UnlockBit(c, i) => c.ach[i].state \in {"unlocked", "disabled"}
  BY <1>2 DEF AsPlayed
<1>9. unlocked \cup gone = all /\ unlocked \cap gone = {}
  BY <1>7, <1>8
<1>10. IsFiniteSet(unlocked) /\ IsFiniteSet(gone)
  BY <1>4, <1>7, FS_Subset
<1> HIDE DEF gone, all
<1>11. Cardinality(all) = Cardinality(unlocked) + Cardinality(gone) - Cardinality({})
  <2>1. Cardinality(unlocked \cup gone) = Cardinality(unlocked) + Cardinality(gone) - Cardinality(unlocked \cap gone)
    BY <1>10, FS_Union
  <2> QED BY ONLY <1>9, <2>1
<1>12. Cardinality(unlocked) \in Nat /\ Cardinality(gone) \in Nat /\ Cardinality({}) = 0
  BY <1>10, FS_CardinalityType, FS_EmptySet
<1>13. Cardinality(unlocked) + Cardinality(gone) = Cardinality(all)
  BY ONLY <1>11, <1>12
<1> QED BY <1>13 DEF gone, all

(* Each list holds what it is asked for exactly once, with room for it,    *)
(* and agrees with the summary: for any achievements and leaderboards of   *)
(* any number of subsets, whatever was unlocked, lost and sent.            *)
THEOREM ListsHoldAll == Spec => []ListsAreComplete
<1>1. ASSUME IInv, client.loaded
      PROVE  /\ client.title \in Titles /\ Ach(client) = DOMAIN client.title.ach /\ Lb(client) = DOMAIN client.title.lb
             /\ \A i \in Ach(client) : AsPlayed(client, i)
  <2>1. DOMAIN client.lb = 1..Len(client.title.lb)
    BY <1>1 DEF IInv, PlayInv, Played, Boards, Trackers, Lists
  <2>2. client.title \in Titles /\ DOMAIN client.ach = DOMAIN client.title.ach /\ Achievements(client)
    BY <1>1 DEF IInv, PlayInv, Played
  <2> QED BY <2>1, <2>2, TitleFacts DEF Ach, Lb, Achievements
<1>2. ASSUME IInv, client.loaded, NEW categories \in {{"core"}, {"core", "unofficial"}}, NEW grouping \in {"progress", "lock state"},
             NEW lately \in SUBSET Ach(client)
      PROVE  LET list == AchievementList(client, categories, grouping, lately, lately)
                 unlocked == UNION {b.of : b \in {b \in list.buckets : b.type = "unlocked"}}
             IN  /\ \A i \in Ach(client) : Cardinality({b \in list.buckets : i \in b.of})
                                             = IF i \in Listed(client, categories) THEN 1 ELSE 0
                 /\ Cardinality(list.buckets) <= list.room
                 /\ grouping = "lock state" /\ categories = {"core"} /\ ~client.encore =>
                      Cardinality(unlocked) + Cardinality({i \in Listed(client, {"core"}) :
                        client.ach[i].state = "disabled" /\ UnlockBit(client, i)}) = Summary(client).unlocked
  <2>1. PICK list : list = AchievementList(client, categories, grouping, lately, lately)
    OBVIOUS
  <2>2. AllListed(client, list, categories)
    BY <1>1, <1>2, <2>1, AchievementsListed
  <2>3. ASSUME grouping = "lock state", categories = {"core"}, ~client.encore
        PROVE  Cardinality(UNION {b.of : b \in {b \in list.buckets : b.type = "unlocked"}})
                 + Cardinality({i \in Listed(client, {"core"}) : client.ach[i].state = "disabled" /\ UnlockBit(client, i)})
                 = Summary(client).unlocked
    <3>1. PICK unlocked : unlocked = UNION {b.of : b \in {b \in list.buckets : b.type = "unlocked"}}
      OBVIOUS
    <3>2. Summary(client).unlocked = Cardinality({i \in Listed(client, {"core"}) : UnlockBit(client, i)})
      BY DEF Summary
    <3>3. list = AchievementList(client, {"core"}, "lock state", lately, lately)
      BY <2>1, <2>3
    <3> QED BY <1>1, <1>2, <2>3, <3>1, <3>2, <3>3, UnlockedCounted
  <2> QED BY <2>1, <2>2, <2>3 DEF AllListed
<1>3. ASSUME IInv, client.loaded, NEW grouping \in {"none", "tracking"}
      PROVE  LET list == LeaderboardList(client, grouping)
             IN  /\ \A j \in Lb(client) : Cardinality({b \in list.buckets : j \in b.of})
                                            = IF client.title.lb[j].hidden THEN 0 ELSE 1
                 /\ Cardinality(list.buckets) <= list.room
  BY <1>1, <1>3, LeaderboardsListed
<1>4. IInv => ListsAreComplete
  BY <1>2, <1>3 DEF ListsAreComplete
<1> QED BY Invariance, <1>4, PTL

=============================================================================
