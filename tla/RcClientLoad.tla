----------------------------- MODULE RcClientLoad -----------------------------
(***************************************************************************)
(* How rc_client.c logs a user in, loads a game and takes it down again:   *)
(* the requests it has in flight, the load states their answers are        *)
(* delivered to, and what the callers are told.                            *)
(*                                                                         *)
(* Each operator takes and returns the client, an rc_client_t with the     *)
(* load states it has made, as the functions of the code do; an action is  *)
(* one call of the API or one answer of the server.  An answer comes       *)
(* later than its request, never inside it.  A load is also the name of    *)
(* the game it allocates.  The build defines neither                       *)
(* RC_CLIENT_SUPPORTS_HASH nor RC_CLIENT_SUPPORTS_EXTERNAL; memory does    *)
(* not run out.                                                            *)
(***************************************************************************)
EXTENDS Naturals, FiniteSets, Sequences, SequencesExt

CONSTANTS MaxLoads, MaxLogins, MaxChanges,  \* bounds: loads, logins and media changes begun
          Hashes,  \* of games
          Games,   \* identifiers
          None     \* NULL, and 0, the identifier of an unrecognized game

Loads   == 1..MaxLoads
Logins  == 1..MaxLogins
Changes == 1..MaxChanges
Unasked == "unasked"   \* RC_CLIENT_UNKNOWN_GAME_ID

ASSUME LoadAssumption ==
  /\ {MaxLoads, MaxLogins, MaxChanges} \subseteq Nat
  /\ None \notin Hashes \cup Games \cup Loads \cup Changes /\ Unasked \notin Games \cup {None}

VARIABLE client

OfLoad(l)   == <<"load", l>>
OfLogin(n)  == <<"login", n>>
OfChange(m) == <<"change", m>>
Operations == {OfLoad(l) : l \in Loads} \cup {OfLogin(n) : n \in Logins} \cup {OfChange(m) : m \in Changes}

BlankLoad == [memory |-> "unused", progress |-> "none", outstanding |-> 0, callback |-> TRUE, hash |-> None,
              game |-> "none", session |-> FALSE, media |-> None]
BlankGame == [id |-> None, hash |-> None, session |-> FALSE]

\* rc_client_create, and what the host sets before it begins anything
CreatedClient(background, spectator) ==
  [alive |-> TRUE, user |-> "none", current |-> None, game |-> None, spectator |-> spectator, hardcore |-> TRUE,
   background |-> background,
   queue |-> <<>>,                               \* loads scheduled to be activated
   pings |-> {},                                 \* games whose next ping is scheduled
   id |-> [h \in Hashes |-> Unasked],
   load |-> [l \in Loads |-> BlankLoad],
   info |-> [l \in Loads |-> BlankGame],
   change |-> [m \in Changes |-> [hash |-> None, game |-> None]],
   handle |-> [o \in Operations |-> "unused"],   \* unused, fine, aborted, destroyed
   sent |-> {},                                  \* requests in flight
   told |-> [o \in Operations |-> <<>>],         \* what the callbacks were called with
   begun |-> 0,                                  \* history: loads begun
   odd |-> {},                                   \* history: see UsesOnlyWhatIsThere
   misused |-> {}]                               \* history: what was used after it was freed, or NULL

Tell(c, o, result) == [c EXCEPT !.told[o] = Append(@, result)]
TellLoad(c, l, result) == IF c.load[l].callback THEN Tell(c, OfLoad(l), result) ELSE c

Send(c, kind, o) == [c EXCEPT !.sent = @ \cup {<<kind, o>>}]

-----------------------------------------------------------------------------
(* Load states.                                                            *)

Freed(c, l) == c.load[l].memory = "freed"
Misuse(c, what) == [c EXCEPT !.misused = @ \cup {what}]

\* rc_client_free_load_state
FreeLoadState(c, l) ==
  IF Freed(c, l) THEN Misuse(c, OfLoad(l)) ELSE [c EXCEPT !.load[l] = [BlankLoad EXCEPT !.memory = "freed"]]

\* rc_client_begin_load_state
BeginLoadState(c, l, progress, requests) ==
  [c EXCEPT !.load[l].progress = progress, !.load[l].outstanding = @ + requests]

OneFewer(n) == IF n > 0 THEN n - 1 ELSE 0

\* what rc_client_end_load_state returns: less than 0, 0, or the requests that remain
Overtaken(c, l) == c.current # l
LastAnswer(c, l) == ~Overtaken(c, l) /\ c.load[l].outstanding <= 1

\* rc_client_end_load_state
EndLoadState(c, l) ==
  LET one == [c EXCEPT !.load[l].outstanding = OneFewer(@)]
      told == IF c.load[l].progress # "aborted" THEN TellLoad(one, l, "aborted") ELSE one
  IN  IF Freed(c, l) THEN Misuse(c, OfLoad(l))
      ELSE IF Overtaken(c, l) /\ one.load[l].outstanding = 0 THEN FreeLoadState(told, l)
      ELSE one

\* Mutant: freed at once, whatever is outstanding
LoadErrorFrees(c, l, result) ==
  LET detached == [c EXCEPT !.load[l].progress = "aborted", !.current = IF @ = l THEN None ELSE @]
  IN  IF Freed(c, l) THEN Misuse(c, OfLoad(l)) ELSE FreeLoadState(TellLoad(detached, l, result), l)

\* rc_client_load_error
LoadError(c, l, result) ==
  LET detached == [c EXCEPT !.load[l].progress = "aborted", !.current = IF @ = l THEN None ELSE @]
      told == TellLoad(detached, l, result)
  IN  IF Freed(c, l) THEN Misuse(c, OfLoad(l)) ELSE IF c.load[l].outstanding = 0 THEN FreeLoadState(told, l) ELSE told

\* rc_client_load_aborted
LoadAborted(c, l) ==
  EndLoadState(LoadError([c EXCEPT !.load[l].callback = IF Freed(c, l) THEN @ ELSE FALSE], l, "aborted"), l)

-----------------------------------------------------------------------------
(* The game.                                                               *)

\* rc_client_unload_game: pings go by the game's identifier.  (Its events are those of RcClientPlay.)
UnloadGame(c) ==
  LET l == c.current
      dangling == l # None /\ Freed(c, l)
      kept == l # None /\ c.load[l].game # "none" /\ c.game = l   \* the load in progress frees it
  IN  [c EXCEPT !.game = None, !.current = None,
                !.handle = IF l = None THEN @ ELSE [@ EXCEPT ![OfLoad(l)] = "aborted"],
                !.misused = IF dangling THEN @ \cup {OfLoad(l)} ELSE @,
                !.spectator = IF @ = "locked" THEN "on" ELSE @,
                !.pings = IF c.game = None \/ kept THEN @ ELSE {p \in @ : c.info[p].id # c.info[c.game].id}]

\* rc_client_set_hardcore_enabled, of which only the flag matters here
DisableHardcore(c) == [c EXCEPT !.hardcore = FALSE]

\* rc_client_change_media_internal
ChangeMediaInternal(c, m) ==
  LET h == c.change[m].hash
      changed == [c EXCEPT !.info[c.game].hash = h]
  IN  IF c.game = None THEN Misuse(c, OfChange(m))
      ELSE IF c.id[h] = None /\ c.hardcore THEN Tell(DisableHardcore(changed), OfChange(m), "hardcore_disabled")
      ELSE Tell(changed, OfChange(m), "ok")

\* rc_client_begin_change_media_internal
BeginChangeMediaInternal(c, m, g) ==
  IF c.id[c.change[m].hash] # Unasked THEN ChangeMediaInternal(c, m)
  ELSE Send([c EXCEPT !.change[m].game = g, !.handle[OfChange(m)] = "fine"], "media", OfChange(m))

\* rc_client_check_pending_media and rc_client_begin_change_media: kept until the game's data is there, the one kept
\* before dropped
BeginChangeMedia(c, m) ==
  LET l == c.current
  IN  IF l = None
      THEN IF c.game = None THEN Tell(c, OfChange(m), "no_game") ELSE BeginChangeMediaInternal(c, m, c.game)
      ELSE IF Freed(c, l) THEN Misuse(c, OfLoad(l))
      ELSE IF c.load[l].game # "filled" THEN [c EXCEPT !.load[l].media = m]
      ELSE BeginChangeMediaInternal([c EXCEPT !.odd = IF c.game = None THEN @ \cup {"early"} ELSE @], m, l)

\* rc_client_identify_changed_media_callback
MediaAnswer(c, m, answer) ==
  LET h == c.change[m].hash
      known == [c EXCEPT !.id[h] = answer]
  IN  IF c.handle[OfChange(m)] = "destroyed" THEN c
      ELSE IF c.handle[OfChange(m)] = "aborted" THEN IF answer = "failed" THEN c ELSE known
      ELSE IF c.game # c.change[m].game THEN Tell(c, OfChange(m), "aborted")
      ELSE IF answer = "failed" THEN Tell(c, OfChange(m), "failed")
      ELSE ChangeMediaInternal(known, m)

\* Mutant: a load that was overtaken makes its game active all the same
ActivateOvertaken(c, l, session) ==
  LET done == [c EXCEPT !.game = l, !.current = None, !.load[l].game = "none"]
  IN  FreeLoadState(TellLoad(done, l, "ok"), l)

\* rc_client_activate_game
ActivateGame(c, l, session) ==
  LET active == [c EXCEPT !.load[l].progress = "done", !.game = l, !.load[l].media = None]
      media == c.load[l].media
      changed == IF media = None THEN active ELSE BeginChangeMedia(active, media)
      pinged == IF changed.spectator = "locked" THEN changed
                ELSE [changed EXCEPT !.pings = @ \cup {l}]
      done == [TellLoad(pinged, l, "ok") EXCEPT !.current = None, !.load[l].game = "none"]
  IN  IF Freed(c, l) THEN Misuse(c, OfLoad(l))
      ELSE IF c.current # l THEN FreeLoadState(TellLoad(c, l, "aborted"), l)
      ELSE IF ~session /\ c.spectator = "off" THEN FreeLoadState(TellLoad(c, l, "failed"), l)
      ELSE FreeLoadState(done, l)

\* rc_client_queue_activate_game, and the choice before every call of it
ActivateOrQueue(c, l, session) ==
  IF c.background THEN ActivateGame(c, l, session)
  ELSE [c EXCEPT !.load[l].session = session, !.queue = Append(@, l)]

\* rc_client_dispatch_activate_game, of the one that was scheduled first
DispatchActivation(c) ==
  LET l == Head(c.queue)
  IN  IF c.queue = <<>> THEN c ELSE ActivateGame([c EXCEPT !.queue = Tail(@)], l, c.load[l].session)

\* rc_client_idle as far as activations: scheduled for time 0 they come before the pings, and none schedules another
RunActivations(c) ==
  LET after[n \in 0..Len(c.queue)] == IF n = 0 THEN c ELSE DispatchActivation(after[n - 1])
  IN  after[Len(c.queue)]

-----------------------------------------------------------------------------
(* Fetching and starting.                                                  *)

\* Mutant: counted twice
StartSessionCountedTwice(c, l) ==
  Send(BeginLoadState([c EXCEPT !.handle[OfLoad(l)] = "fine"], l, "starting", 2), "session", OfLoad(l))

\* rc_client_begin_start_session
BeginStartSession(c, l) ==
  Send(BeginLoadState([c EXCEPT !.handle[OfLoad(l)] = "fine"], l, "starting", 1), "session", OfLoad(l))

\* rc_client_process_resolved_hash, of a hash nobody knows
UnknownGame(c, l) ==
  LET h == c.load[l].hash
  IN  LoadError([c EXCEPT !.info[l] = [BlankGame EXCEPT !.hash = h], !.game = l, !.load[l].game = "none"], l, "no_game")

\* rc_client_begin_fetch_game_sets
BeginFetchGameSets(c, l) ==
  CASE c.user = "requested" -> [c EXCEPT !.load[l].progress = "await_login"]
    [] c.user = "none" -> LoadError(c, l, "login_required")
    [] OTHER -> Send(BeginLoadState([c EXCEPT !.handle[OfLoad(l)] = "fine"], l, "identifying", 1), "sets", OfLoad(l))

\* rc_client_abort_load_in_progress
AbortLoadInProgress(c) ==
  LET l == c.current
  IN  IF l = None THEN c
      ELSE IF Freed(c, l) THEN Misuse([c EXCEPT !.current = None], OfLoad(l))
      ELSE TellLoad([c EXCEPT !.handle[OfLoad(l)] = "aborted", !.current = None], l, "aborted")

\* rc_client_begin_load_game, rc_client_load_game, rc_client_attach_load_state
BeginLoadGame(c, h) ==
  LET l == c.begun + 1
      empty == UnloadGame(AbortLoadInProgress(c))
      new == [empty EXCEPT !.begun = l, !.current = l, !.handle[OfLoad(l)] = "fine",
                           !.load[l] = [BlankLoad EXCEPT !.memory = "live", !.hash = h, !.game = "blank"]]
  IN  IF c.id[h] = None THEN UnknownGame(new, l) ELSE BeginFetchGameSets(new, l)

\* Mutant: spectator mode is not locked
SetsOfUnlocked(c, l, g, empty) ==
  LET h == c.load[l].hash
      known == [c EXCEPT !.id[h] = g, !.info[l] = [id |-> g, hash |-> h, session |-> FALSE],
                         !.odd = IF empty THEN @ \cup {"empty"} ELSE @]
      began == BeginLoadState(known, l, "starting", 1)
      asked == IF c.spectator = "off" THEN BeginStartSession(began, l) ELSE began
      filled == IF empty THEN LoadError(asked, l, "not_found") ELSE [asked EXCEPT !.load[l].game = "filled"]
      ended == EndLoadState(filled, l)
  IN  IF LastAnswer(filled, l) THEN ActivateOrQueue(ended, l, FALSE) ELSE ended

\* rc_client_fetch_game_sets_callback of a game; "empty" says that it came without any set
SetsOf(c, l, g, empty) ==
  LET h == c.load[l].hash
      known == [c EXCEPT !.id[h] = g, !.info[l] = [id |-> g, hash |-> h, session |-> FALSE],
                         !.odd = IF empty THEN @ \cup {"empty"} ELSE @]
      began == BeginLoadState(known, l, "starting", 1)
      asked == IF c.spectator = "off" THEN BeginStartSession(began, l) ELSE [began EXCEPT !.spectator = "locked"]
      filled == IF empty THEN LoadError(asked, l, "not_found") ELSE [asked EXCEPT !.load[l].game = "filled"]
      ended == EndLoadState(filled, l)
  IN  IF LastAnswer(filled, l) THEN ActivateOrQueue(ended, l, FALSE) ELSE ended

\* Mutant: the answer is taken although the load was aborted
TakeSetsAnswer(c, l, answer) ==
  LET ended == EndLoadState(c, l)
  IN  CASE answer.is = "failed" -> LoadError(ended, l, "failed")
        [] answer.is = "unknown" -> UnknownGame([ended EXCEPT !.id[c.load[l].hash] = None], l)
        [] OTHER -> SetsOf(ended, l, answer.game, answer.is = "empty")

\* rc_client_fetch_game_sets_callback
SetsAnswer(c, l, answer) ==
  LET ended == EndLoadState(c, l)
  IN  IF c.handle[OfLoad(l)] = "destroyed" THEN FreeLoadState(c, l)
      ELSE IF c.handle[OfLoad(l)] = "aborted" THEN LoadAborted(c, l)
      ELSE IF answer.is = "failed" THEN LoadError(ended, l, "failed")
      ELSE IF Overtaken(c, l) THEN ended
      ELSE IF answer.is = "unknown" THEN UnknownGame([ended EXCEPT !.id[c.load[l].hash] = None], l)
      ELSE SetsOf(ended, l, answer.game, answer.is = "empty")

\* rc_client_start_session_callback
SessionAnswer(c, l, succeeded) ==
  LET ended == EndLoadState(c, l)
      kept == [ended EXCEPT !.load[l].session = TRUE]
      started == [ended EXCEPT !.info[l].session = TRUE]
  IN  IF c.handle[OfLoad(l)] = "destroyed" THEN FreeLoadState(c, l)
      ELSE IF c.handle[OfLoad(l)] = "aborted" THEN LoadAborted(c, l)
      ELSE IF ~succeeded THEN LoadError(ended, l, "failed")
      ELSE IF Overtaken(c, l) THEN ended
      ELSE IF LastAnswer(c, l) THEN ActivateOrQueue(started, l, TRUE)
      ELSE kept

-----------------------------------------------------------------------------
(* The user.                                                               *)

AwaitsLogin(c, l) == l # None /\ c.load[l].progress = "await_login"

\* rc_client_logout
Logout(c) ==
  LET out == UnloadGame([c EXCEPT !.user = "none"])
  IN  IF AwaitsLogin(c, c.current) THEN LoadError(out, c.current, "aborted") ELSE out

\* rc_client_begin_login: a second one fails, and the first goes on
BeginLogin(c, n) ==
  IF c.user = "requested" THEN Tell(c, OfLogin(n), "invalid")
  ELSE Send([c EXCEPT !.user = "requested", !.handle[OfLogin(n)] = "fine"], "login", OfLogin(n))

\* rc_client_login_callback
LoginAnswer(c, n, succeeded) ==
  LET logged == [c EXCEPT !.user = IF succeeded THEN "logged_in" ELSE "none"]
      fetch(d) == IF c.current # None /\ Freed(c, c.current) THEN Misuse(d, OfLoad(c.current))
                  ELSE IF AwaitsLogin(c, c.current) THEN BeginFetchGameSets(d, c.current)
                  ELSE d
  IN  IF c.handle[OfLogin(n)] = "destroyed" THEN c
      ELSE IF c.handle[OfLogin(n)] = "aborted" THEN Logout(c)
      ELSE IF c.user = "none" THEN Tell(c, OfLogin(n), "aborted")
      ELSE IF succeeded THEN Tell(fetch(logged), OfLogin(n), "ok")
      ELSE fetch(Tell(logged, OfLogin(n), "failed"))

InFlight(c, o) == \E kind \in {"login", "sets", "session", "media"} : <<kind, o>> \in c.sent

\* rc_client_destroy
DestroyClient(c) ==
  LET marked == [c EXCEPT !.handle = [o \in Operations |->
                                        IF InFlight(c, o) \/ (c.current # None /\ o = OfLoad(c.current))
                                        THEN "destroyed" ELSE @[o]],
                          !.current = None]
  IN  [UnloadGame(marked) EXCEPT !.alive = FALSE]
-----------------------------------------------------------------------------
(* The calls of the host and the answers of the server.  What happens      *)
(* after freed memory was used is not described.                           *)

Defined == client.misused = {}
Init == \E background \in BOOLEAN, spectator \in {"off", "on"} : client = CreatedClient(background, spectator)

\* bound: requests in flight.  client->state.async_handles has four places, and rc_client_destroy does not find the
\* request that finds none
Slots == 4
Placed(c) == Cardinality(c.sent) <= Slots

Step(next) == Defined /\ client.alive /\ Placed(next) /\ client' = next

Begun(o) == client.handle[o] # "unused" \/ client.told[o] # <<>>

Login ==
  \E n \in Logins : ~Begun(OfLogin(n)) /\ (\A m \in 1..(n - 1) : Begun(OfLogin(m))) /\ Step(BeginLogin(client, n))
UserLogsOut == client.user # "none" /\ Step(Logout(client))
LoadGame == client.begun < MaxLoads /\ \E h \in Hashes : Step(BeginLoadGame(client, h))
Unload == Step(UnloadGame(client))
ChangeMedia ==
  \E m \in Changes, h \in Hashes :
    client.change[m].hash = None /\ Step(BeginChangeMedia([client EXCEPT !.change[m].hash = h], m))
Idle == Step(RunActivations(client))
Destroy == Step(DestroyClient(client))

(* rc_client_reset, as far as it unloads a game whose media was changed.   *)
Reset ==
  /\ client.game # None
  /\ client.id[client.info[client.game].hash] # client.info[client.game].id
  /\ Step(UnloadGame(client))

(* rc_client_abort_async, of a handle the caller was given and not yet     *)
(* told of.                                                                *)
Abort ==
  \E o \in Operations :
    /\ client.handle[o] = "fine" /\ client.told[o] = <<>>
    /\ Step([client EXCEPT !.handle[o] = "aborted"])

(* rc_client_set_spectator_mode_enabled.                                   *)
SetSpectator ==
  \E mode \in {"off", "on"} :
    /\ ~(mode = "off" /\ client.spectator = "locked")
    /\ Step([client EXCEPT !.spectator = mode, !.odd = IF client.spectator = "locked" THEN @ \cup {"relocked"} ELSE @])

Answered(kind, o) == [client EXCEPT !.sent = @ \ {<<kind, o>>}]
Answer(kind, o, next) == Defined /\ <<kind, o>> \in client.sent /\ Placed(next) /\ client' = next

LoginAnswered == \E n \in Logins, ok \in BOOLEAN : Answer("login", OfLogin(n), LoginAnswer(Answered("login", OfLogin(n)), n, ok))
SetsAnswers == [is : {"failed", "unknown"}, game : {None}] \cup [is : {"game", "empty"}, game : Games]
SetsAnswered ==
  \E l \in Loads, a \in SetsAnswers : Answer("sets", OfLoad(l), SetsAnswer(Answered("sets", OfLoad(l)), l, a))
SessionAnswered ==
  \E l \in Loads, ok \in BOOLEAN : Answer("session", OfLoad(l), SessionAnswer(Answered("session", OfLoad(l)), l, ok))
MediaAnswered ==
  \E m \in Changes, a \in Games \cup {None, "failed"} :
    Answer("media", OfChange(m), MediaAnswer(Answered("media", OfChange(m)), m, a))

Calls == Login \/ UserLogsOut \/ LoadGame \/ Unload \/ ChangeMedia \/ Destroy \/ Reset \/ Abort \/ SetSpectator
Answers == LoginAnswered \/ SetsAnswered \/ SessionAnswered \/ MediaAnswered
Next == Calls \/ Idle \/ Answers

Spec == Init /\ [][Next]_client

-----------------------------------------------------------------------------
(* What should hold.                                                       *)

Results == {"ok", "aborted", "failed", "invalid", "no_game", "login_required", "not_found", "hardcore_disabled"}
TypeOK ==
  /\ client.user \in {"none", "requested", "logged_in"}
  /\ client.current \in Loads \cup {None} /\ client.game \in Loads \cup {None}
  /\ client.spectator \in {"off", "on", "locked"} /\ client.id \in [Hashes -> Games \cup {None, Unasked}]
  /\ \A l \in Loads : client.load[l].memory \in {"unused", "live", "freed"} /\ client.load[l].outstanding \in 0..1
  /\ \A o \in Operations : ToSet(client.told[o]) \subseteq Results /\ Len(client.told[o]) <= 2
  /\ client.queue \in Seq(Loads) /\ client.pings \subseteq Loads

(* A load told that it succeeded is told nothing else, before or after.    *)
(* (rc_client.c, the answers of rc_client_begin_load_game)                 *)
OkIsFinal == \A l \in Loads : "ok" \in ToSet(client.told[OfLoad(l)]) => Len(client.told[OfLoad(l)]) = 1

(* The game is that of the load begun last, whatever order answers come in,*)
(* and while one loads there is none; pings are sent for it and no other.  *)
GameIsLatest ==
  /\ client.game \in {None, client.begun} /\ client.current \in {None, client.begun}
  /\ client.current # None => client.game = None
  /\ client.alive => client.pings \subseteq {client.game}

(* An identified game has a session with the server, or the client         *)
(* spectates: rc_client.c, line 2340.  What enabling spectator mode once   *)
(* more undoes is left out: it unlocks the mode.                          *)
HasSession(c) == c.game # None /\ c.info[c.game].id # None => c.info[c.game].session \/ c.spectator # "off"
ActiveHasSession == client.alive /\ "relocked" \notin client.odd => HasSession(client)

(* No load state or game is used that is not there, but in three ways: an  *)
(* answer without sets followed by a session that fails (the load was freed*)
(* by the first), spectator mode unlocked while a load waits for frames,   *)
(* media changed while the session is being started.                       *)
UsesOnlyWhatIsThere == client.odd = {} => client.misused = {}

=============================================================================
