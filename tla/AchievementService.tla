-------------------------- MODULE AchievementService --------------------------
(***************************************************************************)
(* RCClientService.swift over RcClientLoad: the load queue makes a client  *)
(* for the game and begins its login, HTTP threads queue the answers, the  *)
(* core thread delivers them frame by frame and begins the load once the   *)
(* user is logged in, and teardown destroys the client with requests in    *)
(* flight.  Teardown comes after the core thread has ended; a thread that  *)
(* does not end is EmulatorLifecycle's StuckSessionIsLeftAlone.            *)
(***************************************************************************)
EXTENDS RcClientLoad

\* the service begins a login and a load
ASSUME ServiceAssumption == MaxLoads >= 1 /\ MaxLogins >= 1

VARIABLES
  romHash,      \* what RAHash makes of the ROM; None when it can not
  state,        \* the service's: idle, loggingIn, loggedIn, loadingGame, loaded
  setUp,        \* steps of startRetroAchievements done, on the load queue
  held,         \* client is not nil
  isDestroyed,
  pending,      \* responses queued for the core thread
  taken,        \* those drainPending has taken and not yet delivered
  core,         \* the core thread: none, top (of the loop), drain, run, again (the second drain), ended
  toasts,       \* failures shown
  delivered     \* history: an answer was delivered to a destroyed client

serviceVars == <<romHash, state, setUp, held, isDestroyed, pending, taken, core, toasts, delivered>>
serviceInit ==
  /\ romHash \in Hashes \cup {None}
  /\ client = [CreatedClient(FALSE, "off") EXCEPT !.alive = FALSE]
  /\ state = "idle" /\ setUp = 0 /\ held = FALSE /\ isDestroyed = FALSE /\ pending = <<>> /\ taken = <<>>
  /\ core = "none" /\ toasts = 0 /\ delivered = FALSE

-----------------------------------------------------------------------------
(* The load queue.                                                         *)

\* create(): rc_client_create and the callbacks
Create ==
  /\ setUp = 0 /\ ~held
  /\ client' = CreatedClient(FALSE, "off") /\ held' = TRUE /\ setUp' = 1
  /\ UNCHANGED <<romHash, state, isDestroyed, pending, taken, core, toasts, delivered>>

\* applySettings(_:)
ApplySettings ==
  /\ setUp = 1 /\ setUp' = 2
  /\ \E hardcore \in BOOLEAN : client' = [client EXCEPT !.hardcore = hardcore]
  /\ UNCHANGED <<romHash, state, held, isDestroyed, pending, taken, core, toasts, delivered>>

\* beginLogin()
BeginsLogin ==
  /\ setUp = 2 /\ setUp' = 3
  /\ state' = "loggingIn" /\ client' = BeginLogin(client, 1)
  /\ UNCHANGED <<romHash, held, isDestroyed, pending, taken, core, toasts, delivered>>

\* what a host knows of the game and of itself: [client, state, toasts]
Host == [client |-> client, state |-> state, toasts |-> toasts]

\* Mutant: the load begins while the login is still asked for
PerformLoadAtOnce(h) ==
  IF romHash = None THEN h ELSE [h EXCEPT !.state = "loadingGame", !.client = BeginLoadGame(@, romHash)]

\* performLoadGameIfReady()
PerformLoadGameIfReady(h) ==
  IF h.state # "loggedIn" \/ romHash = None THEN h
  ELSE [h EXCEPT !.state = "loadingGame", !.client = BeginLoadGame(@, romHash)]

\* beginLoadGame(path:data:)
BeginsLoadGame ==
  /\ setUp = 3 /\ setUp' = 4
  /\ LET h == PerformLoadGameIfReady(Host) IN client' = h.client /\ state' = h.state /\ toasts' = h.toasts
  /\ UNCHANGED <<romHash, held, isDestroyed, pending, taken, core, delivered>>

-----------------------------------------------------------------------------
(* HTTP.                                                                   *)

\* the answers to a request that came back
AnswersTo(kind) == IF kind = "sets" THEN SetsAnswers ELSE [is : {"ok", "failed"}]
Responded == {r.request : r \in ToSet(pending) \cup ToSet(taken)}

\* Mutant: a response that comes after destroy() is queued
EnqueueAlways(r) == pending' = Append(pending, r)

\* enqueue(body:status:callback:callbackData:)
Enqueue(r) == pending' = IF isDestroyed THEN pending ELSE Append(pending, r)

\* Mutant: only an answer is handed on, the failure of a request is dropped
RespondIfAny(q) ==
  \/ /\ \E a \in AnswersTo(q[1]) : a.is # "failed" /\ Enqueue([request |-> q, answer |-> a])
     /\ client' = IF isDestroyed THEN [client EXCEPT !.sent = @ \ {q}] ELSE client
  \/ client' = [client EXCEPT !.sent = @ \ {q}] /\ UNCHANGED pending

\* performHTTP's completion: an answer, or status -1 after at most 30 s
Respond(q) ==
  /\ \E a \in AnswersTo(q[1]) : Enqueue([request |-> q, answer |-> a])
  /\ client' = IF isDestroyed THEN [client EXCEPT !.sent = @ \ {q}] ELSE client

Responds ==
  /\ \E q \in client.sent \ Responded : Respond(q)
  /\ UNCHANGED <<romHash, state, setUp, held, isDestroyed, taken, core, toasts, delivered>>

-----------------------------------------------------------------------------
(* The core thread.                                                        *)

\* handleAsyncCallback(result:errorMessage:userdata:): the state tells what was answered
HandleAsyncCallback(h, result) ==
  IF result # "ok" THEN [h EXCEPT !.state = "idle", !.toasts = @ + 1]
  ELSE IF h.state = "loggingIn" THEN PerformLoadGameIfReady([h EXCEPT !.state = "loggedIn"])
  ELSE IF h.state = "loadingGame" THEN [h EXCEPT !.state = "loaded"]
  ELSE h

\* the callbacks a step of the client made: the service begins one login and one load
News(old, new, o) == SubSeq(new.told[o], Len(old.told[o]) + 1, Len(new.told[o]))
ToldBy(old, new) == News(old, new, OfLogin(1)) \o News(old, new, OfLoad(1))

\* what the host makes of them, one after the other
After(next) ==
  LET told == ToldBy(client, next)
      host[n \in 0..Len(told)] ==
        IF n = 0 THEN [Host EXCEPT !.client = next] ELSE HandleAsyncCallback(host[n - 1], told[n])
  IN  host[Len(told)]

\* one response, delivered: the client's callback, and those it makes
Deliver(r) ==
  LET kind == r.request[1]
      o == r.request[2]
      c == Answered(kind, o)
  IN  CASE kind = "login" -> LoginAnswer(c, o[2], r.answer.is = "ok")
        [] kind = "sets" -> SetsAnswer(c, o[2], r.answer)
        [] OTHER -> SessionAnswer(c, o[2], r.answer.is = "ok")

Start ==
  /\ setUp = 4 /\ core = "none" /\ core' = "top"
  /\ UNCHANGED <<romHash, client, state, setUp, held, isDestroyed, pending, taken, toasts, delivered>>

\* doFrame() begins, and each drainPending() takes what is queued
Drain ==
  /\ core \in {"top", "run"} /\ held
  /\ core' = IF core = "top" THEN "drain" ELSE "again"
  /\ taken' = pending /\ pending' = <<>>
  /\ UNCHANGED <<romHash, client, state, setUp, held, isDestroyed, toasts, delivered>>

DeliverNext ==
  /\ core \in {"drain", "again"} /\ taken # <<>>
  /\ LET h == After(Deliver(Head(taken))) IN client' = h.client /\ state' = h.state /\ toasts' = h.toasts
  /\ taken' = Tail(taken) /\ delivered' = (delivered \/ ~client.alive)
  /\ UNCHANGED <<romHash, setUp, held, isDestroyed, pending, core>>

\* rc_client_do_frame or rc_client_idle: both run what is scheduled
RunFrame ==
  /\ core = "drain" /\ taken = <<>> /\ core' = "run"
  /\ LET h == After(RunActivations(client)) IN client' = h.client /\ state' = h.state /\ toasts' = h.toasts
  /\ UNCHANGED <<romHash, setUp, held, isDestroyed, pending, taken, delivered>>

FrameEnds ==
  /\ core = "again" /\ taken = <<>> /\ core' = "top"
  /\ UNCHANGED <<romHash, client, state, setUp, held, isDestroyed, pending, taken, toasts, delivered>>

\* requestStop(), joined
Stop ==
  /\ core = "top" \/ (core = "none" /\ setUp = 4)
  /\ core' = "ended"
  /\ UNCHANGED <<romHash, client, state, setUp, held, isDestroyed, pending, taken, toasts, delivered>>

\* unloadGame() and destroy()
Teardown ==
  /\ core = "ended" /\ held
  /\ client' = DestroyClient(UnloadGame(client))
  /\ held' = FALSE /\ isDestroyed' = TRUE /\ pending' = <<>>
  /\ UNCHANGED <<romHash, state, setUp, taken, core, toasts, delivered>>

SetUp == Create \/ ApplySettings \/ BeginsLogin \/ BeginsLoadGame
Frame == Drain \/ DeliverNext \/ RunFrame \/ FrameEnds
serviceNext == SetUp \/ Start \/ Frame \/ Responds \/ Stop \/ Teardown

(* The load queue and the core thread go on, a request's time runs out     *)
(* after 30 s; the player need not leave.                                  *)
ServiceSpec ==
  /\ serviceInit /\ [][serviceNext]_<<client, serviceVars>>
  /\ WF_<<client, serviceVars>>(SetUp) /\ WF_<<client, serviceVars>>(Start)
  /\ WF_<<client, serviceVars>>(Frame) /\ WF_<<client, serviceVars>>(Responds)

-----------------------------------------------------------------------------
(* What should hold.                                                       *)

(* The service's state, by which it tells one callback from another, is    *)
(* that of its client: a login asked for, a load under way, a game.        *)
(* (RCClientService.swift, handleAsyncCallback)                            *)
StateFollowsClient ==
  held => /\ state = "loggingIn" <=> client.user = "requested"
          /\ state = "loadingGame" <=> client.current # None
          /\ state = "loaded" => client.game # None /\ client.told[OfLoad(client.game)] = <<"ok">>
          /\ client.begun <= 1

(* A response is delivered to the client that asked, and none waits for a  *)
(* client that is destroyed. (RCClientService.swift, enqueue and destroy)  *)
NoneAfterDestroy == ~delivered /\ (isDestroyed => pending = <<>> /\ taken = <<>>)

(* Logging in and loading come to an end: a game, a failure the player is  *)
(* shown, or a ROM that can not be hashed, unless the player leaves.       *)
Settles == state \in {"loggingIn", "loadingGame"}
             ~> state = "loaded" \/ (state = "idle" /\ toasts > 0) \/ (state = "loggedIn" /\ romHash = None) \/ core = "ended"
=============================================================================
