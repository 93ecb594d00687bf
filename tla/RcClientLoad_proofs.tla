------------------------- MODULE RcClientLoad_proofs -------------------------
(***************************************************************************)
(* Proofs about RcClientLoad, for any number of loads, logins and media    *)
(* changes, any hashes and any games: what a caller is told, which game is *)
(* the client's, and that nothing is used after it was freed; and, at the  *)
(* end, about AchievementService, the service above one such client: its   *)
(* own state is always that of its client, and no response is delivered to *)
(* one that is destroyed.                                                  *)
(***************************************************************************)
EXTENDS AchievementService, WellFoundedInduction, TLAPS

-----------------------------------------------------------------------------
(* The inductive invariant.                                                *)

Kinds == {"login", "sets", "session", "media"}
Requests == Kinds \X Operations
LoadType ==
  [memory : {"unused", "live", "freed"}, progress : {"none", "await_login", "identifying", "starting", "aborted", "done"},
   outstanding : Nat, callback : BOOLEAN, hash : Hashes \cup {None}, game : {"none", "blank", "filled"},
   session : BOOLEAN, media : Changes \cup {None}]
GameType == [id : Games \cup {None}, hash : Hashes \cup {None}, session : BOOLEAN]
ChangeType == [hash : Hashes \cup {None}, game : Loads \cup {None}]
ClientType ==
  [alive : BOOLEAN, user : {"none", "requested", "logged_in"}, current : Loads \cup {None}, game : Loads \cup {None},
   spectator : {"off", "on", "locked"}, hardcore : BOOLEAN, background : BOOLEAN, queue : Seq(Loads), pings : SUBSET Loads,
   id : [Hashes -> Games \cup {None, Unasked}], load : [Loads -> LoadType], info : [Loads -> GameType],
   change : [Changes -> ChangeType],
   handle : [Operations -> {"unused", "fine", "aborted", "destroyed"}],
   sent : SUBSET Requests, told : [Operations -> Seq(Results)],
   begun : 0..MaxLoads, odd : SUBSET {"empty", "early", "relocked"}, misused : SUBSET Operations]

Live(c, l) == c.load[l].memory = "live"
AskedSets(c, l) == <<"sets", OfLoad(l)>> \in c.sent
AskedSession(c, l) == <<"session", OfLoad(l)>> \in c.sent
Asked(c, l) == AskedSets(c, l) \/ AskedSession(c, l)
Queued(c, l) == \E i \in 1..Len(c.queue) : c.queue[i] = l
Aborted(c, o) == c.handle[o] \in {"aborted", "destroyed"}

(* Every load begun has its memory until it is freed, and whatever still   *)
(* refers to it, a request or the schedule, refers to it alone.            *)
Referenced(c, l) ==
  /\ c.load[l].memory = "unused" <=> c.begun < l
  /\ Asked(c, l) => Live(c, l) /\ c.load[l].outstanding = 1 /\ ~Queued(c, l)
  /\ ~Asked(c, l) => c.load[l].outstanding = 0
  /\ ~(AskedSets(c, l) /\ AskedSession(c, l))
  /\ Queued(c, l) => Live(c, l)
  /\ c.load[l].progress = "await_login" => Live(c, l) /\ ~Asked(c, l) /\ ~Queued(c, l)

(* The load that is the client's is there and has told nothing; a request  *)
(* that nobody aborted is that load's.                                     *)
IsCurrent(c, l) ==
  /\ c.current = l => \/ Live(c, l) /\ c.told[OfLoad(l)] = <<>>
                      \/ Freed(c, l) /\ "relocked" \in c.odd
  /\ AskedSets(c, l) /\ ~Aborted(c, OfLoad(l)) => c.current = l
  /\ AskedSession(c, l) /\ ~Aborted(c, OfLoad(l)) => c.current = l \/ "empty" \in c.odd

(* What a load's caller is told.                                           *)
Told(c, l) ==
  LET told == c.told[OfLoad(l)]
  IN  /\ Len(told) <= 2 /\ (c.load[l].memory = "unused" => told = <<>>)
      /\ Live(c, l) => Len(told) <= 1
      /\ "ok" \in ToSet(told) => Freed(c, l) /\ Len(told) = 1

(* A load that is to be activated has its session or spectates.            *)
Started(c, l) ==
  Queued(c, l) => /\ c.load[l].session => c.info[l].session
                  /\ c.current = l => c.load[l].session \/ c.spectator = "locked" \/ "relocked" \in c.odd

LoadInv(c, l) == Referenced(c, l) /\ IsCurrent(c, l) /\ Told(c, l) /\ Started(c, l)

(* A login is answered once.                                               *)
LoginInv(c, n) ==
  LET o == OfLogin(n)
  IN  /\ <<"login", o>> \in c.sent => c.told[o] = <<>> /\ c.handle[o] # "unused"
      /\ Len(c.told[o]) <= 1

(* A change of media waits in one place, or for one answer.                *)
ChangeInv(c, m) ==
  LET o == OfChange(m)
      asked == <<"media", o>> \in c.sent
      kept(l) == c.load[l].media = m
  IN  /\ \A l, k \in Loads : kept(l) /\ kept(k) => l = k
      /\ \A l \in Loads : kept(l) => ~asked /\ c.told[o] = <<>> /\ c.change[m].hash # None
      /\ asked => c.told[o] = <<>> /\ c.change[m].hash # None /\ c.change[m].game # None
      /\ c.change[m].hash = None => c.told[o] = <<>>
      /\ Len(c.told[o]) <= 1

(* The game and the load in front are the latest, never both; what         *)
(* rc_client_destroy leaves in flight finds its handle marked.             *)
InFront(c) ==
  /\ c.current \in {None, c.begun} /\ c.game \in {None, c.begun}
  /\ c.current # None => c.game = None
  /\ c.pings \subseteq {c.game}
  /\ c.game # None /\ c.info[c.game].id # None =>
       c.info[c.game].session \/ c.spectator = "locked" \/ "relocked" \in c.odd
  /\ ~c.alive => /\ c.current = None /\ c.game = None
                 /\ \A kind \in Kinds, o \in Operations : <<kind, o>> \in c.sent => c.handle[o] = "destroyed"
  /\ c.alive => \A o \in Operations : c.handle[o] # "destroyed"
  /\ \A i, j \in 1..Len(c.queue) : c.queue[i] = c.queue[j] => i = j

Sound(c) == c.odd = {} => c.misused = {}

(* What holds of the client apart from one load, and, for Rest, from what  *)
(* is in front.                                                            *)
Rest(c, l) ==
  /\ c \in ClientType /\ Sound(c)
  /\ \A k \in Loads : k # l => LoadInv(c, k)
  /\ \A n \in Logins : LoginInv(c, n)
  /\ \A m \in Changes : ChangeInv(c, m)
Others(c, l) == Rest(c, l) /\ InFront(c)

ClientInv(c) ==
  /\ c \in ClientType /\ InFront(c) /\ Sound(c)
  /\ \A l \in Loads : LoadInv(c, l)
  /\ \A n \in Logins : LoginInv(c, n)
  /\ \A m \in Changes : ChangeInv(c, m)

IInv == ClientInv(client)

-----------------------------------------------------------------------------
(* Facts about names and types.                                            *)

(* The names of operations are different, and each is that of a load, a    *)
(* login or a change.                                                      *)
LEMMA Names ==
  /\ \A l \in Loads : OfLoad(l) \in Operations
  /\ \A n \in Logins : OfLogin(n) \in Operations
  /\ \A m \in Changes : OfChange(m) \in Operations
  /\ \A l, k : OfLoad(l) = OfLoad(k) => l = k
  /\ \A l, k : OfLogin(l) = OfLogin(k) => l = k
  /\ \A l, k : OfChange(l) = OfChange(k) => l = k
  /\ \A l, k : OfLoad(l) # OfLogin(k) /\ OfLoad(l) # OfChange(k) /\ OfLogin(l) # OfChange(k)
  /\ \A o \in Operations : \/ \E l \in Loads : o = OfLoad(l)
                           \/ \E n \in Logins : o = OfLogin(n)
                           \/ \E m \in Changes : o = OfChange(m)
BY DEF Operations, OfLoad, OfLogin, OfChange

(* The types of the client's fields. *)
LEMMA Fields ==
  ASSUME NEW c \in ClientType
  PROVE  /\ c.alive \in BOOLEAN /\ c.user \in {"none", "requested", "logged_in"}
         /\ c.current \in Loads \cup {None} /\ c.game \in Loads \cup {None}
         /\ c.spectator \in {"off", "on", "locked"} /\ c.hardcore \in BOOLEAN /\ c.background \in BOOLEAN
         /\ c.queue \in Seq(Loads) /\ c.pings \in SUBSET Loads /\ c.id \in [Hashes -> Games \cup {None, Unasked}]
         /\ c.load \in [Loads -> LoadType] /\ c.info \in [Loads -> GameType]
         /\ c.change \in [Changes -> ChangeType]
         /\ c.handle \in [Operations -> {"unused", "fine", "aborted", "destroyed"}]
         /\ c.sent \in SUBSET Requests /\ c.told \in [Operations -> Seq(Results)]
         /\ c.begun \in 0..MaxLoads /\ c.odd \in SUBSET {"empty", "early", "relocked"}
         /\ c.misused \in SUBSET Operations
BY DEF ClientType

-----------------------------------------------------------------------------
(* Steps that concern one load.                                            *)

(* d is c but for the load l, its requests, its game, what its caller was  *)
(* told and what is in front.                                              *)
Beside(c, d, l) ==
  /\ d \in ClientType
  /\ d.begun = c.begun /\ d.queue = c.queue /\ d.change = c.change /\ d.misused = c.misused /\ c.odd \subseteq d.odd
  /\ d.user = c.user /\ d.spectator \in {c.spectator, "locked"}
  /\ d.current = c.current \/ (c.current = l /\ d.current = None)
  /\ \A k \in Loads : k # l => d.load[k] = c.load[k] /\ d.info[k] = c.info[k]
  /\ d.load[l].media \in {c.load[l].media, None}
  /\ \A o \in Operations :
       o # OfLoad(l) => /\ d.told[o] = c.told[o] /\ d.handle[o] = c.handle[o]
                        /\ \A kind \in Kinds : <<kind, o>> \in d.sent <=> <<kind, o>> \in c.sent

(* And the game is the same.                                               *)
Aside(c, d, l) ==
  /\ Beside(c, d, l)
  /\ d.alive = c.alive /\ d.game = c.game /\ d.pings = c.pings
  /\ c.game = l => d.info[l] = c.info[l]
  /\ d.handle[OfLoad(l)] = "destroyed" <=> c.handle[OfLoad(l)] = "destroyed"
  /\ ~c.alive => d.sent \subseteq c.sent

(* Such a step keeps what holds of everything else. *)
LEMMA BesideKeeps ==
  ASSUME NEW c, NEW d, NEW l \in Loads, Rest(c, l), Beside(c, d, l)
  PROVE  Rest(d, l)
<1>0. c \in ClientType /\ d \in ClientType
  BY DEF Rest, Beside
<1>2. Sound(d)
  BY DEF Rest, Sound, Beside
<1>3. ASSUME NEW k \in Loads, k # l PROVE LoadInv(d, k)
  <2>1. LoadInv(c, k)
    BY <1>3 DEF Rest
  <2>2. OfLoad(k) \in Operations /\ OfLoad(k) # OfLoad(l)
    BY <1>3, Names
  <2>3. /\ d.load[k] = c.load[k] /\ d.info[k] = c.info[k] /\ d.told[OfLoad(k)] = c.told[OfLoad(k)]
        /\ d.handle[OfLoad(k)] = c.handle[OfLoad(k)] /\ d.begun = c.begun
        /\ AskedSets(d, k) <=> AskedSets(c, k)
        /\ AskedSession(d, k) <=> AskedSession(c, k)
        /\ Queued(d, k) <=> Queued(c, k)
        /\ d.current = k <=> c.current = k
    <3>1. k # None
      BY LoadAssumption
    <3>2. "sets" \in Kinds /\ "session" \in Kinds
      BY DEF Kinds
    <3> QED BY <1>3, <2>2, <3>1, <3>2 DEF Beside, AskedSets, AskedSession, Queued
  <2>4. Referenced(d, k)
    BY <2>1, <2>3 DEF LoadInv, Referenced, Asked, Live
  <2>5. IsCurrent(d, k)
    BY <2>1, <2>3 DEF LoadInv, IsCurrent, Aborted, Live, Freed, Beside
  <2>6. Told(d, k)
    BY <2>1, <2>3 DEF LoadInv, Told, Live, Freed
  <2>7. Started(d, k)
    BY <2>1, <2>3 DEF LoadInv, Started, Beside
  <2> QED BY <2>4, <2>5, <2>6, <2>7 DEF LoadInv
<1>4. ASSUME NEW n \in Logins PROVE LoginInv(d, n)
  <2>1. LoginInv(c, n) /\ OfLogin(n) \in Operations /\ OfLogin(n) # OfLoad(l) /\ "login" \in Kinds
    BY Names DEF Rest, Kinds
  <2> QED BY <2>1 DEF LoginInv, Beside
<1>5. ASSUME NEW m \in Changes PROVE ChangeInv(d, m)
  <2>1. ChangeInv(c, m) /\ OfChange(m) \in Operations /\ OfChange(m) # OfLoad(l) /\ "media" \in Kinds
    BY Names DEF Rest, Kinds
  <2>2. m # None
    BY LoadAssumption DEF Loads
  <2>3. \A k \in Loads : d.load[k].media = m => c.load[k].media = m
    BY <2>2 DEF Beside
  <2> QED BY <2>1, <2>3 DEF ChangeInv, Beside
<1> QED BY <1>0, <1>2, <1>3, <1>4, <1>5 DEF Rest

(* So does one that leaves the game alone. *)
LEMMA AsideKeeps ==
  ASSUME NEW c, NEW d, NEW l \in Loads, Others(c, l), Aside(c, d, l)
  PROVE  Others(d, l)
<1>0. c \in ClientType /\ d \in ClientType
  BY DEF Others, Rest, Aside, Beside
<1>1. InFront(d)
  <2>1. InFront(c)
    BY DEF Others
  <2>2. d.current \in {None, d.begun} /\ d.game \in {None, d.begun} /\ (d.current # None => d.game = None)
    BY <2>1 DEF InFront, Aside, Beside
  <2>3. d.pings \subseteq {d.game}
    BY <2>1 DEF InFront, Aside, Beside
  <2>4. d.game # None => d.info[d.game] = c.info[c.game]
    <3>1. d.game = c.game /\ (d.game # None => d.game \in Loads)
      BY <1>0, Fields DEF Aside, Beside
    <3> QED BY <3>1 DEF Aside, Beside
  <2>5. d.game # None /\ d.info[d.game].id # None =>
          d.info[d.game].session \/ d.spectator = "locked" \/ "relocked" \in d.odd
    BY <2>1, <2>4 DEF InFront, Aside, Beside
  <2>6. ~d.alive => /\ d.current = None /\ d.game = None
                    /\ \A kind \in Kinds, o \in Operations : <<kind, o>> \in d.sent => d.handle[o] = "destroyed"
    BY <2>1 DEF InFront, Aside, Beside
  <2>7. d.alive => \A o \in Operations : d.handle[o] # "destroyed"
    BY <2>1 DEF InFront, Aside, Beside
  <2>8. \A i, j \in 1..Len(d.queue) : d.queue[i] = d.queue[j] => i = j
    BY <2>1 DEF InFront, Aside, Beside
  <2> QED BY <2>2, <2>3, <2>5, <2>6, <2>7, <2>8 DEF InFront
<1> QED BY <1>1, BesideKeeps DEF Aside, Others

(* The whole is one load and the others. *)
LEMMA Whole ==
  ASSUME NEW c, NEW l \in Loads PROVE ClientInv(c) <=> Others(c, l) /\ LoadInv(c, l)
BY DEF ClientInv, Others, Rest

(* Steps of the same load make one. *)
LEMMA AsideThrough ==
  ASSUME NEW c, NEW d, NEW e, NEW l \in Loads, Aside(c, d, l), Aside(d, e, l)
  PROVE  Aside(c, e, l)
BY DEF Aside, Beside

(* c with another state of the load l. *)
WithLoad(c, l, v) == [c EXCEPT !.load[l] = v]

(* What a load's state may become. *)
LEMMA WithLoadEffect ==
  ASSUME NEW c \in ClientType, NEW l \in Loads, NEW v \in LoadType, v.media \in {c.load[l].media, None},
         NEW d, d = WithLoad(c, l, v)
  PROVE  /\ Aside(c, d, l) /\ d.load[l] = v /\ d.info = c.info /\ d.told = c.told /\ d.sent = c.sent /\ d.handle = c.handle
         /\ d.current = c.current /\ d.spectator = c.spectator /\ d.odd = c.odd /\ d.user = c.user /\ d.id = c.id
<1>1. d \in ClientType
  BY DEF WithLoad, ClientType
<1>2. /\ d.alive = c.alive /\ d.begun = c.begun /\ d.game = c.game /\ d.pings = c.pings /\ d.queue = c.queue
      /\ d.change = c.change /\ d.misused = c.misused /\ d.odd = c.odd /\ d.spectator = c.spectator
      /\ d.current = c.current /\ d.load = [c.load EXCEPT ![l] = v] /\ d.info = c.info /\ d.told = c.told
      /\ d.sent = c.sent /\ d.handle = c.handle /\ d.user = c.user /\ d.id = c.id
  BY DEF WithLoad, ClientType
<1>3. d.load[l] = v /\ \A k \in Loads : k # l => d.load[k] = c.load[k]
  BY <1>2, Fields
<1>4. Aside(c, d, l)
  BY <1>1, <1>2, <1>3 DEF Aside, Beside
<1> QED BY <1>2, <1>3, <1>4

(* A caller is told. *)
LEMMA TellEffect ==
  ASSUME NEW c \in ClientType, NEW o \in Operations, NEW r \in Results, NEW d, d = Tell(c, o, r)
  PROVE  /\ d \in ClientType /\ d.told = [c.told EXCEPT ![o] = Append(@, r)]
         /\ d.alive = c.alive /\ d.begun = c.begun /\ d.game = c.game /\ d.pings = c.pings /\ d.queue = c.queue
         /\ d.change = c.change /\ d.misused = c.misused /\ d.odd = c.odd /\ d.spectator = c.spectator
         /\ d.current = c.current /\ d.load = c.load /\ d.info = c.info /\ d.sent = c.sent /\ d.handle = c.handle
         /\ d.user = c.user /\ d.id = c.id /\ d.hardcore = c.hardcore /\ d.background = c.background
<1>1. [c.told EXCEPT ![o] = Append(@, r)] \in [Operations -> Seq(Results)]
  BY Fields
<1> QED BY <1>1 DEF Tell, ClientType

(* A load's caller is told, if it gave a callback. *)
LEMMA TellLoadEffect ==
  ASSUME NEW c \in ClientType, NEW l \in Loads, NEW r \in Results, NEW d, d = TellLoad(c, l, r)
  PROVE  /\ Aside(c, d, l)
         /\ d.told[OfLoad(l)] = IF c.load[l].callback THEN Append(c.told[OfLoad(l)], r) ELSE c.told[OfLoad(l)]
         /\ d.current = c.current /\ d.load = c.load /\ d.info = c.info /\ d.sent = c.sent /\ d.handle = c.handle
         /\ d.user = c.user /\ d.id = c.id /\ d.spectator = c.spectator /\ d.odd = c.odd
<1>1. OfLoad(l) \in Operations /\ c.told \in [Operations -> Seq(Results)]
  BY Names, Fields
<1>2. CASE c.load[l].callback
  <2>1. d = Tell(c, OfLoad(l), r)
    BY <1>2 DEF TellLoad
  <2>2. /\ d \in ClientType /\ d.told = [c.told EXCEPT ![OfLoad(l)] = Append(@, r)]
        /\ d.alive = c.alive /\ d.begun = c.begun /\ d.game = c.game /\ d.pings = c.pings /\ d.queue = c.queue
        /\ d.change = c.change /\ d.misused = c.misused /\ d.odd = c.odd /\ d.spectator = c.spectator
        /\ d.current = c.current /\ d.load = c.load /\ d.info = c.info /\ d.sent = c.sent /\ d.handle = c.handle
        /\ d.user = c.user /\ d.id = c.id
    BY <1>1, <2>1, TellEffect
  <2>3. /\ d.told[OfLoad(l)] = Append(c.told[OfLoad(l)], r)
        /\ \A o \in Operations : o # OfLoad(l) => d.told[o] = c.told[o]
    BY <1>1, <2>2
  <2>4. Aside(c, d, l)
    BY <2>2, <2>3 DEF Aside, Beside
  <2> QED BY <1>2, <2>2, <2>3, <2>4
<1>3. CASE ~c.load[l].callback
  BY <1>3 DEF TellLoad, Aside, Beside
<1> QED BY <1>2, <1>3

-----------------------------------------------------------------------------
(* Freeing a load's state.                                                 *)

(* Nothing in flight or scheduled refers to it. *)
Unattached(c, l) == Live(c, l) /\ ~Asked(c, l) /\ ~Queued(c, l)

(* A load state that holds nothing. *)
LEMMA BlankFacts ==
  /\ BlankLoad \in LoadType /\ BlankLoad.outstanding = 0 /\ BlankLoad.progress = "none" /\ BlankLoad.media = None
  /\ BlankLoad.session = FALSE /\ BlankLoad.game = "none" /\ BlankLoad.callback = TRUE
BY DEF LoadType, BlankLoad

(* A load that is no longer the client's can be freed once nothing refers to it. *)
LEMMA FreeKeeps ==
  ASSUME NEW c, NEW l \in Loads, Others(c, l), Unattached(c, l), ~(c.begun < l),
         c.current = l => "relocked" \in c.odd,
         Len(c.told[OfLoad(l)]) <= 2, "ok" \in ToSet(c.told[OfLoad(l)]) => Len(c.told[OfLoad(l)]) = 1,
         NEW d, d = FreeLoadState(c, l)
  PROVE  ClientInv(d) /\ Aside(c, d, l) /\ Freed(d, l) /\ d.current = c.current
<1> DEFINE v == [BlankLoad EXCEPT !.memory = "freed"]
<1>0. c \in ClientType
  BY DEF Others, Rest
<1>1. /\ v \in LoadType /\ v.memory = "freed" /\ v.outstanding = 0 /\ v.progress = "none" /\ v.media = None
  <2>1. PICK s \in LoadType : s = BlankLoad
    BY BlankFacts
  <2>2. v = [s EXCEPT !.memory = "freed"]
    BY <2>1
  <2> HIDE DEF v
  <2>3. v \in LoadType
    BY <2>2 DEF LoadType
  <2>4. v.memory = "freed" /\ v.outstanding = s.outstanding /\ v.progress = s.progress /\ v.media = s.media
    BY <2>2 DEF LoadType
  <2> QED BY <2>1, <2>3, <2>4, BlankFacts
<1>3. d = WithLoad(c, l, v)
  BY DEF WithLoad, FreeLoadState, Unattached, Live, Freed
<1> HIDE DEF v
<1>4. /\ Aside(c, d, l) /\ d.load[l] = v /\ d.info = c.info /\ d.told = c.told /\ d.sent = c.sent /\ d.handle = c.handle
      /\ d.current = c.current /\ d.spectator = c.spectator /\ d.odd = c.odd
  BY <1>0, <1>1, <1>3, WithLoadEffect
<1>5. Others(d, l)
  BY <1>4, AsideKeeps
<1>6. LoadInv(d, l)
  <2>1. d.begun = c.begun /\ d.queue = c.queue
    BY <1>4 DEF Aside, Beside
  <2>2. ~Asked(d, l) /\ ~Queued(d, l) /\ ~AskedSets(d, l) /\ ~AskedSession(d, l)
    BY <1>4, <2>1 DEF Asked, AskedSets, AskedSession, Queued, Unattached
  <2>3. Referenced(d, l)
    BY <1>1, <1>4, <2>1, <2>2 DEF Referenced
  <2>4. IsCurrent(d, l)
    BY <1>1, <1>4, <2>2 DEF IsCurrent, Freed
  <2>5. Told(d, l)
    BY <1>1, <1>4 DEF Told, Freed, Live
  <2> QED BY <2>2, <2>3, <2>4, <2>5 DEF LoadInv, Started
<1> QED BY <1>1, <1>4, <1>5, <1>6, Whole DEF Freed

(* What was used after it was freed is noted, and nothing else.            *)
LEMMA MisuseKeeps ==
  ASSUME NEW c, ClientInv(c), c.odd # {}, NEW o \in Operations, NEW d, d = Misuse(c, o)
  PROVE  /\ ClientInv(d) /\ d.load = c.load /\ d.current = c.current /\ d.odd = c.odd /\ d.told = c.told /\ d.sent = c.sent
         /\ d.handle = c.handle /\ d.game = c.game /\ d.begun = c.begun /\ d.queue = c.queue /\ d.change = c.change
<1>1. c \in ClientType
  BY DEF ClientInv
<1>0. d \in ClientType
  <2>1. c.misused \cup {o} \in SUBSET Operations
    BY <1>1, Fields
  <2> QED BY <1>1, <2>1 DEF Misuse, ClientType
<1>2. /\ d \in ClientType /\ d.odd = c.odd
      /\ d.alive = c.alive /\ d.begun = c.begun /\ d.game = c.game /\ d.pings = c.pings /\ d.queue = c.queue
      /\ d.change = c.change /\ d.spectator = c.spectator /\ d.current = c.current /\ d.load = c.load /\ d.info = c.info
      /\ d.told = c.told /\ d.sent = c.sent /\ d.handle = c.handle
  BY <1>0, <1>1 DEF Misuse, ClientType
<1>3. InFront(d) /\ Sound(d)
  <2>1. InFront(c)
    BY DEF ClientInv
  <2>2. InFront(d)
    BY <1>2, <2>1 DEF InFront
  <2> QED BY <1>2, <2>2 DEF Sound
<1>4. ASSUME NEW l \in Loads PROVE LoadInv(d, l)
  <2>1. LoadInv(c, l)
    BY DEF ClientInv
  <2>2. /\ AskedSets(d, l) <=> AskedSets(c, l)
        /\ AskedSession(d, l) <=> AskedSession(c, l)
        /\ Asked(d, l) <=> Asked(c, l)
        /\ Queued(d, l) <=> Queued(c, l)
    BY <1>2 DEF AskedSets, AskedSession, Asked, Queued
  <2>3. Referenced(d, l) /\ IsCurrent(d, l)
    BY <1>2, <2>1, <2>2 DEF LoadInv, Referenced, IsCurrent, Live, Freed, Aborted
  <2>4. Told(d, l) /\ Started(d, l)
    BY <1>2, <2>1, <2>2 DEF LoadInv, Told, Started, Live, Freed
  <2> QED BY <2>3, <2>4 DEF LoadInv
<1>5. ASSUME NEW n \in Logins PROVE LoginInv(d, n)
  BY <1>2 DEF ClientInv, LoginInv
<1>6. ASSUME NEW m \in Changes PROVE ChangeInv(d, m)
  BY <1>2 DEF ClientInv, ChangeInv
<1> QED BY <1>2, <1>3, <1>4, <1>5, <1>6 DEF ClientInv

-----------------------------------------------------------------------------
(* The end of a request, and of a load.                                    *)

(* The answer to the load's request is being handled. *)
Answering(c, l) ==
  /\ Unattached(c, l) /\ ~(c.begun < l)
  /\ c.load[l].outstanding = 1 /\ c.load[l].progress # "await_login"
  /\ Len(c.told[OfLoad(l)]) <= 1 /\ "ok" \notin ToSet(c.told[OfLoad(l)])
  /\ c.current = l => c.told[OfLoad(l)] = <<>>

(* One more result that is not a success. *)
LEMMA AppendResult ==
  ASSUME NEW told \in Seq(Results), Len(told) <= 1, "ok" \notin ToSet(told), NEW r \in Results, r # "ok",
         NEW new \in {Append(told, r), told}
  PROVE  Len(new) <= 2 /\ "ok" \notin ToSet(new)
<1>1. Len(told) \in Nat /\ Len(Append(told, r)) = Len(told) + 1 /\ "ok" \notin ToSet(Append(told, r))
  BY DEF ToSet
<1>2. CASE new = told
  BY <1>1, <1>2
<1>3. CASE new = Append(told, r)
  BY <1>1, <1>3
<1> QED BY <1>2, <1>3

(* What holds of a load that nothing refers to. *)
LEMMA UnattachedFacts ==
  ASSUME NEW c, NEW l \in Loads, ClientInv(c), Unattached(c, l)
  PROVE  /\ c.load[l].outstanding = 0 /\ ~(c.begun < l)
         /\ Len(c.told[OfLoad(l)]) <= 1 /\ "ok" \notin ToSet(c.told[OfLoad(l)])
<1>1. LoadInv(c, l)
  BY DEF ClientInv
<1> QED BY <1>1 DEF LoadInv, Referenced, Told, Unattached, Live, Freed

(* The load is the client's no more. *)
Detached(c, l) == [c EXCEPT !.load[l].progress = "aborted", !.current = IF @ = l THEN None ELSE @]

(* Nothing else is changed by that. *)
LEMMA DetachedEffect ==
  ASSUME NEW c \in ClientType, NEW l \in Loads, NEW d, d = Detached(c, l)
  PROVE  /\ Aside(c, d, l) /\ d.load[l] = [c.load[l] EXCEPT !.progress = "aborted"] /\ d.current # l
         /\ d.told = c.told /\ d.sent = c.sent /\ d.handle = c.handle /\ d.odd = c.odd /\ d.info = c.info
         /\ d.spectator = c.spectator
<1>1. c.load[l] \in LoadType /\ c.load \in [Loads -> LoadType] /\ c.current \in Loads \cup {None}
  BY Fields
<1>2. [c.load[l] EXCEPT !.progress = "aborted"] \in LoadType /\ [c.load[l] EXCEPT !.progress = "aborted"].media = c.load[l].media
  BY <1>1 DEF LoadType
<1>3. PICK v \in LoadType : v = [c.load[l] EXCEPT !.progress = "aborted"] /\ v.media = c.load[l].media
  BY <1>2
<1>4. PICK current \in Loads \cup {None} : current = IF c.current = l THEN None ELSE c.current
  BY <1>1
<1>6. [c.load EXCEPT ![l] = v] \in [Loads -> LoadType]
  BY <1>1
<1>7. d \in ClientType
  BY <1>3, <1>4, <1>6 DEF Detached, ClientType
<1>8. /\ d.load = [c.load EXCEPT ![l] = v] /\ d.current = current
      /\ d.alive = c.alive /\ d.user = c.user /\ d.begun = c.begun /\ d.game = c.game /\ d.pings = c.pings /\ d.queue = c.queue
      /\ d.change = c.change /\ d.misused = c.misused /\ d.odd = c.odd /\ d.spectator = c.spectator
      /\ d.info = c.info /\ d.told = c.told /\ d.sent = c.sent /\ d.handle = c.handle
  BY <1>3, <1>4 DEF Detached, ClientType
<1>9. d.load[l] = v /\ \A k \in Loads : k # l => d.load[k] = c.load[k]
  BY <1>1, <1>8
<1>10. d.current # l /\ (d.current = c.current \/ (c.current = l /\ d.current = None))
  BY <1>4, <1>8, LoadAssumption
<1>11. Aside(c, d, l)
  BY <1>3, <1>7, <1>8, <1>9, <1>10 DEF Aside, Beside
<1> QED BY <1>3, <1>8, <1>9, <1>10, <1>11

(* rc_client_load_error of a load nothing refers to frees it, once it is   *)
(* the client's no more.                                                   *)
LEMMA LoadErrorOfDetached ==
  ASSUME NEW c \in ClientType, NEW l \in Loads, Others(Detached(c, l), l), Unattached(c, l), ~(c.begun < l),
         c.load[l].outstanding = 0, Len(c.told[OfLoad(l)]) <= 1, "ok" \notin ToSet(c.told[OfLoad(l)]),
         NEW r \in Results, r # "ok", NEW d, d = LoadError(c, l, r)
  PROVE  ClientInv(d) /\ Aside(c, d, l) /\ d.current # l /\ Freed(d, l)
<1>3. PICK e : e = Detached(c, l)
  OBVIOUS
<1>4. /\ Aside(c, e, l) /\ e.load[l] = [c.load[l] EXCEPT !.progress = "aborted"] /\ e.current # l
      /\ e.told = c.told /\ e.sent = c.sent
  BY <1>3, DetachedEffect
<1>5. PICK f : f = TellLoad(e, l, r)
  OBVIOUS
<1>6. e \in ClientType /\ e.queue = c.queue /\ e.begun = c.begun
  BY <1>4 DEF Aside, Beside
<1>7. /\ Aside(e, f, l) /\ f.load = e.load /\ f.current = e.current /\ f.sent = e.sent
      /\ f.told[OfLoad(l)] \in {Append(c.told[OfLoad(l)], r), c.told[OfLoad(l)]}
  <2>1. /\ Aside(e, f, l) /\ f.load = e.load /\ f.current = e.current /\ f.sent = e.sent
        /\ f.told[OfLoad(l)] = IF e.load[l].callback THEN Append(e.told[OfLoad(l)], r) ELSE e.told[OfLoad(l)]
    BY <1>5, <1>6, TellLoadEffect
  <2> QED BY <1>4, <2>1
<1>8. f.queue = c.queue /\ f.begun = c.begun
  BY <1>6, <1>7 DEF Aside, Beside
<1>9. d = FreeLoadState(f, l)
  BY <1>3, <1>5 DEF LoadError, Detached, Unattached, Live, Freed
<1>10. Others(f, l) /\ Aside(c, f, l)
  BY <1>3, <1>4, <1>7, AsideKeeps, AsideThrough
<1>11. Unattached(f, l)
  <2>1. c.load[l] \in LoadType
    BY Fields
  <2>2. f.load[l].memory = c.load[l].memory
    BY <2>1, <1>4, <1>7 DEF LoadType
  <2>3. ~Asked(f, l) /\ ~Queued(f, l)
    BY <1>4, <1>7, <1>8 DEF Unattached, Asked, AskedSets, AskedSession, Queued
  <2> QED BY <2>2, <2>3 DEF Unattached, Live
<1>12. Len(f.told[OfLoad(l)]) <= 2 /\ "ok" \notin ToSet(f.told[OfLoad(l)])
  <2>1. c.told[OfLoad(l)] \in Seq(Results)
    BY Fields, Names
  <2> QED BY <2>1, <1>7, AppendResult
<1>13. ClientInv(d) /\ Aside(f, d, l) /\ d.current = f.current /\ Freed(d, l)
  BY <1>4, <1>7, <1>8, <1>9, <1>10, <1>11, <1>12, FreeKeeps
<1> QED BY <1>4, <1>7, <1>10, <1>13, AsideThrough

(* Whichever load is the client's. *)
LEMMA LoadErrorKeeps ==
  ASSUME NEW c, ClientInv(c), NEW l \in Loads, Unattached(c, l), NEW r \in Results, r # "ok", NEW d, d = LoadError(c, l, r)
  PROVE  ClientInv(d) /\ Aside(c, d, l) /\ d.current # l /\ Freed(d, l)
<1>1. c \in ClientType /\ Others(c, l)
  BY Whole DEF ClientInv
<1>2. Aside(c, Detached(c, l), l)
  BY <1>1, DetachedEffect
<1>3. Others(Detached(c, l), l)
  BY <1>1, <1>2, AsideKeeps
<1> QED BY <1>1, <1>3, UnattachedFacts, LoadErrorOfDetached

(* rc_client_end_load_state: what is the client's goes on, what is not is  *)
(* told so and freed.                                                      *)
LEMMA EndLoadStateKeeps ==
  ASSUME NEW c, NEW l \in Loads, Others(c, l), Answering(c, l), NEW d, d = EndLoadState(c, l)
  PROVE  /\ ClientInv(d) /\ Aside(c, d, l) /\ d.current = c.current
         /\ c.current = l => Unattached(d, l) /\ d.load[l].progress # "await_login" /\ d.load[l].hash = c.load[l].hash
         /\ c.current # l => Freed(d, l)
<1>1. c \in ClientType /\ c.load[l] \in LoadType
  BY Fields DEF Others, Rest
<1>a. [c.load[l] EXCEPT !.outstanding = 0] \in LoadType
  BY <1>1 DEF LoadType
<1>b. PICK v \in LoadType : v = [c.load[l] EXCEPT !.outstanding = 0]
  BY <1>a
<1>2. /\ v = [c.load[l] EXCEPT !.outstanding = 0] /\ v.outstanding = 0
      /\ v.memory = c.load[l].memory /\ v.progress = c.load[l].progress
      /\ v.callback = c.load[l].callback /\ v.hash = c.load[l].hash /\ v.media \in {c.load[l].media, None}
  BY <1>1, <1>b DEF LoadType
<1>3. PICK e : e = WithLoad(c, l, v)
  OBVIOUS
<1>4. e = [c EXCEPT !.load[l].outstanding = OneFewer(@)]
  <2>1. OneFewer(c.load[l].outstanding) = 0
    BY DEF Answering, OneFewer
  <2>2. v = [c.load[l] EXCEPT !.outstanding = OneFewer(c.load[l].outstanding)]
    BY <1>2, <2>1
  <2> QED BY <1>3, <2>2 DEF WithLoad
<1>5. /\ Aside(c, e, l) /\ e.load[l] = v /\ e.info = c.info /\ e.told = c.told /\ e.sent = c.sent /\ e.handle = c.handle
      /\ e.current = c.current /\ e.spectator = c.spectator /\ e.odd = c.odd
  <2>1. v.media \in {c.load[l].media, None}
    BY <1>2
  <2> QED BY <1>1, <1>3, <2>1, WithLoadEffect
<1>6. e \in ClientType /\ e.queue = c.queue /\ e.begun = c.begun
  BY <1>5 DEF Aside, Beside
<1>7. Others(e, l)
  BY <1>5, AsideKeeps
<1>8. Unattached(e, l)
  <2>1. ~Asked(e, l) /\ ~Queued(e, l)
    BY <1>5, <1>6 DEF Answering, Unattached, Asked, AskedSets, AskedSession, Queued
  <2>2. Live(e, l)
    BY <1>2, <1>5 DEF Answering, Unattached, Live
  <2> QED BY <2>1, <2>2 DEF Unattached
<1>9. CASE c.current = l
  <2>1. d = e
    BY <1>4, <1>9, <1>8 DEF EndLoadState, Answering, Unattached, Live, Freed, Overtaken
  <2>2. Referenced(e, l)
    BY <1>2, <1>5, <1>6, <1>8 DEF Answering, Unattached, Referenced, Live, Asked
  <2>3. IsCurrent(e, l)
    BY <1>5, <1>8, <1>9 DEF Answering, Unattached, IsCurrent, Asked
  <2>4. Told(e, l)
    BY <1>5, <1>8 DEF Answering, Unattached, Told, Live, Freed
  <2>5. ClientInv(e)
    BY <1>7, <1>8, <2>2, <2>3, <2>4, Whole DEF LoadInv, Started, Unattached
  <2>6. e.load[l].progress # "await_login" /\ e.load[l].hash = c.load[l].hash
    BY <1>2, <1>5 DEF Answering
  <2> QED BY <1>5, <1>8, <1>9, <2>1, <2>5, <2>6
<1>10. CASE c.current # l
  <2>1. PICK f : f = IF c.load[l].progress # "aborted" THEN TellLoad(e, l, "aborted") ELSE e
    OBVIOUS
  <2>2. /\ Aside(e, f, l) /\ f.load = e.load /\ f.current = e.current /\ f.sent = e.sent
        /\ f.told[OfLoad(l)] \in {Append(c.told[OfLoad(l)], "aborted"), c.told[OfLoad(l)]}
    <3>1. "aborted" \in Results
      BY DEF Results
    <3>2. CASE c.load[l].progress # "aborted"
      <4>1. /\ Aside(e, f, l) /\ f.load = e.load /\ f.current = e.current /\ f.sent = e.sent
            /\ f.told[OfLoad(l)] = IF e.load[l].callback THEN Append(e.told[OfLoad(l)], "aborted") ELSE e.told[OfLoad(l)]
        BY <3>1, <3>2, <2>1, <1>6, TellLoadEffect
      <4> QED BY <4>1, <1>5
    <3>3. CASE c.load[l].progress = "aborted"
      BY <3>3, <2>1, <1>5, <1>6 DEF Aside, Beside
    <3> QED BY <3>2, <3>3
  <2>3. f.queue = c.queue /\ f.begun = c.begun /\ Others(f, l) /\ Aside(c, f, l)
    BY <1>5, <1>6, <1>7, <2>2, AsideKeeps, AsideThrough DEF Aside, Beside
  <2>4. d = FreeLoadState(f, l)
    BY <1>2, <1>4, <1>5, <1>8, <1>10, <2>1 DEF EndLoadState, Answering, Unattached, Live, Freed, Overtaken
  <2>5. Unattached(f, l)
    BY <1>6, <1>8, <2>2, <2>3 DEF Unattached, Live, Asked, AskedSets, AskedSession, Queued
  <2>6. Len(f.told[OfLoad(l)]) <= 2 /\ "ok" \notin ToSet(f.told[OfLoad(l)])
    <3>1. c.told[OfLoad(l)] \in Seq(Results) /\ "aborted" \in Results
      BY <1>1, Fields, Names DEF Results
    <3> QED BY <3>1, <2>2, AppendResult DEF Answering
  <2>7. ClientInv(d) /\ Aside(f, d, l) /\ d.current = f.current /\ Freed(d, l)
    <3>1. ~(f.begun < l) /\ f.current # l
      BY <1>5, <1>10, <2>2, <2>3 DEF Answering
    <3> QED BY <3>1, <2>3, <2>4, <2>5, <2>6, FreeKeeps
  <2> QED BY <1>5, <1>10, <2>2, <2>3, <2>7, AsideThrough
<1> QED BY <1>9, <1>10

(* rc_client_load_aborted frees the load and tells nobody.                 *)
LEMMA LoadAbortedKeeps ==
  ASSUME NEW c, NEW l \in Loads, Others(c, l), Answering(c, l), NEW d, d = LoadAborted(c, l)
  PROVE  ClientInv(d) /\ Aside(c, d, l) /\ d.current # l
<1>1. c \in ClientType /\ c.load[l] \in LoadType
  BY Fields DEF Others, Rest
<1>2. [c.load[l] EXCEPT !.callback = FALSE] \in LoadType
  BY <1>1 DEF LoadType
<1>3. PICK v \in LoadType : v = [c.load[l] EXCEPT !.callback = FALSE]
  BY <1>2
<1>4. /\ v.memory = c.load[l].memory /\ v.outstanding = c.load[l].outstanding /\ v.callback = FALSE
      /\ v.media \in {c.load[l].media, None} /\ v.progress = c.load[l].progress
  BY <1>1, <1>3 DEF LoadType
<1>5. PICK e : e = WithLoad(c, l, v)
  OBVIOUS
<1>6. /\ Aside(c, e, l) /\ e.load[l] = v /\ e.told = c.told /\ e.sent = c.sent /\ e.current = c.current
  BY <1>1, <1>4, <1>5, WithLoadEffect
<1>7. e = [c EXCEPT !.load[l].callback = IF Freed(c, l) THEN @ ELSE FALSE]
  BY <1>3, <1>5 DEF WithLoad, Answering, Unattached, Live, Freed
<1>8. PICK f : f = Detached(e, l)
  OBVIOUS
<1>9. e \in ClientType /\ e.queue = c.queue /\ e.begun = c.begun
  BY <1>6 DEF Aside, Beside
<1>10. /\ Aside(e, f, l) /\ f.load[l] = [v EXCEPT !.progress = "aborted"] /\ f.current # l
       /\ f.told = c.told /\ f.sent = c.sent
  BY <1>6, <1>8, <1>9, DetachedEffect
<1>11. f = LoadError(e, l, "aborted")
  <2>1. ~Freed(e, l) /\ e.load[l].outstanding # 0
    BY <1>4, <1>6 DEF Answering, Unattached, Live, Freed
  <2>2. LoadError(e, l, "aborted") = TellLoad(f, l, "aborted")
    BY <1>8, <2>1 DEF LoadError, Detached
  <2>3. ~f.load[l].callback
    BY <1>4, <1>10 DEF LoadType
  <2> QED BY <2>2, <2>3 DEF TellLoad
<1>12. Others(f, l) /\ Aside(c, f, l)
  BY <1>6, <1>10, AsideKeeps, AsideThrough
<1>13. Answering(f, l)
  <2>1. f.queue = c.queue /\ f.begun = c.begun
    BY <1>9, <1>10 DEF Aside, Beside
  <2>2. /\ f.load[l].memory = c.load[l].memory /\ f.load[l].outstanding = c.load[l].outstanding
        /\ f.load[l].progress = "aborted"
    BY <1>4, <1>10 DEF LoadType
  <2>3. Unattached(f, l)
    BY <1>10, <2>1, <2>2 DEF Answering, Unattached, Live, Asked, AskedSets, AskedSession, Queued
  <2> QED BY <1>10, <2>1, <2>2, <2>3 DEF Answering
<1>14. d = EndLoadState(f, l)
  BY <1>7, <1>11 DEF LoadAborted
<1> QED BY <1>10, <1>12, <1>13, <1>14, EndLoadStateKeeps, AsideThrough

(* rc_client_process_resolved_hash, of a hash nobody knows: the game stays *)
(* the client's without an identifier, the load is freed.                  *)
LEMMA UnknownGameKeeps ==
  ASSUME NEW c, ClientInv(c), NEW l \in Loads, Unattached(c, l), c.current = l, NEW d, d = UnknownGame(c, l)
  PROVE  ClientInv(d) /\ d.current = None
<1>1. c \in ClientType /\ Others(c, l) /\ InFront(c) /\ c.load[l] \in LoadType
  BY Whole, Fields DEF ClientInv
<1>2. l # None /\ c.begun = l /\ c.game = None /\ c.alive /\ c.pings = {}
  BY <1>1, Fields, LoadAssumption DEF InFront
<1>3. PICK g \in GameType : g = [BlankGame EXCEPT !.hash = c.load[l].hash] /\ g.id = None
  <2>0. BlankGame \in GameType /\ BlankGame.id = None
    BY DEF GameType, BlankGame
  <2>1. PICK b \in GameType : b = BlankGame /\ b.id = None
    BY <2>0
  <2>2. c.load[l].hash \in Hashes \cup {None}
    BY <1>1 DEF LoadType
  <2>3. [b EXCEPT !.hash = c.load[l].hash] \in GameType /\ [b EXCEPT !.hash = c.load[l].hash].id = None
    BY <2>1, <2>2 DEF GameType
  <2> QED BY <2>1, <2>3
<1>4. [c.load[l] EXCEPT !.game = "none"] \in LoadType
  BY <1>1 DEF LoadType
<1>5. PICK v \in LoadType : v = [c.load[l] EXCEPT !.game = "none"]
  BY <1>4
<1>6. PICK e : e = [c EXCEPT !.info[l] = g, !.game = l, !.load[l].game = "none"]
  OBVIOUS
<1>7. e \in ClientType
  <2>1. [c.info EXCEPT ![l] = g] \in [Loads -> GameType] /\ [c.load EXCEPT ![l] = v] \in [Loads -> LoadType]
    BY <1>1, Fields
  <2> QED BY <1>1, <1>5, <1>6, <2>1 DEF ClientType
<1>8. /\ e.alive = c.alive /\ e.user = c.user /\ e.begun = c.begun /\ e.pings = c.pings /\ e.queue = c.queue /\ e.change = c.change
      /\ e.misused = c.misused /\ e.odd = c.odd /\ e.spectator = c.spectator /\ e.current = c.current /\ e.told = c.told
      /\ e.sent = c.sent /\ e.handle = c.handle /\ e.game = l
      /\ e.info = [c.info EXCEPT ![l] = g] /\ e.load = [c.load EXCEPT ![l] = v]
  BY <1>1, <1>5, <1>6 DEF ClientType
<1>9. PICK f : f = Detached(e, l)
  OBVIOUS
<1>10. /\ Aside(e, f, l) /\ f.load[l] = [e.load[l] EXCEPT !.progress = "aborted"] /\ f.current # l
       /\ f.told = e.told /\ f.sent = e.sent /\ f.handle = e.handle /\ f.odd = e.odd /\ f.info = e.info
  BY <1>7, <1>9, DetachedEffect
<1>11. f.current = None /\ f.game = l /\ f.alive /\ f.begun = l /\ f.pings = {} /\ f.queue = c.queue
  BY <1>2, <1>8, <1>10 DEF Aside, Beside
<1>12. f.info[f.game].id = None
  BY <1>1, <1>3, <1>8, <1>10, <1>11, Fields
<1>13. InFront(f)
  BY <1>1, <1>2, <1>8, <1>10, <1>11, <1>12 DEF InFront
<1>14. Beside(c, f, l)
  <2>1. /\ f.load[l].media \in {c.load[l].media, None}
        /\ \A k \in Loads : k # l => f.load[k] = c.load[k] /\ f.info[k] = c.info[k]
    <3>1. v.media = c.load[l].media
      BY <1>1, <1>5 DEF LoadType
    <3>2. e.load[l] = v /\ \A k \in Loads : k # l => e.load[k] = c.load[k] /\ e.info[k] = c.info[k]
      BY <1>1, <1>8, Fields
    <3> QED BY <3>1, <3>2, <1>10 DEF Aside, Beside
  <2> QED BY <2>1, <1>8, <1>10, <1>11 DEF Aside, Beside
<1>15. Others(f, l)
  BY <1>1, <1>13, <1>14, BesideKeeps DEF Others
<1>16. Unattached(e, l) /\ ~(e.begun < l) /\ e.load[l].outstanding = 0
       /\ Len(e.told[OfLoad(l)]) <= 1 /\ "ok" \notin ToSet(e.told[OfLoad(l)])
  <2>1. /\ c.load[l].outstanding = 0 /\ ~(c.begun < l)
        /\ Len(c.told[OfLoad(l)]) <= 1 /\ "ok" \notin ToSet(c.told[OfLoad(l)])
    BY UnattachedFacts
  <2>2. e.load[l].outstanding = c.load[l].outstanding /\ e.load[l].memory = c.load[l].memory
    BY <1>1, <1>5, <1>8, Fields DEF LoadType
  <2>3. Unattached(e, l)
    BY <2>2, <1>8 DEF Unattached, Live, Asked, AskedSets, AskedSession, Queued
  <2> QED BY <2>1, <2>2, <2>3, <1>8
<1>17. d = LoadError(e, l, "no_game") /\ "no_game" \in Results
  BY <1>3, <1>6 DEF UnknownGame, Results
<1>18. ClientInv(d) /\ Aside(e, d, l) /\ d.current # l
  BY <1>7, <1>9, <1>15, <1>16, <1>17, LoadErrorOfDetached
<1> QED BY <1>2, <1>8, <1>18 DEF Aside, Beside

-----------------------------------------------------------------------------
(* Requests and their answers.                                             *)

(* The load sends a request. *)
Asking(c, l, progress, kind) ==
  Send(BeginLoadState([c EXCEPT !.handle[OfLoad(l)] = "fine"], l, progress, 1), kind, OfLoad(l))

(* What the request of a living client changes.                            *)
LEMMA AskingEffect ==
  ASSUME NEW c \in ClientType, NEW l \in Loads, c.alive, c.handle[OfLoad(l)] # "destroyed",
         NEW progress \in {"identifying", "starting"}, NEW kind \in {"sets", "session"},
         NEW d, d = Asking(c, l, progress, kind)
  PROVE  /\ Aside(c, d, l) /\ d.current = c.current /\ d.told = c.told /\ d.info = c.info /\ d.spectator = c.spectator
         /\ d.odd = c.odd /\ d.id = c.id
         /\ d.load[l].progress = progress /\ d.load[l].outstanding = c.load[l].outstanding + 1
         /\ d.load[l].memory = c.load[l].memory /\ d.load[l].callback = c.load[l].callback
         /\ d.load[l].hash = c.load[l].hash /\ d.load[l].session = c.load[l].session /\ d.load[l].media = c.load[l].media
         /\ d.sent = c.sent \cup {<<kind, OfLoad(l)>>} /\ d.handle[OfLoad(l)] = "fine"
<1>1. c.load[l] \in LoadType /\ OfLoad(l) \in Operations /\ kind \in Kinds
  BY Fields, Names DEF Kinds
<1>a. PICK n \in Nat : n = c.load[l].outstanding + 1
  BY <1>1 DEF LoadType
<1>2. [c.load[l] EXCEPT !.progress = progress, !.outstanding = n] \in LoadType
  BY <1>1 DEF LoadType
<1>3. PICK v \in LoadType : v = [c.load[l] EXCEPT !.progress = progress, !.outstanding = n]
  BY <1>2
<1>4. /\ v.progress = progress /\ v.outstanding = c.load[l].outstanding + 1 /\ v.memory = c.load[l].memory
      /\ v.callback = c.load[l].callback /\ v.hash = c.load[l].hash /\ v.session = c.load[l].session
      /\ v.media = c.load[l].media
  BY <1>1, <1>a, <1>3 DEF LoadType
<1>5. PICK h : h = [c.handle EXCEPT ![OfLoad(l)] = "fine"]
  OBVIOUS
<1>6. /\ h \in [Operations -> {"unused", "fine", "aborted", "destroyed"}] /\ h[OfLoad(l)] = "fine"
      /\ \A o \in Operations : o # OfLoad(l) => h[o] = c.handle[o]
  BY <1>1, <1>5, Fields
<1>7. PICK s \in SUBSET Requests : s = c.sent \cup {<<kind, OfLoad(l)>>}
  <2>1. <<kind, OfLoad(l)>> \in Requests
    BY <1>1 DEF Requests
  <2> QED BY <2>1, Fields
<1>9. PICK w \in [Loads -> LoadType] : w = [c.load EXCEPT ![l] = v]
  BY Fields
<1>10. PICK b \in ClientType : b = [c EXCEPT !.handle = h]
  <2>1. [c EXCEPT !.handle = h] \in ClientType
    BY <1>6 DEF ClientType
  <2> QED BY <2>1
<1>b. b.load = c.load /\ b.sent = c.sent
  BY <1>10 DEF ClientType
<1>c. PICK p \in ClientType : p = [b EXCEPT !.load = w]
  <2>1. [b EXCEPT !.load = w] \in ClientType
    BY <1>9 DEF ClientType
  <2> QED BY <2>1
<1>d. BeginLoadState(b, l, progress, 1) = p
  <2>1. v = [c.load[l] EXCEPT !.progress = progress, !.outstanding = c.load[l].outstanding + 1]
    BY <1>a, <1>3
  <2> QED BY <2>1, <1>b, <1>9, <1>c DEF BeginLoadState
<1>e. p.sent = c.sent
  BY <1>b, <1>c DEF ClientType
<1>f. d = [p EXCEPT !.sent = s]
  BY <1>5, <1>7, <1>10, <1>d, <1>e DEF Asking, Send
<1>g. PICK q \in ClientType : q = [p EXCEPT !.sent = s]
  <2>1. [p EXCEPT !.sent = s] \in ClientType
    BY DEF ClientType
  <2> QED BY <2>1
<1>11. d \in ClientType /\ d = q
  BY <1>f, <1>g
<1>12. /\ d.alive = c.alive /\ d.user = c.user /\ d.begun = c.begun /\ d.game = c.game /\ d.pings = c.pings /\ d.queue = c.queue
       /\ d.change = c.change /\ d.misused = c.misused /\ d.odd = c.odd /\ d.spectator = c.spectator
       /\ d.current = c.current /\ d.load = w /\ d.info = c.info /\ d.told = c.told
       /\ d.sent = s /\ d.handle = h /\ d.id = c.id
  <2>1. /\ q.alive = c.alive /\ q.user = c.user /\ q.begun = c.begun /\ q.game = c.game /\ q.pings = c.pings /\ q.queue = c.queue
        /\ q.change = c.change /\ q.misused = c.misused /\ q.odd = c.odd /\ q.spectator = c.spectator
        /\ q.current = c.current /\ q.load = w /\ q.info = c.info /\ q.told = c.told
        /\ q.sent = s /\ q.handle = h /\ q.id = c.id
    <3>1. /\ b.alive = c.alive /\ b.user = c.user /\ b.begun = c.begun /\ b.game = c.game /\ b.pings = c.pings /\ b.queue = c.queue
          /\ b.change = c.change /\ b.misused = c.misused /\ b.odd = c.odd /\ b.spectator = c.spectator
          /\ b.current = c.current /\ b.info = c.info /\ b.told = c.told /\ b.handle = h /\ b.id = c.id
      BY <1>10 DEF ClientType
    <3>2. /\ p.alive = b.alive /\ p.user = b.user /\ p.begun = b.begun /\ p.game = b.game /\ p.pings = b.pings /\ p.queue = b.queue
          /\ p.change = b.change /\ p.misused = b.misused /\ p.odd = b.odd /\ p.spectator = b.spectator
          /\ p.current = b.current /\ p.load = w /\ p.info = b.info /\ p.told = b.told /\ p.handle = b.handle /\ p.id = b.id
      BY <1>c DEF ClientType
    <3>3. /\ q.alive = p.alive /\ q.user = p.user /\ q.begun = p.begun /\ q.game = p.game /\ q.pings = p.pings /\ q.queue = p.queue
          /\ q.change = p.change /\ q.misused = p.misused /\ q.odd = p.odd /\ q.spectator = p.spectator
          /\ q.current = p.current /\ q.load = p.load /\ q.info = p.info /\ q.told = p.told
          /\ q.sent = s /\ q.handle = p.handle /\ q.id = p.id
      BY <1>g DEF ClientType
    <3> QED BY <3>1, <3>2, <3>3
  <2> QED BY <1>11, <2>1
<1>13. d.load[l] = v /\ \A k \in Loads : k # l => d.load[k] = c.load[k]
  BY <1>9, <1>12, Fields
<1>14. Aside(c, d, l)
  <2>1. \A o \in Operations : o # OfLoad(l) => \A k \in Kinds : <<k, o>> \in d.sent <=> <<k, o>> \in c.sent
    BY <1>7, <1>12
  <2>2. d.load[l].media \in {c.load[l].media, None}
    BY <1>4, <1>13
  <2>3. Beside(c, d, l)
    BY <1>6, <1>11, <1>12, <1>13, <2>1, <2>2 DEF Beside
  <2> QED BY <1>6, <1>12, <2>3 DEF Aside
<1> QED BY <1>4, <1>6, <1>7, <1>12, <1>13, <1>14

(* rc_client_begin_fetch_game_sets: the load waits for the user, asks or   *)
(* fails.                                                                  *)
LEMMA BeginFetchGameSetsKeeps ==
  ASSUME NEW c, ClientInv(c), NEW l \in Loads, Unattached(c, l), c.current = l, NEW d, d = BeginFetchGameSets(c, l)
  PROVE  ClientInv(d) /\ Aside(c, d, l)
<1>1. c \in ClientType /\ Others(c, l) /\ LoadInv(c, l) /\ InFront(c) /\ c.load[l] \in LoadType
  BY Whole, Fields DEF ClientInv
<1>2. c.alive /\ c.handle[OfLoad(l)] # "destroyed" /\ ~(c.begun < l)
  <2>1. l # None /\ OfLoad(l) \in Operations
    BY LoadAssumption, Names
  <2> QED BY <1>1, <2>1, UnattachedFacts, Fields DEF InFront
<1>3. c.told[OfLoad(l)] = <<>> /\ c.load[l].outstanding = 0
  BY <1>1, UnattachedFacts DEF LoadInv, IsCurrent, Unattached, Live, Freed
<1>4. CASE c.user = "requested"
  <2>1. [c.load[l] EXCEPT !.progress = "await_login"] \in LoadType
    BY <1>1 DEF LoadType
  <2>2. PICK v \in LoadType : v = [c.load[l] EXCEPT !.progress = "await_login"]
    BY <2>1
  <2>3. v.memory = c.load[l].memory /\ v.outstanding = c.load[l].outstanding /\ v.media \in {c.load[l].media, None}
    BY <1>1, <2>2 DEF LoadType
  <2>4. d = WithLoad(c, l, v)
    BY <1>4, <2>2 DEF BeginFetchGameSets, WithLoad
  <2>5. /\ Aside(c, d, l) /\ d.load[l] = v /\ d.told = c.told /\ d.sent = c.sent /\ d.current = c.current
    BY <1>1, <2>3, <2>4, WithLoadEffect
  <2>6. Others(d, l) /\ d.queue = c.queue /\ d.begun = c.begun
    BY <1>1, <2>5, AsideKeeps DEF Aside, Beside
  <2>7. Unattached(d, l) /\ ~AskedSets(d, l) /\ ~AskedSession(d, l)
    BY <2>3, <2>5, <2>6 DEF Unattached, Live, Asked, AskedSets, AskedSession, Queued
  <2>8. Referenced(d, l)
    BY <1>2, <1>3, <2>3, <2>5, <2>6, <2>7 DEF Referenced, Unattached, Live
  <2>9. IsCurrent(d, l) /\ Told(d, l) /\ Started(d, l)
    BY <1>3, <2>5, <2>7 DEF IsCurrent, Told, Started, Unattached, Live, Freed, ToSet
  <2> QED BY <2>5, <2>6, <2>8, <2>9, Whole DEF LoadInv
<1>5. CASE c.user = "none"
  <2>1. d = LoadError(c, l, "login_required") /\ "login_required" \in Results
    BY <1>5 DEF BeginFetchGameSets, Results
  <2> QED BY <2>1, LoadErrorKeeps
<1>6. CASE c.user \notin {"none", "requested"}
  <2>1. d = Asking(c, l, "identifying", "sets")
    BY <1>6 DEF BeginFetchGameSets, Asking
  <2>2. /\ Aside(c, d, l) /\ d.current = c.current /\ d.told = c.told
        /\ d.load[l].progress = "identifying" /\ d.load[l].outstanding = c.load[l].outstanding + 1
        /\ d.load[l].memory = c.load[l].memory /\ d.sent = c.sent \cup {<<"sets", OfLoad(l)>>}
    BY <1>1, <1>2, <2>1, AskingEffect
  <2>3. Others(d, l) /\ d.queue = c.queue /\ d.begun = c.begun
    BY <1>1, <2>2, AsideKeeps DEF Aside, Beside
  <2>4. AskedSets(d, l) /\ ~AskedSession(d, l) /\ ~Queued(d, l) /\ Live(d, l)
    BY <2>2, <2>3 DEF Unattached, Live, Asked, AskedSets, AskedSession, Queued
  <2>5. Referenced(d, l)
    BY <1>2, <1>3, <2>2, <2>3, <2>4 DEF Referenced, Asked, Live
  <2>6. IsCurrent(d, l) /\ Told(d, l) /\ Started(d, l)
    BY <1>3, <2>2, <2>4 DEF IsCurrent, Told, Started, Live, Freed, ToSet
  <2> QED BY <2>2, <2>3, <2>5, <2>6, Whole DEF LoadInv
<1> QED BY <1>4, <1>5, <1>6

(* An answer is taken out of what is in flight. *)
Received(c, kind, o) == [c EXCEPT !.sent = @ \ {<<kind, o>>}]

(* Nothing else changes. *)
LEMMA ReceivedEffect ==
  ASSUME NEW c \in ClientType, NEW kind, NEW o, NEW d, d = Received(c, kind, o)
  PROVE  /\ d \in ClientType /\ d.sent = c.sent \ {<<kind, o>>}
         /\ d.alive = c.alive /\ d.begun = c.begun /\ d.game = c.game /\ d.pings = c.pings /\ d.queue = c.queue
         /\ d.change = c.change /\ d.misused = c.misused /\ d.odd = c.odd /\ d.spectator = c.spectator
         /\ d.current = c.current /\ d.load = c.load /\ d.info = c.info /\ d.told = c.told /\ d.handle = c.handle
         /\ d.user = c.user /\ d.id = c.id /\ d.hardcore = c.hardcore /\ d.background = c.background
<1>1. PICK s \in SUBSET Requests : s = c.sent \ {<<kind, o>>}
  BY Fields
<1>2. PICK e \in ClientType : e = [c EXCEPT !.sent = s]
  <2>1. [c EXCEPT !.sent = s] \in ClientType
    BY DEF ClientType
  <2> QED BY <2>1
<1>3. d = e
  BY <1>1, <1>2 DEF Received
<1>4. /\ e.alive = c.alive /\ e.begun = c.begun /\ e.game = c.game /\ e.pings = c.pings /\ e.queue = c.queue
      /\ e.change = c.change /\ e.misused = c.misused /\ e.odd = c.odd /\ e.spectator = c.spectator
      /\ e.current = c.current /\ e.load = c.load /\ e.info = c.info /\ e.told = c.told /\ e.handle = c.handle
      /\ e.user = c.user /\ e.id = c.id /\ e.hardcore = c.hardcore /\ e.background = c.background /\ e.sent = s
  BY <1>2 DEF ClientType
<1> QED BY <1>1, <1>3, <1>4

(* A load's answer is taken out of the requests in flight: the load is     *)
(* answering, and, unless the request was aborted or an answer without     *)
(* sets came before, it is the client's.                                   *)
LEMMA AnsweredHolds ==
  ASSUME NEW c, ClientInv(c), NEW l \in Loads, NEW kind, kind = "sets" \/ kind = "session",
         <<kind, OfLoad(l)>> \in c.sent, NEW d, d = Received(c, kind, OfLoad(l))
  PROVE  /\ Others(d, l) /\ Answering(d, l) /\ d.handle = c.handle /\ d.odd = c.odd
         /\ d.handle[OfLoad(l)] = "destroyed" => d.current # l
         /\ d.handle[OfLoad(l)] \notin {"aborted", "destroyed"} => d.current = l \/ (kind = "session" /\ "empty" \in d.odd)
<1>1. c \in ClientType /\ Others(c, l) /\ LoadInv(c, l) /\ InFront(c) /\ OfLoad(l) \in Operations /\ kind \in Kinds
  BY Whole, Names DEF ClientInv, Kinds
<1>2. PICK s : s = c.sent \ {<<kind, OfLoad(l)>>}
  OBVIOUS
<1>4. c \in ClientType
  BY <1>1
<1>5. /\ d \in ClientType /\ d.alive = c.alive /\ d.user = c.user /\ d.begun = c.begun /\ d.game = c.game /\ d.pings = c.pings
      /\ d.queue = c.queue /\ d.change = c.change /\ d.misused = c.misused /\ d.odd = c.odd /\ d.spectator = c.spectator
      /\ d.current = c.current /\ d.load = c.load /\ d.info = c.info /\ d.told = c.told
      /\ d.sent = s /\ d.handle = c.handle
  BY <1>2, <1>4, ReceivedEffect
<1>6. Aside(c, d, l)
  <2>1. \A o \in Operations : o # OfLoad(l) => \A k \in Kinds : <<k, o>> \in d.sent <=> <<k, o>> \in c.sent
    BY <1>2, <1>5
  <2>2. Beside(c, d, l)
    BY <1>4, <1>5, <2>1 DEF Beside
  <2> QED BY <1>2, <1>5, <2>2 DEF Aside
<1>7. Others(d, l)
  BY <1>1, <1>6, AsideKeeps
<1>8. Asked(c, l) /\ ~(AskedSets(c, l) /\ AskedSession(c, l)) /\ Live(c, l) /\ ~Queued(c, l) /\ c.load[l].outstanding = 1
      /\ c.load[l].progress # "await_login" /\ ~(c.begun < l)
  BY <1>1 DEF LoadInv, Referenced, Asked, AskedSets, AskedSession, Live
<1>9. ~Asked(d, l)
  BY <1>2, <1>5, <1>8 DEF Asked, AskedSets, AskedSession
<1>10. Unattached(d, l)
  BY <1>5, <1>8, <1>9 DEF Unattached, Live, Queued
<1>11. Answering(d, l)
  BY <1>1, <1>5, <1>8, <1>10 DEF Answering, LoadInv, Told, IsCurrent, Live, Freed
<1>12. c.handle[OfLoad(l)] = "destroyed" => c.current # l
  BY <1>1, LoadAssumption DEF InFront
<1>13. c.handle[OfLoad(l)] \notin {"aborted", "destroyed"} => c.current = l \/ (kind = "session" /\ "empty" \in c.odd)
  BY <1>1 DEF LoadInv, IsCurrent, AskedSets, AskedSession, Aborted
<1> QED BY <1>5, <1>7, <1>11, <1>12, <1>13

-----------------------------------------------------------------------------
(* Changes of media.                                                       *)

(* d is c but for what the media change m concerns: its requests, what its *)
(* caller was told, the load it is kept in and the hash of the game.       *)
MediaStep(c, d, m) ==
  /\ d \in ClientType /\ (Sound(c) => Sound(d))
  /\ d.alive = c.alive /\ d.begun = c.begun /\ d.current = c.current /\ d.game = c.game /\ d.spectator = c.spectator
  /\ d.queue = c.queue /\ d.pings = c.pings /\ c.odd \subseteq d.odd
  /\ \A k \in Loads : /\ d.load[k].memory = c.load[k].memory /\ d.load[k].progress = c.load[k].progress
                      /\ d.load[k].outstanding = c.load[k].outstanding /\ d.load[k].session = c.load[k].session
                      /\ d.load[k].media \in {c.load[k].media, m}
                      /\ d.info[k].id = c.info[k].id /\ d.info[k].session = c.info[k].session
  /\ \A n \in Changes : n # m => d.change[n] = c.change[n]
  /\ \A o \in Operations : o # OfChange(m) =>
       /\ d.handle[o] = c.handle[o] /\ d.told[o] = c.told[o]
       /\ \A kind \in Kinds : <<kind, o>> \in d.sent <=> <<kind, o>> \in c.sent
  /\ d.handle[OfChange(m)] \in {c.handle[OfChange(m)], "fine"}

(* The media change has been made or is about to be asked for: it waits    *)
(* nowhere.                                                                *)
Changing(c, m) ==
  /\ c \in ClientType /\ c.told[OfChange(m)] = <<>> /\ <<"media", OfChange(m)>> \notin c.sent
  /\ \A l \in Loads : c.load[l].media # m
  /\ c.change[m].hash # None

(* Such a step keeps what holds of loads, logins and other changes. *)
LEMMA MediaKeepsParts ==
  ASSUME NEW c \in ClientType, NEW d, NEW m \in Changes, MediaStep(c, d, m)
  PROVE  /\ \A l \in Loads : LoadInv(c, l) => LoadInv(d, l)
         /\ \A n \in Logins : LoginInv(c, n) => LoginInv(d, n)
         /\ \A n \in Changes : n # m /\ ChangeInv(c, n) => ChangeInv(d, n)
<1>1. ASSUME NEW l \in Loads, LoadInv(c, l) PROVE LoadInv(d, l)
  <2>1. /\ d.load[l].memory = c.load[l].memory /\ d.load[l].progress = c.load[l].progress
        /\ d.load[l].outstanding = c.load[l].outstanding /\ d.load[l].session = c.load[l].session
        /\ d.info[l].session = c.info[l].session /\ d.begun = c.begun /\ d.current = c.current /\ d.queue = c.queue
        /\ d.spectator = c.spectator /\ c.odd \subseteq d.odd
    BY DEF MediaStep
  <2>2. OfLoad(l) \in Operations /\ OfLoad(l) # OfChange(m) /\ "sets" \in Kinds /\ "session" \in Kinds
    BY Names DEF Kinds
  <2>3. /\ d.handle[OfLoad(l)] = c.handle[OfLoad(l)] /\ d.told[OfLoad(l)] = c.told[OfLoad(l)]
        /\ AskedSets(d, l) <=> AskedSets(c, l)
        /\ AskedSession(d, l) <=> AskedSession(c, l)
    BY <2>2 DEF MediaStep, AskedSets, AskedSession
  <2>4. (Queued(d, l) <=> Queued(c, l)) /\ (Asked(d, l) <=> Asked(c, l))
    BY <2>1, <2>3 DEF Queued, Asked
  <2>5. Referenced(d, l)
    BY <1>1, <2>1, <2>3, <2>4 DEF LoadInv, Referenced, Live
  <2>6. IsCurrent(d, l)
    BY <1>1, <2>1, <2>3, <2>4 DEF LoadInv, IsCurrent, Live, Freed, Aborted
  <2>7. Told(d, l) /\ Started(d, l)
    BY <1>1, <2>1, <2>3, <2>4 DEF LoadInv, Told, Started, Live, Freed
  <2> QED BY <2>5, <2>6, <2>7 DEF LoadInv
<1>2. ASSUME NEW n \in Logins, LoginInv(c, n) PROVE LoginInv(d, n)
  <2>1. OfLogin(n) \in Operations /\ OfLogin(n) # OfChange(m) /\ "login" \in Kinds
    BY Names DEF Kinds
  <2> QED BY <1>2, <2>1 DEF LoginInv, MediaStep
<1>3. ASSUME NEW n \in Changes, n # m, ChangeInv(c, n) PROVE ChangeInv(d, n)
  <2>1. OfChange(n) \in Operations /\ OfChange(n) # OfChange(m) /\ "media" \in Kinds
    BY <1>3, Names DEF Kinds
  <2>2. \A k \in Loads : d.load[k].media = n => c.load[k].media = n
    BY <1>3 DEF MediaStep
  <2>3. /\ d.change[n] = c.change[n] /\ d.told[OfChange(n)] = c.told[OfChange(n)]
        /\ <<"media", OfChange(n)>> \in d.sent <=> <<"media", OfChange(n)>> \in c.sent
    BY <1>3, <2>1 DEF MediaStep
  <2> QED BY <1>3, <2>2, <2>3 DEF ChangeInv
<1> QED BY <1>1, <1>2, <1>3

(* And what holds of everything apart from one load. *)
LEMMA MediaKeepsRest ==
  ASSUME NEW c, NEW d, NEW m \in Changes, NEW l \in Loads, Rest(c, l), MediaStep(c, d, m), ChangeInv(d, m)
  PROVE  Rest(d, l)
<1>1. c \in ClientType
  BY DEF Rest
<1>2. /\ \A k \in Loads : LoadInv(c, k) => LoadInv(d, k)
      /\ \A n \in Logins : LoginInv(c, n) => LoginInv(d, n)
      /\ \A n \in Changes : n # m /\ ChangeInv(c, n) => ChangeInv(d, n)
  BY <1>1, MediaKeepsParts
<1>3. d \in ClientType /\ Sound(d)
  BY DEF Rest, MediaStep
<1> QED BY <1>2, <1>3 DEF Rest

(* And, while the client lives, of everything. *)
LEMMA MediaKeeps ==
  ASSUME NEW c, NEW d, NEW m \in Changes, ClientInv(c), MediaStep(c, d, m), ChangeInv(d, m), c.alive
  PROVE  ClientInv(d)
<1>1. c \in ClientType /\ InFront(c)
  BY DEF ClientInv
<1>2. /\ \A k \in Loads : LoadInv(c, k) => LoadInv(d, k)
      /\ \A n \in Logins : LoginInv(c, n) => LoginInv(d, n)
      /\ \A n \in Changes : n # m /\ ChangeInv(c, n) => ChangeInv(d, n)
  BY <1>1, MediaKeepsParts
<1>3. d \in ClientType /\ Sound(d)
  BY DEF ClientInv, MediaStep
<1>4. InFront(d)
  <2>1. d.alive /\ d.current \in {None, d.begun} /\ d.game \in {None, d.begun} /\ (d.current # None => d.game = None)
        /\ d.pings \subseteq {d.game}
    BY <1>1 DEF InFront, MediaStep
  <2>2. d.game # None /\ d.info[d.game].id # None =>
          d.info[d.game].session \/ d.spectator = "locked" \/ "relocked" \in d.odd
    <3>1. d.game = c.game /\ (d.game # None => d.game \in Loads)
      BY <1>1, Fields DEF MediaStep
    <3> QED BY <1>1, <3>1 DEF InFront, MediaStep
  <2>3. \A o \in Operations : d.handle[o] # "destroyed"
    BY <1>1 DEF InFront, MediaStep
  <2>4. \A i, j \in 1..Len(d.queue) : d.queue[i] = d.queue[j] => i = j
    BY <1>1 DEF InFront, MediaStep
  <2> QED BY <2>1, <2>2, <2>3, <2>4 DEF InFront
<1> QED BY <1>2, <1>3, <1>4 DEF ClientInv

(* A change that waits nowhere and is told at most once. *)
LEMMA ChangeTold ==
  ASSUME NEW c, NEW m \in Changes, <<"media", OfChange(m)>> \notin c.sent, \A l \in Loads : c.load[l].media # m,
         c.change[m].hash # None, Len(c.told[OfChange(m)]) <= 1
  PROVE  ChangeInv(c, m)
BY DEF ChangeInv

(* The game's hash is that of the new media. *)
Rehashed(c, l, h) == [c EXCEPT !.info[l].hash = h]

(* Only that of the game named. *)
LEMMA RehashedEffect ==
  ASSUME NEW c \in ClientType, NEW l \in Loads, NEW h \in Hashes \cup {None}, NEW d, d = Rehashed(c, l, h)
  PROVE  /\ d \in ClientType
         /\ \A k \in Loads : d.info[k].id = c.info[k].id /\ d.info[k].session = c.info[k].session
         /\ d.alive = c.alive /\ d.begun = c.begun /\ d.game = c.game /\ d.pings = c.pings /\ d.queue = c.queue
         /\ d.change = c.change /\ d.misused = c.misused /\ d.odd = c.odd /\ d.spectator = c.spectator
         /\ d.current = c.current /\ d.load = c.load /\ d.told = c.told /\ d.sent = c.sent /\ d.handle = c.handle
         /\ d.id = c.id /\ d.hardcore = c.hardcore
<1>1. c.info \in [Loads -> GameType] /\ c.info[l] \in GameType
  BY Fields
<1>2. [c.info[l] EXCEPT !.hash = h] \in GameType
  BY <1>1 DEF GameType
<1>3. PICK g \in GameType : g = [c.info[l] EXCEPT !.hash = h]
  BY <1>2
<1>4. g.id = c.info[l].id /\ g.session = c.info[l].session
  BY <1>1, <1>3 DEF GameType
<1>5. PICK w \in [Loads -> GameType] : w = [c.info EXCEPT ![l] = g]
  BY <1>1
<1>6. PICK e \in ClientType : e = [c EXCEPT !.info = w]
  <2>1. [c EXCEPT !.info = w] \in ClientType
    BY DEF ClientType
  <2> QED BY <2>1
<1>7. d = e
  BY <1>3, <1>5, <1>6 DEF Rehashed
<1>8. /\ e.info = w
      /\ e.alive = c.alive /\ e.begun = c.begun /\ e.game = c.game /\ e.pings = c.pings /\ e.queue = c.queue
      /\ e.change = c.change /\ e.misused = c.misused /\ e.odd = c.odd /\ e.spectator = c.spectator
      /\ e.current = c.current /\ e.load = c.load /\ e.told = c.told /\ e.sent = c.sent /\ e.handle = c.handle
      /\ e.id = c.id /\ e.hardcore = c.hardcore
  BY <1>6 DEF ClientType
<1>9. \A k \in Loads : w[k].id = c.info[k].id /\ w[k].session = c.info[k].session
  BY <1>1, <1>4, <1>5
<1> QED BY <1>7, <1>8, <1>9

(* rc_client_change_media_internal of the game that is there, or else of   *)
(* one that is not.                                                        *)
LEMMA ChangeMediaInternalKeeps ==
  ASSUME NEW c, NEW m \in Changes, Changing(c, m), c.game = None => c.odd # {}, NEW d, d = ChangeMediaInternal(c, m)
  PROVE  MediaStep(c, d, m) /\ ChangeInv(d, m)
<1>1. c \in ClientType /\ OfChange(m) \in Operations /\ c.change[m].hash \in Hashes \cup {None}
  BY Fields, Names DEF Changing, ChangeType
<1>2. CASE c.game = None
  <2>1. d = Misuse(c, OfChange(m))
    BY <1>2 DEF ChangeMediaInternal
  <2>2. [c EXCEPT !.misused = c.misused \cup {OfChange(m)}] \in ClientType
    <3>1. c.misused \cup {OfChange(m)} \in SUBSET Operations
      BY <1>1, Fields
    <3> QED BY <1>1, <3>1 DEF ClientType
  <2>3. PICK e \in ClientType : e = [c EXCEPT !.misused = c.misused \cup {OfChange(m)}]
    BY <2>2
  <2>4. /\ e.alive = c.alive /\ e.begun = c.begun /\ e.game = c.game /\ e.pings = c.pings /\ e.queue = c.queue
        /\ e.change = c.change /\ e.odd = c.odd /\ e.spectator = c.spectator /\ e.info = c.info
        /\ e.current = c.current /\ e.load = c.load /\ e.told = c.told /\ e.sent = c.sent /\ e.handle = c.handle
    BY <1>1, <2>3 DEF ClientType
  <2>5. d = e
    BY <2>1, <2>3 DEF Misuse
  <2>6. MediaStep(c, d, m)
    BY <1>2, <2>4, <2>5 DEF MediaStep, Sound
  <2>7. Len(d.told[OfChange(m)]) <= 1
    BY <2>4, <2>5 DEF Changing
  <2> QED BY <2>4, <2>5, <2>6, <2>7, ChangeTold DEF Changing
<1>3. CASE c.game # None
  <2>1. c.game \in Loads
    BY <1>1, <1>3, Fields
  <2>2. PICK e : e = Rehashed(c, c.game, c.change[m].hash)
    OBVIOUS
  <2>3. /\ e \in ClientType
        /\ \A k \in Loads : e.info[k].id = c.info[k].id /\ e.info[k].session = c.info[k].session
        /\ e.alive = c.alive /\ e.begun = c.begun /\ e.game = c.game /\ e.pings = c.pings /\ e.queue = c.queue
        /\ e.change = c.change /\ e.misused = c.misused /\ e.odd = c.odd /\ e.spectator = c.spectator
        /\ e.current = c.current /\ e.load = c.load /\ e.told = c.told /\ e.sent = c.sent /\ e.handle = c.handle
    BY <1>1, <2>1, <2>2, RehashedEffect
  <2>4. PICK f \in ClientType : /\ f \in {e, DisableHardcore(e)}
                                /\ \E r \in Results : d = Tell(f, OfChange(m), r)
    <3>1. [e EXCEPT !.hardcore = FALSE] \in ClientType
      BY <2>3 DEF ClientType
    <3>2. "ok" \in Results /\ "hardcore_disabled" \in Results
      BY DEF Results
    <3>3. CASE c.id[c.change[m].hash] = None /\ c.hardcore
      BY <1>3, <2>2, <3>1, <3>2, <3>3 DEF ChangeMediaInternal, Rehashed, DisableHardcore
    <3>4. CASE ~(c.id[c.change[m].hash] = None /\ c.hardcore)
      BY <1>3, <2>2, <2>3, <3>2, <3>4 DEF ChangeMediaInternal, Rehashed
    <3> QED BY <3>3, <3>4
  <2>5. /\ f.alive = e.alive /\ f.begun = e.begun /\ f.game = e.game /\ f.pings = e.pings /\ f.queue = e.queue
        /\ f.change = e.change /\ f.misused = e.misused /\ f.odd = e.odd /\ f.spectator = e.spectator /\ f.info = e.info
        /\ f.current = e.current /\ f.load = e.load /\ f.told = e.told /\ f.sent = e.sent /\ f.handle = e.handle
    BY <2>3, <2>4 DEF ClientType, DisableHardcore
  <2>6. PICK r \in Results : d = Tell(f, OfChange(m), r)
    BY <2>4
  <2>7. /\ d \in ClientType /\ d.told = [f.told EXCEPT ![OfChange(m)] = Append(@, r)]
        /\ d.alive = f.alive /\ d.begun = f.begun /\ d.game = f.game /\ d.pings = f.pings /\ d.queue = f.queue
        /\ d.change = f.change /\ d.misused = f.misused /\ d.odd = f.odd /\ d.spectator = f.spectator
        /\ d.current = f.current /\ d.load = f.load /\ d.info = f.info /\ d.sent = f.sent /\ d.handle = f.handle
    BY <1>1, <2>6, TellEffect
  <2>8. /\ d.told[OfChange(m)] = Append(<<>>, r)
        /\ \A o \in Operations : o # OfChange(m) => d.told[o] = c.told[o]
    <3>1. c.told[OfChange(m)] = <<>> /\ c.told \in [Operations -> Seq(Results)]
      BY <1>1, Fields DEF Changing
    <3> QED BY <1>1, <3>1, <2>3, <2>5, <2>7
  <2>9. MediaStep(c, d, m)
    BY <2>3, <2>5, <2>7, <2>8 DEF MediaStep, Sound
  <2>10. ChangeInv(d, m)
    <3>1. /\ <<"media", OfChange(m)>> \notin d.sent /\ \A l \in Loads : d.load[l].media # m
          /\ d.change[m].hash # None
      BY <2>3, <2>5, <2>7 DEF Changing
    <3>2. Len(d.told[OfChange(m)]) <= 1
      BY <2>8
    <3> QED BY <3>1, <3>2, ChangeTold
  <2> QED BY <2>9, <2>10
<1> QED BY <1>2, <1>3

(* rc_client_begin_change_media_internal, of a game that is there or whose *)
(* absence was noted.                                                      *)
LEMMA BeginChangeMediaInternalKeeps ==
  ASSUME NEW c, NEW m \in Changes, Changing(c, m), c.game = None => c.odd # {}, NEW g \in Loads,
         NEW d, d = BeginChangeMediaInternal(c, m, g)
  PROVE  MediaStep(c, d, m) /\ ChangeInv(d, m)
<1>1. c \in ClientType /\ OfChange(m) \in Operations
  BY Names DEF Changing
<1>2. CASE c.id[c.change[m].hash] # Unasked
  BY <1>2, ChangeMediaInternalKeeps DEF BeginChangeMediaInternal
<1>3. CASE c.id[c.change[m].hash] = Unasked
  <2>a. c.change \in [Changes -> ChangeType] /\ c.change[m] \in ChangeType
    BY <1>1, Fields
  <2>b. PICK v \in ChangeType : v = [c.change[m] EXCEPT !.game = g]
    <3>1. [c.change[m] EXCEPT !.game = g] \in ChangeType
      BY <2>a DEF ChangeType
    <3> QED BY <3>1
  <2>c. v.hash = c.change[m].hash /\ v.game = g
    BY <2>a, <2>b DEF ChangeType
  <2>d. PICK w \in [Changes -> ChangeType] : w = [c.change EXCEPT ![m] = v]
    BY <2>a
  <2>1. /\ w = [c.change EXCEPT ![m].game = g]
        /\ w[m].hash = c.change[m].hash /\ w[m].game = g
        /\ \A n \in Changes : n # m => w[n] = c.change[n]
    BY <2>a, <2>b, <2>c, <2>d
  <2>e. c.handle \in [Operations -> {"unused", "fine", "aborted", "destroyed"}]
    BY <1>1, Fields
  <2>f. PICK h \in [Operations -> {"unused", "fine", "aborted", "destroyed"}] :
          h = [c.handle EXCEPT ![OfChange(m)] = "fine"]
    BY <1>1, <2>e
  <2>2. /\ h = [c.handle EXCEPT ![OfChange(m)] = "fine"] /\ h[OfChange(m)] = "fine"
        /\ \A o \in Operations : o # OfChange(m) => h[o] = c.handle[o]
    BY <1>1, <2>e, <2>f
  <2>3. PICK s \in SUBSET Requests : s = c.sent \cup {<<"media", OfChange(m)>>}
    <3>1. <<"media", OfChange(m)>> \in Requests
      BY <1>1 DEF Requests, Kinds
    <3> QED BY <1>1, <3>1, Fields
  <2>4. PICK e \in ClientType : e = [c EXCEPT !.change = w, !.handle = h]
    <3>1. [c EXCEPT !.change = w, !.handle = h] \in ClientType
      BY <1>1 DEF ClientType
    <3> QED BY <3>1
  <2>5. /\ e.alive = c.alive /\ e.begun = c.begun /\ e.game = c.game /\ e.pings = c.pings /\ e.queue = c.queue
        /\ e.change = w /\ e.misused = c.misused /\ e.odd = c.odd /\ e.spectator = c.spectator /\ e.info = c.info
        /\ e.current = c.current /\ e.load = c.load /\ e.told = c.told /\ e.sent = c.sent /\ e.handle = h
    BY <1>1, <2>4 DEF ClientType
  <2>6. PICK f \in ClientType : f = [e EXCEPT !.sent = s]
    <3>1. [e EXCEPT !.sent = s] \in ClientType
      BY DEF ClientType
    <3> QED BY <3>1
  <2>7. d = f
    <3>1. d = Send(e, "media", OfChange(m))
      BY <1>3, <2>1, <2>2, <2>4 DEF BeginChangeMediaInternal
    <3> QED BY <3>1, <2>3, <2>5, <2>6 DEF Send
  <2>8. /\ f.alive = e.alive /\ f.begun = e.begun /\ f.game = e.game /\ f.pings = e.pings /\ f.queue = e.queue
        /\ f.change = e.change /\ f.misused = e.misused /\ f.odd = e.odd /\ f.spectator = e.spectator /\ f.info = e.info
        /\ f.current = e.current /\ f.load = e.load /\ f.told = e.told /\ f.sent = s /\ f.handle = e.handle
    BY <2>6 DEF ClientType
  <2>9. MediaStep(c, d, m)
    <3>1. \A o \in Operations : o # OfChange(m) => \A kind \in Kinds : <<kind, o>> \in s <=> <<kind, o>> \in c.sent
      BY <2>3
    <3> QED BY <2>1, <2>2, <2>5, <2>7, <2>8, <3>1 DEF MediaStep, Sound
  <2>10. ChangeInv(d, m)
    <3>1. /\ d.change[m].hash # None /\ d.change[m].game # None
          /\ d.told[OfChange(m)] = <<>>
          /\ \A l \in Loads : d.load[l].media # m
      BY <2>1, <2>5, <2>7, <2>8, LoadAssumption DEF Changing
    <3> QED BY <3>1 DEF ChangeInv
  <2> QED BY <2>9, <2>10
<1> QED BY <1>2, <1>3

(* rc_client_begin_change_media and rc_client_check_pending_media, in      *)
(* whatever state the game and the load in front are.                      *)
LEMMA BeginChangeMediaKeeps ==
  ASSUME NEW c, NEW m \in Changes, Changing(c, m), c.current # None /\ Freed(c, c.current) => c.odd # {},
         NEW d, d = BeginChangeMedia(c, m)
  PROVE  MediaStep(c, d, m) /\ ChangeInv(d, m)
<1>1. c \in ClientType /\ OfChange(m) \in Operations /\ c.current \in Loads \cup {None} /\ c.game \in Loads \cup {None}
  BY Names, Fields DEF Changing
<1>2. CASE c.current = None /\ c.game = None
  <2>1. d = Tell(c, OfChange(m), "no_game") /\ "no_game" \in Results
    BY <1>2 DEF BeginChangeMedia, Results
  <2>2. /\ d \in ClientType /\ d.told = [c.told EXCEPT ![OfChange(m)] = Append(@, "no_game")]
        /\ d.alive = c.alive /\ d.begun = c.begun /\ d.game = c.game /\ d.pings = c.pings /\ d.queue = c.queue
        /\ d.change = c.change /\ d.misused = c.misused /\ d.odd = c.odd /\ d.spectator = c.spectator
        /\ d.current = c.current /\ d.load = c.load /\ d.info = c.info /\ d.sent = c.sent /\ d.handle = c.handle
    BY <1>1, <2>1, TellEffect
  <2>3. /\ Len(d.told[OfChange(m)]) <= 1
        /\ \A o \in Operations : o # OfChange(m) => d.told[o] = c.told[o]
    <3>1. c.told[OfChange(m)] = <<>> /\ c.told \in [Operations -> Seq(Results)]
      BY <1>1, Fields DEF Changing
    <3>2. d.told[OfChange(m)] = Append(<<>>, "no_game")
      BY <1>1, <2>2, <3>1
    <3> QED BY <1>1, <2>2, <3>1, <3>2
  <2>4. MediaStep(c, d, m)
    BY <2>2, <2>3 DEF MediaStep, Sound
  <2>5. /\ <<"media", OfChange(m)>> \notin d.sent /\ \A l \in Loads : d.load[l].media # m
        /\ d.change[m].hash # None
    BY <2>2 DEF Changing
  <2> QED BY <2>3, <2>4, <2>5, ChangeTold
<1>3. CASE c.current = None /\ c.game # None
  <2>1. d = BeginChangeMediaInternal(c, m, c.game) /\ c.game \in Loads
    BY <1>1, <1>3 DEF BeginChangeMedia
  <2> QED BY <1>3, <2>1, BeginChangeMediaInternalKeeps
<1>4. CASE c.current # None /\ Freed(c, c.current)
  <2>1. d = Misuse(c, OfLoad(c.current)) /\ OfLoad(c.current) \in Operations
    BY <1>1, <1>4, Names DEF BeginChangeMedia
  <2>2. [c EXCEPT !.misused = c.misused \cup {OfLoad(c.current)}] \in ClientType
    <3>1. c.misused \cup {OfLoad(c.current)} \in SUBSET Operations
      BY <1>1, <2>1, Fields
    <3> QED BY <1>1, <3>1 DEF ClientType
  <2>3. PICK e \in ClientType : e = [c EXCEPT !.misused = c.misused \cup {OfLoad(c.current)}]
    BY <2>2
  <2>4. /\ e.alive = c.alive /\ e.begun = c.begun /\ e.game = c.game /\ e.pings = c.pings /\ e.queue = c.queue
        /\ e.change = c.change /\ e.odd = c.odd /\ e.spectator = c.spectator /\ e.info = c.info
        /\ e.current = c.current /\ e.load = c.load /\ e.told = c.told /\ e.sent = c.sent /\ e.handle = c.handle
    BY <1>1, <2>3 DEF ClientType
  <2>5. d = e
    BY <2>1, <2>3 DEF Misuse
  <2>6. MediaStep(c, d, m)
    BY <1>4, <2>4, <2>5 DEF MediaStep, Sound
  <2>7. Len(d.told[OfChange(m)]) <= 1
    BY <2>4, <2>5 DEF Changing
  <2> QED BY <2>4, <2>5, <2>6, <2>7, ChangeTold DEF Changing
<1>5. CASE c.current # None /\ ~Freed(c, c.current) /\ c.load[c.current].game # "filled"
  <2>1. c.current \in Loads
    BY <1>1, <1>5
  <2>2. PICK l \in Loads : l = c.current
    BY <2>1
  <2>3. c.load \in [Loads -> LoadType] /\ c.load[l] \in LoadType
    BY <1>1, Fields
  <2>4. PICK v \in LoadType : v = [c.load[l] EXCEPT !.media = m]
    <3>1. [c.load[l] EXCEPT !.media = m] \in LoadType
      BY <2>3 DEF LoadType
    <3> QED BY <3>1
  <2>5. /\ v.media = m /\ v.memory = c.load[l].memory /\ v.progress = c.load[l].progress
        /\ v.outstanding = c.load[l].outstanding /\ v.session = c.load[l].session
    BY <2>3, <2>4 DEF LoadType
  <2>6. PICK w \in [Loads -> LoadType] : w = [c.load EXCEPT ![l] = v]
    BY <2>3
  <2>7. w[l] = v /\ \A k \in Loads : k # l => w[k] = c.load[k]
    BY <2>3, <2>6
  <2>8. PICK e \in ClientType : e = [c EXCEPT !.load = w]
    <3>1. [c EXCEPT !.load = w] \in ClientType
      BY <1>1 DEF ClientType
    <3> QED BY <3>1
  <2>9. d = e
    BY <1>5, <2>2, <2>4, <2>6, <2>8 DEF BeginChangeMedia
  <2>10. /\ e.alive = c.alive /\ e.begun = c.begun /\ e.game = c.game /\ e.pings = c.pings /\ e.queue = c.queue
         /\ e.change = c.change /\ e.misused = c.misused /\ e.odd = c.odd /\ e.spectator = c.spectator /\ e.info = c.info
         /\ e.current = c.current /\ e.load = w /\ e.told = c.told /\ e.sent = c.sent /\ e.handle = c.handle
    BY <1>1, <2>8 DEF ClientType
  <2>11. MediaStep(c, d, m)
    BY <2>5, <2>7, <2>9, <2>10 DEF MediaStep, Sound
  <2>12. ChangeInv(d, m)
    <3>1. \A k \in Loads : d.load[k].media = m => k = l
      BY <2>7, <2>9, <2>10 DEF Changing
    <3> QED BY <2>9, <2>10, <3>1 DEF Changing, ChangeInv
  <2> QED BY <2>11, <2>12
<1>6. CASE c.current # None /\ ~Freed(c, c.current) /\ c.load[c.current].game = "filled"
  <2>1. c.current \in Loads
    BY <1>1, <1>6
  <2>2. PICK odd \in SUBSET {"empty", "early", "relocked"} : odd = IF c.game = None THEN c.odd \cup {"early"} ELSE c.odd
    BY <1>1, Fields
  <2>3. PICK e \in ClientType : e = [c EXCEPT !.odd = odd]
    <3>1. [c EXCEPT !.odd = odd] \in ClientType
      BY <1>1 DEF ClientType
    <3> QED BY <3>1
  <2>4. /\ e.alive = c.alive /\ e.begun = c.begun /\ e.game = c.game /\ e.pings = c.pings /\ e.queue = c.queue
        /\ e.change = c.change /\ e.misused = c.misused /\ e.odd = odd /\ e.spectator = c.spectator /\ e.info = c.info
        /\ e.current = c.current /\ e.load = c.load /\ e.told = c.told /\ e.sent = c.sent /\ e.handle = c.handle
    BY <1>1, <2>3 DEF ClientType
  <2>5. d = BeginChangeMediaInternal(e, m, c.current)
    BY <1>6, <2>2, <2>3 DEF BeginChangeMedia
  <2>6. Changing(e, m) /\ (e.game = None => e.odd # {})
    BY <2>2, <2>4 DEF Changing
  <2>7. MediaStep(e, d, m) /\ ChangeInv(d, m)
    BY <2>1, <2>5, <2>6, BeginChangeMediaInternalKeeps
  <2>8. c.odd \subseteq e.odd
    BY <2>2, <2>4
  <2>9. Sound(c) => Sound(e)
    BY <2>4, <2>8 DEF Sound
  <2>10. MediaStep(c, d, m)
    <3>1. /\ d \in ClientType /\ (Sound(c) => Sound(d)) /\ c.odd \subseteq d.odd
          /\ d.alive = c.alive /\ d.begun = c.begun /\ d.current = c.current /\ d.game = c.game
          /\ d.spectator = c.spectator /\ d.queue = c.queue /\ d.pings = c.pings
      BY <2>4, <2>7, <2>8, <2>9 DEF MediaStep
    <3>2. \A k \in Loads :
            /\ d.load[k].memory = c.load[k].memory /\ d.load[k].progress = c.load[k].progress
            /\ d.load[k].outstanding = c.load[k].outstanding /\ d.load[k].session = c.load[k].session
            /\ d.load[k].media \in {c.load[k].media, m}
            /\ d.info[k].id = c.info[k].id /\ d.info[k].session = c.info[k].session
      BY <2>4, <2>7 DEF MediaStep
    <3>3. /\ \A n \in Changes : n # m => d.change[n] = c.change[n]
          /\ \A o \in Operations : o # OfChange(m) =>
               /\ d.handle[o] = c.handle[o] /\ d.told[o] = c.told[o]
               /\ \A kind \in Kinds : <<kind, o>> \in d.sent <=> <<kind, o>> \in c.sent
          /\ d.handle[OfChange(m)] \in {c.handle[OfChange(m)], "fine"}
      BY <2>4, <2>7 DEF MediaStep
    <3> QED BY <3>1, <3>2, <3>3 DEF MediaStep
  <2> QED BY <2>7, <2>10
<1> QED BY <1>1, <1>2, <1>3, <1>4, <1>5, <1>6

-----------------------------------------------------------------------------
(* Activating the game.                                                    *)

(* A load that is not the client's, or whose failure does not matter any   *)
(* more, is told so and freed.                                             *)
LEMMA TellAndFree ==
  ASSUME NEW c, ClientInv(c), NEW l \in Loads, Unattached(c, l), c.current = l => "relocked" \in c.odd,
         NEW r \in Results, r # "ok", NEW d, d = FreeLoadState(TellLoad(c, l, r), l)
  PROVE  ClientInv(d)
<1>1. c \in ClientType /\ Others(c, l) /\ c.told[OfLoad(l)] \in Seq(Results)
  BY Whole, Fields, Names DEF ClientInv
<1>2. /\ c.load[l].outstanding = 0 /\ ~(c.begun < l)
      /\ Len(c.told[OfLoad(l)]) <= 1 /\ "ok" \notin ToSet(c.told[OfLoad(l)])
  BY UnattachedFacts
<1>3. PICK e : e = TellLoad(c, l, r)
  OBVIOUS
<1>4. /\ Aside(c, e, l) /\ e.load = c.load /\ e.current = c.current /\ e.sent = c.sent /\ e.odd = c.odd
      /\ e.told[OfLoad(l)] \in {Append(c.told[OfLoad(l)], r), c.told[OfLoad(l)]}
  <2>1. /\ Aside(c, e, l) /\ e.load = c.load /\ e.current = c.current /\ e.sent = c.sent /\ e.odd = c.odd
        /\ e.told[OfLoad(l)] = IF c.load[l].callback THEN Append(c.told[OfLoad(l)], r) ELSE c.told[OfLoad(l)]
    BY <1>1, <1>3, TellLoadEffect
  <2> QED BY <2>1
<1>5. Others(e, l) /\ e.queue = c.queue /\ e.begun = c.begun
  BY <1>1, <1>4, AsideKeeps DEF Aside, Beside
<1>6. Unattached(e, l)
  BY <1>4, <1>5 DEF Unattached, Live, Asked, AskedSets, AskedSession, Queued
<1>7. Len(e.told[OfLoad(l)]) <= 2 /\ "ok" \notin ToSet(e.told[OfLoad(l)])
  BY <1>1, <1>2, <1>4, AppendResult
<1> QED BY <1>2, <1>3, <1>4, <1>5, <1>6, <1>7, FreeKeeps

(* The game takes the load's place. *)
Taken(c, l) == [c EXCEPT !.load[l].progress = "done", !.game = l, !.load[l].media = None]

(* And nothing else changes. *)
LEMMA TakenEffect ==
  ASSUME NEW c \in ClientType, NEW l \in Loads, NEW d, d = Taken(c, l)
  PROVE  /\ Beside(c, d, l) /\ d.game = l /\ d.current = c.current /\ d.alive = c.alive /\ d.pings = c.pings
         /\ d.told = c.told /\ d.sent = c.sent /\ d.handle = c.handle /\ d.info = c.info /\ d.spectator = c.spectator
         /\ d.odd = c.odd /\ d.load[l].media = None /\ d.load[l].memory = c.load[l].memory
         /\ d.load[l].callback = c.load[l].callback
<1>1. c.load \in [Loads -> LoadType] /\ c.load[l] \in LoadType
  BY Fields
<1>2. PICK v \in LoadType : v = [c.load[l] EXCEPT !.progress = "done", !.media = None]
  <2>1. [c.load[l] EXCEPT !.progress = "done", !.media = None] \in LoadType
    BY <1>1 DEF LoadType
  <2> QED BY <2>1
<1>3. v.media = None /\ v.memory = c.load[l].memory /\ v.callback = c.load[l].callback
  BY <1>1, <1>2 DEF LoadType
<1>4. PICK w \in [Loads -> LoadType] : w = [c.load EXCEPT ![l] = v]
  BY <1>1
<1>5. w[l] = v /\ \A k \in Loads : k # l => w[k] = c.load[k]
  BY <1>1, <1>4
<1>6. PICK e \in ClientType : e = [c EXCEPT !.load = w, !.game = l]
  <2>1. [c EXCEPT !.load = w, !.game = l] \in ClientType
    BY DEF ClientType
  <2> QED BY <2>1
<1>7. d = e
  <2>1. PICK p \in LoadType : p = [c.load[l] EXCEPT !.progress = "done"]
    <3>1. [c.load[l] EXCEPT !.progress = "done"] \in LoadType
      BY <1>1 DEF LoadType
    <3> QED BY <3>1
  <2>2. v = [p EXCEPT !.media = None]
    BY <1>1, <1>2, <2>1 DEF LoadType
  <2>3. PICK u \in [Loads -> LoadType] : u = [c.load EXCEPT ![l] = p]
    BY <1>1
  <2>4. u[l] = p /\ w = [u EXCEPT ![l] = v]
    BY <1>1, <1>4, <2>3
  <2>5. PICK b \in ClientType : b = [c EXCEPT !.load = u, !.game = l]
    <3>1. [c EXCEPT !.load = u, !.game = l] \in ClientType
      BY DEF ClientType
    <3> QED BY <3>1
  <2>6. b.load = u /\ e = [b EXCEPT !.load = w]
    BY <1>6, <2>5, ZenonT(60) DEF ClientType
  <2>7. d = [b EXCEPT !.load[l].media = None]
    BY <2>1, <2>3, <2>5 DEF Taken
  <2> QED BY <2>2, <2>4, <2>6, <2>7
<1>8. /\ e.alive = c.alive /\ e.user = c.user /\ e.begun = c.begun /\ e.game = l /\ e.pings = c.pings /\ e.queue = c.queue
      /\ e.change = c.change /\ e.misused = c.misused /\ e.odd = c.odd /\ e.spectator = c.spectator /\ e.info = c.info
      /\ e.current = c.current /\ e.load = w /\ e.told = c.told /\ e.sent = c.sent /\ e.handle = c.handle
  BY <1>6 DEF ClientType
<1>9. Beside(c, e, l)
  BY <1>3, <1>5, <1>8 DEF Beside
<1> QED BY <1>3, <1>5, <1>7, <1>8, <1>9

(* The load is the client's no more, and its game is not the load's. *)
Parted(c, l) == [c EXCEPT !.current = None, !.load[l].game = "none"]

(* And nothing else changes. *)
LEMMA PartedEffect ==
  ASSUME NEW c \in ClientType, NEW l \in Loads, c.current = l, NEW d, d = Parted(c, l)
  PROVE  /\ Beside(c, d, l) /\ d.game = c.game /\ d.current = None /\ d.alive = c.alive /\ d.pings = c.pings
         /\ d.told = c.told /\ d.sent = c.sent /\ d.handle = c.handle /\ d.info = c.info /\ d.spectator = c.spectator
         /\ d.odd = c.odd /\ d.load[l].memory = c.load[l].memory
<1>1. c.load \in [Loads -> LoadType] /\ c.load[l] \in LoadType
  BY Fields
<1>2. PICK v \in LoadType : v = [c.load[l] EXCEPT !.game = "none"]
  <2>1. [c.load[l] EXCEPT !.game = "none"] \in LoadType
    BY <1>1 DEF LoadType
  <2> QED BY <2>1
<1>3. v.media = c.load[l].media /\ v.memory = c.load[l].memory
  BY <1>1, <1>2 DEF LoadType
<1>4. PICK w \in [Loads -> LoadType] : w = [c.load EXCEPT ![l] = v]
  BY <1>1
<1>5. w[l] = v /\ \A k \in Loads : k # l => w[k] = c.load[k]
  BY <1>1, <1>4
<1>6. PICK e \in ClientType : e = [c EXCEPT !.current = None, !.load = w]
  <2>1. [c EXCEPT !.current = None, !.load = w] \in ClientType
    BY DEF ClientType
  <2> QED BY <2>1
<1>7. d = e
  BY <1>2, <1>4, <1>6 DEF Parted
<1>8. /\ e.alive = c.alive /\ e.user = c.user /\ e.begun = c.begun /\ e.game = c.game /\ e.pings = c.pings /\ e.queue = c.queue
      /\ e.change = c.change /\ e.misused = c.misused /\ e.odd = c.odd /\ e.spectator = c.spectator /\ e.info = c.info
      /\ e.current = None /\ e.load = w /\ e.told = c.told /\ e.sent = c.sent /\ e.handle = c.handle
  BY <1>6 DEF ClientType
<1>9. Beside(c, e, l)
  BY <1>3, <1>5, <1>8 DEF Beside
<1> QED BY <1>3, <1>5, <1>7, <1>8, <1>9

(* A ping is scheduled for the load's game. *)
Pinged(c, l) == [c EXCEPT !.pings = @ \cup {l}]

(* And nothing else changes. *)
LEMMA PingedEffect ==
  ASSUME NEW c \in ClientType, NEW l \in Loads, NEW d, d = Pinged(c, l)
  PROVE  /\ Beside(c, d, l) /\ d.pings = c.pings \cup {l} /\ d.game = c.game /\ d.current = c.current /\ d.alive = c.alive
         /\ d.told = c.told /\ d.sent = c.sent /\ d.handle = c.handle /\ d.info = c.info /\ d.spectator = c.spectator
         /\ d.odd = c.odd /\ d.load = c.load
<1>1. PICK p \in SUBSET Loads : p = c.pings \cup {l}
  BY Fields
<1>2. PICK e \in ClientType : e = [c EXCEPT !.pings = p]
  <2>1. [c EXCEPT !.pings = p] \in ClientType
    BY DEF ClientType
  <2> QED BY <2>1
<1>3. d = e
  BY <1>1, <1>2 DEF Pinged
<1>4. /\ e.alive = c.alive /\ e.user = c.user /\ e.begun = c.begun /\ e.game = c.game /\ e.pings = p /\ e.queue = c.queue
      /\ e.change = c.change /\ e.misused = c.misused /\ e.odd = c.odd /\ e.spectator = c.spectator /\ e.info = c.info
      /\ e.current = c.current /\ e.load = c.load /\ e.told = c.told /\ e.sent = c.sent /\ e.handle = c.handle
  BY <1>2 DEF ClientType
<1>5. Beside(c, e, l)
  BY <1>4 DEF Beside
<1> QED BY <1>1, <1>3, <1>4, <1>5

(* rc_client_activate_game of a load that has its session, or spectates,   *)
(* or that the client gave up.                                             *)
LEMMA ActivateGameKeeps ==
  ASSUME NEW c, ClientInv(c), NEW l \in Loads, Unattached(c, l), NEW session \in BOOLEAN, session => c.info[l].session,
         c.current = l => session \/ c.spectator = "locked" \/ "relocked" \in c.odd,
         NEW d, d = ActivateGame(c, l, session)
  PROVE  ClientInv(d)
<1>1. /\ c \in ClientType /\ Others(c, l) /\ Rest(c, l) /\ LoadInv(c, l) /\ InFront(c) /\ ~Freed(c, l)
      /\ OfLoad(l) \in Operations /\ "ok" \in Results /\ "aborted" \in Results /\ "failed" \in Results
  BY Whole, Names DEF ClientInv, Others, Unattached, Live, Freed, Results
<1>2. CASE c.current # l
  BY <1>1, <1>2, TellAndFree DEF ActivateGame
<1>3. CASE c.current = l /\ ~session /\ c.spectator = "off"
  BY <1>1, <1>3, TellAndFree DEF ActivateGame
<1>4. CASE c.current = l /\ ~(~session /\ c.spectator = "off")
  <2> DEFINE media == c.load[l].media
             active == [c EXCEPT !.load[l].progress = "done", !.game = l, !.load[l].media = None]
             changed == IF media = None THEN active ELSE BeginChangeMedia(active, media)
             pinged == IF changed.spectator = "locked" THEN changed ELSE [changed EXCEPT !.pings = @ \cup {l}]
             f == TellLoad(pinged, l, "ok")
             done == [f EXCEPT !.current = None, !.load[l].game = "none"]
  <2>0. d = FreeLoadState(done, l)
    BY <1>1, <1>4 DEF ActivateGame
  <2> HIDE DEF media, active, changed, pinged, f, done
  <2>1. l # None /\ c.game = None /\ c.alive /\ c.begun = l /\ c.pings = {} /\ c.told[OfLoad(l)] = <<>>
    <3>1. l # None
      BY LoadAssumption
    <3>2. c.pings \in SUBSET Loads
      BY <1>1, Fields
    <3> QED BY <1>1, <1>4, <3>1, <3>2, LoadAssumption DEF InFront, LoadInv, IsCurrent
  <2>2. media \in Changes \cup {None} /\ media = c.load[l].media
    <3>1. c.load[l] \in LoadType
      BY <1>1, Fields
    <3> QED BY <3>1 DEF LoadType, media
  <2>3. active = Taken(c, l)
    BY DEF active, Taken
  <2>4. /\ Beside(c, active, l) /\ active.game = l /\ active.current = c.current /\ active.alive = c.alive
        /\ active.pings = c.pings /\ active.told = c.told /\ active.sent = c.sent /\ active.handle = c.handle
        /\ active.info = c.info /\ active.spectator = c.spectator /\ active.odd = c.odd
        /\ active.load[l].media = None /\ active.load[l].memory = c.load[l].memory
    BY <1>1, <2>3, TakenEffect
  <2>5. active \in ClientType /\ Rest(active, l) /\ active.queue = c.queue /\ active.begun = c.begun
    BY <1>1, <2>4, BesideKeeps DEF Beside
  <2>6. changed = IF media = None THEN active ELSE BeginChangeMedia(active, media)
    BY DEF changed
  <2>7. /\ Rest(changed, l) /\ changed \in ClientType /\ changed.game = l /\ changed.current = l /\ changed.alive
        /\ changed.begun = l /\ changed.pings = {} /\ changed.queue = c.queue /\ changed.spectator = c.spectator
        /\ c.odd \subseteq changed.odd /\ changed.load[l].memory = c.load[l].memory
        /\ changed.info[l].session = c.info[l].session /\ changed.told[OfLoad(l)] = <<>>
        /\ (Asked(changed, l) <=> Asked(c, l)) /\ \A o \in Operations : changed.handle[o] # "destroyed"
    <3>1. \A o \in Operations : active.handle[o] # "destroyed"
      BY <1>1, <2>1, <2>4 DEF InFront
    <3>2. CASE media = None
      <4>1. changed = active
        BY <2>6, <3>2
      <4> QED BY <1>4, <2>1, <2>4, <2>5, <3>1, <4>1 DEF Asked, AskedSets, AskedSession
    <3>3. CASE media # None
      <4>1. media \in Changes /\ changed = BeginChangeMedia(active, media)
        BY <2>2, <2>6, <3>3
      <4>2. ChangeInv(c, media)
        BY <4>1 DEF ClientInv
      <4>3. \A k \in Loads : active.load[k].media # media
        <5>1. \A k \in Loads : k # l => c.load[k].media # media
          BY <2>2, <4>2 DEF ChangeInv
        <5> QED BY <2>4, <3>3, <5>1 DEF Beside
      <4>4. Changing(active, media)
        <5>1. active.change = c.change
          BY <2>4 DEF Beside
        <5> QED BY <2>2, <2>4, <2>5, <4>2, <4>3, <5>1 DEF Changing, ChangeInv
      <4>5. ~Freed(active, active.current)
        BY <1>1, <1>4, <2>4 DEF Freed
      <4>6. MediaStep(active, changed, media) /\ ChangeInv(changed, media)
        BY <4>1, <4>4, <4>5, BeginChangeMediaKeeps
      <4>7. Rest(changed, l)
        BY <2>5, <4>1, <4>6, MediaKeepsRest
      <4>8. OfLoad(l) # OfChange(media) /\ "sets" \in Kinds /\ "session" \in Kinds
        BY Names DEF Kinds
      <4>9. changed.told[OfLoad(l)] = <<>> /\ (Asked(changed, l) <=> Asked(c, l))
        BY <1>1, <2>1, <2>4, <4>6, <4>8 DEF MediaStep, Asked, AskedSets, AskedSession
      <4>10. \A o \in Operations : changed.handle[o] # "destroyed"
        BY <3>1, <4>6 DEF MediaStep
      <4> QED BY <1>4, <2>1, <2>4, <2>5, <4>6, <4>7, <4>9, <4>10 DEF MediaStep
    <3> QED BY <3>2, <3>3
  <2>8. pinged = IF changed.spectator = "locked" THEN changed ELSE Pinged(changed, l)
    BY DEF pinged, Pinged
  <2>9. /\ Beside(changed, pinged, l) /\ pinged.game = changed.game /\ pinged.current = changed.current
        /\ pinged.alive = changed.alive /\ pinged.pings \subseteq {l} /\ pinged.told = changed.told
        /\ pinged.sent = changed.sent /\ pinged.handle = changed.handle /\ pinged.info = changed.info
        /\ pinged.spectator = changed.spectator /\ pinged.odd = changed.odd /\ pinged.load = changed.load
    <3>1. CASE changed.spectator = "locked"
      BY <2>7, <2>8, <3>1 DEF Beside
    <3>2. CASE changed.spectator # "locked"
      <4>1. pinged = Pinged(changed, l)
        BY <2>8, <3>2
      <4>2. /\ Beside(changed, pinged, l) /\ pinged.pings = changed.pings \cup {l} /\ pinged.game = changed.game
            /\ pinged.current = changed.current /\ pinged.alive = changed.alive
            /\ pinged.told = changed.told /\ pinged.sent = changed.sent /\ pinged.handle = changed.handle
            /\ pinged.info = changed.info /\ pinged.spectator = changed.spectator
            /\ pinged.odd = changed.odd /\ pinged.load = changed.load
        <5>1. changed \in ClientType
          BY <2>7
        <5> QED BY <4>1, <5>1, PingedEffect
      <4> QED BY <2>7, <4>2
    <3> QED BY <3>1, <3>2
  <2>10. pinged \in ClientType /\ Rest(pinged, l) /\ pinged.queue = changed.queue /\ pinged.begun = changed.begun
    BY <2>7, <2>9, BesideKeeps DEF Beside
  <2>11. f = TellLoad(pinged, l, "ok")
    BY DEF f
  <2>12. /\ Aside(pinged, f, l) /\ f.current = pinged.current /\ f.load = pinged.load /\ f.info = pinged.info
         /\ f.sent = pinged.sent /\ f.handle = pinged.handle /\ f.spectator = pinged.spectator /\ f.odd = pinged.odd
         /\ f.told[OfLoad(l)] \in {<<>>, Append(<<>>, "ok")}
    <3>1. /\ Aside(pinged, f, l) /\ f.current = pinged.current /\ f.load = pinged.load /\ f.info = pinged.info
          /\ f.sent = pinged.sent /\ f.handle = pinged.handle /\ f.spectator = pinged.spectator /\ f.odd = pinged.odd
          /\ f.told[OfLoad(l)] = IF pinged.load[l].callback THEN Append(pinged.told[OfLoad(l)], "ok")
                                 ELSE pinged.told[OfLoad(l)]
      BY <1>1, <2>10, <2>11, TellLoadEffect
    <3>2. pinged.told[OfLoad(l)] = <<>>
      BY <2>7, <2>9
    <3> QED BY <3>1, <3>2
  <2>13. /\ f \in ClientType /\ Rest(f, l) /\ f.queue = pinged.queue /\ f.begun = pinged.begun
         /\ f.alive = pinged.alive /\ f.game = pinged.game /\ f.pings = pinged.pings
    BY <2>10, <2>12, BesideKeeps DEF Aside, Beside
  <2>14. done = Parted(f, l)
    BY DEF done, Parted
  <2>15. /\ Beside(f, done, l) /\ done.game = f.game /\ done.current = None /\ done.alive = f.alive /\ done.pings = f.pings
         /\ done.told = f.told /\ done.sent = f.sent /\ done.handle = f.handle /\ done.info = f.info
         /\ done.spectator = f.spectator /\ done.odd = f.odd /\ done.load[l].memory = f.load[l].memory
    <3>1. f \in ClientType /\ f.current = l
      BY <2>7, <2>9, <2>12, <2>13
    <3> QED BY <2>14, <3>1, PartedEffect
  <2>16. Rest(done, l) /\ done.queue = f.queue /\ done.begun = f.begun
    BY <2>13, <2>15, BesideKeeps DEF Beside
  <2>17. InFront(done)
    <3>1. done.alive /\ done.current = None /\ done.game = l /\ done.begun = l /\ done.pings \subseteq {l}
      BY <2>7, <2>9, <2>10, <2>12, <2>13, <2>15, <2>16
    <3>2. done.info[l].session \/ done.spectator = "locked" \/ "relocked" \in done.odd
      BY <1>4, <2>7, <2>9, <2>12, <2>15
    <3>3. \A o \in Operations : done.handle[o] # "destroyed"
      BY <2>7, <2>9, <2>12, <2>15
    <3>4. \A i, j \in 1..Len(done.queue) : done.queue[i] = done.queue[j] => i = j
      BY <1>1, <2>7, <2>10, <2>13, <2>16 DEF InFront
    <3> QED BY <3>1, <3>2, <3>3, <3>4 DEF InFront
  <2>18. Unattached(done, l) /\ ~(done.begun < l) /\ done.current # l
    <3>1. done.load[l].memory = c.load[l].memory /\ done.queue = c.queue /\ (Asked(done, l) <=> Asked(c, l))
      BY <2>7, <2>9, <2>10, <2>12, <2>13, <2>15, <2>16 DEF Asked, AskedSets, AskedSession
    <3>2. ~(c.begun < l) /\ done.begun = c.begun
      BY <2>1, <2>7, <2>10, <2>13, <2>16, UnattachedFacts
    <3> QED BY <2>1, <2>15, <3>1, <3>2 DEF Unattached, Live, Queued
  <2>19. Len(done.told[OfLoad(l)]) <= 2 /\ ("ok" \in ToSet(done.told[OfLoad(l)]) => Len(done.told[OfLoad(l)]) = 1)
    <3>1. done.told[OfLoad(l)] = <<>> \/ done.told[OfLoad(l)] = Append(<<>>, "ok")
      BY <2>12, <2>15
    <3>2. Len(<<>>) = 0 /\ "ok" \notin ToSet(<<>>) /\ Len(Append(<<>>, "ok")) = 1
      BY DEF ToSet
    <3>3. CASE done.told[OfLoad(l)] = <<>>
      BY <3>2, <3>3
    <3>4. CASE done.told[OfLoad(l)] = Append(<<>>, "ok")
      BY <3>2, <3>4
    <3> QED BY <3>1, <3>3, <3>4
  <2> QED BY <2>16, <2>17, <2>18, <2>19, <2>0, FreeKeeps DEF Others
<1> QED BY <1>2, <1>3, <1>4

(* The queue holds each load once: what was scheduled first and the rest. *)
LEMMA TailFacts ==
  ASSUME NEW q \in Seq(Loads), q # <<>>, \A i, j \in 1..Len(q) : q[i] = q[j] => i = j
  PROVE  /\ Tail(q) \in Seq(Loads) /\ Head(q) \in Loads /\ 1 \in 1..Len(q) /\ Head(q) = q[1]
         /\ \A i \in 1..Len(Tail(q)) : i + 1 \in 1..Len(q) /\ Tail(q)[i] = q[i + 1] /\ Tail(q)[i] # Head(q)
         /\ \A i, j \in 1..Len(Tail(q)) : Tail(q)[i] = Tail(q)[j] => i = j
<1>1. Tail(q) \in Seq(Loads) /\ Head(q) \in Loads /\ Head(q) = q[1] /\ Len(q) \in Nat /\ 1 \in 1..Len(q)
  OBVIOUS
<1>2. \A i \in 1..Len(Tail(q)) : i + 1 \in 1..Len(q) /\ Tail(q)[i] = q[i + 1] /\ i + 1 # 1
  OBVIOUS
<1>3. \A i \in 1..Len(Tail(q)) : Tail(q)[i] # Head(q)
  BY <1>1, <1>2
<1>4. ASSUME NEW i \in 1..Len(Tail(q)), NEW j \in 1..Len(Tail(q)), Tail(q)[i] = Tail(q)[j] PROVE i = j
  <2>1. i + 1 = j + 1
    BY <1>2, <1>4
  <2> QED BY <2>1
<1> QED BY <1>1, <1>2, <1>3, <1>4

(* One more load at its end, and no other. *)
LEMMA AppendFacts ==
  ASSUME NEW q \in Seq(Loads), NEW l \in Loads, \A i \in 1..Len(q) : q[i] # l,
         \A i, j \in 1..Len(q) : q[i] = q[j] => i = j
  PROVE  /\ Append(q, l) \in Seq(Loads)
         /\ \A k \in Loads : (\E i \in 1..Len(Append(q, l)) : Append(q, l)[i] = k) <=> k = l \/ \E i \in 1..Len(q) : q[i] = k
         /\ \A i, j \in 1..Len(Append(q, l)) : Append(q, l)[i] = Append(q, l)[j] => i = j
<1>1. /\ Append(q, l) \in Seq(Loads) /\ Len(q) \in Nat /\ Len(Append(q, l)) = Len(q) + 1
      /\ Append(q, l)[Len(q) + 1] = l /\ \A i \in 1..Len(q) : Append(q, l)[i] = q[i]
  OBVIOUS
<1>2. \A i \in 1..Len(Append(q, l)) : i \in 1..Len(q) \/ i = Len(q) + 1
  BY <1>1
<1>3. \A i \in 1..Len(q) : i \in 1..Len(Append(q, l))
  BY <1>1
<1>4. Len(q) + 1 \in 1..Len(Append(q, l))
  BY <1>1
<1>5. \A k \in Loads : (\E i \in 1..Len(Append(q, l)) : Append(q, l)[i] = k) <=> k = l \/ \E i \in 1..Len(q) : q[i] = k
  BY <1>1, <1>2, <1>3, <1>4
<1>6. \A i, j \in 1..Len(Append(q, l)) : Append(q, l)[i] = Append(q, l)[j] => i = j
  BY <1>1, <1>2
<1> QED BY <1>1, <1>5, <1>6

(* The queue without what was scheduled first. *)
LEMMA DequeuedKeeps ==
  ASSUME NEW c, ClientInv(c), c.queue # <<>>, NEW d, d = [c EXCEPT !.queue = Tail(@)]
  PROVE  /\ ClientInv(d) /\ d.current = c.current /\ d.load = c.load /\ d.info = c.info /\ d.spectator = c.spectator
         /\ d.odd = c.odd /\ Head(c.queue) \in Loads /\ Queued(c, Head(c.queue)) /\ Unattached(d, Head(c.queue))
<1>1. c \in ClientType /\ InFront(c) /\ c.queue \in Seq(Loads)
  BY Fields DEF ClientInv
<1>2. /\ Tail(c.queue) \in Seq(Loads) /\ Head(c.queue) \in Loads /\ 1 \in 1..Len(c.queue) /\ Head(c.queue) = c.queue[1]
      /\ \A i \in 1..Len(Tail(c.queue)) : /\ i + 1 \in 1..Len(c.queue) /\ Tail(c.queue)[i] = c.queue[i + 1]
                                          /\ Tail(c.queue)[i] # Head(c.queue)
      /\ \A i, j \in 1..Len(Tail(c.queue)) : Tail(c.queue)[i] = Tail(c.queue)[j] => i = j
  BY <1>1, TailFacts DEF InFront
<1>3. PICK q \in Seq(Loads) : q = Tail(c.queue)
  BY <1>2
<1>4. PICK e \in ClientType : e = [c EXCEPT !.queue = q]
  <2>1. [c EXCEPT !.queue = q] \in ClientType
    BY <1>1 DEF ClientType
  <2> QED BY <2>1
<1>5. d = e
  BY <1>3, <1>4
<1>6. /\ e.alive = c.alive /\ e.begun = c.begun /\ e.game = c.game /\ e.pings = c.pings /\ e.queue = q
      /\ e.change = c.change /\ e.misused = c.misused /\ e.odd = c.odd /\ e.spectator = c.spectator /\ e.info = c.info
      /\ e.current = c.current /\ e.load = c.load /\ e.told = c.told /\ e.sent = c.sent /\ e.handle = c.handle
  BY <1>1, <1>4 DEF ClientType
<1>7. \A l \in Loads : Queued(e, l) => Queued(c, l)
  BY <1>2, <1>3, <1>6 DEF Queued
<1>8. Queued(c, Head(c.queue)) /\ ~Queued(e, Head(c.queue))
  BY <1>2, <1>3, <1>6 DEF Queued
<1>9. InFront(e)
  BY <1>1, <1>2, <1>3, <1>6 DEF InFront
<1>10. Sound(e)
  BY <1>6 DEF ClientInv, Sound
<1>11. ASSUME NEW l \in Loads PROVE LoadInv(e, l)
  <2>1. LoadInv(c, l)
    BY DEF ClientInv
  <2>2. /\ AskedSets(e, l) <=> AskedSets(c, l)
        /\ AskedSession(e, l) <=> AskedSession(c, l)
        /\ Asked(e, l) <=> Asked(c, l)
    BY <1>6 DEF AskedSets, AskedSession, Asked
  <2>3. Referenced(e, l)
    BY <1>6, <1>7, <2>1, <2>2 DEF LoadInv, Referenced, Live
  <2>4. IsCurrent(e, l)
    BY <1>6, <2>1, <2>2 DEF LoadInv, IsCurrent, Live, Freed, Aborted
  <2>5. Told(e, l) /\ Started(e, l)
    BY <1>6, <1>7, <2>1 DEF LoadInv, Told, Started, Live, Freed
  <2> QED BY <2>3, <2>4, <2>5 DEF LoadInv
<1>12. ASSUME NEW n \in Logins PROVE LoginInv(e, n)
  BY <1>6 DEF ClientInv, LoginInv
<1>13. ASSUME NEW m \in Changes PROVE ChangeInv(e, m)
  BY <1>6 DEF ClientInv, ChangeInv
<1>14. Unattached(e, Head(c.queue))
  <2>1. LoadInv(c, Head(c.queue))
    BY <1>2 DEF ClientInv
  <2> QED BY <1>6, <1>8, <2>1 DEF LoadInv, Referenced, Unattached, Live, Asked, AskedSets, AskedSession
<1> QED BY <1>2, <1>5, <1>6, <1>8, <1>9, <1>10, <1>11, <1>12, <1>13, <1>14 DEF ClientInv

(* rc_client_dispatch_activate_game. *)
LEMMA DispatchActivationKeeps ==
  ASSUME NEW c, ClientInv(c), NEW d, d = DispatchActivation(c)
  PROVE  ClientInv(d)
<1>1. CASE c.queue = <<>>
  BY <1>1 DEF DispatchActivation
<1>2. CASE c.queue # <<>>
  <2>1. PICK e : e = [c EXCEPT !.queue = Tail(@)]
    OBVIOUS
  <2>2. /\ ClientInv(e) /\ e.current = c.current /\ e.load = c.load /\ e.info = c.info /\ e.spectator = c.spectator
        /\ e.odd = c.odd /\ Head(c.queue) \in Loads /\ Queued(c, Head(c.queue)) /\ Unattached(e, Head(c.queue))
    BY <1>2, <2>1, DequeuedKeeps
  <2>3. PICK l \in Loads : l = Head(c.queue)
    BY <2>2
  <2>4. LoadInv(c, l) /\ Queued(c, l) /\ Unattached(e, l)
    BY <2>2, <2>3 DEF ClientInv
  <2>5. c.load[l].session \in BOOLEAN
    BY Fields DEF ClientInv, LoadType
  <2>6. /\ c.load[l].session => e.info[l].session
        /\ e.current = l => c.load[l].session \/ e.spectator = "locked" \/ "relocked" \in e.odd
    BY <2>2, <2>4 DEF LoadInv, Started
  <2>7. d = ActivateGame(e, l, c.load[l].session)
    BY <1>2, <2>1, <2>3 DEF DispatchActivation
  <2> QED BY <2>2, <2>4, <2>5, <2>6, <2>7, ActivateGameKeeps
<1> QED BY <1>1, <1>2

(* What holds of 0 and passes from each number to the next holds of all. *)
LEMMA InductiveSet ==
  ASSUME NEW S \in SUBSET Nat, 0 \in S, \A n \in Nat : n \in S => n + 1 \in S
  PROVE  S = Nat
<1>1. SUFFICES ASSUME Nat \ S # {} PROVE FALSE
  OBVIOUS
<1>2. PICK x \in Nat \ S : \A y \in Nat \ S : ~(<<y, x>> \in OpToRel(<, Nat))
  <2>1. IsWellFoundedOn(OpToRel(<, Nat), Nat) /\ Nat \ S \subseteq Nat
    BY NatLessThanWellFounded
  <2> QED BY <1>1, <2>1, WFMin
<1>3. x \in Nat /\ x # 0 /\ x \notin S
  OBVIOUS
<1>4. x - 1 \in Nat /\ x - 1 < x /\ x = (x - 1) + 1
  BY <1>3
<1>5. <<x - 1, x>> \in OpToRel(<, Nat)
  BY <1>3, <1>4 DEF OpToRel
<1>6. x - 1 \in S
  BY <1>2, <1>4, <1>5
<1> QED BY <1>3, <1>4, <1>6

(* after is what n dispatches leave, for each n up to m. *)
Dispatched(c, after, m) == after = [n \in 0..m |-> IF n = 0 THEN c ELSE DispatchActivation(after[n - 1])]

(* Whatever there is to dispatch, there is such a function. *)
LEMMA DispatchedExists ==
  ASSUME NEW c, NEW m \in Nat
  PROVE  \E after : Dispatched(c, after, m)
<1> DEFINE S == {k \in Nat : \E after : Dispatched(c, after, k)}
<1>1. 0 \in S
  <2>1. PICK after : after = [n \in 0..0 |-> c]
    OBVIOUS
  <2>2. after = [n \in 0..0 |-> IF n = 0 THEN c ELSE DispatchActivation(after[n - 1])]
    BY <2>1
  <2> QED BY <2>2 DEF Dispatched
<1>2. ASSUME NEW k \in Nat, k \in S PROVE k + 1 \in S
  <2>1. PICK after : Dispatched(c, after, k)
    BY <1>2
  <2>2. PICK next : next = [n \in 0..(k + 1) |-> IF n = 0 THEN c ELSE DispatchActivation(after[n - 1])]
    OBVIOUS
  <2>3. \A n \in 0..k : after[n] = IF n = 0 THEN c ELSE DispatchActivation(after[n - 1])
    <3>1. after = [n \in 0..k |-> IF n = 0 THEN c ELSE DispatchActivation(after[n - 1])]
      BY <2>1 DEF Dispatched
    <3> QED BY <3>1
  <2>4. \A n \in 0..k : next[n] = after[n]
    <3>1. \A n \in 0..k : n \in 0..(k + 1)
      OBVIOUS
    <3> QED BY <2>2, <2>3, <3>1
  <2>5. \A n \in 0..(k + 1) : n # 0 => n - 1 \in 0..k
    OBVIOUS
  <2>6. next = [n \in 0..(k + 1) |-> IF n = 0 THEN c ELSE DispatchActivation(next[n - 1])]
    BY <2>2, <2>4, <2>5
  <2> QED BY <2>6 DEF Dispatched
<1> HIDE DEF S
<1>3. S \in SUBSET Nat
  BY DEF S
<1>4. S = Nat
  BY <1>1, <1>2, <1>3, InductiveSet
<1> QED BY <1>4 DEF S

(* rc_client_idle, however many activations are scheduled. *)
LEMMA RunActivationsKeeps ==
  ASSUME NEW c, ClientInv(c), NEW d, d = RunActivations(c)
  PROVE  ClientInv(d)
<1> DEFINE N == Len(c.queue)
           after == CHOOSE f : f = [n \in 0..N |-> IF n = 0 THEN c ELSE DispatchActivation(f[n - 1])]
           S == {n \in Nat : n <= N => ClientInv(after[n])}
<1>1. N \in Nat
  <2>1. c.queue \in Seq(Loads)
    BY Fields DEF ClientInv
  <2> QED BY <2>1
<1>2. d = after[N]
  BY DEF RunActivations
<1> HIDE DEF N
<1>3. after = [n \in 0..N |-> IF n = 0 THEN c ELSE DispatchActivation(after[n - 1])]
  <2>1. \E f : f = [n \in 0..N |-> IF n = 0 THEN c ELSE DispatchActivation(f[n - 1])]
    BY <1>1, DispatchedExists DEF Dispatched
  <2> QED BY <2>1
<1> HIDE DEF after
<1>4. \A n \in 0..N : after[n] = IF n = 0 THEN c ELSE DispatchActivation(after[n - 1])
  BY <1>3
<1>5. 0 \in S
  BY <1>1, <1>4
<1>6. ASSUME NEW n \in Nat, n \in S PROVE n + 1 \in S
  <2>1. SUFFICES ASSUME n + 1 <= N PROVE ClientInv(after[n + 1])
    OBVIOUS
  <2>2. n + 1 \in 0..N /\ n + 1 # 0 /\ (n + 1) - 1 = n /\ n <= N
    BY <1>1, <2>1
  <2>3. after[n + 1] = DispatchActivation(after[n])
    BY <1>4, <2>2
  <2>4. ClientInv(after[n])
    BY <1>6, <2>2
  <2> QED BY <2>3, <2>4, DispatchActivationKeeps
<1> HIDE DEF S
<1>7. S \in SUBSET Nat
  BY DEF S
<1>8. S = Nat
  BY <1>5, <1>6, <1>7, InductiveSet
<1> QED BY <1>1, <1>2, <1>8 DEF S

(* The activation is scheduled. *)
Scheduled(c, l, session) == [c EXCEPT !.load[l].session = session, !.queue = Append(@, l)]

(* rc_client_queue_activate_game, or the activation at once. *)
LEMMA ActivateOrQueueKeeps ==
  ASSUME NEW c, ClientInv(c), NEW l \in Loads, Unattached(c, l), c.load[l].progress # "await_login",
         NEW session \in BOOLEAN, session => c.info[l].session,
         c.current = l => session \/ c.spectator = "locked" \/ "relocked" \in c.odd,
         NEW d, d = ActivateOrQueue(c, l, session)
  PROVE  ClientInv(d)
<1>1. CASE c.background
  BY <1>1, ActivateGameKeeps DEF ActivateOrQueue
<1>2. CASE ~c.background
  <2>1. c \in ClientType /\ InFront(c) /\ c.queue \in Seq(Loads) /\ c.load \in [Loads -> LoadType] /\ c.load[l] \in LoadType
    BY Fields DEF ClientInv
  <2>2. PICK v \in LoadType : v = [c.load[l] EXCEPT !.session = session]
    <3>1. [c.load[l] EXCEPT !.session = session] \in LoadType
      BY <2>1 DEF LoadType
    <3> QED BY <3>1
  <2>3. /\ v.session = session /\ v.memory = c.load[l].memory /\ v.outstanding = c.load[l].outstanding
        /\ v.progress = c.load[l].progress /\ v.media = c.load[l].media
    BY <2>1, <2>2 DEF LoadType
  <2>4. PICK w \in [Loads -> LoadType] : w = [c.load EXCEPT ![l] = v]
    BY <2>1
  <2>5. w[l] = v /\ \A k \in Loads : k # l => w[k] = c.load[k]
    BY <2>1, <2>4
  <2>6. /\ Append(c.queue, l) \in Seq(Loads)
        /\ \A k \in Loads : (\E i \in 1..Len(Append(c.queue, l)) : Append(c.queue, l)[i] = k)
                              <=> k = l \/ \E i \in 1..Len(c.queue) : c.queue[i] = k
        /\ \A i, j \in 1..Len(Append(c.queue, l)) : Append(c.queue, l)[i] = Append(c.queue, l)[j] => i = j
    BY <2>1, AppendFacts DEF Unattached, Queued, InFront
  <2>7. PICK q \in Seq(Loads) : q = Append(c.queue, l)
    BY <2>6
  <2>8. PICK e \in ClientType : e = [c EXCEPT !.load = w, !.queue = q]
    <3>1. [c EXCEPT !.load = w, !.queue = q] \in ClientType
      BY <2>1 DEF ClientType
    <3> QED BY <3>1
  <2>9. d = e
    BY <1>2, <2>2, <2>4, <2>7, <2>8 DEF ActivateOrQueue
  <2>10. /\ e.alive = c.alive /\ e.begun = c.begun /\ e.game = c.game /\ e.pings = c.pings /\ e.queue = q
         /\ e.change = c.change /\ e.misused = c.misused /\ e.odd = c.odd /\ e.spectator = c.spectator /\ e.info = c.info
         /\ e.current = c.current /\ e.load = w /\ e.told = c.told /\ e.sent = c.sent /\ e.handle = c.handle
    BY <2>1, <2>8 DEF ClientType
  <2>11. \A k \in Loads : Queued(e, k) <=> k = l \/ Queued(c, k)
    BY <2>6, <2>7, <2>10 DEF Queued
  <2>12. InFront(e) /\ Sound(e)
    <3>1. InFront(e)
      BY <2>1, <2>6, <2>7, <2>10 DEF InFront
    <3> QED BY <2>10, <3>1 DEF ClientInv, Sound
  <2>13. ASSUME NEW k \in Loads PROVE LoadInv(e, k)
    <3>1. LoadInv(c, k)
      BY DEF ClientInv
    <3>2. /\ AskedSets(e, k) <=> AskedSets(c, k)
          /\ AskedSession(e, k) <=> AskedSession(c, k)
          /\ Asked(e, k) <=> Asked(c, k)
      BY <2>10 DEF AskedSets, AskedSession, Asked
    <3>3. /\ e.load[k].memory = c.load[k].memory /\ e.load[k].outstanding = c.load[k].outstanding
          /\ e.load[k].progress = c.load[k].progress
      BY <2>3, <2>5, <2>10
    <3>4. IsCurrent(e, k) /\ Told(e, k)
      BY <2>10, <3>1, <3>2, <3>3 DEF LoadInv, IsCurrent, Told, Live, Freed, Aborted
    <3>5. CASE k # l
      <4>1. Referenced(e, k)
        BY <2>10, <2>11, <3>1, <3>2, <3>3, <3>5 DEF LoadInv, Referenced, Live
      <4>2. Started(e, k)
        BY <2>5, <2>10, <2>11, <3>1, <3>5 DEF LoadInv, Started
      <4> QED BY <3>4, <4>1, <4>2 DEF LoadInv
    <3>6. CASE k = l
      <4>1. Referenced(e, l)
        BY <2>10, <2>11, <3>1, <3>2, <3>3, <3>6 DEF LoadInv, Referenced, Live, Unattached
      <4>2. Started(e, l)
        BY <2>3, <2>5, <2>10 DEF Started
      <4> QED BY <3>4, <3>6, <4>1, <4>2 DEF LoadInv
    <3> QED BY <3>5, <3>6
  <2>14. ASSUME NEW n \in Logins PROVE LoginInv(e, n)
    BY <2>10 DEF ClientInv, LoginInv
  <2>15. ASSUME NEW m \in Changes PROVE ChangeInv(e, m)
    <3>1. ChangeInv(c, m)
      BY DEF ClientInv
    <3>2. \A k \in Loads : e.load[k].media = c.load[k].media
      BY <2>3, <2>5, <2>10
    <3> QED BY <2>10, <3>1, <3>2 DEF ChangeInv
  <2> QED BY <2>9, <2>12, <2>13, <2>14, <2>15 DEF ClientInv
<1> QED BY <1>1, <1>2

-----------------------------------------------------------------------------
(* What is known of hashes and of the user does not matter to the rest.    *)

(* d is c but for what is known of hashes, of the user and of the mode. *)
Same(c, d) ==
  /\ d \in ClientType
  /\ d.alive = c.alive /\ d.begun = c.begun /\ d.game = c.game /\ d.pings = c.pings /\ d.queue = c.queue
  /\ d.change = c.change /\ d.misused = c.misused /\ d.odd = c.odd /\ d.spectator = c.spectator /\ d.info = c.info
  /\ d.current = c.current /\ d.load = c.load /\ d.told = c.told /\ d.sent = c.sent /\ d.handle = c.handle

(* It keeps everything. *)
LEMMA SameKeeps ==
  ASSUME NEW c, ClientInv(c), NEW d, Same(c, d)
  PROVE  /\ ClientInv(d)
         /\ \A l \in Loads : Unattached(d, l) <=> Unattached(c, l)
<1>1. InFront(d) /\ Sound(d)
  BY DEF ClientInv, Same, InFront, Sound
<1>2. \A l \in Loads : /\ AskedSets(d, l) <=> AskedSets(c, l)
                       /\ AskedSession(d, l) <=> AskedSession(c, l)
                       /\ Asked(d, l) <=> Asked(c, l)
                       /\ Queued(d, l) <=> Queued(c, l)
  BY DEF AskedSets, AskedSession, Asked, Queued, Same
<1>3. ASSUME NEW l \in Loads PROVE LoadInv(d, l)
  <2>1. LoadInv(c, l)
    BY DEF ClientInv
  <2>2. Referenced(d, l) /\ IsCurrent(d, l)
    BY <1>2, <2>1 DEF LoadInv, Referenced, IsCurrent, Live, Freed, Aborted, Same
  <2>3. Told(d, l) /\ Started(d, l)
    BY <1>2, <2>1 DEF LoadInv, Told, Started, Live, Freed, Same
  <2> QED BY <2>2, <2>3 DEF LoadInv
<1>4. ASSUME NEW n \in Logins PROVE LoginInv(d, n)
  BY DEF ClientInv, LoginInv, Same
<1>5. ASSUME NEW m \in Changes PROVE ChangeInv(d, m)
  BY DEF ClientInv, ChangeInv, Same
<1>6. \A l \in Loads : Unattached(d, l) <=> Unattached(c, l)
  BY <1>2 DEF Unattached, Live, Same
<1> QED BY <1>1, <1>3, <1>4, <1>5, <1>6 DEF ClientInv, Same

(* What a hash stands for. *)
LEMMA KnownSame ==
  ASSUME NEW c \in ClientType, NEW h, NEW g \in Games \cup {None}, NEW d, d = [c EXCEPT !.id[h] = g]
  PROVE  Same(c, d)
<1>1. c.id \in [Hashes -> Games \cup {None, Unasked}]
  BY Fields
<1>2. PICK w \in [Hashes -> Games \cup {None, Unasked}] : w = [c.id EXCEPT ![h] = g]
  BY <1>1
<1>3. PICK e \in ClientType : e = [c EXCEPT !.id = w]
  <2>1. [c EXCEPT !.id = w] \in ClientType
    BY DEF ClientType
  <2> QED BY <2>1
<1>4. d = e
  BY <1>2, <1>3
<1>5. Same(c, e)
  BY <1>3 DEF ClientType, Same
<1> QED BY <1>4, <1>5

(* Who the user is. *)
LEMMA UserSame ==
  ASSUME NEW c \in ClientType, NEW u \in {"none", "requested", "logged_in"}, NEW d, d = [c EXCEPT !.user = u]
  PROVE  Same(c, d)
<1>1. [c EXCEPT !.user = u] \in ClientType
  BY DEF ClientType
<1>2. PICK e \in ClientType : e = [c EXCEPT !.user = u]
  BY <1>1
<1>3. Same(c, e)
  BY <1>2 DEF ClientType, Same
<1> QED BY <1>2, <1>3

-----------------------------------------------------------------------------
(* The answers.                                                            *)

(* rc_client_end_load_state, of a load that goes on. *)
LEMMA EndLoadStateEffect ==
  ASSUME NEW c \in ClientType, NEW l \in Loads, ~Freed(c, l), c.current = l \/ c.load[l].outstanding > 1,
         NEW d, d = EndLoadState(c, l)
  PROVE  /\ Aside(c, d, l) /\ d.info = c.info /\ d.told = c.told /\ d.sent = c.sent /\ d.handle = c.handle
         /\ d.current = c.current /\ d.spectator = c.spectator /\ d.odd = c.odd
         /\ d.load[l].outstanding = OneFewer(c.load[l].outstanding) /\ d.load[l].memory = c.load[l].memory
         /\ d.load[l].progress = c.load[l].progress /\ d.load[l].callback = c.load[l].callback
<1>1. c.load \in [Loads -> LoadType] /\ c.load[l] \in LoadType
  BY Fields
<1>2. c.load[l].outstanding \in Nat
  BY <1>1 DEF LoadType
<1>3. PICK n \in Nat : n = OneFewer(c.load[l].outstanding)
  BY <1>2 DEF OneFewer
<1>4. PICK v \in LoadType : v = [c.load[l] EXCEPT !.outstanding = n]
  <2>1. [c.load[l] EXCEPT !.outstanding = n] \in LoadType
    BY <1>1 DEF LoadType
  <2> QED BY <2>1
<1>5. /\ v.outstanding = n /\ v.memory = c.load[l].memory /\ v.progress = c.load[l].progress
      /\ v.callback = c.load[l].callback /\ v.media \in {c.load[l].media, None}
  BY <1>1, <1>4 DEF LoadType
<1>6. PICK e : e = WithLoad(c, l, v)
  OBVIOUS
<1>7. e = [c EXCEPT !.load[l].outstanding = OneFewer(@)]
  BY <1>3, <1>4, <1>6 DEF WithLoad
<1>8. /\ Aside(c, e, l) /\ e.load[l] = v /\ e.info = c.info /\ e.told = c.told /\ e.sent = c.sent /\ e.handle = c.handle
      /\ e.current = c.current /\ e.spectator = c.spectator /\ e.odd = c.odd
  <2>1. v.media \in {c.load[l].media, None}
    BY <1>5
  <2> QED BY <1>6, <2>1, WithLoadEffect
<1>9. c.current = l \/ e.load[l].outstanding # 0
  BY <1>2, <1>3, <1>5, <1>8 DEF OneFewer
<1>10. d = e
  BY <1>7, <1>9 DEF EndLoadState, Overtaken
<1> QED BY <1>3, <1>5, <1>8, <1>10

(* rc_client_load_error, of a load with a request in flight. *)
LEMMA LoadErrorEffect ==
  ASSUME NEW c \in ClientType, NEW l \in Loads, ~Freed(c, l), c.load[l].outstanding # 0, NEW r \in Results,
         NEW d, d = LoadError(c, l, r)
  PROVE  /\ Aside(c, d, l) /\ d.current # l /\ d.sent = c.sent /\ d.handle = c.handle /\ d.odd = c.odd /\ d.info = c.info
         /\ d.told[OfLoad(l)] = IF c.load[l].callback THEN Append(c.told[OfLoad(l)], r) ELSE c.told[OfLoad(l)]
         /\ d.load[l].outstanding = c.load[l].outstanding /\ d.load[l].memory = c.load[l].memory
         /\ d.load[l].progress = "aborted" /\ d.spectator = c.spectator
<1>1. c.load[l] \in LoadType
  BY Fields
<1>2. PICK e : e = Detached(c, l)
  OBVIOUS
<1>3. /\ Aside(c, e, l) /\ e.load[l] = [c.load[l] EXCEPT !.progress = "aborted"] /\ e.current # l
      /\ e.told = c.told /\ e.sent = c.sent /\ e.handle = c.handle /\ e.odd = c.odd /\ e.info = c.info
      /\ e.spectator = c.spectator
  BY <1>2, DetachedEffect
<1>4. /\ e.load[l].outstanding = c.load[l].outstanding /\ e.load[l].memory = c.load[l].memory
      /\ e.load[l].progress = "aborted" /\ e.load[l].callback = c.load[l].callback
  BY <1>1, <1>3 DEF LoadType
<1>5. d = TellLoad(e, l, r)
  BY <1>2 DEF LoadError, Detached
<1>6. /\ Aside(e, d, l) /\ d.load = e.load /\ d.current = e.current /\ d.info = e.info
      /\ d.sent = e.sent /\ d.handle = e.handle /\ d.odd = e.odd /\ d.spectator = e.spectator
      /\ d.told[OfLoad(l)] = IF e.load[l].callback THEN Append(e.told[OfLoad(l)], r) ELSE e.told[OfLoad(l)]
  <2>1. e \in ClientType
    BY <1>3 DEF Aside, Beside
  <2> QED BY <1>5, <2>1, TellLoadEffect
<1>7. Aside(c, d, l)
  BY <1>3, <1>6, AsideThrough
<1>8. d.told[OfLoad(l)] = IF c.load[l].callback THEN Append(c.told[OfLoad(l)], r) ELSE c.told[OfLoad(l)]
  BY <1>3, <1>4, <1>6
<1> QED BY <1>3, <1>4, <1>6, <1>7, <1>8

(* The game the answer described, and whether it came without any set. *)
Described(c, l, h, g, empty) ==
  [c EXCEPT !.id[h] = g, !.info[l] = [id |-> g, hash |-> h, session |-> FALSE],
            !.odd = IF empty THEN @ \cup {"empty"} ELSE @]

(* Nothing else changes. *)
LEMMA DescribedEffect ==
  ASSUME NEW c \in ClientType, NEW l \in Loads, c.game # l, NEW h \in Hashes \cup {None}, NEW g \in Games,
         NEW empty \in BOOLEAN, NEW d, d = Described(c, l, h, g, empty)
  PROVE  /\ Aside(c, d, l) /\ d.load = c.load /\ d.told = c.told /\ d.sent = c.sent /\ d.handle = c.handle
         /\ d.current = c.current /\ d.spectator = c.spectator /\ (empty => "empty" \in d.odd)
<1>1. c.id \in [Hashes -> Games \cup {None, Unasked}] /\ c.info \in [Loads -> GameType]
  BY Fields
<1>2. PICK i \in [Hashes -> Games \cup {None, Unasked}] : i = [c.id EXCEPT ![h] = g]
  BY <1>1
<1>3. PICK a \in GameType : a = [id |-> g, hash |-> h, session |-> FALSE]
  BY DEF GameType
<1>4. PICK w \in [Loads -> GameType] : w = [c.info EXCEPT ![l] = a]
  BY <1>1
<1>5. PICK odd \in SUBSET {"empty", "early", "relocked"} : odd = IF empty THEN c.odd \cup {"empty"} ELSE c.odd
  BY Fields
<1>6. PICK e \in ClientType : e = [c EXCEPT !.id = i, !.info = w, !.odd = odd]
  <2>1. [c EXCEPT !.id = i, !.info = w, !.odd = odd] \in ClientType
    BY DEF ClientType
  <2> QED BY <2>1
<1>7. d = e
  BY <1>2, <1>3, <1>4, <1>5, <1>6 DEF Described
<1>8. /\ e.alive = c.alive /\ e.user = c.user /\ e.begun = c.begun /\ e.game = c.game /\ e.pings = c.pings /\ e.queue = c.queue
      /\ e.change = c.change /\ e.misused = c.misused /\ e.odd = odd /\ e.spectator = c.spectator /\ e.info = w
      /\ e.current = c.current /\ e.load = c.load /\ e.told = c.told /\ e.sent = c.sent /\ e.handle = c.handle
  BY <1>6 DEF ClientType
<1>9. \A k \in Loads : k # l => e.info[k] = c.info[k]
  BY <1>1, <1>4, <1>8
<1>10. Aside(c, e, l)
  BY <1>5, <1>8, <1>9 DEF Aside, Beside
<1> QED BY <1>5, <1>7, <1>8, <1>10

(* Spectator mode is locked. *)
Locked(c) == [c EXCEPT !.spectator = "locked"]

(* Nothing else changes. *)
LEMMA LockedEffect ==
  ASSUME NEW c \in ClientType, NEW l \in Loads, NEW d, d = Locked(c)
  PROVE  /\ Aside(c, d, l) /\ d.load = c.load /\ d.told = c.told /\ d.sent = c.sent /\ d.handle = c.handle
         /\ d.current = c.current /\ d.spectator = "locked" /\ d.odd = c.odd /\ d.info = c.info
<1>1. PICK e \in ClientType : e = [c EXCEPT !.spectator = "locked"]
  <2>1. [c EXCEPT !.spectator = "locked"] \in ClientType
    BY DEF ClientType
  <2> QED BY <2>1
<1>2. /\ e.alive = c.alive /\ e.user = c.user /\ e.begun = c.begun /\ e.game = c.game /\ e.pings = c.pings /\ e.queue = c.queue
      /\ e.change = c.change /\ e.misused = c.misused /\ e.odd = c.odd /\ e.spectator = "locked" /\ e.info = c.info
      /\ e.current = c.current /\ e.load = c.load /\ e.told = c.told /\ e.sent = c.sent /\ e.handle = c.handle
  BY <1>1 DEF ClientType
<1>3. Aside(c, e, l)
  BY <1>2 DEF Aside, Beside
<1> QED BY <1>1, <1>2, <1>3 DEF Locked

(* rc_client_begin_load_state, for one request more. *)
LEMMA BeginLoadStateEffect ==
  ASSUME NEW c \in ClientType, NEW l \in Loads, NEW d, d = BeginLoadState(c, l, "starting", 1)
  PROVE  /\ Aside(c, d, l) /\ d.info = c.info /\ d.told = c.told /\ d.sent = c.sent /\ d.handle = c.handle
         /\ d.current = c.current /\ d.spectator = c.spectator /\ d.odd = c.odd
         /\ d.load[l].outstanding = c.load[l].outstanding + 1 /\ d.load[l].memory = c.load[l].memory
         /\ d.load[l].progress = "starting" /\ d.load[l].callback = c.load[l].callback
<1>1. c.load \in [Loads -> LoadType] /\ c.load[l] \in LoadType
  BY Fields
<1>2. PICK n \in Nat : n = c.load[l].outstanding + 1
  BY <1>1 DEF LoadType
<1>3. PICK v \in LoadType : v = [c.load[l] EXCEPT !.progress = "starting", !.outstanding = n]
  <2>1. [c.load[l] EXCEPT !.progress = "starting", !.outstanding = n] \in LoadType
    BY <1>1 DEF LoadType
  <2> QED BY <2>1
<1>4. /\ v.outstanding = n /\ v.memory = c.load[l].memory /\ v.progress = "starting"
      /\ v.callback = c.load[l].callback /\ v.media \in {c.load[l].media, None}
  BY <1>1, <1>3 DEF LoadType
<1>5. PICK e : e = WithLoad(c, l, v)
  OBVIOUS
<1>6. d = e
  <2>1. v = [c.load[l] EXCEPT !.progress = "starting", !.outstanding = c.load[l].outstanding + 1]
    BY <1>2, <1>3
  <2>2. PICK w \in [Loads -> LoadType] : w = [c.load EXCEPT ![l] = v]
    BY <1>1
  <2>3. BeginLoadState(c, l, "starting", 1) = [c EXCEPT !.load = w]
    BY <1>1, <2>1, <2>2 DEF BeginLoadState
  <2>4. e = [c EXCEPT !.load = w]
    BY <1>5, <2>2 DEF WithLoad
  <2> QED BY <2>3, <2>4
<1>7. /\ Aside(c, e, l) /\ e.load[l] = v /\ e.info = c.info /\ e.told = c.told /\ e.sent = c.sent /\ e.handle = c.handle
      /\ e.current = c.current /\ e.spectator = c.spectator /\ e.odd = c.odd
  <2>1. v.media \in {c.load[l].media, None}
    BY <1>4
  <2> QED BY <1>5, <2>1, WithLoadEffect
<1> QED BY <1>2, <1>4, <1>6, <1>7

(* The load has its data. *)
Filled(c, l) == [c EXCEPT !.load[l].game = "filled"]

(* Nothing else changes. *)
LEMMA FilledEffect ==
  ASSUME NEW c \in ClientType, NEW l \in Loads, NEW d, d = Filled(c, l)
  PROVE  /\ Aside(c, d, l) /\ d.info = c.info /\ d.told = c.told /\ d.sent = c.sent /\ d.handle = c.handle
         /\ d.current = c.current /\ d.spectator = c.spectator /\ d.odd = c.odd
         /\ d.load[l].outstanding = c.load[l].outstanding /\ d.load[l].memory = c.load[l].memory
         /\ d.load[l].progress = c.load[l].progress /\ d.load[l].callback = c.load[l].callback
<1>1. c.load \in [Loads -> LoadType] /\ c.load[l] \in LoadType
  BY Fields
<1>2. PICK v \in LoadType : v = [c.load[l] EXCEPT !.game = "filled"]
  <2>1. [c.load[l] EXCEPT !.game = "filled"] \in LoadType
    BY <1>1 DEF LoadType
  <2> QED BY <2>1
<1>3. /\ v.outstanding = c.load[l].outstanding /\ v.memory = c.load[l].memory /\ v.progress = c.load[l].progress
      /\ v.callback = c.load[l].callback /\ v.media \in {c.load[l].media, None}
  BY <1>1, <1>2 DEF LoadType
<1>4. d = WithLoad(c, l, v)
  BY <1>2 DEF WithLoad, Filled
<1>5. /\ Aside(c, d, l) /\ d.load[l] = v /\ d.info = c.info /\ d.told = c.told /\ d.sent = c.sent /\ d.handle = c.handle
      /\ d.current = c.current /\ d.spectator = c.spectator /\ d.odd = c.odd
  <2>1. v.media \in {c.load[l].media, None}
    BY <1>3
  <2> QED BY <1>4, <2>1, WithLoadEffect
<1> QED BY <1>3, <1>5

(* A load that asked for its session, while it is the client's or after an *)
(* answer without sets failed it.                                          *)
LEMMA SessionAsked ==
  ASSUME NEW d, NEW l \in Loads, Others(d, l), Live(d, l), ~(d.begun < l), d.load[l].outstanding = 1,
         d.load[l].progress # "await_login", AskedSession(d, l), ~AskedSets(d, l), ~Queued(d, l),
         d.current = l => d.told[OfLoad(l)] = <<>>, d.current = l \/ "empty" \in d.odd,
         Len(d.told[OfLoad(l)]) <= 1, "ok" \notin ToSet(d.told[OfLoad(l)])
  PROVE  ClientInv(d)
<1>1. Referenced(d, l)
  BY DEF Referenced, Live, Asked
<1>2. IsCurrent(d, l) /\ Told(d, l) /\ Started(d, l)
  BY DEF IsCurrent, Told, Started, Live, Freed
<1> QED BY <1>1, <1>2, Whole DEF LoadInv

(* rc_client_fetch_game_sets_callback, of the client's load. *)
LEMMA SetsOfKeeps ==
  ASSUME NEW c, ClientInv(c), NEW l \in Loads, Unattached(c, l), c.current = l, NEW g \in Games, NEW empty \in BOOLEAN,
         NEW d, d = SetsOf(c, l, g, empty)
  PROVE  ClientInv(d)
<1> DEFINE h == c.load[l].hash
           known == [c EXCEPT !.id[h] = g, !.info[l] = [id |-> g, hash |-> h, session |-> FALSE],
                              !.odd = IF empty THEN @ \cup {"empty"} ELSE @]
           began == BeginLoadState(known, l, "starting", 1)
           asked == IF c.spectator = "off" THEN BeginStartSession(began, l) ELSE [began EXCEPT !.spectator = "locked"]
           filled == IF empty THEN LoadError(asked, l, "not_found") ELSE [asked EXCEPT !.load[l].game = "filled"]
           ended == EndLoadState(filled, l)
<1>0. d = IF LastAnswer(filled, l) THEN ActivateOrQueue(ended, l, FALSE) ELSE ended
  BY DEF SetsOf
<1>a. known = Described(c, l, h, g, empty)
  BY DEF Described
<1>b. asked = IF c.spectator = "off" THEN Asking(began, l, "starting", "session") ELSE Locked(began)
  BY DEF BeginStartSession, Asking, Locked
<1>c. filled = IF empty THEN LoadError(asked, l, "not_found") ELSE Filled(asked, l)
  BY DEF Filled
<1> HIDE DEF h, known, began, asked, filled, ended
<1>1. c \in ClientType /\ Others(c, l) /\ LoadInv(c, l) /\ InFront(c) /\ h \in Hashes \cup {None}
  <2>1. c \in ClientType
    BY DEF ClientInv
  <2>2. c.load[l] \in LoadType
    BY <2>1, Fields
  <2>3. h \in Hashes \cup {None}
    BY <2>2 DEF LoadType, h
  <2> QED BY <2>1, <2>3, Whole DEF ClientInv
<1>2. l # None /\ c.alive /\ c.game # l /\ c.handle[OfLoad(l)] # "destroyed"
  <2>1. l # None /\ OfLoad(l) \in Operations
    BY LoadAssumption, Names
  <2> QED BY <1>1, <2>1 DEF InFront
<1>3. /\ c.told[OfLoad(l)] = <<>> /\ c.load[l].outstanding = 0 /\ Live(c, l) /\ ~(c.begun < l)
      /\ ~AskedSets(c, l) /\ ~AskedSession(c, l) /\ ~Queued(c, l)
  BY <1>1, UnattachedFacts DEF LoadInv, IsCurrent, Unattached, Live, Freed, Asked
<1>4. /\ Aside(c, known, l) /\ known.load = c.load /\ known.told = c.told /\ known.sent = c.sent /\ known.handle = c.handle
      /\ known.current = c.current /\ known.spectator = c.spectator /\ (empty => "empty" \in known.odd)
  BY <1>1, <1>2, <1>a, DescribedEffect
<1>5. known \in ClientType /\ known.alive = c.alive
  BY <1>4 DEF Aside, Beside
<1>6. /\ Aside(known, began, l) /\ began.info = known.info /\ began.told = known.told /\ began.sent = known.sent
      /\ began.handle = known.handle /\ began.current = known.current /\ began.spectator = known.spectator
      /\ began.odd = known.odd /\ began.load[l].outstanding = known.load[l].outstanding + 1
      /\ began.load[l].memory = known.load[l].memory /\ began.load[l].progress = "starting"
  BY <1>5, BeginLoadStateEffect DEF began
<1>7. /\ Aside(c, began, l) /\ began \in ClientType /\ began.alive /\ began.handle[OfLoad(l)] # "destroyed"
      /\ began.load[l].outstanding = 1 /\ Live(began, l) /\ began.current = l /\ began.told = c.told
      /\ began.sent = c.sent
  <2>1. Aside(c, began, l)
    BY <1>4, <1>6, AsideThrough
  <2>2. began \in ClientType /\ began.alive
    BY <1>2, <1>5, <1>6 DEF Aside, Beside
  <2>3. began.load[l].outstanding = 1 /\ Live(began, l)
    BY <1>3, <1>4, <1>6 DEF Live
  <2> QED BY <1>2, <1>4, <1>6, <2>1, <2>2, <2>3
<1>8. CASE c.spectator = "off"
  <2>1. /\ Aside(began, asked, l) /\ asked.current = began.current /\ asked.told = began.told
        /\ asked.odd = began.odd
        /\ asked.load[l].progress = "starting" /\ asked.load[l].outstanding = began.load[l].outstanding + 1
        /\ asked.load[l].memory = began.load[l].memory
        /\ asked.sent = began.sent \cup {<<"session", OfLoad(l)>>} /\ asked.handle[OfLoad(l)] = "fine"
    BY <1>7, <1>8, <1>b, AskingEffect
  <2>2. /\ Aside(c, asked, l) /\ asked \in ClientType /\ asked.current = l /\ asked.told = c.told
        /\ asked.load[l].outstanding = 2 /\ ~Freed(asked, l)
        /\ asked.sent = c.sent \cup {<<"session", OfLoad(l)>>} /\ (empty => "empty" \in asked.odd)
    <3>1. Aside(c, asked, l)
      BY <1>7, <2>1, AsideThrough
    <3>2. asked \in ClientType
      BY <3>1 DEF Aside, Beside
    <3> QED BY <1>4, <1>6, <1>7, <2>1, <3>1, <3>2 DEF Live, Freed
  <2>3. /\ Aside(asked, filled, l) /\ filled.sent = asked.sent /\ filled.odd = asked.odd
        /\ filled.load[l].outstanding = 2 /\ filled.load[l].memory = asked.load[l].memory
        /\ filled.load[l].progress # "await_login" /\ (empty \/ filled.current = l)
        /\ (empty => filled.current # l)
        /\ (~empty => filled.told = c.told)
        /\ filled.told[OfLoad(l)] \in {<<>>, Append(<<>>, "not_found")}
    <3>1. CASE empty
      <4>1. asked \in ClientType /\ ~Freed(asked, l) /\ asked.load[l].outstanding # 0
        BY <2>2
      <4>a. PICK r \in Results : r = "not_found"
        BY DEF Results
      <4>2. filled = LoadError(asked, l, r)
        BY <1>c, <3>1, <4>a
      <4>3. /\ Aside(asked, filled, l) /\ filled.current # l /\ filled.sent = asked.sent /\ filled.odd = asked.odd
            /\ filled.told[OfLoad(l)] = IF asked.load[l].callback THEN Append(asked.told[OfLoad(l)], r) ELSE asked.told[OfLoad(l)]
            /\ filled.load[l].outstanding = asked.load[l].outstanding /\ filled.load[l].memory = asked.load[l].memory
            /\ filled.load[l].progress = "aborted"
        BY <4>1, <4>2, LoadErrorEffect
      <4>4. asked.told[OfLoad(l)] = <<>>
        BY <1>3, <2>2
      <4> QED BY <2>2, <3>1, <4>a, <4>3, <4>4
    <3>2. CASE ~empty
      <4>1. filled = Filled(asked, l)
        BY <1>c, <3>2
      <4>2. /\ Aside(asked, filled, l) /\ filled.told = asked.told /\ filled.sent = asked.sent
            /\ filled.current = asked.current /\ filled.odd = asked.odd
            /\ filled.load[l].outstanding = asked.load[l].outstanding /\ filled.load[l].memory = asked.load[l].memory
            /\ filled.load[l].progress = asked.load[l].progress
        BY <2>2, <4>1, FilledEffect
      <4> QED BY <1>3, <2>1, <2>2, <3>2, <4>2
    <3> QED BY <3>1, <3>2
  <2>4. filled \in ClientType /\ ~Freed(filled, l) /\ filled.load[l].outstanding > 1
    BY <2>2, <2>3 DEF Aside, Beside, Freed
  <2>5. /\ Aside(filled, ended, l) /\ ended.told = filled.told /\ ended.sent = filled.sent
        /\ ended.current = filled.current /\ ended.odd = filled.odd
        /\ ended.load[l].outstanding = OneFewer(filled.load[l].outstanding)
        /\ ended.load[l].memory = filled.load[l].memory /\ ended.load[l].progress = filled.load[l].progress
    BY <2>4, EndLoadStateEffect DEF ended
  <2>6. Aside(c, ended, l)
    BY <2>2, <2>3, <2>5, AsideThrough
  <2>7. Others(ended, l) /\ ended.queue = c.queue /\ ended.begun = c.begun
    BY <1>1, <2>6, AsideKeeps DEF Aside, Beside
  <2>8. d = ended
    BY <1>0, <2>3 DEF LastAnswer
  <2>9. ended.load[l].outstanding = 1
    BY <2>3, <2>5 DEF OneFewer
  <2>10. AskedSession(ended, l) /\ ~AskedSets(ended, l) /\ ~Queued(ended, l)
    BY <1>3, <2>2, <2>3, <2>5, <2>7 DEF AskedSession, AskedSets, Queued
  <2>11. Live(ended, l) /\ ~(ended.begun < l)
    BY <1>3, <1>7, <2>1, <2>3, <2>5, <2>7 DEF Live
  <2>12. (ended.current = l => ended.told[OfLoad(l)] = <<>>) /\ (ended.current = l \/ "empty" \in ended.odd)
    BY <1>3, <2>2, <2>3, <2>5
  <2>13. Len(ended.told[OfLoad(l)]) <= 1 /\ "ok" \notin ToSet(ended.told[OfLoad(l)])
    <3>1. CASE ended.told[OfLoad(l)] = <<>>
      BY <3>1 DEF ToSet
    <3>2. CASE ended.told[OfLoad(l)] = Append(<<>>, "not_found")
      BY <3>2 DEF ToSet
    <3> QED BY <2>3, <2>5, <3>1, <3>2
  <2> QED BY <2>3, <2>5, <2>7, <2>8, <2>9, <2>10, <2>11, <2>12, <2>13, SessionAsked
<1>9. CASE c.spectator # "off"
  <2>1. /\ Aside(began, asked, l) /\ asked.load = began.load /\ asked.told = began.told /\ asked.sent = began.sent
        /\ asked.current = began.current /\ asked.spectator = "locked" /\ asked.odd = began.odd
    BY <1>7, <1>9, <1>b, LockedEffect
  <2>2. /\ Aside(c, asked, l) /\ asked \in ClientType /\ asked.current = l /\ asked.told = c.told
        /\ asked.load[l].outstanding = 1 /\ ~Freed(asked, l) /\ asked.sent = c.sent /\ asked.load[l].progress = "starting"
    <3>1. Aside(c, asked, l)
      BY <1>7, <2>1, AsideThrough
    <3>2. asked \in ClientType
      BY <3>1 DEF Aside, Beside
    <3> QED BY <1>6, <1>7, <2>1, <3>1, <3>2 DEF Live, Freed
  <2>3. CASE empty
    <3>a. PICK r \in Results : r = "not_found"
      BY DEF Results
    <3>1. filled = LoadError(asked, l, r)
      BY <1>c, <2>3, <3>a
    <3>b. asked \in ClientType /\ ~Freed(asked, l) /\ asked.load[l].outstanding # 0
      BY <2>2
    <3>2. /\ Aside(asked, filled, l) /\ filled.current # l /\ filled.sent = asked.sent
          /\ filled.told[OfLoad(l)] = IF asked.load[l].callback THEN Append(asked.told[OfLoad(l)], r) ELSE asked.told[OfLoad(l)]
          /\ filled.load[l].outstanding = asked.load[l].outstanding /\ filled.load[l].memory = asked.load[l].memory
          /\ filled.load[l].progress = "aborted"
      BY <3>1, <3>b, LoadErrorEffect
    <3>3. Aside(c, filled, l)
      BY <2>2, <3>2, AsideThrough
    <3>4. Others(filled, l) /\ filled.queue = c.queue /\ filled.begun = c.begun
      BY <1>1, <3>3, AsideKeeps DEF Aside, Beside
    <3>5. Unattached(filled, l) /\ ~(filled.begun < l)
      BY <1>3, <1>7, <2>1, <2>2, <3>2, <3>4 DEF Unattached, Live, Asked, AskedSets, AskedSession, Queued
    <3>6. Len(filled.told[OfLoad(l)]) <= 1 /\ "ok" \notin ToSet(filled.told[OfLoad(l)])
      <4>1. filled.told[OfLoad(l)] \in {<<>>, Append(<<>>, "not_found")}
        BY <1>3, <2>2, <3>a, <3>2
      <4>2. CASE filled.told[OfLoad(l)] = <<>>
        BY <4>2 DEF ToSet
      <4>3. CASE filled.told[OfLoad(l)] = Append(<<>>, "not_found")
        BY <4>3 DEF ToSet
      <4> QED BY <4>1, <4>2, <4>3
    <3>7. Answering(filled, l)
      BY <2>2, <3>2, <3>5, <3>6 DEF Answering
    <3>8. ClientInv(ended)
      BY <3>4, <3>7, EndLoadStateKeeps DEF ended
    <3>9. d = ended
      BY <1>0, <3>2 DEF LastAnswer, Overtaken
    <3> QED BY <3>8, <3>9
  <2>4. CASE ~empty
    <3>1. filled = Filled(asked, l)
      BY <1>c, <2>4
    <3>2. /\ Aside(asked, filled, l) /\ filled.told = asked.told /\ filled.sent = asked.sent
          /\ filled.current = asked.current /\ filled.spectator = asked.spectator
          /\ filled.load[l].outstanding = asked.load[l].outstanding /\ filled.load[l].memory = asked.load[l].memory
          /\ filled.load[l].progress = asked.load[l].progress
      BY <2>2, <3>1, FilledEffect
    <3>3. filled \in ClientType /\ ~Freed(filled, l) /\ filled.current = l
      BY <2>2, <3>2 DEF Aside, Beside, Freed
    <3>4. /\ Aside(filled, ended, l) /\ ended.told = filled.told /\ ended.sent = filled.sent
          /\ ended.current = filled.current /\ ended.spectator = filled.spectator
          /\ ended.load[l].outstanding = OneFewer(filled.load[l].outstanding)
          /\ ended.load[l].memory = filled.load[l].memory /\ ended.load[l].progress = filled.load[l].progress
      BY <3>3, EndLoadStateEffect DEF ended
    <3>5. Aside(c, ended, l)
      BY <2>2, <3>2, <3>4, AsideThrough
    <3>6. Others(ended, l) /\ ended.queue = c.queue /\ ended.begun = c.begun
      BY <1>1, <3>5, AsideKeeps DEF Aside, Beside
    <3>7. ended.load[l].outstanding = 0 /\ ended.load[l].progress = "starting" /\ ended.told[OfLoad(l)] = <<>>
      BY <1>3, <2>2, <3>2, <3>4 DEF OneFewer
    <3>8. Unattached(ended, l) /\ ~(ended.begun < l) /\ ~AskedSets(ended, l) /\ ~AskedSession(ended, l)
      BY <1>3, <1>7, <2>1, <2>2, <3>2, <3>4, <3>6 DEF Unattached, Live, Asked, AskedSets, AskedSession, Queued
    <3>9. ClientInv(ended)
      <4>1. Referenced(ended, l)
        BY <3>7, <3>8 DEF Referenced, Unattached, Live
      <4>2. IsCurrent(ended, l) /\ Told(ended, l) /\ Started(ended, l)
        BY <3>7, <3>8 DEF IsCurrent, Told, Started, Unattached, Live, Freed, ToSet
      <4> QED BY <3>6, <4>1, <4>2, Whole DEF LoadInv
    <3>10. LastAnswer(filled, l)
      BY <2>2, <3>2, <3>3 DEF LastAnswer, Overtaken
    <3>11. d = ActivateOrQueue(ended, l, FALSE)
      BY <1>0, <3>10
    <3>12. ended.spectator = "locked"
      BY <2>1, <3>2, <3>4
    <3> QED BY <3>7, <3>8, <3>9, <3>11, <3>12, ActivateOrQueueKeeps
  <2> QED BY <2>3, <2>4
<1> QED BY <1>8, <1>9

(* A load whose client was destroyed is freed and told nothing. *)
LEMMA DestroyedAnswerKeeps ==
  ASSUME NEW c, NEW l \in Loads, Others(c, l), Answering(c, l), c.current # l, NEW d, d = FreeLoadState(c, l)
  PROVE  ClientInv(d)
<1>1. Len(c.told[OfLoad(l)]) <= 2
  <2>1. Len(c.told[OfLoad(l)]) \in Nat /\ Len(c.told[OfLoad(l)]) <= 1
    <3>1. c.told[OfLoad(l)] \in Seq(Results)
      BY Fields, Names DEF Others, Rest
    <3> QED BY <3>1 DEF Answering
  <2> QED BY <2>1
<1> QED BY <1>1, FreeKeeps DEF Answering

(* rc_client_fetch_game_sets_callback. *)
LEMMA SetsAnswerKeeps ==
  ASSUME NEW c, ClientInv(c), NEW l \in Loads, <<"sets", OfLoad(l)>> \in c.sent, NEW a \in SetsAnswers,
         NEW b, b = Received(c, "sets", OfLoad(l)), NEW d, d = SetsAnswer(b, l, a)
  PROVE  ClientInv(d)
<1> DEFINE ended == EndLoadState(b, l)
           unknown == [ended EXCEPT !.id[b.load[l].hash] = None]
<1>0. d = IF b.handle[OfLoad(l)] = "destroyed" THEN FreeLoadState(b, l)
          ELSE IF b.handle[OfLoad(l)] = "aborted" THEN LoadAborted(b, l)
          ELSE IF a.is = "failed" THEN LoadError(ended, l, "failed")
          ELSE IF Overtaken(b, l) THEN ended
          ELSE IF a.is = "unknown" THEN UnknownGame(unknown, l)
          ELSE SetsOf(ended, l, a.game, a.is = "empty")
  BY DEF SetsAnswer
<1>a. unknown = [ended EXCEPT !.id[b.load[l].hash] = None]
  OBVIOUS
<1>b. ended = EndLoadState(b, l)
  OBVIOUS
<1> HIDE DEF ended, unknown
<1>1. /\ Others(b, l) /\ Answering(b, l)
      /\ b.handle[OfLoad(l)] = "destroyed" => b.current # l
      /\ b.handle[OfLoad(l)] \notin {"aborted", "destroyed"} => b.current = l
  <2>1. PICK kind : kind = "sets"
    OBVIOUS
  <2>a. (kind = "sets" \/ kind = "session") /\ <<kind, OfLoad(l)>> \in c.sent /\ b = Received(c, kind, OfLoad(l))
    BY <2>1
  <2>2. /\ Others(b, l) /\ Answering(b, l) /\ b.handle = c.handle /\ b.odd = c.odd
        /\ b.handle[OfLoad(l)] = "destroyed" => b.current # l
        /\ b.handle[OfLoad(l)] \notin {"aborted", "destroyed"} => b.current = l \/ (kind = "session" /\ "empty" \in b.odd)
    BY <2>a, AnsweredHolds
  <2> QED BY <2>1, <2>2
<1>2. CASE b.handle[OfLoad(l)] = "destroyed"
  BY <1>0, <1>1, <1>2, DestroyedAnswerKeeps
<1>3. CASE b.handle[OfLoad(l)] = "aborted"
  BY <1>0, <1>1, <1>3, LoadAbortedKeeps
<1>4. CASE b.handle[OfLoad(l)] \notin {"aborted", "destroyed"}
  <2>1. b.current = l
    BY <1>1, <1>4
  <2>2. ClientInv(ended) /\ Unattached(ended, l) /\ ended.current = l
    <3>1. /\ ClientInv(ended) /\ ended.current = b.current
          /\ b.current = l => Unattached(ended, l) /\ ended.load[l].progress # "await_login" /\ ended.load[l].hash = b.load[l].hash
      BY <1>1, <1>b, EndLoadStateKeeps
    <3> QED BY <2>1, <3>1
  <2>3. CASE a.is = "failed"
    <3>1. d = LoadError(ended, l, "failed") /\ "failed" \in Results
      BY <1>0, <1>4, <2>3 DEF Results
    <3> QED BY <2>2, <3>1, LoadErrorKeeps
  <2>4. CASE a.is = "unknown"
    <3>1. d = UnknownGame(unknown, l)
      BY <1>0, <1>4, <2>1, <2>4 DEF Overtaken
    <3>2. ended \in ClientType
      BY <2>2 DEF ClientInv
    <3>3. Same(ended, unknown)
      BY <1>a, <3>2, KnownSame
    <3>4. ClientInv(unknown) /\ Unattached(unknown, l) /\ unknown.current = l
      BY <2>2, <3>3, SameKeeps DEF Same
    <3> QED BY <3>1, <3>4, UnknownGameKeeps
  <2>5. CASE a.is \notin {"failed", "unknown"}
    <3>1. a.game \in Games /\ (a.is = "empty") \in BOOLEAN
      BY <2>5 DEF SetsAnswers
    <3>2. d = SetsOf(ended, l, a.game, a.is = "empty")
      BY <1>0, <1>4, <2>1, <2>5 DEF Overtaken
    <3> QED BY <2>2, <3>1, <3>2, SetsOfKeeps
  <2> QED BY <2>3, <2>4, <2>5
<1> QED BY <1>2, <1>3, <1>4

(* The game's session has started. *)
InSession(c, l) == [c EXCEPT !.info[l].session = TRUE]

(* Nothing else changes. *)
LEMMA InSessionEffect ==
  ASSUME NEW c \in ClientType, NEW l \in Loads, c.game # l, NEW d, d = InSession(c, l)
  PROVE  /\ Aside(c, d, l) /\ d.load = c.load /\ d.told = c.told /\ d.sent = c.sent /\ d.handle = c.handle
         /\ d.current = c.current /\ d.spectator = c.spectator /\ d.odd = c.odd /\ d.info[l].session
<1>1. c.info \in [Loads -> GameType] /\ c.info[l] \in GameType
  BY Fields
<1>2. PICK a \in GameType : a = [c.info[l] EXCEPT !.session = TRUE]
  <2>1. [c.info[l] EXCEPT !.session = TRUE] \in GameType
    BY <1>1 DEF GameType
  <2> QED BY <2>1
<1>3. a.session
  BY <1>1, <1>2 DEF GameType
<1>4. PICK w \in [Loads -> GameType] : w = [c.info EXCEPT ![l] = a]
  BY <1>1
<1>5. PICK e \in ClientType : e = [c EXCEPT !.info = w]
  <2>1. [c EXCEPT !.info = w] \in ClientType
    BY DEF ClientType
  <2> QED BY <2>1
<1>6. d = e
  BY <1>2, <1>4, <1>5 DEF InSession
<1>7. /\ e.alive = c.alive /\ e.user = c.user /\ e.begun = c.begun /\ e.game = c.game /\ e.pings = c.pings /\ e.queue = c.queue
      /\ e.change = c.change /\ e.misused = c.misused /\ e.odd = c.odd /\ e.spectator = c.spectator /\ e.info = w
      /\ e.current = c.current /\ e.load = c.load /\ e.told = c.told /\ e.sent = c.sent /\ e.handle = c.handle
  BY <1>5 DEF ClientType
<1>8. w[l] = a /\ \A k \in Loads : k # l => w[k] = c.info[k]
  BY <1>1, <1>4
<1>9. Aside(c, e, l)
  BY <1>7, <1>8 DEF Aside, Beside
<1> QED BY <1>3, <1>6, <1>7, <1>8, <1>9

(* rc_client_start_session_callback. *)
LEMMA SessionAnswerKeeps ==
  ASSUME NEW c, ClientInv(c), NEW l \in Loads, <<"session", OfLoad(l)>> \in c.sent, NEW succeeded \in BOOLEAN,
         NEW b, b = Received(c, "session", OfLoad(l)), NEW d, d = SessionAnswer(b, l, succeeded)
  PROVE  ClientInv(d)
<1> DEFINE ended == EndLoadState(b, l)
           kept == [ended EXCEPT !.load[l].session = TRUE]
           started == [ended EXCEPT !.info[l].session = TRUE]
<1>0. d = IF b.handle[OfLoad(l)] = "destroyed" THEN FreeLoadState(b, l)
          ELSE IF b.handle[OfLoad(l)] = "aborted" THEN LoadAborted(b, l)
          ELSE IF ~succeeded THEN LoadError(ended, l, "failed")
          ELSE IF Overtaken(b, l) THEN ended
          ELSE IF LastAnswer(b, l) THEN ActivateOrQueue(started, l, TRUE)
          ELSE kept
  BY DEF SessionAnswer
<1>a. started = InSession(ended, l)
  BY DEF InSession
<1>b. ended = EndLoadState(b, l)
  OBVIOUS
<1> HIDE DEF ended, started, kept
<1>1. /\ Others(b, l) /\ Answering(b, l)
      /\ b.handle[OfLoad(l)] = "destroyed" => b.current # l
      /\ b.handle[OfLoad(l)] \notin {"aborted", "destroyed"} => b.current = l \/ "empty" \in b.odd
  <2>1. PICK kind : kind = "session"
    OBVIOUS
  <2>a. (kind = "sets" \/ kind = "session") /\ <<kind, OfLoad(l)>> \in c.sent /\ b = Received(c, kind, OfLoad(l))
    BY <2>1
  <2>2. /\ Others(b, l) /\ Answering(b, l) /\ b.handle = c.handle /\ b.odd = c.odd
        /\ b.handle[OfLoad(l)] = "destroyed" => b.current # l
        /\ b.handle[OfLoad(l)] \notin {"aborted", "destroyed"} => b.current = l \/ (kind = "session" /\ "empty" \in b.odd)
    BY <2>a, AnsweredHolds
  <2> QED BY <2>1, <2>2
<1>2. CASE b.handle[OfLoad(l)] = "destroyed"
  BY <1>0, <1>1, <1>2, DestroyedAnswerKeeps
<1>3. CASE b.handle[OfLoad(l)] = "aborted"
  BY <1>0, <1>1, <1>3, LoadAbortedKeeps
<1>4. CASE b.handle[OfLoad(l)] \notin {"aborted", "destroyed"}
  <2>1. /\ ClientInv(ended) /\ Aside(b, ended, l) /\ ended.current = b.current
        /\ b.current = l => Unattached(ended, l) /\ ended.load[l].progress # "await_login" /\ ended.load[l].hash = b.load[l].hash
        /\ b.current # l => Freed(ended, l)
    BY <1>1, <1>b, EndLoadStateKeeps
  <2>2. CASE ~succeeded /\ b.current = l
    <3>1. d = LoadError(ended, l, "failed") /\ "failed" \in Results
      BY <1>0, <1>4, <2>2 DEF Results
    <3> QED BY <2>1, <2>2, <3>1, LoadErrorKeeps
  <2>3. CASE ~succeeded /\ b.current # l
    <3>1. d = LoadError(ended, l, "failed") /\ Freed(ended, l)
      BY <1>0, <1>4, <2>1, <2>3
    <3>2. d = Misuse(ended, OfLoad(l)) /\ OfLoad(l) \in Operations
      BY <3>1, Names DEF LoadError
    <3>3. ended.odd # {}
      BY <1>1, <1>4, <2>1, <2>3 DEF Aside, Beside
    <3> QED BY <2>1, <3>2, <3>3, MisuseKeeps
  <2>4. CASE succeeded /\ b.current # l
    <3>1. d = ended
      BY <1>0, <1>4, <2>4 DEF Overtaken
    <3> QED BY <2>1, <3>1
  <2>5. CASE succeeded /\ b.current = l
    <3>1. b.load[l].outstanding = 1
      BY <1>1 DEF Answering
    <3>a. ~Overtaken(b, l)
      BY <2>5 DEF Overtaken
    <3>b. LastAnswer(b, l)
      BY <3>a, <3>1 DEF LastAnswer
    <3>2. d = ActivateOrQueue(started, l, TRUE)
      BY <1>0, <1>4, <2>5, <3>a, <3>b
    <3>3. ended \in ClientType /\ InFront(ended) /\ ended.current = l /\ Unattached(ended, l) /\ Others(ended, l) /\ LoadInv(ended, l)
      BY <2>1, <2>5, Whole DEF ClientInv
    <3>4. ended.game # l
      BY <3>3, LoadAssumption DEF InFront
    <3>5. /\ Aside(ended, started, l) /\ started.load = ended.load /\ started.told = ended.told /\ started.sent = ended.sent
          /\ started.handle = ended.handle /\ started.current = ended.current /\ started.spectator = ended.spectator
          /\ started.odd = ended.odd /\ started.info[l].session
      <4>1. PICK e \in ClientType : e = ended
        BY <3>3
      <4>2. e.game # l /\ started = InSession(e, l)
        BY <1>a, <3>4, <4>1
      <4>3. /\ Aside(e, started, l) /\ started.load = e.load /\ started.told = e.told /\ started.sent = e.sent
            /\ started.handle = e.handle /\ started.current = e.current /\ started.spectator = e.spectator
            /\ started.odd = e.odd /\ started.info[l].session
        BY <4>2, InSessionEffect
      <4> QED BY <4>1, <4>3
    <3>6. Others(started, l) /\ started.queue = ended.queue /\ started.begun = ended.begun
      BY <3>3, <3>5, AsideKeeps DEF Aside, Beside
    <3>7. /\ AskedSets(started, l) <=> AskedSets(ended, l)
          /\ AskedSession(started, l) <=> AskedSession(ended, l)
          /\ Asked(started, l) <=> Asked(ended, l)
          /\ Queued(started, l) <=> Queued(ended, l)
      BY <3>5, <3>6 DEF AskedSets, AskedSession, Asked, Queued
    <3>8. Unattached(started, l)
      BY <3>3, <3>5, <3>7 DEF Unattached, Live
    <3>9. LoadInv(started, l)
      <4>1. Referenced(started, l) /\ IsCurrent(started, l)
        BY <3>3, <3>5, <3>6, <3>7 DEF LoadInv, Referenced, IsCurrent, Live, Freed, Aborted
      <4>2. Told(started, l) /\ Started(started, l)
        BY <3>3, <3>5, <3>8 DEF LoadInv, Told, Started, Live, Freed, Unattached
      <4> QED BY <4>1, <4>2 DEF LoadInv
    <3>10. ClientInv(started)
      BY <3>6, <3>9, Whole
    <3>11. started.load[l].progress # "await_login"
      BY <2>1, <2>5, <3>5
    <3> QED BY <3>2, <3>5, <3>8, <3>10, <3>11, ActivateOrQueueKeeps
  <2> QED BY <2>2, <2>3, <2>4, <2>5
<1> QED BY <1>2, <1>3, <1>4

-----------------------------------------------------------------------------
(* What the callers' other calls do.                                       *)

(* d is c but for what is in front, handles that were aborted or           *)
(* destroyed, and what the caller of the load in front was told of that.   *)
Left(c, d) ==
  /\ d \in ClientType
  /\ d.load = c.load /\ d.info = c.info /\ d.sent = c.sent /\ d.queue = c.queue /\ d.change = c.change /\ d.begun = c.begun
  /\ d.odd = c.odd /\ (d.misused = c.misused \/ c.odd # {})
  /\ (d.current = c.current /\ d.spectator = c.spectator) \/ d.current = None
  /\ \A o \in Operations : /\ Aborted(c, o) => Aborted(d, o)
                           /\ d.handle[o] = "unused" => c.handle[o] = "unused"
  /\ \A l \in Loads : c.current = l /\ Asked(c, l) /\ d.current = None => Aborted(d, OfLoad(l))
  /\ \A l \in Loads : \/ d.told[OfLoad(l)] = c.told[OfLoad(l)]
                      \/ c.current = l /\ Live(c, l) /\ d.current = None /\ d.told[OfLoad(l)] = <<"aborted">>
  /\ \A n \in Logins : d.told[OfLogin(n)] = c.told[OfLogin(n)]
  /\ \A m \in Changes : d.told[OfChange(m)] = c.told[OfChange(m)]

(* It keeps what holds of loads, logins and changes. *)
LEMMA LeftKeeps ==
  ASSUME NEW c, ClientInv(c), NEW d, Left(c, d), InFront(d)
  PROVE  ClientInv(d) /\ \A l \in Loads : Unattached(d, l) <=> Unattached(c, l)
<1>1. \A l \in Loads : /\ AskedSets(d, l) <=> AskedSets(c, l)
                       /\ AskedSession(d, l) <=> AskedSession(c, l)
                       /\ Asked(d, l) <=> Asked(c, l)
                       /\ Queued(d, l) <=> Queued(c, l)
                       /\ Live(d, l) <=> Live(c, l)
                       /\ Freed(d, l) <=> Freed(c, l)
  BY DEF Left, AskedSets, AskedSession, Asked, Queued, Live, Freed
<1>2. ASSUME NEW l \in Loads PROVE LoadInv(d, l)
  <2>1. LoadInv(c, l)
    BY DEF ClientInv
  <2>2. l # None /\ OfLoad(l) \in Operations
    BY Names, LoadAssumption
  <2>3. /\ d.load = c.load /\ d.info = c.info /\ d.begun = c.begun /\ d.odd = c.odd
        /\ (d.current = c.current /\ d.spectator = c.spectator) \/ d.current = None
        /\ Aborted(c, OfLoad(l)) => Aborted(d, OfLoad(l))
        /\ c.current = l /\ Asked(c, l) /\ d.current = None => Aborted(d, OfLoad(l))
        /\ \/ d.told[OfLoad(l)] = c.told[OfLoad(l)]
           \/ c.current = l /\ Live(c, l) /\ d.current = None /\ d.told[OfLoad(l)] = <<"aborted">>
    BY <2>2 DEF Left
  <2>4. Referenced(d, l)
    <3>1. Referenced(c, l)
      BY <2>1 DEF LoadInv
    <3> QED BY <1>1, <2>3, <3>1 DEF Referenced
  <2>5. IsCurrent(d, l)
    <3>1. IsCurrent(c, l)
      BY <2>1 DEF LoadInv
    <3>2. d.current = l => d.told[OfLoad(l)] = c.told[OfLoad(l)] /\ c.current = l
      BY <2>2, <2>3
    <3>3. AskedSets(d, l) /\ ~Aborted(d, OfLoad(l)) => d.current = l
      BY <1>1, <2>3, <3>1 DEF IsCurrent, Asked
    <3>4. AskedSession(d, l) /\ ~Aborted(d, OfLoad(l)) => d.current = l \/ "empty" \in d.odd
      BY <1>1, <2>3, <3>1 DEF IsCurrent, Asked
    <3> QED BY <1>1, <2>3, <3>1, <3>2, <3>3, <3>4 DEF IsCurrent
  <2>6. Told(d, l)
    <3>1. Told(c, l)
      BY <2>1 DEF LoadInv
    <3>2. CASE d.told[OfLoad(l)] = c.told[OfLoad(l)]
      BY <1>1, <2>3, <3>1, <3>2 DEF Told
    <3>3. CASE Live(c, l) /\ d.told[OfLoad(l)] = <<"aborted">>
      <4>1. Len(d.told[OfLoad(l)]) = 1 /\ "ok" \notin ToSet(d.told[OfLoad(l)])
        BY <3>3 DEF ToSet
      <4>2. d.load[l].memory = "live"
        BY <2>3, <3>3 DEF Live
      <4> QED BY <4>1, <4>2 DEF Told
    <3> QED BY <2>3, <3>2, <3>3
  <2>7. Started(d, l)
    BY <1>1, <2>1, <2>2, <2>3 DEF LoadInv, Started
  <2> QED BY <2>4, <2>5, <2>6, <2>7 DEF LoadInv
<1>3. ASSUME NEW n \in Logins PROVE LoginInv(d, n)
  BY Names DEF ClientInv, LoginInv, Left
<1>4. ASSUME NEW m \in Changes PROVE ChangeInv(d, m)
  BY DEF ClientInv, ChangeInv, Left
<1>5. Sound(d) /\ d \in ClientType
  BY DEF ClientInv, Sound, Left
<1>6. \A l \in Loads : Unattached(d, l) <=> Unattached(c, l)
  BY <1>1 DEF Unattached
<1> QED BY <1>2, <1>3, <1>4, <1>5, <1>6 DEF ClientInv

(* rc_client_unload_game: nothing is in front. *)
LEMMA UnloadGameEffect ==
  ASSUME NEW c \in ClientType, c.pings \subseteq {c.game}, c.current # None => c.game = None,
         NEW d, d = UnloadGame(c)
  PROVE  /\ d \in ClientType /\ d.game = None /\ d.current = None /\ d.pings = {}
         /\ d.load = c.load /\ d.info = c.info /\ d.sent = c.sent /\ d.queue = c.queue /\ d.change = c.change
         /\ d.begun = c.begun /\ d.odd = c.odd /\ d.told = c.told /\ d.alive = c.alive /\ d.user = c.user /\ d.id = c.id
         /\ c.current = None => d.misused = c.misused /\ d.handle = c.handle
         /\ c.current # None => /\ d.misused = c.misused \/ Freed(c, c.current)
                                /\ d.handle = [c.handle EXCEPT ![OfLoad(c.current)] = "aborted"]
<1> DEFINE l == c.current
           dangling == l # None /\ Freed(c, l)
           kept == l # None /\ c.load[l].game # "none" /\ c.game = l
<1>1. PICK h \in [Operations -> {"unused", "fine", "aborted", "destroyed"}] :
        h = IF l = None THEN c.handle ELSE [c.handle EXCEPT ![OfLoad(l)] = "aborted"]
  BY Fields
<1>2. PICK x \in SUBSET Operations : x = IF dangling THEN c.misused \cup {OfLoad(l)} ELSE c.misused
  <2>1. l # None => OfLoad(l) \in Operations
    BY Fields, Names
  <2>2. c.misused \in SUBSET Operations
    BY Fields
  <2>3. CASE dangling
    <3>1. c.misused \cup {OfLoad(l)} \in SUBSET Operations
      BY <2>1, <2>2, <2>3
    <3> QED BY <2>3, <3>1
  <2>4. CASE ~dangling
    BY <2>2, <2>4
  <2> QED BY <2>3, <2>4
<1>3. PICK s \in {"off", "on", "locked"} : s = IF c.spectator = "locked" THEN "on" ELSE c.spectator
  BY Fields
<1>4. PICK p \in SUBSET Loads : p = IF c.game = None \/ kept THEN c.pings ELSE {q \in c.pings : c.info[q].id # c.info[c.game].id}
  BY Fields
<1>5. p = {}
  <2>1. None \notin Loads /\ c.pings \subseteq Loads
    BY LoadAssumption, Fields
  <2>2. CASE c.game = None
    BY <1>4, <2>1, <2>2
  <2>3. CASE c.game # None
    <3>1. ~kept
      BY <2>3
    <3> HIDE DEF kept
    <3> QED BY <1>4, <2>3, <3>1
  <2> QED BY <2>2, <2>3
<1>6. PICK e \in ClientType : e = [c EXCEPT !.game = None, !.current = None, !.handle = h, !.misused = x, !.spectator = s,
                                           !.pings = p]
  <2>1. [c EXCEPT !.game = None, !.current = None, !.handle = h, !.misused = x, !.spectator = s, !.pings = p] \in ClientType
    BY DEF ClientType
  <2> QED BY <2>1
<1>7. d = e
  BY <1>1, <1>2, <1>3, <1>4, <1>6 DEF UnloadGame
<1>8. /\ e.game = None /\ e.current = None /\ e.handle = h /\ e.misused = x /\ e.spectator = s /\ e.pings = p
      /\ e.load = c.load /\ e.info = c.info /\ e.sent = c.sent /\ e.queue = c.queue /\ e.change = c.change
      /\ e.begun = c.begun /\ e.odd = c.odd /\ e.told = c.told /\ e.alive = c.alive /\ e.user = c.user /\ e.id = c.id
  BY <1>6 DEF ClientType
<1> QED BY <1>1, <1>2, <1>5, <1>7, <1>8

(* The load in front is there, or spectator mode was unlocked. *)
LEMMA FrontIsThere ==
  ASSUME NEW c, ClientInv(c), c.current # None
  PROVE  /\ c.current \in Loads /\ OfLoad(c.current) \in Operations
         /\ \/ Live(c, c.current) /\ c.told[OfLoad(c.current)] = <<>>
            \/ Freed(c, c.current) /\ c.odd # {}
<1>1. c \in ClientType
  BY DEF ClientInv
<1>2. c.current \in Loads
  BY <1>1, Fields
<1>3. LoadInv(c, c.current)
  BY <1>2 DEF ClientInv
<1> QED BY <1>2, <1>3, Names DEF LoadInv, IsCurrent

(* rc_client_unload_game. *)
LEMMA UnloadGameKeeps ==
  ASSUME NEW c, ClientInv(c), NEW d, d = UnloadGame(c)
  PROVE  /\ ClientInv(d) /\ d.current = None /\ d.game = None /\ d.pings = {} /\ d.begun = c.begun /\ d.load = c.load
         /\ d.told = c.told /\ d.alive = c.alive
         /\ \A l \in Loads : Unattached(d, l) <=> Unattached(c, l)
<1>1. c \in ClientType /\ InFront(c) /\ c.pings \subseteq {c.game} /\ (c.current # None => c.game = None)
  BY DEF ClientInv, InFront
<1>2. /\ d \in ClientType /\ d.game = None /\ d.current = None /\ d.pings = {}
      /\ d.load = c.load /\ d.info = c.info /\ d.sent = c.sent /\ d.queue = c.queue /\ d.change = c.change
      /\ d.begun = c.begun /\ d.odd = c.odd /\ d.told = c.told /\ d.alive = c.alive
      /\ c.current = None => d.misused = c.misused /\ d.handle = c.handle
      /\ c.current # None => /\ d.misused = c.misused \/ Freed(c, c.current)
                             /\ d.handle = [c.handle EXCEPT ![OfLoad(c.current)] = "aborted"]
  BY <1>1, UnloadGameEffect
<1>3. /\ \A o \in Operations : \/ d.handle[o] = c.handle[o]
                               \/ d.handle[o] = "aborted"
      /\ \A l \in Loads : c.current = l => d.handle[OfLoad(l)] = "aborted"
      /\ \A o \in Operations : c.current = None => d.handle[o] = c.handle[o]
  <2>1. CASE c.current = None
    BY <1>2, <2>1, LoadAssumption
  <2>2. CASE c.current # None
    <3>1. OfLoad(c.current) \in Operations /\ c.handle \in [Operations -> {"unused", "fine", "aborted", "destroyed"}]
      BY <1>1, <2>2, FrontIsThere, Fields
    <3>2. d.handle = [c.handle EXCEPT ![OfLoad(c.current)] = "aborted"]
      BY <1>2, <2>2
    <3> QED BY <2>2, <3>1, <3>2
  <2> QED BY <2>1, <2>2
<1>4. d.misused = c.misused \/ c.odd # {}
  <2>1. c.current # None /\ Freed(c, c.current) => c.odd # {}
    BY FrontIsThere DEF Live, Freed
  <2> QED BY <1>2, <2>1
<1>5. InFront(d)
  <2>1. ~c.alive => c.current = None /\ \A kind \in Kinds, o \in Operations : <<kind, o>> \in c.sent => c.handle[o] = "destroyed"
    BY <1>1 DEF InFront
  <2>2. c.alive => \A o \in Operations : d.handle[o] # "destroyed"
    BY <1>1, <1>3 DEF InFront
  <2>3. \A i, j \in 1..Len(d.queue) : d.queue[i] = d.queue[j] => i = j
    BY <1>1, <1>2 DEF InFront
  <2> QED BY <1>2, <1>3, <2>1, <2>2, <2>3 DEF InFront
<1>6. \A o \in Operations : /\ c.handle[o] = "destroyed" => d.handle[o] \in {"aborted", "destroyed"}
                            /\ c.handle[o] = "aborted" => d.handle[o] = "aborted"
                            /\ d.handle[o] = "unused" => c.handle[o] = "unused"
  BY <1>3
<1>7. Left(c, d)
  BY <1>2, <1>3, <1>4, <1>6 DEF Left, Aborted
<1> QED BY <1>2, <1>5, <1>7, LeftKeeps

(* A load that waits for a login is attached to nothing else. *)
LEMMA AwaitingIsUnattached ==
  ASSUME NEW c, ClientInv(c), AwaitsLogin(c, c.current)
  PROVE  c.current \in Loads /\ Unattached(c, c.current)
<1>1. c.current # None /\ c \in ClientType
  BY DEF AwaitsLogin, ClientInv
<1>2. c.current \in Loads
  BY <1>1, Fields
<1>3. LoadInv(c, c.current)
  BY <1>2 DEF ClientInv
<1> QED BY <1>2, <1>3 DEF LoadInv, Referenced, AwaitsLogin, Unattached

(* rc_client_logout. *)
LEMMA LogoutKeeps ==
  ASSUME NEW c, ClientInv(c), NEW d, d = Logout(c)
  PROVE  ClientInv(d)
<1>1. PICK e : e = [c EXCEPT !.user = "none"]
  OBVIOUS
<1>2. PICK out : out = UnloadGame(e)
  OBVIOUS
<1>3. d = IF AwaitsLogin(c, c.current) THEN LoadError(out, c.current, "aborted") ELSE out
  BY <1>1, <1>2 DEF Logout
<1>4. Same(c, e)
  <2>1. PICK u \in {"none", "requested", "logged_in"} : u = "none"
    OBVIOUS
  <2>2. c \in ClientType /\ e = [c EXCEPT !.user = u]
    BY <1>1, <2>1 DEF ClientInv
  <2> QED BY <2>2, UserSame
<1>5. ClientInv(e) /\ \A l \in Loads : Unattached(e, l) <=> Unattached(c, l)
  BY <1>4, SameKeeps
<1>6. ClientInv(out) /\ \A l \in Loads : Unattached(out, l) <=> Unattached(e, l)
  BY <1>2, <1>5, UnloadGameKeeps
<1>7. CASE AwaitsLogin(c, c.current)
  <2>1. c.current \in Loads /\ Unattached(c, c.current)
    BY <1>7, AwaitingIsUnattached
  <2>2. PICK l \in Loads : l = c.current
    BY <2>1
  <2>3. PICK r \in Results : r = "aborted"
    BY DEF Results
  <2>4. Unattached(out, l) /\ d = LoadError(out, l, r) /\ r # "ok"
    BY <1>3, <1>5, <1>6, <1>7, <2>1, <2>2, <2>3
  <2> QED BY <1>6, <2>4, LoadErrorKeeps
<1>8. CASE ~AwaitsLogin(c, c.current)
  BY <1>3, <1>6, <1>8
<1> QED BY <1>7, <1>8

(* rc_client_abort_load_in_progress. *)
LEMMA AbortLoadInProgressKeeps ==
  ASSUME NEW c, ClientInv(c), NEW d, d = AbortLoadInProgress(c)
  PROVE  /\ ClientInv(d) /\ d.begun = c.begun /\ d.load = c.load /\ d.alive = c.alive
<1>1. CASE c.current = None
  BY <1>1 DEF AbortLoadInProgress
<1>2. CASE c.current # None
  <2>1. c \in ClientType /\ InFront(c)
    BY DEF ClientInv
  <2>2. PICK l \in Loads : l = c.current
    BY <1>2, FrontIsThere
  <2>3. /\ OfLoad(l) \in Operations /\ l # None
        /\ \/ Live(c, l) /\ c.told[OfLoad(l)] = <<>>
           \/ Freed(c, l) /\ c.odd # {}
    BY <1>2, <2>2, FrontIsThere
  <2>4. c.alive
    BY <1>2, <2>1 DEF InFront
  <2>5. CASE Freed(c, l)
    <3>1. PICK e \in ClientType : e = [c EXCEPT !.current = None]
      <4>1. [c EXCEPT !.current = None] \in ClientType
        BY <2>1 DEF ClientType
      <4> QED BY <4>1
    <3>2. /\ e.current = None /\ e.load = c.load /\ e.info = c.info /\ e.sent = c.sent /\ e.queue = c.queue
          /\ e.change = c.change /\ e.begun = c.begun /\ e.odd = c.odd /\ e.told = c.told /\ e.alive = c.alive
          /\ e.misused = c.misused /\ e.handle = c.handle /\ e.game = c.game /\ e.pings = c.pings /\ e.spectator = c.spectator
      BY <2>1, <3>1 DEF ClientType
    <3>3. InFront(e)
      BY <2>1, <2>4, <3>2 DEF InFront
    <3>4. ~Asked(c, l)
      BY <2>5 DEF ClientInv, LoadInv, Referenced, Live, Freed
    <3>5. \A k \in Loads : c.current = k => k = l
      BY <2>2
    <3>6. Left(c, e)
      BY <3>1, <3>2, <3>4, <3>5 DEF Left, Aborted
    <3>7. ClientInv(e) /\ e.odd # {}
      BY <2>3, <2>5, <3>2, <3>3, <3>6, LeftKeeps DEF Live, Freed
    <3>8. d = Misuse(e, OfLoad(l))
      BY <1>2, <2>2, <2>5, <3>1 DEF AbortLoadInProgress
    <3>9. d.alive = e.alive
      BY <3>1, <3>8 DEF Misuse, ClientType
    <3> QED BY <2>3, <3>2, <3>7, <3>8, <3>9, MisuseKeeps
  <2>6. CASE ~Freed(c, l)
    <3>1. PICK h \in [Operations -> {"unused", "fine", "aborted", "destroyed"}] : h = [c.handle EXCEPT ![OfLoad(l)] = "aborted"]
      BY <2>1, Fields
    <3>2. PICK e \in ClientType : e = [c EXCEPT !.handle = h, !.current = None]
      <4>1. [c EXCEPT !.handle = h, !.current = None] \in ClientType
        BY <2>1 DEF ClientType
      <4> QED BY <4>1
    <3>3. /\ e.current = None /\ e.load = c.load /\ e.info = c.info /\ e.sent = c.sent /\ e.queue = c.queue
          /\ e.change = c.change /\ e.begun = c.begun /\ e.odd = c.odd /\ e.told = c.told /\ e.alive = c.alive
          /\ e.misused = c.misused /\ e.handle = h /\ e.game = c.game /\ e.pings = c.pings /\ e.spectator = c.spectator
      BY <2>1, <3>2 DEF ClientType
    <3>4. PICK r \in Results : r = "aborted"
      BY DEF Results
    <3>5. d = TellLoad(e, l, r)
      BY <1>2, <2>2, <2>6, <3>1, <3>2, <3>4 DEF AbortLoadInProgress
    <3>6. /\ Aside(e, d, l)
          /\ d.told[OfLoad(l)] = IF e.load[l].callback THEN Append(e.told[OfLoad(l)], r) ELSE e.told[OfLoad(l)]
          /\ d.current = e.current /\ d.load = e.load /\ d.info = e.info /\ d.sent = e.sent /\ d.handle = e.handle
          /\ d.spectator = e.spectator /\ d.odd = e.odd
      BY <3>5, TellLoadEffect
    <3>7. /\ d \in ClientType /\ d.queue = c.queue /\ d.change = c.change /\ d.begun = c.begun /\ d.misused = c.misused
          /\ d.alive = c.alive /\ d.game = c.game /\ d.pings = c.pings
          /\ \A o \in Operations : o # OfLoad(l) => d.told[o] = c.told[o]
      BY <3>3, <3>6 DEF Aside, Beside
    <3>8. Live(c, l) /\ c.told[OfLoad(l)] = <<>>
      BY <2>3, <2>6
    <3>9. d.told[OfLoad(l)] = c.told[OfLoad(l)] \/ d.told[OfLoad(l)] = <<"aborted">>
      BY <3>3, <3>4, <3>6, <3>8
    <3>10. /\ \A k \in Loads : k # l => d.told[OfLoad(k)] = c.told[OfLoad(k)]
           /\ \A n \in Logins : d.told[OfLogin(n)] = c.told[OfLogin(n)]
           /\ \A m \in Changes : d.told[OfChange(m)] = c.told[OfChange(m)]
      BY <3>7, Names
    <3>11. /\ \A o \in Operations : o # OfLoad(l) => d.handle[o] = c.handle[o]
           /\ d.handle[OfLoad(l)] = "aborted"
      BY <2>1, <2>3, <3>1, <3>3, <3>6, Fields
    <3>12. InFront(d)
      BY <2>1, <2>4, <3>3, <3>6, <3>7, <3>11 DEF InFront
    <3>13. \A k \in Loads : c.current = k => k = l
      BY <2>2
    <3>14. \A k \in Loads : \/ d.told[OfLoad(k)] = c.told[OfLoad(k)]
                            \/ c.current = k /\ Live(c, k) /\ d.current = None /\ d.told[OfLoad(k)] = <<"aborted">>
      BY <2>2, <3>3, <3>6, <3>8, <3>9, <3>10
    <3>15. /\ \A o \in Operations : /\ Aborted(c, o) => Aborted(d, o)
                                    /\ d.handle[o] = "unused" => c.handle[o] = "unused"
           /\ \A k \in Loads : c.current = k => Aborted(d, OfLoad(k))
      BY <3>11, <3>13 DEF Aborted
    <3>16. Left(c, d)
      BY <3>3, <3>6, <3>7, <3>10, <3>14, <3>15 DEF Left
    <3> QED BY <3>3, <3>6, <3>7, <3>12, <3>16, LeftKeeps
  <2> QED BY <2>5, <2>6
<1> QED BY <1>1, <1>2

-----------------------------------------------------------------------------
(* A load begins.                                                          *)

(* The load l is made, waits for nothing yet, and is in front. *)
Made(c, l, h) ==
  [c EXCEPT !.begun = l, !.current = l, !.handle[OfLoad(l)] = "fine",
            !.load[l] = [BlankLoad EXCEPT !.memory = "live", !.hash = h, !.game = "blank"]]

(* Nothing else changes. *)
LEMMA MadeEffect ==
  ASSUME NEW c \in ClientType, NEW l \in Loads, NEW h \in Hashes, NEW d, d = Made(c, l, h)
  PROVE  /\ d \in ClientType /\ d.begun = l /\ d.current = l
         /\ d.handle[OfLoad(l)] = "fine" /\ \A o \in Operations : o # OfLoad(l) => d.handle[o] = c.handle[o]
         /\ \A k \in Loads : k # l => d.load[k] = c.load[k]
         /\ d.load[l].memory = "live" /\ d.load[l].progress = "none" /\ d.load[l].outstanding = 0 /\ d.load[l].media = None
         /\ d.alive = c.alive /\ d.game = c.game /\ d.pings = c.pings /\ d.queue = c.queue
         /\ d.change = c.change /\ d.misused = c.misused /\ d.odd = c.odd /\ d.spectator = c.spectator
         /\ d.info = c.info /\ d.told = c.told /\ d.sent = c.sent
<1>1. PICK b \in LoadType : b = BlankLoad
  BY BlankFacts
<1>2. PICK v \in LoadType : v = [b EXCEPT !.memory = "live", !.hash = h, !.game = "blank"]
  <2>1. [b EXCEPT !.memory = "live", !.hash = h, !.game = "blank"] \in LoadType
    BY DEF LoadType
  <2> QED BY <2>1
<1>3. v.memory = "live" /\ v.progress = b.progress /\ v.outstanding = b.outstanding /\ v.media = b.media
  BY <1>2 DEF LoadType
<1>4. PICK w \in [Loads -> LoadType] : w = [c.load EXCEPT ![l] = v]
  BY Fields
<1>5. PICK g \in [Operations -> {"unused", "fine", "aborted", "destroyed"}] : g = [c.handle EXCEPT ![OfLoad(l)] = "fine"]
  BY Fields
<1>6. PICK e \in ClientType : e = [c EXCEPT !.begun = l, !.current = l, !.handle = g, !.load = w]
  <2>1. l \in 0..MaxLoads
    BY LoadAssumption DEF Loads
  <2>2. [c EXCEPT !.begun = l, !.current = l, !.handle = g, !.load = w] \in ClientType
    BY <2>1 DEF ClientType
  <2> QED BY <2>2
<1>7. d = e
  BY <1>1, <1>2, <1>4, <1>5, <1>6 DEF Made
<1>8. /\ e.begun = l /\ e.current = l /\ e.handle = g /\ e.load = w
      /\ e.alive = c.alive /\ e.game = c.game /\ e.pings = c.pings /\ e.queue = c.queue
      /\ e.change = c.change /\ e.misused = c.misused /\ e.odd = c.odd /\ e.spectator = c.spectator
      /\ e.info = c.info /\ e.told = c.told /\ e.sent = c.sent
  BY <1>6 DEF ClientType
<1>9. /\ g[OfLoad(l)] = "fine" /\ \A o \in Operations : o # OfLoad(l) => g[o] = c.handle[o]
      /\ w[l] = v /\ \A k \in Loads : k # l => w[k] = c.load[k]
  BY <1>4, <1>5, Fields, Names
<1> QED BY <1>1, <1>3, <1>7, <1>8, <1>9, BlankFacts

(* The client was not destroyed. *)
Serving(c) == c.alive

(* The load to be made next. *)
Following(c, l) == l = c.begun + 1

(* A load that was made is attached to nothing. *)
LEMMA MadeKeeps ==
  ASSUME NEW c, ClientInv(c), c.current = None, c.game = None, c.pings = {}, Serving(c), NEW l \in Loads, Following(c, l),
         NEW h \in Hashes, NEW d, d = Made(c, l, h)
  PROVE  ClientInv(d) /\ Unattached(d, l) /\ d.current = l
<1>0. c \in ClientType /\ InFront(c) /\ c.begun \in Nat /\ l \in Nat
  <2>1. c \in ClientType /\ InFront(c)
    BY DEF ClientInv
  <2>2. c.begun \in 0..MaxLoads
    BY <2>1, Fields
  <2> QED BY <2>1, <2>2, LoadAssumption DEF Loads
<1>a. l = c.begun + 1
  BY DEF Following
<1>1. /\ d \in ClientType /\ d.begun = l /\ d.current = l
      /\ d.handle[OfLoad(l)] = "fine" /\ \A o \in Operations : o # OfLoad(l) => d.handle[o] = c.handle[o]
      /\ \A k \in Loads : k # l => d.load[k] = c.load[k]
      /\ d.load[l].memory = "live" /\ d.load[l].progress = "none" /\ d.load[l].outstanding = 0 /\ d.load[l].media = None
      /\ d.alive = c.alive /\ d.game = c.game /\ d.pings = c.pings /\ d.queue = c.queue
      /\ d.change = c.change /\ d.misused = c.misused /\ d.odd = c.odd /\ d.spectator = c.spectator
      /\ d.info = c.info /\ d.told = c.told /\ d.sent = c.sent
  <2>1. c \in ClientType
    BY <1>0
  <2> QED BY <2>1, MadeEffect
<1>2. \A k \in Loads : /\ AskedSets(d, k) <=> AskedSets(c, k)
                       /\ AskedSession(d, k) <=> AskedSession(c, k)
                       /\ Asked(d, k) <=> Asked(c, k)
                       /\ Queued(d, k) <=> Queued(c, k)
  BY <1>1 DEF AskedSets, AskedSession, Asked, Queued
<1>3. ~Asked(c, l) /\ ~Queued(c, l) /\ c.told[OfLoad(l)] = <<>>
  <2>1. LoadInv(c, l)
    BY DEF ClientInv
  <2>2. c.begun < l
    BY <1>0, <1>a
  <2>3. c.load[l].memory = "unused"
    BY <2>1, <2>2 DEF LoadInv, Referenced
  <2> QED BY <2>1, <2>3 DEF LoadInv, Referenced, Told, Live
<1>4. LoadInv(d, l)
  <2>1. ~Asked(d, l) /\ ~AskedSets(d, l) /\ ~AskedSession(d, l) /\ ~Queued(d, l)
    BY <1>2, <1>3 DEF Asked
  <2>2. Referenced(d, l)
    BY <1>0, <1>1, <2>1 DEF Referenced, Live
  <2>3. IsCurrent(d, l)
    BY <1>1, <1>3, <2>1 DEF IsCurrent, Live
  <2>4. Told(d, l)
    BY <1>1, <1>3 DEF Told, Live, ToSet
  <2> QED BY <2>1, <2>2, <2>3, <2>4 DEF LoadInv, Started
<1>5. ASSUME NEW k \in Loads, k # l PROVE LoadInv(d, k)
  <2>1. LoadInv(c, k) /\ k # None /\ k \in Nat
    BY LoadAssumption DEF ClientInv, Loads
  <2>2. /\ d.load[k] = c.load[k] /\ d.info[k] = c.info[k] /\ d.told[OfLoad(k)] = c.told[OfLoad(k)]
        /\ d.handle[OfLoad(k)] = c.handle[OfLoad(k)] /\ d.current # k /\ c.current # k
        /\ d.begun < k <=> c.begun < k
    <3>1. OfLoad(k) # OfLoad(l) /\ OfLoad(k) \in Operations
      BY <1>5, Names
    <3>2. k # l
      BY <1>5
    <3>3. l < k <=> c.begun < k
      BY <1>0, <1>a, <2>1, <3>2
    <3> QED BY <1>1, <1>5, <2>1, <3>1, <3>3
  <2>3. Referenced(d, k)
    BY <1>2, <2>1, <2>2 DEF LoadInv, Referenced, Live
  <2>4. IsCurrent(d, k)
    BY <1>1, <1>2, <2>1, <2>2 DEF LoadInv, IsCurrent, Aborted
  <2>5. Told(d, k)
    BY <2>1, <2>2 DEF LoadInv, Told, Live, Freed
  <2>6. Started(d, k)
    BY <1>2, <2>1, <2>2 DEF LoadInv, Started
  <2> QED BY <2>3, <2>4, <2>5, <2>6 DEF LoadInv
<1>6. ASSUME NEW n \in Logins PROVE LoginInv(d, n)
  <2>1. OfLogin(n) \in Operations /\ OfLogin(n) # OfLoad(l) /\ LoginInv(c, n)
    BY Names DEF ClientInv
  <2> QED BY <1>1, <2>1 DEF LoginInv
<1>7. ASSUME NEW m \in Changes PROVE ChangeInv(d, m)
  <2>1. ChangeInv(c, m) /\ m # None
    BY LoadAssumption DEF ClientInv
  <2>2. \A k \in Loads : d.load[k].media = m => c.load[k].media = m
    BY <1>1, <2>1
  <2> QED BY <1>1, <2>1, <2>2 DEF ChangeInv
<1>8. InFront(d)
  <2>1. d.current = d.begun /\ d.game = None /\ d.alive /\ d.pings = {} /\ d.queue = c.queue
    BY <1>1 DEF Serving
  <2>2. \A o \in Operations : d.handle[o] # "destroyed"
    BY <1>0, <1>1 DEF InFront, Serving
  <2>3. \A i, j \in 1..Len(d.queue) : d.queue[i] = d.queue[j] => i = j
    BY <1>0, <2>1 DEF InFront
  <2> QED BY <2>1, <2>2, <2>3 DEF InFront
<1>9. Sound(d)
  BY <1>1 DEF ClientInv, Sound
<1>10. Unattached(d, l)
  BY <1>1, <1>2, <1>3 DEF Unattached, Live
<1> QED BY <1>1, <1>4, <1>5, <1>6, <1>7, <1>8, <1>9, <1>10 DEF ClientInv

(* rc_client_begin_load_game. *)
LEMMA BeginLoadGameKeeps ==
  ASSUME NEW c, ClientInv(c), c.alive, c.begun < MaxLoads, NEW h \in Hashes, NEW d, d = BeginLoadGame(c, h)
  PROVE  ClientInv(d)
<1>1. PICK a : a = AbortLoadInProgress(c)
  OBVIOUS
<1>2. PICK empty : empty = UnloadGame(a)
  OBVIOUS
<1>3. PICK l \in Loads : l = c.begun + 1
  <2>1. c.begun \in 0..MaxLoads
    BY Fields DEF ClientInv
  <2> QED BY <2>1, LoadAssumption DEF Loads
<1>4. PICK new : new = Made(empty, l, h)
  OBVIOUS
<1>5. d = IF c.id[h] = None THEN UnknownGame(new, l) ELSE BeginFetchGameSets(new, l)
  BY <1>1, <1>2, <1>3, <1>4 DEF BeginLoadGame, Made
<1>6. ClientInv(a) /\ a.begun = c.begun /\ a.alive = c.alive
  BY <1>1, AbortLoadInProgressKeeps
<1>7. ClientInv(empty) /\ empty.current = None /\ empty.game = None /\ empty.pings = {} /\ empty.begun = a.begun
      /\ empty.alive = a.alive
  BY <1>2, <1>6, UnloadGameKeeps
<1>8. ClientInv(new) /\ Unattached(new, l) /\ new.current = l
  <2>1. Following(empty, l) /\ Serving(empty)
    BY <1>3, <1>6, <1>7 DEF Following, Serving
  <2> QED BY <1>4, <1>7, <2>1, MadeKeeps
<1>9. CASE c.id[h] = None
  BY <1>5, <1>8, <1>9, UnknownGameKeeps
<1>10. CASE c.id[h] # None
  BY <1>5, <1>8, <1>10, BeginFetchGameSetsKeeps
<1> QED BY <1>9, <1>10

-----------------------------------------------------------------------------
(* Logging in.                                                             *)

(* d is c but for the user and what the login n concerns. *)
LoginStep(c, d, n) ==
  /\ d \in ClientType
  /\ d.alive = c.alive /\ d.begun = c.begun /\ d.game = c.game /\ d.pings = c.pings /\ d.queue = c.queue
  /\ d.change = c.change /\ d.misused = c.misused /\ d.odd = c.odd /\ d.spectator = c.spectator
  /\ d.current = c.current /\ d.load = c.load /\ d.info = c.info
  /\ \A o \in Operations : o # OfLogin(n) =>
       /\ d.handle[o] = c.handle[o] /\ d.told[o] = c.told[o]
       /\ \A kind \in Kinds : <<kind, o>> \in d.sent <=> <<kind, o>> \in c.sent
  /\ d.handle[OfLogin(n)] \in {c.handle[OfLogin(n)], "fine"}
  /\ ~c.alive => d.handle[OfLogin(n)] = c.handle[OfLogin(n)] /\ d.sent \subseteq c.sent

(* It keeps everything if it keeps what holds of that login. *)
LEMMA LoginKeeps ==
  ASSUME NEW c, ClientInv(c), NEW n \in Logins, NEW d, LoginStep(c, d, n), LoginInv(d, n)
  PROVE  ClientInv(d) /\ \A l \in Loads : Unattached(d, l) <=> Unattached(c, l)
<1>1. InFront(d)
  <2>1. InFront(c)
    BY DEF ClientInv
  <2>2. /\ d.alive = c.alive /\ d.begun = c.begun /\ d.game = c.game /\ d.pings = c.pings /\ d.queue = c.queue
        /\ d.odd = c.odd /\ d.spectator = c.spectator /\ d.current = c.current /\ d.info = c.info
    BY DEF LoginStep
  <2>3. ~c.alive => \A kind \in Kinds, o \in Operations : <<kind, o>> \in d.sent => d.handle[o] = "destroyed"
    <3>1. ~c.alive => d.sent \subseteq c.sent /\ \A o \in Operations : d.handle[o] = c.handle[o]
      BY DEF LoginStep
    <3> QED BY <2>1, <3>1 DEF InFront
  <2>4. c.alive => \A o \in Operations : d.handle[o] # "destroyed"
    BY <2>1 DEF InFront, LoginStep
  <2> QED BY <2>1, <2>2, <2>3, <2>4 DEF InFront
<1>2. \A l \in Loads : /\ AskedSets(d, l) <=> AskedSets(c, l)
                       /\ AskedSession(d, l) <=> AskedSession(c, l)
                       /\ Asked(d, l) <=> Asked(c, l)
                       /\ Queued(d, l) <=> Queued(c, l)
                       /\ Live(d, l) <=> Live(c, l)
                       /\ Freed(d, l) <=> Freed(c, l)
  <2>1. "sets" \in Kinds /\ "session" \in Kinds
    BY DEF Kinds
  <2> QED BY <2>1, Names DEF LoginStep, AskedSets, AskedSession, Asked, Queued, Live, Freed
<1>3. ASSUME NEW l \in Loads PROVE LoadInv(d, l)
  <2>1. LoadInv(c, l)
    BY DEF ClientInv
  <2>2. /\ d.load = c.load /\ d.info = c.info /\ d.begun = c.begun /\ d.odd = c.odd /\ d.current = c.current
        /\ d.spectator = c.spectator /\ d.told[OfLoad(l)] = c.told[OfLoad(l)] /\ d.handle[OfLoad(l)] = c.handle[OfLoad(l)]
    BY Names DEF LoginStep
  <2>3. Referenced(d, l)
    BY <1>2, <2>1, <2>2 DEF LoadInv, Referenced
  <2>4. IsCurrent(d, l)
    BY <1>2, <2>1, <2>2 DEF LoadInv, IsCurrent, Aborted
  <2>5. Told(d, l)
    BY <1>2, <2>1, <2>2 DEF LoadInv, Told
  <2>6. Started(d, l)
    BY <1>2, <2>1, <2>2 DEF LoadInv, Started
  <2> QED BY <2>3, <2>4, <2>5, <2>6 DEF LoadInv
<1>4. ASSUME NEW k \in Logins PROVE LoginInv(d, k)
  <2>1. CASE k = n
    BY <2>1
  <2>2. CASE k # n
    <3>1. OfLogin(k) \in Operations /\ OfLogin(k) # OfLogin(n) /\ "login" \in Kinds /\ LoginInv(c, k)
      BY <2>2, Names DEF Kinds, ClientInv
    <3> QED BY <3>1 DEF LoginInv, LoginStep
  <2> QED BY <2>1, <2>2
<1>5. ASSUME NEW m \in Changes PROVE ChangeInv(d, m)
  <2>1. OfChange(m) \in Operations /\ OfChange(m) # OfLogin(n) /\ "media" \in Kinds /\ ChangeInv(c, m)
    BY Names DEF Kinds, ClientInv
  <2> QED BY <2>1 DEF ChangeInv, LoginStep
<1>6. Sound(d) /\ d \in ClientType
  BY DEF ClientInv, Sound, LoginStep
<1>7. \A l \in Loads : Unattached(d, l) <=> Unattached(c, l)
  BY <1>2 DEF Unattached
<1> QED BY <1>1, <1>3, <1>4, <1>5, <1>6, <1>7 DEF ClientInv

(* Nothing was told yet. *)
Untold(c, o) == c.told[o] = <<>>

(* A login whose answer has come, or that asks nothing, is told of. *)
LEMMA TellLoginKeeps ==
  ASSUME NEW c, ClientInv(c), NEW n \in Logins, <<"login", OfLogin(n)>> \notin c.sent, Untold(c, OfLogin(n)),
         NEW r \in Results, NEW d, d = Tell(c, OfLogin(n), r)
  PROVE  /\ ClientInv(d) /\ d.load = c.load /\ d.current = c.current /\ d.user = c.user /\ d.odd = c.odd
         /\ \A l \in Loads : Unattached(d, l) <=> Unattached(c, l)
<1>1. OfLogin(n) \in Operations /\ c \in ClientType
  BY Names DEF ClientInv
<1>a. c.told[OfLogin(n)] = <<>>
  BY DEF Untold
<1>2. /\ d \in ClientType /\ d.told = [c.told EXCEPT ![OfLogin(n)] = Append(@, r)]
      /\ d.alive = c.alive /\ d.begun = c.begun /\ d.game = c.game /\ d.pings = c.pings /\ d.queue = c.queue
      /\ d.change = c.change /\ d.misused = c.misused /\ d.odd = c.odd /\ d.spectator = c.spectator
      /\ d.current = c.current /\ d.load = c.load /\ d.info = c.info /\ d.sent = c.sent /\ d.handle = c.handle
      /\ d.user = c.user
  BY <1>1, TellEffect
<1>3. /\ d.told[OfLogin(n)] = Append(<<>>, r)
      /\ \A o \in Operations : o # OfLogin(n) => d.told[o] = c.told[o]
  BY <1>1, <1>a, <1>2, Fields
<1>4. LoginInv(d, n)
  <2>1. Len(d.told[OfLogin(n)]) <= 1
    BY <1>3
  <2>2. <<"login", OfLogin(n)>> \notin d.sent
    BY <1>2
  <2> QED BY <2>1, <2>2 DEF LoginInv
<1>5. LoginStep(c, d, n)
  <2>1. d.sent \subseteq c.sent /\ d.handle[OfLogin(n)] = c.handle[OfLogin(n)]
    BY <1>2
  <2>2. \A o \in Operations : o # OfLogin(n) =>
          /\ d.handle[o] = c.handle[o] /\ d.told[o] = c.told[o]
          /\ \A kind \in Kinds : <<kind, o>> \in d.sent <=> <<kind, o>> \in c.sent
    BY <1>2, <1>3
  <2>3. /\ d \in ClientType
        /\ d.alive = c.alive /\ d.begun = c.begun /\ d.game = c.game /\ d.pings = c.pings /\ d.queue = c.queue
        /\ d.change = c.change /\ d.misused = c.misused /\ d.odd = c.odd /\ d.spectator = c.spectator
        /\ d.current = c.current /\ d.load = c.load /\ d.info = c.info
    BY <1>2
  <2> QED BY <2>1, <2>2, <2>3 DEF LoginStep
<1> QED BY <1>2, <1>4, <1>5, LoginKeeps

(* rc_client_begin_login. *)
LEMMA BeginLoginKeeps ==
  ASSUME NEW c, ClientInv(c), c.alive, NEW n \in Logins, c.handle[OfLogin(n)] = "unused", c.told[OfLogin(n)] = <<>>,
         NEW d, d = BeginLogin(c, n)
  PROVE  ClientInv(d)
<1>1. <<"login", OfLogin(n)>> \notin c.sent
  BY DEF ClientInv, LoginInv
<1>2. CASE c.user = "requested"
  <2>1. PICK r \in Results : r = "invalid"
    BY DEF Results
  <2>2. d = Tell(c, OfLogin(n), r)
    BY <1>2, <2>1 DEF BeginLogin
  <2> QED BY <1>1, <2>2, TellLoginKeeps DEF Untold
<1>3. CASE c.user # "requested"
  <2>1. c \in ClientType /\ OfLogin(n) \in Operations /\ "login" \in Kinds
    BY Names DEF ClientInv, Kinds
  <2>2. PICK h \in [Operations -> {"unused", "fine", "aborted", "destroyed"}] : h = [c.handle EXCEPT ![OfLogin(n)] = "fine"]
    BY <2>1, Fields
  <2>3. PICK s \in SUBSET Requests : s = c.sent \cup {<<"login", OfLogin(n)>>}
    <3>1. <<"login", OfLogin(n)>> \in Requests
      BY <2>1 DEF Requests, Kinds
    <3>2. c.sent \in SUBSET Requests
      BY <2>1, Fields
    <3> QED BY <3>1, <3>2
  <2>4. PICK u \in {"none", "requested", "logged_in"} : u = "requested"
    OBVIOUS
  <2>5. PICK e \in ClientType : e = [c EXCEPT !.user = u, !.handle = h, !.sent = s]
    <3>1. [c EXCEPT !.user = u, !.handle = h, !.sent = s] \in ClientType
      BY <2>1 DEF ClientType
    <3> QED BY <3>1
  <2>6. d = e
    BY <1>3, <2>1, <2>2, <2>3, <2>4, <2>5 DEF BeginLogin, Send
  <2>7. /\ e.alive = c.alive /\ e.begun = c.begun /\ e.game = c.game /\ e.pings = c.pings /\ e.queue = c.queue
        /\ e.change = c.change /\ e.misused = c.misused /\ e.odd = c.odd /\ e.spectator = c.spectator
        /\ e.current = c.current /\ e.load = c.load /\ e.info = c.info /\ e.told = c.told /\ e.sent = s /\ e.handle = h
    BY <2>1, <2>5, ZenonT(60) DEF ClientType
  <2>8. /\ h[OfLogin(n)] = "fine" /\ \A o \in Operations : o # OfLogin(n) => h[o] = c.handle[o]
    BY <2>1, <2>2, Fields
  <2>9. \A o \in Operations : o # OfLogin(n) => \A kind \in Kinds : <<kind, o>> \in s <=> <<kind, o>> \in c.sent
    BY <2>3
  <2>10. LoginStep(c, e, n)
    BY <2>7, <2>8, <2>9 DEF LoginStep
  <2>11. LoginInv(e, n)
    BY <2>7, <2>8 DEF LoginInv
  <2> QED BY <2>6, <2>10, <2>11, LoginKeeps
<1> QED BY <1>2, <1>3

(* A login's answer, or a media change's, is taken out of what is in flight. *)
LEMMA LoginReceived ==
  ASSUME NEW c, ClientInv(c), NEW n \in Logins, <<"login", OfLogin(n)>> \in c.sent,
         NEW d, d = Received(c, "login", OfLogin(n))
  PROVE  /\ ClientInv(d) /\ <<"login", OfLogin(n)>> \notin d.sent /\ Untold(d, OfLogin(n))
         /\ d.handle[OfLogin(n)] # "destroyed" => d.alive
<1>1. c \in ClientType /\ OfLogin(n) \in Operations /\ "login" \in Kinds /\ InFront(c) /\ LoginInv(c, n)
  BY Names DEF ClientInv, Kinds
<1>2. PICK kind : kind = "login"
  OBVIOUS
<1>3. d = Received(c, kind, OfLogin(n))
  BY <1>2
<1>4. /\ d \in ClientType /\ d.sent = c.sent \ {<<kind, OfLogin(n)>>}
      /\ d.alive = c.alive /\ d.begun = c.begun /\ d.game = c.game /\ d.pings = c.pings /\ d.queue = c.queue
      /\ d.change = c.change /\ d.misused = c.misused /\ d.odd = c.odd /\ d.spectator = c.spectator
      /\ d.current = c.current /\ d.load = c.load /\ d.info = c.info /\ d.told = c.told /\ d.handle = c.handle
  BY <1>1, <1>3, ReceivedEffect
<1>5. /\ d.sent \subseteq c.sent /\ <<"login", OfLogin(n)>> \notin d.sent
      /\ \A o \in Operations : o # OfLogin(n) => \A k \in Kinds : <<k, o>> \in d.sent <=> <<k, o>> \in c.sent
  BY <1>2, <1>4
<1>6. LoginStep(c, d, n)
  BY <1>4, <1>5 DEF LoginStep
<1>7. LoginInv(d, n)
  BY <1>1, <1>4, <1>5 DEF LoginInv
<1>8. Untold(d, OfLogin(n))
  BY <1>1, <1>4 DEF LoginInv, Untold
<1>9. d.handle[OfLogin(n)] # "destroyed" => d.alive
  BY <1>1, <1>4 DEF InFront
<1> QED BY <1>5, <1>6, <1>7, <1>8, <1>9, LoginKeeps

(* The load that waits for the login goes on. *)
Resumed(c, d) ==
  IF c.current # None /\ Freed(c, c.current) THEN Misuse(d, OfLoad(c.current))
  ELSE IF AwaitsLogin(c, c.current) THEN BeginFetchGameSets(d, c.current)
  ELSE d

(* It tells no login. *)
LEMMA ResumedKeeps ==
  ASSUME NEW c, ClientInv(c), NEW e, ClientInv(e), e.load = c.load, e.current = c.current, e.odd = c.odd,
         \A l \in Loads : Unattached(e, l) <=> Unattached(c, l),
         NEW n \in Logins, NEW d, d = Resumed(c, e)
  PROVE  /\ ClientInv(d) /\ d.told[OfLogin(n)] = e.told[OfLogin(n)]
         /\ <<"login", OfLogin(n)>> \in d.sent => <<"login", OfLogin(n)>> \in e.sent
<1>1. CASE c.current # None /\ Freed(c, c.current)
  <2>1. OfLoad(c.current) \in Operations /\ e.odd # {}
    BY <1>1, FrontIsThere DEF Live, Freed
  <2>2. PICK o \in Operations : o = OfLoad(c.current)
    BY <2>1
  <2>3. d = Misuse(e, o)
    BY <1>1, <2>2 DEF Resumed
  <2> QED BY <2>1, <2>3, MisuseKeeps
<1>2. CASE ~(c.current # None /\ Freed(c, c.current)) /\ AwaitsLogin(c, c.current)
  <2>1. c.current \in Loads /\ Unattached(c, c.current)
    BY <1>2, AwaitingIsUnattached
  <2>2. PICK l \in Loads : l = c.current
    BY <2>1
  <2>3. Unattached(e, l) /\ e.current = l
    BY <2>1, <2>2
  <2>4. d = BeginFetchGameSets(e, l)
    BY <1>2, <2>2 DEF Resumed
  <2>5. ClientInv(d) /\ Aside(e, d, l)
    BY <2>3, <2>4, BeginFetchGameSetsKeeps
  <2>6. OfLogin(n) \in Operations /\ OfLogin(n) # OfLoad(l) /\ "login" \in Kinds
    BY Names DEF Kinds
  <2> QED BY <2>5, <2>6 DEF Aside, Beside
<1>3. CASE ~(c.current # None /\ Freed(c, c.current)) /\ ~AwaitsLogin(c, c.current)
  BY <1>3 DEF Resumed
<1> QED BY <1>1, <1>2, <1>3

(* rc_client_login_callback. *)
LEMMA LoginAnswerKeeps ==
  ASSUME NEW c, ClientInv(c), NEW n \in Logins, <<"login", OfLogin(n)>> \in c.sent, NEW succeeded \in BOOLEAN,
         NEW b, b = Received(c, "login", OfLogin(n)), NEW d, d = LoginAnswer(b, n, succeeded)
  PROVE  ClientInv(d)
<1>1. ClientInv(b) /\ <<"login", OfLogin(n)>> \notin b.sent /\ Untold(b, OfLogin(n)) /\ b \in ClientType
  BY LoginReceived DEF ClientInv
<1>2. PICK u \in {"none", "requested", "logged_in"} : u = IF succeeded THEN "logged_in" ELSE "none"
  OBVIOUS
<1>3. PICK logged : logged = [b EXCEPT !.user = u]
  OBVIOUS
<1>4. PICK ok, failed, aborted \in Results : ok = "ok" /\ failed = "failed" /\ aborted = "aborted"
  BY DEF Results
<1>5. d = IF b.handle[OfLogin(n)] = "destroyed" THEN b
          ELSE IF b.handle[OfLogin(n)] = "aborted" THEN Logout(b)
          ELSE IF b.user = "none" THEN Tell(b, OfLogin(n), aborted)
          ELSE IF succeeded THEN Tell(Resumed(b, logged), OfLogin(n), ok)
          ELSE Resumed(b, Tell(logged, OfLogin(n), failed))
  BY <1>2, <1>3, <1>4 DEF LoginAnswer, Resumed
<1>6. /\ ClientInv(logged) /\ <<"login", OfLogin(n)>> \notin logged.sent /\ Untold(logged, OfLogin(n))
      /\ logged.load = b.load /\ logged.current = b.current /\ logged.odd = b.odd
      /\ \A l \in Loads : Unattached(logged, l) <=> Unattached(b, l)
  <2>1. Same(b, logged)
    BY <1>1, <1>3, UserSame
  <2>2. ClientInv(logged) /\ \A l \in Loads : Unattached(logged, l) <=> Unattached(b, l)
    BY <1>1, <2>1, SameKeeps
  <2> QED BY <1>1, <2>1, <2>2 DEF Same, Untold
<1>7. ASSUME d = Tell(b, OfLogin(n), aborted) PROVE ClientInv(d)
  BY <1>1, <1>7, TellLoginKeeps
<1>8. ASSUME d = Tell(Resumed(b, logged), OfLogin(n), ok) PROVE ClientInv(d)
  <2>1. PICK e : e = Resumed(b, logged)
    OBVIOUS
  <2>2. /\ ClientInv(e) /\ e.told[OfLogin(n)] = logged.told[OfLogin(n)]
        /\ <<"login", OfLogin(n)>> \in e.sent => <<"login", OfLogin(n)>> \in logged.sent
    BY <1>1, <1>6, <2>1, ResumedKeeps
  <2>3. ClientInv(e) /\ <<"login", OfLogin(n)>> \notin e.sent /\ Untold(e, OfLogin(n))
    BY <1>6, <2>2 DEF Untold
  <2>4. d = Tell(e, OfLogin(n), ok)
    BY <1>8, <2>1
  <2> QED BY <2>3, <2>4, TellLoginKeeps
<1>9. ASSUME d = Resumed(b, Tell(logged, OfLogin(n), failed)) PROVE ClientInv(d)
  <2>1. PICK e : e = Tell(logged, OfLogin(n), failed)
    OBVIOUS
  <2>2. /\ ClientInv(e) /\ e.load = logged.load /\ e.current = logged.current /\ e.odd = logged.odd
        /\ \A l \in Loads : Unattached(e, l) <=> Unattached(logged, l)
    BY <1>6, <2>1, TellLoginKeeps
  <2>3. /\ e.load = b.load /\ e.current = b.current /\ e.odd = b.odd
        /\ \A l \in Loads : Unattached(e, l) <=> Unattached(b, l)
    BY <1>6, <2>2
  <2>4. d = Resumed(b, e)
    BY <1>9, <2>1
  <2> QED BY <1>1, <2>2, <2>3, <2>4, ResumedKeeps
<1>10. ASSUME d = Logout(b) PROVE ClientInv(d)
  BY <1>1, <1>10, LogoutKeeps
<1> QED BY <1>1, <1>5, <1>7, <1>8, <1>9, <1>10

-----------------------------------------------------------------------------
(* Answers about media.                                                    *)

(* A media change's answer is taken out of what is in flight: the change   *)
(* waits nowhere, and is of a game.                                        *)
LEMMA MediaReceived ==
  ASSUME NEW c, ClientInv(c), NEW m \in Changes, <<"media", OfChange(m)>> \in c.sent,
         NEW d, d = Received(c, "media", OfChange(m))
  PROVE  /\ ClientInv(d) /\ Changing(d, m) /\ d.change[m].game # None
         /\ d.handle[OfChange(m)] # "destroyed" => Serving(d)
<1>1. c \in ClientType /\ OfChange(m) \in Operations /\ "media" \in Kinds /\ InFront(c) /\ ChangeInv(c, m) /\ Sound(c)
  BY Names DEF ClientInv, Kinds
<1>2. PICK kind : kind = "media"
  OBVIOUS
<1>3. d = Received(c, kind, OfChange(m))
  BY <1>2
<1>4. /\ d \in ClientType /\ d.sent = c.sent \ {<<kind, OfChange(m)>>}
      /\ d.alive = c.alive /\ d.begun = c.begun /\ d.game = c.game /\ d.pings = c.pings /\ d.queue = c.queue
      /\ d.change = c.change /\ d.misused = c.misused /\ d.odd = c.odd /\ d.spectator = c.spectator
      /\ d.current = c.current /\ d.load = c.load /\ d.info = c.info /\ d.told = c.told /\ d.handle = c.handle
  BY <1>1, <1>3, ReceivedEffect
<1>5. /\ d.sent \subseteq c.sent /\ <<"media", OfChange(m)>> \notin d.sent
      /\ \A o \in Operations : o # OfChange(m) => \A k \in Kinds : <<k, o>> \in d.sent <=> <<k, o>> \in c.sent
  BY <1>2, <1>4
<1>6. MediaStep(c, d, m)
  <2>1. Sound(c) => Sound(d)
    BY <1>4 DEF Sound
  <2>2. /\ d.handle[OfChange(m)] = c.handle[OfChange(m)] /\ c.odd \subseteq d.odd
        /\ \A o \in Operations : d.handle[o] = c.handle[o] /\ d.told[o] = c.told[o]
    BY <1>4
  <2> QED BY <1>4, <1>5, <2>1, <2>2 DEF MediaStep
<1>7. /\ c.told[OfChange(m)] = <<>> /\ c.change[m].hash # None /\ c.change[m].game # None
      /\ \A l \in Loads : c.load[l].media # m
  BY <1>1 DEF ChangeInv
<1>8. Changing(d, m)
  BY <1>4, <1>5, <1>7 DEF Changing
<1>9. ChangeInv(d, m)
  BY <1>4, <1>5, <1>7 DEF ChangeInv
<1>10. InFront(d)
  BY <1>1, <1>4, <1>5 DEF InFront
<1>11. ClientInv(d)
  <2>1. \A l \in Loads : LoadInv(d, l)
    BY <1>1, <1>6, MediaKeepsParts DEF ClientInv
  <2>2. \A n \in Logins : LoginInv(d, n)
    BY <1>1, <1>6, MediaKeepsParts DEF ClientInv
  <2>3. \A n \in Changes : ChangeInv(d, n)
    BY <1>1, <1>6, <1>9, MediaKeepsParts DEF ClientInv
  <2> QED BY <1>1, <1>4, <1>6, <1>10, <2>1, <2>2, <2>3 DEF ClientInv, MediaStep
<1>12. d.handle[OfChange(m)] # "destroyed" => Serving(d)
  BY <1>1, <1>4 DEF InFront, Serving
<1> QED BY <1>4, <1>7, <1>8, <1>11, <1>12

(* The caller of a media change is told. *)
LEMMA TellChangeKeeps ==
  ASSUME NEW c, ClientInv(c), NEW m \in Changes, Changing(c, m), Serving(c), NEW r \in Results,
         NEW d, d = Tell(c, OfChange(m), r)
  PROVE  ClientInv(d)
<1>1. c \in ClientType /\ OfChange(m) \in Operations
  BY Names DEF ClientInv
<1>2. /\ d \in ClientType /\ d.told = [c.told EXCEPT ![OfChange(m)] = Append(@, r)]
      /\ d.alive = c.alive /\ d.begun = c.begun /\ d.game = c.game /\ d.pings = c.pings /\ d.queue = c.queue
      /\ d.change = c.change /\ d.misused = c.misused /\ d.odd = c.odd /\ d.spectator = c.spectator
      /\ d.current = c.current /\ d.load = c.load /\ d.info = c.info /\ d.sent = c.sent /\ d.handle = c.handle
  BY <1>1, TellEffect
<1>3. c.told[OfChange(m)] = <<>> /\ <<"media", OfChange(m)>> \notin c.sent /\ c.change[m].hash # None
      /\ \A l \in Loads : c.load[l].media # m
  BY DEF Changing
<1>4. /\ d.told[OfChange(m)] = Append(<<>>, r)
      /\ \A o \in Operations : o # OfChange(m) => d.told[o] = c.told[o]
  BY <1>1, <1>2, <1>3, Fields
<1>5. /\ d \in ClientType
      /\ d.alive = c.alive /\ d.begun = c.begun /\ d.game = c.game /\ d.pings = c.pings /\ d.queue = c.queue
      /\ d.change = c.change /\ d.misused = c.misused /\ d.odd = c.odd /\ d.spectator = c.spectator
      /\ d.current = c.current /\ d.load = c.load /\ d.info = c.info /\ d.sent = c.sent /\ d.handle = c.handle
  BY <1>2
<1>6. MediaStep(c, d, m)
  <2>1. Sound(c) => Sound(d)
    BY <1>5 DEF Sound
  <2>2. d.handle[OfChange(m)] = c.handle[OfChange(m)] /\ c.odd \subseteq d.odd
    BY <1>5
  <2>3. \A o \in Operations : o # OfChange(m) =>
          /\ d.handle[o] = c.handle[o] /\ d.told[o] = c.told[o]
          /\ \A kind \in Kinds : <<kind, o>> \in d.sent <=> <<kind, o>> \in c.sent
    BY <1>4, <1>5
  <2> QED BY <1>5, <2>1, <2>2, <2>3 DEF MediaStep
<1>7. ChangeInv(d, m)
  <2>1. Len(d.told[OfChange(m)]) <= 1
    BY <1>4
  <2> QED BY <1>3, <1>5, <2>1, ChangeTold
<1> QED BY <1>6, <1>7, MediaKeeps DEF Serving

(* rc_client_identify_changed_media_callback. *)
LEMMA MediaAnswerKeeps ==
  ASSUME NEW c, ClientInv(c), NEW m \in Changes, <<"media", OfChange(m)>> \in c.sent,
         NEW answer \in Games \cup {None, "failed"}, NEW b, b = Received(c, "media", OfChange(m)),
         NEW d, d = MediaAnswer(b, m, answer)
  PROVE  ClientInv(d)
<1> DEFINE h == b.change[m].hash
<1>1. /\ ClientInv(b) /\ Changing(b, m) /\ b.change[m].game # None
      /\ b.handle[OfChange(m)] # "destroyed" => Serving(b)
  BY MediaReceived
<1>2. PICK known : known = [b EXCEPT !.id[h] = answer]
  OBVIOUS
<1>3. PICK aborted, failed \in Results : aborted = "aborted" /\ failed = "failed"
  BY DEF Results
<1>4. d = IF b.handle[OfChange(m)] = "destroyed" THEN b
          ELSE IF b.handle[OfChange(m)] = "aborted" THEN IF answer = "failed" THEN b ELSE known
          ELSE IF b.game # b.change[m].game THEN Tell(b, OfChange(m), aborted)
          ELSE IF answer = "failed" THEN Tell(b, OfChange(m), failed)
          ELSE ChangeMediaInternal(known, m)
  BY <1>2, <1>3 DEF MediaAnswer
<1> HIDE DEF h
<1>5. answer # "failed" => Same(b, known)
  <2>1. b \in ClientType
    BY <1>1 DEF ClientInv
  <2>2. answer # "failed" => answer \in Games \cup {None}
    OBVIOUS
  <2> QED BY <1>2, <2>1, <2>2, KnownSame
<1>6. ASSUME d = known, answer # "failed" PROVE ClientInv(d)
  BY <1>1, <1>5, <1>6, SameKeeps
<1>7. ASSUME d = Tell(b, OfChange(m), aborted), Serving(b) PROVE ClientInv(d)
  BY <1>1, <1>7, TellChangeKeeps
<1>8. ASSUME d = Tell(b, OfChange(m), failed), Serving(b) PROVE ClientInv(d)
  BY <1>1, <1>8, TellChangeKeeps
<1>9. ASSUME d = ChangeMediaInternal(known, m), answer # "failed", b.game = b.change[m].game, Serving(b) PROVE ClientInv(d)
  <2>1. Same(b, known)
    BY <1>5, <1>9
  <2>2. ClientInv(known)
    BY <1>1, <2>1, SameKeeps
  <2>3. Changing(known, m) /\ known.game # None /\ Serving(known)
    BY <1>1, <1>9, <2>1 DEF Same, Changing, Serving
  <2>4. MediaStep(known, d, m) /\ ChangeInv(d, m)
    BY <1>9, <2>3, ChangeMediaInternalKeeps
  <2> QED BY <2>2, <2>3, <2>4, MediaKeeps DEF Serving
<1> QED BY <1>1, <1>4, <1>6, <1>7, <1>8, <1>9

(* A change of media is made known to the client. *)
Hashed(c, m, h) == [c EXCEPT !.change[m].hash = h]

(* rc_client_begin_change_media. *)
LEMMA ChangeMediaKeeps ==
  ASSUME NEW c, ClientInv(c), Serving(c), NEW m \in Changes, c.change[m].hash = None, NEW h \in Hashes,
         NEW d, d = BeginChangeMedia(Hashed(c, m, h), m)
  PROVE  ClientInv(d)
<1>1. c \in ClientType /\ c.change \in [Changes -> ChangeType] /\ c.change[m] \in ChangeType /\ h # None
  BY Fields, LoadAssumption DEF ClientInv
<1>2. PICK v \in ChangeType : v = [c.change[m] EXCEPT !.hash = h]
  <2>1. [c.change[m] EXCEPT !.hash = h] \in ChangeType
    BY <1>1 DEF ChangeType
  <2> QED BY <2>1
<1>3. v.hash = h
  BY <1>1, <1>2 DEF ChangeType
<1>4. PICK w \in [Changes -> ChangeType] : w = [c.change EXCEPT ![m] = v]
  BY <1>1
<1>5. PICK e \in ClientType : e = [c EXCEPT !.change = w]
  <2>1. [c EXCEPT !.change = w] \in ClientType
    BY <1>1 DEF ClientType
  <2> QED BY <2>1
<1>6. Hashed(c, m, h) = e
  BY <1>2, <1>4, <1>5 DEF Hashed
<1>7. /\ e.alive = c.alive /\ e.begun = c.begun /\ e.game = c.game /\ e.pings = c.pings /\ e.queue = c.queue
      /\ e.misused = c.misused /\ e.odd = c.odd /\ e.spectator = c.spectator /\ e.change = w
      /\ e.current = c.current /\ e.load = c.load /\ e.info = c.info /\ e.sent = c.sent /\ e.handle = c.handle
      /\ e.told = c.told
  BY <1>1, <1>5 DEF ClientType
<1>8. e.change[m].hash = h /\ \A n \in Changes : n # m => e.change[n] = c.change[n]
  BY <1>1, <1>3, <1>4, <1>7
<1>9. MediaStep(c, e, m)
  <2>1. Sound(c) => Sound(e)
    BY <1>7 DEF Sound
  <2>2. e.handle[OfChange(m)] = c.handle[OfChange(m)] /\ c.odd \subseteq e.odd
    BY <1>7
  <2> QED BY <1>7, <1>8, <2>1, <2>2 DEF MediaStep
<1>10. /\ c.told[OfChange(m)] = <<>> /\ <<"media", OfChange(m)>> \notin c.sent
       /\ \A l \in Loads : c.load[l].media # m
  BY DEF ClientInv, ChangeInv
<1>11. Changing(e, m)
  BY <1>1, <1>7, <1>8, <1>10 DEF Changing
<1>12. ChangeInv(e, m)
  <2>1. Len(e.told[OfChange(m)]) <= 1 /\ e.told[OfChange(m)] = <<>>
    BY <1>7, <1>10
  <2> QED BY <1>11, <2>1, ChangeTold DEF Changing
<1>13. ClientInv(e) /\ Serving(e)
  BY <1>7, <1>9, <1>12, MediaKeeps DEF Serving
<1>14. e.current # None /\ Freed(e, e.current) => e.odd # {}
  BY <1>13, FrontIsThere DEF Live, Freed
<1>15. MediaStep(e, d, m) /\ ChangeInv(d, m)
  BY <1>6, <1>11, <1>14, BeginChangeMediaKeeps
<1> QED BY <1>13, <1>15, MediaKeeps DEF Serving

-----------------------------------------------------------------------------
(* The remaining calls.                                                    *)

(* rc_client_destroy: whatever is in flight finds its handle marked. *)
LEMMA DestroyKeeps ==
  ASSUME NEW c, ClientInv(c), NEW d, d = DestroyClient(c)
  PROVE  ClientInv(d)
<1> DEFINE h == [o \in Operations |-> IF InFlight(c, o) \/ (c.current # None /\ o = OfLoad(c.current))
                                      THEN "destroyed" ELSE c.handle[o]]
<1>1. c \in ClientType /\ InFront(c)
  BY DEF ClientInv
<1>2. h \in [Operations -> {"unused", "fine", "aborted", "destroyed"}]
  BY <1>1, Fields
<1>3. /\ \A o \in Operations : InFlight(c, o) => h[o] = "destroyed"
      /\ \A o \in Operations : h[o] \in {"destroyed", c.handle[o]}
  OBVIOUS
<1>4. PICK g \in [Operations -> {"unused", "fine", "aborted", "destroyed"}] : g = h
  BY <1>2
<1>5. PICK e \in ClientType : e = [c EXCEPT !.handle = g, !.current = None]
  <2>1. [c EXCEPT !.handle = g, !.current = None] \in ClientType
    BY <1>1 DEF ClientType
  <2> QED BY <2>1
<1>6. /\ e.handle = g /\ e.current = None /\ e.pings = c.pings /\ e.game = c.game
      /\ e.load = c.load /\ e.info = c.info /\ e.sent = c.sent /\ e.queue = c.queue /\ e.change = c.change
      /\ e.begun = c.begun /\ e.odd = c.odd /\ e.told = c.told /\ e.misused = c.misused
  BY <1>1, <1>5 DEF ClientType
<1>7. PICK u : u = UnloadGame(e)
  OBVIOUS
<1>8. d = [u EXCEPT !.alive = FALSE]
  BY <1>4, <1>5, <1>7 DEF DestroyClient
<1> HIDE DEF h
<1>9. /\ u \in ClientType /\ u.game = None /\ u.current = None /\ u.pings = {}
      /\ u.load = c.load /\ u.info = c.info /\ u.sent = c.sent /\ u.queue = c.queue /\ u.change = c.change
      /\ u.begun = c.begun /\ u.odd = c.odd /\ u.told = c.told /\ u.misused = c.misused /\ u.handle = g
  <2>1. e.pings \subseteq {e.game} /\ (e.current # None => e.game = None)
    BY <1>1, <1>6 DEF InFront
  <2>2. /\ u \in ClientType /\ u.game = None /\ u.current = None /\ u.pings = {}
        /\ u.load = e.load /\ u.info = e.info /\ u.sent = e.sent /\ u.queue = e.queue /\ u.change = e.change
        /\ u.begun = e.begun /\ u.odd = e.odd /\ u.told = e.told
        /\ e.current = None => u.misused = e.misused /\ u.handle = e.handle
    BY <1>7, <2>1, UnloadGameEffect, ZenonT(60)
  <2> QED BY <1>6, <2>2
<1>10. PICK f \in ClientType : f = [u EXCEPT !.alive = FALSE]
  <2>1. [u EXCEPT !.alive = FALSE] \in ClientType
    BY <1>9 DEF ClientType
  <2> QED BY <2>1
<1>11. /\ f.game = None /\ f.current = None /\ f.pings = {} /\ ~f.alive
       /\ f.load = c.load /\ f.info = c.info /\ f.sent = c.sent /\ f.queue = c.queue /\ f.change = c.change
       /\ f.begun = c.begun /\ f.odd = c.odd /\ f.told = c.told /\ f.misused = c.misused /\ f.handle = g
  BY <1>9, <1>10 DEF ClientType
<1>12. InFront(f)
  <2>1. \A kind \in Kinds, o \in Operations : <<kind, o>> \in f.sent => f.handle[o] = "destroyed"
    <3>1. \A kind \in Kinds, o \in Operations : <<kind, o>> \in c.sent => InFlight(c, o)
      BY DEF InFlight, Kinds
    <3> QED BY <1>3, <1>4, <1>11, <3>1
  <2>2. \A i, j \in 1..Len(f.queue) : f.queue[i] = f.queue[j] => i = j
    BY <1>1, <1>11 DEF InFront
  <2> QED BY <1>11, <2>1, <2>2 DEF InFront
<1>13. \A l \in Loads : Asked(c, l) => Aborted(f, OfLoad(l))
  <2>1. \A l \in Loads : Asked(c, l) => InFlight(c, OfLoad(l))
    BY DEF Asked, AskedSets, AskedSession, InFlight
  <2> QED BY <1>3, <1>4, <1>11, <2>1, Names DEF Aborted
<1>14. \A o \in Operations : /\ Aborted(c, o) => Aborted(f, o)
                             /\ f.handle[o] = "unused" => c.handle[o] = "unused"
  BY <1>3, <1>4, <1>11 DEF Aborted
<1>15. Left(c, f)
  BY <1>11, <1>13, <1>14 DEF Left
<1> QED BY <1>8, <1>10, <1>12, <1>15, LeftKeeps

(* rc_client_set_spectator_mode_enabled: once more, and it is noted. *)
Spectating(c, mode) == [c EXCEPT !.spectator = mode, !.odd = IF c.spectator = "locked" THEN @ \cup {"relocked"} ELSE @]

(* What it changes is made up for by the note. *)
LEMMA SpectatingKeeps ==
  ASSUME NEW c, ClientInv(c), NEW mode \in {"off", "on"}, NEW d, d = Spectating(c, mode)
  PROVE  ClientInv(d)
<1>1. c \in ClientType /\ InFront(c)
  BY DEF ClientInv
<1>2. PICK x \in SUBSET {"empty", "early", "relocked"} : x = IF c.spectator = "locked" THEN c.odd \cup {"relocked"} ELSE c.odd
  <2>1. c.odd \in SUBSET {"empty", "early", "relocked"} /\ c.odd \cup {"relocked"} \in SUBSET {"empty", "early", "relocked"}
    BY <1>1, Fields
  <2> QED BY <2>1
<1>3. PICK e \in ClientType : e = [c EXCEPT !.spectator = mode, !.odd = x]
  <2>1. [c EXCEPT !.spectator = mode, !.odd = x] \in ClientType
    BY <1>1 DEF ClientType
  <2> QED BY <2>1
<1>4. d = e
  BY <1>2, <1>3 DEF Spectating
<1>5. /\ e.alive = c.alive /\ e.begun = c.begun /\ e.game = c.game /\ e.pings = c.pings /\ e.queue = c.queue
      /\ e.change = c.change /\ e.misused = c.misused /\ e.odd = x
      /\ e.current = c.current /\ e.load = c.load /\ e.info = c.info /\ e.sent = c.sent /\ e.handle = c.handle
      /\ e.told = c.told
  BY <1>1, <1>3 DEF ClientType
<1>6. c.odd \subseteq x /\ (c.spectator = "locked" => "relocked" \in x)
  BY <1>2
<1>7. InFront(e)
  BY <1>1, <1>5, <1>6 DEF InFront
<1>8. Sound(e)
  BY <1>5, <1>6 DEF ClientInv, Sound
<1>9. ASSUME NEW l \in Loads PROVE LoadInv(e, l)
  <2>1. LoadInv(c, l)
    BY DEF ClientInv
  <2>2. /\ AskedSets(e, l) <=> AskedSets(c, l)
        /\ AskedSession(e, l) <=> AskedSession(c, l)
        /\ Asked(e, l) <=> Asked(c, l)
        /\ Queued(e, l) <=> Queued(c, l)
        /\ Live(e, l) <=> Live(c, l)
        /\ Freed(e, l) <=> Freed(c, l)
    BY <1>5 DEF AskedSets, AskedSession, Asked, Queued, Live, Freed
  <2>3. Referenced(e, l)
    BY <1>5, <2>1, <2>2 DEF LoadInv, Referenced
  <2>4. IsCurrent(e, l)
    BY <1>5, <1>6, <2>1, <2>2 DEF LoadInv, IsCurrent, Aborted
  <2>5. Told(e, l)
    BY <1>5, <2>1, <2>2 DEF LoadInv, Told
  <2>6. Started(e, l)
    BY <1>5, <1>6, <2>1, <2>2 DEF LoadInv, Started
  <2> QED BY <2>3, <2>4, <2>5, <2>6 DEF LoadInv
<1>10. ASSUME NEW n \in Logins PROVE LoginInv(e, n)
  BY <1>5 DEF ClientInv, LoginInv
<1>11. ASSUME NEW m \in Changes PROVE ChangeInv(e, m)
  BY <1>5 DEF ClientInv, ChangeInv
<1> QED BY <1>4, <1>7, <1>8, <1>9, <1>10, <1>11 DEF ClientInv

(* rc_client_abort_async marks a handle. *)
AbortedHandle(c, o) == [c EXCEPT !.handle[o] = "aborted"]

(* A load whose handle is marked may still be the client's. *)
LEMMA AbortKeeps ==
  ASSUME NEW c, ClientInv(c), Serving(c), NEW o \in Operations, c.handle[o] = "fine", NEW d, d = AbortedHandle(c, o)
  PROVE  ClientInv(d)
<1>1. c \in ClientType /\ InFront(c)
  BY DEF ClientInv
<1>2. PICK h \in [Operations -> {"unused", "fine", "aborted", "destroyed"}] : h = [c.handle EXCEPT ![o] = "aborted"]
  BY <1>1, Fields
<1>3. h[o] = "aborted" /\ \A p \in Operations : p # o => h[p] = c.handle[p]
  BY <1>1, <1>2, Fields
<1>4. PICK e \in ClientType : e = [c EXCEPT !.handle = h]
  <2>1. [c EXCEPT !.handle = h] \in ClientType
    BY <1>1 DEF ClientType
  <2> QED BY <2>1
<1>5. d = e
  BY <1>2, <1>4 DEF AbortedHandle
<1>6. /\ e.alive = c.alive /\ e.begun = c.begun /\ e.game = c.game /\ e.pings = c.pings /\ e.queue = c.queue
      /\ e.change = c.change /\ e.misused = c.misused /\ e.odd = c.odd /\ e.spectator = c.spectator
      /\ e.current = c.current /\ e.load = c.load /\ e.info = c.info /\ e.sent = c.sent /\ e.handle = h
      /\ e.told = c.told
  BY <1>1, <1>4 DEF ClientType
<1>7. InFront(e)
  <2>1. \A p \in Operations : e.handle[p] # "destroyed"
    BY <1>1, <1>3, <1>6 DEF InFront, Serving
  <2>2. e.alive
    BY <1>6 DEF Serving
  <2> QED BY <1>1, <1>6, <2>1, <2>2 DEF InFront
<1>8. \A l \in Loads : c.current = l /\ Asked(c, l) /\ e.current = None => Aborted(e, OfLoad(l))
  BY <1>6, LoadAssumption
<1>9. \A p \in Operations : /\ Aborted(c, p) => Aborted(e, p)
                            /\ e.handle[p] = "unused" => c.handle[p] = "unused"
  BY <1>3, <1>6 DEF Aborted
<1>10. Left(c, e)
  BY <1>6, <1>8, <1>9 DEF Left
<1> QED BY <1>5, <1>7, <1>10, LeftKeeps

-----------------------------------------------------------------------------
(* The invariant is inductive.                                             *)

(* A client that was just created. *)
LEMMA CreatedKeeps ==
  ASSUME NEW background \in BOOLEAN, NEW spectator \in {"off", "on"}, NEW c, c = CreatedClient(background, spectator)
  PROVE  ClientInv(c)
<1>1. BlankLoad \in LoadType /\ BlankGame \in GameType /\ [hash |-> None, game |-> None] \in ChangeType
  BY BlankFacts DEF BlankGame, GameType, ChangeType
<1>2. /\ [h \in Hashes |-> Unasked] \in [Hashes -> Games \cup {None, Unasked}]
      /\ [l \in Loads |-> BlankLoad] \in [Loads -> LoadType]
      /\ [l \in Loads |-> BlankGame] \in [Loads -> GameType]
      /\ [m \in Changes |-> [hash |-> None, game |-> None]] \in [Changes -> ChangeType]
      /\ [o \in Operations |-> "unused"] \in [Operations -> {"unused", "fine", "aborted", "destroyed"}]
      /\ 0 \in 0..MaxLoads
  BY <1>1, LoadAssumption
<1>3. [o \in Operations |-> <<>>] \in [Operations -> Seq(Results)] /\ <<>> \in Seq(Loads)
  OBVIOUS
<1>4. c \in ClientType
  BY <1>2, <1>3 DEF CreatedClient, ClientType
<1>5. /\ c.alive /\ c.begun = 0 /\ c.game = None /\ c.current = None /\ c.pings = {} /\ c.queue = <<>> /\ c.misused = {}
      /\ c.sent = {} /\ c.odd = {}
      /\ c.load = [l \in Loads |-> BlankLoad] /\ c.change = [m \in Changes |-> [hash |-> None, game |-> None]]
      /\ c.handle = [o \in Operations |-> "unused"] /\ c.told = [o \in Operations |-> <<>>]
  BY DEF CreatedClient
<1>6. InFront(c) /\ Sound(c)
  <2>1. /\ c.current = None /\ c.game = None /\ c.pings = {} /\ c.alive /\ c.queue = <<>> /\ c.misused = {}
        /\ \A o \in Operations : c.handle[o] # "destroyed"
    BY <1>5
  <2>2. \A i, j \in 1..Len(c.queue) : c.queue[i] = c.queue[j] => i = j
    BY <2>1
  <2> QED BY <2>1, <2>2 DEF InFront, Sound
<1>7. ASSUME NEW l \in Loads PROVE LoadInv(c, l)
  <2>1. PICK b \in LoadType : b = BlankLoad
    BY BlankFacts
  <2>2. /\ c.load[l] = b /\ b.memory = "unused" /\ b.outstanding = 0 /\ b.progress = "none"
        /\ c.told[OfLoad(l)] = <<>> /\ l # None
    <3>1. b.memory = "unused"
      BY <2>1 DEF BlankLoad
    <3> QED BY <1>5, <2>1, <3>1, Names, BlankFacts, LoadAssumption
  <2>3. ~Asked(c, l) /\ ~AskedSets(c, l) /\ ~AskedSession(c, l) /\ ~Queued(c, l)
    BY <1>5 DEF Asked, AskedSets, AskedSession, Queued
  <2>4. c.begun < l
    BY <1>5, LoadAssumption DEF Loads
  <2>5. Referenced(c, l) /\ IsCurrent(c, l)
    BY <1>5, <2>2, <2>3, <2>4 DEF Referenced, IsCurrent
  <2>6. Told(c, l) /\ Started(c, l)
    BY <2>2, <2>3 DEF Told, Started, Live, ToSet
  <2> QED BY <2>5, <2>6 DEF LoadInv
<1>8. ASSUME NEW n \in Logins PROVE LoginInv(c, n)
  <2>1. c.told[OfLogin(n)] = <<>> /\ c.sent = {}
    BY <1>5, Names
  <2> QED BY <2>1 DEF LoginInv
<1>9. ASSUME NEW m \in Changes PROVE ChangeInv(c, m)
  <2>1. c.told[OfChange(m)] = <<>> /\ c.sent = {}
    BY <1>5, Names
  <2>2. \A l \in Loads : c.load[l].media = None
    BY <1>5, BlankFacts
  <2>3. m # None
    BY LoadAssumption
  <2> QED BY <2>1, <2>2, <2>3 DEF ChangeInv
<1> QED BY <1>4, <1>6, <1>7, <1>8, <1>9 DEF ClientInv

(* The invariant holds at the start. *)
LEMMA InitHolds == Init => IInv
BY CreatedKeeps DEF Init, IInv

(* A call of the host keeps it. *)
LEMMA CallKeeps ==
  ASSUME IInv, Calls
  PROVE  IInv'
<1>1. ClientInv(client) /\ Serving(client)
  BY DEF IInv, Calls, Login, UserLogsOut, LoadGame, Unload, ChangeMedia, Destroy, Reset, Abort, SetSpectator, Step, Serving
<1>2. CASE Login
  <2>1. PICK n \in Logins : ~Begun(OfLogin(n)) /\ client' = BeginLogin(client, n)
    BY <1>2 DEF Login, Step
  <2>2. client.handle[OfLogin(n)] = "unused" /\ client.told[OfLogin(n)] = <<>>
    BY <2>1 DEF Begun
  <2> QED BY <1>1, <2>1, <2>2, BeginLoginKeeps DEF IInv, Serving
<1>3. CASE UserLogsOut
  BY <1>1, <1>3, LogoutKeeps DEF UserLogsOut, Step, IInv
<1>4. CASE LoadGame
  <2>1. client.begun < MaxLoads /\ \E h \in Hashes : client' = BeginLoadGame(client, h)
    BY <1>4 DEF LoadGame, Step
  <2> QED BY <1>1, <2>1, BeginLoadGameKeeps DEF IInv, Serving
<1>5. CASE Unload \/ Reset
  <2>1. client' = UnloadGame(client)
    BY <1>5 DEF Unload, Reset, Step
  <2> QED BY <1>1, <2>1, UnloadGameKeeps DEF IInv
<1>6. CASE ChangeMedia
  <2>1. PICK m \in Changes, h \in Hashes :
          client.change[m].hash = None /\ client' = BeginChangeMedia([client EXCEPT !.change[m].hash = h], m)
    BY <1>6 DEF ChangeMedia, Step
  <2>2. client' = BeginChangeMedia(Hashed(client, m, h), m)
    BY <2>1 DEF Hashed
  <2> QED BY <1>1, <2>1, <2>2, ChangeMediaKeeps DEF IInv
<1>7. CASE Destroy
  BY <1>1, <1>7, DestroyKeeps DEF Destroy, Step, IInv
<1>8. CASE Abort
  <2>1. PICK o \in Operations : client.handle[o] = "fine" /\ client' = AbortedHandle(client, o)
    BY <1>8 DEF Abort, Step, AbortedHandle
  <2> QED BY <1>1, <2>1, AbortKeeps DEF IInv
<1>9. CASE SetSpectator
  <2>1. PICK mode \in {"off", "on"} : client' = Spectating(client, mode)
    BY <1>9 DEF SetSpectator, Step, Spectating
  <2> QED BY <1>1, <2>1, SpectatingKeeps DEF IInv
<1> QED BY <1>2, <1>3, <1>4, <1>5, <1>6, <1>7, <1>8, <1>9 DEF Calls

(* So does an answer of the server. *)
LEMMA AnswerKeeps ==
  ASSUME IInv, Answers
  PROVE  IInv'
<1>1. ClientInv(client)
  BY DEF IInv
<1>2. CASE LoginAnswered
  <2>1. PICK n \in Logins, ok \in BOOLEAN :
          /\ <<"login", OfLogin(n)>> \in client.sent
          /\ client' = LoginAnswer(Received(client, "login", OfLogin(n)), n, ok)
    BY <1>2 DEF LoginAnswered, Answer, Answered, Received
  <2> QED BY <1>1, <2>1, LoginAnswerKeeps DEF IInv
<1>3. CASE SetsAnswered
  <2>1. PICK l \in Loads, a \in SetsAnswers :
          /\ <<"sets", OfLoad(l)>> \in client.sent
          /\ client' = SetsAnswer(Received(client, "sets", OfLoad(l)), l, a)
    BY <1>3 DEF SetsAnswered, Answer, Answered, Received
  <2> QED BY <1>1, <2>1, SetsAnswerKeeps DEF IInv
<1>4. CASE SessionAnswered
  <2>1. PICK l \in Loads, ok \in BOOLEAN :
          /\ <<"session", OfLoad(l)>> \in client.sent
          /\ client' = SessionAnswer(Received(client, "session", OfLoad(l)), l, ok)
    BY <1>4 DEF SessionAnswered, Answer, Answered, Received
  <2> QED BY <1>1, <2>1, SessionAnswerKeeps DEF IInv
<1>5. CASE MediaAnswered
  <2>1. PICK m \in Changes, a \in Games \cup {None, "failed"} :
          /\ <<"media", OfChange(m)>> \in client.sent
          /\ client' = MediaAnswer(Received(client, "media", OfChange(m)), m, a)
    BY <1>5 DEF MediaAnswered, Answer, Answered, Received
  <2> QED BY <1>1, <2>1, MediaAnswerKeeps DEF IInv
<1> QED BY <1>2, <1>3, <1>4, <1>5 DEF Answers

(* Every step keeps it. *)
LEMMA NextKeeps == IInv /\ [Next]_client => IInv'
<1> SUFFICES ASSUME IInv, [Next]_client PROVE IInv'
  OBVIOUS
<1>1. CASE Calls
  BY <1>1, CallKeeps
<1>2. CASE Idle
  BY <1>2, RunActivationsKeeps DEF Idle, Step, IInv
<1>3. CASE Answers
  BY <1>3, AnswerKeeps
<1>4. CASE UNCHANGED client
  BY <1>4 DEF IInv
<1> QED BY <1>1, <1>2, <1>3, <1>4 DEF Next

(* The inductive invariant holds in every state a client can reach,        *)
(* whatever the host calls and in whatever order the server answers.       *)
THEOREM Invariance == Spec => []IInv
BY InitHolds, NextKeeps, PTL DEF Spec

-----------------------------------------------------------------------------
(* What the invariant says.                                                *)

(* The client's fields have their types, a load never waits for more than  *)
(* one answer, and no caller is told more than twice.                      *)
THEOREM TypeCorrect == Spec => []TypeOK
<1>1. ASSUME IInv PROVE TypeOK
  <2>1. client \in ClientType
    BY <1>1 DEF IInv, ClientInv
  <2>2. /\ client.user \in {"none", "requested", "logged_in"}
        /\ client.current \in Loads \cup {None} /\ client.game \in Loads \cup {None}
        /\ client.spectator \in {"off", "on", "locked"} /\ client.id \in [Hashes -> Games \cup {None, Unasked}]
        /\ client.queue \in Seq(Loads) /\ client.pings \subseteq Loads
        /\ client.load \in [Loads -> LoadType] /\ client.told \in [Operations -> Seq(Results)]
    BY <2>1, Fields
  <2>3. ASSUME NEW l \in Loads PROVE client.load[l].memory \in {"unused", "live", "freed"} /\ client.load[l].outstanding \in 0..1
    <3>1. client.load[l].memory \in {"unused", "live", "freed"}
      BY <2>2 DEF LoadType
    <3>2. client.load[l].outstanding = 0 \/ client.load[l].outstanding = 1
      BY <1>1 DEF IInv, ClientInv, LoadInv, Referenced
    <3> QED BY <3>1, <3>2
  <2>4. ASSUME NEW o \in Operations PROVE ToSet(client.told[o]) \subseteq Results /\ Len(client.told[o]) <= 2
    <3>1. client.told[o] \in Seq(Results)
      BY <2>2
    <3>2. ToSet(client.told[o]) \subseteq Results /\ Len(client.told[o]) \in Nat
      BY <3>1 DEF ToSet
    <3>3. Len(client.told[o]) <= 1 \/ Len(client.told[o]) <= 2
      BY <1>1, Names DEF IInv, ClientInv, LoadInv, Told, LoginInv, ChangeInv
    <3> QED BY <3>2, <3>3
  <2> QED BY <2>2, <2>3, <2>4 DEF TypeOK
<1> QED BY <1>1, Invariance, PTL

(* A load told that it succeeded is told nothing else, before or after.    *)
THEOREM SuccessIsFinal == Spec => []OkIsFinal
<1>1. ASSUME IInv PROVE OkIsFinal
  BY <1>1 DEF IInv, ClientInv, LoadInv, Told, OkIsFinal
<1> QED BY <1>1, Invariance, PTL

(* The game, the load in progress and the pings are those of the load      *)
(* begun last, whatever order answers come in.                             *)
THEOREM LatestWins == Spec => []GameIsLatest
<1>1. ASSUME IInv PROVE GameIsLatest
  BY <1>1 DEF IInv, ClientInv, InFront, GameIsLatest
<1> QED BY <1>1, Invariance, PTL

(* An identified game has its session or the client spectates.             *)
THEOREM GameHasSession == Spec => []ActiveHasSession
<1>1. ASSUME IInv PROVE ActiveHasSession
  <2>1. InFront(client)
    BY <1>1 DEF IInv, ClientInv
  <2>2. client.game # None /\ client.info[client.game].id # None =>
          client.info[client.game].session \/ client.spectator = "locked" \/ "relocked" \in client.odd
    BY <2>1 DEF InFront
  <2> QED BY <2>2 DEF ActiveHasSession, HasSession
<1> QED BY <1>1, Invariance, PTL

(* No load state or game is used that is not there, but in the three ways  *)
(* that are noted.                                                         *)
THEOREM NothingFreedIsUsed == Spec => []UsesOnlyWhatIsThere
<1>1. ASSUME IInv PROVE UsesOnlyWhatIsThere
  BY <1>1 DEF IInv, ClientInv, Sound, UsesOnlyWhatIsThere
<1> QED BY <1>1, Invariance, PTL

-----------------------------------------------------------------------------
(* What a client is in, between the steps of the service.                  *)

(* A client that is there and does not spectate.                           *)
Served(c) == c \in ClientType /\ c.alive /\ c.spectator = "off"

(* Nothing is in front.                                                    *)
Vacant(c) == c.current = None /\ c.queue = <<>>

(* No load has begun; h is the hash it will be of.                         *)
NotBegun(c, h) ==
  /\ Served(c) /\ Vacant(c) /\ c.begun = 0 /\ c.game = None /\ c.told[OfLoad(1)] = <<>>
  /\ h # None => c.id[h] = Unasked

SignedOut(c, h) == NotBegun(c, h) /\ c.user = "none" /\ c.sent = {}
LoggingIn(c, h) ==
  NotBegun(c, h) /\ c.user = "requested" /\ c.sent = {<<"login", OfLogin(1)>>} /\ c.handle[OfLogin(1)] = "fine"
LoggedIn(c, h) == NotBegun(c, h) /\ c.user = "logged_in" /\ c.sent = {}

(* The load has begun.                                                     *)
Begins(c) == Served(c) /\ c.begun = 1 /\ c.user = "logged_in"

(* It is in front, and its caller awaits the result.                       *)
Awaited(c) ==
  /\ Begins(c) /\ c.current = 1 /\ c.game = None /\ c.told[OfLoad(1)] = <<>>
  /\ c.load[1].memory = "live" /\ c.load[1].callback /\ c.load[1].media = None
Asks(c, kind) == c.sent = {<<kind, OfLoad(1)>>} /\ c.handle[OfLoad(1)] = "fine" /\ c.load[1].outstanding = 1

Identifying(c) == Awaited(c) /\ c.queue = <<>> /\ Asks(c, "sets")
Starting(c) == Awaited(c) /\ c.queue = <<>> /\ Asks(c, "session")
Activating(c) == Awaited(c) /\ c.queue = <<1>> /\ c.sent = {} /\ c.load[1].session

(* It failed, with its session still asked for, or is over.                *)
Emptied(c) ==
  Begins(c) /\ Vacant(c) /\ Asks(c, "session") /\ c.load[1].memory = "live" /\ c.load[1].progress = "aborted"
Failed(c) == Begins(c) /\ Vacant(c) /\ c.sent = {}
Playing(c) == Failed(c) /\ c.game = 1 /\ c.told[OfLoad(1)] = <<"ok">>

(* What the service's state says of the client.                            *)
Follows(c, h, s) ==
  \/ s = "idle" /\ (SignedOut(c, h) \/ Emptied(c) \/ Failed(c))
  \/ s = "loggingIn" /\ LoggingIn(c, h)
  \/ s = "loggedIn" /\ LoggedIn(c, h)
  \/ s = "loadingGame" /\ (Identifying(c) \/ Starting(c) \/ Activating(c))
  \/ s = "loaded" /\ Playing(c)

-----------------------------------------------------------------------------
(* What its callers are told.                                              *)

(* d has told the caller of o the results rs, and nobody else.             *)
Silent(c, d) == d.told[OfLogin(1)] = c.told[OfLogin(1)] /\ d.told[OfLoad(1)] = c.told[OfLoad(1)]
TellsLogin(c, d, r) == d.told[OfLogin(1)] = Append(c.told[OfLogin(1)], r) /\ d.told[OfLoad(1)] = c.told[OfLoad(1)]
TellsLoad(c, d, r) == d.told[OfLogin(1)] = c.told[OfLogin(1)] /\ d.told[OfLoad(1)] = Append(c.told[OfLoad(1)], r)

(* The service's load and login are among those the client can begin. *)
LEMMA First == 1 \in Loads /\ 1 \in Logins /\ 1 # None /\ OfLoad(1) \in Operations /\ OfLogin(1) \in Operations
               /\ OfLoad(1) # OfLogin(1)
<1>1. 1 \in Loads /\ 1 \in Logins
  BY ServiceAssumption, LoadAssumption DEF Loads, Logins
<1> QED BY <1>1, LoadAssumption, Names

(* Nothing comes before or after one result. *)
LEMMA OneResult ==
  ASSUME NEW r \in Results
  PROVE  <<r>> \o <<>> = <<r>> /\ <<>> \o <<r>> = <<r>>
<1>1. PICK t \in Seq(Results) : t = <<r>>
  <2>1. <<r>> \in Seq(Results)
    OBVIOUS
  <2> QED BY <2>1
<1>2. t \o <<>> = t /\ <<>> \o t = t
  OBVIOUS
<1> QED BY <1>1, <1>2

(* What is new is what was appended. *)
LEMMA NewsFacts ==
  ASSUME NEW S, NEW s \in Seq(S), NEW x \in S
  PROVE  /\ SubSeq(s, Len(s) + 1, Len(s)) = <<>>
         /\ SubSeq(Append(s, x), Len(s) + 1, Len(Append(s, x))) = <<x>>
<1>1. SubSeq(s, Len(s) + 1, Len(s)) = <<>>
  OBVIOUS
<1>2. Len(s) \in Nat /\ Append(s, x) \in Seq(S) /\ Len(Append(s, x)) = Len(s) + 1 /\ Append(s, x)[Len(s) + 1] = x
  OBVIOUS
<1>3. PICK t \in Seq(S) : t = Append(s, x)
  BY <1>2
<1>4. PICK n \in Nat : n = Len(s) + 1
  BY <1>2
<1>5. Len(t) = n /\ t[n] = x /\ n >= 1
  BY <1>2, <1>3, <1>4
<1>6. SubSeq(t, n, n) = <<t[n]>>
  <2>1. PICK u : u = SubSeq(t, n, n)
    OBVIOUS
  <2>2. u \in Seq(S)
    BY <1>5, <2>1
  <2>3. Len(u) = 1 /\ u[1] = t[n]
    BY <1>5, <2>1
  <2>4. u = <<u[1]>>
    BY <2>2, <2>3
  <2> QED BY <2>1, <2>3, <2>4
<1> QED BY <1>1, <1>2, <1>3, <1>4, <1>5, <1>6

(* What the host makes of a step of its client that told nothing. *)
LEMMA AfterSilence ==
  ASSUME client \in ClientType, NEW next \in ClientType, Silent(client, next)
  PROVE  After(next) = [Host EXCEPT !.client = next]
<1>1. client.told[OfLogin(1)] \in Seq(Results) /\ client.told[OfLoad(1)] \in Seq(Results)
  BY First, Fields
<1>2. ToldBy(client, next) = <<>>
  <2>1. News(client, next, OfLogin(1)) = <<>>
    BY <1>1 DEF News, Silent
  <2>2. News(client, next, OfLoad(1)) = <<>>
    BY <1>1 DEF News, Silent
  <2> QED BY <2>1, <2>2 DEF ToldBy
<1> DEFINE told == ToldBy(client, next)
           first == [Host EXCEPT !.client = next]
           host == CHOOSE f : f = [n \in 0..Len(told) |-> IF n = 0 THEN first ELSE HandleAsyncCallback(f[n - 1], told[n])]
<1>3. After(next) = host[Len(told)]
  BY DEF After
<1>4. Len(told) = 0
  BY <1>2
<1> HIDE DEF told, first
<1>5. \E f : f = [n \in 0..Len(told) |-> IF n = 0 THEN first ELSE HandleAsyncCallback(f[n - 1], told[n])]
  <2>1. PICK f : f = [n \in 0..0 |-> first]
    OBVIOUS
  <2>2. \A n \in 0..0 : n = 0
    OBVIOUS
  <2>3. f = [n \in 0..0 |-> IF n = 0 THEN first ELSE HandleAsyncCallback(f[n - 1], told[n])]
    BY <2>1, <2>2
  <2> QED BY <1>4, <2>3
<1>6. host = [n \in 0..Len(told) |-> IF n = 0 THEN first ELSE HandleAsyncCallback(host[n - 1], told[n])]
  BY <1>5
<1> HIDE DEF host
<1>7. host[0] = first
  BY <1>4, <1>6
<1> QED BY <1>3, <1>4, <1>7 DEF first

(* What it makes of one that told one of its callers a result. *)
LEMMA AfterResult ==
  ASSUME client \in ClientType, NEW next \in ClientType, NEW r \in Results, TellsLogin(client, next, r) \/ TellsLoad(client, next, r)
  PROVE  After(next) = HandleAsyncCallback([Host EXCEPT !.client = next], r)
<1>1. client.told[OfLogin(1)] \in Seq(Results) /\ client.told[OfLoad(1)] \in Seq(Results)
  BY First, Fields
<1>2. ToldBy(client, next) = <<r>>
  <2>1. CASE TellsLogin(client, next, r)
    <3>1. News(client, next, OfLogin(1)) = <<r>>
      BY <1>1, <2>1, NewsFacts DEF News, TellsLogin
    <3>2. News(client, next, OfLoad(1)) = <<>>
      BY <1>1, <2>1, NewsFacts DEF News, TellsLogin
    <3> QED BY <3>1, <3>2, OneResult DEF ToldBy
  <2>2. CASE TellsLoad(client, next, r)
    <3>1. News(client, next, OfLogin(1)) = <<>>
      BY <1>1, <2>2, NewsFacts DEF News, TellsLoad
    <3>2. News(client, next, OfLoad(1)) = <<r>>
      BY <1>1, <2>2, NewsFacts DEF News, TellsLoad
    <3> QED BY <3>1, <3>2, OneResult DEF ToldBy
  <2> QED BY <2>1, <2>2
<1> DEFINE told == ToldBy(client, next)
           first == [Host EXCEPT !.client = next]
           host == CHOOSE f : f = [n \in 0..Len(told) |-> IF n = 0 THEN first ELSE HandleAsyncCallback(f[n - 1], told[n])]
<1>3. After(next) = host[Len(told)]
  BY DEF After
<1>4. Len(told) = 1 /\ told[1] = r
  BY <1>2
<1> HIDE DEF told, first
<1>5. \E f : f = [n \in 0..Len(told) |-> IF n = 0 THEN first ELSE HandleAsyncCallback(f[n - 1], told[n])]
  <2>1. PICK f : f = [n \in 0..1 |-> IF n = 0 THEN first ELSE HandleAsyncCallback(first, told[1])]
    OBVIOUS
  <2>2. f[0] = first
    BY <2>1
  <2>3. ASSUME NEW n \in 0..1
        PROVE  (IF n = 0 THEN first ELSE HandleAsyncCallback(first, told[1]))
                  = IF n = 0 THEN first ELSE HandleAsyncCallback(f[n - 1], told[n])
    <3>1. CASE n = 0
      BY <3>1
    <3>2. CASE n = 1
      BY <2>2, <3>2
    <3> QED BY <3>1, <3>2
  <2>4. f = [n \in 0..1 |-> IF n = 0 THEN first ELSE HandleAsyncCallback(f[n - 1], told[n])]
    BY <2>1, <2>3
  <2> QED BY <1>4, <2>4
<1>6. host = [n \in 0..Len(told) |-> IF n = 0 THEN first ELSE HandleAsyncCallback(host[n - 1], told[n])]
  BY <1>5
<1> HIDE DEF host
<1>7. host[0] = first
  BY <1>4, <1>6
<1>8. host[1] = HandleAsyncCallback(host[0], told[1])
  BY <1>4, <1>6
<1> QED BY <1>3, <1>4, <1>7, <1>8 DEF first

-----------------------------------------------------------------------------
(* Setting up.                                                             *)

(* A client made by the service is signed out. *)
LEMMA CreatedIsSignedOut ==
  ASSUME NEW h \in Hashes \cup {None}
  PROVE  SignedOut(CreatedClient(FALSE, "off"), h)
<1>1. CreatedClient(FALSE, "off") \in ClientType
  BY CreatedKeeps DEF ClientInv
<1>2. PICK c \in ClientType : c = CreatedClient(FALSE, "off")
  BY <1>1
<1>3. /\ c.alive /\ c.spectator = "off" /\ c.current = None /\ c.queue = <<>> /\ c.begun = 0
      /\ c.game = None /\ c.user = "none" /\ c.sent = {}
  BY <1>2 DEF CreatedClient
<1>4. c.told = [o \in Operations |-> <<>>] /\ c.id = [k \in Hashes |-> Unasked]
  BY <1>2 DEF CreatedClient
<1>5. c.told[OfLoad(1)] = <<>>
  BY <1>4, First
<1>6. h # None => c.id[h] = Unasked
  BY <1>4
<1>7. SignedOut(c, h)
  BY <1>3, <1>5, <1>6 DEF SignedOut, NotBegun, Served, Vacant
<1> QED BY <1>2, <1>7

(* Choosing a mode changes nothing else. *)
LEMMA ModeIsBeside ==
  ASSUME NEW c, NEW h, SignedOut(c, h), NEW hardcore \in BOOLEAN, NEW d, d = [c EXCEPT !.hardcore = hardcore]
  PROVE  SignedOut(d, h)
<1>1. c \in ClientType
  BY DEF SignedOut, NotBegun, Served
<1>2. d \in ClientType
  BY <1>1 DEF ClientType
<1>3. /\ d.alive = c.alive /\ d.spectator = c.spectator /\ d.current = c.current /\ d.queue = c.queue /\ d.begun = c.begun /\ d.game = c.game /\ d.user = c.user /\ d.sent = c.sent
      /\ d.told = c.told /\ d.id = c.id
  BY <1>1 DEF ClientType
<1> QED BY <1>2, <1>3 DEF SignedOut, NotBegun, Served, Vacant

(* Beginning to log in. *)
LEMMA BeginLoginEffect ==
  ASSUME NEW c, NEW h, SignedOut(c, h), NEW d, d = BeginLogin(c, 1)
  PROVE  LoggingIn(d, h)
<1>1. c \in ClientType /\ c.user = "none" /\ c.sent = {}
  BY DEF SignedOut, NotBegun, Served
<1>2. PICK s \in SUBSET Requests : s = c.sent \cup {<<"login", OfLogin(1)>>}
  <2>1. <<"login", OfLogin(1)>> \in Requests
    BY First DEF Requests, Kinds
  <2> QED BY <1>1, <2>1, Fields
<1>3. s = {<<"login", OfLogin(1)>>}
  BY <1>1, <1>2
<1>4. PICK w \in [Operations -> {"unused", "fine", "aborted", "destroyed"}] :
        w = [c.handle EXCEPT ![OfLogin(1)] = "fine"]
  BY <1>1, Fields
<1>5. w[OfLogin(1)] = "fine"
  BY <1>1, <1>4, First, Fields
<1>6. PICK e \in ClientType : e = [c EXCEPT !.user = "requested", !.handle = w, !.sent = s]
  <2>1. [c EXCEPT !.user = "requested", !.handle = w, !.sent = s] \in ClientType
    BY <1>1 DEF ClientType
  <2> QED BY <2>1
<1>7. d = e
  BY <1>1, <1>2, <1>4, <1>6 DEF BeginLogin, Send
<1>8. /\ e.alive = c.alive /\ e.spectator = c.spectator /\ e.current = c.current
      /\ e.queue = c.queue /\ e.begun = c.begun /\ e.game = c.game /\ e.user = "requested" /\ e.sent = s
      /\ e.told = c.told /\ e.id = c.id /\ e.handle = w
  BY <1>1, <1>6 DEF ClientType
<1> QED BY <1>3, <1>5, <1>7, <1>8, ZenonT(60) DEF SignedOut, LoggingIn, NotBegun, Served, Vacant

-----------------------------------------------------------------------------
(* The answer to the login.                                                *)

(* c with another user. *)
WithUser(c, u) == [c EXCEPT !.user = u]
LEMMA UserEffect ==
  ASSUME NEW c \in ClientType, NEW u \in {"none", "requested", "logged_in"}, NEW d, d = WithUser(c, u)
  PROVE  /\ d \in ClientType /\ d.user = u
         /\ d.alive = c.alive /\ d.begun = c.begun /\ d.game = c.game /\ d.queue = c.queue /\ d.spectator = c.spectator
         /\ d.current = c.current /\ d.told = c.told /\ d.sent = c.sent /\ d.id = c.id
<1>1. PICK e \in ClientType : e = [c EXCEPT !.user = u]
  <2>1. [c EXCEPT !.user = u] \in ClientType
    BY DEF ClientType
  <2> QED BY <2>1
<1>2. /\ e.alive = c.alive /\ e.begun = c.begun /\ e.game = c.game /\ e.queue = c.queue /\ e.spectator = c.spectator
      /\ e.current = c.current /\ e.told = c.told /\ e.sent = c.sent /\ e.id = c.id
  BY <1>1 DEF ClientType
<1>3. e.user = u
  BY <1>1 DEF ClientType
<1>4. d = e
  BY <1>1 DEF WithUser
<1> QED BY <1>2, <1>3, <1>4

(* The login's caller is told, and nobody else. *)
LEMMA LoginTold ==
  ASSUME NEW b, NEW h, NotBegun(b, h), NEW u \in {"none", "requested", "logged_in"}, NEW r \in Results,
         NEW d, d = Tell(WithUser(b, u), OfLogin(1), r)
  PROVE  NotBegun(d, h) /\ d.user = u /\ d.sent = b.sent /\ TellsLogin(b, d, r)
<1>1. PICK e : e = WithUser(b, u)
  OBVIOUS
<1>2. b \in ClientType
  BY DEF NotBegun, Served
<1>3. /\ e \in ClientType /\ e.user = u
      /\ e.alive = b.alive /\ e.begun = b.begun /\ e.game = b.game /\ e.queue = b.queue /\ e.spectator = b.spectator
      /\ e.current = b.current /\ e.told = b.told /\ e.sent = b.sent /\ e.id = b.id
  BY <1>1, <1>2, UserEffect
<1>4. PICK o \in Operations : o = OfLogin(1)
  BY First
<1>5. d = Tell(e, o, r)
  BY <1>1, <1>4
<1>6. e \in ClientType
  BY <1>3
<1>7. /\ d \in ClientType /\ d.told = [e.told EXCEPT ![o] = Append(@, r)]
      /\ d.alive = e.alive /\ d.begun = e.begun /\ d.game = e.game /\ d.queue = e.queue /\ d.spectator = e.spectator
      /\ d.current = e.current /\ d.sent = e.sent /\ d.user = e.user /\ d.id = e.id
  BY <1>5, <1>6, TellEffect
<1>8. TellsLogin(b, d, r)
  <2>1. e.told \in [Operations -> Seq(Results)]
    BY <1>6, Fields
  <2>2. d.told[o] = Append(e.told[o], r) /\ d.told[OfLoad(1)] = e.told[OfLoad(1)]
    BY <1>4, <1>7, <2>1, First
  <2>3. e.told = b.told
    BY <1>3
  <2> QED BY <1>4, <2>2, <2>3 DEF TellsLogin
<1>9. d.told[OfLoad(1)] = b.told[OfLoad(1)]
  BY <1>8 DEF TellsLogin
<1>10. NotBegun(d, h)
  <2>1. /\ d \in ClientType /\ d.alive = b.alive /\ d.begun = b.begun /\ d.game = b.game /\ d.queue = b.queue
        /\ d.spectator = b.spectator /\ d.current = b.current /\ d.id = b.id
    BY <1>3, <1>7
  <2> QED BY <1>9, <2>1 DEF NotBegun, Served, Vacant
<1>11. d.user = u /\ d.sent = b.sent
  BY <1>3, <1>7
<1> QED BY <1>8, <1>10, <1>11

(* The user is logged in, or signed out as before. *)
LEMMA LoginAnswerEffect ==
  ASSUME NEW c, NEW h, LoggingIn(c, h), NEW b, b = Received(c, "login", OfLogin(1)), NEW succeeded \in BOOLEAN,
         NEW d, d = LoginAnswer(b, 1, succeeded)
  PROVE  \/ succeeded /\ LoggedIn(d, h) /\ TellsLogin(c, d, "ok")
         \/ ~succeeded /\ SignedOut(d, h) /\ TellsLogin(c, d, "failed")
<1>1. /\ c \in ClientType /\ c.alive /\ c.spectator = "off" /\ c.current = None /\ c.queue = <<>> /\ c.begun = 0
      /\ c.game = None /\ c.told[OfLoad(1)] = <<>> /\ (h # None => c.id[h] = Unasked) /\ c.user = "requested"
      /\ c.sent = {<<"login", OfLogin(1)>>} /\ c.handle[OfLogin(1)] = "fine"
  BY DEF LoggingIn, NotBegun, Served, Vacant
<1>2. PICK kind : kind = "login"
  OBVIOUS
<1>3. c \in ClientType
  BY <1>1
<1>4. /\ b \in ClientType /\ b.sent = c.sent \ {<<kind, OfLogin(1)>>}
      /\ b.alive = c.alive /\ b.begun = c.begun /\ b.game = c.game /\ b.queue = c.queue /\ b.spectator = c.spectator
      /\ b.current = c.current /\ b.told = c.told /\ b.handle = c.handle /\ b.user = c.user /\ b.id = c.id
  <2>1. b = Received(c, kind, OfLogin(1))
    BY <1>2
  <2> QED BY <1>3, <2>1, ReceivedEffect
<1>5. b.sent = {}
  BY <1>1, <1>2, <1>4
<1>6. NotBegun(b, h)
  BY <1>4 DEF LoggingIn, NotBegun, Served, Vacant
<1>7. PICK r \in Results : r = IF succeeded THEN "ok" ELSE "failed"
  BY DEF Results
<1>8. PICK u \in {"none", "requested", "logged_in"} : u = IF succeeded THEN "logged_in" ELSE "none"
  OBVIOUS
<1>9. d = Tell(WithUser(b, u), OfLogin(1), r)
  <2>1. b.handle[OfLogin(1)] = "fine" /\ b.user = "requested" /\ b.current = None /\ ~AwaitsLogin(b, b.current)
    BY <1>1, <1>4 DEF AwaitsLogin
  <2> QED BY <1>7, <1>8, <2>1 DEF LoginAnswer, WithUser
<1>10. NotBegun(d, h) /\ d.user = u /\ d.sent = b.sent /\ TellsLogin(c, d, r)
  <2>2. PICK x : x = u
    OBVIOUS
  <2>3. d = Tell(WithUser(b, x), OfLogin(1), r)
    BY <1>9, <2>2
  <2>4. x \in {"none", "requested", "logged_in"}
    BY <2>2
  <2>5. NotBegun(d, h) /\ d.user = x /\ d.sent = b.sent /\ TellsLogin(b, d, r)
    BY <1>6, <2>3, <2>4, LoginTold
  <2> QED BY <1>4, <2>2, <2>5 DEF TellsLogin
<1> QED BY <1>5, <1>7, <1>8, <1>10 DEF LoggedIn, SignedOut

-----------------------------------------------------------------------------
(* Beginning the load.                                                     *)

(* Unloading a client without a game changes nothing that matters here. *)
LEMMA UnloadVacant ==
  ASSUME NEW c \in ClientType, c.current = None, c.game = None, c.spectator = "off", NEW d, d = UnloadGame(c)
  PROVE  /\ d \in ClientType /\ d.alive = c.alive /\ d.begun = c.begun /\ d.game = None /\ d.queue = c.queue
         /\ d.spectator = "off" /\ d.current = None /\ d.told = c.told /\ d.sent = c.sent /\ d.id = c.id /\ d.user = c.user
         /\ d.load = c.load /\ d.handle = c.handle
<1>1. PICK f \in Loads \cup {None} : f = None
  OBVIOUS
<1>2. PICK w \in [Operations -> {"unused", "fine", "aborted", "destroyed"}] : w = c.handle
  BY Fields
<1>3. PICK m \in SUBSET Operations : m = c.misused
  BY Fields
<1>4. PICK s \in {"off", "on", "locked"} : s = c.spectator
  BY Fields
<1>5. PICK p \in SUBSET Loads : p = c.pings
  BY Fields
<1>6. d = [c EXCEPT !.game = f, !.current = f, !.handle = w, !.misused = m, !.spectator = s, !.pings = p]
  <2>1. s # "locked"
    BY <1>4
  <2> QED BY <1>1, <1>2, <1>3, <1>4, <1>5, <2>1 DEF UnloadGame
<1>7. PICK e \in ClientType : e = [c EXCEPT !.game = f, !.current = f, !.handle = w, !.misused = m, !.spectator = s, !.pings = p]
  <2>1. [c EXCEPT !.game = f, !.current = f, !.handle = w, !.misused = m, !.spectator = s, !.pings = p] \in ClientType
    BY DEF ClientType
  <2> QED BY <2>1
<1>8. /\ e.alive = c.alive /\ e.begun = c.begun /\ e.game = f /\ e.queue = c.queue
      /\ e.spectator = s /\ e.current = f /\ e.told = c.told /\ e.sent = c.sent /\ e.id = c.id /\ e.user = c.user
      /\ e.load = c.load /\ e.handle = w
  <2>1. c \in ClientType
    OBVIOUS
  <2> QED BY <1>7, <2>1 DEF ClientType
<1>9. d = e
  BY <1>6, <1>7
<1>10. s = "off"
  BY <1>4
<1> QED BY <1>1, <1>2, <1>8, <1>9, <1>10

(* The load's data is asked for. *)
LEMMA BeginLoadGameEffect ==
  ASSUME NEW c, NEW h \in Hashes, LoggedIn(c, h), NEW d, d = BeginLoadGame(c, h)
  PROVE  Identifying(d)
<1>1. /\ c \in ClientType /\ c.alive /\ c.spectator = "off" /\ c.current = None /\ c.queue = <<>> /\ c.begun = 0
      /\ c.game = None /\ c.told[OfLoad(1)] = <<>> /\ c.id[h] = Unasked /\ c.user = "logged_in" /\ c.sent = {}
  BY LoadAssumption DEF LoggedIn, NotBegun, Served, Vacant
<1>2. PICK b : b = UnloadGame(c)
  OBVIOUS
<1>3. /\ b \in ClientType /\ b.alive = c.alive /\ b.begun = c.begun /\ b.game = None /\ b.queue = c.queue
      /\ b.spectator = "off" /\ b.current = None /\ b.told = c.told /\ b.sent = c.sent /\ b.id = c.id /\ b.user = c.user
  BY <1>1, <1>2, UnloadVacant
<1>4. PICK w \in [Operations -> {"unused", "fine", "aborted", "destroyed"}] : w = [b.handle EXCEPT ![OfLoad(1)] = "fine"]
  BY <1>3, Fields
<1>40. w[OfLoad(1)] = "fine"
  BY <1>3, <1>4, First, Fields
<1>5. PICK v \in LoadType : v = [BlankLoad EXCEPT !.memory = "live", !.hash = h, !.game = "blank"]
  <2>1. [BlankLoad EXCEPT !.memory = "live", !.hash = h, !.game = "blank"] \in LoadType
    BY BlankFacts DEF LoadType
  <2> QED BY <2>1
<1>6. v.memory = "live" /\ v.callback /\ v.media = None /\ v.outstanding = 0
  BY <1>5, BlankFacts DEF LoadType
<1>7. PICK loads \in [Loads -> LoadType] : loads = [b.load EXCEPT ![1] = v]
  BY <1>3, Fields
<1>8. loads[1] = v
  BY <1>3, <1>7, First, Fields
<1>9. PICK n \in 0..MaxLoads : n = 1
  BY First DEF Loads
<1>10. PICK l \in Loads \cup {None} : l = 1
  BY First
<1>11. PICK e \in ClientType : e = [b EXCEPT !.begun = n, !.current = l, !.handle = w, !.load = loads]
  <2>1. [b EXCEPT !.begun = n, !.current = l, !.handle = w, !.load = loads] \in ClientType
    BY <1>3 DEF ClientType
  <2> QED BY <2>1
<1>12. /\ e.alive = b.alive /\ e.spectator = b.spectator /\ e.current = l /\ e.queue = b.queue /\ e.begun = n
       /\ e.game = b.game /\ e.told = b.told /\ e.id = b.id /\ e.user = b.user /\ e.sent = b.sent /\ e.handle = w
       /\ e.load = loads
  <2>1. b \in ClientType
    BY <1>3
  <2> QED BY <1>11, <2>1 DEF ClientType
<1>13. d = BeginFetchGameSets(e, 1)
  <2>1. e = [b EXCEPT !.begun = 1, !.current = 1, !.handle[OfLoad(1)] = "fine",
                      !.load[1] = [BlankLoad EXCEPT !.memory = "live", !.hash = h, !.game = "blank"]]
    BY <1>4, <1>5, <1>7, <1>9, <1>10, <1>11
  <2>2. c.begun + 1 = 1 /\ c.id[h] # None
    BY <1>1, LoadAssumption
  <2>3. AbortLoadInProgress(c) = c
    BY <1>1 DEF AbortLoadInProgress
  <2> QED BY <1>2, <2>1, <2>2, <2>3 DEF BeginLoadGame
<1>14. PICK kind \in {"sets", "session"} : kind = "sets"
  OBVIOUS
<1>15. PICK progress \in {"identifying", "starting"} : progress = "identifying"
  OBVIOUS
<1>16. d = Asking(e, 1, progress, kind)
  BY <1>1, <1>3, <1>12, <1>13, <1>14, <1>15 DEF BeginFetchGameSets, Asking
<1>17. e.alive /\ e.handle[OfLoad(1)] # "destroyed"
  BY <1>1, <1>3, <1>40, <1>12
<1>18. /\ Aside(e, d, 1) /\ d.current = e.current /\ d.told = e.told /\ d.spectator = e.spectator
       /\ d.load[1].outstanding = e.load[1].outstanding + 1 /\ d.load[1].memory = e.load[1].memory
       /\ d.load[1].callback = e.load[1].callback /\ d.load[1].media = e.load[1].media
       /\ d.sent = e.sent \cup {<<kind, OfLoad(1)>>} /\ d.handle[OfLoad(1)] = "fine"
  BY <1>16, <1>17, First, AskingEffect
<1>19. d \in ClientType /\ d.alive /\ d.begun = 1 /\ d.user = "logged_in" /\ d.queue = <<>> /\ d.game = None
  BY <1>1, <1>3, <1>9, <1>12, <1>18 DEF Aside, Beside
<1>20. d.load[1].memory = "live" /\ d.load[1].callback /\ d.load[1].media = None /\ d.load[1].outstanding = 1
  BY <1>6, <1>8, <1>12, <1>18
<1>21. d.sent = {<<"sets", OfLoad(1)>>}
  BY <1>1, <1>3, <1>12, <1>14, <1>18
<1>22. d.current = 1 /\ d.told[OfLoad(1)] = <<>> /\ d.spectator = "off"
  BY <1>1, <1>3, <1>10, <1>12, <1>18
<1> QED BY <1>18, <1>19, <1>20, <1>21, <1>22 DEF Identifying, Awaited, Begins, Served, Asks

-----------------------------------------------------------------------------
(* Steps of the load.                                                      *)

(* A step of the load leaves alone what d has in common with c here. *)
Along(c, d) ==
  /\ d \in ClientType /\ d.alive = c.alive /\ d.spectator = c.spectator /\ d.begun = c.begun /\ d.user = c.user
  /\ d.queue = c.queue /\ d.told[OfLogin(1)] = c.told[OfLogin(1)]

(* What concerns one load is such a step. *)
LEMMA BesideIsAlong ==
  ASSUME NEW c, NEW d, Beside(c, d, 1), d.spectator = c.spectator, d.alive = c.alive
  PROVE  Along(c, d)
BY First DEF Beside, Along

(* So is what leaves the game alone. *)
LEMMA AsideIsAlong ==
  ASSUME NEW c, NEW d, Aside(c, d, 1), d.spectator = c.spectator
  PROVE  Along(c, d) /\ d.game = c.game
BY BesideIsAlong DEF Aside

(* Such steps make one. *)
LEMMA AlongThrough ==
  ASSUME NEW c, NEW d, NEW e, Along(c, d), Along(d, e)
  PROVE  Along(c, e)
BY DEF Along

(* The load is in front, and nothing is asked of the server for it. *)
Idles(c) ==
  /\ Begins(c) /\ c.current = 1 /\ c.queue = <<>> /\ c.sent = {}
  /\ c.load[1].memory = "live" /\ c.load[1].callback /\ c.load[1].outstanding = 0 /\ c.handle[OfLoad(1)] # "destroyed"

(* It goes on doing so. *)
LEMMA BeginsAlong ==
  ASSUME NEW c, NEW d, Begins(c), Along(c, d)
  PROVE  Begins(d)
BY DEF Begins, Served, Along

(* An answer ends what was asked. *)
LEMMA AnswerEnds ==
  ASSUME NEW c, Awaited(c), c.queue = <<>>, NEW kind, Asks(c, kind), NEW b, b = Received(c, kind, OfLoad(1)),
         NEW e, e = EndLoadState(b, 1)
  PROVE  /\ Idles(e) /\ e.game = None /\ e.load[1].media = None /\ Silent(c, e)
         /\ b.handle[OfLoad(1)] = "fine" /\ b.current = 1 /\ b.load[1].outstanding = 1
<1>1. c \in ClientType
  BY DEF Awaited, Begins, Served
<1>2. /\ b \in ClientType /\ b.sent = c.sent \ {<<kind, OfLoad(1)>>}
      /\ b.alive = c.alive /\ b.begun = c.begun /\ b.game = c.game /\ b.queue = c.queue /\ b.spectator = c.spectator
      /\ b.current = c.current /\ b.told = c.told /\ b.handle = c.handle /\ b.user = c.user /\ b.load = c.load
  BY <1>1, ReceivedEffect
<1>3. Along(c, b)
  BY <1>2 DEF Along
<1>4. b.sent = {}
  BY <1>2 DEF Asks
<1>5. b.handle[OfLoad(1)] = "fine" /\ b.load[1].outstanding = 1
  BY <1>2 DEF Asks
<1>6. b.current = 1 /\ b.load[1].memory = "live" /\ b.load[1].callback /\ b.load[1].media = None /\ b.game = None
  BY <1>2 DEF Awaited
<1>7. ~Freed(b, 1) /\ b \in ClientType
  BY <1>2, <1>6 DEF Freed
<1>8. /\ Aside(b, e, 1) /\ e.told = b.told /\ e.sent = b.sent /\ e.handle = b.handle /\ e.current = b.current /\ e.spectator = b.spectator
      /\ e.load[1].outstanding = OneFewer(b.load[1].outstanding) /\ e.load[1].memory = b.load[1].memory
      /\ e.load[1].callback = b.load[1].callback
  BY <1>6, <1>7, First, EndLoadStateEffect
<1>9. Along(b, e) /\ e.game = None
  BY <1>6, <1>8, AsideIsAlong
<1>10. e.load[1].media = None
  BY <1>6, <1>8 DEF Aside, Beside
<1>11. e.load[1].outstanding = 0
  BY <1>5, <1>8 DEF OneFewer
<1>12. Begins(e)
  BY <1>3, <1>9, AlongThrough, BeginsAlong DEF Awaited
<1>13. e.queue = <<>>
  BY <1>2, <1>9 DEF Along
<1>14. Silent(c, e)
  BY <1>2, <1>8 DEF Silent
<1>15. e.handle[OfLoad(1)] # "destroyed"
  BY <1>5, <1>8
<1> QED BY <1>4, <1>5, <1>6, <1>8, <1>9, <1>10, <1>11, <1>12, <1>13, <1>14, <1>15 DEF Idles

(* The load fails, and its caller is told. *)
LEMMA LoadFails ==
  ASSUME NEW c, Idles(c), NEW r \in Results, NEW d, d = LoadError(c, 1, r)
  PROVE  Failed(d) /\ TellsLoad(c, d, r)
<1>1. c \in ClientType /\ c.current = 1 /\ ~Freed(c, 1)
  BY DEF Idles, Begins, Served, Freed
<1>2. c.load[1] \in LoadType
  BY <1>1, First, Fields
<1>3. PICK e : e = Detached(c, 1)
  OBVIOUS
<1>4. /\ Aside(c, e, 1) /\ e.load[1] = [c.load[1] EXCEPT !.progress = "aborted"] /\ e.current # 1
      /\ e.told = c.told /\ e.sent = c.sent /\ e.spectator = c.spectator
  <2>1. c \in ClientType
    BY <1>1
  <2> QED BY <1>3, <2>1, First, DetachedEffect
<1>5. e.current = None /\ e \in ClientType
  BY <1>1, <1>4 DEF Aside, Beside
<1>6. e.load[1].callback = c.load[1].callback
  BY <1>2, <1>4 DEF LoadType
<1>7. PICK f : f = TellLoad(e, 1, r)
  OBVIOUS
<1>8. /\ Aside(e, f, 1) /\ f.current = e.current /\ f.sent = e.sent /\ f.spectator = e.spectator
      /\ f.told[OfLoad(1)] = IF e.load[1].callback THEN Append(e.told[OfLoad(1)], r) ELSE e.told[OfLoad(1)]
  <2>1. e \in ClientType
    BY <1>5
  <2> QED BY <1>7, <2>1, First, TellLoadEffect
<1>9. PICK v \in LoadType : v = [BlankLoad EXCEPT !.memory = "freed"] /\ v.media = None
  <2>1. [BlankLoad EXCEPT !.memory = "freed"] \in LoadType /\ [BlankLoad EXCEPT !.memory = "freed"].media = None
    BY BlankFacts DEF LoadType
  <2> QED BY <2>1
<1>10. d = WithLoad(f, 1, v)
  <2>1. ~Freed(f, 1)
    <3>1. f.load = e.load
      BY <1>5, <1>7, First, TellLoadEffect
    <3>2. e.load[1].memory = c.load[1].memory
      BY <1>2, <1>4 DEF LoadType
    <3> QED BY <1>1, <3>1, <3>2 DEF Freed
  <2>2. c.load[1].outstanding = 0
    BY DEF Idles
  <2>3. d = FreeLoadState(f, 1)
    BY <1>1, <1>3, <1>7, <2>2 DEF LoadError, Detached
  <2> QED BY <1>9, <2>1, <2>3 DEF FreeLoadState, WithLoad
<1>11. /\ Aside(f, d, 1) /\ d.told = f.told /\ d.sent = f.sent /\ d.current = f.current /\ d.spectator = f.spectator
  <2>1. f \in ClientType
    BY <1>8 DEF Aside, Beside
  <2>2. v.media \in {f.load[1].media, None}
    BY <1>9
  <2> QED BY <1>10, <2>1, <2>2, First, WithLoadEffect
<1>12. Along(c, d)
  BY <1>4, <1>8, <1>11, AsideIsAlong, AlongThrough
<1>13. Begins(d) /\ d.queue = <<>>
  BY <1>12, BeginsAlong DEF Idles, Along
<1>14. d.current = None /\ d.sent = {}
  BY <1>4, <1>5, <1>8, <1>11 DEF Idles
<1>15. Failed(d)
  BY <1>13, <1>14 DEF Failed, Vacant
<1>16. d.told[OfLoad(1)] = Append(c.told[OfLoad(1)], r)
  <2>1. c.load[1].callback
    BY DEF Idles
  <2> QED BY <1>4, <1>6, <1>8, <1>11, <2>1
<1> QED BY <1>12, <1>15, <1>16 DEF TellsLoad, Along

-----------------------------------------------------------------------------
(* The answer with the game's sets.                                        *)

(* Nobody knows the hash: the game is one without achievements. *)
LEMMA UnknownGameEffect ==
  ASSUME NEW c, Idles(c), NEW h, NEW k, k = [c EXCEPT !.id[h] = None], NEW d, d = UnknownGame(k, 1)
  PROVE  Failed(d) /\ TellsLoad(c, d, "no_game")
<1>1. c \in ClientType
  BY DEF Idles, Begins, Served
<1>2. PICK i \in [Hashes -> Games \cup {None, Unasked}] : i = [c.id EXCEPT ![h] = None]
  BY <1>1, Fields
<1>3. PICK e \in ClientType : e = [c EXCEPT !.id = i]
  <2>1. [c EXCEPT !.id = i] \in ClientType
    BY <1>1 DEF ClientType
  <2> QED BY <2>1
<1>4. k = e
  BY <1>2, <1>3
<1>5. /\ e.alive = c.alive /\ e.spectator = c.spectator /\ e.begun = c.begun /\ e.user = c.user /\ e.queue = c.queue
      /\ e.told = c.told /\ e.current = c.current /\ e.load = c.load /\ e.sent = c.sent /\ e.handle = c.handle
  BY <1>1, <1>3 DEF ClientType
<1>6. PICK w \in [Loads -> GameType] : w = [e.info EXCEPT ![1] = [BlankGame EXCEPT !.hash = e.load[1].hash]]
  <2>1. e.load[1] \in LoadType /\ e.info \in [Loads -> GameType]
    BY <1>3, First, Fields
  <2>2. e.load[1].hash \in Hashes \cup {None}
    BY <2>1 DEF LoadType
  <2>3. [BlankGame EXCEPT !.hash = e.load[1].hash] \in GameType
    BY <2>2 DEF BlankGame, GameType
  <2> QED BY <2>1, <2>3
<1>7. PICK v \in LoadType : v = [e.load[1] EXCEPT !.game = "none"] /\ v.memory = e.load[1].memory
                            /\ v.callback = e.load[1].callback /\ v.outstanding = e.load[1].outstanding
  <2>1. e.load[1] \in LoadType
    BY <1>3, First, Fields
  <2>2. PICK v \in LoadType : v = [e.load[1] EXCEPT !.game = "none"]
    <3>1. [e.load[1] EXCEPT !.game = "none"] \in LoadType
      BY <2>1 DEF LoadType
    <3> QED BY <3>1
  <2>3. v.memory = e.load[1].memory /\ v.callback = e.load[1].callback /\ v.outstanding = e.load[1].outstanding
    BY <2>1, <2>2 DEF LoadType
  <2> QED BY <2>2, <2>3
<1>8. PICK loads \in [Loads -> LoadType] : loads = [e.load EXCEPT ![1] = v]
  BY <1>3, Fields
<1>9. loads[1] = v
  BY <1>3, <1>8, First, Fields
<1>10. PICK g \in Loads \cup {None} : g = 1
  BY First
<1>11. PICK f \in ClientType : f = [e EXCEPT !.info = w, !.game = g, !.load = loads]
  <2>1. [e EXCEPT !.info = w, !.game = g, !.load = loads] \in ClientType
    BY <1>3 DEF ClientType
  <2> QED BY <2>1
<1>12. /\ f.alive = e.alive /\ f.spectator = e.spectator /\ f.begun = e.begun /\ f.user = e.user /\ f.queue = e.queue
       /\ f.told = e.told /\ f.current = e.current /\ f.load = loads /\ f.sent = e.sent /\ f.handle = e.handle
  BY <1>3, <1>11 DEF ClientType
<1>13. PICK r \in Results : r = "no_game"
  BY DEF Results
<1>14. d = LoadError(f, 1, r)
  <2>1. f = [e EXCEPT !.info[1] = [BlankGame EXCEPT !.hash = e.load[1].hash], !.game = 1, !.load[1].game = "none"]
    BY <1>6, <1>7, <1>8, <1>10, <1>11
  <2>2. d = UnknownGame(e, 1)
    BY <1>4
  <2>3. d = LoadError(f, 1, "no_game")
    BY <2>1, <2>2 DEF UnknownGame
  <2> QED BY <1>13, <2>3
<1>15. Begins(f)
  BY <1>5, <1>12 DEF Idles, Begins, Served
<1>16. Idles(f)
  <2>1. f.load[1].memory = c.load[1].memory /\ f.load[1].callback = c.load[1].callback
        /\ f.load[1].outstanding = c.load[1].outstanding
    BY <1>5, <1>7, <1>9, <1>12
  <2> QED BY <1>5, <1>12, <1>15, <2>1 DEF Idles
<1>17. Failed(d) /\ TellsLoad(f, d, r)
  BY <1>14, <1>16, LoadFails
<1>18. f.told = c.told
  BY <1>5, <1>12
<1> QED BY <1>13, <1>17, <1>18 DEF TellsLoad

(* The game is described, and its session asked for. *)
SessionSent(c, h, g, empty) == BeginStartSession(BeginLoadState(Described(c, 1, h, g, empty), 1, "starting", 1), 1)
Expects(c) ==
  /\ Begins(c) /\ c.current = 1 /\ c.game = None /\ c.queue = <<>>
  /\ c.load[1].memory = "live" /\ c.load[1].callback /\ c.load[1].media = None /\ c.load[1].outstanding = 2
  /\ c.sent = {<<"session", OfLoad(1)>>} /\ c.handle[OfLoad(1)] = "fine"
LEMMA SessionAskedFor ==
  ASSUME NEW c, Idles(c), c.game = None, c.load[1].media = None, NEW h \in Hashes \cup {None}, NEW g \in Games,
         NEW empty \in BOOLEAN, NEW e, e = SessionSent(c, h, g, empty)
  PROVE  Expects(e) /\ Silent(c, e)
<1>1. c \in ClientType /\ c.alive /\ c.current = 1 /\ c.sent = {} /\ c.spectator = "off" /\ c.queue = <<>>
  BY DEF Idles, Begins, Served
<1>2. c.load[1].memory = "live" /\ c.load[1].callback /\ c.load[1].outstanding = 0
  BY DEF Idles
<1>3. PICK a : a = Described(c, 1, h, g, empty)
  OBVIOUS
<1>4. /\ Aside(c, a, 1) /\ a.load = c.load /\ a.told = c.told /\ a.sent = c.sent /\ a.handle = c.handle
      /\ a.current = c.current /\ a.spectator = c.spectator
  <2>1. c \in ClientType /\ c.game # 1
    BY <1>1, First
  <2> QED BY <1>3, <2>1, First, DescribedEffect
<1>5. PICK b : b = BeginLoadState(a, 1, "starting", 1)
  OBVIOUS
<1>6. a \in ClientType
  BY <1>4 DEF Aside, Beside
<1>7. /\ Aside(a, b, 1) /\ b.told = a.told /\ b.sent = a.sent /\ b.handle = a.handle
      /\ b.current = a.current /\ b.spectator = a.spectator
      /\ b.load[1].outstanding = a.load[1].outstanding + 1 /\ b.load[1].memory = a.load[1].memory
      /\ b.load[1].callback = a.load[1].callback
  BY <1>5, <1>6, First, BeginLoadStateEffect
<1>8. Along(c, b) /\ b.game = None
  BY <1>4, <1>7, AsideIsAlong, AlongThrough
<1>9. b \in ClientType /\ b.alive
  BY <1>1, <1>8 DEF Along
<1>10. PICK kind \in {"sets", "session"} : kind = "session"
  OBVIOUS
<1>11. PICK progress \in {"identifying", "starting"} : progress = "starting"
  OBVIOUS
<1>12. e = Asking(b, 1, progress, kind)
  BY <1>3, <1>5, <1>10, <1>11 DEF SessionSent, BeginStartSession, Asking
<1>13. b.handle[OfLoad(1)] # "destroyed"
  <2>1. c.handle[OfLoad(1)] # "destroyed"
    BY DEF Idles
  <2> QED BY <1>4, <1>7, <2>1
<1>14. /\ Aside(b, e, 1) /\ e.current = b.current /\ e.told = b.told /\ e.spectator = b.spectator
       /\ e.load[1].outstanding = b.load[1].outstanding + 1 /\ e.load[1].memory = b.load[1].memory
       /\ e.load[1].callback = b.load[1].callback /\ e.load[1].media = b.load[1].media
       /\ e.sent = b.sent \cup {<<kind, OfLoad(1)>>} /\ e.handle[OfLoad(1)] = "fine"
  <2>1. b \in ClientType
    BY <1>9
  <2> QED BY <1>9, <1>12, <1>13, <2>1, First, AskingEffect
<1>15. Along(c, e) /\ e.game = None
  BY <1>8, <1>14, AsideIsAlong, AlongThrough
<1>16. Begins(e) /\ e.queue = <<>>
  BY <1>1, <1>15, BeginsAlong DEF Idles, Along
<1>17. e.load[1].outstanding = 2
  BY <1>2, <1>4, <1>7, <1>14
<1>18. e.load[1].memory = "live" /\ e.load[1].callback /\ e.load[1].media = None
  <2>1. b.load[1].media \in {a.load[1].media, None}
    BY <1>7 DEF Aside, Beside
  <2>2. e.load[1].media = None
    BY <1>4, <1>14, <2>1
  <2>3. e.load[1].memory = "live"
    BY <1>2, <1>4, <1>7, <1>14
  <2>4. e.load[1].callback = c.load[1].callback
    BY <1>4, <1>7, <1>14
  <2>5. e.load[1].callback
    BY <1>2, <2>4
  <2> QED BY <2>2, <2>3, <2>5
<1>19. e.sent = {<<"session", OfLoad(1)>>}
  BY <1>1, <1>4, <1>7, <1>10, <1>14
<1> QED BY <1>1, <1>4, <1>7, <1>14, <1>15, <1>16, <1>17, <1>18, <1>19 DEF Silent, Expects

(* A game's sets: its session is asked for, or, when there are none, the   *)
(* load fails with its session asked for.                                  *)
Fetched(c, d, empty) ==
  /\ empty => Emptied(d) /\ TellsLoad(c, d, "not_found")
  /\ ~empty => Starting(d) /\ Silent(c, d)
LEMMA SetsOfEffect ==
  ASSUME NEW c, Idles(c), c.game = None, c.load[1].media = None, c.told[OfLoad(1)] = <<>>, NEW g \in Games,
         NEW empty \in BOOLEAN, NEW d, d = SetsOf(c, 1, g, empty)
  PROVE  Fetched(c, d, empty)
<1>1. c \in ClientType /\ c.spectator = "off"
  BY DEF Idles, Begins, Served
<1>2. PICK h \in Hashes \cup {None} : h = c.load[1].hash
  <2>1. c.load[1] \in LoadType
    BY <1>1, First, Fields
  <2> QED BY <2>1 DEF LoadType
<1>3. PICK e : e = SessionSent(c, h, g, empty)
  OBVIOUS
<1>a. Expects(e) /\ Silent(c, e)
  BY <1>3, SessionAskedFor
<1>4. /\ Begins(e) /\ e.current = 1 /\ e.game = None /\ e.queue = <<>> /\ Silent(c, e)
      /\ e.load[1].memory = "live" /\ e.load[1].callback /\ e.load[1].media = None /\ e.load[1].outstanding = 2
      /\ e.sent = {<<"session", OfLoad(1)>>} /\ e.handle[OfLoad(1)] = "fine"
  BY <1>a DEF Expects
<1> DEFINE known == [c EXCEPT !.id[h] = g, !.info[1] = [id |-> g, hash |-> h, session |-> FALSE],
                              !.odd = IF empty THEN @ \cup {"empty"} ELSE @]
           began == BeginLoadState(known, 1, "starting", 1)
           asked == IF c.spectator = "off" THEN BeginStartSession(began, 1) ELSE [began EXCEPT !.spectator = "locked"]
           filled == IF empty THEN LoadError(asked, 1, "not_found") ELSE [asked EXCEPT !.load[1].game = "filled"]
           ended == EndLoadState(filled, 1)
<1>5. d = IF LastAnswer(filled, 1) THEN ActivateOrQueue(ended, 1, FALSE) ELSE ended
  BY <1>2, SMTT(30) DEF SetsOf
<1>b. asked = e
  BY <1>1, <1>3 DEF SessionSent, Described
<1>c. filled = IF empty THEN LoadError(asked, 1, "not_found") ELSE Filled(asked, 1)
  BY DEF Filled
<1>d. ended = EndLoadState(filled, 1)
  OBVIOUS
<1> HIDE DEF known, began, asked, filled, ended
<1>6. PICK f : f = filled
  OBVIOUS
<1>7. PICK k : k = ended
  OBVIOUS
<1>e. /\ f = IF empty THEN LoadError(e, 1, "not_found") ELSE Filled(e, 1)
      /\ k = EndLoadState(f, 1)
      /\ d = IF LastAnswer(f, 1) THEN ActivateOrQueue(k, 1, FALSE) ELSE k
  BY <1>5, <1>6, <1>7, <1>b, <1>c, <1>d
<1>8. e \in ClientType /\ ~Freed(e, 1) /\ e.load[1].outstanding # 0
  BY <1>4 DEF Begins, Served, Freed
<1>9. CASE empty
  <2>1. PICK r \in Results : r = "not_found"
    BY DEF Results
  <2>2. f = LoadError(e, 1, r)
    BY <1>e, <1>9, <2>1
  <2>3. /\ Aside(e, f, 1) /\ f.current # 1 /\ f.sent = e.sent /\ f.handle = e.handle /\ f.spectator = e.spectator
        /\ f.told[OfLoad(1)] = IF e.load[1].callback THEN Append(e.told[OfLoad(1)], r) ELSE e.told[OfLoad(1)]
        /\ f.load[1].outstanding = e.load[1].outstanding /\ f.load[1].memory = e.load[1].memory
        /\ f.load[1].progress = "aborted"
    BY <1>8, <2>2, First, LoadErrorEffect
  <2>4. f.current = None /\ f \in ClientType
    BY <1>4, <2>3 DEF Aside, Beside
  <2>5. f.load[1].outstanding = 2 /\ ~Freed(f, 1)
    BY <1>4, <2>3 DEF Freed
  <2>6. /\ Aside(f, k, 1) /\ k.told = f.told /\ k.sent = f.sent /\ k.handle = f.handle /\ k.current = f.current
        /\ k.spectator = f.spectator
        /\ k.load[1].outstanding = OneFewer(f.load[1].outstanding) /\ k.load[1].memory = f.load[1].memory
        /\ k.load[1].progress = f.load[1].progress
    <3>1. f \in ClientType /\ ~Freed(f, 1) /\ f.load[1].outstanding > 1
      BY <2>4, <2>5
    <3> QED BY <1>e, <3>1, First, EndLoadStateEffect
  <2>7. Along(e, k)
    BY <2>3, <2>6, AsideIsAlong, AlongThrough
  <2>8. d = k
    BY <1>e, <2>3 DEF LastAnswer, Overtaken
  <2>9. Begins(k) /\ k.queue = <<>>
    BY <1>4, <2>7, BeginsAlong DEF Along
  <2>10. k.load[1].outstanding = 1 /\ k.load[1].memory = "live" /\ k.load[1].progress = "aborted"
    BY <1>4, <2>3, <2>5, <2>6 DEF OneFewer
  <2>11. k.current = None /\ k.sent = {<<"session", OfLoad(1)>>} /\ k.handle[OfLoad(1)] = "fine"
    BY <1>4, <2>3, <2>4, <2>6
  <2>12. Emptied(k)
    BY <2>9, <2>10, <2>11 DEF Emptied, Vacant, Asks
  <2>13. k.told[OfLoad(1)] = Append(e.told[OfLoad(1)], r)
    <3>1. e.load[1].callback
      BY <1>4
    <3> QED BY <2>3, <2>6, <3>1
  <2>14. TellsLoad(c, k, r)
    BY <1>4, <2>7, <2>13 DEF TellsLoad, Silent, Along
  <2> QED BY <1>9, <2>1, <2>8, <2>12, <2>14 DEF Fetched
<1>10. CASE ~empty
  <2>1. f = Filled(e, 1)
    BY <1>e, <1>10
  <2>2. /\ Aside(e, f, 1) /\ f.told = e.told /\ f.sent = e.sent /\ f.handle = e.handle /\ f.current = e.current
        /\ f.spectator = e.spectator
        /\ f.load[1].outstanding = e.load[1].outstanding /\ f.load[1].memory = e.load[1].memory
        /\ f.load[1].callback = e.load[1].callback
    BY <1>8, <2>1, First, FilledEffect
  <2>3. f.load[1].outstanding = 2 /\ ~Freed(f, 1) /\ f \in ClientType
    BY <1>4, <2>2 DEF Freed, Aside, Beside
  <2>4. /\ Aside(f, k, 1) /\ k.told = f.told /\ k.sent = f.sent /\ k.handle = f.handle /\ k.current = f.current
        /\ k.spectator = f.spectator
        /\ k.load[1].outstanding = OneFewer(f.load[1].outstanding) /\ k.load[1].memory = f.load[1].memory
        /\ k.load[1].callback = f.load[1].callback
    <3>1. f \in ClientType /\ ~Freed(f, 1) /\ f.load[1].outstanding > 1
      BY <2>3
    <3> QED BY <1>e, <3>1, First, EndLoadStateEffect
  <2>5. Along(e, k) /\ k.game = None
    BY <1>4, <2>2, <2>4, AsideIsAlong, AlongThrough
  <2>6. d = k
    <3>1. f.load[1].outstanding = 2
      BY <2>3
    <3>2. ~LastAnswer(f, 1)
      BY <3>1 DEF LastAnswer
    <3> QED BY <1>e, <3>2
  <2>7. Begins(k) /\ k.queue = <<>>
    BY <1>4, <2>5, BeginsAlong DEF Along
  <2>8. k.load[1].outstanding = 1 /\ k.load[1].memory = "live"
    BY <1>4, <2>2, <2>3, <2>4 DEF OneFewer
  <2>9. k.load[1].callback
    <3>1. e.load[1].callback
      BY <1>4
    <3> QED BY <2>2, <2>4, <3>1
  <2>10. k.load[1].media = None
    <3>1. f.load[1].media \in {e.load[1].media, None} /\ k.load[1].media \in {f.load[1].media, None}
      BY <2>2, <2>4 DEF Aside, Beside
    <3>2. e.load[1].media = None
      BY <1>4
    <3> QED BY <3>1, <3>2
  <2>11. k.current = 1 /\ k.sent = {<<"session", OfLoad(1)>>} /\ k.handle[OfLoad(1)] = "fine"
    BY <1>4, <2>2, <2>4
  <2>12. Silent(c, k)
    BY <1>4, <2>2, <2>4 DEF Silent
  <2>13. k.told[OfLoad(1)] = c.told[OfLoad(1)]
    BY <2>12 DEF Silent
  <2> QED BY <1>10, <2>5, <2>6, <2>7, <2>8, <2>9, <2>10, <2>11, <2>12, <2>13 DEF Fetched, Starting, Awaited, Asks
<1> QED BY <1>9, <1>10

(* The answer to what Identifying asks. *)
LEMMA SetsAnswerEffect ==
  ASSUME NEW c, Identifying(c), NEW a \in SetsAnswers, NEW b, b = Received(c, "sets", OfLoad(1)),
         NEW d, d = SetsAnswer(b, 1, a)
  PROVE  \/ a.is = "failed" /\ Failed(d) /\ TellsLoad(c, d, "failed")
         \/ a.is = "unknown" /\ Failed(d) /\ TellsLoad(c, d, "no_game")
         \/ a.is = "empty" /\ Emptied(d) /\ TellsLoad(c, d, "not_found")
         \/ a.is = "game" /\ Starting(d) /\ Silent(c, d)
<1>1. PICK kind : kind = "sets"
  OBVIOUS
<1>2. Awaited(c) /\ c.queue = <<>> /\ Asks(c, kind) /\ b = Received(c, kind, OfLoad(1))
  BY <1>1 DEF Identifying
<1>3. PICK e : e = EndLoadState(b, 1)
  OBVIOUS
<1>4. /\ Idles(e) /\ e.game = None /\ e.load[1].media = None /\ Silent(c, e)
      /\ b.handle[OfLoad(1)] = "fine" /\ b.current = 1 /\ b.load[1].outstanding = 1
  BY <1>2, <1>3, AnswerEnds
<1>10. e.told[OfLoad(1)] = <<>>
  BY <1>2, <1>4 DEF Awaited, Silent
<1>5. CASE a.is = "failed"
  <2>1. PICK r \in Results : r = "failed"
    BY DEF Results
  <2>2. d = LoadError(e, 1, r)
    BY <1>3, <1>4, <1>5, <2>1 DEF SetsAnswer
  <2>3. Failed(d) /\ TellsLoad(e, d, r)
    BY <1>4, <2>2, LoadFails
  <2>4. TellsLoad(c, d, r)
    BY <1>4, <2>3 DEF TellsLoad, Silent
  <2> QED BY <1>5, <2>1, <2>3, <2>4
<1>6. CASE a.is = "unknown"
  <2>1. d = UnknownGame([e EXCEPT !.id[b.load[1].hash] = None], 1)
    BY <1>3, <1>4, <1>6 DEF SetsAnswer, Overtaken
  <2>2. PICK k : k = [e EXCEPT !.id[b.load[1].hash] = None]
    OBVIOUS
  <2>3. PICK h : h = b.load[1].hash
    OBVIOUS
  <2>4. PICK r : r = "no_game"
    OBVIOUS
  <2>5. Failed(d) /\ TellsLoad(e, d, r)
    <3>1. k = [e EXCEPT !.id[h] = None] /\ d = UnknownGame(k, 1)
      BY <2>1, <2>2, <2>3
    <3>2. Idles(e)
      BY <1>4
    <3> QED BY <2>4, <3>1, <3>2, UnknownGameEffect
  <2>6. TellsLoad(c, d, r)
    BY <1>4, <2>5 DEF TellsLoad, Silent
  <2> QED BY <1>6, <2>4, <2>5, <2>6
<1>7. CASE a.is \in {"game", "empty"}
  <2>1. PICK empty \in BOOLEAN : empty <=> a.is = "empty"
    OBVIOUS
  <2>2. PICK g \in Games : g = a.game
    BY <1>7 DEF SetsAnswers
  <2>3. PICK h \in Hashes \cup {None} : h = e.load[1].hash
    <3>1. e \in ClientType
      BY <1>4 DEF Idles, Begins, Served
    <3>2. e.load[1] \in LoadType
      BY <3>1, First, Fields
    <3> QED BY <3>2 DEF LoadType
  <2>4. d = SetsOf(e, 1, g, empty)
    BY <1>3, <1>4, <1>7, <2>1, <2>2 DEF SetsAnswer, Overtaken
  <2>5. Fetched(e, d, empty)
    BY <1>4, <1>10, <2>4, SetsOfEffect
  <2>6. CASE empty
    <3>1. Emptied(d) /\ TellsLoad(e, d, "not_found")
      BY <2>5, <2>6 DEF Fetched
    <3>2. TellsLoad(c, d, "not_found")
      BY <1>4, <3>1 DEF TellsLoad, Silent
    <3> QED BY <2>1, <2>6, <3>1, <3>2
  <2>7. CASE ~empty
    <3>1. Starting(d) /\ Silent(e, d)
      BY <2>5, <2>7 DEF Fetched
    <3>2. Silent(c, d)
      BY <1>4, <3>1 DEF Silent
    <3> QED BY <1>7, <2>1, <2>7, <3>1, <3>2
  <2> QED BY <2>6, <2>7
<1>8. a.is \in {"failed", "unknown", "game", "empty"}
  BY DEF SetsAnswers
<1> QED BY <1>5, <1>6, <1>7, <1>8

-----------------------------------------------------------------------------
(* Activating the game.                                                    *)

(* The load may be activated. *)
Ready(c) == Awaited(c) /\ c.queue = <<>> /\ c.sent = {}

(* Its memory goes, and nothing else. *)
LEMMA FreedEffect ==
  ASSUME NEW c \in ClientType, ~Freed(c, 1), NEW d, d = FreeLoadState(c, 1)
  PROVE  /\ Aside(c, d, 1) /\ d.told = c.told /\ d.sent = c.sent /\ d.current = c.current /\ d.spectator = c.spectator
<1>1. PICK v \in LoadType : v = [BlankLoad EXCEPT !.memory = "freed"] /\ v.media = None
  <2>1. [BlankLoad EXCEPT !.memory = "freed"] \in LoadType /\ [BlankLoad EXCEPT !.memory = "freed"].media = None
    BY BlankFacts DEF LoadType
  <2> QED BY <2>1
<1>2. d = WithLoad(c, 1, v)
  BY <1>1 DEF FreeLoadState, WithLoad
<1>3. v.media \in {c.load[1].media, None}
  BY <1>1
<1> QED BY <1>2, <1>3, First, WithLoadEffect

(* The game becomes the client's, and its caller is told. *)
LEMMA ActivateGameEffect ==
  ASSUME NEW c, Ready(c), NEW d, d = ActivateGame(c, 1, TRUE)
  PROVE  Playing(d) /\ TellsLoad(c, d, "ok")
<1> DEFINE active == [c EXCEPT !.load[1].progress = "done", !.game = 1, !.load[1].media = None]
           media == c.load[1].media
           changed == IF media = None THEN active ELSE BeginChangeMedia(active, media)
           pinged == IF changed.spectator = "locked" THEN changed ELSE [changed EXCEPT !.pings = @ \cup {1}]
           f == TellLoad(pinged, 1, "ok")
           done == [f EXCEPT !.current = None, !.load[1].game = "none"]
<1>1. c \in ClientType /\ c.spectator = "off" /\ c.current = 1 /\ ~Freed(c, 1) /\ media = None
  BY DEF Ready, Awaited, Begins, Served, Freed
<1>2. d = FreeLoadState(done, 1)
  BY <1>1 DEF ActivateGame
<1>3. active = Taken(c, 1) /\ changed = active
  BY <1>1 DEF Taken
<1>4. pinged = IF active.spectator = "locked" THEN active ELSE Pinged(active, 1)
  BY <1>3, ZenonT(60) DEF Pinged
<1>5. done = Parted(f, 1)
  BY DEF Parted
<1>6. f = TellLoad(pinged, 1, "ok")
  OBVIOUS
<1> HIDE DEF active, media, changed, pinged, f, done
<1>7. /\ Beside(c, active, 1) /\ active.game = 1 /\ active.current = c.current /\ active.alive = c.alive
      /\ active.told = c.told /\ active.sent = c.sent /\ active.spectator = c.spectator
      /\ active.load[1].memory = c.load[1].memory /\ active.load[1].callback = c.load[1].callback
  BY <1>1, <1>3, First, TakenEffect
<1>8. Along(c, active) /\ active \in ClientType
  BY <1>7, BesideIsAlong DEF Along
<1>9. pinged = Pinged(active, 1)
  BY <1>1, <1>4, <1>7
<1>10. /\ Beside(active, pinged, 1) /\ pinged.game = active.game /\ pinged.current = active.current
       /\ pinged.alive = active.alive /\ pinged.told = active.told /\ pinged.sent = active.sent
       /\ pinged.spectator = active.spectator /\ pinged.load = active.load
  BY <1>8, <1>9, First, PingedEffect
<1>11. Along(active, pinged) /\ pinged \in ClientType
  BY <1>10, BesideIsAlong DEF Along
<1>12. PICK r \in Results : r = "ok"
  BY DEF Results
<1>13. f = TellLoad(pinged, 1, r)
  BY <1>6, <1>12
<1>14. /\ Aside(pinged, f, 1) /\ f.current = pinged.current /\ f.load = pinged.load
       /\ f.sent = pinged.sent /\ f.spectator = pinged.spectator
       /\ f.told[OfLoad(1)] = IF pinged.load[1].callback THEN Append(pinged.told[OfLoad(1)], r) ELSE pinged.told[OfLoad(1)]
  BY <1>11, <1>13, First, TellLoadEffect
<1>15. Along(pinged, f) /\ f.game = pinged.game /\ f \in ClientType
  BY <1>14, AsideIsAlong DEF Along
<1>16. f.current = 1
  BY <1>1, <1>7, <1>10, <1>14
<1>17. /\ Beside(f, done, 1) /\ done.game = f.game /\ done.current = None /\ done.alive = f.alive
       /\ done.told = f.told /\ done.sent = f.sent /\ done.spectator = f.spectator
       /\ done.load[1].memory = f.load[1].memory
  BY <1>5, <1>15, <1>16, First, PartedEffect
<1>18. Along(f, done) /\ done \in ClientType
  BY <1>17, BesideIsAlong DEF Along
<1>19. ~Freed(done, 1)
  BY <1>1, <1>7, <1>10, <1>14, <1>17 DEF Freed
<1>20. /\ Aside(done, d, 1) /\ d.told = done.told /\ d.sent = done.sent /\ d.current = done.current
       /\ d.spectator = done.spectator
  BY <1>2, <1>18, <1>19, FreedEffect
<1>21. Along(done, d) /\ d.game = done.game
  BY <1>20, AsideIsAlong
<1>22. Along(c, d)
  <2>1. Along(c, f)
    BY <1>8, <1>11, <1>15, AlongThrough
  <2> QED BY <2>1, <1>18, <1>21, AlongThrough
<1>23. d.game = 1 /\ d.current = None
  BY <1>7, <1>10, <1>15, <1>17, <1>20, <1>21
<1>24. d.sent = c.sent
  BY <1>7, <1>10, <1>14, <1>17, <1>20
<1>25. d.told[OfLoad(1)] = Append(c.told[OfLoad(1)], r)
  <2>1. c.load[1].callback
    BY DEF Ready, Awaited
  <2>2. pinged.load[1].callback = c.load[1].callback
    BY <1>7, <1>10
  <2>3. pinged.told = c.told
    BY <1>7, <1>10
  <2>4. f.told[OfLoad(1)] = Append(pinged.told[OfLoad(1)], r)
    BY <1>14, <2>1, <2>2
  <2> QED BY <1>17, <1>20, <2>3, <2>4
<1>26. Begins(d) /\ d.queue = <<>> /\ d.sent = {}
  BY <1>22, <1>24, BeginsAlong DEF Ready, Awaited, Along
<1>27. d.told[OfLoad(1)] = <<"ok">>
  <2>1. c.told[OfLoad(1)] = <<>>
    BY DEF Ready, Awaited
  <2>2. Append(<<>>, r) = <<r>>
    OBVIOUS
  <2> QED BY <1>12, <1>25, <2>1, <2>2
<1>28. Playing(d)
  BY <1>23, <1>26, <1>27 DEF Playing, Failed, Vacant
<1> QED BY <1>12, <1>22, <1>25, <1>28 DEF TellsLoad, Along

-----------------------------------------------------------------------------
(* The answer with the session.                                            *)

(* One element after none, and none after it. *)
LEMMA OneInLine == Append(<<>>, 1) = <<1>> /\ Head(<<1>>) = 1 /\ Tail(<<1>>) = <<>> /\ Len(<<1>>) = 1 /\ <<1>> # <<>>
OBVIOUS

(* The activation is scheduled, and nothing else. *)
LEMMA ScheduledEffect ==
  ASSUME NEW c, Ready(c), NEW d, d = Scheduled(c, 1, TRUE)
  PROVE  Activating(d) /\ Silent(c, d)
<1>1. c \in ClientType /\ c.queue = <<>> /\ c.sent = {}
  BY DEF Ready, Awaited, Begins, Served
<1>2. c.load \in [Loads -> LoadType] /\ c.load[1] \in LoadType
  BY <1>1, First, Fields
<1>3. PICK v \in LoadType : v = [c.load[1] EXCEPT !.session = TRUE]
  <2>1. [c.load[1] EXCEPT !.session = TRUE] \in LoadType
    BY <1>2 DEF LoadType
  <2> QED BY <2>1
<1>4. v.session /\ v.memory = c.load[1].memory /\ v.callback = c.load[1].callback /\ v.media = c.load[1].media
  BY <1>2, <1>3 DEF LoadType
<1>5. PICK w \in [Loads -> LoadType] : w = [c.load EXCEPT ![1] = v]
  BY <1>2
<1>6. w[1] = v
  BY <1>2, <1>5, First
<1>7. PICK q \in Seq(Loads) : q = <<1>>
  <2>1. <<1>> \in Seq(Loads)
    BY First
  <2> QED BY <2>1
<1>8. PICK e \in ClientType : e = [c EXCEPT !.load = w, !.queue = q]
  <2>1. [c EXCEPT !.load = w, !.queue = q] \in ClientType
    BY <1>1 DEF ClientType
  <2> QED BY <2>1
<1>9. d = e
  <2>1. q = Append(c.queue, 1)
    BY <1>1, <1>7, OneInLine
  <2> QED BY <1>3, <1>5, <1>8, <2>1 DEF Scheduled
<1>10. /\ e.alive = c.alive /\ e.begun = c.begun /\ e.game = c.game /\ e.queue = q /\ e.spectator = c.spectator
       /\ e.current = c.current /\ e.load = w /\ e.told = c.told /\ e.sent = c.sent /\ e.user = c.user
  <2>1. c \in ClientType
    BY <1>1
  <2> QED BY <1>8, <2>1 DEF ClientType
<1>11. Begins(e)
  BY <1>10 DEF Ready, Awaited, Begins, Served
<1>12. e.load[1].memory = "live" /\ e.load[1].callback /\ e.load[1].media = None
  <2>1. e.load[1] = v
    BY <1>6, <1>10
  <2>2. c.load[1].memory = "live" /\ c.load[1].callback /\ c.load[1].media = None
    BY DEF Ready, Awaited
  <2>3. v.callback
    BY <1>4, <2>2
  <2> QED BY <1>4, <2>1, <2>2, <2>3
<1>13. e.current = 1 /\ e.game = None /\ e.told[OfLoad(1)] = <<>>
  BY <1>10 DEF Ready, Awaited
<1>14. e.queue = <<1>> /\ e.sent = {}
  BY <1>1, <1>7, <1>10
<1>15. e.load[1].session
  BY <1>4, <1>6, <1>10
<1>16. Activating(e)
  BY <1>11, <1>12, <1>13, <1>14, <1>15 DEF Activating, Awaited
<1>17. Silent(c, e)
  BY <1>10 DEF Silent
<1> QED BY <1>9, <1>16, <1>17

(* The answer to what Starting asks. *)
LEMMA SessionAnswerEffect ==
  ASSUME NEW c, Starting(c), NEW succeeded \in BOOLEAN, NEW b, b = Received(c, "session", OfLoad(1)),
         NEW d, d = SessionAnswer(b, 1, succeeded)
  PROVE  \/ ~succeeded /\ Failed(d) /\ TellsLoad(c, d, "failed")
         \/ succeeded /\ Playing(d) /\ TellsLoad(c, d, "ok")
         \/ succeeded /\ Activating(d) /\ Silent(c, d)
<1>1. PICK kind : kind = "session"
  OBVIOUS
<1>2. Awaited(c) /\ c.queue = <<>> /\ Asks(c, kind) /\ b = Received(c, kind, OfLoad(1))
  BY <1>1 DEF Starting
<1>3. PICK e : e = EndLoadState(b, 1)
  OBVIOUS
<1>4. /\ Idles(e) /\ e.game = None /\ e.load[1].media = None /\ Silent(c, e)
      /\ b.handle[OfLoad(1)] = "fine" /\ b.current = 1 /\ b.load[1].outstanding = 1
  BY <1>2, <1>3, AnswerEnds
<1>5. e.told[OfLoad(1)] = <<>>
  BY <1>2, <1>4 DEF Awaited, Silent
<1>6. CASE ~succeeded
  <2>1. PICK r \in Results : r = "failed"
    BY DEF Results
  <2>2. d = LoadError(e, 1, r)
    BY <1>3, <1>4, <1>6, <2>1 DEF SessionAnswer
  <2>3. Failed(d) /\ TellsLoad(e, d, r)
    BY <1>4, <2>2, LoadFails
  <2>4. TellsLoad(c, d, r)
    BY <1>4, <2>3 DEF TellsLoad, Silent
  <2> QED BY <1>6, <2>1, <2>3, <2>4
<1>7. CASE succeeded
  <2>1. PICK f : f = InSession(e, 1)
    OBVIOUS
  <2>2. d = ActivateOrQueue(f, 1, TRUE)
    <3>1. ~Overtaken(b, 1) /\ LastAnswer(b, 1)
      BY <1>4 DEF Overtaken, LastAnswer
    <3> QED BY <1>3, <1>4, <1>7, <2>1, <3>1 DEF SessionAnswer, InSession
  <2>3. e \in ClientType /\ e.game # 1
    BY <1>4, First DEF Idles, Begins, Served
  <2>4. /\ Aside(e, f, 1) /\ f.load = e.load /\ f.told = e.told /\ f.sent = e.sent /\ f.handle = e.handle
        /\ f.current = e.current /\ f.spectator = e.spectator
    BY <2>1, <2>3, First, InSessionEffect
  <2>5. Along(e, f) /\ f.game = None
    BY <1>4, <2>4, AsideIsAlong
  <2>6. Begins(f) /\ f.queue = <<>>
    BY <1>4, <2>5, BeginsAlong DEF Idles, Along
  <2>7. Ready(f)
    BY <1>4, <1>5, <2>4, <2>5, <2>6 DEF Idles, Ready, Awaited
  <2>8. Silent(c, f)
    BY <1>4, <2>4 DEF Silent
  <2>9. CASE f.background
    <3>1. d = ActivateGame(f, 1, TRUE)
      BY <2>2, <2>9 DEF ActivateOrQueue
    <3>2. Playing(d) /\ TellsLoad(f, d, "ok")
      BY <2>7, <3>1, ActivateGameEffect
    <3>3. TellsLoad(c, d, "ok")
      BY <2>8, <3>2 DEF TellsLoad, Silent
    <3> QED BY <1>7, <3>2, <3>3
  <2>10. CASE ~f.background
    <3>1. d = Scheduled(f, 1, TRUE)
      BY <2>2, <2>10 DEF ActivateOrQueue, Scheduled
    <3>2. Activating(d) /\ Silent(f, d)
      BY <2>7, <3>1, ScheduledEffect
    <3>3. Silent(c, d)
      BY <2>8, <3>2 DEF Silent
    <3> QED BY <1>7, <3>2, <3>3
  <2> QED BY <2>9, <2>10
<1> QED BY <1>6, <1>7

(* The answer that comes when the load has failed: its memory goes. *)
LEMMA LateSessionEffect ==
  ASSUME NEW c, Emptied(c), NEW succeeded \in BOOLEAN, NEW b, b = Received(c, "session", OfLoad(1)),
         NEW d, d = SessionAnswer(b, 1, succeeded)
  PROVE  Failed(d) /\ Silent(c, d)
<1>1. c \in ClientType /\ c.current = None /\ c.sent = {<<"session", OfLoad(1)>>} /\ c.handle[OfLoad(1)] = "fine"
      /\ c.load[1].memory = "live" /\ c.load[1].progress = "aborted" /\ c.load[1].outstanding = 1
  BY DEF Emptied, Begins, Served, Vacant, Asks
<1>2. PICK kind : kind = "session"
  OBVIOUS
<1>3. /\ b \in ClientType /\ b.sent = c.sent \ {<<kind, OfLoad(1)>>}
      /\ b.alive = c.alive /\ b.begun = c.begun /\ b.game = c.game /\ b.queue = c.queue /\ b.spectator = c.spectator
      /\ b.current = c.current /\ b.told = c.told /\ b.handle = c.handle /\ b.user = c.user /\ b.load = c.load
  <2>1. c \in ClientType /\ b = Received(c, kind, OfLoad(1))
    BY <1>1, <1>2
  <2> QED BY <2>1, ReceivedEffect
<1>4. Along(c, b)
  BY <1>3 DEF Along
<1>5. b.sent = {}
  BY <1>1, <1>2, <1>3
<1>6. b.load[1] \in LoadType /\ b.load \in [Loads -> LoadType]
  BY <1>3, First, Fields
<1>7. PICK v \in LoadType : v = [b.load[1] EXCEPT !.outstanding = 0] /\ v.memory = b.load[1].memory
                            /\ v.media = b.load[1].media /\ v.outstanding = 0
  <2>1. [b.load[1] EXCEPT !.outstanding = 0] \in LoadType
    BY <1>6 DEF LoadType
  <2>2. PICK v \in LoadType : v = [b.load[1] EXCEPT !.outstanding = 0]
    BY <2>1
  <2>3. v.memory = b.load[1].memory /\ v.media = b.load[1].media /\ v.outstanding = 0
    BY <1>6, <2>2 DEF LoadType
  <2> QED BY <2>2, <2>3
<1>8. PICK e : e = WithLoad(b, 1, v)
  OBVIOUS
<1>9. /\ Aside(b, e, 1) /\ e.load[1] = v /\ e.told = b.told /\ e.sent = b.sent /\ e.current = b.current
      /\ e.spectator = b.spectator
  <2>1. v.media \in {b.load[1].media, None}
    BY <1>7
  <2>2. b \in ClientType
    BY <1>3
  <2> QED BY <1>8, <2>1, <2>2, First, WithLoadEffect
<1>10. Along(b, e) /\ e \in ClientType
  BY <1>9, AsideIsAlong DEF Along
<1>11. ~Freed(e, 1) /\ ~Freed(b, 1)
  BY <1>1, <1>3, <1>7, <1>9 DEF Freed
<1>12. PICK f : f = FreeLoadState(e, 1)
  OBVIOUS
<1>13. /\ Aside(e, f, 1) /\ f.told = e.told /\ f.sent = e.sent /\ f.current = e.current /\ f.spectator = e.spectator
  BY <1>10, <1>11, <1>12, FreedEffect
<1>14. Along(e, f) /\ f \in ClientType
  BY <1>13, AsideIsAlong DEF Along
<1>15. EndLoadState(b, 1) = f
  <2>1. b.load[1].outstanding = 1 /\ OneFewer(b.load[1].outstanding) = 0
    BY <1>1, <1>3 DEF OneFewer
  <2>2. e = [b EXCEPT !.load[1].outstanding = OneFewer(@)]
    BY <1>7, <1>8, <2>1 DEF WithLoad
  <2>3. b.load[1].progress = "aborted"
    BY <1>1, <1>3
  <2>4. Overtaken(b, 1)
    BY <1>1, <1>3, First DEF Overtaken
  <2>5. e.load[1].outstanding = 0
    BY <1>7, <1>9
  <2> QED BY <1>11, <1>12, <2>2, <2>3, <2>4, <2>5 DEF EndLoadState
<1>16. Along(c, f)
  BY <1>4, <1>10, <1>14, AlongThrough
<1>17. Begins(f) /\ f.queue = <<>>
  BY <1>16, BeginsAlong DEF Emptied, Vacant, Along
<1>18. f.current = None /\ f.sent = {} /\ f.told = c.told
  BY <1>1, <1>3, <1>5, <1>9, <1>13
<1>19. Failed(f)
  BY <1>17, <1>18 DEF Failed, Vacant
<1>20. b.handle[OfLoad(1)] = "fine" /\ Overtaken(b, 1)
  BY <1>1, <1>3, First DEF Overtaken
<1>21. CASE succeeded
  <2>1. d = f
    BY <1>15, <1>20, <1>21 DEF SessionAnswer
  <2> QED BY <1>18, <1>19, <2>1 DEF Silent
<1>22. CASE ~succeeded
  <2>1. Freed(f, 1)
    <3>1. f = [e EXCEPT !.load[1] = [BlankLoad EXCEPT !.memory = "freed"]]
      BY <1>11, <1>12 DEF FreeLoadState
    <3>2. e.load \in [Loads -> LoadType]
      BY <1>10, Fields
    <3>3. PICK w \in LoadType : w = [BlankLoad EXCEPT !.memory = "freed"]
      <4>1. [BlankLoad EXCEPT !.memory = "freed"] \in LoadType
        BY BlankFacts DEF LoadType
      <4> QED BY <4>1
    <3>4. w.memory = "freed"
      BY <3>3, BlankFacts DEF LoadType
    <3>5. f = WithLoad(e, 1, w)
      BY <3>1, <3>3 DEF WithLoad
    <3>6. f.load = [e.load EXCEPT ![1] = w]
      <4>1. e \in ClientType
        BY <1>10
      <4> QED BY <3>5, <4>1 DEF WithLoad, ClientType
    <3>7. f.load[1] = w
      BY <3>2, <3>6, First
    <3> QED BY <3>4, <3>7 DEF Freed
  <2>2. d = Misuse(f, OfLoad(1))
    <3>1. d = LoadError(f, 1, "failed")
      BY <1>15, <1>20, <1>22 DEF SessionAnswer
    <3> QED BY <2>1, <3>1 DEF LoadError
  <2>3. PICK m \in SUBSET Operations : m = f.misused \cup {OfLoad(1)}
    BY <1>14, First, Fields
  <2>4. PICK g \in ClientType : g = [f EXCEPT !.misused = m]
    <3>1. [f EXCEPT !.misused = m] \in ClientType
      BY <1>14 DEF ClientType
    <3> QED BY <3>1
  <2>5. d = g
    BY <2>2, <2>3, <2>4 DEF Misuse
  <2>6. /\ g.alive = f.alive /\ g.spectator = f.spectator /\ g.begun = f.begun /\ g.user = f.user /\ g.queue = f.queue
        /\ g.told = f.told /\ g.current = f.current /\ g.sent = f.sent
    <3>1. f \in ClientType
      BY <1>14
    <3> QED BY <2>4, <3>1 DEF ClientType
  <2>7. Failed(g)
    BY <1>19, <2>6 DEF Failed, Begins, Served, Vacant
  <2> QED BY <1>18, <2>5, <2>6, <2>7 DEF Silent
<1> QED BY <1>21, <1>22

-----------------------------------------------------------------------------
(* What is scheduled.                                                      *)

(* Nothing. *)
LEMMA NothingRuns ==
  ASSUME NEW c, c.queue = <<>>
  PROVE  RunActivations(c) = c
<1> DEFINE N == Len(c.queue)
           after == CHOOSE f : f = [n \in 0..N |-> IF n = 0 THEN c ELSE DispatchActivation(f[n - 1])]
<1>1. N = 0
  OBVIOUS
<1>2. RunActivations(c) = after[N]
  BY DEF RunActivations
<1> HIDE DEF N
<1>3. after = [n \in 0..N |-> IF n = 0 THEN c ELSE DispatchActivation(after[n - 1])]
  <2>1. \E f : f = [n \in 0..N |-> IF n = 0 THEN c ELSE DispatchActivation(f[n - 1])]
    <3>1. N \in Nat
      BY <1>1
    <3> QED BY <3>1, DispatchedExists DEF Dispatched
  <2> QED BY <2>1
<1> HIDE DEF after
<1>4. after[0] = c
  BY <1>1, <1>3
<1> QED BY <1>1, <1>2, <1>4

(* The activation. *)
LEMMA ActivationRuns ==
  ASSUME NEW c, Activating(c), NEW d, d = RunActivations(c)
  PROVE  Playing(d) /\ TellsLoad(c, d, "ok")
<1> DEFINE N == Len(c.queue)
           after == CHOOSE f : f = [n \in 0..N |-> IF n = 0 THEN c ELSE DispatchActivation(f[n - 1])]
<1>1. N = 1
  BY OneInLine DEF Activating
<1>2. d = after[N]
  BY DEF RunActivations
<1> HIDE DEF N
<1>3. after = [n \in 0..N |-> IF n = 0 THEN c ELSE DispatchActivation(after[n - 1])]
  <2>1. \E f : f = [n \in 0..N |-> IF n = 0 THEN c ELSE DispatchActivation(f[n - 1])]
    <3>1. N \in Nat
      BY <1>1
    <3> QED BY <3>1, DispatchedExists DEF Dispatched
  <2> QED BY <2>1
<1> HIDE DEF after
<1>4. after[0] = c /\ after[1] = DispatchActivation(after[0])
  BY <1>1, <1>3
<1>5. d = DispatchActivation(c)
  BY <1>1, <1>2, <1>4
<1>6. c \in ClientType /\ c.queue = <<1>>
  BY DEF Activating, Awaited, Begins, Served
<1>7. PICK q \in Seq(Loads) : q = <<>>
  <2>1. <<>> \in Seq(Loads)
    OBVIOUS
  <2> QED BY <2>1
<1>8. PICK e \in ClientType : e = [c EXCEPT !.queue = q]
  <2>1. [c EXCEPT !.queue = q] \in ClientType
    BY <1>6 DEF ClientType
  <2> QED BY <2>1
<1>9. /\ e.alive = c.alive /\ e.begun = c.begun /\ e.game = c.game /\ e.queue = q /\ e.spectator = c.spectator
      /\ e.current = c.current /\ e.load = c.load /\ e.told = c.told /\ e.sent = c.sent /\ e.user = c.user
  <2>1. c \in ClientType
    BY <1>6
  <2> QED BY <1>8, <2>1 DEF ClientType
<1>10. c.load[1].session = TRUE
  <2>1. c.load[1] \in LoadType
    BY <1>6, First, Fields
  <2>2. c.load[1].session \in BOOLEAN
    BY <2>1 DEF LoadType
  <2>3. c.load[1].session
    BY DEF Activating
  <2> QED BY <2>2, <2>3
<1>11. d = ActivateGame(e, 1, TRUE)
  <2>1. e = [c EXCEPT !.queue = Tail(@)] /\ Head(c.queue) = 1 /\ c.queue # <<>>
    BY <1>6, <1>7, <1>8, OneInLine
  <2> QED BY <1>5, <1>10, <2>1 DEF DispatchActivation
<1>12. Ready(e)
  BY <1>7, <1>9 DEF Activating, Ready, Awaited, Begins, Served
<1>13. Playing(d) /\ TellsLoad(e, d, "ok")
  BY <1>11, <1>12, ActivateGameEffect
<1>14. TellsLoad(c, d, "ok")
  BY <1>9, <1>13 DEF TellsLoad
<1> QED BY <1>13, <1>14

-----------------------------------------------------------------------------
(* The inductive invariant.                                                *)

(* No response waits, or one does, queued or taken, and it answers what    *)
(* the client asks.                                                        *)
Response(q, a) == [request |-> q, answer |-> a]
Waiting(c, p, t) ==
  \/ p = <<>> /\ t = <<>>
  \/ \E q \in c.sent : \E a \in AnswersTo(q[1]) :
       \/ p = <<Response(q, a)>> /\ t = <<>>
       \/ p = <<>> /\ t = <<Response(q, a)>>

(* The service before it has a client, with one, and after it.             *)
NoClient ==
  /\ setUp = 0 /\ ~held /\ ~isDestroyed /\ state = "idle" /\ core = "none" /\ pending = <<>> /\ taken = <<>>
  /\ client.sent = {}
Serves ==
  /\ setUp \in 1..4 /\ held /\ ~isDestroyed /\ Follows(client, romHash, state) /\ Waiting(client, pending, taken)
  /\ setUp \in {1, 2} => state = "idle" /\ SignedOut(client, romHash)
  /\ setUp = 3 => state = "loggingIn"
  /\ setUp < 4 => core = "none"
  /\ core \notin {"drain", "again"} => taken = <<>>
Gone == setUp = 4 /\ ~held /\ isDestroyed /\ core = "ended" /\ pending = <<>> /\ taken = <<>>

ServiceInv ==
  /\ romHash \in Hashes \cup {None} /\ ~delivered
  /\ NoClient \/ Serves \/ Gone

(* One thing is asked at a time. *)
LEMMA OneAsked ==
  ASSUME NEW c, NEW h, NEW s, Follows(c, h, s), NEW p \in c.sent, NEW q \in c.sent
  PROVE  p = q
<1>1. CASE LoggingIn(c, h)
  BY <1>1 DEF LoggingIn
<1>2. CASE Emptied(c) \/ Identifying(c) \/ Starting(c)
  BY <1>2 DEF Emptied, Identifying, Starting, Asks
<1>3. CASE SignedOut(c, h) \/ LoggedIn(c, h)
  BY <1>3 DEF SignedOut, LoggedIn
<1>4. CASE Failed(c) \/ Activating(c) \/ Playing(c)
  BY <1>4 DEF Failed, Activating, Playing
<1> QED BY <1>1, <1>2, <1>3, <1>4 DEF Follows

(* A client the service follows is there. *)
LEMMA FollowedIsThere ==
  ASSUME NEW c, NEW h, NEW s, Follows(c, h, s)
  PROVE  c \in ClientType /\ c.alive
<1>1. CASE SignedOut(c, h) \/ LoggingIn(c, h) \/ LoggedIn(c, h)
  BY <1>1 DEF SignedOut, LoggingIn, LoggedIn, NotBegun, Served
<1>2. CASE Emptied(c) \/ Failed(c) \/ Playing(c)
  BY <1>2 DEF Emptied, Failed, Playing, Begins, Served
<1>3. CASE Identifying(c) \/ Starting(c) \/ Activating(c)
  BY <1>3 DEF Identifying, Starting, Activating, Awaited, Begins, Served
<1> QED BY <1>1, <1>2, <1>3 DEF Follows

-----------------------------------------------------------------------------
(* What the service makes of what its client tells.                        *)

(* Nothing was told: the state is as before. *)
LEMMA SilenceLeaves ==
  ASSUME client \in ClientType, NEW next \in ClientType, Silent(client, next), NEW h, h = After(next)
  PROVE  h.client = next /\ h.state = state
<1>1. h = [Host EXCEPT !.client = next]
  BY AfterSilence
<1> QED BY <1>1 DEF Host

(* A failure: the service is idle. *)
LEMMA FailureIdles ==
  ASSUME client \in ClientType, NEW next \in ClientType, NEW r \in Results, r # "ok",
         TellsLogin(client, next, r) \/ TellsLoad(client, next, r), NEW h, h = After(next)
  PROVE  h.client = next /\ h.state = "idle"
<1>1. h = HandleAsyncCallback([Host EXCEPT !.client = next], r)
  BY AfterResult
<1>2. h = [[Host EXCEPT !.client = next] EXCEPT !.state = "idle", !.toasts = @ + 1]
  BY <1>1 DEF HandleAsyncCallback
<1> QED BY <1>2 DEF Host

(* The load's success: it is loaded. *)
LEMMA SuccessLoads ==
  ASSUME client \in ClientType, NEW next \in ClientType, TellsLoad(client, next, "ok"), state = "loadingGame",
         NEW h, h = After(next)
  PROVE  h.client = next /\ h.state = "loaded"
<1>1. PICK r \in Results : r = "ok"
  BY DEF Results
<1>2. h = HandleAsyncCallback([Host EXCEPT !.client = next], r)
  BY <1>1, AfterResult
<1>3. [Host EXCEPT !.client = next].state = "loadingGame"
  BY DEF Host
<1>4. h = [[Host EXCEPT !.client = next] EXCEPT !.state = "loaded"]
  BY <1>1, <1>2, <1>3 DEF HandleAsyncCallback
<1> QED BY <1>4 DEF Host

(* The login's: the load begins, if there is a hash. *)
LEMMA SuccessBegins ==
  ASSUME client \in ClientType, NEW next \in ClientType, TellsLogin(client, next, "ok"), state = "loggingIn",
         NEW h, h = After(next)
  PROVE  /\ romHash = None => h.client = next /\ h.state = "loggedIn"
         /\ romHash # None => h.client = BeginLoadGame(next, romHash) /\ h.state = "loadingGame"
<1>1. PICK r \in Results : r = "ok"
  BY DEF Results
<1>2. h = HandleAsyncCallback([Host EXCEPT !.client = next], r)
  BY <1>1, AfterResult
<1>3. [Host EXCEPT !.client = next].state = "loggingIn"
  BY DEF Host
<1>4. PICK k : k = [[Host EXCEPT !.client = next] EXCEPT !.state = "loggedIn"]
  OBVIOUS
<1>5. h = PerformLoadGameIfReady(k)
  BY <1>1, <1>2, <1>3, <1>4 DEF HandleAsyncCallback
<1>6. k.state = "loggedIn" /\ k.client = next
  BY <1>4 DEF Host
<1>7. CASE romHash = None
  BY <1>5, <1>6, <1>7 DEF PerformLoadGameIfReady
<1>8. CASE romHash # None
  <2>1. h = [k EXCEPT !.state = "loadingGame", !.client = BeginLoadGame(@, romHash)]
    BY <1>5, <1>6, <1>8 DEF PerformLoadGameIfReady
  <2>2. h.state = "loadingGame"
    BY <1>4, <2>1 DEF Host
  <2>3. h.client = BeginLoadGame(next, romHash)
    BY <1>4, <2>1 DEF Host
  <2> QED BY <1>8, <2>2, <2>3
<1> QED BY <1>7, <1>8

-----------------------------------------------------------------------------
(* The core thread's steps.                                                *)

(* A response is delivered: the state follows the client. *)
LEMMA DeliveryFollows ==
  ASSUME romHash \in Hashes \cup {None}, Follows(client, romHash, state), NEW q \in client.sent, NEW a \in AnswersTo(q[1]),
         NEW h, h = After(Deliver(Response(q, a)))
  PROVE  Follows(h.client, romHash, h.state)
<1>1. client \in ClientType
  BY FollowedIsThere
<1>2. PICK next : next = Deliver(Response(q, a))
  OBVIOUS
<1>3. h = After(next)
  BY <1>2
<1>4. Response(q, a).request = q /\ Response(q, a).answer = a
  BY DEF Response
<1>5. CASE state = "loggingIn" /\ LoggingIn(client, romHash)
  <2>1. q = <<"login", OfLogin(1)>>
    BY <1>5 DEF LoggingIn
  <2>2. q[1] = "login" /\ q[2] = OfLogin(1) /\ OfLogin(1)[2] = 1
    BY <2>1 DEF OfLogin
  <2>3. a.is \in {"ok", "failed"}
    BY <2>2 DEF AnswersTo
  <2>4. PICK succeeded \in BOOLEAN : succeeded <=> a.is = "ok"
    OBVIOUS
  <2>5. PICK b : b = Received(client, "login", OfLogin(1))
    OBVIOUS
  <2>6. next = LoginAnswer(b, 1, succeeded)
    BY <1>2, <1>4, <2>2, <2>4, <2>5 DEF Deliver, Answered, Received
  <2>7. \/ succeeded /\ LoggedIn(next, romHash) /\ TellsLogin(client, next, "ok")
        \/ ~succeeded /\ SignedOut(next, romHash) /\ TellsLogin(client, next, "failed")
    BY <1>5, <2>5, <2>6, LoginAnswerEffect
  <2>8. CASE SignedOut(next, romHash) /\ TellsLogin(client, next, "failed")
    <3>1. PICK r \in Results : r = "failed"
      BY DEF Results
    <3>2. next \in ClientType
      BY <2>8 DEF SignedOut, NotBegun, Served
    <3>3. h.client = next /\ h.state = "idle"
      BY <1>1, <1>3, <2>8, <3>1, <3>2, FailureIdles
    <3> QED BY <2>8, <3>3 DEF Follows
  <2>9. CASE LoggedIn(next, romHash) /\ TellsLogin(client, next, "ok")
    <3>1. next \in ClientType
      BY <2>9 DEF LoggedIn, NotBegun, Served
    <3>2. /\ romHash = None => h.client = next /\ h.state = "loggedIn"
          /\ romHash # None => h.client = BeginLoadGame(next, romHash) /\ h.state = "loadingGame"
      BY <1>1, <1>3, <1>5, <2>9, <3>1, SuccessBegins
    <3>3. CASE romHash = None
      BY <2>9, <3>2, <3>3 DEF Follows
    <3>4. CASE romHash # None
      <4>1. romHash \in Hashes
        BY <3>4
      <4>2. PICK d : d = BeginLoadGame(next, romHash)
        OBVIOUS
      <4>3. Identifying(d)
        BY <2>9, <4>1, <4>2, BeginLoadGameEffect
      <4> QED BY <3>2, <3>4, <4>2, <4>3 DEF Follows
    <3> QED BY <3>3, <3>4
  <2> QED BY <2>7, <2>8, <2>9
<1>6. CASE state = "loadingGame" /\ Identifying(client)
  <2>1. q = <<"sets", OfLoad(1)>>
    BY <1>6 DEF Identifying, Asks
  <2>2. q[1] = "sets" /\ q[2] = OfLoad(1) /\ OfLoad(1)[2] = 1
    BY <2>1 DEF OfLoad
  <2>3. a \in SetsAnswers
    BY <2>2 DEF AnswersTo
  <2>4. PICK b : b = Received(client, "sets", OfLoad(1))
    OBVIOUS
  <2>5. next = SetsAnswer(b, 1, a)
    BY <1>2, <1>4, <2>2, <2>4 DEF Deliver, Answered, Received
  <2>6. \/ a.is = "failed" /\ Failed(next) /\ TellsLoad(client, next, "failed")
        \/ a.is = "unknown" /\ Failed(next) /\ TellsLoad(client, next, "no_game")
        \/ a.is = "empty" /\ Emptied(next) /\ TellsLoad(client, next, "not_found")
        \/ a.is = "game" /\ Starting(next) /\ Silent(client, next)
    BY <1>6, <2>3, <2>4, <2>5, SetsAnswerEffect
  <2>7. CASE Starting(next) /\ Silent(client, next)
    <3>1. next \in ClientType
      BY <2>7 DEF Starting, Awaited, Begins, Served
    <3>2. h.client = next /\ h.state = state
      BY <1>1, <1>3, <2>7, <3>1, SilenceLeaves
    <3> QED BY <1>6, <2>7, <3>2 DEF Follows
  <2>8. ASSUME NEW r \in Results, r # "ok", Failed(next) \/ Emptied(next), TellsLoad(client, next, r)
        PROVE  Follows(h.client, romHash, h.state)
    <3>1. next \in ClientType
      BY <2>8 DEF Failed, Emptied, Begins, Served
    <3>2. h.client = next /\ h.state = "idle"
      BY <1>1, <1>3, <2>8, <3>1, FailureIdles
    <3> QED BY <2>8, <3>2 DEF Follows
  <2>9. "failed" \in Results /\ "no_game" \in Results /\ "not_found" \in Results
    BY DEF Results
  <2> QED BY <2>6, <2>7, <2>8, <2>9
<1>7. CASE state = "loadingGame" /\ Starting(client)
  <2>1. q = <<"session", OfLoad(1)>>
    BY <1>7 DEF Starting, Asks
  <2>2. q[1] = "session" /\ q[2] = OfLoad(1) /\ OfLoad(1)[2] = 1
    BY <2>1 DEF OfLoad
  <2>3. PICK succeeded \in BOOLEAN : succeeded <=> a.is = "ok"
    OBVIOUS
  <2>4. PICK b : b = Received(client, "session", OfLoad(1))
    OBVIOUS
  <2>5. next = SessionAnswer(b, 1, succeeded)
    BY <1>2, <1>4, <2>2, <2>3, <2>4 DEF Deliver, Answered, Received
  <2>6. \/ ~succeeded /\ Failed(next) /\ TellsLoad(client, next, "failed")
        \/ succeeded /\ Playing(next) /\ TellsLoad(client, next, "ok")
        \/ succeeded /\ Activating(next) /\ Silent(client, next)
    BY <1>7, <2>4, <2>5, SessionAnswerEffect
  <2>7. CASE Failed(next) /\ TellsLoad(client, next, "failed")
    <3>1. PICK r \in Results : r = "failed"
      BY DEF Results
    <3>2. next \in ClientType
      BY <2>7 DEF Failed, Begins, Served
    <3>3. h.client = next /\ h.state = "idle"
      BY <1>1, <1>3, <2>7, <3>1, <3>2, FailureIdles
    <3> QED BY <2>7, <3>3 DEF Follows
  <2>8. CASE Playing(next) /\ TellsLoad(client, next, "ok")
    <3>1. next \in ClientType
      BY <2>8 DEF Playing, Failed, Begins, Served
    <3>2. h.client = next /\ h.state = "loaded"
      BY <1>1, <1>3, <1>7, <2>8, <3>1, SuccessLoads
    <3> QED BY <2>8, <3>2 DEF Follows
  <2>9. CASE Activating(next) /\ Silent(client, next)
    <3>1. next \in ClientType
      BY <2>9 DEF Activating, Awaited, Begins, Served
    <3>2. h.client = next /\ h.state = state
      BY <1>1, <1>3, <2>9, <3>1, SilenceLeaves
    <3> QED BY <1>7, <2>9, <3>2 DEF Follows
  <2> QED BY <2>6, <2>7, <2>8, <2>9
<1>8. CASE state = "idle" /\ Emptied(client)
  <2>1. q = <<"session", OfLoad(1)>>
    BY <1>8 DEF Emptied, Asks
  <2>2. q[1] = "session" /\ q[2] = OfLoad(1) /\ OfLoad(1)[2] = 1
    BY <2>1 DEF OfLoad
  <2>3. PICK succeeded \in BOOLEAN : succeeded <=> a.is = "ok"
    OBVIOUS
  <2>4. PICK b : b = Received(client, "session", OfLoad(1))
    OBVIOUS
  <2>5. next = SessionAnswer(b, 1, succeeded)
    BY <1>2, <1>4, <2>2, <2>3, <2>4 DEF Deliver, Answered, Received
  <2>6. Failed(next) /\ Silent(client, next)
    BY <1>8, <2>4, <2>5, LateSessionEffect
  <2>7. next \in ClientType
    BY <2>6 DEF Failed, Begins, Served
  <2>8. h.client = next /\ h.state = state
    BY <1>1, <1>3, <2>6, <2>7, SilenceLeaves
  <2> QED BY <1>8, <2>6, <2>8 DEF Follows
<1>9. client.sent # {}
  OBVIOUS
<1>10. ~SignedOut(client, romHash) /\ ~LoggedIn(client, romHash)
  BY <1>9 DEF SignedOut, LoggedIn
<1>11. ~Failed(client) /\ ~Activating(client) /\ ~Playing(client)
  BY <1>9 DEF Failed, Activating, Playing
<1> QED BY <1>5, <1>6, <1>7, <1>8, <1>10, <1>11 DEF Follows

(* What is scheduled runs: so it does. *)
LEMMA RunFollows ==
  ASSUME Follows(client, romHash, state), NEW h, h = After(RunActivations(client))
  PROVE  Follows(h.client, romHash, h.state) /\ (client.sent # {} => h.client = client)
<1>1. client \in ClientType
  BY FollowedIsThere
<1>2. PICK next : next = RunActivations(client)
  OBVIOUS
<1>3. h = After(next)
  BY <1>2
<1>4. CASE state = "loadingGame" /\ Activating(client)
  <2>1. Playing(next) /\ TellsLoad(client, next, "ok")
    BY <1>2, <1>4, ActivationRuns
  <2>2. next \in ClientType
    BY <2>1 DEF Playing, Failed, Begins, Served
  <2>3. h.client = next /\ h.state = "loaded"
    BY <1>1, <1>3, <1>4, <2>1, <2>2, SuccessLoads
  <2>4. client.sent = {}
    BY <1>4 DEF Activating
  <2> QED BY <2>1, <2>3, <2>4 DEF Follows
<1>5. CASE client.queue = <<>>
  <2>1. next = client
    BY <1>2, <1>5, NothingRuns
  <2>2. next \in ClientType /\ Silent(client, next)
    BY <1>1, <2>1 DEF Silent
  <2>3. h.client = next /\ h.state = state
    BY <1>1, <1>3, <2>2, SilenceLeaves
  <2> QED BY <2>1, <2>3
<1>6. CASE SignedOut(client, romHash) \/ LoggingIn(client, romHash) \/ LoggedIn(client, romHash)
  BY <1>5, <1>6 DEF SignedOut, LoggingIn, LoggedIn, NotBegun, Vacant
<1>7. CASE Emptied(client) \/ Failed(client) \/ Playing(client) \/ Identifying(client) \/ Starting(client)
  BY <1>5, <1>7 DEF Emptied, Failed, Playing, Identifying, Starting, Vacant
<1> QED BY <1>4, <1>6, <1>7 DEF Follows

-----------------------------------------------------------------------------
(* Every step keeps the invariant.                                         *)

(* The service starts without a client. *)
LEMMA ServiceInitHolds == serviceInit => ServiceInv
<1> SUFFICES ASSUME serviceInit PROVE ServiceInv
  OBVIOUS
<1>1. client.sent = {}
  BY DEF serviceInit, CreatedClient
<1> QED BY <1>1 DEF serviceInit, ServiceInv, NoClient

(* What is on the load queue. *)
LEMMA SetUpKeeps == ServiceInv /\ SetUp => ServiceInv'
<1> SUFFICES ASSUME ServiceInv, SetUp PROVE ServiceInv'
  OBVIOUS
<1>0. romHash \in Hashes \cup {None} /\ ~delivered
  BY DEF ServiceInv
<1>1. CASE Create
  <2>1. NoClient
    BY <1>1 DEF Create, ServiceInv, Serves, Gone
  <2>2. SignedOut(client', romHash)
    BY <1>0, <1>1, CreatedIsSignedOut DEF Create
  <2>3. state = "idle"
    BY <1>1, <2>1 DEF NoClient
  <2>4. Follows(client', romHash, state)
    BY <2>2, <2>3 DEF Follows
  <2>5. Waiting(client', pending, taken)
    BY <2>1 DEF NoClient, Waiting
  <2>6. setUp' = 1 /\ core' = "none" /\ taken' = <<>>
    BY <1>1, <2>1 DEF Create, NoClient
  <2>7. held' /\ ~isDestroyed'
    BY <1>1, <2>1 DEF Create, NoClient
  <2>8. romHash' = romHash /\ state' = state /\ pending' = pending /\ taken' = taken
    BY <1>1 DEF Create
  <2>9. Follows(client', romHash', state') /\ Waiting(client', pending', taken') /\ SignedOut(client', romHash')
    BY <2>2, <2>4, <2>5, <2>8
  <2>10. state' = "idle"
    BY <2>3, <2>8
  <2>11. Serves'
    BY <2>6, <2>7, <2>9, <2>10 DEF Serves
  <2> QED BY <1>0, <1>1, <2>11 DEF ServiceInv, Create
<1>2. CASE ApplySettings
  <2>1. Serves /\ setUp = 1
    BY <1>2 DEF ApplySettings, ServiceInv, NoClient, Gone
  <2>2. SignedOut(client, romHash) /\ state = "idle" /\ core = "none" /\ taken = <<>> /\ held /\ ~isDestroyed
    BY <2>1 DEF Serves
  <2>3. PICK hardcore \in BOOLEAN : client' = [client EXCEPT !.hardcore = hardcore]
    BY <1>2 DEF ApplySettings
  <2>4. SignedOut(client', romHash)
    BY <2>2, <2>3, ModeIsBeside
  <2>5. Follows(client', romHash, state)
    BY <2>2, <2>4 DEF Follows
  <2>6. Waiting(client', pending, taken)
    <3>1. pending = <<>>
      BY <2>1, <2>2 DEF Serves, Waiting, SignedOut
    <3> QED BY <2>2, <3>1 DEF Waiting
  <2>7. Serves'
    BY <1>2, <2>2, <2>4, <2>5, <2>6 DEF Serves, ApplySettings
  <2> QED BY <1>0, <1>2, <2>7 DEF ServiceInv, ApplySettings
<1>3. CASE BeginsLogin
  <2>1. Serves /\ setUp = 2
    BY <1>3 DEF BeginsLogin, ServiceInv, NoClient, Gone
  <2>2. SignedOut(client, romHash) /\ core = "none" /\ taken = <<>> /\ held /\ ~isDestroyed
    BY <2>1 DEF Serves
  <2>3. LoggingIn(client', romHash)
    BY <1>3, <2>2, BeginLoginEffect DEF BeginsLogin
  <2>4. Follows(client', romHash, "loggingIn")
    BY <2>3 DEF Follows
  <2>5. Waiting(client', pending, taken)
    <3>1. pending = <<>>
      BY <2>1, <2>2 DEF Serves, Waiting, SignedOut
    <3> QED BY <2>2, <3>1 DEF Waiting
  <2>6. Serves'
    BY <1>3, <2>2, <2>4, <2>5 DEF Serves, BeginsLogin
  <2> QED BY <1>0, <1>3, <2>6 DEF ServiceInv, BeginsLogin
<1>4. CASE BeginsLoadGame
  <2>1. Serves /\ setUp = 3
    BY <1>4 DEF BeginsLoadGame, ServiceInv, NoClient, Gone
  <2>2. state = "loggingIn" /\ core = "none" /\ taken = <<>> /\ held /\ ~isDestroyed
    BY <2>1 DEF Serves
  <2>3. Host.state = "loggingIn" /\ Host.client = client
    BY <2>2 DEF Host
  <2>4. PerformLoadGameIfReady(Host) = Host
    BY <2>3 DEF PerformLoadGameIfReady
  <2>5. client' = client /\ state' = state
    BY <1>4, <2>2, <2>3, <2>4 DEF BeginsLoadGame
  <2>6. Serves'
    BY <1>4, <2>1, <2>2, <2>5 DEF Serves, BeginsLoadGame
  <2> QED BY <1>0, <1>4, <2>6 DEF ServiceInv, BeginsLoadGame
<1> QED BY <1>1, <1>2, <1>3, <1>4 DEF SetUp

(* An answer of the server. *)
LEMMA RespondsKeeps == ServiceInv /\ Responds => ServiceInv'
<1> SUFFICES ASSUME ServiceInv, Responds PROVE ServiceInv'
  OBVIOUS
<1>1. UNCHANGED <<romHash, state, setUp, held, isDestroyed, taken, core, toasts, delivered>>
  BY DEF Responds
<1>2. PICK q \in client.sent \ Responded : Respond(q)
  BY DEF Responds
<1>3. CASE Gone
  <2>1. pending' = pending
    BY <1>2, <1>3 DEF Respond, Enqueue, Gone
  <2> QED BY <1>1, <1>3, <2>1 DEF ServiceInv, Gone
<1>4. CASE Serves
  <2>1. ~isDestroyed /\ Follows(client, romHash, state) /\ Waiting(client, pending, taken)
    BY <1>4 DEF Serves
  <2>2. client' = client
    BY <1>2, <2>1 DEF Respond
  <2>3. PICK a \in AnswersTo(q[1]) : pending' = Append(pending, [request |-> q, answer |-> a])
    BY <1>2, <2>1 DEF Respond, Enqueue
  <2>4. pending = <<>> /\ taken = <<>>
    <3>1. SUFFICES ASSUME NEW p \in client.sent, NEW b \in AnswersTo(p[1]),
                          \/ pending = <<Response(p, b)>>
                          \/ taken = <<Response(p, b)>>
                   PROVE  FALSE
      BY <2>1 DEF Waiting
    <3>2. p = q
      BY <1>2, <2>1, OneAsked
    <3>3. Response(p, b).request = q
      BY <3>2 DEF Response
    <3>4. PICK r : r = Response(p, b)
      OBVIOUS
    <3>5. r \in ToSet(<<r>>)
      BY DEF ToSet
    <3>6. r \in ToSet(pending) \cup ToSet(taken)
      BY <3>1, <3>4, <3>5
    <3>7. q \in Responded
      BY <3>3, <3>4, <3>6 DEF Responded
    <3> QED BY <1>2, <3>7
  <2>5. pending' = <<Response(q, a)>>
    <3>1. PICK r : r = Response(q, a)
      OBVIOUS
    <3>2. Append(<<>>, r) = <<r>>
      OBVIOUS
    <3> QED BY <2>3, <2>4, <3>1, <3>2 DEF Response
  <2>6. Waiting(client', pending', taken')
    BY <1>1, <1>2, <2>2, <2>4, <2>5 DEF Waiting
  <2>7. Serves'
    BY <1>1, <1>4, <2>2, <2>6 DEF Serves
  <2> QED BY <1>1, <2>7 DEF ServiceInv
<1>5. ~NoClient
  BY <1>2 DEF NoClient
<1> QED BY <1>3, <1>4, <1>5 DEF ServiceInv

(* A frame of the core thread. *)
LEMMA FrameKeeps == ServiceInv /\ Frame => ServiceInv'
<1> SUFFICES ASSUME ServiceInv, Frame PROVE ServiceInv'
  OBVIOUS
<1>0. romHash \in Hashes \cup {None} /\ ~delivered
  BY DEF ServiceInv
<1>1. Serves /\ setUp = 4
  <2>1. core \in {"top", "drain", "run", "again"}
    BY DEF Frame, Drain, DeliverNext, RunFrame, FrameEnds
  <2>2. Serves
    BY <2>1 DEF ServiceInv, NoClient, Gone
  <2> QED BY <2>1, <2>2 DEF Serves
<1>2. held /\ ~isDestroyed /\ Follows(client, romHash, state) /\ Waiting(client, pending, taken)
  BY <1>1 DEF Serves
<1>3. CASE Drain
  <2>1. taken = <<>>
    BY <1>1, <1>3 DEF Serves, Drain
  <2>2. Waiting(client, <<>>, pending)
    BY <1>2, <2>1 DEF Waiting
  <2>3. core' \in {"drain", "again"} /\ taken' = pending /\ pending' = <<>>
    BY <1>3 DEF Drain
  <2>4. UNCHANGED <<romHash, client, state, setUp, held, isDestroyed, delivered>>
    BY <1>3 DEF Drain
  <2>5. Serves'
    BY <1>1, <1>2, <2>2, <2>3, <2>4 DEF Serves
  <2> QED BY <1>0, <2>4, <2>5 DEF ServiceInv
<1>4. CASE DeliverNext
  <2>1. taken # <<>> /\ core \in {"drain", "again"}
    BY <1>4 DEF DeliverNext
  <2>2. PICK q \in client.sent : \E a \in AnswersTo(q[1]) : pending = <<>> /\ taken = <<Response(q, a)>>
    BY <1>2, <2>1 DEF Waiting
  <2>3. PICK a \in AnswersTo(q[1]) : pending = <<>> /\ taken = <<Response(q, a)>>
    BY <2>2
  <2>4. Head(taken) = Response(q, a) /\ Tail(taken) = <<>>
    <3>1. PICK r : r = Response(q, a)
      OBVIOUS
    <3>2. Head(<<r>>) = r /\ Tail(<<r>>) = <<>>
      OBVIOUS
    <3> QED BY <2>3, <3>1, <3>2
  <2>5. PICK h : h = After(Deliver(Response(q, a)))
    OBVIOUS
  <2>6. Follows(h.client, romHash, h.state)
    BY <1>0, <1>2, <2>5, DeliveryFollows
  <2>7. client' = h.client /\ state' = h.state /\ taken' = <<>>
    BY <1>4, <2>4, <2>5 DEF DeliverNext
  <2>8. UNCHANGED <<romHash, setUp, held, isDestroyed, pending, core>>
    BY <1>4 DEF DeliverNext
  <2>9. Waiting(client', pending', taken')
    BY <2>3, <2>7, <2>8 DEF Waiting
  <2>10. ~delivered'
    <3>1. client.alive
      BY <1>2, FollowedIsThere
    <3> QED BY <1>0, <1>4, <3>1 DEF DeliverNext
  <2>11. Serves'
    BY <1>1, <1>2, <2>6, <2>7, <2>8, <2>9 DEF Serves
  <2> QED BY <1>0, <2>8, <2>10, <2>11 DEF ServiceInv
<1>5. CASE RunFrame
  <2>1. taken = <<>> /\ core' = "run" /\ UNCHANGED <<romHash, setUp, held, isDestroyed, pending, taken, delivered>>
    BY <1>5 DEF RunFrame
  <2>2. PICK h : h = After(RunActivations(client))
    OBVIOUS
  <2>3. Follows(h.client, romHash, h.state) /\ (client.sent # {} => h.client = client)
    BY <1>2, <2>2, RunFollows
  <2>4. client' = h.client /\ state' = h.state
    BY <1>5, <2>2 DEF RunFrame
  <2>5. Waiting(client', pending, taken)
    <3>1. CASE client.sent = {}
      BY <1>2, <3>1 DEF Waiting
    <3>2. CASE client.sent # {}
      BY <1>2, <2>3, <2>4, <3>2
    <3> QED BY <3>1, <3>2
  <2>6. Serves'
    BY <1>1, <1>2, <2>1, <2>3, <2>4, <2>5 DEF Serves
  <2> QED BY <1>0, <2>1, <2>6 DEF ServiceInv
<1>6. CASE FrameEnds
  <2>1. UNCHANGED <<romHash, client, state, setUp, held, isDestroyed, pending, taken, delivered>> /\ taken = <<>>
    BY <1>6 DEF FrameEnds
  <2>2. Serves'
    BY <1>1, <1>2, <2>1 DEF Serves
  <2> QED BY <1>0, <2>1, <2>2 DEF ServiceInv
<1> QED BY <1>3, <1>4, <1>5, <1>6 DEF Frame

(* The core thread starts and ends. *)
LEMMA StartStopKeeps == ServiceInv /\ (Start \/ Stop) => ServiceInv'
<1> SUFFICES ASSUME ServiceInv, Start \/ Stop PROVE ServiceInv'
  OBVIOUS
<1>1. /\ UNCHANGED <<romHash, client, state, setUp, held, isDestroyed, pending, taken, toasts, delivered>>
      /\ core \in {"none", "top"} /\ core' \in {"top", "ended"} /\ (core = "none" => setUp = 4)
  BY DEF Start, Stop
<1>2. Serves /\ setUp = 4
  BY <1>1 DEF ServiceInv, NoClient, Gone, Serves
<1>3. taken = <<>>
  BY <1>1, <1>2 DEF Serves
<1>4. Serves'
  BY <1>1, <1>2, <1>3 DEF Serves
<1> QED BY <1>1, <1>4 DEF ServiceInv

(* The client goes, once the core thread has ended. *)
LEMMA TeardownKeeps == ServiceInv /\ Teardown => ServiceInv'
<1> SUFFICES ASSUME ServiceInv, Teardown PROVE ServiceInv'
  OBVIOUS
<1>1. core = "ended" /\ held /\ ~held' /\ isDestroyed' /\ pending' = <<>>
      /\ UNCHANGED <<romHash, state, setUp, taken, core, toasts, delivered>>
  BY DEF Teardown
<1>2. Serves
  BY <1>1 DEF ServiceInv, NoClient, Gone
<1>3. taken = <<>> /\ setUp = 4
  BY <1>1, <1>2 DEF Serves
<1>4. Gone'
  BY <1>1, <1>3 DEF Gone
<1> QED BY <1>1, <1>4 DEF ServiceInv

(* Any step. *)
LEMMA ServiceNextKeeps == ServiceInv /\ [serviceNext]_<<client, serviceVars>> => ServiceInv'
<1> SUFFICES ASSUME ServiceInv, [serviceNext]_<<client, serviceVars>> PROVE ServiceInv'
  OBVIOUS
<1>1. CASE UNCHANGED <<client, serviceVars>>
  BY <1>1 DEF serviceVars, ServiceInv, NoClient, Serves, Gone
<1>2. CASE serviceNext
  BY <1>2, SetUpKeeps, RespondsKeeps, FrameKeeps, StartStopKeeps, TeardownKeeps DEF serviceNext
<1> QED BY <1>1, <1>2

(* RCClientService.swift: the client goes through login, identification,   *)
(* session and activation in that order, at most one request is answered   *)
(* at a time, and the service is in step with it.                          *)
THEOREM ServiceInvariance == ServiceSpec => []ServiceInv
<1>1. ServiceInv /\ [serviceNext]_<<client, serviceVars>> => ServiceInv'
  BY ServiceNextKeeps
<1> QED BY <1>1, ServiceInitHolds, PTL DEF ServiceSpec

(* The state by which handleAsyncCallback tells one callback from another  *)
(* is that of the client, whatever the order of answers and frames.        *)
THEOREM StateIsTheClients == ServiceSpec => []StateFollowsClient
<1>1. ServiceInv => StateFollowsClient
  <2>1. SUFFICES ASSUME held, Follows(client, romHash, state)
        PROVE  /\ state = "loggingIn" <=> client.user = "requested"
               /\ state = "loadingGame" <=> client.current # None
               /\ state = "loaded" => client.game # None /\ client.told[OfLoad(client.game)] = <<"ok">>
               /\ client.begun <= 1
    BY DEF ServiceInv, NoClient, Serves, Gone, StateFollowsClient
  <2>2. CASE state = "idle" /\ (SignedOut(client, romHash) \/ Emptied(client) \/ Failed(client))
    BY <2>2 DEF SignedOut, Emptied, Failed, NotBegun, Begins, Vacant
  <2>3. CASE state = "loggingIn" /\ LoggingIn(client, romHash)
    BY <2>3 DEF LoggingIn, NotBegun, Vacant
  <2>4. CASE state = "loggedIn" /\ LoggedIn(client, romHash)
    BY <2>4 DEF LoggedIn, NotBegun, Vacant
  <2>5. CASE state = "loadingGame" /\ (Identifying(client) \/ Starting(client) \/ Activating(client))
    BY <2>5, First DEF Identifying, Starting, Activating, Awaited, Begins
  <2>6. CASE state = "loaded" /\ Playing(client)
    BY <2>6, First DEF Playing, Failed, Begins, Vacant
  <2> QED BY <2>1, <2>2, <2>3, <2>4, <2>5, <2>6 DEF Follows
<1> QED BY <1>1, ServiceInvariance, PTL

(* A response is never delivered to a client that was destroyed, and none  *)
(* is left for one: enqueue and destroy.                                   *)
THEOREM NothingIsDeliveredLate == ServiceSpec => []NoneAfterDestroy
<1>1. ServiceInv => NoneAfterDestroy
  BY DEF ServiceInv, NoClient, Serves, Gone, NoneAfterDestroy
<1> QED BY <1>1, ServiceInvariance, PTL
=============================================================================
