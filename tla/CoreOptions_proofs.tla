--------------------------- MODULE CoreOptions_proofs ---------------------------
(***************************************************************************)
(* Proofs about CoreOptions, for any number of options, of values and of   *)
(* publishes.  The inductive invariant has three parts that do not need    *)
(* each other: what the core has seen, what is saved, and what is shown.   *)
(* Each has its lemma, with one step per action.                           *)
(***************************************************************************)
EXTENDS CoreOptions, FiniteSetTheorems, SequenceTheorems, TLAPS

USE DEF Threads, Other

\* The rows of a snapshot are one of the lists the type allows.
LEMMA RowsType ==
  ASSUME TypeOK
  PROVE  Rows \in RowLists
<1>1. n \in 0..MaxKeys /\ Options(n) \subseteq Keys
  BY KeysAssumption DEF TypeOK, Options, Keys
<1>2. Rows \in [Options(n) -> Token]
  BY <1>1 DEF TypeOK, Rows
<1>. QED
  BY <1>1, <1>2 DEF RowLists

\* Before anything is published there are no rows.
LEMMA NoRowsType == NoRows \in Snapshot /\ NoRows.rows \in RowLists
<1>1. Options(0) = {}
  BY DEF Options
<1>2. [k \in {} |-> 0] \in [Options(0) -> Token]
  BY <1>1
<1>3. [k \in {} |-> 0] \in RowLists
  BY <1>2, KeysAssumption DEF RowLists
<1>. QED
  BY <1>3, KeysAssumption DEF NoRows, Snapshot

\* A block's cursor is one a row may have.
LEMMA ClampType ==
  ASSUME NEW s \in Snapshot
  PROVE  Clamp(s) \in 0..MaxKeys
<1>1. PICK m \in 0..MaxKeys : s.rows \in [Options(m) -> Token]
  BY DEF Snapshot, RowLists
<1>2. DOMAIN s.rows = 0..(m - 1)
  BY <1>1 DEF Options
<1>3. Cardinality(DOMAIN s.rows) = m
  BY <1>2, FS_Interval, KeysAssumption
<1>. QED
  BY <1>3, KeysAssumption DEF Clamp, Snapshot

\* The initial state satisfies the invariant.
LEMMA OptionsInit == Init => OptionsInv
<1>. SUFFICES ASSUME Init PROVE OptionsInv
  OBVIOUS
<1>1. Rows = NoRows.rows
  BY DEF Options, Rows, Init, NoRows
<1>2. TypeOK
  <2>1. 0 \in Keys /\ 0 \in Token /\ 0 \in 0..MaxKeys
    BY KeysAssumption, TokensAssumption DEF Keys, Token
  <2>2. /\ pc \in [Threads -> PCs] /\ pc["main"] # "copy" /\ pc["core"] # "reset"
        /\ key \in [Threads -> Keys] /\ token \in [Threads -> Token]
        /\ copy \in [Threads -> [Keys -> Token]] /\ shown \in [Threads -> Snapshot]
    BY <2>1, NoRowsType DEF Init, PCs
  <2>. QED
    BY <2>1, <2>2, NoRowsType DEF Init, TypeOK
<1>3. SeenInv /\ SavedInv
  BY DEF Init, SeenInv, CoreSeesValues, TornIsFlagged, CopiesWhatItReads, SavedInv,
         SavedMatchesValues, SavesCarryValues, Saving, Options
<1>4. RowsInv
  BY <1>1 DEF Init, RowsInv, SnapshotIsFresh, LatestIsFresh, OneIsNewer,
              StaleIsPending, Latest
<1>. QED
  BY <1>2, <1>3, <1>4 DEF OptionsInv

\* Adopting a token keeps the types, whoever adopts it.
LEMMA AdoptType ==
  ASSUME TypeOK, NEW t \in Threads, NEW k \in Keys, NEW v \in Token, Adopt(t, k, v)
  PROVE  TypeOK'
<1>1. values' \in [Keys -> Token] /\ overlap' \in BOOLEAN
  BY DEF TypeOK, Adopt, Rewrite
<1>2. pc' \in [Threads -> PCs] /\ pc'["main"] # "copy" /\ pc'["core"] # "reset"
  BY DEF TypeOK, Adopt, PCs
<1>3. /\ key' \in [Threads -> Keys] /\ token' \in [Threads -> Token]
      /\ changed' \in BOOLEAN /\ lostSave' \in BOOLEAN
  BY DEF TypeOK, Adopt
<1>. QED
  BY <1>1, <1>2, <1>3 DEF TypeOK, Adopt, screen

\* Every step keeps the types.
LEMMA TypeStep ==
  ASSUME TypeOK, [Next]_vars
  PROVE  TypeOK'
<1>0. 0 \in Keys /\ 0 \in Token /\ [k \in Keys |-> 0] \in [Keys -> Token]
  BY KeysAssumption, TokensAssumption DEF Keys, Token
<1>1. ASSUME NEW m \in 0..MaxKeys, Ingest(m) PROVE TypeOK'
  <2>1. values' \in [Keys -> Token] /\ Options(m) \subseteq Keys
    BY <1>1, KeysAssumption DEF TypeOK, Ingest, Options, Keys
  <2>2. pc' \in [Threads -> PCs] /\ pc'["main"] # "copy" /\ pc'["core"] # "reset"
    BY <1>1 DEF TypeOK, Ingest, PCs
  <2>3. lostSave' \in BOOLEAN
    BY <1>1 DEF Ingest, Saving
  <2>. QED
    BY <1>1, <2>1, <2>2, <2>3 DEF TypeOK, Ingest, screen
<1>2. ASSUME NEW delta \in {-1, 1}, CycleValue(delta) PROVE TypeOK'
  <2>1. cursor \in Keys /\ values[cursor] \in Token
    BY <1>2, KeysAssumption DEF TypeOK, CycleValue, Keys
  <2>2. (values[cursor] + delta + Tokens) % Tokens \in Token
    BY <2>1, TokensAssumption DEF Token
  <2>. QED
    BY <1>2, <2>1, <2>2, AdoptType DEF CycleValue
<1>3. ASSUME NEW k \in Keys, NEW v \in Token, SetVariable(k, v) PROVE TypeOK'
  BY <1>3, AdoptType DEF SetVariable
<1>4. ASSUME NEW delta \in {-1, 1}, MoveCursor(delta) PROVE TypeOK'
  <2>1. cursor' \in 0..MaxKeys
    <3>1. CASE n = 0
      BY <1>4, <3>1 DEF TypeOK, MoveCursor
    <3>2. CASE n # 0
      <4>1. n \in Nat /\ n + 1 \in Nat \ {0} /\ cursor + delta + n + 1 \in Int
        BY <3>2, KeysAssumption DEF TypeOK
      <4>2. (cursor + delta + n + 1) % (n + 1) \in 0..n
        BY <4>1
      <4>. QED
        BY <1>4, <3>2, <4>2, KeysAssumption DEF TypeOK, MoveCursor
    <3>. QED
      BY <3>1, <3>2
  <2>. QED
    BY <1>4, <2>1 DEF TypeOK, MoveCursor, PCs, model, store, core
<1>5. CASE ActivateResetRow
  BY <1>5 DEF TypeOK, ActivateResetRow, PCs, model, store, screen, core
<1>6. CASE ResetOverrides
  <2>1. values' \in [Keys -> Token] /\ overlap' \in BOOLEAN /\ lostSave' \in BOOLEAN
    BY <1>0, <1>6 DEF TypeOK, ResetOverrides, ReseedDefaults, Rewrite, Saving
  <2>. QED
    BY <1>0, <1>6, <2>1 DEF TypeOK, ResetOverrides, ReseedDefaults, ClearCoreOptions,
       RaiseChanged, ThenPublish, PCs, screen
<1>7. ASSUME NEW t \in Threads, Save(t) PROVE TypeOK'
  <2>1. [saved EXCEPT ![key[t]] = token[t]] \in [Keys -> Token]
    BY DEF TypeOK
  <2>. QED
    BY <1>0, <1>7, <2>1 DEF TypeOK, Save, PCs, model, screen, core
<1>8. ASSUME NEW t \in Threads, Store(t) PROVE TypeOK'
  BY <1>0, <1>8 DEF TypeOK, Store, PCs, model, screen, core
<1>9. ASSUME NEW t \in Threads, TakeSnapshot(t) PROVE TypeOK'
  <2>1. [rows |-> Rows, cursor |-> cursor] \in Snapshot
    BY RowsType DEF Snapshot, TypeOK
  <2>. QED
    BY <1>9, <2>1 DEF TypeOK, TakeSnapshot, PCs, model, store, core
<1>10. ASSUME NEW t \in Threads, Post(t) PROVE TypeOK'
  <2>1. shown[t] \in Snapshot /\ NoRows \in Snapshot
    BY NoRowsType DEF TypeOK
  <2>2. mainQ' \in Seq(Snapshot)
    BY <1>10, <2>1 DEF TypeOK, Post
  <2>. QED
    BY <1>10, <2>1, <2>2 DEF TypeOK, Post, PCs, model, store, core
<1>11. CASE Block
  <2>1. Head(mainQ) \in Snapshot /\ Tail(mainQ) \in Seq(Snapshot)
    BY <1>11 DEF TypeOK, Block
  <2>2. Clamp(Head(mainQ)) \in 0..MaxKeys /\ Head(mainQ).rows \in RowLists
    BY <2>1, ClampType DEF Snapshot
  <2>. QED
    BY <1>11, <2>1, <2>2 DEF TypeOK, Block, model, store, core
<1>12. CASE TakeChangedFlag
  <2>1. Options(n) \subseteq Keys
    BY KeysAssumption DEF TypeOK, Options, Keys
  <2>. QED
    BY <1>12, <2>1 DEF TypeOK, TakeChangedFlag, store, screen
<1>13. ASSUME NEW k \in Keys, ReadValue(k) PROVE TypeOK'
  BY <1>13 DEF TypeOK, ReadValue, PCs, model, screen
<1>14. CASE CopyValue
  <2>1. seen' \in [Keys -> Token \union {Torn}]
    BY <1>14 DEF TypeOK, CopyValue
  <2>. QED
    BY <1>0, <1>14, <2>1 DEF TypeOK, CopyValue, PCs, model, screen
<1>15. CASE UNCHANGED vars
  BY <1>15 DEF TypeOK, vars
<1>. QED
  BY <1>1, <1>2, <1>3, <1>4, <1>5, <1>6, <1>7, <1>8, <1>9, <1>10, <1>11, <1>12, <1>13,
     <1>14, <1>15 DEF Next

\* Every step keeps what is known of what the core has seen.
LEMMA SeenStep ==
  ASSUME TypeOK, SeenInv, [Next]_vars
  PROVE  SeenInv'
<1>. USE DEF SeenInv, CoreSeesValues, TornIsFlagged, CopiesWhatItReads
<1>1. ASSUME NEW m \in 0..MaxKeys, Ingest(m) PROVE SeenInv'
  BY <1>1 DEF TypeOK, Ingest, Call, Options
<1>2. ASSUME NEW t \in Threads, NEW k \in Keys, NEW v \in Token, Adopt(t, k, v)
      PROVE  SeenInv'
  BY <1>2 DEF TypeOK, Adopt
<1>3. ASSUME NEW delta \in {-1, 1}, CycleValue(delta) PROVE SeenInv'
  <2>1. cursor \in Keys /\ values[cursor] \in Token
    BY <1>3, KeysAssumption DEF TypeOK, CycleValue, Keys
  <2>2. (values[cursor] + delta + Tokens) % Tokens \in Token
    BY <2>1, TokensAssumption DEF Token
  <2>. QED
    BY <1>2, <1>3, <2>1, <2>2 DEF CycleValue
<1>4. ASSUME NEW k \in Keys, NEW v \in Token, SetVariable(k, v) PROVE SeenInv'
  BY <1>2, <1>4 DEF SetVariable
<1>5. ASSUME NEW delta \in {-1, 1}, MoveCursor(delta) PROVE SeenInv'
  BY <1>5 DEF TypeOK, MoveCursor, model, store, core
<1>6. CASE ActivateResetRow
  BY <1>6 DEF TypeOK, ActivateResetRow, model, store, core
<1>7. CASE ResetOverrides
  BY <1>7 DEF TypeOK, ResetOverrides, ReseedDefaults, RaiseChanged, ThenPublish
<1>8. ASSUME NEW t \in Threads, Save(t) PROVE SeenInv'
  BY <1>8 DEF TypeOK, Save, model, core
<1>9. ASSUME NEW t \in Threads, Store(t) PROVE SeenInv'
  BY <1>9 DEF TypeOK, Store, model, core
<1>10. ASSUME NEW t \in Threads, TakeSnapshot(t) PROVE SeenInv'
  BY <1>10 DEF TypeOK, TakeSnapshot, model, store, core
<1>11. ASSUME NEW t \in Threads, Post(t) PROVE SeenInv'
  BY <1>11 DEF TypeOK, Post, model, store, core
<1>12. CASE Block
  BY <1>12 DEF Block, model, store, core
<1>13. CASE TakeChangedFlag
  BY <1>13 DEF TakeChangedFlag
<1>14. ASSUME NEW k \in Keys, ReadValue(k) PROVE SeenInv'
  BY <1>14 DEF TypeOK, ReadValue, model
<1>15. CASE CopyValue
  <2>1. pc'["core"] # "copy"
    BY <1>15 DEF TypeOK, CopyValue
  <2>2. ASSUME ~changed, NEW k \in Options(n), k \notin toRead'
        PROVE  seen'[k] = values[k]
    <3>1. ~overlap /\ key["core"] \in Keys /\ k \in Keys
      BY <1>15, <2>2, KeysAssumption DEF TypeOK, CopyValue, Options, Keys
    <3>2. seen' = [seen EXCEPT ![key["core"]] = values[key["core"]]]
      BY <1>15, <3>1 DEF CopyValue
    <3>. QED
      BY <1>15, <2>2, <3>1, <3>2 DEF TypeOK, CopyValue
  <2>. QED
    BY <1>15, <2>1, <2>2 DEF CopyValue, model
<1>16. CASE UNCHANGED vars
  BY <1>16 DEF vars
<1>. QED
  BY <1>1, <1>3, <1>4, <1>5, <1>6, <1>7, <1>8, <1>9, <1>10, <1>11, <1>12, <1>13, <1>14,
     <1>15, <1>16 DEF Next

\* Every step keeps what is known of the saved options.
LEMMA SavedStep ==
  ASSUME TypeOK, SavedInv, [Next]_vars
  PROVE  SavedInv'
<1>. USE DEF SavedInv, SavedMatchesValues, SavesCarryValues, Saving
<1>0. Options(n) \subseteq Keys
  BY KeysAssumption DEF TypeOK, Options, Keys
<1>1. ASSUME NEW m \in 0..MaxKeys, Ingest(m) PROVE SavedInv'
  <2>1. Options(m) \subseteq Keys
    BY KeysAssumption DEF Options, Keys
  <2>. QED
    BY <1>1, <2>1 DEF TypeOK, Ingest, Call
<1>2. ASSUME NEW t \in Threads, NEW k \in Keys, NEW v \in Token, Adopt(t, k, v),
             pc[t] = "idle"
      PROVE  SavedInv'
  <2>1. ~lostSave' => ~lostSave /\ ~Saving(Other(t)) /\ ~Saving(t)
    BY <1>2 DEF TypeOK, Adopt
  <2>2. /\ n' = n /\ saved' = saved /\ pc' = [pc EXCEPT ![t] = "save"]
        /\ key'[t] = k /\ token'[t] = v /\ values' = [values EXCEPT ![k] = v]
    BY <1>2 DEF TypeOK, Adopt, Rewrite
  <2>. QED
    BY <1>0, <2>1, <2>2 DEF TypeOK
<1>3. ASSUME NEW delta \in {-1, 1}, CycleValue(delta) PROVE SavedInv'
  <2>1. cursor \in Keys /\ values[cursor] \in Token
    BY <1>3, KeysAssumption DEF TypeOK, CycleValue, Keys
  <2>2. (values[cursor] + delta + Tokens) % Tokens \in Token
    BY <2>1, TokensAssumption DEF Token
  <2>. QED
    BY <1>2, <1>3, <2>1, <2>2 DEF CycleValue, Call
<1>4. ASSUME NEW k \in Keys, NEW v \in Token, SetVariable(k, v) PROVE SavedInv'
  BY <1>2, <1>4 DEF SetVariable, Call
<1>5. ASSUME NEW delta \in {-1, 1}, MoveCursor(delta) PROVE SavedInv'
  BY <1>5 DEF TypeOK, MoveCursor, Call, model, store
<1>6. CASE ActivateResetRow
  BY <1>6 DEF TypeOK, ActivateResetRow, Call, model, store
<1>7. CASE ResetOverrides
  <2>1. \A k \in Options(n) : saved'[k] = values'[k]
    BY <1>0, <1>7 DEF TypeOK, ResetOverrides, ReseedDefaults, Rewrite, ClearCoreOptions
  <2>2. n' = n /\ lostSave' = Saving("core") /\ pc' = [pc EXCEPT !["main"] = "publish"]
    BY <1>7 DEF ResetOverrides, ReseedDefaults, ThenPublish
  <2>. QED
    BY <2>1, <2>2 DEF TypeOK
<1>8. ASSUME NEW t \in Threads, Save(t) PROVE SavedInv'
  <2>1. /\ n' = n /\ values' = values /\ saved' = saved /\ lostSave' = lostSave
        /\ pc[t] = "save" /\ pc' = [pc EXCEPT ![t] = "store"]
        /\ copy'[t] = [saved EXCEPT ![key[t]] = token[t]]
    BY <1>8 DEF TypeOK, Save, model
  <2>2. \A u \in Threads : u # t => pc'[u] = pc[u]
    BY <2>1 DEF TypeOK
  <2>3. ~lostSave => \A k \in Options(n) : copy'[t][k] = values[k]
    BY <1>0, <2>1 DEF TypeOK
  <2>. QED
    BY <2>1, <2>2, <2>3 DEF TypeOK
<1>9. ASSUME NEW t \in Threads, Store(t) PROVE SavedInv'
  <2>1. /\ n' = n /\ values' = values /\ saved' = copy[t] /\ lostSave' = lostSave
        /\ pc[t] = "store" /\ pc' = [pc EXCEPT ![t] = "publish"]
    BY <1>9 DEF Store, model
  <2>2. ~lostSave => \A k \in Options(n) : saved'[k] = values'[k]
    BY <2>1
  <2>3. ~lostSave => ~Saving("main")' /\ ~Saving("core")'
    BY <2>1 DEF TypeOK
  <2>. QED
    BY <2>1, <2>2, <2>3
<1>10. ASSUME NEW t \in Threads, TakeSnapshot(t) PROVE SavedInv'
  BY <1>10 DEF TypeOK, TakeSnapshot, model, store
<1>11. ASSUME NEW t \in Threads, Post(t) PROVE SavedInv'
  BY <1>11 DEF TypeOK, Post, model, store
<1>12. CASE Block
  BY <1>12 DEF Block, model, store
<1>13. CASE TakeChangedFlag
  BY <1>13 DEF TakeChangedFlag, store
<1>14. ASSUME NEW k \in Keys, ReadValue(k) PROVE SavedInv'
  BY <1>14 DEF TypeOK, ReadValue, model
<1>15. CASE CopyValue
  BY <1>15 DEF TypeOK, CopyValue, model
<1>16. CASE UNCHANGED vars
  BY <1>16 DEF vars
<1>. QED
  BY <1>1, <1>3, <1>4, <1>5, <1>6, <1>7, <1>8, <1>9, <1>10, <1>11, <1>12, <1>13, <1>14,
     <1>15, <1>16 DEF Next

\* A thread that has changed the model will publish it.
LEMMA WillPublishKeepsRows ==
  ASSUME TypeOK, RowsInv, NEW t \in Threads, pc[t] # "post",
         pc' = [pc EXCEPT ![t] = "reset"] \/ pc' = [pc EXCEPT ![t] = "save"]
           \/ pc' = [pc EXCEPT ![t] = "store"] \/ pc' = [pc EXCEPT ![t] = "publish"],
         shown' = shown, stale' = stale
  PROVE  RowsInv'
<1>1. WillPublish(t)' /\ \A u \in Threads : u # t => Other(u) = t /\ pc'[u] = pc[u]
  BY DEF TypeOK, WillPublish
<1>2. pc'[t] # "post"
  BY <1>1 DEF WillPublish
<1>3. SnapshotIsFresh'
  BY <1>1, <1>2 DEF SnapshotIsFresh
<1>4. LatestIsFresh'
  BY <1>1 DEF LatestIsFresh
<1>5. OneIsNewer' /\ StaleIsPending'
  BY <1>1 DEF RowsInv, OneIsNewer, StaleIsPending, TypeOK
<1>. QED
  BY <1>3, <1>4, <1>5 DEF RowsInv

\* A thread that neither changes nor shows anything disturbs nothing.
LEMMA OnlyCoreKeepsRows ==
  ASSUME TypeOK, RowsInv, n' = n, values' = values, rows' = rows, mainQ' = mainQ,
         shown' = shown, stale' = stale, overtaken' = overtaken,
         \A u \in Threads : pc'[u] = pc[u] \/ {pc[u], pc'[u]} \subseteq {"idle", "copy"}
  PROVE  RowsInv'
<1>1. \A u \in Threads : /\ (WillPublish(u)' <=> WillPublish(u))
                        /\ (pc'[u] = "post" <=> pc[u] = "post")
  BY DEF WillPublish
<1>2. Rows' = Rows /\ Latest' = Latest
  BY DEF Rows, Latest
<1>3. SnapshotIsFresh'
  BY <1>1, <1>2 DEF RowsInv, SnapshotIsFresh
<1>4. LatestIsFresh'
  BY <1>1, <1>2 DEF RowsInv, LatestIsFresh
<1>5. OneIsNewer' /\ StaleIsPending'
  BY <1>1 DEF RowsInv, OneIsNewer, StaleIsPending
<1>. QED
  BY <1>3, <1>4, <1>5 DEF RowsInv

\* Every step keeps what is known of the rows.
LEMMA RowsStep ==
  ASSUME TypeOK, RowsInv, [Next]_vars
  PROVE  RowsInv'
<1>1. ASSUME NEW m \in 0..MaxKeys, Ingest(m) PROVE RowsInv'
  BY <1>1, WillPublishKeepsRows DEF Ingest, Call, screen
<1>2. ASSUME NEW delta \in {-1, 1}, CycleValue(delta) PROVE RowsInv'
  BY <1>2, WillPublishKeepsRows DEF CycleValue, Adopt, Call, screen
<1>3. ASSUME NEW k \in Keys, NEW v \in Token, SetVariable(k, v) PROVE RowsInv'
  BY <1>3, WillPublishKeepsRows DEF SetVariable, Adopt, Call, screen
<1>4. ASSUME NEW delta \in {-1, 1}, MoveCursor(delta) PROVE RowsInv'
  BY <1>4, WillPublishKeepsRows DEF MoveCursor, Call
<1>5. CASE ActivateResetRow
  BY <1>5, WillPublishKeepsRows DEF ActivateResetRow, Call, screen
<1>6. CASE ResetOverrides
  BY <1>6, WillPublishKeepsRows DEF ResetOverrides, ReseedDefaults, ThenPublish, screen
<1>7. ASSUME NEW t \in Threads, Save(t) PROVE RowsInv'
  BY <1>7, WillPublishKeepsRows DEF Save, screen
<1>8. ASSUME NEW t \in Threads, Store(t) PROVE RowsInv'
  BY <1>8, WillPublishKeepsRows DEF Store, screen
<1>9. ASSUME NEW t \in Threads, TakeSnapshot(t) PROVE RowsInv'
  <2>1. /\ pc'[t] = "post" /\ ~stale'[t] /\ shown'[t].rows = Rows /\ Rows' = Rows
        /\ \A u \in Threads : u # t => pc'[u] = pc[u] /\ shown'[u] = shown[u]
                                     /\ (stale'[u] <=> pc[u] = "post")
    BY <1>9 DEF TypeOK, TakeSnapshot, model, Rows
  <2>2. SnapshotIsFresh'
    BY <2>1 DEF SnapshotIsFresh
  <2>3. LatestIsFresh'
    BY <2>1 DEF LatestIsFresh
  <2>4. OneIsNewer' /\ StaleIsPending'
    BY <2>1 DEF OneIsNewer, StaleIsPending
  <2>. QED
    BY <2>2, <2>3, <2>4 DEF RowsInv
<1>10. ASSUME NEW t \in Threads, Post(t) PROVE RowsInv'
  <2>1. /\ pc[t] = "post" /\ pc'[t] = "idle" /\ ~stale'[t] /\ Rows' = Rows
        /\ \A u \in Threads : u # t => /\ pc'[u] = pc[u] /\ shown'[u] = shown[u]
                                     /\ stale'[u] = stale[u] /\ Other(u) = t /\ Other(t) = u
        /\ overtaken' = stale[t]
    BY <1>10 DEF TypeOK, Post, model, Rows
  <2>2. ~WillPublish(t) /\ ~WillPublish(t)'
    BY <2>1 DEF WillPublish
  <2>3. SnapshotIsFresh'
    BY <2>1, <2>2 DEF RowsInv, SnapshotIsFresh
  <2>4. Latest' = shown[t].rows
    <3>1. /\ mainQ' = Append(mainQ, shown[t]) /\ mainQ \in Seq(Snapshot)
          /\ shown[t] \in Snapshot
      BY <1>10 DEF Post, TypeOK
    <3>2. mainQ' # <<>> /\ mainQ'[Len(mainQ')] = shown[t]
      BY <3>1
    <3>. QED
      BY <3>2 DEF Latest
  <2>5. LatestIsFresh'
    <3>1. SUFFICES ASSUME ~stale[t], \A u \in Threads : ~WillPublish(u)'
                   PROVE  shown[t].rows = Rows
      BY <2>1, <2>4 DEF LatestIsFresh
    <3>2. ~WillPublish(Other(t))
      BY <2>1, <3>1 DEF WillPublish
    <3>. QED
      BY <2>1, <3>1, <3>2 DEF RowsInv, SnapshotIsFresh
  <2>6. OneIsNewer' /\ StaleIsPending'
    BY <2>1 DEF RowsInv, OneIsNewer, StaleIsPending
  <2>. QED
    BY <2>3, <2>5, <2>6 DEF RowsInv
<1>11. CASE Block
  <2>1. mainQ \in Seq(Snapshot) /\ mainQ # <<>>
    BY <1>11 DEF TypeOK, Block
  <2>2. Latest' = Latest
    <3>1. CASE Tail(mainQ) = <<>>
      <4>1. Len(mainQ) = 1
        <5>1. Len(Tail(mainQ)) = Len(mainQ) - 1
          BY <2>1, HeadTailProperties
        <5>2. Len(Tail(mainQ)) = 0
          BY <3>1, EmptySeq, Zenon
        <5>3. Len(mainQ) \in Nat
          BY <2>1
        <5>. QED
          BY <5>1, <5>2, <5>3
      <4>2. Head(mainQ) = mainQ[Len(mainQ)]
        BY <2>1, <4>1
      <4>. QED
        BY <1>11, <2>1, <3>1, <4>2 DEF Block, Latest
    <3>2. CASE Tail(mainQ) # <<>>
      <4>1. Tail(mainQ)[Len(Tail(mainQ))] = mainQ[Len(mainQ)]
        BY <2>1, <3>2
      <4>. QED
        BY <1>11, <2>1, <3>2, <4>1 DEF Block, Latest
    <3>. QED
      BY <3>1, <3>2
  <2>3. /\ Rows' = Rows /\ pc' = pc /\ shown' = shown /\ stale' = stale
        /\ overtaken' = overtaken
    BY <1>11 DEF Block, model, Rows
  <2>. QED
    BY <2>2, <2>3 DEF RowsInv, SnapshotIsFresh, LatestIsFresh, OneIsNewer, StaleIsPending,
                      WillPublish
<1>12. CASE TakeChangedFlag
  <2>1. pc' = pc
    BY <1>12 DEF TakeChangedFlag
  <2>. QED
    BY <1>12, <2>1, OnlyCoreKeepsRows DEF TakeChangedFlag, screen
<1>13. ASSUME NEW k \in Keys, ReadValue(k) PROVE RowsInv'
  <2>1. \A u \in Threads : pc'[u] = pc[u] \/ {pc[u], pc'[u]} \subseteq {"idle", "copy"}
    BY <1>13 DEF TypeOK, ReadValue
  <2>. QED
    BY <1>13, <2>1, OnlyCoreKeepsRows DEF ReadValue, model, screen
<1>14. CASE CopyValue
  <2>1. \A u \in Threads : pc'[u] = pc[u] \/ {pc[u], pc'[u]} \subseteq {"idle", "copy"}
    BY <1>14 DEF TypeOK, CopyValue
  <2>. QED
    BY <1>14, <2>1, OnlyCoreKeepsRows DEF CopyValue, model, screen
<1>15. CASE UNCHANGED vars
  BY <1>15, OnlyCoreKeepsRows DEF vars
<1>. QED
  BY <1>1, <1>2, <1>3, <1>4, <1>5, <1>6, <1>7, <1>8, <1>9, <1>10, <1>11, <1>12, <1>13,
     <1>14, <1>15 DEF Next

\* The inductive invariant holds in every run, for any number of options,
\* values and publishes under way (CoreOptionsModel.swift:49-246).
THEOREM Invariance == Spec => []OptionsInv
<1>1. OptionsInv /\ [Next]_vars => OptionsInv'
  BY TypeStep, SeenStep, SavedStep, RowsStep DEF OptionsInv
<1>. QED
  BY <1>1, OptionsInit, PTL DEF Spec

\* Every variable keeps its type: a clamped cursor names a row or the reset
\* row, a cycled token one of the option's values.
THEOREM TypeCorrect == Spec => []TypeOK
<1>1. OptionsInv => TypeOK
  BY DEF OptionsInv
<1>. QED
  BY <1>1, Invariance, PTL

\* The core misses no change: with the flag down it has seen the value of
\* every option it is not still to read (takeChangedFlag, readValue).
THEOREM CoreSeesValuesHolds == Spec => []CoreSeesValues
<1>1. OptionsInv => CoreSeesValues
  BY DEF OptionsInv, SeenInv
<1>. QED
  BY <1>1, Invariance, PTL

\* What is in use is what is saved, unless two writers overlapped
\* (cycleValue, setValue, resetOverrides, ingest; setCoreOption).
THEOREM SavedMatchesValuesHolds == Spec => []SavedMatchesValues
<1>1. OptionsInv => SavedMatchesValues
  BY DEF OptionsInv, SavedInv
<1>. QED
  BY <1>1, Invariance, PTL

\* The rows shown at rest are those of the model, unless two publishes
\* overlapped and the older came last (publish).
THEOREM RowsCatchUpHolds == Spec => []RowsCatchUp
<1>1. OptionsInv => RowsCatchUp
  BY DEF OptionsInv, RowsInv, LatestIsFresh, RowsCatchUp, Latest, WillPublish
<1>. QED
  BY <1>1, Invariance, PTL

==============================================================================
