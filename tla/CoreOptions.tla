------------------------------ MODULE CoreOptions ------------------------------
(***************************************************************************)
(* The running core's options: Launch/CoreOptionsModel.swift, the part of  *)
(* Libraries/SettingsStore.swift that keeps them per game, and the         *)
(* environment calls of Launch/RetroEnvironment.swift that reach them.     *)
(*                                                                         *)
(* Two threads work on one model: the main thread for the overlay, and the *)
(* thread the core is called on (the load queue first, then the core       *)
(* thread: never both).  What a method does under its lock is one step.    *)
(* What it does after unlocking is not: the saved options are read,        *)
(* changed and written back without a lock, and publish() takes a snapshot *)
(* under the lock but posts it to the main queue afterwards.               *)
(*                                                                         *)
(* An option is a number below n, its place in the sorted keys, and a      *)
(* token is its place in the option's values, 0 being the default.  A      *)
(* saved token that is missing, or not one of the values, counts as 0.     *)
(***************************************************************************)
EXTENDS Integers, Sequences, FiniteSets

CONSTANTS MaxKeys,      \* bound: the most options a core declares
          Tokens,       \* how many values an option has
          Torn,         \* what a copy of a half-written token may show
          MaxBlocks     \* bound: publishes under way or waiting on the main queue

ASSUME KeysAssumption == MaxKeys \in Nat \ {0}
ASSUME TokensAssumption == Tokens \in Nat \ {0}
ASSUME TornAssumption == Torn \notin 0..(Tokens - 1)
ASSUME BlocksAssumption == MaxBlocks \in Nat \ {0}

Keys == 0..(MaxKeys - 1)
Token == 0..(Tokens - 1)
Threads == {"main", "core"}
Other(t) == IF t = "main" THEN "core" ELSE "main"

VARIABLES n,          \* keys.count
          values,     \* values, and the buffers that GET_VARIABLE hands out
          changed,    \* changed
          cursor,     \* cursor
          rows,       \* rows, as last published: the token of each option
          saved,      \* SettingsStore.coreOptions[core][game]
          mainQ,      \* the blocks publish() has posted
          pc,         \* where each thread is
          key,        \* the option each thread is saving, or the core copying
          token,      \* the token each thread is saving
          copy,       \* setCoreOption's copy of the saved options
          shown,      \* publish's snapshot
          seen,       \* what the core has copied out of the buffers
          toRead,     \* the options the core has yet to read
          overlap,    \* a buffer was rewritten while the core copied it
          lostSave,   \* history: two writes of the saved options overlapped
          stale,      \* history: a newer snapshot exists than the thread's own
          overtaken   \* history: the newest block carries the older snapshot

model == <<n, values, changed>>
store == <<saved, copy, key, token, lostSave>>
screen == <<cursor, rows, mainQ, shown, stale, overtaken>>
core == <<seen, toRead, overlap>>
vars == <<n, values, changed, cursor, rows, saved, mainQ, pc, key, token, copy,
          shown, seen, toRead, overlap, lostSave, stale, overtaken>>

Options(m) == 0..(m - 1)

\* The rows publish() builds from the model.
Rows == [k \in Options(n) |-> values[k]]

RowLists == UNION {[Options(m) -> Token] : m \in 0..MaxKeys}
Snapshot == [rows : RowLists, cursor : 0..MaxKeys]
NoRows == [rows |-> [k \in {} |-> 0], cursor |-> 0]

PCs == {"idle", "reset", "save", "store", "publish", "post", "copy"}

\* A thread that has changed the model and not yet the saved options.
Saving(t) == pc[t] \in {"save", "store"}

(***************************************************************************)
(* No action constrains what was saved for the game before.               *)
(***************************************************************************)
Init ==
    /\ n = 0
    /\ values = [k \in Keys |-> 0]
    /\ changed = FALSE
    /\ cursor = 0
    /\ rows = NoRows.rows
    /\ saved \in [Keys -> Token]
    /\ mainQ = <<>>
    /\ pc = [t \in Threads |-> "idle"]
    /\ key = [t \in Threads |-> 0]
    /\ token = [t \in Threads |-> 0]
    /\ copy = [t \in Threads |-> [k \in Keys |-> 0]]
    /\ shown = [t \in Threads |-> NoRows]
    /\ seen = [k \in Keys |-> 0]
    /\ toRead = {}
    /\ overlap = FALSE
    /\ lostSave = FALSE
    /\ stale = [t \in Threads |-> FALSE]
    /\ overtaken = FALSE

\* A method that ends in publish() is called.
Call(t) ==
    /\ pc[t] = "idle"
    /\ Len(mainQ) + Cardinality({u \in Threads : pc[u] \notin {"idle", "copy"}})
         < MaxBlocks

\* The buffers are rewritten, perhaps while the core copies one of them.
Rewrite(newValues) ==
    /\ values' = newValues
    /\ overlap' = (overlap \/ /\ pc["core"] = "copy"
                              /\ newValues[key["core"]] # values[key["core"]])

------------------------------------------------------------------------------
\* Methods of the model, up to the unlock

\* SET_VARIABLES with m options.  A core reads them afterwards.
Ingest(m) ==
    /\ Call("core")
    /\ n' = m
    /\ values' = [k \in Keys |-> IF k \in Options(m) THEN saved[k] ELSE values[k]]
    /\ changed' = FALSE
    /\ toRead' = Options(m)
    /\ lostSave' = Saving("main")
    /\ pc' = [pc EXCEPT !["core"] = "publish"]
    /\ UNCHANGED <<screen, saved, copy, key, token, seen, overlap>>

\* A thread adopts a token for an option, to be saved after the unlock.
Adopt(t, k, v) ==
    /\ Rewrite([values EXCEPT ![k] = v])
    /\ changed' = TRUE
    /\ key' = [key EXCEPT ![t] = k]
    /\ token' = [token EXCEPT ![t] = v]
    /\ lostSave' = (lostSave \/ Saving(Other(t)))
    /\ pc' = [pc EXCEPT ![t] = "save"]
    /\ UNCHANGED <<n, screen, saved, copy, seen, toRead>>

\* Mutant: no way round from the first value to the last.
CycleValueUnwrapped(delta) ==
    /\ Call("main")
    /\ cursor < n
    /\ Adopt("main", cursor, values[cursor] + delta)

\* cycleValue: left and right on an option's row.
CycleValue(delta) ==
    /\ Call("main")
    /\ cursor < n
    /\ Adopt("main", cursor, (values[cursor] + delta + Tokens) % Tokens)

\* setValue, from the core's own SET_VARIABLE.
SetVariable(k, v) ==
    /\ Call("core")
    /\ k < n
    /\ Adopt("core", k, v)

\* moveCursor: up and down, over the options and the reset row after them.
MoveCursor(delta) ==
    /\ Call("main")
    /\ cursor' = IF n = 0 THEN cursor ELSE (cursor + delta + n + 1) % (n + 1)
    /\ pc' = [pc EXCEPT !["main"] = "publish"]
    /\ UNCHANGED <<model, store, core, rows, mainQ, shown, stale, overtaken>>

\* activateResetRow: confirm, or a click on the row.  It unlocks ...
ActivateResetRow ==
    /\ Call("main")
    /\ n > 0
    /\ cursor = n
    /\ pc' = [pc EXCEPT !["main"] = "reset"]
    /\ UNCHANGED <<model, store, screen, core>>

\* What resetOverrides does: it clears what is saved, reseeds the values,
\* raises the flag and, unlocked, publishes.
ClearCoreOptions == saved' = [k \in Keys |-> 0]
ReseedDefaults ==
    /\ pc["main"] = "reset"
    /\ Rewrite([k \in Keys |-> IF k \in Options(n) THEN 0 ELSE values[k]])
    /\ lostSave' = Saving("core")
    /\ UNCHANGED <<n, screen, copy, key, token, seen, toRead>>
RaiseChanged == changed' = TRUE
ThenPublish == pc' = [pc EXCEPT !["main"] = "publish"]

\* Mutants: one of them is forgotten.
ResetUncleared == ReseedDefaults /\ RaiseChanged /\ ThenPublish /\ UNCHANGED saved
ResetUnflagged == ClearCoreOptions /\ ReseedDefaults /\ ThenPublish /\ UNCHANGED changed
ResetUnpublished ==
    /\ ClearCoreOptions /\ ReseedDefaults /\ RaiseChanged
    /\ pc' = [pc EXCEPT !["main"] = "idle"]

\* ... before resetOverrides locks again, for whatever options there are then.
ResetOverrides == ClearCoreOptions /\ ReseedDefaults /\ RaiseChanged /\ ThenPublish

------------------------------------------------------------------------------
\* What follows the unlock

\* setCoreOption reads all saved options and changes one in its copy ...
Save(t) ==
    /\ pc[t] = "save"
    /\ copy' = [copy EXCEPT ![t] = [saved EXCEPT ![key[t]] = token[t]]]
    /\ key' = [key EXCEPT ![t] = 0]
    /\ token' = [token EXCEPT ![t] = 0]
    /\ pc' = [pc EXCEPT ![t] = "store"]
    /\ UNCHANGED <<model, screen, core, saved, lostSave>>

\* ... and writes the copy back.
Store(t) ==
    /\ pc[t] = "store"
    /\ saved' = copy[t]
    /\ copy' = [copy EXCEPT ![t] = [k \in Keys |-> 0]]
    /\ pc' = [pc EXCEPT ![t] = "publish"]
    /\ UNCHANGED <<model, screen, core, key, token, lostSave>>

\* publish() takes its snapshot under the lock ...
TakeSnapshot(t) ==
    /\ pc[t] = "publish"
    /\ shown' = [shown EXCEPT ![t] = [rows |-> Rows, cursor |-> cursor]]
    /\ stale' = [u \in Threads |-> u # t /\ pc[u] = "post"]
    /\ pc' = [pc EXCEPT ![t] = "post"]
    /\ UNCHANGED <<model, store, core, cursor, rows, mainQ, overtaken>>

\* ... and posts it without.
Post(t) ==
    /\ pc[t] = "post"
    /\ mainQ' = Append(mainQ, shown[t])
    /\ shown' = [shown EXCEPT ![t] = NoRows]
    /\ overtaken' = stale[t]
    /\ stale' = [stale EXCEPT ![t] = FALSE]
    /\ pc' = [pc EXCEPT ![t] = "idle"]
    /\ UNCHANGED <<model, store, core, cursor, rows>>

\* The cursor a block assigns: there is no row past the last option.
Clamp(s) ==
    LET count == Cardinality(DOMAIN s.rows)
    IN  IF count = 0 THEN 0
        ELSE IF s.cursor < count THEN s.cursor ELSE count - 1

\* The main thread, between two handlers, runs a block.
Block ==
    /\ pc["main"] = "idle"
    /\ mainQ # <<>>
    /\ rows' = Head(mainQ).rows
    /\ cursor' = Clamp(Head(mainQ))
    /\ mainQ' = Tail(mainQ)
    /\ UNCHANGED <<model, store, core, pc, shown, stale, overtaken>>

------------------------------------------------------------------------------
\* The core asks

\* GET_VARIABLE_UPDATE: a core that is told so reads all its options again.
TakeChangedFlag ==
    /\ pc["core"] = "idle"
    /\ changed' = FALSE
    /\ toRead' = IF changed THEN Options(n) ELSE toRead
    /\ UNCHANGED <<n, values, store, screen, pc, seen, overlap>>

\* GET_VARIABLE: the core gets the buffer and begins to copy it ...
ReadValue(k) ==
    /\ pc["core"] = "idle"
    /\ k < n
    /\ k \in toRead
    /\ key' = [key EXCEPT !["core"] = k]
    /\ overlap' = FALSE
    /\ pc' = [pc EXCEPT !["core"] = "copy"]
    /\ UNCHANGED <<model, screen, saved, copy, token, lostSave, seen, toRead>>

\* ... without the lock: rewritten meanwhile, the copy may be anything.
CopyValue ==
    /\ pc["core"] = "copy"
    /\ \E v \in IF overlap THEN Token \union {Torn} ELSE {values[key["core"]]} :
         seen' = [seen EXCEPT ![key["core"]] = v]
    /\ toRead' = toRead \ {key["core"]}
    /\ key' = [key EXCEPT !["core"] = 0]
    /\ overlap' = FALSE
    /\ pc' = [pc EXCEPT !["core"] = "idle"]
    /\ UNCHANGED <<model, screen, saved, copy, token, lostSave>>

Next ==
    \/ \E m \in 0..MaxKeys : Ingest(m)
    \/ \E delta \in {-1, 1} : CycleValue(delta)
    \/ \E k \in Keys, v \in Token : SetVariable(k, v)
    \/ \E delta \in {-1, 1} : MoveCursor(delta)
    \/ ActivateResetRow
    \/ ResetOverrides
    \/ \E t \in Threads : Save(t)
    \/ \E t \in Threads : Store(t)
    \/ \E t \in Threads : TakeSnapshot(t)
    \/ \E t \in Threads : Post(t)
    \/ Block
    \/ TakeChangedFlag
    \/ \E k \in Keys : ReadValue(k)
    \/ CopyValue

Spec == Init /\ [][Next]_vars
------------------------------------------------------------------------------
\* The state of the model and of its two threads has the shape the code gives it.
TypeOK ==
    /\ n \in 0..MaxKeys
    /\ values \in [Keys -> Token]
    /\ changed \in BOOLEAN
    /\ cursor \in 0..MaxKeys
    /\ rows \in RowLists
    /\ saved \in [Keys -> Token]
    /\ mainQ \in Seq(Snapshot)
    /\ pc \in [Threads -> PCs]
    /\ pc["main"] # "copy" /\ pc["core"] # "reset"
    /\ key \in [Threads -> Keys]
    /\ token \in [Threads -> Token]
    /\ copy \in [Threads -> [Keys -> Token]]
    /\ shown \in [Threads -> Snapshot]
    /\ seen \in [Keys -> Token \union {Torn}]
    /\ toRead \in SUBSET Keys
    /\ overlap \in BOOLEAN
    /\ lostSave \in BOOLEAN
    /\ stale \in [Threads -> BOOLEAN]
    /\ overtaken \in BOOLEAN

\* Nothing the player does is missed by the core: while the changed flag is
\* down, a core that has read its options since it last was told to has seen
\* their values, and no torn ones, whenever the flag was raised and taken.
CoreSeesValues ==
    changed \/ \A k \in Options(n) : k \in toRead \/ seen[k] = values[k]

\* What is in use is what is saved for the game, once both threads are done,
\* unless two writers of the saved options overlapped: setCoreOption is called
\* without the lock, and the later of two writes undoes the earlier.
SavedMatchesValues ==
    (~Saving("main") /\ ~Saving("core") /\ ~lostSave) =>
        \A k \in Options(n) : saved[k] = values[k]

\* What the overlay shows is what is in use, once the main queue is empty and
\* both threads are done, unless two publishes overlapped and the older
\* snapshot was posted last.
RowsCatchUp ==
    (/\ mainQ = <<>>
     /\ \A t \in Threads : pc[t] \in {"idle", "copy"}
     /\ ~overtaken) => rows = Rows

------------------------------------------------------------------------------
\* The inductive invariant

\* Only a core that has not yet taken the flag can have copied a torn token.
TornIsFlagged == pc["core"] = "copy" /\ overlap => changed

\* The core copies an option it is due to read.
CopiesWhatItReads == pc["core"] = "copy" => key["core"] \in toRead

\* Writers that do not overlap carry the values to the saved options.
SavesCarryValues ==
    ~lostSave =>
        /\ ~(Saving("main") /\ Saving("core"))
        /\ \A t \in Threads : pc[t] = "save" =>
             /\ token[t] = values[key[t]]
             /\ \A k \in Options(n) : k # key[t] => saved[k] = values[k]
        /\ \A t \in Threads : pc[t] = "store" =>
             \A k \in Options(n) : copy[t][k] = values[k]

\* A thread that will yet take a snapshot.
WillPublish(t) == pc[t] \in {"reset", "save", "store", "publish"}

\* The rows the overlay will show when the queue is empty.
Latest == IF mainQ = <<>> THEN rows ELSE mainQ[Len(mainQ)].rows

\* A snapshot that no newer one exists of is of the model as it is, unless
\* another is about to be taken.
SnapshotIsFresh ==
    \A t \in Threads : (pc[t] = "post" /\ ~stale[t] /\ ~WillPublish(Other(t)))
        => shown[t].rows = Rows

\* The newest rows posted are those of the model, unless newer are to come.
LatestIsFresh ==
    (~overtaken /\ \A t \in Threads : ~WillPublish(t) /\ (pc[t] = "post" => stale[t]))
        => Latest = Rows

\* Of two snapshots, one is the newer.
OneIsNewer == ~(stale["main"] /\ stale["core"])

\* Only a snapshot not yet posted can be out of date.
StaleIsPending == \A t \in Threads : stale[t] => pc[t] = "post"

SeenInv == CoreSeesValues /\ TornIsFlagged /\ CopiesWhatItReads
SavedInv == SavedMatchesValues /\ SavesCarryValues
RowsInv == SnapshotIsFresh /\ LatestIsFresh /\ OneIsNewer /\ StaleIsPending

OptionsInv == TypeOK /\ SeenInv /\ SavedInv /\ RowsInv
==============================================================================
