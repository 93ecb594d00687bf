# Leblanc, verified

Leblanc (the Swift target is called GameDock) is a controller-first frontend for
macOS: it lists games from Steam and from ROM folders, hands Steam and PSP
games to other programs, and runs Nintendo DS games itself in a libretro core
loaded into its own process, with achievements followed by a copy of the
rcheevos library built into the program. This directory holds TLA+ models of
the parts whose correctness depends on the order in which threads, queues, the
server and the player act, and of the achievement runtime, whose correctness
depends on long runs of frames; the TLC configurations that check them on small
instances; and proofs checked by TLAPS that hold for every instance.

Paths below are relative to `src/Sources/GameDock/`, those of rcheevos to
`src/Sources/CRcheevos/src/`.

## 1. Inventory

### Threads and queues

* the **main thread**: SwiftUI, the input router, every `DispatchQueue.main`
  block;
* one **core thread** ("GameDock.Core") per started `EmulatorSession`;
* `emulatorLoadQueue`, a **serial queue** for loads and teardowns;
* the **global queue**: each `RetroAudioEngine.start()` is a block of its own;
* the **render thread** of `AVAudioEngine`, which may not lock or allocate;
* URLSession callbacks and Swift `Task`s for everything fetched. An answer to a
  request of the achievements client is queued by its HTTP thread and delivered
  on the core thread.

### Components

| component | state | operations | interacts with | hard | what makes it correct |
|---|---|---|---|---|---|
| Emulator life cycle: `AppEnvironment+Launch.swift`, `Launch/EmulatorSession.swift`, `Launch/RetroCore.swift` | the session on screen, boot and handoff flags, the entry being tracked; per session its state, flags, dylib, client, thread; the static `activeSession`; the load queue | launch, handoff, load, start, run a frame, exit, join, tear down, quarantine | main thread to load queue to core thread, and back through main-queue blocks; cores call back through one static table | exits during a load, a core thread that never ends, late blocks | no dylib unmapped under its thread; one core at a time; callbacks reach their owner; one game in front, its playtime recorded once; everything left is released |
| Overlays and pause: `AppEnvironment.swift` and the session's pause, resume and requests; the engine in `Launch/RetroAudioEngine.swift` | three overlay flags, the quit dialog, the pause flag, the requested command, the engine and its queued starts | the router's layers, sleep, wake, pause, resume, save, load, reset | main thread to core thread (flags, one slot) and to the global queue | flags kept apart that must agree; starts that arrive late | a paused game can be resumed, its audio comes back, a paused core stops |
| Audio ring: `Launch/RetroAudioEngine.swift` | storage, two indices | write a batch, write one sample, read | core thread and render thread, without a lock | every interleaving of loads and stores | newest audio kept, no stale audio, audio in order |
| Core options: `Launch/CoreOptionsModel.swift` | definitions, values, changed flag, cursor, rows; UserDefaults | ingest, read, set, cycle, reset, publish | main and core thread under one lock, rows by main-queue blocks | snapshots published out of order, read-modify-write of the defaults | the core ends up with the player's values; rows show the truth |
| Environment callbacks: `Launch/RetroEnvironment.swift`, `CLibretro/shim.c` | answers, handlers, stable strings | one per environment command | called by the core, in its thread or during a load | buffers the core keeps | strings live as long as the core |
| Video: `FrameSlot`, `GLHardwareBridge`, `MetalRenderer`, `PixelConverter` | one frame under a lock; GL objects | push, read, prepare, read back | core thread and display thread | sizes and formats that change | the frame shown is one that was pushed |
| Achievements service: `RetroAchievements/RCClientService.swift` | its client, its own state, responses queued and taken, destroyed flag | set up, log in, load when ready, frame, enqueue, drain, tear down | the load queue sets it up, HTTP threads enqueue, the core thread delivers, the load queue destroys | the ROM's hash and the login in either order, responses in flight at teardown | one load, begun once logged in; nothing delivered after destroy; login and load settle |
| Achievements client: `rc_client.c` | user, load states, requests in flight, the game, mode, achievements, leaderboards, trackers, events pending, unlocks to send | log in and out, load, change media, activate, frame, idle, reset, modes, save states, unload, abort, destroy; the answers of the server | called by the service; asks the runtime what triggers make of a frame; told by the server in any order | loads overtaken while they are answered, answers after the game is gone, awards sent again until answered | the last load wins; told once that it loaded; the screen shows what is tracked; each mode has its own unlocks |
| Achievements runtime: `rcheevos/` | memory references, conditions and their hits, triggers, leaderboards, rich presence | parse, frame, activate, drop, invalidate, reset, write and read progress | reads the core's memory once a frame | hits kept over hundreds of frames, restored into other definitions | counts stay within their targets; triggers once; a save state carries on; a damaged one starts over |
| Achievements hub and toasts: `RAHubModel`, `RAToastModel` | cached profile, unlocks, completions; toasts | refresh, push, expire | `Task`s and the main actor | overlapping refreshes | shown data is the newest fetched |
| Handoff: `SteamLauncher`, `StandaloneEmulatorLauncher`, `AppDelegate` | armed or not, the child process | launch, quit seen, restore | notifications, a process's end | an end that comes before the launch is recorded | the frontend always comes back |
| Library: `LibraryStore`, `RecentsStore`, `FavoritesStore`, `JSONFileStore` | games, recents, favourites, files | scan, record, toggle | scan queue and main thread | scans that race records | a recorded launch is not lost |
| Fetch caches: `ArtworkLoader`, `SteamScreenshotStore`, `SteamGridDBStore`, `IGDBClient` | memory and disk caches, fetches in flight, token | fetch, join, invalidate | `Task`s | invalidation during a fetch | one fetch at a time, nothing stale kept |
| Selection preview: `UI/SelectionPreviewModel.swift` | generation, timers, shown content | select, populate, rotate | main actor, fetches | answers for an earlier selection | the panel shows the selected game |
| Input: `ControllerManager`, `InputSnapshot`, `GlobalHIDMonitor` | active pad, repeaters, buttons | connect, disconnect, press, repeat | main thread writes, core thread reads | disconnect while a button is held | no ghost input, no repeat for ever |
| Navigation: `XMBNavModel`, `SettingsNavModel` | categories, indices | move, rebuild | main thread | lists that shrink | the index is in range |
| Steam files, settings, Discord window, system services, command line, views, rcheevos' hashing and server API, scripts | | | | | not modelled, see section 8 |

## 2. Order of the modules

1. The core of the program: `EmulatorLifecycle`, its abstract specification
   `CoreHost`, the invariant and the refinement proved.
2. What shares a thread with it: `AudioRing`, `SessionControl`, `CoreOptions`,
   each with its proofs.
3. The achievements, bottom up: `RcMemory`, `RcConditions` and `RcEvaluate`
   (pure operators, one frame of one definition), `RcRichPresence`, and
   `RcRuntime`, the first of them with a state. Its proofs are over
   `RcRuntime_invariant`, and over `FoldFacts` for every loop of the code.
4. The client in two modules that share no state but the game loaded:
   `RcClientLoad` (how a game comes to be loaded) and `RcClientPlay` (what
   happens with one that is), each with its proofs.
5. `AchievementService`, the composition: the service's threads and queues over
   `RcClientLoad`, whose operators are the client calls it makes. Its proofs are
   over those of `RcClientLoad`.

## 3. Modules

| module | models |
|---|---|
| `EmulatorLifecycle` | launching, loading, running, leaving and tearing down, with the load queue, the main queue and the core threads |
| `CoreHost` | what that promises, without queues or flags: each core is out, loading, running, or gone, released or parked; one at a time |
| `EmulatorLifecycle_proofs` | its inductive invariant, the theorems drawn from it, and that it implements `CoreHost` |
| `AudioRing` | the ring buffer, each load and store a step |
| `AudioRing_proofs` | its inductive invariant and theorems |
| `SessionControl` | overlays, pause, sleep, audio engine, requests |
| `MCSessionControl` | symmetry of sessions for TLC |
| `SessionControl_proofs` | its inductive invariant and theorems |
| `CoreOptions` | the options model between the overlay, the core and the saved settings |
| `CoreOptions_proofs` | its inductive invariant and theorems |
| `RcMemory` | values and their arithmetic, memory references, operands: `rcheevos/value.c`, `memref.c`, `operand.c` |
| `RcConditions` | what parsing makes of a definition: conditions, groups, triggers, values, leaderboards |
| `RcEvaluate` | one frame of each of them |
| `RcRichPresence` | formats, lookups, display lines |
| `RcRuntime` | `rcheevos/runtime.c` and `runtime_progress.c`: definitions come and go, frames, events, save states |
| `MCRcRuntime` | small definitions, memories and line-ups for it |
| `FoldFacts` | what a left fold keeps, for any operator: the loops of the runtime are folds |
| `RcRuntime_invariant` | the inductive invariant of the runtime and the shapes it speaks of |
| `RcRuntime_proofs` | the lemmas about the operators of the four modules, and the theorems of the runtime |
| `RcClientLoad` | `rc_client.c` up to the game: users, loads, media, sessions, their requests and answers |
| `AchievementService` | `RCClientService.swift` over it |
| `RcClientLoad_proofs` | the inductive invariants and theorems of both, those of the service last |
| `RcClientPlay` | `rc_client.c` from the game on: frames, events, trackers, awards, modes, save states, lists |
| `MCRcClientPlay` | seven small games for it |
| `RcClientPlay_proofs` | its inductive invariant and theorems |

### EmulatorLifecycle

State: the fields of `AppEnvironment` under their own names (`emulator`,
`screen`, `isLaunching`, `isLaunchingGame`, `isEmulatorLoadPending`,
`idleActivity`, `sessionEntryID`); `quitAsked` for the "Quit ...?" confirmation;
`handoff` for the external program in front; `polls` for the running
`waitForFirstFrame` tasks; `mainQ` and `loadQ` for the blocks the two queues
hold for sessions; `worker` for the position of the load queue's thread inside
`load()`, `requestStop()` or `teardown()`; the statics `active` and
`quarantined`; and the fields of each session (`state`, `core` for the dylib and
how far it is initialised, `thread` for the position of `runLoop`,
`stopRequested`, `shutdownRequested`, `coreThreadStuck`, `hwRenderActive`,
`rcService`). `played` counts the playtime records written, `launched` the
sessions already used: both are history.

A step is what one thread does between two points where another can see or
change what it works on. A main-thread handler or block is one step. The load
queue's block is cut at every call into a core and at every write another
thread reads: `LoadBegin`, `Dlopen`, `RetroInit`, `LoadGame`, `PostDone` or
`PostFailed`; `StopBegin`, `Join`, `TeardownClient`, `TeardownContext`, then
`Quarantine`, or `Unload` and `Close`. Every step that can fail in the code
may fail. `Join` ends when the thread has ended **or at any moment** (the two
seconds), so a core that is slow, hangs for ever, or answers just after the
timeout are all behaviours. A `[weak session]` block may find nil when nothing
the model knows retains the session (`Retained`).

`Dlopen` is three calls of the code in one step: `RetroCore.load`, `shim_install`
and `setActive`. Between them no session is active, so a core that called back
while its callbacks are set would find none; the properties do not tell this
apart. Only the first of the three can fail, and it closes the library again:
`RetroCore.load` has required every symbol that `shim_install` and `retroInit`
look for of the same handle.

### SessionControl

State: the overlay flags, the session on screen, its pause flag, its request
slot, where its core thread is (`top`, `frame`, `ended`), whether it holds an
engine (`owned`; none is made for a core that names no sample rate), the engine itself, and how many `start()` blocks are queued
(`starts`). `late` is history: how many frames were finished since the pause.
The router's cascade is four predicates, `Dialog`, `PauseMenu`, `Options` and
`Base`, and every handler is guarded by the layer that reaches it. Two things
come from outside the cascade and are modelled so: the quick bar's pills can be
clicked whatever layer is open (but for the dialog, which covers them), and the
system PS button can open the bar over anything. Loading and teardown are the
steps of `EmulatorLifecycle` that touch this state (`LoadDone`, `LoadFailed`,
`ExitEmulation`, `Teardown`).

### AudioRing

One action per load or store of an index and per frame copied. The unit is a
frame: both sides move whole pairs and the capacity is even. A frame's content
is its number, 0 being the silence `storage` begins with. `Publish` stores the
index only after the samples (the code relies on the compiler's and the
processor's order for that, its accesses not being atomic; reorderings are not
modelled). `heard`, `lost` and `raced` are history.

### CoreOptions

State: `n` for `keys.count`, `values` (which are also what the buffers of
GET_VARIABLE hold), `changed`, `cursor`, `rows`, the game's entry of
`SettingsStore.coreOptions` (`saved`), the posted blocks, and for each of the
two threads where it is and what it carries. What a method does under `lock` is
one step; what comes after the unlock is cut where the other thread can
interfere: `Save` reads the saved options and `Store` writes them back,
`TakeSnapshot` and `Post` are the halves of `publish()`, `ActivateResetRow` and
`ResetOverrides` lock one after the other. `ReadValue` hands out a buffer and
`CopyValue` is the core copying it, without the lock: if it was rewritten in
between the copy may show the old token, the new one or `Torn`. `lostSave`,
`stale` and `overtaken` are history. Options are numbered in the order of the
sorted keys, tokens in the order of the option's values; a saved token that the
core no longer offers counts as the default, as in `ingest`.

### CoreHost

The abstract specification: one variable, the phase of each core. The berth
is free only if every core is closed or parked; only then may a core be opened.

### RcMemory, RcConditions, RcEvaluate, RcRichPresence

Operators over records that stand for the C structures, each named for the
function it translates, parameters and results in their order. A definition
reaches the parser as records, not as characters. A memory reference is the
record that says what it reads, so that asking for the same reading twice gives
the same reference, as `rc_alloc_memref` sees to; the pool's list of references
computed from others keeps its order, because they are updated in one pass. An
integer keeps its width through `Word` (65,536 in the run: TLC's own integers
have 31 bits); a float is an exact fraction, without the rounding of its
mantissa. A leaderboard whose start has no condition at all, which lboard.c:211-213
provides for, is left out: the parser makes no such trigger. How an out-of-range float becomes an integer depends on the machine
(`SaturatingCasts`: arm64).

### RcRuntime

State: the runtime (pool, triggers, leaderboards, rich presence), the events of
the last call, the progress last written. `fired` and `fresh` are history. Each
entry of the API is an action, and so is `Frame`, before which memory may become
anything of `Memories`. A save state is the sequence of its chunks; a definition's
name stands for its checksum. `Restore` may be of a state of this session, of an
earlier one with other definitions, of a damaged one, or of one that did not fit
its buffer. Where a saved variable is not of this script the code takes what
follows for the names of others; no name is found there, so `Followed` ends the
reading (a variable takes four words at least, so this is exact for fewer than
five of them, but for two names with one hash).

### RcClientLoad

One variable, the client: an `rc_client_t` with the load states it has made. The
functions of the code are operators from client to client, and an action is one
call of the API or one answer, which comes at any time after its request. A
load state is `unused`, `live` or `freed`; using one that is freed ends the
behaviour and is recorded in `misused`. `sent` are the requests in flight, at
most as many as `state.async_handles` has places (`Placed`); `queue` and `pings`
are the client's schedule: the loads to be activated and the games whose next
ping is due some time. `told` is history: what each caller was told. `odd` names the three ways in which the code does use what is gone, see
"Seen while modelling".

### RcClientPlay

The same form. Achievements are known by name, because the code's loops over them
never depend on their order; leaderboards are in their order, because the
trackers they share do, and are processed one after another (`OnEach`). What a
trigger or a leaderboard evaluates to in a frame is any state that
`rc_evaluate_trigger` and `rc_evaluate_lboard` may leave; a measured value is
nothing, its target, or beyond it. Leaderboards with one value's definition find
one value in a frame, but those that count hits, which each count on from their
own. Events that the code gathers while it
holds its lock and raises after are gathered here in `pending` and raised at the
end of the call. `ui` is what the player sees after the events. Encore and
spectator mode are chosen at the start, from the modes a title is played in;
one title is played, loaded as often as
the player likes; memory becomes invalid address by address. `DoFrame` leaves
the scheduled work to `Idle`, which the code calls in the same way. `odd` marks
that something was disabled while it was on the screen, and that a tracker that
counts hits is shared by leaderboards that did not start together. Each game
has its own bounds: `requests`, how many unlocks and entries may be unanswered
at once, and `most`, how far values go. `carried` is history: whether the hits of a
trigger include any counted in softcore, and if so whether in the frames played or
in a save state (`Brought`).

### AchievementService

State: the service's `state`, the steps of its set-up done on the load queue,
`held` and `isDestroyed`, the responses `pending` and `taken`, the position of
the core thread in its loop (`core`). HTTP threads respond to anything that was
sent, in any order, with an answer or a failure; a frame drains twice, as the
code does, before and after it runs what is scheduled. `delivered` is history.

## 4. Runs

`pass` runs explore every reachable state; deadlock is checked except in
`AudioRing.cfg`, where the bound on frames ends every run.

| run | question | bounds | result |
|---|---|---|---|
| `lifecycle` | safety of launching, leaving and stuck cores; what is left is released; launches resolve; implements `CoreHost` | 2 sessions | 193,879 states |
| `stuck_session` | EmulatorSession.swift:100 | 1 session | violated |
| `audio_ring` | what is played | capacity 4, batches and reads up to 2, 8 frames | 1.8 million states |
| `ring_trap` | RetroAudioEngine.swift:81 | the same | violated |
| `control` | a paused game resumes, its audio returns, its core stops | 2 sessions up to symmetry, 1 kind of request, 1 queued start | 1.7 million states |
| `control_live` | requests are carried out | 1 session, 2 kinds of request, 3 queued starts | 13,030 states |
| `core_options` | what the core sees, what is saved, what is shown | 2 options of 2 values, 2 publishes under way | 3.2 million states |
| `runtime` | hits, references, save states, what triggers and what starts | 3 memories, 3 line-ups of up to 2 achievements, a leaderboard and a script; 3 frames and a call; save states of this session and of one before | 48,289 states |
| `client_load` | whose game is active, who is told, what is used after it is freed | 2 loads, 1 login, 1 media change, 2 hashes, 1 game | 588,344 states |
| `service` | the service follows its client, nothing after destroy, loading settles | 1 load, 1 login | 694 states |
| `client_play` | screen, modes, awards, save states, lists | 7 games of 1 or 2 achievements or leaderboards, each in one of the modes plain, encore and spectator; 1 or 2 requests at once; values up to 1, and up to 2 for leaderboards that count hits | 149,315 states |
| `unloaded_mastery` | rc_client.c:4852 | the same | violated |

Why the bounds are enough. Two sessions: everything that can go wrong between
games goes wrong between one and the next (a teardown behind a load, a poll
that outlives its session, a callback table taken over); a third only repeats
it, and the proofs make no assumption on their number. Eight frames in a ring of
four: the indices go twice around, so every slot is overwritten and every
position of drop against read occurs. Queued starts: one is enough for a start
to meet a pause or a teardown; `control_live` has three. Two options are what it
takes for two threads to lose each other's save, and two publishes under way
(one on each thread) what it takes for one to overtake the other.

One call and three frames of the runtime: a save state is written and read
around frames, so each definition is counted, saved, counted on and restored in
every order, and the earlier session's state brings the line-ups that do not
fit; its four frames are where hits to be restored come from. (With two frames
and two calls, which TLC explores in five and a half minutes, they hold as well.)
Two loads: one
to be overtaken and one that overtakes it; with a login and a media change they
fill the four places the client has for requests in flight (`Placed`).
The seven games of `client_play` are one for each way achievements and
leaderboards meet: a measured one; an achievement and an unofficial one in
another subset that read the same memory; two leaderboards that share a value
in two subsets; one whose entries are sent; two that count hits, one of them
hidden, with values up to 2 so that they can be apart; two requests at once; a
definition that does not parse. Encore is played by the game with two requests at
once, because it is what awards again; spectating by the games with two
leaderboards, whose entries are then shown but not sent, and by the one that
does not parse.

`RestoreCarriesOn` is checked at the moment of each save: it runs the save state, read
back into a line-up just activated, beside the runtime that wrote it. It needs
definitions without sums of three readings or more, and
`OnScreen` a game of which nothing was disabled while shown and no tracker that
counts hits was shared late (`odd`). `HardcoreStartsClean` exempts what a save state
brings whose own hits were counted in softcore. `AudioComesBack` is about sessions
that own an engine. Each is said where the property is, and why below. `AudioInOrder`, `SavedMatchesValues` and
`RowsCatchUp` say what holds until two threads overlap in the way they name.

CHECK_DEADLOCK is FALSE where the system stops: in the runs of the runtime and
the client the bounds on frames, calls and loads end the behaviours, the
service ends with its session, and after memory is misused no step is described.

The violated runs are disagreements between what the code does and what a
comment beside it says; PROJECT.json quotes them. In short: teardown of a stuck
session destroys its achievements client before it looks; `read` can count a
negative number; and the answer that an award was the last of its set follows
`client->game` although the game was unloaded meanwhile.

### Seen while modelling

These are modelled as they are in the code, and no run is spent on them: no
comment or test says anything precise enough of them to be checked against, or a
run of the same kind is there already.

In the program:

* the boot overlay is cleared by an earlier session's first-frame poll
  (AppEnvironment+Launch.swift:178); the core is safe all the same
  (`LaunchResolves`, `CallbacksReachOwner`);
* the options overlay can be open over a running game (AppEnvironment.swift:582);
* a queued start of the engine can come after the session's teardown
  (EmulatorSession.swift:403);
* a second save, load or reset replaces the first (EmulatorSession.swift:521),
  which is why `CommandIsTaken` speaks of the last one;
* "Reset to defaults" cannot be used: the block `publish()` posts puts the cursor
  back on the last option (CoreOptionsModel.swift:244).

In rcheevos, loading (rc_client.c):

* the answer without any set frees the load state that the session's answer,
  asked for in the same step, then uses (1952-2006; the comment at 1244 says
  otherwise);
* spectator mode, LOCKED by a load, is unlocked by enabling it again (7058-7077):
  a game then becomes active without a session;
* media changed while the session is being started leaves `client->game` NULL
  for the change to use;
* an activation that finds the wrong state frees its load while the client still
  points at it; a queued one that was aborted still tells its caller; a queued
  load that is overtaken is told twice; one dropped while it awaits a login is
  never freed; the media change waiting for a load that fails is never told;
* a fifth request in flight finds no place and is not marked by destroy.

In rcheevos, playing:

* disabling an achievement or a leaderboard leaves its indicator or tracker on
  the screen, beyond the unload (`odd`);
* restoring progress where leaderboards that count hits share a tracker can
  leave it with the value of one of them (`odd`);
* trackers that count hits are meant to be shared only by leaderboards that
  started in the same frame (rc_client.c:5218-5222); but one that starts meets
  the value that a later one in the list, not yet processed, had in the frame
  before, shares its tracker if that is its own value, and then shows a value it
  does not have (`odd`);
* progress is restored in hardcore whatever mode it was saved in
  (rc_client.c:6866-6907 asks for none, and none is saved), so hits counted in
  softcore come along with a save state and can win in hardcore. The model keeps
  with each trigger where its softcore hits come from (`carried`: the frames
  played, or a state restored), and `HardcoreStartsClean` is about the former;
* RECONNECTED can be raised while a retried request is in flight
  (rc_client.h:826);
* encore mode is read when hardcore is toggled, although rc_client.h:77 says it
  "Has no effect while a game is loaded";
* disabling hardcore does not clear the wait for the reset; the runtime's list of
  leaderboards is not updated when one is disabled.

In rcheevos, the runtime:

* a sum of three readings or more is computed again on a restore without its
  first part (runtime_progress.c:167 against 187).

## 5. Fairness

`lifecycle` assumes that the two dispatch queues are served (`MainBlock`,
`LoadQueue`) and that `waitForFirstFrame`, which has a deadline, ends. Nothing is
assumed of the player, of an external program or of a core: `retro_run` may
never return, and no thread is assumed to run. `control_live` assumes that the
core thread goes on (`LoopTop`, `Frame`): it speaks of requests to a game that
is running, and its conclusion exempts a thread that has ended. `core_options`,
`runtime`, `client_load` and `client_play` assume none. `service` assumes that the
load queue and the core thread go on (`SetUp`, `Start`, `Frame`) and that every
request ends, which URLSession's timeout of 30 s sees to (`Responds`); the
player need never leave.

## 6. Proofs

All theorems hold for any finite or infinite set of sessions, any capacity,
any batch that fits the ring, any bound on queued starts, any number of
options, values and publishes under way, any number of loads, logins and media
changes of any hashes and games (at most four requests in flight), any games
of any number of achievements and leaderboards, in any mode, and a runtime of any
definitions, memories, line-ups, save states and number of frames. What they assume of the
constants is named in the modules: that what stands for "none" is nothing else,
that the service may load and log in at least once (`ServiceAssumption`; only
the theorems about the service cite it), of a
game that leaderboards with the same definition of a value agree on whether it
counts hits (`PlayAssumption`: the key is the hash of that definition), and of the
runtime that a definition is a list of conditions as its text can spell it
(`DefinitionsAssumption`) and that what is activated is defined
(`HostAssumption`).

**EmulatorLifecycle.** `IInv` is inductive. Its core is `HandOver`: there is
one place for a core, and whoever holds it or is queued for it is followed, in
the load queue, by its own stop before anybody else's load (`Awaits`), unless
it is on screen, in which case `exitEmulation` will append the stop. That the
load queue is serial and first in, first out is used here and nowhere else.
`LoadedOnce` says a session is untouched until its load runs, and is loaded
once; `WorkerKnows` what the position of the queue's thread says of the session;
`ThreadHasGame` that a live thread has its game and is running, being joined or
known to be stuck; `QuarantineIsFinal` and `StuckInGame` that a stuck session is
never touched by `Unload` and `Close`. From `IInv` follow type correctness,
`StartsOnlyOnScreen`, `NoUnloadUnderThread`, `OneResidentCore`, `CoreCallsExclusive` and
`CallbacksReachOwner`; and, step by step, that every step is a step of
`CoreHost` or a stutter (`ImplementsCoreHostHolds`).
`OneGameInFront` has an invariant of its own over `IInv`, `FrontInv`: it speaks of
the main thread's variables alone, so the steps of the load queue and of the core
threads fall to one lemma (`FrontFrame`) and every way a game is left to another
(`FrontLeft`). What it adds is where the two could part: the emulator is on screen
only with a game, the entry being tracked is the game in front, and a Quit dialog
left over from a game keeps other programs from starting.

**AudioRing.** `RingInv` is inductive without any order between the threads for
`NewestAudioKept` (only the producer writes the slots, and a batch fits the
ring) and `NothingOlder` (a slot's content only grows), which gives
`NoStaleAudio`. For `AudioInOrder` the invariant says, **until a drop has
overlapped a read**, that each thread's copy of `readIdx` is the real one
(`Calm`) and that what was played is counted (`Accounted`). The arithmetic of
slots is `SlotsDiffer`: indices less than a capacity apart have slots of their
own.

**SessionControl.** `ControlInv` adds to the properties that the game on screen
is loading or running, that a session not yet launched is not paused, and that
one not yet launched, or still loading, has no engine (`NoEngineYet`). `SessionInv`, what holds of each session by itself, is kept by
pausing, by resuming and by both in a row (one lemma each); every handler is
then one of these and a change of flags.

**CoreOptions.** The invariant has three independent parts. `SeenInv`: a torn copy
is always followed by the flag. `SavedInv`: until two writers overlap, at most one
thread carries a change to the saved options, and what it carries is the values.
`RowsInv`: of two snapshots one is the newer (`stale` marks the other), a snapshot
not marked is of the model as it is unless a thread has yet to take one, and so
are the rows last posted. Every method that changes the model leaves its thread
on the way to a snapshot, so one lemma serves them all.

**RcClientLoad.** `ClientInv` is what holds of one load (`LoadInv`), one login, one
media change, and of what is in front (`InFront`). A load begun has its memory
until it is freed, and whatever still refers to it, a request in flight or the
schedule, refers to it alone (`Referenced`): that is why the answer that comes last
may free it. The client's load has told its caller nothing, and a request that
nobody aborted is its (`IsCurrent`); a caller told of success is told nothing else,
and its load is freed then (`Told`); a load to be activated has its session or
spectates (`Started`). A media change waits in one place or for one answer
(`ChangeInv`). Of the game and the load in front at most one is there and it is
the latest, and what a destroyed client left in flight finds its handle marked
(`InFront`): answers are the only steps of a client that is gone. The three ways in
which the code does use what is gone ("Seen while modelling") are each a mark in
`odd`, and without one nothing is misused (`Sound`). What an operator does to one load leaves
the others alone: one lemma says so once, for every step that changes a load, and
one for every step that changes a media change.

**AchievementService.** The invariant lists the phases its one client goes
through (`SignedOut`, `LoggingIn`, `LoggedIn`, `Identifying`, `Starting`,
`Activating`, `Emptied`, `Failed`, `Playing`), each with the one request that is
in flight, and matches them with the service's `state` (`Follows`). In each
phase the operators of `RcClientLoad` come down to one outcome, which tells at
most one result, and the lemmas about `After` say what the service makes of it. Three stages of
the service's life, before its client is made, while it is held and after it is
destroyed, then give `StateFollowsClient` and `NoneAfterDestroy`: a response waits
in one of three places, and the last of them is emptied before the client goes.

**RcClientPlay.** `PlayInv` has a part for each thing the player sees or the server
is owed. `Server`: what is in flight is owed, and what waits is told. `Popup`: it
is shown while its timer runs, or will be once its event is raised. `Achievements`:
what is active is what the mode says; one that has triggered is active until its
event is raised and, in hardcore, counts nothing of the softcore frames played
(`Wins`, `Clean`; a save state may bring what it saw); the
challenges on the screen, once the pending events are raised, are those primed
(`Challenges`). `Boards`: a leaderboard that is tracked holds a tracker of its own
definition, a tracker counts those that hold it, **what its pending events will
show is its value, or nothing once nobody holds it** (`WillShow`), and it has the
value of each that holds it (`SameValue`). The properties only speak of the state between
calls, when no event is pending (`Quiet`); the clauses about pending events are what
holds inside a call, between the operators it is made of. Each operator is first
reduced to the fields it changes (`Same`, `SameScreen`), then shown to keep the parts
that speak of these. A frame and a save state process the leaderboards one after
another; what holds after the first n is an invariant of that loop (`Until`,
`RestoredUntil`), proved by induction on n (in the form of a set of numbers that
turns out to be all of them, which is within the provers' reach). In the midst of it, leaderboards that share a tracker disagree: those already processed
have this frame's value, and the others the last one's. That this comes right again,
unless one that counts hits was shared late, is the heart of `ScreenFollows`.
`ListsHoldAll` needs little of the invariant and much counting: with one subset the
types of bucket name the buckets, with several the types and the pairs of
subset and type do, and the room is what these name.

**RcRuntime.** Two things make it hard. Every loop of the code is a fold here, over a list
of any length, and the provers cannot unfold one; and a hit count is four
structures deep, in a condition of a group of a trigger of an entry, reached by
parsing, by frames, by resets and by save states.

For the first there is `FoldFacts`, written once for an operator `Op` and a claim
`Holds`: what holds of the first value and is kept by each step holds of the result
(`FoldKeeps`), and the result is the last of a row of values that begins with the first one
(`FoldPrefixes`, for two folds compared step by step). A fold is unrolled
there from the definition in the community modules: a table over the sets of
positions, shown to exist and to be filled for the first n of them. That a set
of numbers with 0 that is closed under successors holds all of them is a
hypothesis of these facts, discharged in `RcRuntime_proofs` (`Induction`) by the
least number outside it. `RcRuntime_invariant` names each fold's step
(`StepTerm`, `StepClause`, `StepPhase`, `StepSets`, ...) and claim
(`HoldsTerm`, ...), and `RcRuntime_proofs` has one instance of `FoldFacts` for each.

For the second, each structure has a shape (`CondShaped`, `SetShaped`,
`ValueShaped`, `LboardShaped`, ...), and each operator is shown to keep it: what
parsing makes of a definition has the shape and no hit; a frame, a reset and
reading back change what they may and keep flags, targets and operands. `IInv`
then says of the runtime (`RtFits`) that the references are in order, that ids are
unique, and that **every entry has the shape of the definition it names, with
hits within its targets**; that an achievement in `fired` is triggered or
disabled (`OverStays`) and one in `fresh` waits or is disabled (`FreshWaits`); and
that every chunk of the progress saved fits the definition it names (`SavedFits`).
The naming is what makes the properties inductive: a save state is read into an
entry found by its id whose definition is that of the chunk, and only because both were
parsed from the same text do the counts read back stay within the targets of the
conditions they are put in. `HitsWithinTarget` by itself is not kept by a restore,
and `PoolInOrder` by itself not by parsing, where an operand's reference must be known to be in
the pool before another is computed from it (`Known`, `Fine`).

TLC finds `IInv` true of all 48,289 states of the run `runtime` (as an invariant of a
module that extends `MCRcRuntime` and `RcRuntime_invariant`). From it follow
`RuntimeTyped`, `HitsStayWithinTarget` and `PoolStaysInOrder`; `DamageStartsOver`, because
reading any chunks that fit and then resetting leaves no hit; and, step by step,
`AchievementTriggersOnce`, whose heart is that only a frame raises the event and
that no save state is read into an entry that is over, and `BoardCountsFromStart`. `AskingNeverCounts` compares
two askings: a line with hit targets is not tested when asked, frames do that;
the groups of one without are tested as they are and as the first asking left
them, which differ in hits, in which conditions were true and in what is paused;
condition by condition the two tests stay alike in everything that decides the outcome
(`SetsTestedAgree`), so the line chosen and its text are the same.

Only model-checked: liveness (`LeftSessionIsReleased`, `LaunchResolves`,
`CommandIsTaken`, `Settles`), because fairness and ENABLED are out of the prover's
reach; and `RestoreCarriesOn`, which runs the restored line-up and the one that
wrote the progress beside each other for all that memory may hold next. It
compares whole runs of parsing, reading back and testing, through references shared by
definitions that were activated in another order; that two such pools agree on
what they hold is a relation between states for which there is no invariant here.

## 7. Assumptions

* `dispatch_async` to a serial queue keeps the order of the blocks; the main
  queue too.
* The boolean flags shared by threads are read and written whole (the code goes
  through `gd_atomics`).
* `AVAudioEngine.start` may fail at any call and `stop` never does.
* A core reads its options after it has declared them and whenever the flag
  says so, as the libretro interface asks.
* A core calls back only from a function the frontend has called, or from its
  own stuck thread.
* The achievements client is called by one thread at a time, as the service
  does, and an answer never comes inside its request: URLSession calls back on a
  queue of its own. Memory does not run out.
* The build defines neither RC_CLIENT_SUPPORTS_HASH nor
  RC_CLIENT_SUPPORTS_EXTERNAL; arm64, where floats are cast saturating.

## 8. Not modelled, and why

Of modelled components:

* `EmulatorSession.load`: what it configures (system directories, game info) is
  reduced to the steps that can fail; callbacks of a core are reduced to being
  inside the core;
* overlays: the cursor inside an overlay, volume, favourites, the XMB behind;
* core options: parsing of the cores' option strings, sizes of buffers;
* the service: reading memory through the console's map (a table), toasts;
* `rc_client.c`: what only fetches and converts (hash library, titles, the
  game list, entries of leaderboards, image addresses), pings but for their place
  in the schedule, and the delay between pauses (6670-6714);
* `rcheevos/`: the characters of definitions, what their formats look like, the
  validator (`rc_validate.c`, a linter that the program never calls) and the table
  of consoles.

Of the rest:

* **rcheevos' hashing and server API** (`rhash/`, `rapi/`): each call is a function
  from a file or a JSON text to a record, without state between calls; what can
  come out of it is an input of `RcClientLoad`;
* **environment callbacks**: their option calls are in `CoreOptions`; the rest
  answers constants or stores one value;
* **video**: `FrameSlot` is one lock around a copy; what GL and Metal do is
  outside of the program; pixel conversion is arithmetic on one pixel;
* **input**: one active device, AppKit's timers, a snapshot under a lock; what
  holds or resumes a game is in `SessionControl`;
* **handoff**: what Steam and PPSSPP do is outside of the program and its end is
  polled; the guards it sets are the `handoff` of `EmulatorLifecycle`;
* **library, recents, favourites; fetch caches, IGDB, selection preview, hub**:
  they stand beside a game and never touch one: each is one actor's, or one lock's,
  table of what was found or fetched. Their races (a launch recorded during a
  scan, a fetch invalidated while it runs) cost a place in a list or show an old
  picture until the next fetch;
* **navigation**: cursors in lists;
* **Steam's files and VDF parsing**: sequential, covered by the command line's
  unit tests;
* **settings and keychain**: assignments mirrored to the system; **Discord
  window**: the state is the web page's; **volume, status, haptics, hotkeys**: thin
  wrappers; **views**: declarations; **command line tools**: the same session on one
  thread; the **mock core**: a fixture; the **agent scripts**: not part of the
  program.
