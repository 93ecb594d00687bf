------------------------------ MODULE AudioRing ------------------------------
(***************************************************************************)
(* RetroAudioRingBuffer: the lock-free ring between the core thread        *)
(* (producer) and AVAudioEngine's render thread (consumer).  Both threads  *)
(* store readIdx: the consumer as it reads, the producer to drop the       *)
(* oldest audio on overflow.                                               *)
(*                                                                         *)
(* The unit is the frame: both sides move whole (L,R) pairs and the        *)
(* capacity is even.  Frame number f is the f-th frame the core made, 0    *)
(* the silence storage starts with.  Every load and store another thread   *)
(* can see is a step of its own.                                           *)
(***************************************************************************)
EXTENDS Naturals, Integers, Sequences

CONSTANTS
  Capacity,    \* frames of storage (a power of two in the code)
  MaxBatch,    \* longest batch a core hands over at once
  MaxRead,     \* longest render callback (maxFramesPerCallback)
  MaxFrames    \* bound on the frames a run produces

ASSUME RingAssumption ==
  /\ Capacity \in Nat \ {0} /\ MaxRead \in Nat /\ MaxFrames \in Nat
  /\ MaxBatch \in 1..Capacity

VARIABLES
  storage, writeIdx, readIdx,
  writer,      \* the core thread inside writeBatch or writeSample
  reader,      \* the render thread inside read
  heard,       \* history: the frames played so far
  lost,        \* history: how many frames have been dropped
  raced        \* history: a drop and a read have overlapped

vars == <<storage, writeIdx, readIdx, writer, reader, heard, lost, raced>>

Slot(i) == i % Capacity

(* pc of writer: idle, drop, copy.  w, r: the indices it loaded; needed:   *)
(* frames of this call; drop: frames to drop; i: frames copied so far.     *)
WriterIdle == [pc |-> "idle", w |-> 0, r |-> 0, needed |-> 0, drop |-> 0, i |-> 0]

(* pc of reader: idle, loadR, copy, trapped.  w, r: the indices it loaded; *)
(* max: frames asked for; n: frames it will copy; i: copied so far.        *)
ReaderIdle == [pc |-> "idle", w |-> 0, r |-> 0, max |-> 0, n |-> 0, i |-> 0]

Least(a, b) == IF a <= b THEN a ELSE b

Init ==
  /\ storage = [k \in 0..(Capacity - 1) |-> 0]
  /\ writeIdx = 0 /\ readIdx = 0
  /\ writer = WriterIdle /\ reader = ReaderIdle
  /\ heard = <<>> /\ lost = 0 /\ raced = FALSE

-----------------------------------------------------------------------------
(* Core thread.                                                            *)

\* Mutant: writeBatch and writeSample without "if excess > 0".
LoadUnguarded(frames, drop) ==
  /\ writer.pc = "idle"
  /\ writeIdx + frames <= MaxFrames
  /\ writer' = [pc |-> "drop", w |-> writeIdx, r |-> readIdx,
                needed |-> frames, drop |-> drop, i |-> 0]
  /\ raced' = (raced \/ reader.pc # "idle")
  /\ UNCHANGED <<storage, writeIdx, readIdx, reader, heard, lost>>

(* Both indices are loaded; only readIdx can change under the producer.    *)
Load(frames, excess) ==
  /\ writer.pc = "idle"
  /\ writeIdx + frames <= MaxFrames
  /\ IF excess > 0
       THEN /\ writer' = [pc |-> "drop", w |-> writeIdx, r |-> readIdx,
                          needed |-> frames, drop |-> excess, i |-> 0]
            /\ raced' = (raced \/ reader.pc # "idle")
       ELSE /\ writer' = [pc |-> "copy", w |-> writeIdx, r |-> readIdx,
                          needed |-> frames, drop |-> 0, i |-> 0]
            /\ UNCHANGED raced
  /\ UNCHANGED <<storage, writeIdx, readIdx, reader, heard, lost>>

\* Mutant: room for one frame more than there is.
WriteBatchOneMore(frames) == Load(frames, frames - (Capacity + 1 - (writeIdx - readIdx)))

(* writeBatch: drop as many of the oldest frames as do not fit.            *)
WriteBatch(frames) == Load(frames, frames - (Capacity - (writeIdx - readIdx)))

(* writeSample: drop one frame if there is no room for one.                *)
WriteSample == Load(1, IF 1 - (Capacity - (writeIdx - readIdx)) > 0 THEN 1 ELSE 0)

DropOldest ==
  /\ writer.pc = "drop"
  /\ readIdx' = writer.r + writer.drop
  /\ lost' = lost + writer.drop
  /\ writer' = [writer EXCEPT !.pc = "copy"]
  /\ UNCHANGED <<storage, writeIdx, reader, heard, raced>>

CopyIn ==
  /\ writer.pc = "copy" /\ writer.i < writer.needed
  /\ storage' = [storage EXCEPT ![Slot(writer.w + writer.i)] = writer.w + writer.i + 1]
  /\ writer' = [writer EXCEPT !.i = @ + 1]
  /\ UNCHANGED <<writeIdx, readIdx, reader, heard, lost, raced>>

\* Mutant: writeIdx is stored before the samples are.
PublishEarly ==
  /\ writer.pc = "copy"
  /\ writeIdx' = writer.w + writer.needed
  /\ writer' = IF writer.i = writer.needed THEN WriterIdle ELSE writer
  /\ UNCHANGED <<storage, readIdx, reader, heard, lost, raced>>

Publish ==
  /\ writer.pc = "copy" /\ writer.i = writer.needed
  /\ writeIdx' = writer.w + writer.needed
  /\ writer' = WriterIdle
  /\ UNCHANGED <<storage, readIdx, reader, heard, lost, raced>>

-----------------------------------------------------------------------------
(* Render thread.                                                          *)

Read(max) ==
  /\ reader.pc = "idle"
  /\ reader' = [ReaderIdle EXCEPT !.pc = "loadR", !.w = writeIdx, !.max = max]
  /\ raced' = (raced \/ writer.pc = "drop")
  /\ UNCHANGED <<storage, writeIdx, readIdx, writer, heard, lost>>

(* for i in 0..<n: a negative n is a trap.                                 *)
LoadReadIdx ==
  /\ reader.pc = "loadR"
  /\ LET n == Least(reader.max, reader.w - readIdx) IN
       reader' = [reader EXCEPT !.pc = IF n < 0 THEN "trapped" ELSE "copy",
                                !.r = readIdx, !.n = n]
  /\ UNCHANGED <<storage, writeIdx, readIdx, writer, heard, lost, raced>>

CopyOut ==
  /\ reader.pc = "copy" /\ reader.i < reader.n
  /\ heard' = Append(heard, storage[Slot(reader.r + reader.i)])
  /\ reader' = [reader EXCEPT !.i = @ + 1]
  /\ UNCHANGED <<storage, writeIdx, readIdx, writer, lost, raced>>

(* The rest of the callback's buffer is silence.                           *)
Consume ==
  /\ reader.pc = "copy" /\ reader.i = reader.n
  /\ readIdx' = reader.r + reader.n
  /\ reader' = ReaderIdle
  /\ UNCHANGED <<storage, writeIdx, writer, heard, lost, raced>>

-----------------------------------------------------------------------------
CoreThread ==
  \/ \E frames \in 1..MaxBatch : WriteBatch(frames)
  \/ WriteSample \/ DropOldest \/ CopyIn \/ Publish

RenderThread ==
  \/ \E max \in 1..MaxRead : Read(max)
  \/ LoadReadIdx \/ CopyOut \/ Consume

(* A trap ends the program. *)
Next == reader.pc # "trapped" /\ (CoreThread \/ RenderThread)

Spec == Init /\ [][Next]_vars

-----------------------------------------------------------------------------
(* Properties.                                                             *)

Writers ==
  [pc : {"idle", "drop", "copy"}, w : Nat, r : Nat, needed : 0..MaxBatch,
   drop : Nat, i : 0..MaxBatch]
Readers ==
  [pc : {"idle", "loadR", "copy", "trapped"}, w : Nat, r : Nat, max : 0..MaxRead,
   n : Int, i : Nat]

(* The indices only ever hold counts of frames, and both threads work with *)
(* counts within the limits of a batch and of a callback.                  *)
TypeOK ==
  /\ storage \in [0..(Capacity - 1) -> Nat]
  /\ writeIdx \in Nat /\ readIdx \in Nat
  /\ writer \in Writers /\ reader \in Readers
  /\ heard \in Seq(Nat) /\ lost \in Nat /\ raced \in BOOLEAN

(* The frames the core thread has copied in, published or not.             *)
Copied == IF writer.pc = "copy" THEN writer.w + writer.i ELSE writeIdx

(* Newest audio wins: whatever the render thread does, the last Capacity   *)
(* frames produced are in storage, each in its slot.                       *)
NewestAudioKept ==
  \A j \in 0..(Copied - 1) : j >= Copied - Capacity => storage[Slot(j)] = j + 1

(* A frame about to be played is the one addressed or, after an overflow,  *)
(* a newer one: never silence not yet overwritten, never older audio.      *)
NoStaleAudio ==
  reader.pc = "copy" /\ reader.i < reader.n =>
    storage[Slot(reader.r + reader.i)] >= reader.r + reader.i + 1

(* As long as no drop has overlapped a read, audio is played in order,     *)
(* nothing twice, and every frame is played, counted as lost or buffered.  *)
AudioInOrder ==
  ~raced =>
    /\ \A k \in 1..Len(heard) : \A m \in 1..(k - 1) : heard[m] < heard[k]
    /\ Len(heard) + lost = readIdx + reader.i
    /\ writeIdx - readIdx \in 0..Capacity

-----------------------------------------------------------------------------
(* Why they hold: an inductive invariant, in parts.                        *)

(* The core thread's copy of writeIdx is the real one.                     *)
WriterKnows ==
  writer.pc # "idle" =>
    /\ writer.w = writeIdx /\ writer.i <= writer.needed
    /\ writer.pc = "drop" => writer.i = 0

(* The render thread never reaches past what had been published.           *)
ReaderKnows ==
  /\ reader.pc # "idle" => reader.w <= writeIdx
  /\ IF reader.pc = "copy"
       THEN reader.i <= reader.n /\ reader.r + reader.n <= reader.w
       ELSE reader.i = 0

(* A slot never holds anything older than a frame copied into it.          *)
NothingOlder == \A j \in 0..(Copied - 1) : storage[Slot(j)] >= j + 1

(* While drops and reads have kept apart, each thread's copy of readIdx is *)
(* the real one too, and the frames to be copied in have room.             *)
Calm ==
  /\ readIdx <= writeIdx /\ writeIdx - readIdx <= Capacity
  /\ writer.pc = "drop" =>
       /\ reader.pc = "idle" /\ writer.r = readIdx
       /\ writer.r + writer.drop = writer.w + writer.needed - Capacity
  /\ writer.pc = "copy" => writer.w + writer.needed - Capacity <= readIdx
  /\ reader.pc = "loadR" => readIdx <= reader.w
  /\ reader.pc = "copy" => reader.r = readIdx

(* What has been played is in order and accounted for.                     *)
Accounted ==
  /\ \A k \in 1..Len(heard) : heard[k] <= readIdx + reader.i
  /\ \A k \in 1..Len(heard) : \A m \in 1..(k - 1) : heard[m] < heard[k]
  /\ Len(heard) + lost = readIdx + reader.i

RingInv ==
  /\ TypeOK /\ WriterKnows /\ ReaderKnows /\ NewestAudioKept /\ NothingOlder
  /\ ~raced => Calm /\ Accounted

-----------------------------------------------------------------------------
(* What comments in the code say and the code does not do.                 *)

(* RetroAudioEngine.swift, line 81: read "returns samples written (always  *)
(* maxSamples)".  Overtaken by a drop between its two loads it counts a    *)
(* negative number of samples and traps.                                   *)
ReadAlwaysReturns == reader.pc # "trapped"
=============================================================================
