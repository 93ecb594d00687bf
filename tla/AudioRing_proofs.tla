-------------------------- MODULE AudioRing_proofs --------------------------
(***************************************************************************)
(* Proofs about AudioRing, for every capacity, batch and callback size:    *)
(* the newest audio is kept, nothing stale is played, and audio is in      *)
(* order until a drop has overlapped a read.                               *)
(***************************************************************************)
EXTENDS AudioRing, TLAPS

(* A slot is a place in storage. *)
LEMMA SlotType == \A i \in Nat : Slot(i) \in 0..(Capacity - 1)
BY RingAssumption DEF Slot

(* Indices less than Capacity apart have slots of their own. *)
LEMMA SlotsDiffer ==
  ASSUME NEW i \in Nat, NEW j \in Nat, j < i, i - j < Capacity
  PROVE  Slot(i) # Slot(j)
<1> SUFFICES ASSUME Slot(i) = Slot(j) PROVE FALSE
  OBVIOUS
<1>c. Capacity \in Nat /\ Capacity > 0
  BY RingAssumption
<1> DEFINE a == i \div Capacity
           b == j \div Capacity
<1>1. a \in Int /\ b \in Int /\ i = Capacity * a + Slot(i) /\ j = Capacity * b + Slot(j)
  BY <1>c DEF Slot
<1> HIDE DEF a, b
<1>2. i - j = Capacity * (a - b)
  <2>1. Slot(i) \in Int
    BY SlotType
  <2>2. \A x, y, z \in Int : x * (y - z) = x * y - x * z
    OBVIOUS
  <2>3. Capacity * (a - b) = Capacity * a - Capacity * b /\ Capacity * a \in Int /\ Capacity * b \in Int
    BY <2>2, <1>1, <1>c
  <2> QED BY <1>1, <2>1, <2>3
<1>3. CASE a - b <= 0
  <2>1. Capacity * (a - b) <= 0
    BY <1>1, <1>3, <1>c
  <2> QED BY <2>1, <1>2
<1>4. CASE a - b >= 1
  <2>1. Capacity * (a - b) >= Capacity
    BY <1>1, <1>4, <1>c
  <2> QED BY <2>1, <1>2, <1>c
<1> QED BY <1>1, <1>3, <1>4

-----------------------------------------------------------------------------
(* Types, and what each thread knows.                                      *)

(* The parts of the invariant that need nothing of the storage. *)
Basics == TypeOK /\ WriterKnows /\ ReaderKnows

(* The fields of the two records, and the updates the steps make to them. *)
LEMMA WriterFields ==
  \A x \in Writers : /\ x.pc \in {"idle", "drop", "copy"} /\ x.w \in Nat /\ x.r \in Nat
                     /\ x.needed \in 0..MaxBatch /\ x.drop \in Nat /\ x.i \in 0..MaxBatch
BY DEF Writers

(* The same of the render thread's record. *)
LEMMA ReaderFields ==
  \A x \in Readers : /\ x.pc \in {"idle", "loadR", "copy", "trapped"} /\ x.w \in Nat /\ x.r \in Nat
                     /\ x.max \in 0..MaxRead /\ x.n \in Int /\ x.i \in Nat
BY DEF Readers

(* The writer counts a frame copied in. *)
LEMMA WriterCopies ==
  ASSUME NEW x \in Writers, NEW i \in 0..MaxBatch, NEW y, y = [x EXCEPT !.i = i]
  PROVE  /\ y \in Writers /\ y.i = i /\ y.pc = x.pc /\ y.w = x.w /\ y.r = x.r
         /\ y.needed = x.needed /\ y.drop = x.drop
BY DEF Writers

(* The writer goes on to copy. *)
LEMMA WriterDrops ==
  ASSUME NEW x \in Writers, NEW y, y = [x EXCEPT !.pc = "copy"]
  PROVE  /\ y \in Writers /\ y.i = x.i /\ y.pc = "copy" /\ y.w = x.w /\ y.r = x.r
         /\ y.needed = x.needed /\ y.drop = x.drop
BY DEF Writers

(* The reader counts a frame copied out. *)
LEMMA ReaderCopies ==
  ASSUME NEW x \in Readers, NEW i \in Nat, NEW y, y = [x EXCEPT !.i = i]
  PROVE  /\ y \in Readers /\ y.i = i /\ y.pc = x.pc /\ y.w = x.w /\ y.r = x.r /\ y.n = x.n
BY DEF Readers

(* The two records at rest. *)
LEMMA AtRest ==
  /\ WriterIdle \in Writers /\ WriterIdle.pc = "idle"
  /\ ReaderIdle \in Readers /\ ReaderIdle.pc = "idle" /\ ReaderIdle.i = 0
<1>1. 0 \in 0..MaxBatch /\ 0 \in 0..MaxRead /\ 0 \in Nat /\ 0 \in Int
  BY RingAssumption
<1> QED BY <1>1 DEF Writers, Readers, WriterIdle, ReaderIdle

(* They hold initially. *)
LEMMA BasicsInit == Init => Basics
<1> SUFFICES ASSUME Init PROVE Basics
  OBVIOUS
<1>1. storage \in [0..(Capacity - 1) -> Nat]
  BY DEF Init
<1>2. writeIdx \in Nat /\ readIdx \in Nat /\ heard \in Seq(Nat) /\ lost \in Nat
  BY DEF Init
<1>3. writer \in Writers /\ reader \in Readers /\ raced \in BOOLEAN
  BY AtRest DEF Init
<1>4. WriterKnows /\ ReaderKnows
  BY AtRest DEF Init, WriterKnows, ReaderKnows
<1> QED BY <1>1, <1>2, <1>3, <1>4 DEF Basics, TypeOK

(* A call of the core thread begins with a drop or, if all fits, a copy. *)
LEMMA LoadCases ==
  ASSUME TypeOK, NEW frames \in 1..MaxBatch, NEW excess \in Int, Load(frames, excess)
  PROVE  /\ writer.pc = "idle"
         /\ UNCHANGED <<storage, writeIdx, readIdx, reader, heard, lost>>
         /\ writer' \in Writers
         /\ writer'.w = writeIdx /\ writer'.r = readIdx /\ writer'.needed = frames
         /\ writer'.i = 0
         /\ \/ /\ excess > 0 /\ writer'.pc = "drop" /\ writer'.drop = excess
               /\ raced' = (raced \/ reader.pc # "idle")
            \/ excess <= 0 /\ writer'.pc = "copy" /\ raced' = raced
<1>1. /\ frames \in 0..MaxBatch /\ 0 \in 0..MaxBatch
      /\ writeIdx \in Nat /\ readIdx \in Nat
  BY RingAssumption DEF TypeOK
<1>2. CASE excess > 0
  <2>1. /\ writer' = [pc |-> "drop", w |-> writeIdx, r |-> readIdx,
                      needed |-> frames, drop |-> excess, i |-> 0]
        /\ raced' = (raced \/ reader.pc # "idle")
    BY <1>2 DEF Load
  <2>2. excess \in Nat
    BY <1>2
  <2>3. writer' \in Writers
    BY <1>1, <2>1, <2>2 DEF Writers
  <2> QED BY <1>2, <2>1, <2>3 DEF Load
<1>3. CASE excess <= 0
  <2>1. /\ writer' = [pc |-> "copy", w |-> writeIdx, r |-> readIdx,
                      needed |-> frames, drop |-> 0, i |-> 0]
        /\ raced' = raced
    BY <1>3 DEF Load
  <2>2. writer' \in Writers
    BY <1>1, <2>1 DEF Writers
  <2> QED BY <1>1, <1>3, <2>1, <2>2 DEF Load
<1> QED BY <1>2, <1>3

(* The history of overlaps stays a yes or no. *)
LEMMA RacedType == raced \in BOOLEAN /\ [Next]_vars => raced' \in BOOLEAN
<1> SUFFICES ASSUME raced \in BOOLEAN, [Next]_vars PROVE raced' \in BOOLEAN
  OBVIOUS
<1> QED BY Zenon DEF Next, CoreThread, RenderThread, WriteBatch, WriteSample, Load, DropOldest,
           CopyIn, Publish, Read, LoadReadIdx, CopyOut, Consume, vars

(* The second load of a read counts the frames it will copy. *)
LEMMA ReadCases ==
  ASSUME TypeOK, LoadReadIdx
  PROVE  /\ reader.pc = "loadR" /\ reader' \in Readers
         /\ UNCHANGED <<storage, writeIdx, readIdx, writer, heard, lost, raced>>
         /\ \E n \in Int :
              /\ n <= reader.w - readIdx
              /\ reader'.r = readIdx /\ reader'.n = n /\ reader'.i = reader.i
              /\ reader'.w = reader.w
              /\ reader'.pc = IF n < 0 THEN "trapped" ELSE "copy"
<1>1. readIdx \in Nat /\ reader \in Readers
  BY DEF TypeOK
<1>2. reader.w \in Nat /\ reader.max \in Int
  BY <1>1, ReaderFields, RingAssumption
<1>3. PICK n \in Int : n = Least(reader.max, reader.w - readIdx) /\ n <= reader.w - readIdx
  BY <1>1, <1>2 DEF Least
<1>4. PICK pc \in {"copy", "trapped"} : pc = IF n < 0 THEN "trapped" ELSE "copy"
  OBVIOUS
<1>5. reader' = [reader EXCEPT !.pc = pc, !.r = readIdx, !.n = n]
  BY <1>3, <1>4 DEF LoadReadIdx
<1>6. /\ reader' \in Readers /\ reader'.i = reader.i /\ reader'.w = reader.w
      /\ reader'.pc = pc /\ reader'.r = readIdx /\ reader'.n = n
  BY <1>1, <1>5 DEF Readers
<1> QED BY <1>3, <1>4, <1>6 DEF LoadReadIdx

(* Every step keeps the types. *)
LEMMA TypeStep == Basics /\ [Next]_vars => TypeOK'
<1> SUFFICES ASSUME Basics, [Next]_vars PROVE TypeOK'
  OBVIOUS
<1>t. /\ storage \in [0..(Capacity - 1) -> Nat] /\ writer \in Writers /\ reader \in Readers
      /\ heard \in Seq(Nat)
  BY DEF Basics, TypeOK
<1>n. /\ writeIdx \in Nat /\ readIdx \in Nat /\ lost \in Nat
  BY DEF Basics, TypeOK
<1>r. raced' \in BOOLEAN
  BY RacedType DEF Basics, TypeOK
<1>f. /\ writer.w \in Nat /\ writer.r \in Nat /\ writer.needed \in 0..MaxBatch
      /\ writer.drop \in Nat /\ writer.i \in 0..MaxBatch
      /\ reader.w \in Nat /\ reader.r \in Nat /\ reader.n \in Int /\ reader.i \in Nat
  BY <1>t, WriterFields, ReaderFields
<1>c. MaxBatch \in Nat
  BY RingAssumption
<1> DEFINE Typed ==
      /\ storage' \in [0..(Capacity - 1) -> Nat] /\ writeIdx' \in Nat /\ readIdx' \in Nat
      /\ writer' \in Writers /\ reader' \in Readers /\ heard' \in Seq(Nat) /\ lost' \in Nat
<1>s. SUFFICES Typed
  BY <1>r DEF TypeOK
<1>1. ASSUME NEW frames \in 1..MaxBatch, NEW excess \in Int, Load(frames, excess)
      PROVE  Typed
  <2>1. writer' \in Writers /\ UNCHANGED <<storage, writeIdx, readIdx, reader, heard, lost>>
    BY <1>1, LoadCases DEF Basics
  <2> QED BY <1>t, <1>n, <2>1
<1>2. CASE \E frames \in 1..MaxBatch : WriteBatch(frames)
  <2>1. PICK frames \in 1..MaxBatch : WriteBatch(frames)
    BY <1>2
  <2>2. frames - (Capacity - (writeIdx - readIdx)) \in Int
    BY <1>n, RingAssumption
  <2> QED BY <1>1, <2>1, <2>2 DEF WriteBatch
<1>3. CASE WriteSample
  <2>1. 1 \in 1..MaxBatch
    BY RingAssumption
  <2>2. (IF 1 - (Capacity - (writeIdx - readIdx)) > 0 THEN 1 ELSE 0) \in Int
    OBVIOUS
  <2> QED BY <1>1, <1>3, <2>1, <2>2 DEF WriteSample
<1>4. CASE DropOldest
  <2>1. readIdx' \in Nat /\ lost' \in Nat
    BY <1>4, <1>n, <1>f DEF DropOldest
  <2>2. writer' \in Writers
    BY <1>4, <1>t, WriterDrops DEF DropOldest
  <2> QED BY <1>4, <1>t, <1>n, <2>1, <2>2 DEF DropOldest
<1>5. CASE CopyIn
  <2>1. writer.i + 1 \in 0..MaxBatch /\ writer.w + writer.i \in Nat
    BY <1>5, <1>f, <1>c DEF CopyIn
  <2>2. writer.w + writer.i + 1 \in Nat
    BY <2>1
  <2>3. storage' \in [0..(Capacity - 1) -> Nat]
    BY <1>5, <1>t, <2>1, <2>2, SlotType DEF CopyIn
  <2>4. writer' \in Writers
    BY <1>5, <1>t, <2>1, WriterCopies DEF CopyIn
  <2> QED BY <1>5, <1>t, <1>n, <2>3, <2>4 DEF CopyIn
<1>6. CASE Publish
  <2>1. writeIdx' \in Nat
    BY <1>6, <1>f, <1>c DEF Publish
  <2> QED BY <1>6, <1>t, <1>n, <2>1, AtRest DEF Publish
<1>7. ASSUME NEW max \in 1..MaxRead, Read(max) PROVE Typed
  <2>1. reader' = [pc |-> "loadR", w |-> writeIdx, r |-> 0, max |-> max, n |-> 0, i |-> 0]
    BY <1>7 DEF Read, ReaderIdle
  <2>2. max \in 0..MaxRead /\ 0 \in Nat /\ 0 \in Int
    BY RingAssumption
  <2>3. reader' \in Readers
    BY <2>1, <2>2, <1>n DEF Readers
  <2> QED BY <1>7, <1>t, <1>n, <2>3 DEF Read
<1>8. CASE LoadReadIdx
  <2>1. reader' \in Readers
    BY <1>8, ReadCases DEF Basics
  <2> QED BY <1>8, <1>t, <1>n, <2>1 DEF LoadReadIdx
<1>9. CASE CopyOut
  <2>1. reader.i + 1 \in Nat /\ reader.r + reader.i \in Nat
    BY <1>f
  <2>2. reader' \in Readers
    BY <1>9, <1>t, <2>1, ReaderCopies DEF CopyOut
  <2>3. storage[Slot(reader.r + reader.i)] \in Nat
    BY <1>t, <2>1, SlotType
  <2>4. heard' \in Seq(Nat)
    BY <1>9, <1>t, <2>3 DEF CopyOut
  <2> QED BY <1>9, <1>t, <1>n, <2>2, <2>4 DEF CopyOut
<1>10. CASE Consume
  <2>1. reader.i <= reader.n => reader.r + reader.n \in Nat
    BY <1>f
  <2>2. readIdx' \in Nat
    BY <1>10, <2>1, <1>f DEF Consume
  <2> QED BY <1>10, <1>t, <1>n, <2>2, AtRest DEF Consume
<1>11. CASE UNCHANGED vars
  BY <1>11, <1>t, <1>n DEF vars
<1> HIDE DEF Typed
<1> QED BY <1>2, <1>3, <1>4, <1>5, <1>6, <1>7, <1>8, <1>9, <1>10, <1>11
        DEF Next, CoreThread, RenderThread

(* What a thread knows survives the steps of the other. *)
LEMMA KnowsKept ==
  ASSUME Basics
  PROVE  /\ UNCHANGED <<writer, writeIdx>> => WriterKnows'
         /\ UNCHANGED reader /\ writeIdx' \in Nat /\ writeIdx' >= writeIdx => ReaderKnows'
<1>1. writeIdx \in Nat /\ WriterKnows /\ ReaderKnows /\ reader.w \in Nat
  BY ReaderFields DEF Basics, TypeOK
<1>2. UNCHANGED <<writer, writeIdx>> => WriterKnows'
  BY <1>1 DEF WriterKnows
<1>3. UNCHANGED reader /\ writeIdx' \in Nat /\ writeIdx' >= writeIdx => ReaderKnows'
  BY <1>1 DEF ReaderKnows
<1> QED BY <1>2, <1>3

(* Every step keeps what the two threads know. *)
LEMMA KnowsStep == Basics /\ [Next]_vars => WriterKnows' /\ ReaderKnows'
<1> SUFFICES ASSUME Basics, [Next]_vars PROVE WriterKnows' /\ ReaderKnows'
  OBVIOUS
<1>n. writeIdx \in Nat /\ readIdx \in Nat
  BY DEF Basics, TypeOK
<1>t. writer \in Writers /\ reader \in Readers
  BY DEF Basics, TypeOK
<1>k. WriterKnows /\ ReaderKnows
  BY DEF Basics
<1>f. /\ writer.w \in Nat /\ writer.needed \in 0..MaxBatch /\ writer.i \in 0..MaxBatch
      /\ reader.w \in Nat /\ reader.r \in Nat /\ reader.n \in Int /\ reader.i \in Nat
  BY <1>t, WriterFields, ReaderFields
<1>c. MaxBatch \in Nat
  BY RingAssumption
<1>w. UNCHANGED <<writer, writeIdx>> => WriterKnows'
  BY KnowsKept
<1>d. UNCHANGED <<reader, writeIdx>> => ReaderKnows'
  BY KnowsKept, <1>n
<1>1. ASSUME NEW frames \in 1..MaxBatch, NEW excess \in Int, Load(frames, excess)
      PROVE  WriterKnows' /\ ReaderKnows'
  <2>1. /\ UNCHANGED <<writeIdx, reader>>
        /\ writer'.w = writeIdx /\ writer'.i = 0 /\ writer'.needed = frames
    BY <1>1, LoadCases DEF Basics
  <2> QED BY <2>1, <1>d DEF WriterKnows
<1>2. CASE \E frames \in 1..MaxBatch : WriteBatch(frames)
  <2>1. PICK frames \in 1..MaxBatch : WriteBatch(frames)
    BY <1>2
  <2>2. frames - (Capacity - (writeIdx - readIdx)) \in Int
    BY <1>n, RingAssumption
  <2> QED BY <1>1, <2>1, <2>2 DEF WriteBatch
<1>3. CASE WriteSample
  <2>1. 1 \in 1..MaxBatch
    BY RingAssumption
  <2>2. (IF 1 - (Capacity - (writeIdx - readIdx)) > 0 THEN 1 ELSE 0) \in Int
    OBVIOUS
  <2> QED BY <1>1, <1>3, <2>1, <2>2 DEF WriteSample
<1>4. CASE DropOldest
  <2>1. writer'.w = writer.w /\ writer'.i = writer.i /\ writer'.pc = "copy" /\ writer'.needed = writer.needed
    BY <1>4, <1>t, WriterDrops DEF DropOldest
  <2> QED BY <1>4, <2>1, <1>k, <1>d DEF DropOldest, WriterKnows
<1>5. CASE CopyIn
  <2>1. writer.i + 1 \in 0..MaxBatch
    BY <1>5, <1>f, <1>c DEF CopyIn
  <2>2. /\ writer'.w = writer.w /\ writer'.i = writer.i + 1 /\ writer'.pc = "copy"
        /\ writer'.needed = writer.needed
    BY <1>5, <1>t, <2>1, WriterCopies DEF CopyIn
  <2>3. writer.i + 1 <= writer.needed
    BY <1>5, <1>f, <1>c DEF CopyIn
  <2> QED BY <1>5, <2>2, <2>3, <1>k, <1>d DEF CopyIn, WriterKnows
<1>6. CASE Publish
  <2>1. writer.w = writeIdx
    BY <1>6, <1>k DEF Publish, WriterKnows
  <2>2. writeIdx' \in Nat /\ writeIdx' >= writeIdx
    BY <1>6, <2>1, <1>f, <1>c DEF Publish
  <2> QED BY <1>6, <2>2, KnowsKept, AtRest DEF Publish, WriterKnows
<1>7. ASSUME NEW max \in 1..MaxRead, Read(max) PROVE WriterKnows' /\ ReaderKnows'
  <2>1. reader' = [pc |-> "loadR", w |-> writeIdx, r |-> 0, max |-> max, n |-> 0, i |-> 0]
    BY <1>7 DEF Read, ReaderIdle
  <2>2. reader'.pc = "loadR" /\ reader'.w = writeIdx /\ reader'.i = 0
    BY <2>1
  <2>3. UNCHANGED <<writeIdx, writer>>
    BY <1>7 DEF Read
  <2>4. ReaderKnows'
    BY <2>2, <2>3, <1>n DEF ReaderKnows
  <2> QED BY <2>3, <2>4, <1>w
<1>8. CASE LoadReadIdx
  <2>1. PICK n \in Int :
          /\ n <= reader.w - readIdx
          /\ reader'.r = readIdx /\ reader'.n = n /\ reader'.i = reader.i /\ reader'.w = reader.w
          /\ reader'.pc = IF n < 0 THEN "trapped" ELSE "copy"
    BY <1>8, ReadCases DEF Basics
  <2>2. reader.i = 0 /\ reader.w <= writeIdx
    BY <1>8, <1>k DEF LoadReadIdx, ReaderKnows
  <2>3. ReaderKnows'
    BY <1>8, <2>1, <2>2, <1>n, <1>f DEF LoadReadIdx, ReaderKnows
  <2> QED BY <1>8, <1>w, <2>3 DEF LoadReadIdx
<1>9. CASE CopyOut
  <2>1. /\ reader'.i = reader.i + 1 /\ reader'.pc = "copy"
        /\ reader'.w = reader.w /\ reader'.r = reader.r /\ reader'.n = reader.n
    BY <1>9, <1>t, <1>f, ReaderCopies DEF CopyOut
  <2>2. ReaderKnows'
    BY <1>9, <2>1, <1>k, <1>f DEF CopyOut, ReaderKnows
  <2> QED BY <1>9, <1>w, <2>2 DEF CopyOut
<1>10. CASE Consume
  BY <1>10, <1>w, AtRest DEF Consume, ReaderKnows
<1>11. CASE UNCHANGED vars
  BY <1>11, <1>w, <1>d DEF vars
<1> QED BY <1>2, <1>3, <1>4, <1>5, <1>6, <1>7, <1>8, <1>9, <1>10, <1>11
        DEF Next, CoreThread, RenderThread

(* Types and knowledge together are inductive. *)
LEMMA BasicsStep == Basics /\ [Next]_vars => Basics'
BY TypeStep, KnowsStep DEF Basics

(* The counts of frames every variable's type promises hold in every run. *)
THEOREM TypeCorrect == Spec => []TypeOK
BY BasicsInit, BasicsStep, PTL DEF Spec, Basics

-----------------------------------------------------------------------------
(* What is in storage.                                                     *)

(* A step either leaves what has been copied in alone or copies in the     *)
(* next frame.                                                             *)
LEMMA CopiedStep ==
  ASSUME Basics, [Next]_vars
  PROVE  /\ Copied \in Nat
         /\ \/ storage' = storage /\ Copied' = Copied
            \/ /\ Copied' = Copied + 1
               /\ storage' = [storage EXCEPT ![Slot(Copied)] = Copied + 1]
<1>t. writer \in Writers /\ writeIdx \in Nat /\ readIdx \in Nat
  BY DEF Basics, TypeOK
<1>f. /\ writer.w \in Nat /\ writer.needed \in 0..MaxBatch /\ writer.i \in 0..MaxBatch
      /\ writer.pc \in {"idle", "drop", "copy"}
  BY <1>t, WriterFields
<1>c. MaxBatch \in Nat
  BY RingAssumption
<1>k. WriterKnows
  BY DEF Basics
<1>n. Copied \in Nat
  BY <1>t, <1>f, <1>c DEF Copied
<1> DEFINE Kept == storage' = storage /\ Copied' = Copied
           Grown == /\ Copied' = Copied + 1
                    /\ storage' = [storage EXCEPT ![Slot(Copied)] = Copied + 1]
<1>u. UNCHANGED <<storage, writer, writeIdx>> => Kept
  BY DEF Copied
<1>s. SUFFICES Kept \/ Grown
  BY <1>n
<1>1. ASSUME NEW frames \in 1..MaxBatch, NEW excess \in Int, Load(frames, excess)
      PROVE  Kept
  <2>1. /\ UNCHANGED <<storage, writeIdx>> /\ writer.pc = "idle"
        /\ writer'.w = writeIdx /\ writer'.i = 0
    BY <1>1, LoadCases DEF Basics
  <2> QED BY <2>1, <1>t DEF Copied
<1>2. CASE \E frames \in 1..MaxBatch : WriteBatch(frames)
  <2>1. PICK frames \in 1..MaxBatch : WriteBatch(frames)
    BY <1>2
  <2>2. frames - (Capacity - (writeIdx - readIdx)) \in Int
    BY <1>t, RingAssumption
  <2> QED BY <1>1, <2>1, <2>2 DEF WriteBatch
<1>3. CASE WriteSample
  <2>1. 1 \in 1..MaxBatch
    BY RingAssumption
  <2>2. (IF 1 - (Capacity - (writeIdx - readIdx)) > 0 THEN 1 ELSE 0) \in Int
    OBVIOUS
  <2> QED BY <1>1, <1>3, <2>1, <2>2 DEF WriteSample
<1>4. CASE DropOldest
  <2>1. writer'.w = writer.w /\ writer'.i = writer.i /\ writer'.pc = "copy"
    BY <1>4, <1>t, WriterDrops DEF DropOldest
  <2> QED BY <1>4, <2>1, <1>k, <1>f, <1>t DEF DropOldest, Copied, WriterKnows
<1>5. CASE CopyIn
  <2>1. writer.i + 1 \in 0..MaxBatch
    BY <1>5, <1>f, <1>c DEF CopyIn
  <2>2. writer'.w = writer.w /\ writer'.i = writer.i + 1 /\ writer'.pc = "copy"
    BY <1>5, <1>t, <2>1, WriterCopies DEF CopyIn
  <2>3. Copied = writer.w + writer.i
    BY <1>5 DEF CopyIn, Copied
  <2>4. Copied' = Copied + 1
    BY <2>2, <2>3, <1>f DEF Copied
  <2> QED BY <1>5, <2>3, <2>4 DEF CopyIn
<1>6. CASE Publish
  BY <1>6, AtRest DEF Publish, Copied
<1>7. ASSUME NEW max \in 1..MaxRead, Read(max) PROVE Kept
  BY <1>7, <1>u DEF Read
<1>8. CASE LoadReadIdx
  BY <1>8, <1>u DEF LoadReadIdx
<1>9. CASE CopyOut
  BY <1>9, <1>u DEF CopyOut
<1>10. CASE Consume
  BY <1>10, <1>u DEF Consume
<1>11. CASE UNCHANGED vars
  BY <1>11, <1>u DEF vars
<1> HIDE DEF Kept, Grown
<1> QED BY <1>2, <1>3, <1>4, <1>5, <1>6, <1>7, <1>8, <1>9, <1>10, <1>11
        DEF Next, CoreThread, RenderThread

(* The newest frames stay in their slots. *)
LEMMA NewestAudioKeptStep == Basics /\ NewestAudioKept /\ [Next]_vars => NewestAudioKept'
<1> SUFFICES ASSUME Basics, NewestAudioKept, [Next]_vars,
                    NEW j \in 0..(Copied' - 1), j >= Copied' - Capacity
             PROVE  storage'[Slot(j)] = j + 1
  BY DEF NewestAudioKept
<1>c. Capacity \in Nat
  BY RingAssumption
<1>0. Copied \in Nat
  BY CopiedStep
<1>1. CASE storage' = storage /\ Copied' = Copied
  BY <1>1 DEF NewestAudioKept
<1>2. CASE Copied' = Copied + 1 /\ storage' = [storage EXCEPT ![Slot(Copied)] = Copied + 1]
  <2>1. j \in Nat /\ j <= Copied /\ Copied - j < Capacity
    BY <1>0, <1>2, <1>c
  <2>2. storage \in [0..(Capacity - 1) -> Nat] /\ Slot(j) \in 0..(Capacity - 1)
    BY <2>1, SlotType DEF Basics, TypeOK
  <2>3. CASE j = Copied
    BY <1>2, <2>2, <2>3
  <2>4. CASE j < Copied
    <3>1. Slot(Copied) # Slot(j)
      BY <1>0, <2>1, <2>4, SlotsDiffer
    <3>2. storage'[Slot(j)] = storage[Slot(j)]
      BY <1>2, <2>2, <3>1
    <3>3. j \in 0..(Copied - 1) /\ j >= Copied - Capacity
      BY <1>0, <1>c, <2>1, <2>4
    <3> QED BY <3>2, <3>3 DEF NewestAudioKept
  <2> QED BY <1>0, <2>1, <2>3, <2>4
<1> QED BY <1>1, <1>2, CopiedStep

(* No slot goes back to older audio. *)
LEMMA NothingOlderStep == Basics /\ NothingOlder /\ [Next]_vars => NothingOlder'
<1> SUFFICES ASSUME Basics, NothingOlder, [Next]_vars, NEW j \in 0..(Copied' - 1)
             PROVE  storage'[Slot(j)] >= j + 1
  BY DEF NothingOlder
<1>0. Copied \in Nat
  BY CopiedStep
<1>1. CASE storage' = storage /\ Copied' = Copied
  BY <1>1 DEF NothingOlder
<1>2. CASE Copied' = Copied + 1 /\ storage' = [storage EXCEPT ![Slot(Copied)] = Copied + 1]
  <2>1. j \in Nat /\ j <= Copied
    BY <1>0, <1>2
  <2>2. storage \in [0..(Capacity - 1) -> Nat] /\ Slot(j) \in 0..(Capacity - 1)
    BY <2>1, SlotType DEF Basics, TypeOK
  <2>3. CASE Slot(j) = Slot(Copied)
    <3>1. storage'[Slot(j)] = Copied + 1
      BY <1>2, <2>2, <2>3
    <3> QED BY <3>1, <1>0, <2>1
  <2>4. CASE Slot(j) # Slot(Copied)
    <3>1. storage'[Slot(j)] = storage[Slot(j)]
      BY <1>2, <2>2, <2>4
    <3>2. j \in 0..(Copied - 1)
      BY <1>0, <2>1, <2>4
    <3> QED BY <3>1, <3>2 DEF NothingOlder
  <2> QED BY <2>3, <2>4
<1> QED BY <1>1, <1>2, CopiedStep

-----------------------------------------------------------------------------
(* While drops and reads keep apart.                                       *)

(* A drop once overlapped stays overlapped. *)
LEMMA RacedStays == raced \in BOOLEAN /\ [Next]_vars /\ ~raced' => ~raced
<1> SUFFICES ASSUME raced, [Next]_vars PROVE raced'
  BY RacedType
<1> QED BY Zenon DEF Next, CoreThread, RenderThread, WriteBatch, WriteSample, Load, DropOldest,
           CopyIn, Publish, Read, LoadReadIdx, CopyOut, Consume, vars

(* A call drops exactly what does not fit. *)
LEMMA CalmLoad ==
  ASSUME Basics, Calm, NEW frames \in 1..MaxBatch, NEW excess \in Int, Load(frames, excess),
         excess > 0 => excess = writeIdx - readIdx + frames - Capacity,
         excess <= 0 => writeIdx - readIdx + frames <= Capacity,
         ~raced'
  PROVE  Calm'
<1>t. writeIdx \in Nat /\ readIdx \in Nat /\ writer.pc = "idle"
  BY LoadCases DEF Basics, TypeOK
<1>c. Capacity \in Nat /\ MaxBatch \in Nat
  BY RingAssumption
<1>1. /\ UNCHANGED <<writeIdx, readIdx, reader>>
      /\ writer'.w = writeIdx /\ writer'.r = readIdx /\ writer'.needed = frames
  BY LoadCases DEF Basics
<1>2. \/ excess > 0 /\ writer'.pc = "drop" /\ writer'.drop = excess /\ reader.pc = "idle"
      \/ excess <= 0 /\ writer'.pc = "copy"
  BY LoadCases DEF Basics
<1>3. CASE excess > 0 /\ writer'.pc = "drop" /\ writer'.drop = excess /\ reader.pc = "idle"
  <2>1. readIdx + excess = writeIdx + frames - Capacity
    BY <1>3, <1>t, <1>c
  <2> QED BY <1>1, <1>3, <2>1 DEF Calm
<1>4. CASE excess <= 0 /\ writer'.pc = "copy"
  <2>1. writeIdx + frames - Capacity <= readIdx
    BY <1>4, <1>t, <1>c
  <2> QED BY <1>1, <1>4, <2>1 DEF Calm
<1> QED BY <1>2, <1>3, <1>4

(* Until a drop overlaps a read, both threads work with the real readIdx. *)
LEMMA CalmStep == Basics /\ Calm /\ [Next]_vars /\ ~raced' => Calm'
<1> SUFFICES ASSUME Basics, Calm, [Next]_vars, ~raced' PROVE Calm'
  OBVIOUS
<1>t. writer \in Writers /\ reader \in Readers
  BY DEF Basics, TypeOK
<1>n. writeIdx \in Nat /\ readIdx \in Nat
  BY DEF Basics, TypeOK
<1>k. WriterKnows /\ ReaderKnows
  BY DEF Basics
<1>f. /\ writer.w \in Nat /\ writer.r \in Nat /\ writer.needed \in 0..MaxBatch
      /\ writer.drop \in Nat /\ writer.i \in 0..MaxBatch
      /\ reader.w \in Nat /\ reader.r \in Nat /\ reader.n \in Int /\ reader.i \in Nat
  BY <1>t, WriterFields, ReaderFields
<1>c. Capacity \in Nat /\ MaxBatch \in Nat /\ MaxBatch <= Capacity /\ Capacity >= 1
  BY RingAssumption
<1>1. CASE \E frames \in 1..MaxBatch : WriteBatch(frames)
  <2>1. PICK frames \in 1..MaxBatch : WriteBatch(frames)
    BY <1>1
  <2> DEFINE excess == frames - (Capacity - (writeIdx - readIdx))
  <2>2. /\ excess \in Int /\ excess = writeIdx - readIdx + frames - Capacity
        /\ excess <= 0 => writeIdx - readIdx + frames <= Capacity
    BY <1>n, <1>c
  <2>3. Load(frames, excess)
    BY <2>1 DEF WriteBatch
  <2> HIDE DEF excess
  <2> QED BY <2>2, <2>3, CalmLoad
<1>2. CASE WriteSample
  <2> DEFINE excess == IF 1 - (Capacity - (writeIdx - readIdx)) > 0 THEN 1 ELSE 0
  <2>1. writeIdx - readIdx <= Capacity
    BY DEF Calm
  <2>2. /\ excess \in Int
        /\ excess > 0 => excess = writeIdx - readIdx + 1 - Capacity
        /\ excess <= 0 => writeIdx - readIdx + 1 <= Capacity
    BY <2>1, <1>n, <1>c
  <2>3. Load(1, excess) /\ 1 \in 1..MaxBatch
    BY <1>2, RingAssumption DEF WriteSample
  <2> HIDE DEF excess
  <2> QED BY <2>2, <2>3, CalmLoad
<1>3. CASE DropOldest
  <2>1. /\ writer.pc = "drop" /\ reader.pc = "idle" /\ writer.w = writeIdx
        /\ readIdx' = writer.w + writer.needed - Capacity
    BY <1>3, <1>k DEF DropOldest, Calm, WriterKnows
  <2>2. /\ writer'.pc = "copy" /\ writer'.w = writer.w /\ writer'.needed = writer.needed
        /\ UNCHANGED <<writeIdx, reader>>
    BY <1>3, <1>t, WriterDrops DEF DropOldest
  <2>3. readIdx' <= writeIdx /\ writeIdx - readIdx' <= Capacity
    BY <2>1, <1>n, <1>f, <1>c
  <2>4. writer'.w + writer'.needed - Capacity <= readIdx'
    BY <2>1, <2>2, <1>f, <1>c
  <2> QED BY <2>1, <2>2, <2>3, <2>4 DEF Calm
<1>4. CASE CopyIn
  <2>1. writer.i + 1 \in 0..MaxBatch
    BY <1>4, <1>f, <1>c DEF CopyIn
  <2>2. /\ writer'.pc = writer.pc /\ writer'.w = writer.w /\ writer'.needed = writer.needed
        /\ writer.pc = "copy" /\ UNCHANGED <<writeIdx, readIdx, reader>>
    BY <1>4, <1>t, <2>1, WriterCopies DEF CopyIn
  <2> QED BY <2>2 DEF Calm
<1>5. CASE Publish
  <2>1. /\ writer'.pc = "idle" /\ writeIdx' = writer.w + writer.needed /\ writer.w = writeIdx
        /\ UNCHANGED <<readIdx, reader>>
    BY <1>5, <1>k, AtRest DEF Publish, WriterKnows
  <2>2. writer.w + writer.needed - Capacity <= readIdx /\ readIdx <= writeIdx
    BY <1>5 DEF Publish, Calm
  <2>3. readIdx <= writeIdx' /\ writeIdx' - readIdx <= Capacity
    BY <2>1, <2>2, <1>n, <1>f, <1>c
  <2> QED BY <2>1, <2>3 DEF Calm
<1>6. ASSUME NEW max \in 1..MaxRead, Read(max) PROVE Calm'
  <2>1. reader' = [pc |-> "loadR", w |-> writeIdx, r |-> 0, max |-> max, n |-> 0, i |-> 0]
    BY <1>6 DEF Read, ReaderIdle
  <2>2. /\ reader'.pc = "loadR" /\ reader'.w = writeIdx /\ writer.pc # "drop"
        /\ UNCHANGED <<writeIdx, readIdx, writer>>
    BY <1>6, <2>1 DEF Read
  <2> QED BY <2>2 DEF Calm
<1>7. CASE LoadReadIdx
  <2>1. /\ reader.pc = "loadR" /\ reader'.pc \in {"copy", "trapped"} /\ reader'.r = readIdx
        /\ UNCHANGED <<writeIdx, readIdx, writer>>
    BY <1>7, ReadCases DEF Basics
  <2> QED BY <2>1 DEF Calm
<1>8. CASE CopyOut
  <2>1. /\ reader'.pc = reader.pc /\ reader'.r = reader.r /\ reader.pc = "copy"
        /\ UNCHANGED <<writeIdx, readIdx, writer>>
    BY <1>8, <1>t, <1>f, ReaderCopies DEF CopyOut
  <2> QED BY <2>1 DEF Calm
<1>9. CASE Consume
  <2>1. /\ reader.pc = "copy" /\ reader.r = readIdx /\ reader.i = reader.n
        /\ reader.r + reader.n <= reader.w /\ reader.w <= writeIdx
    BY <1>9, <1>k DEF Consume, Calm, ReaderKnows
  <2>2. /\ reader'.pc = "idle" /\ readIdx' = reader.r + reader.n
        /\ UNCHANGED <<writeIdx, writer>>
    BY <1>9, AtRest DEF Consume
  <2>3. readIdx' >= readIdx /\ readIdx' <= writeIdx /\ readIdx' \in Nat
    BY <2>1, <2>2, <1>n, <1>f
  <2>4. writeIdx - readIdx <= Capacity /\ writer.pc # "drop"
    BY <2>1 DEF Calm
  <2>5. writeIdx - readIdx' <= Capacity
    <3>1. \A a, b, c, d \in Nat : b >= a /\ c - a <= d => c - b <= d
      OBVIOUS
    <3> QED BY <3>1, <2>3, <2>4, <1>n, <1>c
  <2>6. writer.pc = "copy" => writer.w + writer.needed - Capacity <= readIdx'
    <3>1. writer.pc = "copy" => writer.w + writer.needed - Capacity <= readIdx
      BY DEF Calm
    <3> QED BY <3>1, <2>3, <1>n, <1>f, <1>c
  <2> QED BY <2>2, <2>3, <2>4, <2>5, <2>6, WriterFields, <1>t DEF Calm
<1>10. CASE UNCHANGED vars
  BY <1>10 DEF vars, Calm
<1> QED BY <1>1, <1>2, <1>3, <1>4, <1>5, <1>6, <1>7, <1>8, <1>9, <1>10
        DEF Next, CoreThread, RenderThread

(* The next frame the render thread copies out is the next one in order. *)
LEMMA NextFrameOut ==
  ASSUME Basics, Calm, NewestAudioKept, reader.pc = "copy", reader.i < reader.n
  PROVE  storage[Slot(reader.r + reader.i)] = readIdx + reader.i + 1
<1>t. writer \in Writers /\ reader \in Readers
  BY DEF Basics, TypeOK
<1>n. writeIdx \in Nat /\ readIdx \in Nat
  BY DEF Basics, TypeOK
<1>f. /\ writer.w \in Nat /\ writer.needed \in 0..MaxBatch /\ writer.i \in 0..MaxBatch
      /\ reader.w \in Nat /\ reader.r \in Nat /\ reader.n \in Int /\ reader.i \in Nat
  BY <1>t, WriterFields, ReaderFields
<1>c. Capacity \in Nat /\ MaxBatch \in Nat
  BY RingAssumption
<1>1. reader.r = readIdx /\ reader.r + reader.n <= reader.w /\ reader.w <= writeIdx
  BY DEF Calm, Basics, ReaderKnows
<1>2. readIdx + reader.i < writeIdx
  BY <1>1, <1>n, <1>f
<1>3. Copied \in Nat /\ writeIdx <= Copied /\ Copied - Capacity <= readIdx
  <2>1. CASE writer.pc = "copy"
    <3>1. /\ writer.w = writeIdx /\ writer.i <= writer.needed
          /\ writer.w + writer.needed - Capacity <= readIdx
      BY <2>1 DEF Basics, WriterKnows, Calm
    <3>2. Copied = writer.w + writer.i
      BY <2>1 DEF Copied
    <3> QED BY <3>1, <3>2, <1>n, <1>f, <1>c
  <2>2. CASE writer.pc # "copy"
    <3>1. writeIdx - readIdx <= Capacity
      BY DEF Calm
    <3>2. Copied = writeIdx
      BY <2>2 DEF Copied
    <3> QED BY <3>1, <3>2, <1>n, <1>c
  <2> QED BY <2>1, <2>2
<1> DEFINE j == readIdx + reader.i
<1>4. j \in 0..(Copied - 1) /\ j >= Copied - Capacity
  BY <1>2, <1>3, <1>n, <1>f, <1>c
<1>5. storage[Slot(j)] = j + 1
  BY <1>4 DEF NewestAudioKept
<1> QED BY <1>1, <1>5

(* What has been played stays in order and accounted for. *)
LEMMA AccountedStep ==
  Basics /\ Calm /\ NewestAudioKept /\ Accounted /\ [Next]_vars /\ ~raced' => Accounted'
<1> SUFFICES ASSUME Basics, Calm, NewestAudioKept, Accounted, [Next]_vars PROVE Accounted'
  OBVIOUS
<1>t. writer \in Writers /\ reader \in Readers
  BY DEF Basics, TypeOK
<1>n. readIdx \in Nat /\ lost \in Nat
  BY DEF Basics, TypeOK
<1>h. heard \in Seq(Nat) /\ Len(heard) \in Nat /\ \A k \in 1..Len(heard) : heard[k] \in Nat
  BY DEF Basics, TypeOK
<1>k. ReaderKnows
  BY DEF Basics
<1>f. /\ writer.w \in Nat /\ writer.r \in Nat /\ writer.drop \in Nat
      /\ reader.r \in Nat /\ reader.n \in Int /\ reader.i \in Nat
  BY <1>t, WriterFields, ReaderFields
<1>u. UNCHANGED <<heard, lost>> /\ readIdx' + reader'.i = readIdx + reader.i => Accounted'
  BY DEF Accounted
<1>1. ASSUME NEW frames \in 1..MaxBatch, NEW excess \in Int, Load(frames, excess)
      PROVE  Accounted'
  <2>1. UNCHANGED <<readIdx, reader, heard, lost>>
    BY <1>1, LoadCases DEF Basics
  <2> QED BY <2>1, <1>u
<1>2. CASE \E frames \in 1..MaxBatch : WriteBatch(frames)
  <2>1. PICK frames \in 1..MaxBatch : WriteBatch(frames)
    BY <1>2
  <2>2. frames - (Capacity - (writeIdx - readIdx)) \in Int
    BY RingAssumption DEF Basics, TypeOK
  <2> QED BY <1>1, <2>1, <2>2 DEF WriteBatch
<1>3. CASE WriteSample
  <2>1. 1 \in 1..MaxBatch
    BY RingAssumption
  <2>2. (IF 1 - (Capacity - (writeIdx - readIdx)) > 0 THEN 1 ELSE 0) \in Int
    OBVIOUS
  <2> QED BY <1>1, <1>3, <2>1, <2>2 DEF WriteSample
<1>4. CASE DropOldest
  <2>1. /\ writer.r = readIdx /\ reader.i = 0 /\ UNCHANGED <<reader, heard>>
        /\ readIdx' = writer.r + writer.drop /\ lost' = lost + writer.drop
    BY <1>4, <1>k DEF DropOldest, Calm, ReaderKnows
  <2>2. readIdx' >= readIdx /\ readIdx' \in Nat
    BY <2>1, <1>n, <1>f
  <2>3. Len(heard) + lost' = readIdx'
    <3>1. Len(heard) + lost = readIdx + 0
      BY <2>1 DEF Accounted
    <3> QED BY <3>1, <2>1, <1>n, <1>h, <1>f
  <2>4. \A k \in 1..Len(heard) : heard[k] <= readIdx' + 0
    <3>1. \A k \in 1..Len(heard) : heard[k] <= readIdx + 0
      BY <2>1 DEF Accounted
    <3> QED BY <3>1, <2>2, <1>n, <1>h
  <2>5. readIdx' = readIdx' + 0
    <3>1. \A x \in Nat : x = x + 0
      OBVIOUS
    <3> QED BY <3>1, <2>2
  <2> QED BY <2>1, <2>3, <2>4, <2>5 DEF Accounted
<1>5. CASE CopyIn
  BY <1>5, <1>u DEF CopyIn
<1>6. CASE Publish
  BY <1>6, <1>u DEF Publish
<1>7. ASSUME NEW max \in 1..MaxRead, Read(max) PROVE Accounted'
  <2>1. reader' = [pc |-> "loadR", w |-> writeIdx, r |-> 0, max |-> max, n |-> 0, i |-> 0]
    BY <1>7 DEF Read, ReaderIdle
  <2>2. reader'.i = 0
    BY <2>1
  <2>3. reader.i = 0 /\ UNCHANGED <<readIdx, heard, lost>>
    BY <1>7, <1>k DEF Read, ReaderKnows
  <2> QED BY <2>2, <2>3, <1>u
<1>8. CASE LoadReadIdx
  <2>1. reader'.i = reader.i /\ UNCHANGED <<readIdx, heard, lost>>
    BY <1>8, ReadCases DEF Basics
  <2> QED BY <2>1, <1>u
<1>9. CASE CopyOut
  <2> DEFINE v == readIdx + reader.i + 1
             n == Len(heard) + 1
  <2>1. heard' = Append(heard, v) /\ UNCHANGED <<readIdx, lost>>
    BY <1>9, NextFrameOut DEF CopyOut
  <2>2. reader'.i = reader.i + 1
    BY <1>9, <1>t, <1>f, ReaderCopies DEF CopyOut
  <2>3. v \in Nat /\ v = readIdx + (reader.i + 1)
    BY <1>n, <1>f
  <2> HIDE DEF v
  <2>4. /\ Len(heard') = n /\ heard'[n] = v
        /\ \A k \in 1..Len(heard) : heard'[k] = heard[k]
    BY <2>1, <2>3, <1>h
  <2>5. \A k \in 1..n : k = n \/ k \in 1..Len(heard)
    BY <1>h
  <2>6. \A k \in 1..Len(heard) : heard[k] < v
    <3>1. \A k \in 1..Len(heard) : heard[k] <= readIdx + reader.i
      BY DEF Accounted
    <3>2. v > readIdx + reader.i
      BY <1>n, <1>f DEF v
    <3>3. ASSUME NEW k \in 1..Len(heard) PROVE heard[k] < v
      <4>1. heard[k] \in Nat /\ readIdx + reader.i \in Nat
        BY <1>h, <1>n, <1>f
      <4>2. heard[k] <= readIdx + reader.i
        BY <3>1
      <4> QED BY <4>1, <4>2, <3>2, <2>3
    <3> QED BY <3>3
  <2>7. \A k \in 1..n : heard'[k] <= readIdx + (reader.i + 1)
    BY <2>3, <2>4, <2>5, <2>6, <1>h
  <2>8. \A k \in 1..n : \A m \in 1..(k - 1) : heard'[m] < heard'[k]
    <3> SUFFICES ASSUME NEW k \in 1..n, NEW m \in 1..(k - 1) PROVE heard'[m] < heard'[k]
      OBVIOUS
    <3>1. m \in 1..Len(heard) /\ heard'[m] = heard[m]
      BY <1>h, <2>4
    <3>2. CASE k = n
      BY <3>1, <3>2, <2>4, <2>6
    <3>3. CASE k \in 1..Len(heard)
      BY <3>1, <3>3, <2>4 DEF Accounted
    <3> QED BY <2>5, <3>2, <3>3
  <2>9. n + lost = readIdx + (reader.i + 1)
    <3>1. Len(heard) + lost = readIdx + reader.i
      BY DEF Accounted
    <3>2. Len(heard) \in Nat /\ lost \in Nat /\ readIdx \in Nat /\ reader.i \in Nat
      BY <1>n, <1>h, <1>f
    <3> QED BY <3>1, <3>2
  <2> HIDE DEF n
  <2> QED BY <2>1, <2>2, <2>4, <2>7, <2>8, <2>9 DEF Accounted
<1>10. CASE Consume
  <2>1. /\ reader.r = readIdx /\ reader.i = reader.n /\ readIdx' = reader.r + reader.n
        /\ reader'.i = 0 /\ UNCHANGED <<heard, lost>>
    BY <1>10, AtRest DEF Consume, Calm
  <2>2. readIdx' + 0 = readIdx + reader.i
    BY <2>1, <1>n, <1>f
  <2> QED BY <2>1, <2>2, <1>u
<1>11. CASE UNCHANGED vars
  BY <1>11, <1>u DEF vars
<1> QED BY <1>2, <1>3, <1>4, <1>5, <1>6, <1>7, <1>8, <1>9, <1>10, <1>11
        DEF Next, CoreThread, RenderThread

-----------------------------------------------------------------------------
(* The invariant and what it gives.                                        *)

(* The invariant holds initially. *)
LEMMA RingInit == Init => RingInv
<1> SUFFICES ASSUME Init PROVE RingInv
  OBVIOUS
<1>1. Basics
  BY BasicsInit
<1>2. Copied = 0
  BY AtRest DEF Init, Copied
<1>3. NewestAudioKept /\ NothingOlder
  BY <1>2 DEF NewestAudioKept, NothingOlder
<1>4. Calm
  <2>1. 0 <= 0 /\ 0 - 0 <= Capacity
    BY RingAssumption
  <2> QED BY <2>1, AtRest DEF Init, Calm
<1>5. Accounted
  BY AtRest DEF Init, Accounted
<1> QED BY <1>1, <1>3, <1>4, <1>5 DEF RingInv, Basics

(* Every step keeps it. *)
LEMMA RingStep == RingInv /\ [Next]_vars => RingInv'
<1> SUFFICES ASSUME RingInv, [Next]_vars PROVE RingInv'
  OBVIOUS
<1>1. Basics /\ NewestAudioKept /\ NothingOlder /\ (~raced => Calm /\ Accounted)
  BY DEF RingInv, Basics
<1>2. Basics' /\ NewestAudioKept' /\ NothingOlder'
  BY <1>1, BasicsStep, NewestAudioKeptStep, NothingOlderStep
<1>3. ~raced' => Calm' /\ Accounted'
  BY <1>1, RacedStays, CalmStep, AccountedStep DEF Basics, TypeOK
<1> QED BY <1>2, <1>3 DEF RingInv, Basics

(* The inductive invariant holds in every run. *)
THEOREM Invariance == Spec => []RingInv
BY RingInit, RingStep, PTL DEF Spec

(* However the two threads interleave, the last Capacity frames the core   *)
(* produced are in storage (newest audio wins).                            *)
THEOREM NewestAudioKeptHolds == Spec => []NewestAudioKept
<1>1. RingInv => NewestAudioKept
  BY DEF RingInv
<1> QED BY <1>1, Invariance, PTL

(* However they interleave, the render thread never plays anything older   *)
(* than the frame it addresses.                                            *)
THEOREM NoStaleAudioHolds == Spec => []NoStaleAudio
<1>1. RingInv => NoStaleAudio
  <2> SUFFICES ASSUME RingInv, reader.pc = "copy", reader.i < reader.n
               PROVE  storage[Slot(reader.r + reader.i)] >= reader.r + reader.i + 1
    BY DEF NoStaleAudio
  <2>t. writer \in Writers /\ reader \in Readers /\ writeIdx \in Nat
    BY DEF RingInv, TypeOK
  <2>f. /\ writer.w \in Nat /\ writer.i \in 0..MaxBatch
        /\ reader.w \in Nat /\ reader.r \in Nat /\ reader.n \in Int /\ reader.i \in Nat
    BY <2>t, WriterFields, ReaderFields
  <2>1. reader.r + reader.n <= reader.w /\ reader.w <= writeIdx
    BY DEF RingInv, ReaderKnows
  <2>2. Copied \in Nat /\ writeIdx <= Copied
    BY <2>t, <2>f, RingAssumption DEF RingInv, WriterKnows, Copied
  <2>3. reader.r + reader.i \in 0..(Copied - 1)
    BY <2>1, <2>2, <2>t, <2>f
  <2> QED BY <2>3 DEF RingInv, NothingOlder
<1> QED BY <1>1, Invariance, PTL

(* Until a drop overlaps a read, audio is played in order, nothing twice,  *)
(* every frame played, counted as lost or buffered.                        *)
THEOREM AudioInOrderHolds == Spec => []AudioInOrder
<1>1. RingInv => AudioInOrder
  <2> SUFFICES ASSUME RingInv, ~raced
               PROVE  Accounted /\ writeIdx - readIdx \in 0..Capacity
    BY DEF AudioInOrder, Accounted
  <2>1. writeIdx \in Nat /\ readIdx \in Nat /\ readIdx <= writeIdx
        /\ writeIdx - readIdx <= Capacity
    BY DEF RingInv, TypeOK, Calm
  <2> QED BY <2>1, RingAssumption DEF RingInv
<1> QED BY <1>1, Invariance, PTL
=============================================================================
