-------------------------- MODULE RcRuntime_proofs --------------------------
(***************************************************************************)
(* What the runtime keeps, whatever definitions it is given and whatever   *)
(* memory holds: no condition counts past its target, no reference is      *)
(* computed before its sources, an achievement triggers once until it is   *)
(* started over, a leaderboard that starts has forgotten what it counted,  *)
(* progress found damaged leaves nothing behind, and asking what to        *)
(* display counts nothing.  In the order of the code: lists, parsing,      *)
(* evaluation, the runtime's calls, saving and restoring, the invariant.   *)
(***************************************************************************)
EXTENDS RcRuntime_invariant, SequenceTheorems, WellFoundedInduction, TLAPS


(* A set of numbers has a least one. *)
LEMMA LeastIn ==
  ASSUME NEW S \in SUBSET Nat, S # {}
  PROVE  \E x \in S : \A y \in S : x <= y
<1>1. PICK x \in S : \A y \in S : ~(<<y, x>> \in OpToRel(<, Nat))
  <2>1. IsWellFoundedOn(OpToRel(<, Nat), Nat) /\ S \subseteq Nat
    BY NatLessThanWellFounded
  <2> QED BY <2>1, WFMin
<1>2. \A y \in S : x <= y
  <2>1. TAKE y \in S
  <2>2. <<y, x>> \notin OpToRel(<, Nat)
    BY <1>1
  <2>3. x \in Nat /\ y \in Nat
    OBVIOUS
  <2>4. ~(y < x)
    BY <2>2, <2>3 DEF OpToRel
  <2> QED BY ONLY <2>3, <2>4
<1> QED BY <1>2

(* What holds of 0 and passes from each number to the next holds of all. *)
LEMMA FromZero ==
  ASSUME NEW S \in SUBSET Nat, 0 \in S, \A n \in Nat : n \in S => n + 1 \in S
  PROVE  S = Nat
<1>1. SUFFICES ASSUME Nat \ S # {} PROVE FALSE
  OBVIOUS
<1>2. Nat \ S \in SUBSET Nat
  OBVIOUS
<1>3. PICK x \in Nat \ S : \A y \in Nat \ S : x <= y
  BY <1>1, <1>2, LeastIn
<1>4. x - 1 \in Nat /\ ~(x <= x - 1) /\ x = (x - 1) + 1
  BY <1>3
<1>5. x - 1 \in S
  BY <1>3, <1>4
<1> QED BY <1>3, <1>4, <1>5

(* What holds of the first number and passes from each to the next holds of all: the folds' induction. *)
LEMMA Induction ==
  \A S \in SUBSET Nat : 0 \in S /\ (\A m \in Nat : m \in S => m + 1 \in S) => S = Nat
  BY FromZero

(* A function whose arguments are the first numbers is a list of that length. *)
LEMMA FunctionIsList ==
  ASSUME NEW n \in Nat, NEW s, s = [i \in 1..n |-> s[i]]
  PROVE  IsList(s) /\ Len(s) = n /\ DOMAIN s = 1..n
<1>1. s \in Seq({s[i] : i \in 1..n})
  OBVIOUS
<1>2. Len(s) = n
  BY <1>1
<1> QED BY <1>2 DEF IsList

(* A sequence is a list. *)
LEMMA SeqIsList ==
  ASSUME NEW S, NEW s \in Seq(S)
  PROVE  IsList(s)
<1>1. PICK n \in Nat : s \in [1..n -> S]
  BY SeqDef
<1>2. s = [i \in 1..n |-> s[i]]
  BY <1>1
<1> QED BY <1>2, FunctionIsList DEF IsList

(* A list has a length, its items are at 1 to that, and it is a sequence of them. *)
LEMMA ListFacts ==
  ASSUME NEW s, IsList(s)
  PROVE  Len(s) \in Nat /\ DOMAIN s = 1..Len(s) /\ s \in Seq(ToSet(s))
<1>1. Len(s) \in Nat /\ s = [i \in 1..Len(s) |-> s[i]]
  BY DEF IsList
<1>2. DOMAIN s = 1..Len(s)
  BY <1>1
<1>3. \A i \in 1..Len(s) : s[i] \in ToSet(s)
  BY <1>2 DEF ToSet
<1>4. s \in [1..Len(s) -> ToSet(s)]
  BY <1>1, <1>3
<1> QED BY <1>1, <1>2, <1>4

(* A list with an item more. *)
LEMMA AppendFacts ==
  ASSUME NEW s, IsList(s), NEW x
  PROVE  /\ IsList(Append(s, x)) /\ Len(Append(s, x)) = Len(s) + 1
         /\ DOMAIN Append(s, x) = 1..(Len(s) + 1)
         /\ \A i \in 1..Len(s) : Append(s, x)[i] = s[i]
         /\ Append(s, x)[Len(s) + 1] = x
<1>1. Len(s) \in Nat /\ DOMAIN s = 1..Len(s) /\ s \in Seq(ToSet(s))
  BY ListFacts
<1> DEFINE S == ToSet(s) \cup {x}
<1>2. s \in Seq(S) /\ x \in S
  BY <1>1
<1> HIDE DEF S
<1>3. /\ Append(s, x) \in Seq(S) /\ Len(Append(s, x)) = Len(s) + 1
      /\ \A i \in 1..Len(s) : Append(s, x)[i] = s[i]
      /\ Append(s, x)[Len(s) + 1] = x
  BY <1>2
<1>4. IsList(Append(s, x))
  BY <1>3, SeqIsList
<1>5. DOMAIN Append(s, x) = 1..(Len(s) + 1)
  BY <1>3, <1>4, ListFacts
<1> QED BY <1>1, <1>3, <1>4, <1>5

(* Two lists in a row. *)
LEMMA ConcatFacts ==
  ASSUME NEW s, IsList(s), NEW t, IsList(t)
  PROVE  /\ IsList(s \o t) /\ Len(s \o t) = Len(s) + Len(t)
         /\ DOMAIN (s \o t) = 1..(Len(s) + Len(t))
         /\ \A i \in 1..Len(s) : (s \o t)[i] = s[i]
         /\ \A i \in 1..Len(t) : (s \o t)[Len(s) + i] = t[i]
<1>1. Len(s) \in Nat /\ DOMAIN s = 1..Len(s) /\ s \in Seq(ToSet(s))
  BY ListFacts
<1>2. Len(t) \in Nat /\ DOMAIN t = 1..Len(t) /\ t \in Seq(ToSet(t))
  BY ListFacts
<1> DEFINE S == ToSet(s) \cup ToSet(t)
<1>3. s \in Seq(S) /\ t \in Seq(S)
  BY <1>1, <1>2
<1> HIDE DEF S
<1>4. /\ s \o t \in Seq(S) /\ Len(s \o t) = Len(s) + Len(t)
  BY <1>3
<1>5. \A i \in 1..Len(s) : (s \o t)[i] = s[i]
  BY <1>3, <1>1
<1>6. \A i \in 1..Len(t) : (s \o t)[Len(s) + i] = t[i]
  BY <1>3, <1>1, <1>2
<1>7. IsList(s \o t)
  BY <1>4, SeqIsList
<1>8. DOMAIN (s \o t) = 1..(Len(s) + Len(t))
  BY <1>4, <1>7, ListFacts
<1> QED BY <1>1, <1>2, <1>4, <1>5, <1>6, <1>7, <1>8

(* The first item of a list and the rest. *)
LEMMA HeadTailFacts ==
  ASSUME NEW s, IsList(s), s # <<>>
  PROVE  /\ Len(s) > 0 /\ Head(s) = s[1]
         /\ IsList(Tail(s)) /\ Len(Tail(s)) = Len(s) - 1 /\ DOMAIN Tail(s) = 1..(Len(s) - 1)
         /\ \A i \in 1..(Len(s) - 1) : Tail(s)[i] = s[i + 1]
<1>1. Len(s) \in Nat /\ DOMAIN s = 1..Len(s) /\ s \in Seq(ToSet(s))
  BY ListFacts
<1>2. Len(s) > 0
  BY <1>1
<1>3. /\ Head(s) = s[1] /\ Tail(s) \in Seq(ToSet(s)) /\ Len(Tail(s)) = Len(s) - 1
      /\ \A i \in 1..(Len(s) - 1) : Tail(s)[i] = s[i + 1]
  BY <1>1, <1>2
<1>4. IsList(Tail(s))
  BY <1>3, SeqIsList
<1>5. DOMAIN Tail(s) = 1..(Len(s) - 1)
  BY <1>3, <1>4, ListFacts
<1> QED BY <1>1, <1>2, <1>3, <1>4, <1>5

(* A list without its last item. *)
LEMMA FrontFacts ==
  ASSUME NEW s, IsList(s), s # <<>>
  PROVE  /\ IsList(Front(s)) /\ Len(Front(s)) = Len(s) - 1 /\ DOMAIN Front(s) = 1..(Len(s) - 1)
         /\ \A i \in 1..(Len(s) - 1) : Front(s)[i] = s[i]
<1>1. Len(s) \in Nat /\ DOMAIN s = 1..Len(s) /\ s \in Seq(ToSet(s))
  BY ListFacts
<1>2. Len(s) > 0
  BY <1>1
<1>3. Front(s) = [i \in 1..(Len(s) - 1) |-> s[i]]
  BY <1>1, <1>2 DEF Front
<1> QED BY <1>1, <1>2, <1>3, FunctionIsList

(* The empty list. *)
LEMMA EmptyList == IsList(<<>>) /\ Len(<<>>) = 0 /\ DOMAIN <<>> = 1..0
  BY DEF IsList

(* A list of one item. *)
LEMMA OneList ==
  ASSUME NEW x
  PROVE  IsList(<<x>>) /\ Len(<<x>>) = 1 /\ DOMAIN <<x>> = 1..1 /\ <<x>>[1] = x
  BY DEF IsList

(* A list behind one item. *)
LEMMA ConsFacts ==
  ASSUME NEW x, NEW t, IsList(t)
  PROVE  /\ IsList(<<x>> \o t) /\ Len(<<x>> \o t) = Len(t) + 1 /\ DOMAIN (<<x>> \o t) = 1..(Len(t) + 1)
         /\ (<<x>> \o t)[1] = x
         /\ \A i \in 1..Len(t) : (<<x>> \o t)[i + 1] = t[i]
<1> DEFINE S == ToSet(t) \cup {x}
           all == <<x>> \o t
<1>1. Len(t) \in Nat /\ DOMAIN t = 1..Len(t) /\ t \in Seq(S) /\ <<x>> \in Seq(S)
  BY ListFacts
<1> HIDE DEF S
<1>2. all \in Seq(S) /\ Len(all) = Len(t) + 1
  BY <1>1
<1>3. IsList(all) /\ DOMAIN all = 1..(Len(t) + 1)
  BY <1>2, SeqIsList, ListFacts
<1>4. all[1] = x
  BY <1>1
<1>5. ASSUME NEW i \in 1..Len(t)
      PROVE  all[i + 1] = t[i]
  BY <1>1
<1> QED BY <1>2, <1>3, <1>4, <1>5

(* What a pool knows, the pool it has grown into knows. *)
LEMMA KnownLater ==
  ASSUME NEW op, NEW pool, NEW now, Known(op, pool), Grows(pool, now)
  PROVE  Known(op, now)
  BY DEF Known, Grows

(* A pool grows step by step. *)
LEMMA GrowsOn ==
  ASSUME NEW pool, NEW next, NEW now, Grows(pool, next), Grows(next, now)
  PROVE  Grows(pool, now)
  BY DEF Grows

(* So does what parsing carries. *)
LEMMA FollowsOn ==
  ASSUME NEW ps, NEW next, NEW now, Follows(ps, next), Follows(next, now)
  PROVE  Follows(ps, now)
  BY GrowsOn DEF Follows

(* Parsing that does nothing keeps what it carries. *)
LEMMA FollowsSelf ==
  ASSUME NEW ps, Fine(ps)
  PROVE  Follows(ps, ps)
  BY DEF Follows, Grows, Fine

(* What was found in a list is in it. *)
LEMMA IndexFound ==
  ASSUME NEW s, IsList(s), NEW Test(_), SelectInSeq(s, Test) # 0
  PROVE  SelectInSeq(s, Test) \in DOMAIN s
<1> DEFINE I == {i \in 1..Len(s) : Test(s[i])}
<1>1. SelectInSeq(s, Test) = IF I # {} THEN Min(I) ELSE 0
  BY DEF SelectInSeq
<1>2. I \in SUBSET Nat /\ I \subseteq DOMAIN s
  BY ListFacts
<1> HIDE DEF I
<1>3. I # {}
  BY <1>1
<1>4. Min(I) \in I
  BY <1>2, <1>3, LeastIn DEF Min
<1> QED BY <1>1, <1>2, <1>3, <1>4

(* A reference found in the pool, or added to it.                          *)
LEMMA AllocMemrefGrows ==
  ASSUME NEW pool, PoolFine(pool), NEW ref
  PROVE  Grows(pool, AllocMemref(pool, ref))
<1>1. CASE ref \in DOMAIN pool.at
  BY <1>1 DEF AllocMemref, Grows
<1>2. CASE ref \notin DOMAIN pool.at
  <2> DEFINE now == AllocMemref(pool, ref)
  <2>1. DOMAIN pool = {"plain", "modified", "at"} /\ IsList(pool.plain)
    BY DEF PoolFine, PoolFields
  <2>2. now = [pool EXCEPT !.plain = Append(@, ref), !.at = @ @@ (ref :> Cell("unsigned"))]
    BY <1>2 DEF AllocMemref
  <2>3. DOMAIN now = DOMAIN pool /\ now.modified = pool.modified /\ now.plain = Append(pool.plain, ref)
    BY <2>1, <2>2
  <2>4. IsList(now.plain)
    BY <2>1, <2>3, AppendFacts
  <2> QED BY <2>3, <2>4 DEF PoolFine, Grows
<1> QED BY <1>1, <1>2

(* A computed reference put last comes after the references it is computed from. *)
LEMMA AppendKeepsOrder ==
  ASSUME NEW list, IsList(list), Ordered(list), NEW ref,
         Computed(ref.parent) => ref.parent.ref \in ToSet(list),
         Computed(ref.modifier) => ref.modifier.ref \in ToSet(list)
  PROVE  Ordered(Append(list, ref)) /\ ToSet(Append(list, ref)) = ToSet(list) \cup {ref}
<1> DEFINE next == Append(list, ref)
<1>1. /\ Len(list) \in Nat /\ DOMAIN list = 1..Len(list) /\ DOMAIN next = 1..(Len(list) + 1)
      /\ \A i \in 1..Len(list) : next[i] = list[i]
      /\ next[Len(list) + 1] = ref
  BY ListFacts, AppendFacts
<1> HIDE DEF next
<1>2. ASSUME NEW i \in 1..Len(list), NEW op, Earlier(list, i, op)
      PROVE  Earlier(next, i, op)
  BY <1>1, <1>2 DEF Earlier
<1>3. ASSUME NEW op, Computed(op) => op.ref \in ToSet(list)
      PROVE  Earlier(next, Len(list) + 1, op)
  BY <1>1, <1>3 DEF Earlier, ToSet
<1>4. ASSUME NEW i \in DOMAIN next
      PROVE  Earlier(next, i, next[i].parent) /\ Earlier(next, i, next[i].modifier)
  <2>1. CASE i \in 1..Len(list)
    BY <1>1, <1>2, <2>1 DEF Ordered
  <2>2. CASE i = Len(list) + 1
    BY <1>1, <1>3, <2>2
  <2> QED BY <1>1, <2>1, <2>2
<1>5. ToSet(next) = ToSet(list) \cup {ref}
  BY <1>1 DEF ToSet
<1> QED BY <1>4, <1>5 DEF Ordered, next

(* rc_alloc_modified_memref finds or adds a computed reference, and the pool stays ordered. *)
LEMMA AllocModifiedGrows ==
  ASSUME NEW pool, PoolFine(pool), NEW size, NEW parent, NEW oper, NEW modifier,
         Known(parent, pool), Known(modifier, pool),
         NEW m, m = AllocModified(pool, size, parent, oper, modifier)
  PROVE  Grows(pool, m.pool) /\ m.ref \in ToSet(m.pool.modified)
<1> DEFINE same(r) == /\ r.size = size /\ r.oper = oper
                      /\ OperandsAreEqual(r.parent, parent) /\ OperandsAreEqual(r.modifier, modifier)
           found == SelectInSeq(pool.modified, same)
           ref == ModifiedRef(size, parent, oper, modifier)
           now == [pool EXCEPT !.modified = Append(@, ref),
                               !.at = @ @@ (ref :> Cell(IF size \in FloatSizes THEN "float" ELSE "unsigned"))]
<1>1. m = IF found # 0 THEN [ref |-> pool.modified[found], pool |-> pool] ELSE [ref |-> ref, pool |-> now]
  BY DEF AllocModified
<1>2. DOMAIN pool = {"plain", "modified", "at"} /\ IsList(pool.plain) /\ IsList(pool.modified) /\ Ordered(pool.modified)
  BY DEF PoolFine, PoolFields
<1>3. CASE found # 0
  <2>1. found \in DOMAIN pool.modified
    BY <1>2, <1>3, IndexFound
  <2> HIDE DEF found
  <2>2. pool.modified[found] \in ToSet(pool.modified)
    BY <2>1 DEF ToSet
  <2> QED BY <1>1, <1>3, <2>2 DEF Grows
<1>4. CASE found = 0
  <2> HIDE DEF found
  <2>1. ref.parent = parent /\ ref.modifier = modifier
    BY DEF ModifiedRef
  <2> HIDE DEF ref
  <2>2. DOMAIN now = DOMAIN pool /\ now.plain = pool.plain /\ now.modified = Append(pool.modified, ref)
    BY <1>2
  <2> HIDE DEF now
  <2>3. IsList(now.modified)
    BY <1>2, <2>2, AppendFacts
  <2>4. Ordered(now.modified) /\ ToSet(now.modified) = ToSet(pool.modified) \cup {ref}
    BY <1>2, <2>1, <2>2, AppendKeepsOrder DEF Known
  <2>5. Grows(pool, now)
    BY <1>2, <2>2, <2>3, <2>4 DEF Grows, PoolFine
  <2> QED BY <1>1, <1>4, <2>4, <2>5
<1> QED BY <1>3, <1>4

(* What parsing carries may change field by field while the pool knows the operands it keeps. *)
LEMMA FineUpdate ==
  ASSUME NEW ps, Fine(ps), NEW now, DOMAIN now = PsFields, Grows(ps.pool, now.pool),
         Known(now.indirect, now.pool), Known(now.addsource, now.pool), Known(now.remember, now.pool),
         now.isValue = ps.isValue, now.hasRequired = ps.hasRequired
  PROVE  Follows(ps, now)
  BY DEF Follows, Fine, Grows

(* The parts of what parsing carries. *)
LEMMA FineFields ==
  ASSUME NEW ps, Fine(ps)
  PROVE  /\ DOMAIN ps = PsFields /\ PoolFine(ps.pool) /\ Grows(ps.pool, ps.pool)
         /\ Known(ps.indirect, ps.pool) /\ Known(ps.addsource, ps.pool) /\ Known(ps.remember, ps.pool)
  BY DEF Fine, Grows

(* A grown pool may take the place of the old one. *)
LEMMA FineWithPool ==
  ASSUME NEW ps, Fine(ps), NEW pool, Grows(ps.pool, pool)
  PROVE  Follows(ps, [ps EXCEPT !.pool = pool])
<1> DEFINE now == [ps EXCEPT !.pool = pool]
<1>1. DOMAIN ps = PsFields /\ Known(ps.indirect, pool) /\ Known(ps.addsource, pool) /\ Known(ps.remember, pool)
  BY FineFields, KnownLater
<1>2. /\ DOMAIN now = PsFields /\ now.pool = pool /\ now.indirect = ps.indirect /\ now.addsource = ps.addsource
      /\ now.remember = ps.remember
  BY <1>1 DEF PsFields
<1>3. now.isValue = ps.isValue /\ now.hasRequired = ps.hasRequired
  BY <1>1 DEF PsFields
<1> HIDE DEF now
<1>4. Follows(ps, now)
  BY <1>1, <1>2, <1>3, FineUpdate
<1> QED BY <1>4 DEF now

(* An error may be noted. *)
LEMMA FineWithError ==
  ASSUME NEW ps, Fine(ps), NEW error
  PROVE  Follows(ps, [ps EXCEPT !.error = error]) /\ [ps EXCEPT !.error = error].error = error
<1> DEFINE now == [ps EXCEPT !.error = error]
<1>1. DOMAIN ps = PsFields /\ Grows(ps.pool, ps.pool)
  BY FineFields
<1>2. /\ DOMAIN now = PsFields /\ now.pool = ps.pool /\ now.indirect = ps.indirect /\ now.addsource = ps.addsource
      /\ now.remember = ps.remember /\ now.error = error
  BY <1>1 DEF PsFields
<1>3. now.isValue = ps.isValue /\ now.hasRequired = ps.hasRequired
  BY <1>1 DEF PsFields
<1> HIDE DEF now
<1>4. Follows(ps, now)
  BY <1>1, <1>2, <1>3, FineUpdate, FineFields
<1> QED BY <1>2, <1>4 DEF now

(* An operand of a known reference is known. *)
LEMMA OperandKnown ==
  ASSUME NEW pool, NEW type, NEW size, NEW ref, NEW n, NEW d,
         ref.kind = "modified" => ref \in ToSet(pool.modified)
  PROVE  Known(Operand(type, size, ref, n, d), pool)
  BY DEF Known, Computed, Operand, OperandFields

(* An operand of no reference is known. *)
LEMMA PlainKnown ==
  ASSUME NEW pool, NEW op, DOMAIN op = OperandFields, op.type \in {"const", "fp", "recall"}
  PROVE  Known(op, pool)
  BY DEF Known, Computed, IsMemref, IsMemrefType

(* Constants are known. *)
LEMMA ConstKnown ==
  ASSUME NEW pool, NEW n, NEW d
  PROVE  Known(Const(n), pool) /\ Known(FloatConst(n, d), pool) /\ Known(NoOperand, pool)
<1>1. DOMAIN Const(n) = OperandFields /\ Const(n).type = "const"
  BY DEF Const, Operand, OperandFields
<1>2. DOMAIN FloatConst(n, d) = OperandFields /\ FloatConst(n, d).type = "fp"
  BY DEF FloatConst, Operand, OperandFields
<1>3. DOMAIN NoOperand = OperandFields /\ NoOperand.ref = NoRef /\ NoRef.kind = "none"
  BY DEF NoOperand, Operand, OperandFields, NoRef
<1> QED BY <1>1, <1>2, <1>3, PlainKnown DEF Known, Computed

(* So is what was remembered. *)
LEMMA RecallKnown ==
  ASSUME NEW ps, Fine(ps)
  PROVE  Known(ParseRecall(ps), ps.pool)
<1>1. DOMAIN ps.remember = OperandFields
  BY FineFields DEF Known
<1>2. DOMAIN ParseRecall(ps) = OperandFields /\ ParseRecall(ps).type = "recall"
  BY <1>1 DEF ParseRecall, Operand, OperandFields
<1> QED BY <1>2, PlainKnown

(* An operand read from memory is known to the pool it was put in. *)
LEMMA MemoryRead ==
  ASSUME NEW raw, NEW ps, Fine(ps), NEW m, Grows(ps.pool, m.pool), m.ref.kind = "modified" => m.ref \in ToSet(m.pool.modified)
  PROVE  OperandRead(ps, MemoryOperand(raw, m, ps))
<1> DEFINE now == [ps EXCEPT !.pool = m.pool]
<1>1. Follows(ps, now)
  BY FineWithPool
<1>2. now.pool = m.pool
  BY FineFields DEF PsFields
<1> HIDE DEF now
<1>3. Known(Operand(raw.access, raw.size, m.ref, 0, 1), m.pool)
  BY OperandKnown
<1>4. MemoryOperand(raw, m, ps) = [op |-> Operand(raw.access, raw.size, m.ref, 0, 1), ps |-> now]
  BY DEF MemoryOperand, now
<1> QED BY <1>1, <1>2, <1>3, <1>4 DEF OperandRead

(* rc_parse_operand: the operand is known to the pool it leaves. *)
LEMMA ParseOperandReads ==
  ASSUME NEW raw, NEW ps, Fine(ps)
  PROVE  OperandRead(ps, ParseOperand(raw, ps))
<1>1. Follows(ps, ps) /\ PoolFine(ps.pool) /\ Known(ps.indirect, ps.pool)
  BY FollowsSelf, FineFields
<1>2. CASE raw.kind = "memory"
  <2> DEFINE shared == SharedSize(raw.size)
             size == IF raw.access = "prior" /\ ~SameMask(shared, raw.size) THEN raw.size ELSE shared
             plain == PlainRef(raw.address, size)
             own == [ref |-> plain, pool |-> AllocMemref(ps.pool, plain)]
             through == AllocModified(ps.pool, size, ps.indirect, "indirect", Const(raw.address))
             m == IF ps.indirect.type = "none" THEN own ELSE through
  <2>1. ParseOperand(raw, ps) = MemoryOperand(raw, m, ps)
    BY <1>2 DEF ParseOperand, ParseOperandMemory
  <2>2. plain.kind = "memref" /\ own.ref = plain /\ own.pool = AllocMemref(ps.pool, plain)
    BY DEF PlainRef
  <2>3. Grows(ps.pool, through.pool) /\ through.ref \in ToSet(through.pool.modified)
    BY <1>1, ConstKnown, AllocModifiedGrows
  <2>4. Grows(ps.pool, own.pool)
    BY <1>1, <2>2, AllocMemrefGrows
  <2>5. Grows(ps.pool, m.pool) /\ (m.ref.kind = "modified" => m.ref \in ToSet(m.pool.modified))
    <3> HIDE DEF own, through, plain
    <3> QED BY <2>2, <2>3, <2>4
  <2> HIDE DEF m
  <2> QED BY <2>1, <2>5, MemoryRead
<1>3. CASE raw.kind = "const"
  BY <1>1, <1>3, ConstKnown DEF ParseOperand, OperandRead
<1>4. CASE raw.kind = "fp"
  BY <1>1, <1>4, ConstKnown DEF ParseOperand, OperandRead
<1>5. CASE raw.kind = "recall"
  BY <1>1, <1>5, RecallKnown DEF ParseOperand, OperandRead
<1>6. CASE raw.kind \notin {"memory", "const", "fp", "recall"}
  <2>1. ParseOperand(raw, ps) = [op |-> NoOperand, ps |-> [ps EXCEPT !.error = "invalid_operand"]]
    BY <1>6 DEF ParseOperand
  <2> QED BY <2>1, ConstKnown, FineWithError DEF OperandRead
<1> QED BY <1>2, <1>3, <1>4, <1>5, <1>6

(* Parsing goes on step by step, a target once found stays found. *)
LEMMA GoesOn ==
  ASSUME NEW ps, NEW next, NEW now, Goes(ps, next), Goes(next, now)
  PROVE  Goes(ps, now)
  BY GrowsOn DEF Goes

(* Parsing that finds no target. *)
LEMMA FollowsGoes ==
  ASSUME NEW ps, NEW now, Follows(ps, now)
  PROVE  Goes(ps, now)
  BY DEF Goes, Follows

(* A new condition has counted nothing. *)
LEMMA ConditionFacts ==
  ASSUME NEW type, NEW op1, NEW oper, NEW op2, NEW required
  PROVE  LET c == Condition(type, op1, oper, op2, required)
         IN  /\ DOMAIN c = CondFields /\ c.type = type /\ c.op1 = op1 /\ c.op2 = op2
             /\ c.required = required /\ c.hits = 0
  BY DEF Condition, CondFields

(* Parsing that fails keeps what it carries. *)
LEMMA FailFollows ==
  ASSUME NEW ps, Fine(ps), NEW error
  PROVE  Follows(ps, Fail(ps, error)) /\ Fail(ps, error).error = error /\ Fail(ps, error).pool = ps.pool
<1>1. Fail(ps, error).pool = ps.pool
  BY FineFields DEF Fail, PsFields
<1> QED BY <1>1, FineWithError DEF Fail

(* A target may be found. *)
LEMMA FoundTarget ==
  ASSUME NEW ps, Fine(ps), NEW found
  PROVE  LET now == [ps EXCEPT !.hasRequired = @ \/ found]
         IN  Goes(ps, now) /\ now.pool = ps.pool /\ (found => now.hasRequired)
<1> DEFINE now == [ps EXCEPT !.hasRequired = @ \/ found]
<1>1. DOMAIN ps = PsFields /\ Grows(ps.pool, ps.pool)
  BY FineFields
<1>2. /\ DOMAIN now = PsFields /\ now.pool = ps.pool /\ now.indirect = ps.indirect /\ now.addsource = ps.addsource
      /\ now.remember = ps.remember
  BY <1>1 DEF PsFields
<1>3. now.isValue = ps.isValue /\ now.hasRequired = (ps.hasRequired \/ found)
  BY <1>1 DEF PsFields
<1> HIDE DEF now
<1>4. Fine(now)
  BY <1>1, <1>2, FineFields DEF Fine
<1>5. (ps.hasRequired => now.hasRequired) /\ (found => now.hasRequired)
  BY ONLY <1>3, Zenon
<1>6. Goes(ps, now)
  BY <1>1, <1>2, <1>3, <1>4, <1>5 DEF Goes
<1> QED BY <1>2, <1>5, <1>6 DEF now

(* rc_parse_condition: the condition has the type and the target of its definition, and no hits. *)
LEMMA ConditionRead ==
  ASSUME NEW raw, NEW ps, Fine(ps)
  PROVE  CondRead(ps, raw, ParseCondition(raw, ps))
<1> DEFINE left == ParseOperand(raw.left, ps)
           right == ParseOperand(raw.right, left.ps)
           canModify == raw.flag \in Modifying
           mixed == canModify /\ ~IsModifying(raw.oper)
           oper == IF mixed /\ raw.flag \in Indirect THEN "none" ELSE raw.oper
           bare == raw.oper = "none"
           error == CASE left.ps.error # Ok -> left.ps.error
                      [] bare -> IF canModify \/ raw.flag = "measured" \/ ps.lenient THEN Ok ELSE "invalid_operator"
                      [] mixed /\ raw.flag \notin Indirect /\ ~ps.lenient -> "invalid_operator"
                      [] OTHER -> right.ps.error
           r == ParseCondition(raw, left.ps)
<1> DEFINE r1 == [cond |-> Condition(raw.flag, left.op, "none", Const(1), 0), ps |-> Fail(left.ps, error)]
           found == raw.hits # 0 /\ oper # "none"
           failed == Fail(right.ps, error)
           r2 == [cond |-> Condition(raw.flag, left.op, oper, IF oper = "none" THEN Const(0) ELSE right.op,
                                 IF oper = "none" THEN 0 ELSE raw.hits),
                  ps |-> [failed EXCEPT !.hasRequired = @ \/ found]]
<1>1. ParseCondition(raw, ps) = IF bare THEN r1 ELSE r2
  BY DEF ParseCondition, ParseRight, ConditionOf
<1>2. OperandRead(ps, left)
  BY ParseOperandReads
<1>3. Known(left.op, left.ps.pool) /\ Follows(ps, left.ps) /\ Fine(left.ps)
  BY <1>2 DEF OperandRead, Follows
<1>4. OperandRead(left.ps, right)
  BY <1>3, ParseOperandReads
<1>5. Known(right.op, right.ps.pool) /\ Follows(ps, right.ps) /\ Grows(left.ps.pool, right.ps.pool) /\ Fine(right.ps)
  BY <1>3, <1>4, FollowsOn DEF OperandRead, Follows
<1>6. Known(left.op, right.ps.pool)
  BY <1>3, <1>5, KnownLater
<1>7. raw.flag \in Indirect => raw.flag \in Modifying
  BY DEF Modifying
<1>8. CASE bare
  <2>1. Follows(ps, Fail(left.ps, error)) /\ Fail(left.ps, error).pool = left.ps.pool
    <3> HIDE DEF error, left
    <3> QED BY <1>3, FailFollows, FollowsOn
  <2>2. RawRequired(raw) = 0
    BY <1>8 DEF RawRequired
  <2>3. CondRead(ps, raw, r1)
    <3> HIDE DEF error, left
    <3> QED BY <1>3, <2>1, <2>2, ConditionFacts, ConstKnown, FollowsGoes DEF CondRead, CondKnown
  <2> QED BY <1>1, <1>8, <2>3
<1>9. CASE ~bare
  <2>1. oper = "none" <=> raw.flag \in Indirect /\ ~IsModifying(raw.oper)
    BY <1>7, <1>9
  <2>2. RawRequired(raw) = (IF oper = "none" THEN 0 ELSE raw.hits) /\ (RawRequired(raw) # 0 => found)
    BY <1>9, <2>1 DEF RawRequired
  <2> HIDE DEF error, left, right, oper
  <2>3. Follows(ps, failed) /\ failed.pool = right.ps.pool /\ Fine(failed)
    BY <1>5, FailFollows, FollowsOn DEF Follows
  <2> HIDE DEF failed, found
  <2> DEFINE now == [failed EXCEPT !.hasRequired = @ \/ found]
  <2>4. Goes(failed, now) /\ now.pool = failed.pool /\ (found => now.hasRequired)
    BY <2>3, FoundTarget
  <2> HIDE DEF now
  <2>5. Goes(ps, now) /\ (RawRequired(raw) # 0 => now.hasRequired)
    BY <2>2, <2>3, <2>4, FollowsGoes, GoesOn
  <2> DEFINE op2 == IF oper = "none" THEN Const(0) ELSE right.op
  <2>6. Known(op2, right.ps.pool)
    BY <1>5, ConstKnown
  <2> HIDE DEF op2
  <2> DEFINE required == IF oper = "none" THEN 0 ELSE raw.hits
  <2>7. required = RawRequired(raw)
    BY <2>2
  <2> HIDE DEF required
  <2> DEFINE c == Condition(raw.flag, left.op, oper, op2, required)
  <2>8. DOMAIN c = CondFields /\ c.type = raw.flag /\ c.op1 = left.op /\ c.op2 = op2 /\ c.required = required /\ c.hits = 0
    BY ConditionFacts
  <2> HIDE DEF c
  <2>9. CondRead(ps, raw, [cond |-> c, ps |-> now])
    BY <1>6, <2>3, <2>4, <2>5, <2>6, <2>7, <2>8 DEF CondRead, CondKnown
  <2>10. r2 = [cond |-> c, ps |-> now]
    BY DEF c, op2, required, now
  <2> QED BY <1>1, <1>9, <2>9, <2>10
<1> QED BY <1>8, <1>9

(* What holds of an operand that was read. *)
LEMMA ReadFacts ==
  ASSUME NEW ps, NEW r, OperandRead(ps, r)
  PROVE  Known(r.op, r.ps.pool) /\ Follows(ps, r.ps) /\ Fine(r.ps) /\ Grows(ps.pool, r.ps.pool)
  BY DEF OperandRead, Follows

(* A grown pool changes nothing else of what parsing carries. *)
LEMMA WithPoolFacts ==
  ASSUME NEW ps, Fine(ps), NEW pool
  PROVE  /\ [ps EXCEPT !.pool = pool].pool = pool
         /\ [ps EXCEPT !.pool = pool].addsource = ps.addsource
         /\ [ps EXCEPT !.pool = pool].addoper = ps.addoper
  BY FineFields DEF PsFields

(* A condition that is made an operand.                                    *)
LEMMA ConvertedReads ==
  ASSUME NEW c, NEW ps, Fine(ps), CondKnown(c, ps.pool)
  PROVE  OperandRead(ps, ConvertToOperand(c, ps))
<1>1. Known(c.op1, ps.pool) /\ Known(c.op2, ps.pool) /\ PoolFine(ps.pool) /\ Follows(ps, ps)
  BY FineFields, FollowsSelf DEF CondKnown
<1>2. CASE c.oper = "none"
  BY <1>1, <1>2 DEF ConvertToOperand, OperandRead
<1>3. CASE c.oper # "none"
  <2> DEFINE size == IF IsFloat(c.op1) \/ IsFloat(c.op2) THEN "float" ELSE "32"
             m == AllocModified(ps.pool, size, c.op1, c.oper, c.op2)
             op == [AddressOf(m.ref, size) EXCEPT !.combining = c.op1.combining]
             now == [ps EXCEPT !.pool = m.pool]
  <2>1. ConvertToOperand(c, ps) = [op |-> op, ps |-> now]
    BY <1>3 DEF ConvertToOperand, Converted
  <2> HIDE DEF size
  <2>2. Grows(ps.pool, m.pool) /\ m.ref \in ToSet(m.pool.modified)
    BY <1>1, AllocModifiedGrows
  <2> HIDE DEF m
  <2>3. DOMAIN op = OperandFields /\ op.ref = m.ref
    BY DEF AddressOf, Operand, OperandFields
  <2> HIDE DEF op
  <2>4. Follows(ps, now) /\ now.pool = m.pool
    BY <2>2, FineWithPool, WithPoolFacts
  <2> HIDE DEF now
  <2> QED BY <2>1, <2>2, <2>3, <2>4 DEF OperandRead, Known
<1> QED BY <1>2, <1>3

(* An operand that a chain is added to.                                    *)
LEMMA AddSourceReads ==
  ASSUME NEW op, NEW ps, Fine(ps), Known(op, ps.pool), NEW size
  PROVE  OperandRead(ps, OperandAddSource(op, ps, size))
<1> DEFINE both == op.type \in {"delta", "prior"} /\ op.type = ps.addsource.type
           plain(operand) == IF both THEN [operand EXCEPT !.type = "address"] ELSE operand
           m == AllocModified(ps.pool, size, plain(ps.addsource), ps.addoper, plain(op))
           sum == [op EXCEPT !.type = IF both THEN @ ELSE "address", !.access = IF both THEN @ ELSE "address",
                             !.ref = m.ref, !.size = "32"]
           now == [ps EXCEPT !.pool = m.pool]
<1>1. OperandAddSource(op, ps, size) = [op |-> sum, ps |-> now]
  BY DEF OperandAddSource, Added
<1>2. ASSUME NEW x, Known(x, ps.pool), both => x.type \in {"delta", "prior"}
      PROVE  Known(plain(x), ps.pool)
  <2>1. DOMAIN x = OperandFields
    BY <1>2 DEF Known
  <2>2. CASE both
    <3>1. plain(x) = [x EXCEPT !.type = "address"]
      BY <2>2
    <3>2. DOMAIN plain(x) = OperandFields /\ plain(x).ref = x.ref
      BY <2>1, <3>1 DEF OperandFields
    <3>3. IsMemref(x)
      BY <1>2, <2>2 DEF IsMemref, IsMemrefType
    <3> QED BY <1>2, <3>2, <3>3 DEF Known, Computed
  <2>3. CASE ~both
    BY <1>2, <2>3
  <2> QED BY <2>2, <2>3
<1>3. Known(ps.addsource, ps.pool) /\ PoolFine(ps.pool)
  BY FineFields
<1>4. Known(plain(ps.addsource), ps.pool) /\ Known(plain(op), ps.pool)
  BY <1>2, <1>3
<1> HIDE DEF plain
<1>5. Grows(ps.pool, m.pool) /\ m.ref \in ToSet(m.pool.modified)
  BY <1>3, <1>4, AllocModifiedGrows
<1> HIDE DEF m
<1>6. DOMAIN sum = OperandFields /\ sum.ref = m.ref
  BY DEF OperandFields, Known
<1> HIDE DEF sum
<1>7. Follows(ps, now) /\ now.pool = m.pool
  BY <1>5, FineWithPool, WithPoolFacts
<1> HIDE DEF now
<1> QED BY <1>1, <1>5, <1>6, <1>7 DEF OperandRead, Known

(* A parse state whose pool has grown and that has another source.         *)
LEMMA SourceFollows ==
  ASSUME NEW ps, Fine(ps), NEW pool, Grows(ps.pool, pool), NEW op, Known(op, pool)
  PROVE  Follows(ps, [ps EXCEPT !.pool = pool, !.addsource = op])
<1> DEFINE now == [ps EXCEPT !.pool = pool, !.addsource = op]
<1>1. DOMAIN ps = PsFields /\ Known(ps.indirect, pool) /\ Known(ps.remember, pool)
  BY FineFields, KnownLater
<1>2. /\ DOMAIN now = PsFields /\ now.pool = pool /\ now.indirect = ps.indirect /\ now.addsource = op
      /\ now.remember = ps.remember
  BY <1>1 DEF PsFields
<1>3. now.isValue = ps.isValue /\ now.hasRequired = ps.hasRequired
  BY <1>1 DEF PsFields
<1> HIDE DEF now
<1>4. Follows(ps, now)
  BY <1>1, <1>2, <1>3, FineUpdate
<1> QED BY <1>4 DEF now

(* rc_condition_update_parse_state: a subtracted source is rewritten over references the pool knows. *)
LEMMA SubSourceFollows ==
  ASSUME NEW ps, Fine(ps), NEW size
  PROVE  Follows(ps, SubSourceParent(ps, size))
<1> DEFINE p == ps.addsource
           zero == IF IsFloat(p) THEN FloatConst(0, 1) ELSE Const(0)
<1>1. DOMAIN ps = PsFields /\ PoolFine(ps.pool) /\ Known(p, ps.pool) /\ DOMAIN p = OperandFields
  BY FineFields DEF Known
<1>2. Known(zero, ps.pool) /\ Known(Const(0), ps.pool)
  BY ConstKnown
<1>3. CASE ps.addoper = "add_accumulator" /\ ~IsMemref(p)
  <2> DEFINE m == AllocModified(ps.pool, p.size, p, "add_accumulator", Const(0))
             op == [p EXCEPT !.ref = m.ref, !.type = "address"]
  <2>1. SubSourceParent(ps, size) = [ps EXCEPT !.pool = m.pool, !.addsource = op]
    <3>1. SubSourceParent(ps, size) = [ps EXCEPT !.pool = m.pool, !.addsource = [@ EXCEPT !.ref = m.ref, !.type = "address"]]
      BY <1>3 DEF SubSourceParent, KeepSource
    <3> HIDE DEF m
    <3> QED BY <1>1, <3>1 DEF PsFields
  <2>2. Grows(ps.pool, m.pool) /\ m.ref \in ToSet(m.pool.modified)
    BY <1>1, <1>2, AllocModifiedGrows
  <2> HIDE DEF m
  <2>3. DOMAIN op = OperandFields /\ op.ref = m.ref
    BY <1>1 DEF OperandFields
  <2> HIDE DEF op
  <2>4. Known(op, m.pool)
    BY <2>2, <2>3 DEF Known
  <2>5. Follows(ps, [ps EXCEPT !.pool = m.pool, !.addsource = op])
    BY ONLY Fine(ps), <2>2, <2>4, SourceFollows
  <2> QED BY ONLY <2>1, <2>5
<1>4. CASE ~(ps.addoper = "add_accumulator" /\ ~IsMemref(p)) /\ ps.addoper = "sub_parent"
  <2> DEFINE m == AllocModified(ps.pool, size, p, "sub_parent", zero)
             value == Ratio(Convert(SubtractFrom(EvaluateOperand(m.ref.parent, <<>>),
                                                 EvaluateOperand(m.ref.modifier, <<>>)), m.pool.at[m.ref].type))
             op == IF p.type \in {"const", "fp"} THEN [p EXCEPT !.num = value[1], !.den = value[2], !.size = zero.size]
                   ELSE AddressOf(m.ref, zero.size)
  <2>1. SubSourceParent(ps, size) = NegateSource(ps, m, zero.size, value)
    BY <1>4 DEF SubSourceParent, Negated
  <2>2. Grows(ps.pool, m.pool) /\ m.ref \in ToSet(m.pool.modified)
    BY <1>1, <1>2, AllocModifiedGrows
  <2> HIDE DEF m, value, zero
  <2>3. NegateSource(ps, m, zero.size, value) = [ps EXCEPT !.pool = m.pool, !.addsource = op]
    BY <1>1 DEF NegateSource, PsFields
  <2>4. Known(op, m.pool)
    <3>1. CASE p.type \in {"const", "fp"}
      <4>1. DOMAIN op = OperandFields /\ op.type = p.type
        BY <1>1, <3>1 DEF OperandFields
      <4> HIDE DEF op
      <4> QED BY <3>1, <4>1, PlainKnown
    <3>2. CASE p.type \notin {"const", "fp"}
      BY <2>2, <3>2, OperandKnown DEF AddressOf
    <3> QED BY <3>1, <3>2
  <2> HIDE DEF op
  <2>5. Follows(ps, [ps EXCEPT !.pool = m.pool, !.addsource = op])
    BY ONLY Fine(ps), <2>2, <2>4, SourceFollows
  <2> QED BY ONLY <2>1, <2>3, <2>5
<1>5. CASE ~(ps.addoper = "add_accumulator" /\ ~IsMemref(p)) /\ ps.addoper # "sub_parent"
  <2>1. SubSourceParent(ps, size) = ps
    BY <1>5 DEF SubSourceParent
  <2> QED BY <2>1, FollowsSelf
<1> QED BY <1>3, <1>4, <1>5

(* The operator of a chain may be noted. *)
LEMMA AddoperFollows ==
  ASSUME NEW ps, Fine(ps), NEW oper
  PROVE  Follows(ps, [ps EXCEPT !.addoper = oper]) /\ [ps EXCEPT !.addoper = oper].pool = ps.pool
<1> DEFINE now == [ps EXCEPT !.addoper = oper]
<1>1. DOMAIN ps = PsFields /\ Grows(ps.pool, ps.pool)
  BY FineFields
<1>2. /\ DOMAIN now = PsFields /\ now.pool = ps.pool /\ now.indirect = ps.indirect /\ now.addsource = ps.addsource
      /\ now.remember = ps.remember
  BY <1>1 DEF PsFields
<1>3. now.isValue = ps.isValue /\ now.hasRequired = ps.hasRequired
  BY <1>1 DEF PsFields
<1> HIDE DEF now
<1>4. Follows(ps, now)
  BY <1>1, <1>2, <1>3, FineUpdate, FineFields
<1> QED BY <1>2, <1>4 DEF now

(* A parse state left with other operands, of its pool.                    *)
LEMMA OperandsFollow ==
  ASSUME NEW ps, Fine(ps), NEW source, Known(source, ps.pool), NEW indirect, Known(indirect, ps.pool), NEW oper
  PROVE  /\ Follows(ps, [ps EXCEPT !.addsource = source, !.indirect = indirect])
         /\ Follows(ps, [ps EXCEPT !.addsource = source, !.indirect = indirect, !.addoper = oper])
         /\ [ps EXCEPT !.addsource = source, !.indirect = indirect].pool = ps.pool
<1> DEFINE now == [ps EXCEPT !.addsource = source, !.indirect = indirect]
<1>1. DOMAIN ps = PsFields /\ Grows(ps.pool, ps.pool)
  BY FineFields
<1>2. /\ DOMAIN now = PsFields /\ now.pool = ps.pool /\ now.indirect = indirect /\ now.addsource = source
      /\ now.remember = ps.remember
  BY <1>1 DEF PsFields
<1>3. now.isValue = ps.isValue /\ now.hasRequired = ps.hasRequired
  BY <1>1 DEF PsFields
<1>4. [ps EXCEPT !.addsource = source, !.indirect = indirect, !.addoper = oper] = [now EXCEPT !.addoper = oper]
  OBVIOUS
<1> HIDE DEF now
<1>5. Follows(ps, now)
  BY <1>1, <1>2, <1>3, FineUpdate, FineFields
<1>6. Follows(ps, [now EXCEPT !.addoper = oper])
  BY <1>5, AddoperFollows, FollowsOn DEF Follows
<1> QED BY <1>2, <1>4, <1>5, <1>6 DEF now

(* rc_condition_update_parse_state: a source that starts or continues a chain. *)
LEMMA ChainFollows ==
  ASSUME NEW c, NEW ps, Fine(ps), CondKnown(c, ps.pool)
  PROVE  Follows(ps, ChainSource(c, ps))
<1> DEFINE first == ps.addsource.type = "none"
           size == IF IsFloat(ps.addsource) THEN "float" ELSE "32"
           sub == [SubSourceParent(ps, size) EXCEPT !.addoper = "sub_accumulator"]
           base == IF c.type = "sub_source" /\ ~first THEN sub ELSE ps
           conv == ConvertToOperand(c, base)
           sum == IF first THEN conv ELSE OperandAddSource(conv.op, conv.ps, size)
           oper == IF first /\ c.type = "sub_source" THEN "sub_parent" ELSE "add_accumulator"
           now == [sum.ps EXCEPT !.addsource = sum.op, !.indirect = NoOperand, !.addoper = oper]
<1>1. ChainSource(c, ps) = now
  BY DEF ChainSource, ChainOnto, Chained
<1> HIDE DEF size
<1>2. Follows(ps, sub)
  BY SubSourceFollows, AddoperFollows, FollowsOn DEF Follows
<1> HIDE DEF sub, first
<1>3. Follows(ps, base)
  BY <1>2, FollowsSelf
<1>4. Fine(base) /\ Grows(ps.pool, base.pool)
  BY <1>3 DEF Follows
<1> HIDE DEF base
<1>5. CondKnown(c, base.pool)
  BY <1>4, KnownLater DEF CondKnown
<1>6. OperandRead(base, conv)
  BY <1>4, <1>5, ConvertedReads
<1>7. Known(conv.op, conv.ps.pool) /\ Follows(base, conv.ps) /\ Fine(conv.ps)
  BY <1>6, ReadFacts
<1> HIDE DEF conv
<1>8. OperandRead(conv.ps, OperandAddSource(conv.op, conv.ps, size))
  BY <1>7, AddSourceReads
<1>9. Known(sum.op, sum.ps.pool) /\ Follows(base, sum.ps) /\ Fine(sum.ps)
  BY <1>7, <1>8, ReadFacts, FollowsOn
<1> HIDE DEF sum, oper
<1>10. Follows(sum.ps, now)
  BY <1>9, ConstKnown, OperandsFollow
<1> HIDE DEF now
<1> QED BY <1>1, <1>3, <1>9, <1>10, FollowsOn

(* The operand a chain ends in.                                            *)
LEMMA FoldedReads ==
  ASSUME NEW op, NEW ps, Fine(ps), Known(op, ps.pool), NEW oper
  PROVE  OperandRead(ps, FoldSource(op, ps, oper))
<1>1. CASE ps.addsource.type = "none"
  BY <1>1, FollowsSelf DEF FoldSource, OperandRead
<1>2. CASE ps.addsource.type # "none"
  <2> DEFINE with == [ps EXCEPT !.addoper = oper]
             sum == OperandAddSource(op, with, op.size)
             r == [sum EXCEPT !.op.combining = TRUE]
  <2>1. FoldSource(op, ps, oper) = r
    BY <1>2 DEF FoldSource, Folded
  <2>2. Follows(ps, with) /\ with.pool = ps.pool /\ Fine(with)
    BY AddoperFollows DEF Follows
  <2> HIDE DEF with
  <2>3. OperandRead(with, sum)
    BY <2>2, AddSourceReads
  <2>4. Known(sum.op, sum.ps.pool) /\ Follows(ps, sum.ps)
    BY <2>2, <2>3, ReadFacts, FollowsOn
  <2>5. DOMAIN sum = {"op", "ps"}
    BY DEF OperandAddSource, Added
  <2> HIDE DEF sum
  <2>6. r.ps = sum.ps /\ r.op = [sum.op EXCEPT !.combining = TRUE]
    BY <2>5
  <2>7. DOMAIN r.op = OperandFields /\ r.op.ref = sum.op.ref /\ r.op.type = sum.op.type
    BY <2>4, <2>6 DEF Known, OperandFields
  <2> HIDE DEF r
  <2>8. Known(r.op, r.ps.pool)
    BY <2>4, <2>6, <2>7 DEF Known, Computed, IsMemref
  <2> QED BY <2>1, <2>4, <2>6, <2>8 DEF OperandRead
<1> QED BY <1>1, <1>2

(* The condition that ends a chain reads what the chain computes. *)
LEMMA EndChainFacts ==
  ASSUME NEW c, DOMAIN c = CondFields, NEW ps, NEW folded, OperandRead(ps, folded)
  PROVE  LET r == EndChain(c, folded)
         IN  /\ DOMAIN r = {"cond", "ps"} /\ Alike(c, r.cond) /\ Follows(ps, r.ps)
             /\ Fine(r.ps) /\ Known(r.cond.op1, r.ps.pool)
<1> DEFINE cond == [c EXCEPT !.op1 = folded.op]
           now == [folded.ps EXCEPT !.addsource = NoOperand, !.indirect = NoOperand]
<1>1. EndChain(c, folded) = [cond |-> cond, ps |-> now]
  BY DEF EndChain
<1>2. Known(folded.op, folded.ps.pool) /\ Follows(ps, folded.ps) /\ Fine(folded.ps)
  BY ReadFacts
<1>3. Follows(folded.ps, now) /\ now.pool = folded.ps.pool
  BY <1>2, ConstKnown, OperandsFollow
<1> HIDE DEF now
<1>4. Alike(c, cond) /\ cond.op1 = folded.op
  BY DEF Alike, CondFields
<1> HIDE DEF cond
<1>5. Follows(ps, now) /\ Fine(now) /\ Known(cond.op1, now.pool)
  BY <1>2, <1>3, <1>4, FollowsOn DEF Follows
<1> QED BY <1>1, <1>4, <1>5

(* A condition that remembers its operand. *)
LEMMA RememberUpdates ==
  ASSUME NEW c, NEW ps, Fine(ps), CondKnown(c, ps.pool)
  PROVE  Updated(c, ps, UpdateRemember(c, ps))
<1>1. DOMAIN c = CondFields
  BY DEF CondKnown
<1>2. CASE c.op1.type = "recall" /\ c.oper = "none" /\ ps.addsource.type = "none" /\ ps.indirect.type = "none"
  BY <1>1, <1>2, FollowsSelf DEF UpdateRemember, Updated, Alike
<1>3. CASE ~(c.op1.type = "recall" /\ c.oper = "none" /\ ps.addsource.type = "none" /\ ps.indirect.type = "none")
  <2> DEFINE conv == ConvertToOperand(c, ps)
             folded == FoldSource(conv.op, conv.ps, ps.addoper)
             chain == EndChain(c, folded)
             r == [chain EXCEPT !.ps.remember = chain.cond.op1]
             now == [chain.ps EXCEPT !.remember = chain.cond.op1]
  <2>1. UpdateRemember(c, ps) = r
    BY <1>3 DEF UpdateRemember, RememberOperand, Remembering
  <2>2. OperandRead(ps, conv)
    BY ConvertedReads
  <2>3. Known(conv.op, conv.ps.pool) /\ Follows(ps, conv.ps) /\ Fine(conv.ps)
    BY <2>2, ReadFacts
  <2> HIDE DEF conv
  <2>4. OperandRead(conv.ps, folded)
    BY <2>3, FoldedReads
  <2>5. OperandRead(ps, folded)
    BY <2>3, <2>4, FollowsOn DEF OperandRead
  <2> HIDE DEF folded
  <2>6. /\ DOMAIN chain = {"cond", "ps"} /\ Alike(c, chain.cond) /\ Follows(ps, chain.ps)
        /\ Fine(chain.ps) /\ Known(chain.cond.op1, chain.ps.pool)
    BY <1>1, <2>5, EndChainFacts
  <2> HIDE DEF chain
  <2>7. r.cond = chain.cond /\ r.ps = now
    BY <2>6
  <2>8. DOMAIN chain.ps = PsFields /\ Grows(chain.ps.pool, chain.ps.pool)
    BY <2>6, FineFields
  <2>9. /\ DOMAIN now = PsFields /\ now.pool = chain.ps.pool /\ now.indirect = chain.ps.indirect
        /\ now.addsource = chain.ps.addsource /\ now.remember = chain.cond.op1
    BY <2>8 DEF PsFields
  <2>10. now.isValue = chain.ps.isValue /\ now.hasRequired = chain.ps.hasRequired
    BY <2>8 DEF PsFields
  <2> HIDE DEF now, r
  <2>11. Follows(chain.ps, now)
    BY <2>6, <2>8, <2>9, <2>10, FineUpdate, FineFields
  <2> QED BY <2>1, <2>6, <2>7, <2>11, FollowsOn DEF Updated
<1> QED BY <1>2, <1>3

(* rc_condition_update_parse_state changes what a condition reads, not what it counts. *)
LEMMA ParseStateUpdates ==
  ASSUME NEW c, NEW ps, Fine(ps), CondKnown(c, ps.pool)
  PROVE  Updated(c, ps, UpdateParseState(c, ps))
<1> DEFINE conv == ConvertToOperand(c, ps)
<1>1. DOMAIN c = CondFields /\ Known(c.op1, ps.pool) /\ Alike(c, c)
  BY DEF CondKnown, Alike
<1>2. OperandRead(ps, conv)
  BY ConvertedReads
<1>3. Known(conv.op, conv.ps.pool) /\ Follows(ps, conv.ps) /\ Fine(conv.ps)
  BY <1>2, ReadFacts
<1>4. CASE c.type = "add_address"
  <2> HIDE DEF conv
  <2> DEFINE now == [conv.ps EXCEPT !.indirect = conv.op]
  <2>1. UpdateParseState(c, ps) = [cond |-> c, ps |-> now]
    BY <1>4 DEF UpdateParseState, Indirection, conv
  <2>2. DOMAIN conv.ps = PsFields /\ Grows(conv.ps.pool, conv.ps.pool)
    BY <1>3, FineFields
  <2>3. /\ DOMAIN now = PsFields /\ now.pool = conv.ps.pool /\ now.indirect = conv.op
        /\ now.addsource = conv.ps.addsource /\ now.remember = conv.ps.remember
    BY <2>2 DEF PsFields
  <2>4. now.isValue = conv.ps.isValue /\ now.hasRequired = conv.ps.hasRequired
    BY <2>2 DEF PsFields
  <2> HIDE DEF now
  <2>5. Follows(conv.ps, now)
    BY <1>3, <2>2, <2>3, <2>4, FineUpdate, FineFields
  <2>6. Follows(ps, now)
    BY <1>3, <2>5, FollowsOn
  <2> QED BY <1>1, <2>1, <2>6 DEF Updated
<1>5. CASE c.type \in {"add_source", "sub_source"}
  <2>1. UpdateParseState(c, ps) = [cond |-> c, ps |-> ChainSource(c, ps)]
    BY <1>5 DEF UpdateParseState
  <2> QED BY <1>1, <2>1, ChainFollows DEF Updated
<1>6. CASE c.type = "remember"
  <2>1. UpdateParseState(c, ps) = UpdateRemember(c, ps)
    BY <1>6 DEF UpdateParseState
  <2> QED BY <2>1, RememberUpdates
<1>7. CASE c.type \notin {"add_address", "add_source", "sub_source", "remember"}
  <2> DEFINE own == [op |-> c.op1, ps |-> ps]
             start == IF c.type = "measured" /\ ps.isValue /\ IsModifying(c.oper) THEN conv ELSE own
             oper == IF ps.addoper = "add_accumulator" THEN "+" ELSE ps.addoper
             folded == FoldSource(start.op, start.ps, oper)
  <2>1. UpdateParseState(c, ps) = EndChain(c, folded)
    BY <1>7 DEF UpdateParseState, FinishOperand
  <2>2. Known(own.op, own.ps.pool) /\ Follows(ps, own.ps) /\ Fine(own.ps)
    BY <1>1, FollowsSelf
  <2> HIDE DEF own, conv
  <2>3. Known(start.op, start.ps.pool) /\ Follows(ps, start.ps) /\ Fine(start.ps)
    BY <1>3, <2>2
  <2> HIDE DEF start, oper
  <2>4. OperandRead(start.ps, folded)
    BY <2>3, FoldedReads
  <2>5. OperandRead(ps, folded)
    BY <2>3, <2>4, FollowsOn DEF OperandRead
  <2> HIDE DEF folded
  <2> QED BY <1>1, <2>1, <2>5, EndChainFacts DEF Updated
<1> QED BY <1>4, <1>5, <1>6, <1>7

FGroup == INSTANCE FoldFacts WITH Op <- StepGroup, Holds <- HoldsGroup

(* The target of a measured condition may be noted. *)
LEMMA TargetFollows ==
  ASSUME NEW ps, Fine(ps), NEW target
  PROVE  Follows(ps, [ps EXCEPT !.target = target]) /\ [ps EXCEPT !.target = target].pool = ps.pool
<1> DEFINE now == [ps EXCEPT !.target = target]
<1>1. DOMAIN ps = PsFields /\ Grows(ps.pool, ps.pool)
  BY FineFields
<1>2. /\ DOMAIN now = PsFields /\ now.pool = ps.pool /\ now.indirect = ps.indirect /\ now.addsource = ps.addsource
      /\ now.remember = ps.remember
  BY <1>1 DEF PsFields
<1>3. now.isValue = ps.isValue /\ now.hasRequired = ps.hasRequired
  BY <1>1 DEF PsFields
<1> HIDE DEF now
<1>4. Follows(ps, now)
  BY <1>1, <1>2, <1>3, FineUpdate, FineFields
<1> QED BY <1>2, <1>4 DEF now

(* One condition more of a group. *)
LEMMA AppendSoFar ==
  ASSUME NEW raws, NEW ps, NEW k \in Nat, k > 0, NEW conds, IsList(conds),
         GroupSoFar(raws, ps, k - 1, conds), NEW c, CondNew(c, raws[k], ps)
  PROVE  GroupSoFar(raws, ps, k, Append(conds, c)) /\ IsList(Append(conds, c))
<1>1. Len(conds) = k - 1 /\ \A i \in 1..(k - 1) : CondNew(conds[i], raws[i], ps)
  BY DEF GroupSoFar
<1> DEFINE next == Append(conds, c)
<1>2. IsList(next) /\ Len(next) = k /\ next[k] = c /\ \A i \in 1..(k - 1) : next[i] = conds[i]
  BY <1>1, AppendFacts
<1> HIDE DEF next
<1>3. ASSUME NEW i \in 1..k
      PROVE  CondNew(next[i], raws[i], ps)
  <2>1. CASE i = k
    BY <1>2, <2>1
  <2>2. CASE i # k
    BY <1>1, <1>2, <2>2
  <2> QED BY <2>1, <2>2
<1> QED BY <1>2, <1>3 DEF GroupSoFar, next

(* rc_parse_condset: a condition more is as new as those before. *)
LEMMA GroupStep ==
  ASSUME NEW raws, NEW base, NEW k \in Nat, k > 0, NEW a, HoldsGroup(raws, base, k - 1, a)
  PROVE  HoldsGroup(raws, base, k, StepGroup(raws, a, raws[k]))
<1> DEFINE raw == raws[k]
<1>1. DOMAIN a = {"conds", "ps", "measured"} /\ IsList(a.conds) /\ Goes(base.ps, a.ps) /\ Fine(a.ps)
  BY DEF HoldsGroup, Goes
<1>2. CASE a.ps.error # Ok
  <2>1. StepGroup(raws, a, raw) = a
    BY <1>2 DEF StepGroup, ParseGroupCondition
  <2> QED BY <1>1, <1>2, <2>1 DEF HoldsGroup
<1>3. CASE a.ps.error = Ok
  <2> DEFINE parsed == ParseCondition(raw, a.ps)
             c == parsed.cond
             ps == parsed.ps
             error == GroupError(c, a.measured, ps)
             measured == c.type = "measured"
             target == IF a.measured # 0 THEN a.measured ELSE MeasuredTarget(c, ps)
             counted == measured /\ a.measured = 0 /\ ps.isValue /\ ~IsModifying(c.oper)
             cc == IF counted THEN [c EXCEPT !.required = Word - 1] ELSE c
             at == IF measured THEN [ps EXCEPT !.target = target] ELSE ps
             next == UpdateParseState(cc, at)
             failed == [a EXCEPT !.ps = Fail(ps, error)]
             added == AddCondition(a, next, target)
  <2>1. StepGroup(raws, a, raw) = IF error # Ok THEN failed ELSE added
    BY <1>3 DEF StepGroup, ParseGroupCondition, Accept, AcceptCondition
  <2>2. CondRead(a.ps, raw, parsed)
    BY <1>1, ConditionRead
  <2>3. CondKnown(c, ps.pool) /\ c.type = raw.flag /\ c.hits = 0 /\ c.required = RawRequired(raw) /\ Goes(a.ps, ps)
    BY <2>2 DEF CondRead
  <2>4. Fine(ps) /\ Goes(base.ps, ps) /\ DOMAIN c = CondFields
    BY <1>1, <2>3, GoesOn DEF Goes, CondKnown
  <2>5. RawRequired(raw) # 0 => ps.hasRequired
    BY <2>2 DEF CondRead
  <2> HIDE DEF parsed, error
  <2>6. CASE error # Ok
    <3>1. Goes(base.ps, Fail(ps, error)) /\ Fail(ps, error).error # Ok
      BY <2>4, <2>6, FailFollows, FollowsGoes, GoesOn
    <3>2. DOMAIN failed = DOMAIN a /\ failed.conds = a.conds /\ failed.ps = Fail(ps, error)
      BY <1>1
    <3> HIDE DEF failed
    <3>3. HoldsGroup(raws, base, k, failed)
      BY <1>1, <3>1, <3>2 DEF HoldsGroup
    <3> QED BY <2>1, <2>6, <3>3
  <2>7. CASE error = Ok
    <3>1. Follows(ps, at) /\ at.pool = ps.pool /\ Fine(at)
      <4> HIDE DEF target, measured
      <4> QED BY <2>4, FollowsSelf, TargetFollows DEF Follows
    <3>2. DOMAIN cc = CondFields /\ cc.type = c.type /\ cc.hits = c.hits /\ cc.op1 = c.op1 /\ cc.op2 = c.op2
      BY <2>4 DEF CondFields
    <3>3. ~base.ps.isValue => cc.required = c.required
      BY <2>4 DEF Goes
    <3> HIDE DEF cc, at, target
    <3>4. CondKnown(cc, at.pool)
      BY <2>3, <3>1, <3>2 DEF CondKnown
    <3>5. Updated(cc, at, next)
      BY <3>1, <3>4, ParseStateUpdates
    <3>6. Alike(cc, next.cond) /\ Follows(at, next.ps)
      BY <3>5 DEF Updated
    <3> HIDE DEF next
    <3>7. Follows(ps, next.ps)
      BY <3>1, <3>6, FollowsOn
    <3>8. Goes(base.ps, next.ps)
      BY <2>4, <3>7, FollowsGoes, GoesOn
    <3>9. CondNew(next.cond, raw, base.ps)
      BY <2>3, <3>2, <3>3, <3>6 DEF Alike, CondNew
    <3>10. DOMAIN added = {"conds", "ps", "measured"} /\ added.conds = Append(a.conds, next.cond) /\ added.ps = next.ps
      BY DEF AddCondition
    <3> HIDE DEF added
    <3>11. GroupSoFar(raws, base.ps, k - 1, a.conds) /\ CountedSoFar(raws, k - 1, a.ps.hasRequired)
      BY <1>3 DEF HoldsGroup
    <3>12. GroupSoFar(raws, base.ps, k, added.conds) /\ IsList(added.conds)
      BY <1>1, <3>9, <3>10, <3>11, AppendSoFar
    <3>13. CountedSoFar(raws, k, added.ps.hasRequired)
      <4>1. a.ps.hasRequired => ps.hasRequired
        BY <2>3 DEF Goes
      <4>2. next.ps.hasRequired = ps.hasRequired
        BY <3>7 DEF Follows
      <4>3. ASSUME NEW i \in 1..k, RawRequired(raws[i]) # 0
            PROVE  next.ps.hasRequired
        <5>1. CASE i = k
          BY <2>5, <4>2, <4>3, <5>1
        <5>2. CASE i \in 1..(k - 1)
          BY <3>11, <4>1, <4>2, <4>3, <5>2 DEF CountedSoFar
        <5> QED BY <5>1, <5>2
      <4> QED BY <3>10, <4>3 DEF CountedSoFar
    <3>14. HoldsGroup(raws, base, k, added)
      BY <3>8, <3>10, <3>12, <3>13 DEF HoldsGroup
    <3> QED BY <2>1, <2>7, <3>14
  <2> QED BY <2>6, <2>7
<1> QED BY <1>2, <1>3

(* The conditions of a group are parsed by a fold. *)
LEMMA GroupFold ==
  ASSUME NEW raws, NEW base
  PROVE  FoldLeft(ParseGroupCondition, base, raws) = FGroup!Result(raws, base, raws)
  BY DEF FoldLeft, MapThenFoldSet, FGroup!Result, FGroup!Table, FGroup!Greatest, Max, StepGroup

(* What places the conditions changes nothing else of them.                *)
LEMMA PlacedAlike ==
  ASSUME NEW conds, NEW n \in Nat, DOMAIN conds = 1..n, NEW ps,
         \A i \in 1..n : DOMAIN conds[i] = CondFields
  PROVE  LET all == Placed([i \in DOMAIN conds |-> [conds[i] EXCEPT !.class = ClassAt(conds, i)]], ps)
         IN  IsList(all) /\ Len(all) = n /\ \A i \in 1..n : Alike(conds[i], all[i])
<1> DEFINE own(i) == [conds[i] EXCEPT !.class = ClassAt(conds, i)]
           list == [i \in DOMAIN conds |-> own(i)]
           moved == PauseRemember(list)
<1>1. IsList(list) /\ Len(list) = n
  <2>1. list = [i \in 1..n |-> list[i]]
    OBVIOUS
  <2> QED BY <2>1, FunctionIsList
<1>2. \A i \in 1..n : Alike(conds[i], list[i])
  BY DEF Alike, CondFields
<1> HIDE DEF list
<1>3. DOMAIN list = 1..n
  BY <1>1, ListFacts
<1>4. IsList(moved) /\ Len(moved) = n /\ \A i \in 1..n : Alike(list[i], moved[i])
  <2> DEFINE all == {i \in DOMAIN list : list[i].type = "remember"}
             remembers == {i \in all : list[i].class = "pause"}
             forget(op) == IF op.type = "recall" /\ IsMemrefType(op.access) THEN [op EXCEPT !.ref = NoRef] ELSE op
             recall(op) == RecallPause(op, list[CHOOSE i \in remembers : \A j \in remembers : j <= i].op1)
             early(i) == list[i].class = "pause" /\ list[i].type # "remember" /\ \A j \in remembers : i < j
             late(i) == remembers # {} /\ list[i].class # "pause" /\ \A j \in all : i <= j
             e(i) == [list[i] EXCEPT !.op1 = forget(@), !.op2 = forget(@)]
             l(i) == [list[i] EXCEPT !.op1 = recall(@), !.op2 = recall(@)]
             each(i) == CASE early(i) -> e(i) [] late(i) -> l(i) [] OTHER -> list[i]
  <2>1. moved = [i \in DOMAIN list |-> each(i)]
    BY DEF PauseRemember
  <2>2. ASSUME NEW i \in 1..n
        PROVE  Alike(list[i], each(i))
    <3>1. DOMAIN list[i] = CondFields
      BY <1>2 DEF Alike
    <3> HIDE DEF forget, recall, early, late
    <3>2. Alike(list[i], e(i)) /\ Alike(list[i], l(i)) /\ Alike(list[i], list[i])
      BY <3>1 DEF Alike, CondFields
    <3> HIDE DEF e, l
    <3>3. CASE early(i)
      BY <3>2, <3>3
    <3>4. CASE ~early(i) /\ late(i)
      BY <3>2, <3>4
    <3>5. CASE ~early(i) /\ ~late(i)
      BY <3>2, <3>5
    <3> QED BY <3>3, <3>4, <3>5
  <2> HIDE DEF each
  <2>3. moved = [i \in 1..n |-> moved[i]] /\ \A i \in 1..n : moved[i] = each(i)
    BY <1>3, <2>1
  <2> HIDE DEF moved
  <2> QED BY <2>2, <2>3, FunctionIsList
<1>5. \A i \in 1..n : Alike(conds[i], moved[i])
  BY <1>2, <1>4 DEF Alike
<1> HIDE DEF moved
<1>6. Placed(list, ps) = list \/ Placed(list, ps) = moved
  BY DEF Placed, moved
<1>7. IsList(Placed(list, ps)) /\ Len(Placed(list, ps)) = n /\ \A i \in 1..n : Alike(conds[i], Placed(list, ps)[i])
  BY <1>1, <1>2, <1>4, <1>5, <1>6
<1> QED BY <1>7 DEF list

(* rc_parse_condset: a group is as long as its definition, each condition new and with its target. *)
LEMMA CondsetReads ==
  ASSUME NEW raws, IsList(raws), NEW ps, Fine(ps)
  PROVE  CondsetRead(raws, ps, ParseCondset(raws, ps))
<1> DEFINE fresh0 == [ps EXCEPT !.addoper = "none", !.addsource = NoOperand, !.indirect = NoOperand, !.remember = NoOperand]
           base == [conds |-> <<>>, ps |-> fresh0, measured |-> 0]
           all == FoldLeft(ParseGroupCondition, base, raws)
           n == Len(raws)
<1>1. n \in Nat /\ DOMAIN raws = 1..n
  BY ListFacts
<1>2. Follows(ps, fresh0) /\ Fine(fresh0)
  <2>1. DOMAIN ps = PsFields /\ Grows(ps.pool, ps.pool)
    BY FineFields
  <2>2. /\ DOMAIN fresh0 = PsFields /\ fresh0.pool = ps.pool /\ fresh0.indirect = NoOperand
        /\ fresh0.addsource = NoOperand /\ fresh0.remember = NoOperand
    BY <2>1 DEF PsFields
  <2>3. fresh0.isValue = ps.isValue /\ fresh0.hasRequired = ps.hasRequired
    BY <2>1 DEF PsFields
  <2> HIDE DEF fresh0
  <2> QED BY <2>1, <2>2, <2>3, FineUpdate, ConstKnown DEF Follows
<1> HIDE DEF fresh0
<1>3. HoldsGroup(raws, base, 0, base)
  <2>1. DOMAIN base = {"conds", "ps", "measured"} /\ base.conds = <<>> /\ base.ps = fresh0
    OBVIOUS
  <2>2. Goes(fresh0, fresh0)
    BY <1>2, FollowsSelf, FollowsGoes
  <2>3. GroupSoFar(raws, fresh0, 0, <<>>) /\ CountedSoFar(raws, 0, fresh0.hasRequired)
    BY EmptyList DEF GroupSoFar, CountedSoFar
  <2> HIDE DEF base
  <2> QED BY <2>1, <2>2, <2>3, EmptyList DEF HoldsGroup
<1> HIDE DEF base
<1>4. \A k \in 1..n : \A a : HoldsGroup(raws, base, k - 1, a) => HoldsGroup(raws, base, k, StepGroup(raws, a, raws[k]))
  BY <1>1, GroupStep
<1>5. HoldsGroup(raws, base, n, FGroup!Result(raws, base, raws))
  BY ONLY <1>1, <1>3, <1>4, FGroup!FoldKeeps, Induction
<1>6. HoldsGroup(raws, base, n, all)
  BY <1>5, GroupFold
<1> DEFINE p == CondsetOf(all.conds, all.ps)
<1>7. ParseCondset(raws, ps) = p
  BY DEF ParseCondset, GroupRead, base, fresh0
<1> HIDE DEF all
<1> DEFINE placed == Placed([i \in DOMAIN all.conds |-> [all.conds[i] EXCEPT !.class = ClassAt(all.conds, i)]], all.ps)
<1>8. DOMAIN p = {"set", "ps"} /\ p.ps = all.ps /\ DOMAIN p.set = {"conds", "paused"} /\ p.set.conds = placed
  BY DEF CondsetOf
<1>9. Goes(ps, all.ps)
  <2>1. base.ps = fresh0
    BY DEF base
  <2>2. Goes(fresh0, all.ps)
    BY <1>6, <2>1 DEF HoldsGroup
  <2> QED BY <1>2, <2>2, FollowsGoes, GoesOn
<1>10. ASSUME all.ps.error = Ok
       PROVE  SetNew(p.set, raws, ps) /\ (Counts(raws) => p.ps.hasRequired)
  <2>1. IsList(all.conds) /\ GroupSoFar(raws, fresh0, n, all.conds) /\ CountedSoFar(raws, n, all.ps.hasRequired)
    BY <1>6, <1>10 DEF HoldsGroup, base
  <2>2. Len(all.conds) = n /\ DOMAIN all.conds = 1..n /\ \A i \in 1..n : CondNew(all.conds[i], raws[i], ps)
    <3>1. fresh0.isValue = ps.isValue
      BY <1>2 DEF Follows
    <3>2. \A c, raw : CondNew(c, raw, fresh0) => CondNew(c, raw, ps)
      BY <3>1 DEF CondNew
    <3> QED BY <2>1, <3>2, ListFacts DEF GroupSoFar
  <2>3. \A i \in 1..n : DOMAIN all.conds[i] = CondFields
    BY <2>2 DEF CondNew
  <2>4. IsList(placed) /\ Len(placed) = n /\ \A i \in 1..n : Alike(all.conds[i], placed[i])
    BY <1>1, <2>2, <2>3, PlacedAlike
  <2> HIDE DEF placed, p
  <2>5. \A i \in 1..n : CondNew(placed[i], raws[i], ps)
    BY <2>2, <2>4 DEF Alike, CondNew
  <2>6. SetNew(p.set, raws, ps)
    BY <1>8, <2>4, <2>5 DEF SetNew
  <2>7. Counts(raws) => p.ps.hasRequired
    BY <1>1, <1>8, <2>1 DEF Counts, CountedSoFar
  <2> QED BY <2>6, <2>7
<1> HIDE DEF p
<1>11. p.ps.error = Ok => SetNew(p.set, raws, ps) /\ (Counts(raws) => p.ps.hasRequired)
  BY <1>8, <1>10
<1>12. Goes(ps, p.ps)
  BY <1>8, <1>9
<1> QED BY <1>7, <1>8, <1>11, <1>12 DEF CondsetRead

(* Parsing stays fine step by step. *)
LEMMA StaysOn ==
  ASSUME NEW ps, NEW next, NEW now, Stays(ps, next), Stays(next, now)
  PROVE  Stays(ps, now)
  BY GrowsOn DEF Stays

(* Finding a target is forgotten between triggers. *)
LEMMA GoesStays ==
  ASSUME NEW ps, NEW now, Goes(ps, now)
  PROVE  Stays(ps, now)
  BY DEF Stays, Goes

(* What keeps everything keeps that. *)
LEMMA FollowsStays ==
  ASSUME NEW ps, NEW now, Follows(ps, now)
  PROVE  Stays(ps, now)
  BY DEF Stays, Follows

FGroups == INSTANCE FoldFacts WITH Op <- StepGroups, Holds <- HoldsGroups

(* One group more of a trigger. *)
LEMMA SetsAppend ==
  ASSUME NEW groups, NEW ps, NEW k \in Nat, k > 0, NEW sets, IsList(sets),
         SetsSoFar(groups, ps, k - 1, sets), NEW set, SetNew(set, groups[k], ps)
  PROVE  SetsSoFar(groups, ps, k, Append(sets, set))
<1>1. Len(sets) = k - 1 /\ \A i \in 1..(k - 1) : SetNew(sets[i], groups[i], ps)
  BY DEF SetsSoFar
<1> DEFINE next == Append(sets, set)
<1>2. Len(next) = k /\ next[k] = set /\ \A i \in 1..(k - 1) : next[i] = sets[i]
  BY <1>1, AppendFacts
<1> HIDE DEF next
<1>3. ASSUME NEW i \in 1..k
      PROVE  SetNew(next[i], groups[i], ps)
  <2>1. CASE i = k
    BY <1>2, <2>1
  <2>2. CASE i # k
    BY <1>1, <1>2, <2>2
  <2> QED BY <2>1, <2>2
<1> QED BY <1>2, <1>3 DEF SetsSoFar, next

(* A group more is as new as those before. *)
LEMMA GroupsStep ==
  ASSUME NEW groups, NEW base, NEW k \in Nat, k > 0, IsList(groups[k]), NEW a, HoldsGroups(groups, base, k - 1, a)
  PROVE  HoldsGroups(groups, base, k, StepGroups(groups, a, groups[k]))
<1> DEFINE g == groups[k]
           p == ParseCondset(g, a.ps)
           added == AddSet(a, p)
<1>1. DOMAIN a = {"sets", "ps"} /\ IsList(a.sets) /\ Goes(base.ps, a.ps) /\ Fine(a.ps)
  BY DEF HoldsGroups, Goes
<1>2. CASE a.ps.error # Ok
  <2>1. StepGroups(groups, a, g) = a
    BY <1>2 DEF StepGroups
  <2> QED BY <1>1, <1>2, <2>1 DEF HoldsGroups
<1>3. CASE a.ps.error = Ok
  <2>1. StepGroups(groups, a, g) = added
    BY <1>3 DEF StepGroups
  <2>2. CondsetRead(g, a.ps, p)
    BY <1>1, CondsetReads
  <2> HIDE DEF p
  <2>3. DOMAIN added = {"sets", "ps"} /\ added.sets = Append(a.sets, p.set) /\ added.ps = p.ps
    BY DEF AddSet
  <2> HIDE DEF added
  <2>4. Goes(base.ps, p.ps) /\ (a.ps.hasRequired => p.ps.hasRequired)
    BY <1>1, <2>2, GoesOn DEF CondsetRead, Goes
  <2>5. ASSUME p.ps.error = Ok
        PROVE  SetsSoFar(groups, base.ps, k, added.sets) /\ SetsCounted(groups, k, p.ps.hasRequired)
    <3>1. SetNew(p.set, g, a.ps) /\ (Counts(g) => p.ps.hasRequired)
      BY <2>2, <2>5 DEF CondsetRead
    <3>2. a.ps.isValue = base.ps.isValue
      BY <1>1 DEF Goes
    <3>3. SetNew(p.set, g, base.ps)
      BY <3>1, <3>2 DEF SetNew, CondNew
    <3>4. SetsSoFar(groups, base.ps, k - 1, a.sets) /\ SetsCounted(groups, k - 1, a.ps.hasRequired)
      BY <1>3 DEF HoldsGroups
    <3>5. SetsSoFar(groups, base.ps, k, added.sets)
      BY <1>1, <2>3, <3>3, <3>4, SetsAppend
    <3>6. ASSUME NEW i \in 1..k, Counts(groups[i])
          PROVE  p.ps.hasRequired
      <4>1. CASE i = k
        BY <3>1, <3>6, <4>1
      <4>2. CASE i \in 1..(k - 1)
        BY <2>4, <3>4, <3>6, <4>2 DEF SetsCounted
      <4> QED BY <4>1, <4>2
    <3> QED BY <3>5, <3>6 DEF SetsCounted
  <2>6. IsList(added.sets)
    BY <1>1, <2>3, AppendFacts
  <2>7. HoldsGroups(groups, base, k, added)
    BY <2>3, <2>4, <2>5, <2>6 DEF HoldsGroups
  <2> QED BY <2>1, <2>7
<1> QED BY <1>2, <1>3

(* The groups of a trigger are parsed by a fold. *)
LEMMA GroupsFold ==
  ASSUME NEW groups, NEW ps
  PROVE  ParseGroups(groups, ps) = FGroups!Result(groups, [sets |-> <<>>, ps |-> ps], groups)
  BY DEF ParseGroups, FoldLeft, MapThenFoldSet, FGroups!Result, FGroups!Table, FGroups!Greatest, Max, StepGroups

(* The alternative groups of a trigger are as new as their definitions say. *)
LEMMA GroupsRead ==
  ASSUME NEW groups, IsList(groups), \A i \in DOMAIN groups : IsList(groups[i]), NEW ps, Fine(ps)
  PROVE  HoldsGroups(groups, [sets |-> <<>>, ps |-> ps], Len(groups), ParseGroups(groups, ps))
<1> DEFINE base == [sets |-> <<>>, ps |-> ps]
           n == Len(groups)
<1>1. n \in Nat /\ DOMAIN groups = 1..n
  BY ListFacts
<1>2. HoldsGroups(groups, base, 0, base)
  <2>1. DOMAIN base = {"sets", "ps"} /\ base.sets = <<>> /\ base.ps = ps
    OBVIOUS
  <2>2. Goes(ps, ps)
    BY FollowsSelf, FollowsGoes
  <2>3. SetsSoFar(groups, ps, 0, <<>>) /\ SetsCounted(groups, 0, ps.hasRequired)
    BY EmptyList DEF SetsSoFar, SetsCounted
  <2> HIDE DEF base
  <2> QED BY <2>1, <2>2, <2>3, EmptyList DEF HoldsGroups
<1> HIDE DEF base
<1>3. \A k \in 1..n : \A a : HoldsGroups(groups, base, k - 1, a) => HoldsGroups(groups, base, k, StepGroups(groups, a, groups[k]))
  BY <1>1, GroupsStep
<1>4. HoldsGroups(groups, base, n, FGroups!Result(groups, base, groups))
  BY ONLY <1>1, <1>2, <1>3, FGroups!FoldKeeps, Induction
<1> QED BY <1>4, GroupsFold DEF base

(* A parse state whose pool is what it was and that has the same operands. *)
LEMMA OtherFlags ==
  ASSUME NEW ps, Fine(ps), NEW now, DOMAIN now = PsFields, now.pool = ps.pool, now.indirect = ps.indirect,
         now.addsource = ps.addsource, now.remember = ps.remember
  PROVE  Fine(now) /\ Grows(ps.pool, now.pool)
  BY FineFields DEF Fine

(* rc_parse_trigger: a trigger is new, and whether it has a target is noted. *)
LEMMA TriggerParses ==
  ASSUME NEW raw, IsRawTrigger(raw), NEW ps, Fine(ps)
  PROVE  TriggerParsed(raw, ps, ParseTrigger(raw, ps))
<1> DEFINE start == [ps EXCEPT !.target = 0, !.hasRequired = FALSE]
           groups == <<raw.core>> \o raw.alts
           all == ParseGroups(groups, start)
           target == all.ps.target
           t == [core |-> Head(all.sets), alts |-> Tail(all.sets), state |-> "waiting", target |-> target,
                 measured |-> IF target # 0 THEN MeasuredUnknown ELSE 0, percent |-> raw.percent, hasHits |-> FALSE]
           r == [trigger |-> t, ps |-> all.ps]
<1>1. ParseTrigger(raw, ps) = r
  BY DEF ParseTrigger, TriggerOf, TriggerRead
<1>2. Fine(start) /\ Stays(ps, start) /\ start.isValue = ps.isValue
  <2>1. DOMAIN ps = PsFields
    BY FineFields
  <2>2. /\ DOMAIN start = PsFields /\ start.pool = ps.pool /\ start.indirect = ps.indirect
        /\ start.addsource = ps.addsource /\ start.remember = ps.remember
    BY <2>1 DEF PsFields
  <2>3. start.isValue = ps.isValue
    BY <2>1 DEF PsFields
  <2> HIDE DEF start
  <2> QED BY <2>2, <2>3, OtherFlags DEF Stays
<1> HIDE DEF start
<1> DEFINE n == Len(raw.alts)
<1>3. IsList(raw.core) /\ IsList(raw.alts) /\ \A i \in DOMAIN raw.alts : IsList(raw.alts[i])
  BY DEF IsRawTrigger, IsGroups, IsGroup
<1>4. n \in Nat /\ DOMAIN raw.alts = 1..n
  BY <1>3, ListFacts
<1>5. /\ IsList(groups) /\ Len(groups) = n + 1 /\ DOMAIN groups = 1..(n + 1)
      /\ groups[1] = raw.core /\ \A i \in 1..n : groups[i + 1] = raw.alts[i]
  BY <1>3, ConsFacts
<1> HIDE DEF groups
<1>6. \A i \in DOMAIN groups : IsList(groups[i])
  <2>1. ASSUME NEW i \in DOMAIN groups
        PROVE  IsList(groups[i])
    <3>1. CASE i = 1
      BY <1>3, <1>5, <3>1
    <3>2. CASE i # 1
      <4>1. i - 1 \in 1..n /\ i = (i - 1) + 1
        BY <1>4, <1>5, <3>2
      <4>2. groups[i] = raw.alts[i - 1]
        BY <1>5, <4>1
      <4> QED BY <1>3, <1>4, <4>1, <4>2
    <3> QED BY <3>1, <3>2
  <2> QED BY <2>1
<1> DEFINE base == [sets |-> <<>>, ps |-> start]
<1>7. HoldsGroups(groups, base, n + 1, all)
  BY <1>2, <1>5, <1>6, GroupsRead
<1>8. Goes(start, all.ps) /\ IsList(all.sets)
  BY <1>7 DEF HoldsGroups
<1>9. Stays(ps, all.ps)
  BY <1>2, <1>8, GoesStays, StaysOn
<1>10. ASSUME all.ps.error = Ok
       PROVE  TriggerNew(t, raw, ps) /\ (TriggerCounts(raw) => all.ps.hasRequired)
  <2>1. SetsSoFar(groups, start, n + 1, all.sets) /\ SetsCounted(groups, n + 1, all.ps.hasRequired)
    BY <1>7, <1>10 DEF HoldsGroups
  <2> HIDE DEF all, target
  <2>2. Len(all.sets) = n + 1 /\ \A i \in 1..(n + 1) : SetNew(all.sets[i], groups[i], ps)
    <3>1. \A set, g : SetNew(set, g, start) => SetNew(set, g, ps)
      BY <1>2 DEF SetNew, CondNew
    <3> QED BY <2>1, <3>1 DEF SetsSoFar
  <2>3. /\ Head(all.sets) = all.sets[1] /\ IsList(Tail(all.sets)) /\ Len(Tail(all.sets)) = n
        /\ \A i \in 1..n : Tail(all.sets)[i] = all.sets[i + 1]
    <3>1. all.sets # <<>>
      BY <1>4, <2>2, EmptyList
    <3> QED BY <1>4, <1>8, <2>2, <3>1, HeadTailFacts
  <2>4. SetNew(Head(all.sets), raw.core, ps)
    BY <1>4, <1>5, <2>2, <2>3
  <2>5. ASSUME NEW i \in 1..n
        PROVE  SetNew(Tail(all.sets)[i], raw.alts[i], ps)
    BY <1>4, <1>5, <2>2, <2>3
  <2>6. DOMAIN t = TriggerFields /\ t.state = "waiting" /\ t.core = Head(all.sets) /\ t.alts = Tail(all.sets)
    BY DEF TriggerFields
  <2> HIDE DEF t
  <2>7. TriggerNew(t, raw, ps)
    BY <2>3, <2>4, <2>5, <2>6 DEF TriggerNew
  <2>8. TriggerCounts(raw) => all.ps.hasRequired
    <3>1. Counts(raw.core) => all.ps.hasRequired
      BY <1>4, <1>5, <2>1 DEF SetsCounted
    <3>2. ASSUME NEW i \in 1..n, Counts(raw.alts[i])
          PROVE  all.ps.hasRequired
      <4>1. i + 1 \in 1..(n + 1) /\ Counts(groups[i + 1])
        BY <1>4, <1>5, <3>2
      <4> QED BY <2>1, <4>1 DEF SetsCounted
    <3> QED BY <3>1, <3>2 DEF TriggerCounts
  <2> QED BY <2>7, <2>8
<1> HIDE DEF t
<1>11. r.ps = all.ps /\ r.trigger = t
  OBVIOUS
<1> QED BY <1>1, <1>9, <1>10, <1>11 DEF TriggerParsed

(* A new group can be evaluated. *)
LEMMA NewShaped ==
  ASSUME NEW raws, IsGroup(raws), NEW ps, NEW set, SetNew(set, raws, ps)
  PROVE  SetShaped(set)
<1>1. DOMAIN set = {"conds", "paused"} /\ IsList(set.conds) /\ DOMAIN set.conds = DOMAIN raws
  BY ListFacts DEF SetNew, IsGroup
<1>2. ASSUME NEW i \in DOMAIN set.conds
      PROVE  CondShaped(set.conds[i])
  BY <1>1, ListFacts DEF SetNew, IsGroup, CondNew, CondShaped
<1> QED BY <1>1, <1>2 DEF SetShaped

(* A group more can be evaluated. *)
LEMMA ShapedAppend ==
  ASSUME NEW sets, SetsShaped(sets), NEW set, SetShaped(set)
  PROVE  SetsShaped(Append(sets, set))
<1>1. IsList(sets) /\ Len(sets) \in Nat /\ DOMAIN sets = 1..Len(sets)
  BY ListFacts DEF SetsShaped
<1> DEFINE next == Append(sets, set)
<1>2. /\ IsList(next) /\ DOMAIN next = 1..(Len(sets) + 1) /\ next[Len(sets) + 1] = set
      /\ \A i \in 1..Len(sets) : next[i] = sets[i]
  BY <1>1, AppendFacts
<1> HIDE DEF next
<1>3. ASSUME NEW i \in 1..(Len(sets) + 1)
      PROVE  SetShaped(next[i])
  <2>1. CASE i = Len(sets) + 1
    BY <1>2, <2>1
  <2>2. CASE i # Len(sets) + 1
    BY <1>1, <1>2, <2>2 DEF SetsShaped
  <2> QED BY <2>1, <2>2
<1> QED BY <1>2, <1>3 DEF SetsShaped, next

FValue == INSTANCE FoldFacts WITH Op <- StepValue, Holds <- HoldsValue

(* A group added to a value. *)
LEMMA AddedValue ==
  ASSUME NEW c, NEW base, NEW j, NEW k, NEW a, HoldsValue(c, base, j, a), NEW p, Stays(a.ps, p.ps),
         p.ps.error = Ok => a.ps.error = Ok /\ SetShaped(p.set)
  PROVE  HoldsValue(c, base, k, AddSet(a, p))
<1> DEFINE added == AddSet(a, p)
<1>1. DOMAIN added = {"sets", "ps"} /\ added.sets = Append(a.sets, p.set) /\ added.ps = p.ps
  BY DEF AddSet
<1> HIDE DEF added
<1>2. IsList(a.sets) /\ Stays(base.ps, a.ps)
  BY DEF HoldsValue
<1>3. IsList(added.sets) /\ 1 \in DOMAIN added.sets /\ Stays(base.ps, added.ps)
  <2>1. Len(a.sets) \in Nat
    BY <1>2, ListFacts
  <2>2. IsList(added.sets) /\ DOMAIN added.sets = 1..(Len(a.sets) + 1)
    BY <1>1, <1>2, AppendFacts
  <2>3. 1 \in DOMAIN added.sets
    BY <2>1, <2>2
  <2> QED BY <1>1, <1>2, <2>2, <2>3, StaysOn
<1>4. ASSUME added.ps.error = Ok
      PROVE  SetsShaped(added.sets)
  BY <1>1, <1>4, ShapedAppend DEF HoldsValue
<1> QED BY <1>1, <1>3, <1>4 DEF HoldsValue, added

(* A group more of a value. *)
LEMMA ValueStep ==
  ASSUME NEW c, NEW base, NEW j, NEW k, NEW g, IsGroup(g), NEW a, HoldsValue(c, base, j, a)
  PROVE  HoldsValue(c, base, k, StepValue(c, a, g))
<1>1. Stays(base.ps, a.ps) /\ Fine(a.ps)
  BY DEF HoldsValue, Stays
<1>2. CASE a.ps.error # Ok
  <2>1. StepValue(c, a, g) = a
    BY <1>2 DEF StepValue
  <2> QED BY <1>2, <2>1 DEF HoldsValue
<1>3. CASE a.ps.error = Ok
  <2> DEFINE at == [a.ps EXCEPT !.target = 0]
             q == ParseCondset(g, at)
             p == Measures(q)
             failed == [q EXCEPT !.ps = Fail(@, "missing_value_measured")]
  <2>1. StepValue(c, a, g) = AddSet(a, p)
    BY <1>3 DEF StepValue
  <2>2. Follows(a.ps, at) /\ Fine(at)
    BY <1>1, TargetFollows DEF Follows
  <2> HIDE DEF at
  <2>3. CondsetRead(g, at, q)
    BY <2>2, CondsetReads DEF IsGroup
  <2>4. DOMAIN q = {"set", "ps"} /\ Goes(at, q.ps) /\ Fine(q.ps) /\ (q.ps.error = Ok => SetNew(q.set, g, at))
    BY <2>3 DEF CondsetRead, Goes
  <2> HIDE DEF q
  <2>5. Stays(a.ps, q.ps)
    BY <2>2, <2>4, FollowsStays, GoesStays, StaysOn
  <2>6. Stays(q.ps, Fail(q.ps, "missing_value_measured")) /\ Fail(q.ps, "missing_value_measured").error # Ok
    BY <2>4, FailFollows, FollowsStays DEF Ok
  <2>7. failed.ps = Fail(q.ps, "missing_value_measured") /\ failed.set = q.set
    BY <2>4
  <2> HIDE DEF failed
  <2>8. Stays(a.ps, failed.ps) /\ failed.ps.error # Ok
    BY <2>5, <2>6, <2>7, StaysOn
  <2>9. p = q \/ p = failed
    BY DEF Measures, failed
  <2> HIDE DEF p
  <2>10. Stays(a.ps, p.ps) /\ (p.ps.error = Ok => SetShaped(p.set))
    BY <2>4, <2>5, <2>8, <2>9, NewShaped
  <2>11. HoldsValue(c, base, k, AddSet(a, p))
    BY <1>3, <2>10, AddedValue
  <2> QED BY <2>1, <2>11
<1> QED BY <1>2, <1>3

(* The groups of a value are parsed by a fold. *)
LEMMA ValueFold ==
  ASSUME NEW groups, NEW ps
  PROVE  ParseValue(groups, ps) = FValue!Result(groups, [sets |-> <<>>, ps |-> [ps EXCEPT !.isValue = TRUE]], groups)
  BY DEF ParseValue, FoldLeft, MapThenFoldSet, FValue!Result, FValue!Table, FValue!Greatest, Max, StepValue

(* A value without groups yet. *)
LEMMA ValueStarts ==
  ASSUME NEW c, NEW ps, Fine(ps)
  PROVE  HoldsValue(c, [sets |-> <<>>, ps |-> ps], 0, [sets |-> <<>>, ps |-> ps])
<1> DEFINE base == [sets |-> <<>>, ps |-> ps]
<1>1. DOMAIN base = {"sets", "ps"} /\ base.sets = <<>> /\ base.ps = ps
  OBVIOUS
<1>2. Stays(ps, ps)
  BY FollowsSelf, FollowsStays
<1>3. SetsShaped(<<>>)
  BY EmptyList DEF SetsShaped
<1> HIDE DEF base
<1>4. HoldsValue(c, base, 0, base)
  BY <1>1, <1>2, <1>3, EmptyList DEF HoldsValue
<1> QED BY <1>4 DEF base

FTerm == INSTANCE FoldFacts WITH Op <- StepTerm, Holds <- HoldsTerm

FClause == INSTANCE FoldFacts WITH Op <- StepClause, Holds <- HoldsClause

(* A term more of a value in the older form. *)
LEMMA TermStep ==
  ASSUME NEW c, NEW base, NEW j, NEW k, NEW raw, raw.flag \in Flags, NEW a, HoldsTerm(c, base, j, a)
  PROVE  HoldsTerm(c, base, k, StepTerm(c, a, raw))
<1> DEFINE parsed == ParseCondition(raw, a.ps)
<1>1. DOMAIN a = {"conds", "ps"} /\ IsList(a.conds) /\ Stays(base.ps, a.ps) /\ Fine(a.ps)
  BY DEF HoldsTerm, Stays
<1>2. CondRead(a.ps, raw, parsed)
  BY <1>1, ConditionRead
<1>3. StepTerm(c, a, raw) = Term(a, parsed)
  BY DEF StepTerm
<1> HIDE DEF parsed
<1>4. /\ CondKnown(parsed.cond, parsed.ps.pool) /\ parsed.cond.type = raw.flag /\ Fine(parsed.ps)
      /\ Stays(base.ps, parsed.ps)
  BY <1>1, <1>2, GoesStays, StaysOn DEF CondRead, Goes
<1>5. CASE parsed.ps.error # Ok
  <2> DEFINE failed == [a EXCEPT !.ps = parsed.ps]
  <2>1. StepTerm(c, a, raw) = failed
    BY <1>3, <1>5 DEF Term
  <2>2. DOMAIN failed = {"conds", "ps"} /\ failed.conds = a.conds /\ failed.ps = parsed.ps
    BY <1>1
  <2> HIDE DEF failed
  <2> QED BY <1>1, <1>4, <2>1, <2>2 DEF HoldsTerm
<1>6. CASE parsed.ps.error = Ok
  <2> DEFINE read == parsed.cond
             plain == IF read.type = "measured" /\ ~IsModifying(read.oper) THEN [read EXCEPT !.oper = "none"] ELSE read
             next == UpdateParseState(plain, parsed.ps)
             last == [next.cond EXCEPT !.class = "measured"]
             added == [conds |-> Append(a.conds, last), ps |-> next.ps]
  <2>1. StepTerm(c, a, raw) = added
    BY <1>3, <1>6 DEF Term, AddTerm
  <2>2. DOMAIN read = CondFields
    BY <1>4 DEF CondKnown
  <2>3. DOMAIN plain = CondFields /\ plain.type = raw.flag /\ plain.op1 = read.op1 /\ plain.op2 = read.op2
    BY <1>4, <2>2 DEF CondFields
  <2> HIDE DEF plain, read
  <2>4. CondKnown(plain, parsed.ps.pool)
    BY <1>4, <2>3 DEF CondKnown, read
  <2>5. Updated(plain, parsed.ps, next)
    BY <1>4, <2>4, ParseStateUpdates
  <2>6. Alike(plain, next.cond) /\ Stays(parsed.ps, next.ps)
    BY <2>5, FollowsStays DEF Updated
  <2> HIDE DEF next
  <2>7. CondShaped(last)
    BY <2>3, <2>6 DEF Alike, CondShaped, CondFields
  <2>8. DOMAIN added = {"conds", "ps"} /\ added.conds = Append(a.conds, last) /\ added.ps = next.ps
    OBVIOUS
  <2> HIDE DEF added, last
  <2>9. Stays(base.ps, added.ps)
    BY <1>4, <2>6, <2>8, StaysOn
  <2>10. IsList(added.conds) /\ \A i \in DOMAIN added.conds : CondShaped(added.conds[i])
    <3>1. Len(a.conds) \in Nat /\ DOMAIN a.conds = 1..Len(a.conds)
      BY <1>1, ListFacts
    <3>2. /\ IsList(added.conds) /\ DOMAIN added.conds = 1..(Len(a.conds) + 1)
          /\ added.conds[Len(a.conds) + 1] = last
          /\ \A i \in 1..Len(a.conds) : added.conds[i] = a.conds[i]
      BY <1>1, <2>8, AppendFacts
    <3>3. \A i \in 1..Len(a.conds) : CondShaped(a.conds[i])
      BY <3>1 DEF HoldsTerm
    <3>4. ASSUME NEW i \in 1..(Len(a.conds) + 1)
          PROVE  CondShaped(added.conds[i])
      <4>1. CASE i = Len(a.conds) + 1
        BY <2>7, <3>2, <4>1
      <4>2. CASE i \in 1..Len(a.conds)
        BY <3>2, <3>3, <4>2
      <4> QED BY <3>1, <4>1, <4>2
    <3> QED BY <3>2, <3>4
  <2> QED BY <2>1, <2>8, <2>9, <2>10 DEF HoldsTerm
<1> QED BY <1>5, <1>6

(* The terms of a value in the older form are conditions. *)
LEMMA ClauseFacts ==
  ASSUME NEW g, IsList(g)
  PROVE  IsList(LegacyClause(g)) /\ \A i \in DOMAIN LegacyClause(g) : LegacyClause(g)[i].flag \in Flags
<1> DEFINE flag(i) == IF g[i].negative THEN "sub_source" ELSE IF i = Len(g) THEN "measured" ELSE "add_source"
           each(i) == Raw(flag(i), g[i].left, g[i].oper, g[i].right, 0)
           s == [i \in DOMAIN g |-> each(i)]
           end == Raw("measured", RawConst(0), "none", RawNone, 0)
           t == IF Last(g).negative THEN <<end>> ELSE <<>>
           all == s \o t
<1>1. LegacyClause(g) = all
  BY DEF LegacyClause
<1>2. \A i : each(i).flag \in Flags
  <2>1. \A i : each(i).flag = flag(i)
    BY DEF Raw
  <2>2. \A i : flag(i) \in Flags
    BY DEF Flags, Indirect
  <2> HIDE DEF each, flag
  <2> QED BY <2>1, <2>2
<1>3. end.flag \in Flags
  BY DEF Raw, Flags
<1> HIDE DEF each, end
<1>4. Len(g) \in Nat /\ DOMAIN g = 1..Len(g)
  BY ListFacts
<1>5. IsList(s) /\ Len(s) = Len(g) /\ \A i \in 1..Len(s) : s[i].flag \in Flags
  <2>1. s = [i \in 1..Len(g) |-> s[i]] /\ \A i \in 1..Len(g) : s[i].flag \in Flags
    BY <1>2, <1>4
  <2> HIDE DEF s
  <2> QED BY <1>4, <2>1, FunctionIsList
<1> HIDE DEF s
<1>6. IsList(t) /\ Len(t) \in Nat /\ \A i \in 1..Len(t) : t[i].flag \in Flags
  BY <1>3, EmptyList, OneList
<1> HIDE DEF t
<1>7. /\ IsList(all) /\ DOMAIN all = 1..(Len(s) + Len(t))
      /\ \A i \in 1..Len(s) : all[i] = s[i]
      /\ \A i \in 1..Len(t) : all[Len(s) + i] = t[i]
  <2>1. IsList(s) /\ IsList(t)
    BY <1>5, <1>6
  <2> QED BY ONLY <2>1, ConcatFacts
<1> HIDE DEF all
<1>8. ASSUME NEW i \in 1..(Len(s) + Len(t))
      PROVE  all[i].flag \in Flags
  <2>1. CASE i \in 1..Len(s)
    BY <1>5, <1>7, <2>1
  <2>2. CASE i \notin 1..Len(s)
    <3>1. i - Len(s) \in 1..Len(t) /\ i = Len(s) + (i - Len(s))
      BY <1>4, <1>5, <1>6, <2>2
    <3> QED BY <1>6, <1>7, <3>1
  <2> QED BY <2>1, <2>2
<1> QED BY <1>1, <1>7, <1>8

(* The terms of one clause. *)
LEMMA TermsFold ==
  ASSUME NEW g, NEW ps
  PROVE  TermsRead(g, ps) = FTerm!Result(g, [conds |-> <<>>, ps |-> ps], LegacyClause(g))
  BY DEF TermsRead, FoldLeft, MapThenFoldSet, FTerm!Result, FTerm!Table, FTerm!Greatest, Max, StepTerm

(* What the terms of such a value are parsed into. *)
LEMMA TermsHold ==
  ASSUME NEW g, IsList(g), NEW ps, Fine(ps), NEW k
  PROVE  HoldsTerm(g, [conds |-> <<>>, ps |-> ps], k, TermsRead(g, ps))
<1> DEFINE base == [conds |-> <<>>, ps |-> ps]
           raws == LegacyClause(g)
           n == Len(raws)
<1>1. IsList(raws) /\ \A i \in DOMAIN raws : raws[i].flag \in Flags
  BY ClauseFacts
<1> HIDE DEF raws
<1>2. n \in Nat /\ DOMAIN raws = 1..n
  BY <1>1, ListFacts
<1>3. HoldsTerm(g, base, 0, base)
  <2>1. DOMAIN base = {"conds", "ps"} /\ base.conds = <<>> /\ base.ps = ps
    OBVIOUS
  <2>2. Stays(ps, ps)
    BY FollowsSelf, FollowsStays
  <2> HIDE DEF base
  <2> QED BY <2>1, <2>2, EmptyList DEF HoldsTerm
<1> HIDE DEF base
<1>4. \A j \in 1..n : \A a : HoldsTerm(g, base, j - 1, a) => HoldsTerm(g, base, j, StepTerm(g, a, raws[j]))
  BY <1>1, <1>2, TermStep
<1>5. HoldsTerm(g, base, n, FTerm!Result(g, base, raws))
  BY ONLY <1>2, <1>3, <1>4, FTerm!FoldKeeps, Induction
<1>6. HoldsTerm(g, base, n, TermsRead(g, ps))
  BY <1>5, TermsFold DEF base, raws
<1> QED BY <1>6 DEF HoldsTerm, base

(* The clauses of a value in the older form. *)
LEMMA ClauseFold ==
  ASSUME NEW clauses, NEW ps
  PROVE  ParseLegacyValue(clauses, ps) =
           FClause!Result(clauses, [sets |-> <<>>, ps |-> [ps EXCEPT !.isValue = TRUE]], clauses)
  BY DEF ParseLegacyValue, FoldLeft, MapThenFoldSet, FClause!Result, FClause!Table, FClause!Greatest, Max, StepClause, TermsRead

(* A clause more of such a value. *)
LEMMA ClauseStep ==
  ASSUME NEW c, NEW base, NEW j, NEW k, NEW g, IsList(g), NEW a, HoldsClause(c, base, j, a)
  PROVE  HoldsClause(c, base, k, StepClause(c, a, g))
<1> DEFINE r == TermsRead(g, a.ps)
           set == [conds |-> r.conds, paused |-> FALSE]
           p == [set |-> set, ps |-> r.ps]
           added == AddSet(a, p)
<1>1. DOMAIN a = {"sets", "ps"} /\ IsList(a.sets) /\ Stays(base.ps, a.ps) /\ Fine(a.ps) /\ SetsShaped(a.sets)
  BY DEF HoldsClause, HoldsValue, Stays
<1>2. HoldsTerm(g, [conds |-> <<>>, ps |-> a.ps], k, r)
  BY <1>1, TermsHold
<1>3. StepClause(c, a, g) = added
  BY DEF StepClause
<1> HIDE DEF r
<1>4. Stays(a.ps, r.ps) /\ IsList(r.conds) /\ \A i \in DOMAIN r.conds : CondShaped(r.conds[i])
  BY <1>2 DEF HoldsTerm
<1>5. SetShaped(set)
  BY <1>4 DEF SetShaped
<1> HIDE DEF set
<1>6. DOMAIN added = {"sets", "ps"} /\ added.sets = Append(a.sets, set) /\ added.ps = r.ps
  BY DEF AddSet
<1> HIDE DEF added
<1>7. SetsShaped(added.sets) /\ IsList(added.sets)
  BY <1>1, <1>5, <1>6, ShapedAppend, AppendFacts
<1>9. 1 \in DOMAIN Append(a.sets, set)
  <2>1. Len(a.sets) \in Nat /\ DOMAIN Append(a.sets, set) = 1..(Len(a.sets) + 1)
    BY <1>1, ListFacts, AppendFacts
  <2> QED BY <2>1
<1>8. Stays(base.ps, added.ps)
  BY <1>1, <1>4, <1>6, StaysOn
<1> QED BY <1>3, <1>6, <1>7, <1>8, <1>9 DEF HoldsClause, HoldsValue

(* A value of either form. *)
LEMMA ValueParses ==
  ASSUME NEW def, IsRawValue(def), NEW ps, Fine(ps)
  PROVE  ValueParsed(ps, ParseValueInternal(def, ps))
<1> DEFINE start == [ps EXCEPT !.isValue = TRUE]
           base == [sets |-> <<>>, ps |-> start]
           groups == def.groups
           n == Len(groups)
           all == IF def.legacy THEN ParseLegacyValue(def.groups, ps) ELSE ParseValue(def.groups, ps)
           r == ValueOf(all, all.sets[1].conds, ps.isValue)
<1>1. ParseValueInternal(def, ps) = r
  BY DEF ParseValueInternal, ValueRead
<1>2. Fine(start) /\ Grows(ps.pool, start.pool)
  <2>1. DOMAIN ps = PsFields
    BY FineFields
  <2>2. /\ DOMAIN start = PsFields /\ start.pool = ps.pool /\ start.indirect = ps.indirect
        /\ start.addsource = ps.addsource /\ start.remember = ps.remember
    BY <2>1 DEF PsFields
  <2> HIDE DEF start
  <2> QED BY <2>2, OtherFlags
<1>3. base.ps = start /\ base.sets = <<>>
  OBVIOUS
<1> HIDE DEF start
<1>4. HoldsValue(groups, base, 0, base) /\ HoldsClause(groups, base, 0, base)
  BY <1>2, ValueStarts, EmptyList DEF HoldsClause, SetsShaped
<1>5. IsList(groups)
  BY DEF IsRawValue, IsGroups
<1>6. n \in Nat /\ DOMAIN groups = 1..n /\ n # 0
  <2>1. n \in Nat /\ DOMAIN groups = 1..n /\ groups # <<>>
    BY <1>5, ListFacts DEF IsRawValue
  <2>2. n # 0
    BY <1>5, <2>1, ListFacts
  <2> QED BY <2>1, <2>2
<1> HIDE DEF base
<1>7. HoldsValue(groups, base, n, all)
  <2>1. CASE def.legacy
    <3>1. \A i \in DOMAIN groups : IsList(groups[i])
      BY <2>1 DEF IsRawValue
    <3> HIDE DEF groups
    <3>2. \A j \in 1..n : \A a : HoldsClause(groups, base, j - 1, a) => HoldsClause(groups, base, j, StepClause(groups, a, groups[j]))
      BY <1>6, <3>1, ClauseStep
    <3>3. HoldsClause(groups, base, n, FClause!Result(groups, base, groups))
      BY ONLY <1>4, <1>6, <3>2, FClause!FoldKeeps, Induction
    <3> QED BY <2>1, <3>3, ClauseFold DEF base, start, HoldsClause, groups
  <2>2. CASE ~def.legacy
    <3>1. \A i \in DOMAIN groups : IsGroup(groups[i])
      BY <2>2 DEF IsRawValue, IsGroups
    <3> HIDE DEF groups
    <3>2. \A j \in 1..n : \A a : HoldsValue(groups, base, j - 1, a) => HoldsValue(groups, base, j, StepValue(groups, a, groups[j]))
      BY <1>6, <3>1, ValueStep
    <3>3. HoldsValue(groups, base, n, FValue!Result(groups, base, groups))
      BY ONLY <1>4, <1>6, <3>2, FValue!FoldKeeps, Induction
    <3> QED BY <2>2, <3>3, ValueFold DEF base, start, groups
  <2> QED BY <2>1, <2>2
<1> HIDE DEF all, groups, n
<1>8. Stays(start, all.ps) /\ (all.ps.error = Ok => SetsShaped(all.sets) /\ 1 \in DOMAIN all.sets)
  BY <1>3, <1>6, <1>7 DEF HoldsValue
<1> DEFINE now == [all.ps EXCEPT !.isValue = ps.isValue]
<1>9. r.ps = now /\ DOMAIN r.value = {"sets", "cell"} /\ r.value.sets = all.sets
  BY DEF ValueOf
<1> HIDE DEF r
<1>10. Fine(now) /\ Grows(all.ps.pool, now.pool) /\ now.isValue = ps.isValue /\ now.error = all.ps.error
  <2>1. DOMAIN all.ps = PsFields /\ Fine(all.ps)
    BY <1>8, FineFields DEF Stays
  <2>2. /\ DOMAIN now = PsFields /\ now.pool = all.ps.pool /\ now.indirect = all.ps.indirect
        /\ now.addsource = all.ps.addsource /\ now.remember = all.ps.remember /\ now.error = all.ps.error
    BY <2>1 DEF PsFields
  <2>3. now.isValue = ps.isValue
    BY <2>1 DEF PsFields
  <2> HIDE DEF now
  <2> QED BY <2>1, <2>2, <2>3, OtherFlags
<1> HIDE DEF now
<1>11. Stays(ps, now)
  <2>1. Grows(ps.pool, all.ps.pool)
    BY <1>2, <1>8, GrowsOn DEF Stays
  <2> QED BY <1>10, <2>1, GrowsOn DEF Stays
<1> QED BY <1>1, <1>8, <1>9, <1>10, <1>11 DEF ValueParsed, ValueShaped

FField == INSTANCE FoldFacts WITH Op <- StepField, Holds <- HoldsField

(* A trigger is as new whatever else was parsed. *)
LEMMA NewElsewhere ==
  ASSUME NEW t, NEW raw, NEW ps, NEW base, TriggerNew(t, raw, ps), ps.isValue = base.isValue
  PROVE  TriggerNew(t, raw, base)
<1>1. \A set, g : SetNew(set, g, ps) => SetNew(set, g, base)
  BY DEF SetNew, CondNew
<1> QED BY <1>1 DEF TriggerNew

(* One more field, whose name was not found before. *)
LEMMA NamesAppend ==
  ASSUME NEW fields, NEW k \in Nat, k > 0, NEW found, NamesSoFar(fields, k - 1, found), fields[k].name \notin found
  PROVE  NamesSoFar(fields, k, found \cup {fields[k].name})
<1>1. found = {fields[i].name : i \in 1..(k - 1)}
  BY DEF NamesSoFar
<1>2. \A i \in 1..(k - 1) : fields[i].name # fields[k].name
  BY <1>1
<1>3. \A i, j \in 1..(k - 1) : fields[i].name = fields[j].name => i = j
  BY DEF NamesSoFar
<1>4. \A i \in 1..k : i = k \/ i \in 1..(k - 1)
  OBVIOUS
<1>5. \A i \in 1..(k - 1) : i \in 1..k
  OBVIOUS
<1>6. k \in 1..k
  OBVIOUS
<1>7. found \cup {fields[k].name} = {fields[i].name : i \in 1..k}
  BY ONLY <1>1, <1>4, <1>5, <1>6
<1>8. \A i, j \in 1..k : fields[i].name = fields[j].name => i = j
  BY ONLY <1>2, <1>3, <1>4
<1> QED BY <1>7, <1>8 DEF NamesSoFar

(* rc_parse_lboard: a field more of a leaderboard. *)
LEMMA FieldStep ==
  ASSUME NEW fields, NEW base, NEW k \in Nat, k > 0, IsRawField(fields[k]), NEW a, HoldsField(fields, base, k - 1, a)
  PROVE  HoldsField(fields, base, k, StepField(fields, a, fields[k]))
<1> DEFINE f == fields[k]
           name == f.name
<1>1. /\ DOMAIN a = {"lboard", "ps", "found"} /\ Stays(base.ps, a.ps) /\ Fine(a.ps)
      /\ DOMAIN a.lboard = LboardFields /\ a.lboard.state = "waiting"
  BY DEF HoldsField, Stays
<1>2. CASE a.ps.error # Ok
  <2>1. StepField(fields, a, f) = a
    BY <1>2 DEF StepField, ParseField
  <2> QED BY <1>1, <1>2, <2>1 DEF HoldsField
<1>3. CASE a.ps.error = Ok /\ name \in a.found
  <2> DEFINE failed == [a EXCEPT !.ps = Fail(a.ps, "duplicated_field")]
  <2>1. StepField(fields, a, f) = failed
    BY <1>3 DEF StepField, ParseField
  <2>2. DOMAIN failed = DOMAIN a /\ failed.lboard = a.lboard /\ failed.ps = Fail(a.ps, "duplicated_field")
    BY <1>1
  <2> HIDE DEF failed
  <2>3. Stays(base.ps, failed.ps) /\ failed.ps.error # Ok
    BY <1>1, <2>2, FailFollows, FollowsStays, StaysOn DEF Ok
  <2> QED BY <1>1, <2>1, <2>2, <2>3 DEF HoldsField
<1>4. ASSUME a.ps.error = Ok, name \notin a.found, NEW read, NEW part, Stays(a.ps, read.ps),
             read.ps.error = Ok => /\ name \in TriggerNames => TriggerNew(part, f.def, a.ps)
                                   /\ name = "value" => ValueShaped(part)
                                   /\ name = "progress" => \E v : part = <<v>> /\ ValueShaped(v)
      PROVE  HoldsField(fields, base, k, LboardField(a, name, read, part))
  <2> DEFINE next == LboardField(a, name, read, part)
             l == [a.lboard EXCEPT ![name] = part]
  <2>1. /\ DOMAIN next = {"lboard", "ps", "found"} /\ next.lboard = l /\ next.ps = read.ps
        /\ next.found = a.found \cup {name}
    BY DEF LboardField
  <2> HIDE DEF next
  <2>2. name \in {"start", "cancel", "submit", "value", "progress"}
    BY DEF IsRawField
  <2>3. DOMAIN l = LboardFields /\ l.state = "waiting" /\ l[name] = part
    BY <1>1, <2>2 DEF LboardFields
  <2>4. \A g \in LboardFields : g # name => l[g] = a.lboard[g]
    BY <1>1
  <2> HIDE DEF l
  <2>5. Stays(base.ps, next.ps)
    BY <1>1, <1>4, <2>1, StaysOn
  <2>6. ASSUME next.ps.error = Ok
        PROVE  /\ NamesSoFar(fields, k, next.found)
               /\ PartsSoFar(fields, base.ps, k, l)
               /\ ValuesSoFar(l, next.found)
    <3>1. /\ NamesSoFar(fields, k - 1, a.found) /\ PartsSoFar(fields, base.ps, k - 1, a.lboard)
          /\ ValuesSoFar(a.lboard, a.found)
      BY <1>4 DEF HoldsField
    <3>2. NamesSoFar(fields, k, next.found)
      BY <1>4, <2>1, <3>1, NamesAppend
    <3>3. ASSUME NEW i \in 1..k, fields[i].name \in TriggerNames
          PROVE  TriggerNew(l[fields[i].name], fields[i].def, base.ps)
      <4>1. CASE i = k
        <5>1. TriggerNew(part, f.def, a.ps) /\ a.ps.isValue = base.ps.isValue
          BY <1>1, <1>4, <2>1, <2>6, <3>3, <4>1 DEF Stays
        <5>2. TriggerNew(part, f.def, base.ps)
          BY ONLY <5>1, NewElsewhere
        <5> QED BY <2>3, <4>1, <5>2
      <4>2. CASE i # k
        <5>1. i \in 1..(k - 1)
          BY <4>2
        <5>2. fields[i].name # name
          BY <1>4, <3>1, <5>1 DEF NamesSoFar
        <5>3. l[fields[i].name] = a.lboard[fields[i].name]
          BY <2>4, <3>3, <5>2 DEF TriggerNames, LboardFields
        <5> QED BY <3>1, <3>3, <5>1, <5>3 DEF PartsSoFar
      <4> QED BY <4>1, <4>2
    <3>4. ValuesSoFar(l, next.found)
      <4>1. "value" \in next.found => ValueShaped(l.value)
        BY <1>4, <2>1, <2>3, <2>4, <2>6, <3>1 DEF ValuesSoFar, LboardFields
      <4>2. l.progress = <<>> \/ (l.progress = <<l.progress[1]>> /\ ValueShaped(l.progress[1]))
        <5>1. CASE name = "progress"
          BY <1>4, <2>1, <2>3, <2>6, <5>1
        <5>2. CASE name # "progress"
          <6>1. l.progress = a.lboard.progress
            BY <2>4, <5>2 DEF LboardFields
          <6> QED BY <3>1, <6>1 DEF ValuesSoFar
        <5> QED BY <5>1, <5>2
      <4> QED BY <4>1, <4>2 DEF ValuesSoFar
    <3> QED BY <3>2, <3>3, <3>4 DEF PartsSoFar
  <2>7. HoldsField(fields, base, k, next)
    BY <2>1, <2>3, <2>5, <2>6 DEF HoldsField
  <2> QED BY <2>7 DEF next
<1>5. CASE a.ps.error = Ok /\ name \notin a.found /\ name \in {"value", "progress"}
  <2> DEFINE v == ParseValueInternal(f.def, a.ps)
             part == IF name = "progress" THEN <<v.value>> ELSE v.value
  <2>1. StepField(fields, a, f) = LboardField(a, name, v, part)
    BY <1>5 DEF StepField, ParseField, AddValue
  <2>2. IsRawValue(f.def)
    BY <1>5 DEF IsRawField
  <2>3. ValueParsed(a.ps, v)
    BY <1>1, <2>2, ValueParses
  <2> HIDE DEF v
  <2>4. Stays(a.ps, v.ps) /\ (v.ps.error = Ok => ValueShaped(v.value))
    BY <2>3 DEF ValueParsed
  <2>5. name \notin TriggerNames
    BY <1>5 DEF TriggerNames
  <2>6. name = "value" => part = v.value
    OBVIOUS
  <2>7. name = "progress" => part = <<v.value>>
    OBVIOUS
  <2> HIDE DEF part, name
  <2>8. v.ps.error = Ok => /\ name \in TriggerNames => TriggerNew(part, f.def, a.ps)
                           /\ name = "value" => ValueShaped(part)
                           /\ name = "progress" => \E x : part = <<x>> /\ ValueShaped(x)
    BY <2>4, <2>5, <2>6, <2>7
  <2> QED BY <1>4, <1>5, <2>1, <2>4, <2>8
<1>6. CASE a.ps.error = Ok /\ name \notin a.found /\ name \notin {"value", "progress"}
  <2> DEFINE t == ParseTrigger(f.def, a.ps)
  <2>1. StepField(fields, a, f) = LboardField(a, name, t, t.trigger)
    BY <1>6 DEF StepField, ParseField, AddTrigger
  <2>2. IsRawTrigger(f.def)
    BY <1>6 DEF IsRawField
  <2>3. TriggerParsed(f.def, a.ps, t)
    BY <1>1, <2>2, TriggerParses
  <2> HIDE DEF t
  <2>4. Stays(a.ps, t.ps) /\ (t.ps.error = Ok => TriggerNew(t.trigger, f.def, a.ps))
    BY <2>3 DEF TriggerParsed
  <2> QED BY <1>4, <1>6, <2>1, <2>4
<1> QED BY <1>2, <1>3, <1>5, <1>6

(* The fields of a leaderboard are parsed by a fold. *)
LEMMA FieldFold ==
  ASSUME NEW fields, NEW base
  PROVE  FoldLeft(ParseField, base, fields) = FField!Result(fields, base, fields)
  BY DEF FoldLeft, MapThenFoldSet, FField!Result, FField!Table, FField!Greatest, Max, StepField

(* A leaderboard without fields yet. *)
LEMMA NoLboardFacts ==
  DOMAIN NoLboard = LboardFields /\ NoLboard.state = "waiting" /\ ValuesSoFar(NoLboard, {})
<1>1. DOMAIN NoLboard = LboardFields /\ NoLboard.state = "waiting" /\ NoLboard.progress = <<>>
  BY DEF NoLboard, LboardFields
<1>2. \A l : l.progress = <<>> => ValuesSoFar(l, {})
  BY DEF ValuesSoFar
<1> QED BY <1>1, <1>2

(* A leaderboard that is parsed has each of its triggers from its field. *)
LEMMA LboardParses ==
  ASSUME NEW fields, IsRawLboard(fields), NEW ps, Fine(ps)
  PROVE  LboardParsed(fields, ps, ParseLboard(fields, ps))
<1> DEFINE base == [lboard |-> NoLboard, ps |-> ps, found |-> {}]
           all == FoldLeft(ParseField, base, fields)
           n == Len(fields)
           r == LboardRead(all)
<1>1. ParseLboard(fields, ps) = r
  BY DEF ParseLboard
<1>2. n \in Nat /\ DOMAIN fields = 1..n /\ \A i \in 1..n : IsRawField(fields[i])
  BY ListFacts DEF IsRawLboard
<1>3. HoldsField(fields, base, 0, base)
  <2>1. DOMAIN base = {"lboard", "ps", "found"} /\ base.lboard = NoLboard /\ base.ps = ps /\ base.found = {}
    OBVIOUS
  <2>2. Stays(ps, ps)
    BY FollowsSelf, FollowsStays
  <2>3. 1..0 = {}
    OBVIOUS
  <2>4. NamesSoFar(fields, 0, {}) /\ PartsSoFar(fields, ps, 0, NoLboard)
    BY <2>3 DEF NamesSoFar, PartsSoFar
  <2> HIDE DEF base
  <2> QED BY <2>1, <2>2, <2>4, NoLboardFacts DEF HoldsField
<1>4. base.ps = ps
  OBVIOUS
<1> HIDE DEF base
<1>5. \A k \in 1..n : \A a : HoldsField(fields, base, k - 1, a) => HoldsField(fields, base, k, StepField(fields, a, fields[k]))
  BY <1>2, FieldStep
<1>6. HoldsField(fields, base, n, FField!Result(fields, base, fields))
  BY ONLY <1>2, <1>3, <1>5, FField!FoldKeeps, Induction
<1>7. HoldsField(fields, base, n, all)
  BY <1>6, FieldFold
<1> HIDE DEF all
<1>8. Stays(ps, all.ps) /\ Fine(all.ps) /\ DOMAIN all.lboard = LboardFields /\ all.lboard.state = "waiting"
  BY <1>4, <1>7 DEF HoldsField, Stays
<1>9. Stays(all.ps, Fail(all.ps, "missing_field")) /\ Fail(all.ps, "missing_field").error # Ok
  BY <1>8, FailFollows, FollowsStays DEF Ok
<1>10. CASE all.ps.error = Ok /\ {"start", "cancel", "submit", "value"} \subseteq all.found
  <2>1. r.lboard = all.lboard /\ r.ps = all.ps
    BY <1>10 DEF LboardRead
  <2>2. NamesSoFar(fields, n, all.found) /\ PartsSoFar(fields, ps, n, all.lboard) /\ ValuesShaped(all.lboard)
    BY <1>4, <1>7, <1>10 DEF HoldsField, ValuesSoFar, ValuesShaped
  <2>3. ASSUME NEW f \in TriggerNames
        PROVE  TriggerNew(all.lboard[f], FieldDef(fields, f), ps) /\ IsRawTrigger(FieldDef(fields, f))
    <3>1. f \in all.found
      BY <1>10 DEF TriggerNames
    <3>2. PICK i \in 1..n : fields[i].name = f
      BY <2>2, <3>1 DEF NamesSoFar
    <3> DEFINE j == CHOOSE x \in DOMAIN fields : fields[x].name = f
    <3>3. j \in 1..n /\ fields[j].name = f
      BY <1>2, <3>2
    <3>4. FieldDef(fields, f) = fields[j].def
      BY DEF FieldDef
    <3> HIDE DEF j
    <3>5. IsRawField(fields[j]) /\ fields[j].name \in {"start", "cancel", "submit"}
      BY <1>2, <3>3 DEF TriggerNames
    <3>6. IsRawTrigger(fields[j].def)
      BY <3>5 DEF IsRawField
    <3> QED BY <2>2, <3>3, <3>4, <3>6 DEF PartsSoFar
  <2> QED BY <1>1, <1>8, <2>1, <2>2, <2>3 DEF LboardParsed, LboardNew
<1>11. CASE all.ps.error = Ok /\ ~({"start", "cancel", "submit", "value"} \subseteq all.found)
  <2>1. r.ps = Fail(all.ps, "missing_field")
    BY <1>11 DEF LboardRead
  <2> QED BY <1>1, <1>8, <1>9, <2>1, StaysOn DEF LboardParsed
<1>12. CASE all.ps.error # Ok
  <2>1. r.ps = all.ps
    BY <1>12 DEF LboardRead
  <2> QED BY <1>1, <1>8, <1>12, <2>1 DEF LboardParsed
<1> QED BY <1>10, <1>11, <1>12

(* A new trigger can be evaluated, and what has no target in it counts none. *)
LEMMA NewTriggerShaped ==
  ASSUME NEW t, NEW raw, IsRawTrigger(raw), NEW ps, TriggerNew(t, raw, ps)
  PROVE  TriggerShaped(t)
<1>1. IsGroup(raw.core) /\ IsList(raw.alts) /\ \A i \in DOMAIN raw.alts : IsGroup(raw.alts[i])
  BY DEF IsRawTrigger, IsGroups
<1>2. DOMAIN raw.alts = 1..Len(raw.alts) /\ DOMAIN t.alts = 1..Len(t.alts) /\ IsList(t.alts)
  BY <1>1, ListFacts DEF TriggerNew
<1>3. SetShaped(t.core) /\ \A i \in DOMAIN t.alts : SetShaped(t.alts[i])
  BY <1>1, <1>2, NewShaped DEF TriggerNew
<1> QED BY <1>2, <1>3 DEF TriggerShaped, SetsShaped, TriggerNew

(* A new trigger whose definition has no target counts none. *)
LEMMA NewCountsNone ==
  ASSUME NEW t, NEW raw, IsRawTrigger(raw), NEW ps, TriggerNew(t, raw, ps), ~ps.isValue, ~TriggerCounts(raw)
  PROVE  TriggerCountsNone(t)
<1>1. IsGroup(raw.core) /\ IsList(raw.alts) /\ \A i \in DOMAIN raw.alts : IsGroup(raw.alts[i])
  BY DEF IsRawTrigger, IsGroups
<1>2. ASSUME NEW set, NEW raws, IsGroup(raws), SetNew(set, raws, ps), ~Counts(raws)
      PROVE  CountsNone(set)
  <2>1. DOMAIN raws = 1..Len(raws) /\ DOMAIN set.conds = 1..Len(raws)
    BY <1>2, ListFacts DEF IsGroup, SetNew
  <2>2. \A i \in 1..Len(raws) : set.conds[i].required = RawRequired(raws[i])
    BY <1>2 DEF SetNew, CondNew
  <2> QED BY <1>2, <2>1, <2>2 DEF Counts, CountsNone
<1>3. ~Counts(raw.core) /\ \A i \in 1..Len(raw.alts) : ~Counts(raw.alts[i])
  BY DEF TriggerCounts
<1>4. DOMAIN raw.alts = 1..Len(raw.alts) /\ DOMAIN t.alts = 1..Len(raw.alts)
  BY <1>1, ListFacts DEF TriggerNew
<1>5. CountsNone(t.core)
  BY <1>1, <1>2, <1>3 DEF TriggerNew
<1>6. \A i \in DOMAIN t.alts : CountsNone(t.alts[i])
  BY <1>1, <1>2, <1>3, <1>4 DEF TriggerNew
<1> QED BY <1>5, <1>6 DEF TriggerCountsNone

(* The trigger of a line without a condition. *)
LEMMA NoTriggerFacts == TriggerShaped(NoTrigger) /\ TriggerCountsNone(NoTrigger)
<1>1. DOMAIN NoTrigger = TriggerFields /\ NoTrigger.core = NoGroup /\ NoTrigger.alts = <<>>
  BY DEF NoTrigger, TriggerFields
<1>2. DOMAIN NoGroup = {"conds", "paused"} /\ NoGroup.conds = <<>>
  BY DEF NoGroup
<1>3. SetShaped(NoGroup) /\ CountsNone(NoGroup) /\ SetsShaped(<<>>)
  BY <1>2, EmptyList DEF SetShaped, CountsNone, SetsShaped
<1> QED BY <1>1, <1>3, EmptyList DEF TriggerShaped, TriggerCountsNone

FPart == INSTANCE FoldFacts WITH Op <- StepPart, Holds <- HoldsPart

(* A helper variable more. *)
LEMMA VariablesAppend ==
  ASSUME NEW values, VariablesShaped(values), NEW name, NEW v, ValueShaped(v)
  PROVE  VariablesShaped(Append(values, [name |-> name, value |-> v]))
<1> DEFINE entry == [name |-> name, value |-> v]
           next == Append(values, entry)
<1>1. DOMAIN entry = {"name", "value"} /\ entry.value = v
  OBVIOUS
<1> HIDE DEF entry
<1>2. IsList(values) /\ Len(values) \in Nat /\ DOMAIN values = 1..Len(values)
  BY ListFacts DEF VariablesShaped
<1>3. /\ IsList(next) /\ DOMAIN next = 1..(Len(values) + 1) /\ next[Len(values) + 1] = entry
      /\ \A i \in 1..Len(values) : next[i] = values[i]
  BY <1>2, AppendFacts
<1> HIDE DEF next
<1>4. ASSUME NEW i \in 1..(Len(values) + 1)
      PROVE  DOMAIN next[i] = {"name", "value"} /\ ValueShaped(next[i].value)
  <2>1. CASE i = Len(values) + 1
    BY <1>1, <1>3, <2>1
  <2>2. CASE i \in 1..Len(values)
    BY <1>2, <1>3, <2>2 DEF VariablesShaped
  <2> QED BY <1>2, <2>1, <2>2
<1>5. VariablesShaped(next)
  BY <1>3, <1>4 DEF VariablesShaped
<1> QED BY <1>5 DEF next, entry

(* rc_alloc_helper_variable_memref_value: a value of a display line, a variable when it is no plain reference. *)
LEMMA HelperHolds ==
  ASSUME NEW c, NEW base, NEW k, NEW a, HoldsPart(c, base, k, a), a.ps.error = Ok, NEW def, IsRawValue(def)
  PROVE  HoldsPart(c, base, k, HelperValue(def, a))
<1> DEFINE v == ParseValueInternal(def, a.ps)
           found == \E i \in DOMAIN a.values : a.values[i].name = def
           measured == SelectInSeq(v.value.sets[1].conds, LAMBDA x : x.type = "measured")
           op == v.value.sets[1].conds[measured].op1
           failed == [a EXCEPT !.ps = v.ps]
           simple == [a EXCEPT !.ps = v.ps, !.op = op]
           ps == [v.ps EXCEPT !.target = a.ps.target]
           values == IF found THEN a.values ELSE Append(a.values, [name |-> def, value |-> v.value])
           kept == [a EXCEPT !.ps = ps, !.op = VariableOperand(def), !.values = values]
           r == HelperValue(def, a)
<1>1. r = IF v.ps.error # Ok THEN failed ELSE IF Simple(v.value.sets) THEN simple ELSE kept
  BY DEF HelperValue, HelperRead, HelperOf
<1>2. /\ DOMAIN a = AccFields /\ Stays(base.ps, a.ps) /\ Fine(a.ps)
      /\ a.displays = base.displays /\ a.done = base.done /\ VariablesShaped(a.values)
  BY DEF HoldsPart, Stays
<1>3. ValueParsed(a.ps, v)
  BY <1>2, ValueParses
<1> HIDE DEF r, v
<1>4. Stays(a.ps, v.ps) /\ Stays(base.ps, v.ps) /\ Fine(v.ps) /\ (v.ps.error = Ok => ValueShaped(v.value))
  BY <1>2, <1>3, StaysOn DEF ValueParsed, Stays
<1>5. Stays(v.ps, ps) /\ Stays(base.ps, ps)
  BY <1>4, TargetFollows, FollowsStays, StaysOn
<1>6. v.ps.error = Ok => VariablesShaped(values)
  BY <1>2, <1>4, VariablesAppend
<1> HIDE DEF op, ps, values
<1>7. CASE v.ps.error # Ok
  <2>1. /\ DOMAIN failed = AccFields /\ failed.ps = v.ps /\ failed.displays = a.displays /\ failed.done = a.done
    BY <1>2 DEF AccFields
  <2> HIDE DEF failed
  <2> QED BY <1>1, <1>2, <1>4, <1>7, <2>1 DEF HoldsPart, r
<1>8. CASE v.ps.error = Ok /\ Simple(v.value.sets)
  <2>1. /\ DOMAIN simple = AccFields /\ simple.ps = v.ps /\ simple.displays = a.displays /\ simple.done = a.done
        /\ simple.values = a.values
    BY <1>2 DEF AccFields
  <2> HIDE DEF simple
  <2> QED BY <1>1, <1>2, <1>4, <1>8, <2>1 DEF HoldsPart, r
<1>9. CASE v.ps.error = Ok /\ ~Simple(v.value.sets)
  <2>1. /\ DOMAIN kept = AccFields /\ kept.ps = ps /\ kept.displays = a.displays /\ kept.done = a.done
        /\ kept.values = values
    BY <1>2 DEF AccFields
  <2> HIDE DEF kept
  <2> QED BY <1>1, <1>2, <1>5, <1>6, <1>9, <2>1 DEF HoldsPart, r
<1> QED BY <1>7, <1>8, <1>9

(* A part more of a display line. *)
LEMMA PartStep ==
  ASSUME NEW c, NEW base, NEW j, NEW k, NEW p, p.macro = "text" \/ IsRawValue(p.value), NEW a, HoldsPart(c, base, j, a)
  PROVE  HoldsPart(c, base, k, StepPart(c, a, p))
<1>1. CASE a.ps.error # Ok
  <2>1. StepPart(c, a, p) = a
    BY <1>1 DEF StepPart, ParsePart
  <2> QED BY <2>1 DEF HoldsPart
<1>2. CASE a.ps.error = Ok
  <2> DEFINE shape == PartShape(c, p)
             plain == [a EXCEPT !.op = NoOperand]
             used == IF shape.format \in {"text", "unknown"} THEN plain ELSE HelperValue(p.value, a)
             part == [format |-> shape.format, tree |-> shape.tree, default |-> shape.default, op |-> used.op]
             r == [used EXCEPT !.parts = Append(used.parts, part)]
  <2>1. StepPart(c, a, p) = r
    BY <1>2 DEF StepPart, ParsePart, PartOf, AddPart
  <2>2. HoldsPart(c, base, k, plain)
    <3>1. /\ DOMAIN plain = AccFields /\ plain.ps = a.ps /\ plain.displays = a.displays /\ plain.done = a.done
          /\ plain.values = a.values
      BY DEF HoldsPart, AccFields
    <3> HIDE DEF plain
    <3> QED BY <3>1 DEF HoldsPart
  <2>3. p.macro = "text" => shape.format = "text"
    BY DEF PartShape, Shape
  <2> HIDE DEF shape
  <2>4. HoldsPart(c, base, k, a)
    BY DEF HoldsPart
  <2>5. shape.format \notin {"text", "unknown"} => HoldsPart(c, base, k, HelperValue(p.value, a))
    BY <1>2, <2>3, <2>4, HelperHolds
  <2>6. HoldsPart(c, base, k, used)
    BY <2>2, <2>5
  <2> HIDE DEF used, part
  <2>7. /\ DOMAIN r = DOMAIN used /\ r.ps = used.ps /\ r.displays = used.displays /\ r.done = used.done
        /\ r.values = used.values
    BY <2>6 DEF HoldsPart, AccFields
  <2> HIDE DEF r
  <2> QED BY <2>1, <2>6, <2>7 DEF HoldsPart
<1> QED BY <1>1, <1>2

(* The parts of a display line are parsed by a fold. *)
LEMMA PartFold ==
  ASSUME NEW macros, NEW base, NEW parts
  PROVE  PartsRead(macros, base, parts) = FPart!Result(macros, base, parts)
  BY DEF PartsRead, FoldLeft, MapThenFoldSet, FPart!Result, FPart!Table, FPart!Greatest, Max, StepPart

(* What the parts of a display line are parsed into. *)
LEMMA PartsHold ==
  ASSUME NEW macros, NEW base, DOMAIN base = AccFields, Fine(base.ps), VariablesShaped(base.values),
         NEW parts, IsList(parts), \A i \in DOMAIN parts : parts[i].macro = "text" \/ IsRawValue(parts[i].value),
         NEW k
  PROVE  HoldsPart(macros, base, k, PartsRead(macros, base, parts))
<1> DEFINE n == Len(parts)
<1>1. n \in Nat /\ DOMAIN parts = 1..n
  BY ListFacts
<1>2. HoldsPart(macros, base, 0, base)
  BY FollowsSelf, FollowsStays DEF HoldsPart
<1>3. \A j \in 1..n : \A a : HoldsPart(macros, base, j - 1, a) => HoldsPart(macros, base, j, StepPart(macros, a, parts[j]))
  BY <1>1, PartStep
<1>4. HoldsPart(macros, base, n, FPart!Result(macros, base, parts))
  BY ONLY <1>1, <1>2, <1>3, FPart!FoldKeeps, Induction
<1> QED BY <1>4, PartFold DEF HoldsPart

FDisplay == INSTANCE FoldFacts WITH Op <- StepDisplay, Holds <- HoldsDisplay

(* A display line more. *)
LEMMA LinesAppend ==
  ASSUME NEW lines, LinesShaped(lines), NEW d, LineShaped(d)
  PROVE  LinesShaped(Append(lines, d))
<1> DEFINE next == Append(lines, d)
<1>1. IsList(lines) /\ Len(lines) \in Nat /\ DOMAIN lines = 1..Len(lines)
  BY ListFacts DEF LinesShaped
<1>2. /\ IsList(next) /\ DOMAIN next = 1..(Len(lines) + 1) /\ next[Len(lines) + 1] = d
      /\ \A i \in 1..Len(lines) : next[i] = lines[i]
  BY <1>1, AppendFacts
<1> HIDE DEF next
<1>3. ASSUME NEW i \in 1..(Len(lines) + 1)
      PROVE  LineShaped(next[i])
  <2>1. CASE i = Len(lines) + 1
    BY <1>2, <2>1
  <2>2. CASE i \in 1..Len(lines)
    BY <1>1, <1>2, <2>2 DEF LinesShaped
  <2> QED BY <1>1, <2>1, <2>2
<1>4. LinesShaped(next)
  BY <1>2, <1>3 DEF LinesShaped
<1> QED BY <1>4 DEF next

(* One more line, of a trigger that was parsed or of none. *)
LEMMA DisplayAdded ==
  ASSUME NEW c, NEW base, NEW k, NEW a, DOMAIN a = AccFields, Stays(base.ps, a.ps), VariablesShaped(a.values),
         LinesShaped(a.displays), NEW t, Stays(a.ps, t.ps),
         t.ps.error = Ok => TriggerShaped(t.trigger) /\ (t.ps.hasRequired \/ TriggerCountsNone(t.trigger))
  PROVE  HoldsDisplay(c, base, k, AddDisplay(a, t))
<1> DEFINE line == [parts |-> a.parts, trigger |-> t.trigger, hasRequired |-> t.ps.hasRequired]
           r == [a EXCEPT !.ps = t.ps, !.displays = Append(a.displays, line)]
<1>1. AddDisplay(a, t) = r
  BY DEF AddDisplay
<1>2. DOMAIN line = {"parts", "trigger", "hasRequired"} /\ line.trigger = t.trigger
  OBVIOUS
<1>3. line.hasRequired = t.ps.hasRequired
  OBVIOUS
<1> HIDE DEF line
<1>4. t.ps.error = Ok => LineShaped(line)
  BY <1>2, <1>3 DEF LineShaped
<1>5. t.ps.error = Ok => LinesShaped(Append(a.displays, line))
  BY <1>4, LinesAppend
<1>6. DOMAIN r = AccFields /\ r.ps = t.ps /\ r.values = a.values /\ r.displays = Append(a.displays, line)
  BY DEF AccFields
<1> HIDE DEF r
<1>7. Stays(base.ps, r.ps)
  BY <1>6, StaysOn
<1>8. HoldsDisplay(c, base, k, r)
  BY <1>5, <1>6, <1>7 DEF HoldsDisplay
<1> QED BY <1>1, <1>8

(* rc_parse_richpresence_internal: a display line more. *)
LEMMA DisplayStep ==
  ASSUME NEW c, NEW base, ~base.ps.isValue, NEW j, NEW k, NEW d, IsRawDisplay(d), NEW a, HoldsDisplay(c, base, j, a)
  PROVE  HoldsDisplay(c, base, k, StepDisplay(c, a, d))
<1>1. DOMAIN a = AccFields /\ Stays(base.ps, a.ps) /\ Fine(a.ps) /\ ~a.ps.isValue
  BY DEF HoldsDisplay, Stays
<1>2. CASE a.ps.error # Ok \/ a.done
  <2>1. StepDisplay(c, a, d) = a
    BY <1>2 DEF StepDisplay, ParseDisplay
  <2> QED BY <2>1 DEF HoldsDisplay
<1>3. CASE a.ps.error = Ok /\ ~a.done /\ d.parts = <<>>
  <2> DEFINE failed == [a EXCEPT !.ps = Fail(a.ps, "missing_display_string")]
  <2>1. StepDisplay(c, a, d) = failed
    BY <1>3 DEF StepDisplay, ParseDisplay
  <2>2. DOMAIN failed = AccFields /\ failed.ps = Fail(a.ps, "missing_display_string")
    BY <1>1 DEF AccFields
  <2> HIDE DEF failed
  <2>3. Stays(base.ps, failed.ps) /\ failed.ps.error # Ok
    BY <1>1, <2>2, FailFollows, FollowsStays, StaysOn DEF Ok
  <2> QED BY <2>1, <2>2, <2>3 DEF HoldsDisplay
<1>4. CASE a.ps.error = Ok /\ ~a.done /\ d.parts # <<>>
  <2> DEFINE start == [a EXCEPT !.parts = <<>>]
             b == PartsRead(c, start, d.parts)
             clear == [b.ps EXCEPT !.hasRequired = FALSE]
             plain == [trigger |-> NoTrigger, ps |-> clear]
             t == ParseTrigger(d.def[1], b.ps)
             added == AddDisplay(b, plain)
             last == [added EXCEPT !.done = TRUE]
  <2>1. StepDisplay(c, a, d) = IF b.ps.error # Ok THEN b ELSE IF d.def = <<>> THEN last ELSE AddDisplay(b, t)
    BY <1>4 DEF StepDisplay, ParseDisplay, DisplayOf, PartsRead
  <2>2. /\ DOMAIN start = AccFields /\ start.ps = a.ps /\ start.values = a.values /\ start.displays = a.displays
    BY <1>1 DEF AccFields
  <2> HIDE DEF start
  <2>3. VariablesShaped(a.values) /\ LinesShaped(a.displays)
    BY <1>4 DEF HoldsDisplay
  <2>4. HoldsPart(c, start, k, b)
    BY <1>1, <2>2, <2>3, PartsHold DEF IsRawDisplay
  <2> HIDE DEF b
  <2>5. /\ DOMAIN b = AccFields /\ Stays(base.ps, b.ps) /\ Fine(b.ps) /\ ~b.ps.isValue
        /\ b.displays = a.displays /\ (b.ps.error = Ok => VariablesShaped(b.values))
    <3>1. DOMAIN b = AccFields /\ Stays(a.ps, b.ps) /\ b.displays = a.displays /\ (b.ps.error = Ok => VariablesShaped(b.values))
      BY <2>2, <2>4 DEF HoldsPart
    <3>2. Stays(base.ps, b.ps)
      BY <1>1, <3>1, StaysOn
    <3> QED BY <3>1, <3>2 DEF Stays
  <2>6. CASE b.ps.error # Ok
    <3>1. StepDisplay(c, a, d) = b
      BY <2>1, <2>6
    <3> QED BY <2>5, <2>6, <3>1 DEF HoldsDisplay
  <2>7. CASE b.ps.error = Ok /\ d.def = <<>>
    <3>1. Stays(b.ps, clear)
      <4>1. DOMAIN b.ps = PsFields
        BY <2>5, FineFields
      <4>2. /\ DOMAIN clear = PsFields /\ clear.pool = b.ps.pool /\ clear.indirect = b.ps.indirect
            /\ clear.addsource = b.ps.addsource /\ clear.remember = b.ps.remember
        BY <4>1 DEF PsFields
      <4>3. clear.isValue = b.ps.isValue
        BY <4>1 DEF PsFields
      <4> HIDE DEF clear
      <4> QED BY <2>5, <4>2, <4>3, OtherFlags DEF Stays
    <3>2. plain.ps = clear /\ plain.trigger = NoTrigger
      OBVIOUS
    <3> HIDE DEF plain, clear
    <3>3. HoldsDisplay(c, base, k, added)
      BY <2>3, <2>5, <2>7, <3>1, <3>2, NoTriggerFacts, DisplayAdded
    <3> HIDE DEF added
    <3>4. /\ DOMAIN last = AccFields /\ last.ps = added.ps /\ last.values = added.values /\ last.displays = added.displays
      BY <3>3 DEF HoldsDisplay, AccFields
    <3> HIDE DEF last
    <3>5. StepDisplay(c, a, d) = last
      BY <2>1, <2>7
    <3> QED BY <3>3, <3>4, <3>5 DEF HoldsDisplay
  <2>8. CASE b.ps.error = Ok /\ d.def # <<>>
    <3>1. IsRawTrigger(d.def[1])
      BY <2>8 DEF IsRawDisplay
    <3>2. TriggerParsed(d.def[1], b.ps, t)
      BY <2>5, <3>1, TriggerParses
    <3> HIDE DEF t
    <3>3. /\ Stays(b.ps, t.ps)
          /\ t.ps.error = Ok => TriggerNew(t.trigger, d.def[1], b.ps) /\ (TriggerCounts(d.def[1]) => t.ps.hasRequired)
      BY <3>2 DEF TriggerParsed
    <3>4. t.ps.error = Ok => TriggerShaped(t.trigger) /\ (t.ps.hasRequired \/ TriggerCountsNone(t.trigger))
      BY <2>5, <3>1, <3>3, NewTriggerShaped, NewCountsNone
    <3>5. HoldsDisplay(c, base, k, AddDisplay(b, t))
      BY <2>3, <2>5, <2>8, <3>3, <3>4, DisplayAdded
    <3>6. StepDisplay(c, a, d) = AddDisplay(b, t)
      BY <2>1, <2>8
    <3> QED BY <3>5, <3>6
  <2> QED BY <2>6, <2>7, <2>8
<1> QED BY <1>2, <1>3, <1>4

(* The display lines are parsed by a fold. *)
LEMMA DisplayFold ==
  ASSUME NEW macros, NEW base, NEW displays
  PROVE  DisplaysRead(macros, base, displays) = FDisplay!Result(macros, base, displays)
  BY DEF DisplaysRead, FoldLeft, MapThenFoldSet, FDisplay!Result, FDisplay!Table, FDisplay!Greatest, Max, StepDisplay

(* A script that is parsed. *)
LEMMA RichParses ==
  ASSUME NEW script, IsRawScript(script), NEW ps, Fine(ps), ~ps.isValue
  PROVE  RichParsed(ps, ParseRichPresence(script, ps))
<1> DEFINE lookups == [i \in DOMAIN script.macros |-> ParseLookup(script.macros[i].entries)]
           macros == [i \in DOMAIN script.macros |->
                       [name |-> script.macros[i].name, format |-> script.macros[i].format,
                        tree |-> lookups[i].tree, default |-> script.macros[i].default]]
           bad == \E i \in DOMAIN lookups : ~lookups[i].ok
           first == IF bad THEN Fail(ps, "duplicated_value") ELSE ps
           base == [ps |-> first, values |-> <<>>, displays |-> <<>>, parts |-> <<>>, op |-> NoOperand, done |-> FALSE]
           all == DisplaysRead(macros, base, script.displays)
           n == Len(script.displays)
           r == RichOf(all)
<1>1. ParseRichPresence(script, ps) = r
  BY DEF ParseRichPresence, ParseDisplays, DisplaysRead
<1>2. n \in Nat /\ DOMAIN script.displays = 1..n /\ \A i \in 1..n : IsRawDisplay(script.displays[i])
  BY ListFacts DEF IsRawScript
<1> HIDE DEF macros, bad
<1>3. Stays(ps, first) /\ ~first.isValue
  <2>1. Stays(ps, ps) /\ Stays(ps, Fail(ps, "duplicated_value"))
    BY FollowsSelf, FailFollows, FollowsStays
  <2>2. Stays(ps, first)
    BY <2>1
  <2> HIDE DEF first
  <2> QED BY <2>2 DEF Stays
<1>4. /\ DOMAIN base = AccFields /\ base.ps = first /\ base.values = <<>> /\ base.displays = <<>>
  BY DEF AccFields
<1> HIDE DEF base, first
<1>5. VariablesShaped(<<>>) /\ LinesShaped(<<>>)
  BY EmptyList DEF VariablesShaped, LinesShaped
<1>6. HoldsDisplay(macros, base, 0, base)
  <2>1. Stays(first, first)
    BY <1>3, FollowsSelf, FollowsStays DEF Stays
  <2> QED BY <1>4, <1>5, <2>1 DEF HoldsDisplay
<1>7. \A k \in 1..n : \A a : HoldsDisplay(macros, base, k - 1, a)
                              => HoldsDisplay(macros, base, k, StepDisplay(macros, a, script.displays[k]))
  BY <1>2, <1>3, <1>4, DisplayStep
<1>8. HoldsDisplay(macros, base, n, FDisplay!Result(macros, base, script.displays))
  BY ONLY <1>2, <1>6, <1>7, FDisplay!FoldKeeps, Induction
<1>9. HoldsDisplay(macros, base, n, all)
  BY <1>8, DisplayFold
<1> HIDE DEF all
<1>10. Stays(ps, all.ps) /\ Fine(all.ps) /\ (all.ps.error = Ok => VariablesShaped(all.values) /\ LinesShaped(all.displays))
  <2>1. Stays(first, all.ps) /\ (all.ps.error = Ok => VariablesShaped(all.values) /\ LinesShaped(all.displays))
    BY <1>4, <1>9 DEF HoldsDisplay
  <2> QED BY <1>3, <2>1, StaysOn DEF Stays
<1>11. Stays(ps, Fail(all.ps, "missing_display_string")) /\ Fail(all.ps, "missing_display_string").error # Ok
  BY <1>10, FailFollows, FollowsStays, StaysOn DEF Ok
<1>12. CASE all.ps.error = Ok /\ ~all.done
  <2>1. r.ps = Fail(all.ps, "missing_display_string")
    BY <1>12 DEF RichOf
  <2> HIDE DEF r
  <2> QED BY <1>1, <1>11, <2>1 DEF RichParsed
<1>13. CASE ~(all.ps.error = Ok /\ ~all.done)
  <2>1. r.ps = all.ps /\ r.rich.values = all.values /\ r.rich.displays = all.displays
    BY <1>13 DEF RichOf
  <2> HIDE DEF r
  <2> QED BY <1>1, <1>10, <2>1 DEF RichParsed
<1> QED BY <1>12, <1>13

(* A condition may stay as it is. *)
LEMMA EvolvesSelf ==
  ASSUME NEW c, CondShaped(c)
  PROVE  CondEvolves(c, c)
  BY DEF CondShaped, CondEvolves, SameCondition, HitsCarry

(* A condition with other hits. *)
LEMMA OtherHits ==
  ASSUME NEW c, DOMAIN c = CondFields, NEW hits, NEW d, d = [c EXCEPT !.hits = hits]
  PROVE  SameCondition(c, d) /\ d.hits = hits
<1>1. DOMAIN d = CondFields /\ d.hits = hits
  BY DEF CondFields
<1>2. d.type = c.type /\ d.op1 = c.op1 /\ d.oper = c.oper /\ d.op2 = c.op2 /\ d.required = c.required /\ d.class = c.class
  BY DEF CondFields
<1> QED BY <1>1, <1>2 DEF SameCondition

(* A condition may start over. *)
LEMMA NoHitsEvolves ==
  ASSUME NEW c, NEW d, SameCondition(c, d), d.hits = 0
  PROVE  CondEvolves(c, d)
  BY DEF CondEvolves, HitsCarry

(* Resetting after testing. *)
LEMMA EvolvesReset ==
  ASSUME NEW c, NEW d, CondEvolves(c, d)
  PROVE  CondEvolves(c, [d EXCEPT !.hits = 0])
<1>1. SameCondition(c, d) /\ DOMAIN d = CondFields
  BY DEF CondEvolves, SameCondition
<1> DEFINE e == [d EXCEPT !.hits = 0]
<1>2. /\ DOMAIN e = CondFields /\ e.hits = 0 /\ e.type = d.type /\ e.op1 = d.op1 /\ e.oper = d.oper /\ e.op2 = d.op2
      /\ e.required = d.required /\ e.class = d.class
  BY <1>1 DEF CondFields
<1> HIDE DEF e
<1>3. SameCondition(c, e)
  BY <1>1, <1>2 DEF SameCondition
<1>4. CondEvolves(c, e)
  BY <1>2, <1>3, NoHitsEvolves
<1> QED BY <1>4 DEF e

(* One more hit, or none. *)
LEMMA OneMore ==
  ASSUME NEW c, DOMAIN c = CondFields, NEW test, NEW hits,
         hits = c.hits \/ (hits = c.hits + 1 /\ (c.required = 0 \/ c.hits < c.required)),
         NEW d, d = [c EXCEPT !.isTrue = test, !.hits = hits]
  PROVE  CondEvolves(c, d)
<1>1. DOMAIN d = CondFields /\ d.hits = hits
  BY DEF CondFields
<1>4. d.type = c.type /\ d.op1 = c.op1 /\ d.oper = c.oper /\ d.op2 = c.op2 /\ d.required = c.required /\ d.class = c.class
  BY DEF CondFields
<1>5. SameCondition(c, d)
  BY <1>1, <1>4 DEF SameCondition
<1>2. c.hits \in Nat => hits \in Nat /\ hits <= c.hits + 1
  OBVIOUS
<1>3. c.hits \in Nat /\ c.required \in Nat /\ c.hits <= c.required => hits <= c.required \/ c.required = 0
  OBVIOUS
<1> QED BY ONLY <1>1, <1>2, <1>3, <1>5 DEF CondEvolves, HitsCarry

(* No hits. *)
LEMMA NoneLeft ==
  ASSUME NEW c, DOMAIN c = CondFields, NEW test, NEW d, d = [c EXCEPT !.isTrue = test, !.hits = 0]
  PROVE  CondEvolves(c, d)
<1>1. DOMAIN d = CondFields /\ d.hits = 0
  BY DEF CondFields
<1>2. d.type = c.type /\ d.op1 = c.op1 /\ d.oper = c.oper /\ d.op2 = c.op2 /\ d.required = c.required /\ d.class = c.class
  BY DEF CondFields
<1>3. SameCondition(c, d)
  BY <1>1, <1>2 DEF SameCondition
<1> QED BY <1>1, <1>3, NoHitsEvolves

(* The tally of a condition. *)
LEMMA TallyEvolves ==
  ASSUME NEW c, CondShaped(c), NEW es, NEW test
  PROVE  CondEvolves(c, Tally(c, es, test).c) /\ DOMAIN Tally(c, es, test) = {"c", "ok", "es"}
<1> DEFINE valid == (test /\ es.andNext) \/ es.orNext
           counts == valid /\ (c.required = 0 \/ c.hits < c.required)
           hits == IF counts THEN c.hits + 1 ELSE c.hits
           r == Tally(c, es, test)
<1>1. DOMAIN r = {"c", "ok", "es"}
  BY DEF Tally
<1>2. r.c = [c EXCEPT !.isTrue = test, !.hits = 0] \/ r.c = [c EXCEPT !.isTrue = test, !.hits = hits]
  BY DEF Tally
<1>3. hits = c.hits \/ (hits = c.hits + 1 /\ (c.required = 0 \/ c.hits < c.required))
  OBVIOUS
<1>4. DOMAIN c = CondFields
  BY DEF CondShaped
<1> HIDE DEF hits, r, counts, valid
<1>5. CondEvolves(c, r.c)
  BY <1>2, <1>3, <1>4, OneMore, NoneLeft
<1> QED BY <1>1, <1>5 DEF r

(* What else is noted of a test does not change the condition. *)
LEMMA EvolvedEs ==
  ASSUME NEW c, NEW r, Evolved(c, r), NEW now, DOMAIN now = DOMAIN r, now.c = r.c
  PROVE  Evolved(c, now)
  BY DEF Evolved

(* The evaluation of a condition without a modifier. *)
LEMMA ConditionEvolves ==
  ASSUME NEW c, NEW t, Evolved(c, t)
  PROVE  Evolved(c, EvaluateCondition(t))
<1> DEFINE now == EvaluateCondition(t)
<1>1. DOMAIN now = DOMAIN t /\ now.c = t.c
  BY DEF EvaluateCondition, Evolved
<1> HIDE DEF now
<1> QED BY <1>1, EvolvedEs DEF now

(* A condition that is required. *)
LEMMA RequireEvolves ==
  ASSUME NEW c, NEW t, Evolved(c, t)
  PROVE  Evolved(c, Require(t))
<1> DEFINE now == Require(t)
<1>1. DOMAIN now = DOMAIN t /\ now.c = t.c
  BY DEF Require, Evolved
<1> HIDE DEF now
<1> QED BY <1>1, EvolvedEs DEF now

(* A condition that pauses. *)
LEMMA PauseIfEvolves ==
  ASSUME NEW c, NEW r, Evolved(c, r)
  PROVE  Evolved(c, EvaluatePauseIf(r))
<1> DEFINE paused == [r EXCEPT !.es.paused = TRUE, !.es.isTrue = FALSE, !.es.primed = FALSE, !.es.stop = TRUE]
           clear == [r EXCEPT !.c.hits = 0]
<1>1. DOMAIN r = {"c", "ok", "es"}
  BY DEF Evolved
<1>2. DOMAIN paused = DOMAIN r /\ paused.c = r.c
  BY <1>1
<1>3. DOMAIN clear = DOMAIN r /\ clear.c = [r.c EXCEPT !.hits = 0]
  BY <1>1
<1>4. EvaluatePauseIf(r) = IF r.ok THEN paused ELSE IF r.c.required = 0 THEN clear ELSE r
  BY DEF EvaluatePauseIf
<1> HIDE DEF paused, clear
<1>5. Evolved(c, paused)
  BY <1>2, EvolvedEs
<1>6. Evolved(c, clear)
  BY <1>1, <1>3, EvolvesReset DEF Evolved
<1> QED BY <1>4, <1>5, <1>6

(* A condition that resets. *)
LEMMA ResetIfEvolves ==
  ASSUME NEW c, NEW r, Evolved(c, r)
  PROVE  Evolved(c, EvaluateResetIf(r))
<1> DEFINE stopped == [r EXCEPT !.es.wasReset = TRUE, !.es.isTrue = FALSE, !.es.primed = FALSE, !.es.stop = TRUE]
<1>1. DOMAIN r = {"c", "ok", "es"}
  BY DEF Evolved
<1>2. DOMAIN stopped = DOMAIN r /\ stopped.c = r.c
  BY <1>1
<1>3. EvaluateResetIf(r) = IF r.ok THEN stopped ELSE r
  BY DEF EvaluateResetIf
<1> HIDE DEF stopped
<1> QED BY <1>2, <1>3, EvolvedEs

(* A condition that measures. *)
LEMMA MeasuredEvolves ==
  ASSUME NEW c, NEW t, NEW r, NEW left, Evolved(c, t), Evolved(c, r)
  PROVE  Evolved(c, EvaluateMeasured(t, r, left))
<1> DEFINE a == Require(r)
           plain == [a EXCEPT !.es.measured = left, !.es.fromHits = FALSE]
           total == TotalHits(t.c, t.es)
           ok == total >= t.c.required
           met == [t EXCEPT !.ok = ok]
           b == Require(met)
           value == Unsigned(total)
           counted == [b EXCEPT !.es.measured = value, !.es.fromHits = TRUE, !.es.addHits = 0, !.es.resetNext = FALSE]
<1>1. EvaluateMeasured(t, r, left) = IF t.c.required = 0 THEN plain ELSE counted
  BY DEF EvaluateMeasured, MeasuredHits
<1>2. Evolved(c, a)
  BY RequireEvolves
<1> HIDE DEF a, total, value, ok
<1>3. DOMAIN met = DOMAIN t /\ met.c = t.c
  BY DEF Evolved
<1> HIDE DEF met
<1>4. Evolved(c, b)
  BY <1>3, EvolvedEs, RequireEvolves
<1> HIDE DEF b
<1>5. DOMAIN plain = DOMAIN a /\ plain.c = a.c
  BY <1>2 DEF Evolved
<1>6. DOMAIN counted = DOMAIN b /\ counted.c = b.c
  BY <1>4 DEF Evolved
<1> HIDE DEF plain, counted
<1> QED BY <1>1, <1>2, <1>4, <1>5, <1>6, EvolvedEs

(* A tally that is evaluated by the condition's type. *)
LEMMA TallyMade ==
  ASSUME NEW c, NEW t, NEW r, NEW left, Evolved(c, t), Evolved(c, r), t.c.type \in Flags \ Modifying
  PROVE  Evolved(c, EvaluateTally(t, r, left))
<1> DEFINE q == Require(r)
           trig == [r EXCEPT !.es.isTrue = r.es.isTrue /\ r.ok]
           only == [q EXCEPT !.es.canMeasure = q.es.canMeasure /\ r.ok]
           sum(sign) == [t EXCEPT !.es.addHits = t.es.addHits + sign * t.c.hits, !.es.resetNext = FALSE]
           next1 == [t EXCEPT !.es.resetNext = t.ok]
           next2 == [t EXCEPT !.es.andNext = t.ok]
           next3 == [t EXCEPT !.es.orNext = t.ok]
           out == EvaluateTally(t, r, left)
           p == EvaluatePauseIf(r)
           s == EvaluateResetIf(r)
           m == EvaluateMeasured(t, r, left)
<1>1. Evolved(c, q) /\ Evolved(c, p) /\ Evolved(c, s) /\ Evolved(c, m)
  BY RequireEvolves, PauseIfEvolves, ResetIfEvolves, MeasuredEvolves
<1>2. DOMAIN r = {"c", "ok", "es"} /\ DOMAIN t = {"c", "ok", "es"} /\ DOMAIN q = {"c", "ok", "es"}
  BY <1>1 DEF Evolved
<1> HIDE DEF q
<1>3. /\ DOMAIN trig = DOMAIN r /\ trig.c = r.c
      /\ DOMAIN only = DOMAIN q /\ only.c = q.c
  BY <1>2
<1>4. \A sign : DOMAIN sum(sign) = DOMAIN t /\ sum(sign).c = t.c
  BY <1>2
<1>5. /\ DOMAIN next1 = DOMAIN t /\ next1.c = t.c
      /\ DOMAIN next2 = DOMAIN t /\ next2.c = t.c
      /\ DOMAIN next3 = DOMAIN t /\ next3.c = t.c
  BY <1>2
<1>6. t.c.type \in {"standard", "pause_if", "reset_if", "trigger", "measured", "measured_if", "add_hits", "sub_hits",
                    "reset_next_if", "and_next", "or_next"}
  BY DEF Flags, Modifying, Indirect, Combining
<1>7. out = CASE t.c.type = "standard"      -> q
              [] t.c.type = "pause_if"      -> p
              [] t.c.type = "reset_if"      -> s
              [] t.c.type = "trigger"       -> trig
              [] t.c.type = "measured"      -> m
              [] t.c.type = "measured_if"   -> only
              [] t.c.type = "add_hits"      -> sum(1)
              [] t.c.type = "sub_hits"      -> sum(-1)
              [] t.c.type = "reset_next_if" -> next1
              [] t.c.type = "and_next"      -> next2
              [] t.c.type = "or_next"       -> next3
  BY DEF EvaluateTally, EvaluateHits, q
<1> HIDE DEF out, trig, only, sum, next1, next2, next3, p, s, m
<1>8. Evolved(c, trig) /\ Evolved(c, only) /\ Evolved(c, next1) /\ Evolved(c, next2) /\ Evolved(c, next3)
  BY <1>1, <1>3, <1>5, EvolvedEs
<1>9. Evolved(c, sum(1)) /\ Evolved(c, sum(-1))
  BY <1>4, EvolvedEs
<1>10. \/ out = q \/ out = p \/ out = s \/ out = trig \/ out = m \/ out = only \/ out = sum(1) \/ out = sum(-1)
       \/ out = next1 \/ out = next2 \/ out = next3
  BY <1>6, <1>7
<1>11. Evolved(c, out)
  BY ONLY <1>1, <1>8, <1>9, <1>10
<1> QED BY <1>11 DEF out

(* One condition of a group. *)
LEMMA OneEvolves ==
  ASSUME NEW c, CondShaped(c), NEW es, NEW at
  PROVE  Evolved(c, EvaluateOne(c, es, at))
<1> DEFINE test == TestCondition(c, at)
           left == EvaluateOperand(c.op1, at)
           t == Tally(c, es, test)
           r == EvaluateCondition(t)
           skip == [c |-> c, es |-> es, ok |-> TRUE]
<1>1. EvaluateOne(c, es, at) = IF c.type \in Modifying THEN skip ELSE EvaluateTally(t, r, left)
  BY DEF EvaluateOne, Evaluate
<1> HIDE DEF test, left
<1>2. Evolved(c, skip)
  BY EvolvesSelf DEF Evolved
<1>3. Evolved(c, t)
  BY TallyEvolves DEF Evolved
<1> HIDE DEF t
<1>4. Evolved(c, r)
  BY <1>3, ConditionEvolves
<1>5. t.c.type = c.type /\ c.type \in Flags
  BY <1>3 DEF Evolved, CondEvolves, SameCondition, CondShaped
<1> HIDE DEF r, skip
<1>6. c.type \notin Modifying => Evolved(c, EvaluateTally(t, r, left))
  BY <1>3, <1>4, <1>5, TallyMade
<1> QED BY <1>1, <1>2, <1>6

FPhase == INSTANCE FoldFacts WITH Op <- StepPhase, Holds <- HoldsPhase

(* A condition that evolved keeps its shape. *)
LEMMA EvolvedShaped ==
  ASSUME NEW c, CondShaped(c), NEW d, CondEvolves(c, d)
  PROVE  CondShaped(d) /\ d.class = c.class
  BY DEF CondShaped, CondEvolves, SameCondition

(* And so does its group. *)
LEMMA EvolvedSetShaped ==
  ASSUME NEW set, SetShaped(set), NEW now, SetEvolves(set, now)
  PROVE  SetShaped(now)
<1>1. DOMAIN set.conds = 1..Len(set.conds) /\ DOMAIN now.conds = 1..Len(set.conds)
  BY ListFacts DEF SetShaped, SetEvolves, ListEvolves
<1>2. \A i \in 1..Len(set.conds) : CondShaped(now.conds[i])
  BY <1>1, EvolvedShaped DEF SetShaped, SetEvolves, ListEvolves
<1> QED BY <1>1, <1>2 DEF SetShaped, SetEvolves, ListEvolves

(* Testing a condition whose hits were cleared just before. *)
LEMMA ClearedEvolves ==
  ASSUME NEW c, NEW z, NEW d, SameCondition(c, z), z.hits = 0, CondEvolves(z, d)
  PROVE  CondEvolves(c, d)
<1>1. SameCondition(c, d)
  BY DEF SameCondition, CondEvolves
<1>2. z.hits \in Nat /\ z.required = c.required
  BY DEF SameCondition
<1>3. d.hits \in Nat /\ d.hits <= 0 + 1
  BY <1>2 DEF CondEvolves, HitsCarry
<1>4. c.required \in Nat => d.hits <= c.required \/ c.required = 0
  BY <1>2, <1>3
<1>5. c.hits \in Nat => d.hits <= c.hits + 1
  BY <1>3
<1> QED BY <1>1, <1>3, <1>4, <1>5 DEF CondEvolves, HitsCarry

(* One condition of the phase. *)
LEMMA PhaseStep ==
  ASSUME NEW c, NEW base, IsList(base.conds), \A i \in DOMAIN base.conds : CondShaped(base.conds[i]),
         NEW k \in 1..Len(base.conds), NEW a, HoldsPhase(c, base, k - 1, a)
  PROVE  HoldsPhase(c, base, k, StepPhase(c, a, k))
<1> DEFINE n == Len(base.conds)
           was == base.conds[k]
           r == One(c, a, k)
           put == [conds |-> [a.conds EXCEPT ![k] = r.c], es |-> r.es]
<1>1. n \in Nat /\ DOMAIN base.conds = 1..n /\ k \in 1..n /\ k \in Nat
  BY ListFacts
<1>2. DOMAIN a = {"conds", "es"} /\ IsList(a.conds) /\ Len(a.conds) = n
  BY DEF HoldsPhase, PhaseSoFar
<1>3. \A i \in 1..n : IF i <= k - 1 /\ base.conds[i].class \in {c.class} THEN CondEvolves(base.conds[i], a.conds[i])
                      ELSE a.conds[i] = base.conds[i]
  BY DEF HoldsPhase, PhaseSoFar
<1>4. a.conds[k] = was
  BY <1>1, <1>3
<1>5. CondEvolves(was, r.c) /\ CondEvolves(was, was)
  BY <1>1, <1>4, OneEvolves, EvolvesSelf DEF One, Evolved
<1>6. StepPhase(c, a, k) = IF was.class = c.class /\ ~(c.class = "pause" /\ a.es.stop) THEN put ELSE a
  BY <1>4 DEF StepPhase
<1> DEFINE conds == [a.conds EXCEPT ![k] = r.c]
<1>7. /\ IsList(conds) /\ Len(conds) = n
      /\ \A i \in 1..n : conds[i] = IF i = k THEN r.c ELSE a.conds[i]
  <2> HIDE DEF r
  <2>1. DOMAIN a.conds = 1..n
    BY <1>2, ListFacts
  <2>2. conds = [i \in 1..n |-> conds[i]] /\ \A i \in 1..n : conds[i] = IF i = k THEN r.c ELSE a.conds[i]
    BY <2>1
  <2> HIDE DEF conds, n
  <2> QED BY ONLY <1>1, <2>2, FunctionIsList
<1>8. DOMAIN put = {"conds", "es"} /\ put.conds = conds
  OBVIOUS
<1> HIDE DEF put, r, was, n, conds
<1>9. \A i \in 1..n : i <= k <=> i <= k - 1 \/ i = k
  BY <1>1
<1>10. CASE was.class = c.class /\ ~(c.class = "pause" /\ a.es.stop)
  <2>1. \A i \in 1..n : IF i <= k /\ base.conds[i].class \in {c.class} THEN CondEvolves(base.conds[i], conds[i])
                        ELSE conds[i] = base.conds[i]
    BY <1>1, <1>3, <1>5, <1>7, <1>9, <1>10 DEF was
  <2>2. HoldsPhase(c, base, k, put)
    BY <1>7, <1>8, <2>1 DEF HoldsPhase, PhaseSoFar, n
  <2> QED BY <1>6, <1>10, <2>2
<1>11. CASE ~(was.class = c.class /\ ~(c.class = "pause" /\ a.es.stop))
  <2>1. \A i \in 1..n : IF i <= k /\ base.conds[i].class \in {c.class} THEN CondEvolves(base.conds[i], a.conds[i])
                        ELSE a.conds[i] = base.conds[i]
    BY <1>1, <1>3, <1>4, <1>5, <1>9 DEF was
  <2>2. HoldsPhase(c, base, k, a)
    BY <1>2, <2>1 DEF HoldsPhase, PhaseSoFar, n
  <2> QED BY <1>6, <1>11, <2>2
<1> QED BY <1>10, <1>11

(* A phase is a fold over the places of the group. *)
LEMMA PhaseFold ==
  ASSUME NEW class, NEW run, NEW at
  PROVE  EvaluatePhase(class, run, at) =
           FPhase!Result([class |-> class, at |-> at], run, [i \in DOMAIN run.conds |-> i])
<1>1. ASSUME NEW c
      PROVE  EvaluatePhase(c.class, run, c.at) = FPhase!Result(c, run, [i \in DOMAIN run.conds |-> i])
  BY DEF EvaluatePhase, FoldLeft, MapThenFoldSet, FPhase!Result, FPhase!Table, FPhase!Greatest, Max, StepPhase, One
<1>2. PICK c : c = [class |-> class, at |-> at]
  OBVIOUS
<1>3. c.class = class /\ c.at = at
  BY <1>2
<1> QED BY ONLY <1>1, <1>2, <1>3

(* What a phase does to a group. *)
LEMMA PhaseHolds ==
  ASSUME NEW class, NEW run, NEW at, DOMAIN run = {"conds", "es"}, IsList(run.conds),
         \A i \in DOMAIN run.conds : CondShaped(run.conds[i])
  PROVE  /\ DOMAIN EvaluatePhase(class, run, at) = {"conds", "es"}
         /\ PhaseSoFar(run.conds, {class}, Len(run.conds), EvaluatePhase(class, run, at).conds)
<1> DEFINE c == [class |-> class, at |-> at]
           items == [i \in DOMAIN run.conds |-> i]
           n == Len(run.conds)
<1>1. n \in Nat /\ DOMAIN items = 1..n /\ \A k \in 1..n : items[k] = k
  BY ListFacts
<1>2. c.class = class
  OBVIOUS
<1> HIDE DEF c, items
<1>3. HoldsPhase(c, run, 0, run)
  BY <1>1 DEF HoldsPhase, PhaseSoFar
<1>4. \A k \in 1..n : \A a : HoldsPhase(c, run, k - 1, a) => HoldsPhase(c, run, k, StepPhase(c, a, items[k]))
  BY <1>1, PhaseStep
<1>5. HoldsPhase(c, run, n, FPhase!Result(c, run, items))
  <2> HIDE DEF n
  <2> QED BY ONLY <1>1, <1>3, <1>4, FPhase!FoldKeeps, Induction
<1>6. HoldsPhase(c, run, n, EvaluatePhase(class, run, at))
  BY <1>5, PhaseFold DEF c, items
<1> QED BY <1>2, <1>6 DEF HoldsPhase

FPhases == INSTANCE FoldFacts WITH Op <- StepPhases, Holds <- HoldsPhases

(* Hits a reset is about to clear. *)
LEMMA ClearMeasuredFacts ==
  ASSUME NEW run, DOMAIN run = {"conds", "es"}, AllShaped(run.conds)
  PROVE  LET z == ClearMeasured(run)
         IN  /\ DOMAIN z = {"conds", "es"} /\ AllShaped(z.conds) /\ Len(z.conds) = Len(run.conds)
             /\ \A i \in 1..Len(run.conds) :
                  IF run.conds[i].class = "measured" THEN SameCondition(run.conds[i], z.conds[i]) /\ z.conds[i].hits = 0
                  ELSE z.conds[i] = run.conds[i]
<1> DEFINE z == ClearMeasured(run)
           n == Len(run.conds)
<1>1. n \in Nat /\ DOMAIN run.conds = 1..n /\ \A i \in 1..n : CondShaped(run.conds[i])
  BY ListFacts DEF AllShaped
<1>2. DOMAIN z = {"conds", "es"} /\ z.conds = [i \in 1..n |-> IF run.conds[i].class # "measured" THEN run.conds[i]
                                                               ELSE [run.conds[i] EXCEPT !.hits = 0]]
  BY <1>1 DEF ClearMeasured
<1> HIDE DEF z, n
<1>3. z.conds = [i \in 1..n |-> z.conds[i]]
  BY <1>2
<1>4. IsList(z.conds) /\ Len(z.conds) = n /\ DOMAIN z.conds = 1..n
  BY ONLY <1>1, <1>3, FunctionIsList
<1>5. ASSUME NEW i \in 1..n
      PROVE  /\ CondShaped(z.conds[i])
             /\ IF run.conds[i].class = "measured" THEN SameCondition(run.conds[i], z.conds[i]) /\ z.conds[i].hits = 0
                ELSE z.conds[i] = run.conds[i]
  <2> DEFINE c == run.conds[i]
             d == [c EXCEPT !.hits = 0]
  <2>1. z.conds[i] = IF c.class # "measured" THEN c ELSE d
    BY <1>2
  <2>2. CondShaped(c)
    BY <1>1
  <2> HIDE DEF c
  <2>3. DOMAIN c = CondFields /\ d = [c EXCEPT !.hits = 0]
    BY <2>2 DEF CondShaped
  <2> HIDE DEF d
  <2>4. SameCondition(c, d) /\ d.hits = 0
    BY ONLY <2>3, OtherHits
  <2>5. CondShaped(d)
    BY <2>2, <2>4 DEF CondShaped, SameCondition
  <2> QED BY <2>1, <2>2, <2>4, <2>5 DEF c
<1> QED BY <1>2, <1>4, <1>5 DEF z, n, AllShaped

(* A measured value that is void takes no hit. *)
LEMMA VoidKeeps ==
  ASSUME NEW run, DOMAIN run = {"conds", "es"}
  PROVE  DOMAIN VoidMeasured(run) = {"conds", "es"} /\ VoidMeasured(run).conds = run.conds
<1> DEFINE zero == Unsigned(0)
           void == [run EXCEPT !.es.measured = zero]
<1>1. VoidMeasured(run) = void \/ VoidMeasured(run) = run
  BY DEF VoidMeasured
<1> HIDE DEF zero
<1>2. DOMAIN void = {"conds", "es"} /\ void.conds = run.conds
  OBVIOUS
<1> HIDE DEF void
<1> QED BY <1>1, <1>2

(* Some phase of a group: only the conditions of its class are tested. *)
LEMMA TestPhaseHolds ==
  ASSUME NEW run, DOMAIN run = {"conds", "es"}, AllShaped(run.conds), NEW class, NEW at
  PROVE  /\ DOMAIN TestPhase(run, class, at) = {"conds", "es"}
         /\ PhaseSoFar(run.conds, {class}, Len(run.conds), TestPhase(run, class, at).conds)
<1> DEFINE n == Len(run.conds)
           clears == class = "measured" /\ run.es.wasReset
           start == IF clears THEN ClearMeasured(run) ELSE run
           tested == EvaluatePhase(class, start, at)
           after == IF class = "measured" THEN VoidMeasured(tested) ELSE tested
           r == TestPhase(run, class, at)
<1>1. n \in Nat /\ DOMAIN run.conds = 1..n /\ \A i \in 1..n : CondShaped(run.conds[i])
  BY ListFacts DEF AllShaped
<1>2. r = run \/ r = after
  <2> HIDE DEF tested, start, n
  <2> QED BY DEF TestPhase, tested, start
<1>3. DOMAIN start = {"conds", "es"} /\ AllShaped(start.conds) /\ Len(start.conds) = n
  BY ClearMeasuredFacts
<1>4. \A i \in 1..n : \/ start.conds[i] = run.conds[i]
                      \/ /\ clears /\ run.conds[i].class = "measured"
                         /\ SameCondition(run.conds[i], start.conds[i]) /\ start.conds[i].hits = 0
  BY ClearMeasuredFacts
<1> HIDE DEF start
<1>5. DOMAIN tested = {"conds", "es"} /\ PhaseSoFar(start.conds, {class}, n, tested.conds)
  BY <1>3, PhaseHolds DEF AllShaped
<1> HIDE DEF tested
<1>6. DOMAIN after = {"conds", "es"} /\ after.conds = tested.conds
  BY <1>5, VoidKeeps
<1> HIDE DEF after, r
<1>7. IsList(after.conds) /\ Len(after.conds) = n
  BY <1>3, <1>5, <1>6 DEF PhaseSoFar
<1>8. \A i \in 1..n : IF start.conds[i].class = class THEN CondEvolves(start.conds[i], after.conds[i])
                      ELSE after.conds[i] = start.conds[i]
  <2>1. Len(start.conds) = n
    BY <1>3
  <2> HIDE DEF n
  <2> QED BY <1>1, <1>5, <1>6, <2>1 DEF PhaseSoFar
<1>9. ASSUME NEW i \in 1..n
      PROVE  IF run.conds[i].class = class THEN CondEvolves(run.conds[i], after.conds[i])
             ELSE after.conds[i] = run.conds[i]
  <2>1. CASE start.conds[i] = run.conds[i]
    BY <1>8, <2>1
  <2>2. CASE clears /\ run.conds[i].class = "measured"
             /\ SameCondition(run.conds[i], start.conds[i]) /\ start.conds[i].hits = 0
    <3>1. start.conds[i].class = class /\ run.conds[i].class = class
      BY <2>2 DEF SameCondition
    <3>2. CondEvolves(start.conds[i], after.conds[i])
      BY <1>8, <3>1
    <3> QED BY <2>2, <3>1, <3>2, ClearedEvolves
  <2> QED BY <1>4, <2>1, <2>2
<1>10. PhaseSoFar(run.conds, {class}, n, after.conds)
  BY <1>1, <1>7, <1>9 DEF PhaseSoFar
<1>11. PhaseSoFar(run.conds, {class}, n, run.conds)
  BY <1>1, EvolvesSelf DEF PhaseSoFar, AllShaped
<1> QED BY <1>2, <1>6, <1>10, <1>11 DEF r

(* The classes are told apart. *)
LEMMA PhasesApart ==
  /\ IsList(Phases) /\ Len(Phases) = 5 /\ DOMAIN Phases = 1..5
  /\ \A j, k \in 1..5 : Phases[j] = Phases[k] => j = k
<1>1. DOMAIN Phases = 1..5 /\ IsList(Phases) /\ Len(Phases) = 5
  BY DEF Phases, IsList
<1>2. Phases[1] = "pause" /\ Phases[2] = "reset" /\ Phases[3] = "hittarget" /\ Phases[4] = "measured" /\ Phases[5] = "other"
  BY DEF Phases
<1> QED BY <1>1, <1>2

(* One phase more. *)
LEMMA PhasesStep ==
  ASSUME NEW at, NEW base, AllShaped(base.conds), NEW k \in 1..5, NEW a, HoldsPhases(at, base, k - 1, a)
  PROVE  HoldsPhases(at, base, k, StepPhases(at, a, Phases[k]))
<1> DEFINE n == Len(base.conds)
           done == {Phases[j] : j \in 1..(k - 1)}
           now == {Phases[j] : j \in 1..k}
           class == Phases[k]
           r == TestPhase(a, class, at)
<1>1. n \in Nat /\ DOMAIN base.conds = 1..n /\ \A i \in 1..n : CondShaped(base.conds[i])
  BY ListFacts DEF AllShaped
<1>2. now = done \cup {class} /\ class \notin done
  <2>1. 1..k = (1..(k - 1)) \cup {k} /\ \A j \in 1..(k - 1) : j \in 1..5 /\ j # k
    OBVIOUS
  <2> QED BY <2>1, PhasesApart
<1> HIDE DEF done, now, class
<1>3. DOMAIN a = {"conds", "es"} /\ IsList(a.conds) /\ Len(a.conds) = n
  BY DEF HoldsPhases, PhaseSoFar
<1>4. \A i \in 1..n : IF base.conds[i].class \in done THEN CondEvolves(base.conds[i], a.conds[i])
                      ELSE a.conds[i] = base.conds[i]
  <2>1. PhaseSoFar(base.conds, done, n, a.conds)
    BY DEF HoldsPhases, done
  <2> QED BY <1>1, <2>1 DEF PhaseSoFar
<1>5. \A i \in 1..n : CondShaped(a.conds[i]) /\ a.conds[i].class = base.conds[i].class
  BY <1>1, <1>4, EvolvedShaped
<1>6. AllShaped(a.conds) /\ DOMAIN a.conds = 1..n
  <2>1. DOMAIN a.conds = 1..n
    BY <1>3, ListFacts
  <2> HIDE DEF n
  <2> QED BY <1>3, <1>5, <2>1 DEF AllShaped
<1>7. DOMAIN r = {"conds", "es"} /\ PhaseSoFar(a.conds, {class}, n, r.conds)
  BY <1>3, <1>6, TestPhaseHolds
<1> HIDE DEF r
<1>8. \A i \in 1..n : IF a.conds[i].class = class THEN CondEvolves(a.conds[i], r.conds[i]) ELSE r.conds[i] = a.conds[i]
  <2>1. Len(a.conds) = n
    BY <1>3
  <2> HIDE DEF n
  <2> QED BY <1>1, <1>7, <2>1 DEF PhaseSoFar
<1>9. \A i \in 1..n : IF base.conds[i].class \in now THEN CondEvolves(base.conds[i], r.conds[i])
                      ELSE r.conds[i] = base.conds[i]
  BY <1>2, <1>4, <1>5, <1>8
<1>10. IsList(r.conds) /\ Len(r.conds) = n
  BY <1>3, <1>7 DEF PhaseSoFar
<1>11. PhaseSoFar(base.conds, now, n, r.conds)
  BY <1>1, <1>9, <1>10 DEF PhaseSoFar
<1>12. r = StepPhases(at, a, Phases[k])
  BY DEF r, class, StepPhases
<1> QED BY <1>7, <1>11, <1>12 DEF HoldsPhases, now

(* The phases of a group are a fold. *)
LEMMA PhasesFold ==
  ASSUME NEW run, NEW at
  PROVE  PhasesRun(run, at) = FPhases!Result(at, run, Phases)
  BY DEF PhasesRun, FoldLeft, MapThenFoldSet, FPhases!Result, FPhases!Table, FPhases!Greatest, Max, StepPhases

(* What a test does to a group: each condition evolves. *)
LEMMA CondsetEvolves ==
  ASSUME NEW set, SetShaped(set), NEW es, NEW at
  PROVE  DOMAIN TestCondset(set, es, at) = {"set", "es", "ok"} /\ SetEvolves(set, TestCondset(set, es, at).set)
<1> DEFINE run == [conds |-> set.conds, es |-> NextGroup(es)]
           last == PhasesRun(run, at)
           n == Len(set.conds)
           all == {Phases[j] : j \in 1..5}
<1>1. AllShaped(set.conds) /\ n \in Nat /\ DOMAIN set.conds = 1..n
  BY ListFacts DEF SetShaped, AllShaped
<1>2. DOMAIN run = {"conds", "es"} /\ run.conds = set.conds
  OBVIOUS
<1>3. TestCondset(set, es, at) = CondsetResult(set, last)
  BY DEF TestCondset, PhasesRun
<1> HIDE DEF run
<1>4. HoldsPhases(at, run, 0, run)
  <2>1. 1..0 = {}
    OBVIOUS
  <2>2. PhaseSoFar(run.conds, {}, n, run.conds)
    BY <1>1, <1>2 DEF PhaseSoFar, AllShaped
  <2> HIDE DEF n
  <2> QED BY <1>2, <2>1, <2>2 DEF HoldsPhases, n
<1>5. \A k \in 1..5 : \A a : HoldsPhases(at, run, k - 1, a) => HoldsPhases(at, run, k, StepPhases(at, a, Phases[k]))
  BY <1>1, <1>2, PhasesStep
<1>6. HoldsPhases(at, run, 5, FPhases!Result(at, run, Phases))
  <2>1. 5 \in Nat /\ DOMAIN Phases = 1..5
    BY PhasesApart
  <2> QED BY ONLY <1>4, <1>5, <2>1, FPhases!FoldKeeps, Induction
<1>7. DOMAIN last = {"conds", "es"} /\ PhaseSoFar(set.conds, all, n, last.conds)
  BY <1>2, <1>6, PhasesFold DEF HoldsPhases
<1> HIDE DEF last, all
<1>8. \A i \in 1..n : CondEvolves(set.conds[i], last.conds[i])
  <2>1. \A i \in 1..n : CondEvolves(set.conds[i], set.conds[i])
    BY <1>1, EvolvesSelf DEF AllShaped
  <2>2. \A i \in 1..n : IF set.conds[i].class \in all THEN CondEvolves(set.conds[i], last.conds[i])
                        ELSE last.conds[i] = set.conds[i]
    BY <1>1, <1>7 DEF PhaseSoFar
  <2> QED BY <2>1, <2>2
<1>9. ListEvolves(set.conds, last.conds)
  BY <1>7, <1>8 DEF ListEvolves, PhaseSoFar
<1>10. /\ DOMAIN CondsetResult(set, last) = {"set", "es", "ok"}
       /\ DOMAIN CondsetResult(set, last).set = {"conds", "paused"}
       /\ CondsetResult(set, last).set.conds = last.conds
  BY DEF CondsetResult
<1> QED BY <1>3, <1>9, <1>10 DEF SetEvolves

(* A group that is reset after it was tested. *)
LEMMA ResetAfter ==
  ASSUME NEW set, SetShaped(set), NEW now, SetEvolves(set, now)
  PROVE  SetEvolves(set, ResetCondset(now)) /\ NoHits(ResetCondset(now))
<1> DEFINE z == ResetCondset(now)
           n == Len(set.conds)
<1>1. n \in Nat /\ DOMAIN now.conds = 1..n /\ DOMAIN now = {"conds", "paused"} /\ Len(now.conds) = n
  BY ListFacts DEF SetShaped, SetEvolves, ListEvolves
<1>2. \A i \in 1..n : CondEvolves(set.conds[i], now.conds[i])
  BY DEF SetEvolves, ListEvolves
<1>3. DOMAIN z = {"conds", "paused"} /\ z.conds = [i \in 1..n |-> [now.conds[i] EXCEPT !.hits = 0]]
  BY <1>1 DEF ResetCondset
<1> HIDE DEF z, n
<1>4. z.conds = [i \in 1..n |-> z.conds[i]]
  BY <1>3
<1>5. IsList(z.conds) /\ Len(z.conds) = n
  BY ONLY <1>1, <1>4, FunctionIsList
<1>6. ASSUME NEW i \in 1..n
      PROVE  CondEvolves(set.conds[i], z.conds[i]) /\ z.conds[i].hits = 0
  <2> DEFINE c == set.conds[i]
             d == now.conds[i]
             e == [d EXCEPT !.hits = 0]
  <2>1. CondEvolves(c, d) /\ DOMAIN d = CondFields
    BY <1>2 DEF CondEvolves, SameCondition
  <2>2. z.conds[i] = e
    BY <1>3
  <2> HIDE DEF c, d
  <2>3. CondEvolves(c, [d EXCEPT !.hits = 0])
    BY ONLY <2>1, EvolvesReset
  <2>4. e.hits = 0
    BY <2>1 DEF CondFields
  <2> QED BY <2>2, <2>3, <2>4 DEF c
<1> QED BY <1>3, <1>5, <1>6 DEF z, n, SetEvolves, ListEvolves, NoHits

(* A group is its own successor. *)
LEMMA SetEvolvesSelf ==
  ASSUME NEW set, SetShaped(set)
  PROVE  SetEvolves(set, set)
  BY ListFacts, EvolvesSelf DEF SetShaped, SetEvolves, ListEvolves

(* All the groups are reset. *)
LEMMA ResetAll ==
  ASSUME NEW sets, SetsShaped(sets), NEW now, SetsEvolve(sets, now),
         NEW z, z = [i \in DOMAIN now |-> ResetCondset(now[i])]
  PROVE  SetsEvolve(sets, z) /\ NoHitsIn(z)
<1> DEFINE n == Len(sets)
<1>1. n \in Nat /\ DOMAIN sets = 1..n /\ DOMAIN now = 1..n
  BY ListFacts DEF SetsShaped, SetsEvolve
<1>2. \A i \in 1..n : SetShaped(sets[i]) /\ SetEvolves(sets[i], now[i])
  BY <1>1 DEF SetsShaped, SetsEvolve
<1>3. \A i \in 1..n : z[i] = ResetCondset(now[i])
  BY <1>1
<1>4. z = [i \in 1..n |-> z[i]]
  BY <1>1
<1> HIDE DEF n
<1>5. IsList(z) /\ Len(z) = n
  BY ONLY <1>1, <1>4, FunctionIsList
<1>6. \A i \in 1..n : SetEvolves(sets[i], z[i]) /\ NoHits(z[i])
  BY <1>2, <1>3, ResetAfter
<1> QED BY <1>5, <1>6 DEF n, SetsEvolve, NoHitsIn

(* A trigger that is reset. *)
LEMMA HitcountsReset ==
  ASSUME NEW t, TriggerShaped(t), NEW u, TriggerEvolves(t, u)
  PROVE  /\ TriggerEvolves(t, ResetHitcounts(u)) /\ TriggerNoHits(ResetHitcounts(u))
         /\ ResetHitcounts(u).state = u.state
<1> DEFINE z == ResetHitcounts(u)
           alts == [i \in DOMAIN u.alts |-> ResetCondset(u.alts[i])]
<1>1. DOMAIN u = TriggerFields /\ SetEvolves(t.core, u.core) /\ SetsEvolve(t.alts, u.alts)
  BY DEF TriggerEvolves
<1>2. SetShaped(t.core) /\ SetsShaped(t.alts)
  BY DEF TriggerShaped
<1>3. DOMAIN z = TriggerFields
  BY <1>1 DEF ResetHitcounts
<1>4. z.core = ResetCondset(u.core) /\ z.state = u.state
  BY <1>1 DEF ResetHitcounts, TriggerFields
<1>5. z.alts = alts
  BY <1>1 DEF ResetHitcounts, TriggerFields
<1> HIDE DEF z
<1>6. SetsEvolve(t.alts, alts) /\ NoHitsIn(alts)
  BY <1>1, <1>2, ResetAll
<1> HIDE DEF alts
<1>7. SetEvolves(t.core, z.core) /\ NoHits(z.core)
  BY <1>1, <1>2, <1>4, ResetAfter
<1> QED BY <1>3, <1>4, <1>5, <1>6, <1>7 DEF z, TriggerEvolves, TriggerNoHits

(* And starts over. *)
LEMMA TriggerReset ==
  ASSUME NEW t, TriggerShaped(t), NEW u, TriggerEvolves(t, u)
  PROVE  /\ TriggerEvolves(t, ResetTrigger(u)) /\ TriggerNoHits(ResetTrigger(u))
         /\ ResetTrigger(u).state = "waiting"
<1> DEFINE r == ResetHitcounts(u)
           m == IF u.target # 0 THEN MeasuredUnknown ELSE r.measured
           z == [r EXCEPT !.state = "waiting", !.hasHits = FALSE, !.measured = m]
<1>1. TriggerEvolves(t, r) /\ TriggerNoHits(r)
  BY HitcountsReset
<1>2. ResetTrigger(u) = z
  BY DEF ResetTrigger
<1> HIDE DEF r, m
<1>3. DOMAIN r = TriggerFields
  BY <1>1 DEF TriggerEvolves
<1>4. DOMAIN z = TriggerFields /\ z.state = "waiting" /\ z.core = r.core /\ z.alts = r.alts
  BY <1>3 DEF TriggerFields
<1> HIDE DEF z
<1>5. TriggerEvolves(t, z) /\ TriggerNoHits(z)
  BY <1>1, <1>4 DEF TriggerEvolves, TriggerNoHits
<1> QED BY <1>2, <1>4, <1>5

(* A trigger is its own successor. *)
LEMMA TriggerEvolvesSelf ==
  ASSUME NEW t, TriggerShaped(t)
  PROVE  TriggerEvolves(t, t)
<1>1. \A i \in 1..Len(t.alts) : SetEvolves(t.alts[i], t.alts[i])
  BY ListFacts, SetEvolvesSelf DEF TriggerShaped, SetsShaped
<1> QED BY <1>1, SetEvolvesSelf DEF TriggerShaped, SetsShaped, TriggerEvolves, SetsEvolve

(* What follows from a trigger keeps its shape. *)
LEMMA EvolvedTriggerShaped ==
  ASSUME NEW t, TriggerShaped(t), NEW u, TriggerEvolves(t, u)
  PROVE  TriggerShaped(u)
<1>1. DOMAIN t.alts = 1..Len(t.alts) /\ DOMAIN u.alts = 1..Len(t.alts)
  BY ListFacts DEF TriggerShaped, TriggerEvolves, SetsShaped, SetsEvolve
<1>2. \A i \in 1..Len(t.alts) : SetShaped(u.alts[i])
  BY <1>1, EvolvedSetShaped DEF TriggerShaped, TriggerEvolves, SetsShaped, SetsEvolve
<1> QED BY <1>1, <1>2, EvolvedSetShaped DEF TriggerShaped, TriggerEvolves, SetsShaped, SetsEvolve

FSets == INSTANCE FoldFacts WITH Op <- StepSets, Holds <- HoldsSets

(* One group more. *)
LEMMA SetsStep ==
  ASSUME NEW c, NEW base, NEW k \in Nat, k > 0, SetShaped(c.sets[k]), NEW a, HoldsSets(c, base, k - 1, a)
  PROVE  HoldsSets(c, base, k, StepSets(c, a, c.sets[k]))
<1> DEFINE r == TestCondset(c.sets[k], a.es, c.at)
           results == Append(a.results, r)
           es == r.es
           z == [results |-> results, es |-> es]
<1>1. StepSets(c, a, c.sets[k]) = z
  BY DEF StepSets, StepTests
<1>2. ResultOf(c.sets[k], r)
  BY CondsetEvolves DEF ResultOf
<1> HIDE DEF r
<1>3. IsList(a.results) /\ Len(a.results) = k - 1 /\ \A i \in 1..(k - 1) : ResultOf(c.sets[i], a.results[i])
  BY DEF HoldsSets, HoldsTests
<1>4. IsList(results) /\ Len(results) = k /\ (\A i \in 1..(k - 1) : results[i] = a.results[i]) /\ results[k] = r
  <2>1. (k - 1) + 1 = k
    OBVIOUS
  <2> QED BY <1>3, <2>1, AppendFacts
<1> HIDE DEF results, es
<1>5. \A i \in 1..k : i \in 1..(k - 1) \/ i = k
  OBVIOUS
<1>6. \A i \in 1..k : ResultOf(c.sets[i], results[i])
  BY <1>2, <1>3, <1>4, <1>5
<1>7. DOMAIN z = {"results", "es"} /\ z.results = results
  OBVIOUS
<1> HIDE DEF z
<1> QED BY <1>1, <1>4, <1>6, <1>7 DEF HoldsSets, HoldsTests

(* The groups of a trigger are tested in a fold. *)
LEMMA SetsFold ==
  ASSUME NEW sets, NEW at
  PROVE  /\ TestSets(sets, at) = SetsTested(sets, at).results
         /\ SetsTested(sets, at) = FSets!Result([sets |-> sets, at |-> at], [results |-> <<>>, es |-> NewEval], sets)
<1>1. TestSets(sets, at) = SetsTested(sets, at).results
  BY DEF TestSets, SetsTested, StepTests
<1>2. SetsTested(sets, at) = FSets!Result([sets |-> sets, at |-> at], [results |-> <<>>, es |-> NewEval], sets)
  BY DEF SetsTested, FoldLeft, MapThenFoldSet, FSets!Result, FSets!Table, FSets!Greatest, Max, StepSets
<1> QED BY <1>1, <1>2

(* Every group is tested. *)
LEMMA SetsEvolved ==
  ASSUME NEW sets, SetsShaped(sets), NEW at
  PROVE  /\ IsList(TestSets(sets, at)) /\ Len(TestSets(sets, at)) = Len(sets)
         /\ \A i \in 1..Len(sets) : ResultOf(sets[i], TestSets(sets, at)[i])
<1> DEFINE c == [sets |-> sets, at |-> at]
           base == [results |-> <<>>, es |-> NewEval]
           n == Len(sets)
<1>1. n \in Nat /\ DOMAIN sets = 1..n /\ c.sets = sets
  BY ListFacts DEF SetsShaped
<1>2. SetsTested(sets, at) = FSets!Result(c, base, sets)
  BY SetsFold
<1>3. HoldsSets(c, base, 0, base)
  BY EmptyList DEF HoldsSets, HoldsTests
<1> HIDE DEF c, base, n
<1>4. \A k \in 1..n : \A a : HoldsSets(c, base, k - 1, a) => HoldsSets(c, base, k, StepSets(c, a, sets[k]))
  <2> SUFFICES ASSUME NEW k \in 1..n, NEW a, HoldsSets(c, base, k - 1, a)
               PROVE  HoldsSets(c, base, k, StepSets(c, a, sets[k]))
    OBVIOUS
  <2>1. k \in Nat /\ k > 0 /\ SetShaped(c.sets[k])
    BY <1>1 DEF SetsShaped
  <2> QED BY <1>1, <2>1, SetsStep
<1>5. HoldsSets(c, base, n, FSets!Result(c, base, sets))
  BY ONLY <1>1, <1>3, <1>4, FSets!FoldKeeps, Induction
<1>6. HoldsSets(c, base, n, SetsTested(sets, at))
  BY <1>2, <1>5
<1> QED BY <1>1, <1>6, SetsFold DEF HoldsSets, HoldsTests, n

(* What the groups leave of a trigger. *)
LEMMA OutcomeEvolves ==
  ASSUME NEW t, TriggerShaped(t), NEW core, SetEvolves(t.core, core.set), NEW alts, IsList(alts),
         Len(alts) = Len(t.alts), \A i \in 1..Len(alts) : SetEvolves(t.alts[i], alts[i].set)
  PROVE  /\ TriggerEvolves(t, GroupsOutcome(t, core, alts).trigger)
         /\ GroupsOutcome(t, core, alts).trigger.state = t.state
<1> DEFINE sets == [i \in DOMAIN alts |-> alts[i].set]
           set == core.set
           u == [t EXCEPT !.core = set, !.alts = sets]
           n == Len(alts)
<1>1. GroupsOutcome(t, core, alts).trigger = u
  BY DEF GroupsOutcome
<1>2. n \in Nat /\ DOMAIN alts = 1..n
  BY ListFacts
<1>3. sets = [i \in 1..n |-> sets[i]] /\ \A i \in 1..n : sets[i] = alts[i].set
  BY <1>2
<1> HIDE DEF sets, set, n
<1>4. IsList(sets) /\ Len(sets) = n
  BY ONLY <1>2, <1>3, FunctionIsList
<1>5. DOMAIN u = TriggerFields /\ u.core = set /\ u.alts = sets /\ u.state = t.state
  BY DEF TriggerShaped, TriggerFields
<1> HIDE DEF u
<1>6. TriggerEvolves(t, u)
  BY <1>3, <1>4, <1>5 DEF TriggerEvolves, SetsEvolve, n, set
<1> QED BY <1>1, <1>5, <1>6

(* The groups of a trigger, tested. *)
LEMMA GroupsEvolve ==
  ASSUME NEW t, TriggerShaped(t), NEW at
  PROVE  TriggerEvolves(t, TestGroups(t, at).trigger) /\ TestGroups(t, at).trigger.state = t.state
<1> DEFINE sets == <<t.core>> \o t.alts
           results == TestSets(sets, at)
           n == Len(t.alts)
<1>1. SetShaped(t.core) /\ SetsShaped(t.alts) /\ IsList(t.alts)
  BY DEF TriggerShaped, SetsShaped
<1>2. n \in Nat /\ DOMAIN t.alts = 1..n
  BY <1>1, ListFacts
<1>3. IsList(sets) /\ Len(sets) = n + 1 /\ DOMAIN sets = 1..(n + 1) /\ sets[1] = t.core /\ \A i \in 1..n : sets[i + 1] = t.alts[i]
  BY <1>1, ConsFacts
<1>4. TestGroups(t, at) = GroupsOutcome(t, Head(results), Tail(results))
  BY DEF TestGroups, Outcome
<1> HIDE DEF sets, results, n
<1>5. SetsShaped(sets)
  <2>1. \A i \in 1..(n + 1) : i = 1 \/ (i - 1 \in 1..n /\ (i - 1) + 1 = i)
    BY <1>2
  <2>2. \A i \in 1..(n + 1) : SetShaped(sets[i])
    BY <1>1, <1>2, <1>3, <2>1 DEF SetsShaped
  <2> QED BY <1>3, <2>2 DEF SetsShaped
<1>6. IsList(results) /\ Len(results) = n + 1 /\ \A i \in 1..(n + 1) : ResultOf(sets[i], results[i])
  BY <1>3, <1>5, SetsEvolved DEF results
<1>7. results # <<>>
  BY <1>2, <1>6
<1> DEFINE core == Head(results)
           alts == Tail(results)
<1>8. core = results[1] /\ IsList(alts) /\ Len(alts) = n /\ \A i \in 1..n : alts[i] = results[i + 1]
  <2>1. (n + 1) - 1 = n
    BY <1>2
  <2> QED BY <1>6, <1>7, <2>1, HeadTailFacts
<1> HIDE DEF core, alts
<1>9. SetEvolves(t.core, core.set)
  <2>1. 1 \in 1..(n + 1)
    BY <1>2
  <2> QED BY <1>3, <1>6, <1>8, <2>1 DEF ResultOf
<1>10. \A i \in 1..n : SetEvolves(t.alts[i], alts[i].set)
  <2>1. \A i \in 1..n : i + 1 \in 1..(n + 1)
    BY <1>2
  <2> QED BY <1>3, <1>6, <1>8, <2>1 DEF ResultOf
<1>11. Len(alts) = Len(t.alts) /\ \A i \in 1..Len(alts) : SetEvolves(t.alts[i], alts[i].set)
  BY <1>8, <1>10 DEF n
<1>12. TestGroups(t, at) = GroupsOutcome(t, core, alts)
  BY <1>4 DEF core, alts
<1> QED BY <1>8, <1>9, <1>11, <1>12, OutcomeEvolves

(* A trigger in another state. *)
LEMMA OtherState ==
  ASSUME NEW t, NEW u, TriggerEvolves(t, u), NEW v, DOMAIN v = TriggerFields, v.core = u.core, v.alts = u.alts
  PROVE  TriggerEvolves(t, v)
  BY DEF TriggerEvolves

(* What is made of the groups' verdict. *)
LEMMA ResultMoves ==
  ASSUME NEW t, TriggerShaped(t), TriggerStateActive(t.state), NEW g,
         NEW u, TriggerEvolves(t, u), u.state = t.state
  PROVE  TriggerMoved(t, TriggerResult(t, g, u))
<1> DEFINE cleared == ResetHitcounts(u)
           started == ResetTrigger(u)
           reset == g.es.wasReset
           kept == IF cleared.state = "primed" THEN "active" ELSE cleared.state
           untold == [cleared EXCEPT !.hasHits = FALSE, !.state = kept]
           met == [u EXCEPT !.state = "triggered"]
           state == CASE g.paused -> "paused" [] g.primed /\ ~reset -> "primed" [] OTHER -> "active"
           base == IF reset THEN cleared ELSE u
           has == g.es.hasHits /\ ~reset
           rest == [base EXCEPT !.hasHits = has, !.state = state]
           told == IF g.es.wasCondReset THEN "reset" ELSE state
           r == TriggerResult(t, g, u)
           r1 == [trigger |-> untold, result |-> "reset"]
           r2 == [trigger |-> started, result |-> "waiting"]
           r3 == [trigger |-> met, result |-> "triggered"]
           r4 == [trigger |-> rest, result |-> told]
<1>1. \/ r = r1 \/ r = r2 \/ r = r4
      \/ r = r3 /\ t.state # "waiting"
  <2> HIDE DEF r1, r2, r4
  <2> QED BY DEF TriggerResult, r1, r2, r4
<1>2. TriggerEvolves(t, cleared) /\ cleared.state = t.state
  BY HitcountsReset
<1>3. TriggerEvolves(t, started) /\ started.state = "waiting"
  BY TriggerReset
<1> HIDE DEF cleared, started
<1>4. DOMAIN u = TriggerFields /\ DOMAIN cleared = TriggerFields
  BY <1>2 DEF TriggerEvolves
<1>5. kept \in LiveStates \cup {t.state} /\ kept # "triggered"
  BY <1>2 DEF LiveStates, TriggerStateActive
<1>6. DOMAIN untold = TriggerFields /\ untold.state = kept /\ untold.core = cleared.core /\ untold.alts = cleared.alts
  <2> HIDE DEF kept
  <2> QED BY <1>4 DEF TriggerFields
<1>7. DOMAIN met = TriggerFields /\ met.state = "triggered" /\ met.core = u.core /\ met.alts = u.alts
  BY <1>4 DEF TriggerFields
<1>8. state \in {"paused", "primed", "active"}
  OBVIOUS
<1>9. TriggerEvolves(t, base) /\ DOMAIN base = TriggerFields
  BY <1>2, <1>4
<1> HIDE DEF base, state, has
<1>10. DOMAIN rest = TriggerFields /\ rest.state = state /\ rest.core = base.core /\ rest.alts = base.alts
  BY <1>9 DEF TriggerFields
<1> HIDE DEF untold, met, rest, kept
<1>11. TriggerEvolves(t, untold) /\ TriggerEvolves(t, met) /\ TriggerEvolves(t, rest)
  BY <1>2, <1>6, <1>7, <1>9, <1>10, OtherState
<1>12. TriggerMoved(t, r1)
  BY <1>5, <1>6, <1>11 DEF TriggerMoved, NewState
<1>13. TriggerMoved(t, r2)
  BY <1>3 DEF TriggerMoved, NewState, LiveStates
<1>14. t.state # "waiting" => TriggerMoved(t, r3)
  BY <1>7, <1>11 DEF TriggerMoved, NewState, LiveStates
<1>15. TriggerMoved(t, r4)
  <2>1. told = "reset" \/ told = state
    OBVIOUS
  <2> HIDE DEF told
  <2>2. r4.trigger = rest /\ r4.result = told
    OBVIOUS
  <2> HIDE DEF r4
  <2>3. rest.state \in LiveStates /\ NewState(r4) # "triggered"
    BY <1>8, <1>10, <2>1, <2>2 DEF LiveStates, NewState
  <2> QED BY <1>11, <2>2, <2>3 DEF TriggerMoved
<1> HIDE DEF r1, r2, r3, r4, r
<1>16. TriggerMoved(t, r)
  BY <1>1, <1>12, <1>13, <1>14, <1>15
<1> QED BY <1>16 DEF r

(* A frame of a trigger. *)
LEMMA TriggerMoves ==
  ASSUME NEW t, TriggerShaped(t), NEW at
  PROVE  TriggerMoved(t, EvaluateTrigger(t, at))
<1> DEFINE g == TestGroups(t, at)
           m == MeasuredAfter(g)
           u == [g.trigger EXCEPT !.measured = m]
           off == [trigger |-> t, result |-> "inactive"]
           r == TriggerResult(t, g, u)
<1>1. EvaluateTrigger(t, at) = IF TriggerStateActive(t.state) THEN r ELSE off
  BY DEF EvaluateTrigger, Resulting
<1>2. TriggerEvolves(t, g.trigger) /\ g.trigger.state = t.state
  BY GroupsEvolve
<1> HIDE DEF g, m
<1>3. DOMAIN u = TriggerFields /\ u.core = g.trigger.core /\ u.alts = g.trigger.alts /\ u.state = t.state
  BY <1>2 DEF TriggerEvolves, TriggerFields
<1> HIDE DEF u
<1>4. TriggerEvolves(t, u)
  BY <1>2, <1>3, OtherState
<1>5. TriggerStateActive(t.state) => TriggerMoved(t, r)
  BY <1>3, <1>4, ResultMoves
<1>6. TriggerMoved(t, off)
  BY TriggerEvolvesSelf DEF TriggerMoved, NewState
<1> HIDE DEF r, off
<1> QED BY <1>1, <1>5, <1>6

(* A trigger tested as if it were active. *)
LEMMA TestMoves ==
  ASSUME NEW t, TriggerShaped(t), NEW at
  PROVE  /\ TriggerEvolves(t, TestTrigger(t, at).trigger)
         /\ TestTrigger(t, at).trigger.state \in LiveStates
<1> DEFINE a == [t EXCEPT !.state = "active"]
           r == EvaluateTrigger(a, at)
<1>1. DOMAIN a = TriggerFields /\ a.core = t.core /\ a.alts = t.alts /\ a.state = "active"
  BY DEF TriggerShaped, TriggerFields
<1>2. TestTrigger(t, at).trigger = r.trigger
  BY DEF TestTrigger, Tested
<1> HIDE DEF a
<1>3. TriggerShaped(a)
  BY <1>1 DEF TriggerShaped
<1>4. TriggerMoved(a, r)
  BY <1>3, TriggerMoves
<1> HIDE DEF r
<1>5. TriggerEvolves(t, r.trigger) /\ r.trigger.state \in LiveStates
  BY <1>1, <1>4 DEF TriggerMoved, TriggerEvolves, LiveStates
<1> QED BY <1>2, <1>5

(* A value is its own successor, and what follows from it keeps its shape. *)
LEMMA ValueEvolvesSelf ==
  ASSUME NEW v, ValueShaped(v)
  PROVE  ValueEvolves(v, v)
<1>1. \A i \in 1..Len(v.sets) : SetEvolves(v.sets[i], v.sets[i])
  BY ListFacts, SetEvolvesSelf DEF ValueShaped, SetsShaped
<1> QED BY <1>1 DEF ValueShaped, ValueEvolves, SetsShaped, SetsEvolve

(* The groups of a value or of a trigger keep their shape. *)
LEMMA EvolvedSetsShaped ==
  ASSUME NEW sets, SetsShaped(sets), NEW now, SetsEvolve(sets, now)
  PROVE  SetsShaped(now)
<1>1. DOMAIN sets = 1..Len(sets) /\ DOMAIN now = 1..Len(sets)
  BY ListFacts DEF SetsShaped, SetsEvolve
<1>2. \A i \in 1..Len(sets) : SetShaped(now[i])
  BY <1>1, EvolvedSetShaped DEF SetsShaped, SetsEvolve
<1> QED BY <1>1, <1>2 DEF SetsShaped, SetsEvolve

(* And so does a value. *)
LEMMA EvolvedValueShaped ==
  ASSUME NEW v, ValueShaped(v), NEW u, ValueEvolves(v, u)
  PROVE  ValueShaped(u)
<1>1. SetsShaped(u.sets)
  BY EvolvedSetsShaped DEF ValueShaped, ValueEvolves
<1>2. DOMAIN u.sets = DOMAIN v.sets
  BY <1>1, ListFacts DEF ValueShaped, ValueEvolves, SetsEvolve, SetsShaped
<1> QED BY <1>1, <1>2 DEF ValueShaped, ValueEvolves

(* A value starts over. *)
LEMMA ValueReset ==
  ASSUME NEW v, ValueShaped(v)
  PROVE  ValueEvolves(v, ResetValue(v)) /\ NoHitsIn(ResetValue(v).sets)
<1> DEFINE sets == [i \in DOMAIN v.sets |-> ResetCondset(v.sets[i])]
           cell == [v.cell EXCEPT !.value = Zero, !.prior = Zero, !.changed = FALSE]
           z == [v EXCEPT !.sets = sets, !.cell = cell]
<1>1. ResetValue(v) = z
  BY DEF ResetValue
<1>2. SetsEvolve(v.sets, v.sets) /\ SetsShaped(v.sets) /\ DOMAIN v = {"sets", "cell"}
  BY ValueEvolvesSelf DEF ValueEvolves, ValueShaped
<1>3. SetsEvolve(v.sets, sets) /\ NoHitsIn(sets)
  BY <1>2, ResetAll
<1> HIDE DEF sets, cell
<1>4. DOMAIN z = {"sets", "cell"} /\ z.sets = sets
  BY <1>2
<1> HIDE DEF z
<1> QED BY <1>1, <1>3, <1>4 DEF ValueEvolves

(* A group of a value after the frame: reset, if it is to be. *)
LEMMA ValueGroups ==
  ASSUME NEW v, ValueShaped(v), NEW results, DOMAIN results = DOMAIN v.sets,
         \A i \in DOMAIN v.sets : SetEvolves(v.sets[i], results[i].set)
  PROVE  ValueEvolves(v, ValueResult(v, results).value)
<1> DEFINE after(r) == IF r.es.wasReset /\ ~r.set.paused THEN ResetCondset(r.set) ELSE r.set
           sets == [i \in DOMAIN results |-> after(results[i])]
           u == [v EXCEPT !.sets = sets]
           n == Len(v.sets)
<1>1. ValueResult(v, results).value = u
  BY DEF ValueResult
<1>2. n \in Nat /\ DOMAIN v.sets = 1..n /\ DOMAIN v = {"sets", "cell"} /\ \A i \in 1..n : SetShaped(v.sets[i])
  BY ListFacts DEF ValueShaped, SetsShaped
<1>3. sets = [i \in 1..n |-> sets[i]] /\ \A i \in 1..n : sets[i] = after(results[i])
  BY <1>2
<1> HIDE DEF sets, n
<1>4. IsList(sets) /\ Len(sets) = n
  BY ONLY <1>2, <1>3, FunctionIsList
<1>5. ASSUME NEW i \in 1..n
      PROVE  SetEvolves(v.sets[i], sets[i])
  <2>1. SetEvolves(v.sets[i], results[i].set) /\ SetShaped(v.sets[i])
    BY <1>2
  <2>2. SetEvolves(v.sets[i], ResetCondset(results[i].set))
    BY <2>1, ResetAfter
  <2> QED BY <1>3, <2>1, <2>2
<1>6. DOMAIN u = {"sets", "cell"} /\ u.sets = sets
  BY <1>2
<1> HIDE DEF u
<1> QED BY <1>1, <1>4, <1>5, <1>6 DEF ValueEvolves, SetsEvolve, n

(* A frame of a value. *)
LEMMA TypedEvolves ==
  ASSUME NEW v, ValueShaped(v), NEW at
  PROVE  ValueEvolves(v, EvaluateValueTyped(v, at).value)
<1> DEFINE results == [i \in DOMAIN v.sets |-> TestCondset(v.sets[i], NewEval, at)]
<1>1. EvaluateValueTyped(v, at) = ValueResult(v, results)
  BY DEF EvaluateValueTyped
<1>2. DOMAIN results = DOMAIN v.sets /\ \A i \in DOMAIN v.sets : results[i] = TestCondset(v.sets[i], NewEval, at)
  OBVIOUS
<1> HIDE DEF results
<1>3. \A i \in DOMAIN v.sets : SetEvolves(v.sets[i], results[i].set)
  BY <1>2, CondsetEvolves DEF ValueShaped, SetsShaped
<1> QED BY <1>1, <1>2, <1>3, ValueGroups

(* The last value is kept while nothing is measured. *)
LEMMA ValueMoves ==
  ASSUME NEW v, ValueShaped(v), NEW at
  PROVE  ValueEvolves(v, EvaluateValue(v, at).value)
<1> DEFINE r == EvaluateValueTyped(v, at)
           u == r.value
           now == IF r.valid THEN Convert(r.result, "unsigned").num ELSE r.value.cell.value[1]
           cell == UpdateCell(u.cell, <<now, 1>>)
           z == [u EXCEPT !.cell = cell]
<1>1. EvaluateValue(v, at).value = z \/ EvaluateValue(v, at).value = u
  BY DEF EvaluateValue, ValueNow, KeepValue
<1>2. ValueEvolves(v, u)
  BY TypedEvolves
<1> HIDE DEF u, now, cell, r
<1>3. DOMAIN z = DOMAIN u /\ z.sets = u.sets
  BY <1>2 DEF ValueEvolves
<1> HIDE DEF z
<1>4. ValueEvolves(v, z)
  BY <1>2, <1>3 DEF ValueEvolves
<1> QED BY <1>1, <1>2, <1>4

(* Groups that had no hits have one at most after a test. *)
LEMMA FirstHits ==
  ASSUME NEW sets, NoHitsIn(sets), NEW now, SetsEvolve(sets, now)
  PROVE  AtMostOne(now)
<1> SUFFICES ASSUME NEW i \in 1..Len(now), NEW j \in 1..Len(now[i].conds)
             PROVE  now[i].conds[j].hits <= 1
  BY DEF AtMostOne
<1> DEFINE c == sets[i].conds[j]
           d == now[i].conds[j]
<1>1. CondEvolves(c, d)
  BY DEF SetsEvolve, SetEvolves, ListEvolves
<1>2. c.hits = 0
  BY DEF SetsEvolve, SetEvolves, ListEvolves, NoHitsIn, NoHits
<1> HIDE DEF c, d
<1>3. d.hits <= 0 + 1 /\ d.hits \in Nat
  BY <1>1, <1>2 DEF CondEvolves, HitsCarry
<1>4. d.hits <= 1
  BY <1>3
<1> QED BY <1>4 DEF d

(* No hit is one at most. *)
LEMMA NoneIsOne ==
  ASSUME NEW sets, NoHitsIn(sets)
  PROVE  AtMostOne(sets)
  BY DEF AtMostOne, NoHitsIn, NoHits

(* The values of a leaderboard start over. *)
LEMMA ValuesReset ==
  ASSUME NEW l, DOMAIN l = LboardFields, ValuesShaped(l)
  PROVE  LET u == ResetValues(l)
         IN  /\ DOMAIN u = LboardFields /\ u.state = l.state /\ \A f \in TriggerNames : u[f] = l[f]
             /\ ValuesShaped(u) /\ NoHitsIn(u.value.sets)
<1> DEFINE p == ResetProgress(l)
           v == ResetValue(l.value)
           u == ResetValues(l)
           z == [l EXCEPT !.value = v, !.progress = p]
<1>1. u = z
  BY DEF ResetValues
<1>2. ValueShaped(v) /\ NoHitsIn(v.sets)
  BY ValueReset, EvolvedValueShaped DEF ValuesShaped
<1>3. p = <<>> \/ (p = <<p[1]>> /\ ValueShaped(p[1]))
  <2>1. CASE l.progress = <<>>
    BY <2>1 DEF ResetProgress
  <2>2. CASE l.progress # <<>>
    <3>1. PICK w : l.progress = <<w>> /\ ValueShaped(w)
      BY <2>2 DEF ValuesShaped
    <3>2. l.progress[1] = w
      BY <3>1
    <3> DEFINE x == ResetValue(l.progress[1])
    <3>3. p = <<x>>
      BY <2>2 DEF ResetProgress
    <3>4. ValueShaped(x)
      BY <3>1, <3>2, ValueReset, EvolvedValueShaped
    <3> HIDE DEF x, p
    <3>5. p[1] = x
      BY <3>3
    <3> QED BY <3>3, <3>4, <3>5
  <2> QED BY <2>1, <2>2
<1> HIDE DEF p, v
<1>4. DOMAIN z = LboardFields /\ z.state = l.state /\ z.value = v /\ z.progress = p
  BY DEF LboardFields
<1>5. z["start"] = l["start"] /\ z["cancel"] = l["cancel"] /\ z["submit"] = l["submit"]
  BY DEF LboardFields
<1> HIDE DEF u, z
<1>6. \A f \in TriggerNames : z[f] = l[f]
  BY <1>5 DEF TriggerNames
<1>7. ValuesShaped(z)
  <2>1. \A y : y.progress = p /\ ValueShaped(y.value) => ValuesShaped(y)
    BY <1>3 DEF ValuesShaped
  <2> QED BY <1>2, <1>4, <2>1
<1> QED BY <1>1, <1>2, <1>4, <1>6, <1>7 DEF u

(* A leaderboard in another state. *)
LEMMA BoardState ==
  ASSUME NEW l, DOMAIN l = LboardFields, NEW state, NEW u, u = [l EXCEPT !.state = state]
  PROVE  /\ DOMAIN u = LboardFields /\ u.state = state /\ u.value = l.value /\ u.progress = l.progress
         /\ \A f \in TriggerNames : u[f] = l[f]
<1>1. DOMAIN u = LboardFields /\ u.state = state /\ u.value = l.value /\ u.progress = l.progress
  BY DEF LboardFields
<1>2. u["start"] = l["start"] /\ u["cancel"] = l["cancel"] /\ u["submit"] = l["submit"]
  BY DEF LboardFields
<1> QED BY <1>1, <1>2 DEF TriggerNames

(* The switch on the three triggers. *)
LEMMA StepMoves ==
  ASSUME NEW l, DOMAIN l = LboardFields, ValuesShaped(l), NEW start, NEW cancel, NEW submit
  PROVE  LET u == LboardStep(l, start, cancel, submit)
         IN  /\ DOMAIN u = LboardFields /\ ValuesShaped(u) /\ \A f \in TriggerNames : u[f] = l[f]
             /\ u.state \in BoardLive \cup {l.state}
             /\ u.state = "started" /\ l.state # "started" => NoHitsIn(u.value.sets)
<1> DEFINE z == ResetValues(l)
           begun == IF submit THEN "triggered" ELSE "started"
           a == [z EXCEPT !.state = begun]
           b == [l EXCEPT !.state = "canceled"]
           d == [l EXCEPT !.state = "triggered"]
           e == [l EXCEPT !.state = "active"]
           u == LboardStep(l, start, cancel, submit)
<1>1. u = a \/ u = b \/ u = d \/ u = e \/ u = l
  <2> HIDE DEF begun, z, b, d, e
  <2> QED BY DEF LboardStep, begun, z, b, d, e
<1>2. /\ DOMAIN z = LboardFields /\ (\A f \in TriggerNames : z[f] = l[f])
      /\ ValuesShaped(z) /\ NoHitsIn(z.value.sets)
  BY ValuesReset
<1>3. begun \in BoardLive
  BY DEF BoardLive
<1> HIDE DEF z, begun, u
<1>4. DOMAIN a = LboardFields /\ a.state = begun /\ a.value = z.value /\ a.progress = z.progress
      /\ \A f \in TriggerNames : a[f] = z[f]
  BY <1>2, BoardState
<1>5. DOMAIN b = LboardFields /\ b.state = "canceled" /\ b.value = l.value /\ b.progress = l.progress
      /\ \A f \in TriggerNames : b[f] = l[f]
  BY BoardState
<1>6. DOMAIN d = LboardFields /\ d.state = "triggered" /\ d.value = l.value /\ d.progress = l.progress
      /\ \A f \in TriggerNames : d[f] = l[f]
  BY BoardState
<1>7. DOMAIN e = LboardFields /\ e.state = "active" /\ e.value = l.value /\ e.progress = l.progress
      /\ \A f \in TriggerNames : e[f] = l[f]
  BY BoardState
<1> HIDE DEF a, b, d, e
<1>8. CASE u = a
  BY <1>2, <1>3, <1>4, <1>8 DEF ValuesShaped, u
<1>9. CASE u = b
  BY <1>5, <1>9 DEF ValuesShaped, BoardLive, u
<1>10. CASE u = d
  BY <1>6, <1>10 DEF ValuesShaped, BoardLive, u
<1>11. CASE u = e
  BY <1>7, <1>11 DEF ValuesShaped, BoardLive, u
<1>12. CASE u = l
  BY <1>12 DEF u
<1> QED BY <1>1, <1>8, <1>9, <1>10, <1>11, <1>12

(* Measuring a leaderboard that is under way. *)
LEMMA MeasureMoves ==
  ASSUME NEW l, DOMAIN l = LboardFields, ValuesShaped(l), NEW at
  PROVE  LET r == MeasureLboard(l, at)
         IN  /\ DOMAIN r.lboard = LboardFields /\ ValuesShaped(r.lboard) /\ \A f \in TriggerNames : r.lboard[f] = l[f]
             /\ r.lboard.state = l.state /\ r.result = l.state
             /\ NoHitsIn(l.value.sets) => AtMostOne(r.lboard.value.sets)
<1> DEFINE field == IF l.state = "started" /\ l.progress # <<>> THEN "progress" ELSE "value"
           measured == IF field = "progress" THEN l.progress[1] ELSE l.value
           valued == EvaluateValue(measured, at)
           now == valued.value
           a == [l EXCEPT !.progress = <<now>>]
           b == [l EXCEPT !.value = now]
           r == MeasureLboard(l, at)
<1>1. /\ r.result = l.state
      /\ r.lboard = l \/ (r.lboard = a /\ field = "progress") \/ (r.lboard = b /\ field # "progress")
  <2> HIDE DEF field
  <2> HIDE DEF measured, valued
  <2>1. r = IF l.state \in {"started", "triggered"} THEN LboardResult(l, valued, field)
            ELSE [lboard |-> l, result |-> l.state, value |-> 0]
    BY DEF MeasureLboard, field, measured, valued
  <2> HIDE DEF r
  <2> QED BY <2>1 DEF LboardResult
<1>2. ValueShaped(measured) /\ (field # "progress" => measured = l.value)
  <2>1. CASE field = "progress"
    <3>1. l.progress # <<>>
      BY <2>1
    <3>2. PICK w : l.progress = <<w>> /\ ValueShaped(w)
      BY <3>1 DEF ValuesShaped
    <3>3. measured = w
      BY <2>1, <3>2
    <3> HIDE DEF field, measured
    <3> QED BY <2>1, <3>2, <3>3
  <2>2. CASE field # "progress"
    <3>1. measured = l.value
      BY <2>2
    <3> HIDE DEF field, measured
    <3> QED BY <2>2, <3>1 DEF ValuesShaped
  <2> QED BY <2>1, <2>2
<1> HIDE DEF field, measured, r
<1>3. ValueEvolves(measured, now) /\ ValueShaped(now)
  BY <1>2, ValueMoves, EvolvedValueShaped
<1> HIDE DEF valued, now
<1>4. DOMAIN a = LboardFields /\ a.state = l.state /\ a.value = l.value /\ a.progress = <<now>>
  BY DEF LboardFields
<1>5. a["start"] = l["start"] /\ a["cancel"] = l["cancel"] /\ a["submit"] = l["submit"]
  BY DEF LboardFields
<1>6. DOMAIN b = LboardFields /\ b.state = l.state /\ b.value = now /\ b.progress = l.progress
  BY DEF LboardFields
<1>7. b["start"] = l["start"] /\ b["cancel"] = l["cancel"] /\ b["submit"] = l["submit"]
  BY DEF LboardFields
<1> HIDE DEF a, b
<1>8. (\A f \in TriggerNames : a[f] = l[f]) /\ \A f \in TriggerNames : b[f] = l[f]
  BY <1>5, <1>7 DEF TriggerNames
<1>9. ValuesShaped(a) /\ ValuesShaped(b)
  BY <1>3, <1>4, <1>6 DEF ValuesShaped
<1>10. NoHitsIn(l.value.sets) => AtMostOne(l.value.sets)
  BY NoneIsOne
<1>11. NoHitsIn(l.value.sets) /\ field # "progress" => AtMostOne(now.sets)
  <2>1. field # "progress" => SetsEvolve(l.value.sets, now.sets)
    BY <1>2, <1>3 DEF ValueEvolves
  <2> QED BY <2>1, FirstHits
<1>12. CASE r.lboard = l
  BY <1>1, <1>10, <1>12 DEF r
<1>13. CASE r.lboard = a /\ field = "progress"
  BY <1>1, <1>4, <1>8, <1>9, <1>10, <1>13 DEF r
<1>14. CASE r.lboard = b /\ field # "progress"
  BY <1>1, <1>6, <1>8, <1>9, <1>11, <1>14 DEF r
<1> QED BY <1>1, <1>12, <1>13, <1>14

(* A leaderboard is its own successor. *)
LEMMA LboardEvolvesSelf ==
  ASSUME NEW l, LboardShaped(l)
  PROVE  LboardEvolves(l, l)
  BY TriggerEvolvesSelf DEF LboardShaped, LboardEvolves

(* A frame of a leaderboard. *)
LEMMA LboardMoves ==
  ASSUME NEW l, LboardShaped(l), NEW at
  PROVE  LboardMoved(l, EvaluateLboard(l, at))
<1> DEFINE tests == [f \in {"start", "cancel", "submit"} |-> TestTrigger(l[f], at)]
           s == tests.start.trigger
           c == tests.cancel.trigger
           q == tests.submit.trigger
           tested == [l EXCEPT !.start = s, !.cancel = c, !.submit = q]
           step == LboardStep(tested, tests.start.ok, tests.cancel.ok, tests.submit.ok)
           r1 == [lboard |-> tested, result |-> "inactive", value |-> 0]
           r2 == MeasureLboard(step, at)
           r3 == [lboard |-> l, result |-> "inactive", value |-> 0]
           r == EvaluateLboard(l, at)
<1>1. \/ r = r3
      \/ LboardStateActive(l.state) /\ (r = r1 \/ r = r2)
  <2> HIDE DEF tests, r1, r2, r3
  <2> QED BY DEF EvaluateLboard, TestedLboard, r1, r2, r3, tests
<1>2. TriggerEvolves(l["start"], s) /\ TriggerEvolves(l["cancel"], c) /\ TriggerEvolves(l["submit"], q)
  BY TestMoves DEF LboardShaped, TriggerNames
<1> HIDE DEF s, c, q
<1>3. DOMAIN tested = LboardFields /\ tested.state = l.state /\ tested.value = l.value /\ tested.progress = l.progress
  BY DEF LboardShaped, LboardFields
<1>4. tested["start"] = s /\ tested["cancel"] = c /\ tested["submit"] = q
  BY DEF LboardShaped, LboardFields
<1> HIDE DEF tested, tests
<1>5. \A f \in TriggerNames : TriggerEvolves(l[f], tested[f])
  BY <1>2, <1>4 DEF TriggerNames
<1>6. ValuesShaped(tested)
  BY <1>3 DEF LboardShaped, ValuesShaped
<1>7. /\ DOMAIN step = LboardFields /\ ValuesShaped(step) /\ \A f \in TriggerNames : step[f] = tested[f]
      /\ step.state \in BoardLive \cup {l.state}
      /\ step.state = "started" /\ l.state # "started" => NoHitsIn(step.value.sets)
  BY <1>3, <1>6, StepMoves
<1> HIDE DEF step
<1>8. /\ DOMAIN r2.lboard = LboardFields /\ ValuesShaped(r2.lboard) /\ (\A f \in TriggerNames : r2.lboard[f] = step[f])
      /\ r2.lboard.state = step.state /\ r2.result = step.state
      /\ NoHitsIn(step.value.sets) => AtMostOne(r2.lboard.value.sets)
  BY <1>7, MeasureMoves
<1> HIDE DEF r2
<1>9. LboardEvolves(l, tested)
  BY <1>3, <1>5, <1>6 DEF LboardEvolves
<1>10. LboardEvolves(l, r2.lboard)
  BY <1>5, <1>7, <1>8 DEF LboardEvolves
<1>11. LboardStateActive(l.state) => LboardMoved(l, r1)
  BY <1>3, <1>9 DEF LboardMoved
<1>12. LboardStateActive(l.state) => LboardMoved(l, r2)
  BY <1>7, <1>8, <1>10 DEF LboardMoved
<1>13. LboardMoved(l, r3)
  BY LboardEvolvesSelf DEF LboardMoved
<1> HIDE DEF r, r1, r3
<1>14. LboardMoved(l, r)
  BY <1>1, <1>11, <1>12, <1>13
<1> QED BY <1>14 DEF r

(* What follows from a trigger that counts nothing counts nothing. *)
LEMMA EvolvedCountsNone ==
  ASSUME NEW t, TriggerShaped(t), NEW u, TriggerEvolves(t, u), TriggerCountsNone(t)
  PROVE  TriggerCountsNone(u)
<1>1. ASSUME NEW set, SetShaped(set), NEW now, SetEvolves(set, now), CountsNone(set)
      PROVE  CountsNone(now)
  <2>1. DOMAIN set.conds = 1..Len(set.conds) /\ DOMAIN now.conds = 1..Len(set.conds)
    BY <1>1, ListFacts DEF SetShaped, SetEvolves, ListEvolves
  <2>2. \A i \in 1..Len(set.conds) : now.conds[i].required = set.conds[i].required
    BY <1>1 DEF SetEvolves, ListEvolves, CondEvolves, SameCondition
  <2> QED BY <1>1, <2>1, <2>2 DEF CountsNone
<1>2. CountsNone(u.core)
  BY <1>1 DEF TriggerShaped, TriggerEvolves, TriggerCountsNone
<1>3. DOMAIN t.alts = 1..Len(t.alts) /\ DOMAIN u.alts = 1..Len(t.alts)
  BY ListFacts DEF TriggerShaped, TriggerEvolves, SetsShaped, SetsEvolve
<1>4. \A i \in 1..Len(t.alts) : CountsNone(u.alts[i])
  BY <1>1, <1>3 DEF TriggerShaped, TriggerEvolves, SetsShaped, SetsEvolve, TriggerCountsNone
<1> QED BY <1>2, <1>3, <1>4 DEF TriggerCountsNone

(* A line whose trigger has evolved. *)
LEMMA LineEvolves ==
  ASSUME NEW d, LineShaped(d), NEW u, TriggerEvolves(d.trigger, u), NEW e, e = [d EXCEPT !.trigger = u]
  PROVE  LineShaped(e) /\ e.hasRequired = d.hasRequired /\ e.parts = d.parts /\ e.trigger = u
<1>1. DOMAIN d = {"parts", "trigger", "hasRequired"} /\ TriggerShaped(d.trigger) /\ (d.hasRequired \/ TriggerCountsNone(d.trigger))
  BY DEF LineShaped
<1>2. DOMAIN e = {"parts", "trigger", "hasRequired"} /\ e.trigger = u /\ e.hasRequired = d.hasRequired /\ e.parts = d.parts
  BY <1>1
<1>3. TriggerShaped(u) /\ (TriggerCountsNone(d.trigger) => TriggerCountsNone(u))
  BY <1>1, EvolvedTriggerShaped, EvolvedCountsNone
<1>4. LineShaped(e)
  BY <1>1, <1>2, <1>3 DEF LineShaped
<1> QED BY <1>2, <1>4

(* Lines that each keep their shape. *)
LEMMA LinesMapped ==
  ASSUME NEW lines, LinesShaped(lines), NEW now, DOMAIN now = DOMAIN lines, now = [i \in DOMAIN now |-> now[i]],
         \A i \in DOMAIN lines : LineShaped(now[i])
  PROVE  LinesShaped(now) /\ Len(now) = Len(lines)
<1> DEFINE n == Len(lines)
<1>1. n \in Nat /\ DOMAIN lines = 1..n
  BY ListFacts DEF LinesShaped
<1>2. now = [i \in 1..n |-> now[i]]
  BY <1>1
<1> HIDE DEF n
<1>3. IsList(now) /\ Len(now) = n
  BY ONLY <1>1, <1>2, FunctionIsList
<1> QED BY <1>3 DEF LinesShaped, n

(* Variables that each keep their shape. *)
LEMMA VariablesMapped ==
  ASSUME NEW values, VariablesShaped(values), NEW now, DOMAIN now = DOMAIN values, now = [i \in DOMAIN now |-> now[i]],
         \A i \in DOMAIN values : DOMAIN now[i] = {"name", "value"} /\ ValueShaped(now[i].value)
  PROVE  VariablesShaped(now)
<1> DEFINE n == Len(values)
<1>1. n \in Nat /\ DOMAIN values = 1..n
  BY ListFacts DEF VariablesShaped
<1>2. now = [i \in 1..n |-> now[i]]
  BY <1>1
<1> HIDE DEF n
<1>3. IsList(now) /\ Len(now) = n
  BY ONLY <1>1, <1>2, FunctionIsList
<1> QED BY <1>3 DEF VariablesShaped

(* A variable after a frame. *)
LEMMA VariableMoves ==
  ASSUME NEW v, DOMAIN v = {"name", "value"}, ValueShaped(v.value), NEW at
  PROVE  DOMAIN UpdateVariable(v, at) = {"name", "value"} /\ ValueShaped(UpdateVariable(v, at).value)
<1> DEFINE r == EvaluateValueTyped(v.value, at)
           u == r.value
           cell == [UpdateCell(u.cell, <<r.result.num, r.result.den>>) EXCEPT !.type = r.result.type]
           z == [u EXCEPT !.cell = cell]
           a == [v EXCEPT !.value = u]
           b == [v EXCEPT !.value = z]
<1>1. UpdateVariable(v, at) = a \/ UpdateVariable(v, at) = b
  BY DEF UpdateVariable, KeepVariable
<1>2. ValueShaped(u)
  BY TypedEvolves, EvolvedValueShaped
<1> HIDE DEF u, cell, r
<1>3. DOMAIN z = {"sets", "cell"} /\ z.sets = u.sets
  BY <1>2 DEF ValueShaped
<1> HIDE DEF z
<1>4. ValueShaped(z)
  BY <1>2, <1>3 DEF ValueShaped
<1>5. DOMAIN a = {"name", "value"} /\ a.value = u /\ DOMAIN b = {"name", "value"} /\ b.value = z
  OBVIOUS
<1> HIDE DEF a, b
<1> QED BY <1>1, <1>2, <1>4, <1>5

(* Rich presence after a frame. *)
LEMMA RichUpdated ==
  ASSUME NEW rich, RichHolds(rich), NEW at
  PROVE  RichHolds(UpdateRichPresence(rich, at))
<1> DEFINE line(d) == IF d.hasRequired THEN [d EXCEPT !.trigger = TestTrigger(@, at).trigger] ELSE d
           values == [i \in DOMAIN rich.values |-> UpdateVariable(rich.values[i], at)]
           displays == [i \in DOMAIN rich.displays |-> line(rich.displays[i])]
           z == UpdateRichPresence(rich, at)
<1>1. z.values = values /\ z.displays = displays
  BY DEF UpdateRichPresence
<1> HIDE DEF z
<1>2. VariablesShaped(values)
  <2>1. DOMAIN values = DOMAIN rich.values /\ values = [i \in DOMAIN values |-> values[i]]
        /\ \A i \in DOMAIN rich.values : values[i] = UpdateVariable(rich.values[i], at)
    OBVIOUS
  <2> HIDE DEF values
  <2>2. ASSUME NEW i \in DOMAIN rich.values
        PROVE  DOMAIN values[i] = {"name", "value"} /\ ValueShaped(values[i].value)
    <3> DEFINE v == rich.values[i]
    <3>1. DOMAIN v = {"name", "value"} /\ ValueShaped(v.value) /\ values[i] = UpdateVariable(v, at)
      BY <2>1 DEF RichHolds, VariablesShaped
    <3> HIDE DEF v
    <3> QED BY <3>1, VariableMoves
  <2>3. VariablesShaped(rich.values)
    BY DEF RichHolds
  <2> QED BY ONLY <2>1, <2>2, <2>3, VariablesMapped
<1>3. LinesShaped(displays)
  <2>1. DOMAIN displays = DOMAIN rich.displays /\ displays = [i \in DOMAIN displays |-> displays[i]]
        /\ \A i \in DOMAIN rich.displays : displays[i] = line(rich.displays[i])
    OBVIOUS
  <2> HIDE DEF displays
  <2>2. ASSUME NEW i \in DOMAIN rich.displays
        PROVE  LineShaped(displays[i])
    <3> DEFINE d == rich.displays[i]
               u == TestTrigger(d.trigger, at).trigger
               e == [d EXCEPT !.trigger = u]
    <3>1. displays[i] = e \/ displays[i] = d
      BY <2>1
    <3>2. LineShaped(d)
      BY DEF RichHolds, LinesShaped
    <3> HIDE DEF d
    <3>3. TriggerEvolves(d.trigger, u)
      BY <3>2, TestMoves DEF LineShaped
    <3> HIDE DEF u
    <3>4. LineShaped(e)
      BY <3>2, <3>3, LineEvolves
    <3> HIDE DEF e
    <3> QED BY <3>1, <3>2, <3>4
  <2>3. LinesShaped(rich.displays)
    BY DEF RichHolds
  <2> QED BY ONLY <2>1, <2>2, <2>3, LinesMapped
<1> QED BY <1>1, <1>2, <1>3 DEF RichHolds, z

(* Rich presence starts over. *)
LEMMA DisplaysReset ==
  ASSUME NEW rich, RichHolds(rich), {"values", "displays"} \subseteq DOMAIN rich
  PROVE  /\ DOMAIN ResetDisplays(rich) = DOMAIN rich /\ ResetDisplays(rich).values = rich.values
         /\ RichHolds(ResetDisplays(rich))
<1> DEFINE line(d) == [d EXCEPT !.trigger = ResetTrigger(@)]
           displays == [i \in DOMAIN rich.displays |-> line(rich.displays[i])]
           z == ResetDisplays(rich)
<1>1. DOMAIN z = DOMAIN rich /\ z.values = rich.values /\ z.displays = displays
  BY DEF ResetDisplays
<1> HIDE DEF z
<1>2. LinesShaped(displays)
  <2>1. DOMAIN displays = DOMAIN rich.displays /\ displays = [i \in DOMAIN displays |-> displays[i]]
        /\ \A i \in DOMAIN rich.displays : displays[i] = line(rich.displays[i])
    OBVIOUS
  <2> HIDE DEF displays
  <2>2. ASSUME NEW i \in DOMAIN rich.displays
        PROVE  LineShaped(displays[i])
    <3> DEFINE d == rich.displays[i]
               u == ResetTrigger(d.trigger)
               e == [d EXCEPT !.trigger = u]
    <3>1. displays[i] = e
      BY <2>1
    <3>2. LineShaped(d)
      BY DEF RichHolds, LinesShaped
    <3> HIDE DEF d
    <3>3. TriggerEvolves(d.trigger, u)
      BY <3>2, TriggerReset, TriggerEvolvesSelf DEF LineShaped
    <3> HIDE DEF u
    <3>4. LineShaped(e)
      BY <3>2, <3>3, LineEvolves
    <3> HIDE DEF e
    <3> QED BY <3>1, <3>4
  <2>3. LinesShaped(rich.displays)
    BY DEF RichHolds
  <2> QED BY ONLY <2>1, <2>2, <2>3, LinesMapped
<1> QED BY <1>1, <1>2 DEF RichHolds, z

(* And its variables with it. *)
LEMMA RichReset ==
  ASSUME NEW rich, RichHolds(rich), {"values", "displays"} \subseteq DOMAIN rich
  PROVE  RichHolds(ResetRichPresence(rich))
<1> DEFINE base == ResetDisplays(rich)
           one(v) == [v EXCEPT !.value = ResetValue(@)]
           values == [i \in DOMAIN rich.values |-> one(rich.values[i])]
           z == [base EXCEPT !.values = values]
<1>1. ResetRichPresence(rich) = z
  BY DEF ResetRichPresence
<1>2. DOMAIN base = DOMAIN rich /\ RichHolds(base)
  BY DisplaysReset
<1> HIDE DEF base
<1>3. z.values = values /\ z.displays = base.displays
  BY <1>2
<1> HIDE DEF z
<1>4. VariablesShaped(values)
  <2>1. DOMAIN values = DOMAIN rich.values /\ values = [i \in DOMAIN values |-> values[i]]
        /\ \A i \in DOMAIN rich.values : values[i] = one(rich.values[i])
    OBVIOUS
  <2> HIDE DEF values
  <2>2. ASSUME NEW i \in DOMAIN rich.values
        PROVE  DOMAIN values[i] = {"name", "value"} /\ ValueShaped(values[i].value)
    <3> DEFINE v == rich.values[i]
               u == ResetValue(v.value)
    <3>1. DOMAIN v = {"name", "value"} /\ ValueShaped(v.value)
      BY DEF RichHolds, VariablesShaped
    <3>2. values[i] = [v EXCEPT !.value = u]
      BY <2>1
    <3> HIDE DEF v
    <3>3. ValueShaped(u)
      BY <3>1, ValueReset, EvolvedValueShaped
    <3> HIDE DEF u
    <3> QED BY <3>1, <3>2, <3>3
  <2>3. VariablesShaped(rich.values)
    BY DEF RichHolds
  <2> QED BY ONLY <2>1, <2>2, <2>3, VariablesMapped
<1> QED BY <1>1, <1>2, <1>3, <1>4 DEF RichHolds

(* A group of a definition, and the trigger, have the shape evaluation needs. *)
LEMMA FitsShaped ==
  ASSUME NEW t, NEW raw, TriggerFits(t, raw)
  PROVE  TriggerShaped(t)
<1>1. ASSUME NEW set, NEW raws, SetFits(set, raws)
      PROVE  SetShaped(set)
  <2>1. DOMAIN set.conds = 1..Len(raws)
    BY <1>1, ListFacts DEF SetFits
  <2> QED BY <1>1, <2>1 DEF SetFits, CondFits, SetShaped
<1>2. DOMAIN t.alts = 1..Len(raw.alts)
  BY ListFacts DEF TriggerFits, SetsFit
<1>3. \A i \in DOMAIN t.alts : SetShaped(t.alts[i])
  BY <1>1, <1>2 DEF TriggerFits, SetsFit
<1> QED BY <1>1, <1>3 DEF TriggerFits, SetsFit, TriggerShaped, SetsShaped

(* Testing and resetting keep a group within its definition. *)
LEMMA SetStaysFit ==
  ASSUME NEW set, NEW raws, SetFits(set, raws), NEW now, SetEvolves(set, now)
  PROVE  SetFits(now, raws)
<1>1. Len(set.conds) = Len(raws) /\ DOMAIN now = {"conds", "paused"} /\ IsList(now.conds) /\ Len(now.conds) = Len(raws)
  BY DEF SetFits, SetEvolves, ListEvolves
<1>2. ASSUME NEW i \in 1..Len(raws)
      PROVE  CondFits(now.conds[i], raws[i])
  <2> DEFINE c == set.conds[i]
             d == now.conds[i]
  <2>1. CondFits(c, raws[i]) /\ CondEvolves(c, d)
    BY <1>1 DEF SetFits, SetEvolves, ListEvolves
  <2> HIDE DEF c, d
  <2>2. CondShaped(d) /\ d.required = c.required
    BY <2>1, EvolvedShaped DEF CondFits, CondEvolves, SameCondition
  <2>3. d.hits \in Nat /\ (c.required # 0 => d.hits <= c.required)
    BY <2>1 DEF CondFits, CondEvolves, HitsCarry
  <2>4. CondFits(d, raws[i])
    BY <2>1, <2>2, <2>3 DEF CondFits
  <2> QED BY <2>4 DEF d
<1> QED BY <1>1, <1>2 DEF SetFits

(* And the trigger of these groups. *)
LEMMA TriggerStaysFit ==
  ASSUME NEW t, NEW raw, TriggerFits(t, raw), NEW u, TriggerEvolves(t, u)
  PROVE  TriggerFits(u, raw)
<1>1. SetsFit(u.alts, raw.alts)
  BY SetStaysFit DEF TriggerFits, TriggerEvolves, SetsEvolve, SetsFit
<1>2. SetFits(u.core, raw.core)
  BY SetStaysFit DEF TriggerFits, TriggerEvolves
<1> QED BY <1>1, <1>2 DEF TriggerFits, TriggerEvolves

(* A trigger in another state fits as it did. *)
LEMMA FitsOtherState ==
  ASSUME NEW t, NEW raw, TriggerFits(t, raw), NEW state, NEW u, u = [t EXCEPT !.state = state]
  PROVE  TriggerFits(u, raw) /\ u.state = state
<1>1. DOMAIN u = TriggerFields /\ u.core = t.core /\ u.alts = t.alts /\ u.state = state
  BY DEF TriggerFits, TriggerFields
<1> QED BY <1>1 DEF TriggerFits

(* A new group, before any frame, fits its definition. *)
LEMMA NewSetFits ==
  ASSUME NEW raws, IsGroup(raws), NEW ps, ~ps.isValue, NEW set, SetNew(set, raws, ps)
  PROVE  SetFits(set, raws)
<1>1. DOMAIN raws = 1..Len(raws)
  BY ListFacts DEF IsGroup
<1>2. ASSUME NEW i \in 1..Len(raws)
      PROVE  CondFits(set.conds[i], raws[i])
  <2>1. CondNew(set.conds[i], raws[i], ps) /\ raws[i].flag \in Flags /\ raws[i].hits \in Nat
    BY <1>1 DEF SetNew, IsGroup
  <2>2. RawRequired(raws[i]) \in Nat
    BY <2>1 DEF RawRequired
  <2> QED BY <2>1, <2>2 DEF CondNew, CondFits, CondShaped
<1> QED BY <1>2 DEF SetNew, SetFits

(* And a new trigger. *)
LEMMA NewTriggerFits ==
  ASSUME NEW raw, IsRawTrigger(raw), NEW ps, ~ps.isValue, NEW t, TriggerNew(t, raw, ps)
  PROVE  TriggerFits(t, raw)
<1>1. DOMAIN raw.alts = 1..Len(raw.alts)
  BY ListFacts DEF IsRawTrigger, IsGroups
<1>2. \A i \in 1..Len(raw.alts) : SetFits(t.alts[i], raw.alts[i])
  BY <1>1, NewSetFits DEF IsRawTrigger, IsGroups, TriggerNew
<1> QED BY <1>2, NewSetFits DEF IsRawTrigger, TriggerNew, TriggerFits, SetsFit

(* A trigger starts over. *)
LEMMA ResetFits ==
  ASSUME NEW t, NEW raw, TriggerFits(t, raw)
  PROVE  TriggerFits(ResetTrigger(t), raw) /\ ResetTrigger(t).state = "waiting" /\ TriggerNoHits(ResetTrigger(t))
  BY FitsShaped, TriggerEvolvesSelf, TriggerReset, TriggerStaysFit

(* A leaderboard after a frame fits as it did. *)
LEMMA LboardStaysFit ==
  ASSUME NEW l, NEW fields, LboardFits(l, fields), NEW u, LboardEvolves(l, u)
  PROVE  LboardFits(u, fields)
  BY TriggerStaysFit DEF LboardFits, LboardEvolves

(* Its triggers and values have the shape evaluation needs. *)
LEMMA LboardFitsShaped ==
  ASSUME NEW l, NEW fields, LboardFits(l, fields)
  PROVE  LboardShaped(l)
  BY FitsShaped DEF LboardFits, LboardShaped

(* A new leaderboard. *)
LEMMA NewLboardFits ==
  ASSUME NEW fields, NEW ps, ~ps.isValue, NEW l, LboardNew(l, fields, ps)
  PROVE  LboardFits(l, fields)
  BY NewTriggerFits DEF LboardNew, LboardFits

(* A leaderboard starts over. *)
LEMMA LboardReset ==
  ASSUME NEW l, NEW fields, LboardFits(l, fields)
  PROVE  /\ LboardFits(ResetLboard(l), fields) /\ ResetLboard(l).state = "waiting"
         /\ \A f \in TriggerNames : TriggerNoHits(ResetLboard(l)[f])
<1> DEFINE v == ResetValues(l)
           s == ResetTrigger(v.start)
           q == ResetTrigger(v.submit)
           c == ResetTrigger(v.cancel)
           z == [v EXCEPT !.state = "waiting", !.start = s, !.submit = q, !.cancel = c]
<1>1. ResetLboard(l) = z
  BY DEF ResetLboard
<1>2. DOMAIN v = LboardFields /\ (\A f \in TriggerNames : v[f] = l[f]) /\ ValuesShaped(v)
  BY ValuesReset DEF LboardFits
<1> HIDE DEF v
<1>3. \A f \in TriggerNames : /\ TriggerFits(ResetTrigger(v[f]), FieldDef(fields, f))
                              /\ TriggerNoHits(ResetTrigger(v[f]))
  BY <1>2, ResetFits DEF LboardFits
<1>4. s = ResetTrigger(v["start"]) /\ q = ResetTrigger(v["submit"]) /\ c = ResetTrigger(v["cancel"])
  OBVIOUS
<1> HIDE DEF s, q, c
<1>5. DOMAIN z = LboardFields /\ z.state = "waiting" /\ z.value = v.value /\ z.progress = v.progress
  BY <1>2 DEF LboardFields
<1>6. z["start"] = s /\ z["submit"] = q /\ z["cancel"] = c
  BY <1>2 DEF LboardFields
<1> HIDE DEF z
<1>7. \A f \in TriggerNames : z[f] = ResetTrigger(v[f])
  BY <1>4, <1>6 DEF TriggerNames
<1>8. LboardFits(z, fields)
  BY <1>2, <1>3, <1>5, <1>7 DEF LboardFits, ValuesShaped
<1> QED BY <1>1, <1>3, <1>5, <1>7, <1>8

(* The entry of an id, if there is one. *)
LEMMA IndexOfFacts ==
  ASSUME NEW list, IsList(list), NEW id
  PROVE  \/ IndexOf(list, id) = 0 /\ \A i \in DOMAIN list : list[i].id # id
         \/ IndexOf(list, id) \in DOMAIN list /\ IndexOf(list, id) # 0 /\ list[IndexOf(list, id)].id = id
<1> DEFINE I == {i \in 1..Len(list) : list[i].id = id}
<1>1. IndexOf(list, id) = IF I # {} THEN Min(I) ELSE 0
  BY DEF IndexOf, SelectInSeq
<1>2. I \in SUBSET Nat /\ DOMAIN list = 1..Len(list)
  BY ListFacts
<1>3. I # {} => Min(I) \in I
  <2> HIDE DEF I
  <2> QED BY <1>2, LeastIn DEF Min
<1>4. CASE I # {}
  BY <1>1, <1>2, <1>3, <1>4
<1>5. CASE I = {}
  BY <1>1, <1>2, <1>5
<1> QED BY <1>4, <1>5

(* An entry is dropped and the last one takes its place. *)
LEMMA DropFacts ==
  ASSUME NEW list, IsList(list), NEW i \in DOMAIN list
  PROVE  /\ IsList(Drop(list, i)) /\ DOMAIN Drop(list, i) = 1..(Len(list) - 1)
         /\ \A j \in DOMAIN Drop(list, i) :
              LET k == IF j = i THEN Len(list) ELSE j
              IN  k \in DOMAIN list /\ k # i /\ Drop(list, i)[j] = list[k]
<1> DEFINE n == Len(list)
           last == Last(list)
           moved == [list EXCEPT ![i] = last]
           base == IF i < n THEN moved ELSE list
<1>1. n \in Nat /\ DOMAIN list = 1..n /\ i \in 1..n /\ last = list[n]
  BY ListFacts DEF Last
<1>2. Drop(list, i) = Front(base)
  BY DEF Drop
<1> HIDE DEF last
<1>3. DOMAIN base = 1..n /\ base = [j \in 1..n |-> base[j]]
  <2>1. list = [j \in 1..n |-> list[j]]
    BY DEF IsList
  <2> HIDE DEF n
  <2> QED BY <1>1, <2>1
<1>4. \A j \in 1..n : base[j] = IF j = i /\ i < n THEN list[n] ELSE list[j]
  <2> HIDE DEF n
  <2> QED BY <1>1
<1> HIDE DEF base, moved, n
<1>5. IsList(base) /\ Len(base) = n
  BY ONLY <1>1, <1>3, FunctionIsList
<1>6. base # <<>>
  BY <1>1, <1>5
<1> DEFINE d == Front(base)
<1>7. IsList(d) /\ DOMAIN d = 1..(n - 1) /\ \A j \in 1..(n - 1) : d[j] = base[j]
  BY <1>5, <1>6, FrontFacts
<1> HIDE DEF d
<1>8. ASSUME NEW j \in 1..(n - 1), NEW k, k = IF j = i THEN n ELSE j
      PROVE  k \in 1..n /\ k # i /\ d[j] = list[k]
  <2>1. j \in 1..n /\ j < n
    BY <1>1
  <2>2. k \in 1..n /\ k # i
    BY <1>1, <1>8, <2>1
  <2>3. d[j] = list[k]
    BY <1>1, <1>4, <1>7, <1>8, <2>1
  <2> QED BY <2>2, <2>3
<1> QED BY <1>1, <1>2, <1>7, <1>8 DEF d, n

(* What is left after an entry is dropped. *)
LEMMA DropKeeps ==
  ASSUME NEW list, IsList(list), Apart(list), NEW i \in DOMAIN list
  PROVE  /\ IsList(Drop(list, i)) /\ Apart(Drop(list, i))
         /\ \A j \in DOMAIN Drop(list, i) : \E k \in DOMAIN list : k # i /\ Drop(list, i)[j] = list[k]
<1> DEFINE d == Drop(list, i)
           n == Len(list)
           at(j) == IF j = i THEN n ELSE j
<1>1. n \in Nat /\ DOMAIN list = 1..n
  BY ListFacts
<1>2. IsList(d) /\ DOMAIN d = 1..(n - 1)
  BY DropFacts
<1>3. \A j \in DOMAIN d : at(j) \in DOMAIN list /\ at(j) # i /\ d[j] = list[at(j)]
  BY DropFacts
<1> HIDE DEF d, n
<1>4. \A j, k \in 1..(n - 1) : at(j) = at(k) => j = k
  BY <1>1
<1> HIDE DEF at
<1>5. Apart(d)
  BY <1>2, <1>3, <1>4 DEF Apart
<1> QED BY <1>2, <1>3, <1>5 DEF d

(* An entry is entered. *)
LEMMA EnterKeeps ==
  ASSUME NEW list, IsList(list), Apart(list), NEW e, \A i \in DOMAIN list : list[i].id # e.id,
         NEW now, now = Append(list, e)
  PROVE  /\ IsList(now) /\ Apart(now) /\ \A j \in DOMAIN now : now[j] = e \/ \E k \in DOMAIN list : now[j] = list[k]
<1> DEFINE n == Len(list)
<1>1. n \in Nat /\ DOMAIN list = 1..n
  BY ListFacts
<1>2. IsList(now) /\ DOMAIN now = 1..(n + 1) /\ (\A j \in 1..n : now[j] = list[j]) /\ now[n + 1] = e
  BY AppendFacts
<1> HIDE DEF n
<1>3. \A j \in 1..(n + 1) : j \in 1..n \/ j = n + 1
  BY <1>1
<1>4. Apart(now)
  BY <1>1, <1>2, <1>3 DEF Apart
<1> QED BY <1>1, <1>2, <1>3, <1>4

(* An entry is changed in its place. *)
LEMMA ChangeKeeps ==
  ASSUME NEW list, IsList(list), Apart(list), NEW i \in DOMAIN list, NEW e, e.id = list[i].id,
         NEW now, now = [list EXCEPT ![i] = e]
  PROVE  /\ IsList(now) /\ Apart(now) /\ DOMAIN now = DOMAIN list
         /\ \A j \in DOMAIN list : now[j] = IF j = i THEN e ELSE list[j]
<1> DEFINE n == Len(list)
<1>1. n \in Nat /\ DOMAIN list = 1..n
  BY ListFacts
<1>2. DOMAIN now = DOMAIN list /\ \A j \in DOMAIN list : now[j] = IF j = i THEN e ELSE list[j]
  BY <1>1
<1>3. now = [j \in 1..n |-> now[j]]
  BY <1>1
<1> HIDE DEF n
<1>4. IsList(now)
  BY ONLY <1>1, <1>3, FunctionIsList
<1>5. Apart(now)
  BY <1>2 DEF Apart
<1> QED BY <1>2, <1>4, <1>5

(* Each entry is changed where it is. *)
LEMMA EachKeeps ==
  ASSUME NEW list, IsList(list), Apart(list), NEW now, DOMAIN now = DOMAIN list, now = [i \in DOMAIN now |-> now[i]],
         \A i \in DOMAIN list : now[i].id = list[i].id
  PROVE  IsList(now) /\ Apart(now) /\ Len(now) = Len(list)
<1> DEFINE n == Len(list)
<1>1. n \in Nat /\ DOMAIN list = 1..n
  BY ListFacts
<1>2. now = [j \in 1..n |-> now[j]]
  BY <1>1
<1> HIDE DEF n
<1>3. IsList(now) /\ Len(now) = n
  BY ONLY <1>1, <1>2, FunctionIsList
<1>4. Apart(now)
  BY DEF Apart
<1> QED BY <1>3, <1>4 DEF n

(* A parser starts with a pool and nothing read. *)
LEMMA ParseStateFine ==
  ASSUME NEW pool, PoolFine(pool), NEW ps, ps = ParseState(pool, FALSE)
  PROVE  Fine(ps) /\ ~ps.isValue /\ ps.pool = pool
<1>1. DOMAIN ps = PsFields /\ ps.pool = pool
  BY DEF ParseState, PsFields
<1>2. ps.indirect = NoOperand /\ ps.addsource = NoOperand /\ ps.remember = NoOperand /\ ~ps.isValue
  BY DEF ParseState
<1>3. Known(NoOperand, pool)
  BY ConstKnown
<1> QED BY <1>1, <1>2, <1>3 DEF Fine

(* A runtime whose achievements are others. *)
LEMMA OtherEntries ==
  ASSUME NEW rt, RtFits(rt), NEW list, EntriesFit(list), NEW now, now = [rt EXCEPT !.triggers = list]
  PROVE  /\ RtFits(now) /\ now.triggers = list /\ now.lboards = rt.lboards /\ now.rich = rt.rich /\ now.pool = rt.pool
<1>1. DOMAIN now = RtFields /\ now.triggers = list /\ now.lboards = rt.lboards /\ now.rich = rt.rich /\ now.pool = rt.pool
  BY DEF RtFits, RtFields
<1> QED BY <1>1 DEF RtFits

(* Or whose leaderboards are. *)
LEMMA OtherBoards ==
  ASSUME NEW rt, RtFits(rt), NEW list, BoardsFit(list), NEW now, now = [rt EXCEPT !.lboards = list]
  PROVE  /\ RtFits(now) /\ now.lboards = list /\ now.triggers = rt.triggers /\ now.rich = rt.rich /\ now.pool = rt.pool
<1>1. DOMAIN now = RtFields /\ now.lboards = list /\ now.triggers = rt.triggers /\ now.rich = rt.rich /\ now.pool = rt.pool
  BY DEF RtFits, RtFields
<1> QED BY <1>1 DEF RtFits

(* Or whose pool is. *)
LEMMA OtherPool ==
  ASSUME NEW rt, RtFits(rt), NEW pool, PoolFine(pool), NEW now, now = [rt EXCEPT !.pool = pool]
  PROVE  /\ RtFits(now) /\ now.lboards = rt.lboards /\ now.triggers = rt.triggers /\ now.rich = rt.rich /\ now.pool = pool
<1>1. DOMAIN now = RtFields /\ now.lboards = rt.lboards /\ now.triggers = rt.triggers /\ now.rich = rt.rich /\ now.pool = pool
  BY DEF RtFits, RtFields
<1> QED BY <1>1 DEF RtFits

(* An achievement is deactivated. *)
LEMMA WithoutEntry ==
  ASSUME NEW rt, RtFits(rt), NEW id, NEW now, now = Without(rt, "triggers", IndexOf(rt.triggers, id))
  PROVE  /\ RtFits(now) /\ now.lboards = rt.lboards /\ now.rich = rt.rich /\ now.pool = rt.pool
         /\ \A j \in DOMAIN now.triggers : now.triggers[j].id # id /\ \E k \in DOMAIN rt.triggers : now.triggers[j] = rt.triggers[k]
<1> DEFINE i == IndexOf(rt.triggers, id)
           list == Drop(rt.triggers, i)
<1>1. IsList(rt.triggers) /\ Apart(rt.triggers) /\ \A j \in DOMAIN rt.triggers : EntryFits(rt.triggers[j])
  BY DEF RtFits, EntriesFit
<1>2. \/ i = 0 /\ \A j \in DOMAIN rt.triggers : rt.triggers[j].id # id
      \/ i \in DOMAIN rt.triggers /\ i # 0 /\ rt.triggers[i].id = id
  BY <1>1, IndexOfFacts
<1>3. now = IF i = 0 THEN rt ELSE [rt EXCEPT !.triggers = list]
  BY DEF Without
<1> HIDE DEF i
<1>4. CASE i = 0
  BY <1>2, <1>3, <1>4, DOMAIN rt.triggers = DOMAIN rt.triggers
<1>5. CASE i # 0
  <2>1. /\ IsList(list) /\ Apart(list)
        /\ \A j \in DOMAIN list : \E k \in DOMAIN rt.triggers : k # i /\ list[j] = rt.triggers[k]
    BY <1>1, <1>2, <1>5, DropKeeps
  <2> HIDE DEF list
  <2>2. EntriesFit(list)
    BY <1>1, <2>1 DEF EntriesFit
  <2>3. \A j \in DOMAIN list : list[j].id # id
    BY <1>1, <1>2, <1>5, <2>1 DEF Apart
  <2>4. now = [rt EXCEPT !.triggers = list]
    BY <1>3, <1>5
  <2>5. RtFits(now) /\ now.triggers = list /\ now.lboards = rt.lboards /\ now.rich = rt.rich /\ now.pool = rt.pool
    BY ONLY RtFits(rt), <2>2, <2>4, OtherEntries
  <2> QED BY <2>1, <2>3, <2>5
<1> QED BY <1>4, <1>5

(* A leaderboard is deactivated. *)
LEMMA WithoutBoard ==
  ASSUME NEW rt, RtFits(rt), NEW id, NEW now, now = Without(rt, "lboards", IndexOf(rt.lboards, id))
  PROVE  /\ RtFits(now) /\ now.triggers = rt.triggers /\ now.rich = rt.rich /\ now.pool = rt.pool
         /\ \A j \in DOMAIN now.lboards : now.lboards[j].id # id /\ \E k \in DOMAIN rt.lboards : now.lboards[j] = rt.lboards[k]
<1> DEFINE i == IndexOf(rt.lboards, id)
           list == Drop(rt.lboards, i)
<1>1. IsList(rt.lboards) /\ Apart(rt.lboards) /\ \A j \in DOMAIN rt.lboards : BoardFits(rt.lboards[j])
  BY DEF RtFits, BoardsFit
<1>2. \/ i = 0 /\ \A j \in DOMAIN rt.lboards : rt.lboards[j].id # id
      \/ i \in DOMAIN rt.lboards /\ i # 0 /\ rt.lboards[i].id = id
  BY <1>1, IndexOfFacts
<1>3. now = IF i = 0 THEN rt ELSE [rt EXCEPT !.lboards = list]
  BY DEF Without
<1> HIDE DEF i
<1>4. CASE i = 0
  BY <1>2, <1>3, <1>4, DOMAIN rt.lboards = DOMAIN rt.lboards
<1>5. CASE i # 0
  <2>1. /\ IsList(list) /\ Apart(list)
        /\ \A j \in DOMAIN list : \E k \in DOMAIN rt.lboards : k # i /\ list[j] = rt.lboards[k]
    BY <1>1, <1>2, <1>5, DropKeeps
  <2> HIDE DEF list
  <2>2. BoardsFit(list)
    BY <1>1, <2>1 DEF BoardsFit
  <2>3. \A j \in DOMAIN list : list[j].id # id
    BY <1>1, <1>2, <1>5, <2>1 DEF Apart
  <2>4. now = [rt EXCEPT !.lboards = list]
    BY <1>3, <1>5
  <2>5. RtFits(now) /\ now.lboards = list /\ now.triggers = rt.triggers /\ now.rich = rt.rich /\ now.pool = rt.pool
    BY ONLY RtFits(rt), <2>2, <2>4, OtherBoards
  <2> QED BY <2>1, <2>3, <2>5
<1> QED BY <1>4, <1>5

(* An achievement with the definition it had starts over. *)
LEMMA EntryRestarts ==
  ASSUME NEW rt, RtFits(rt), NEW i \in DOMAIN rt.triggers, NEW now,
         now = [rt EXCEPT !.triggers[i].trigger = ResetTrigger(@)]
  PROVE  /\ RtFits(now) /\ now.lboards = rt.lboards /\ now.rich = rt.rich /\ now.pool = rt.pool
         /\ StartedAlone(rt.triggers, rt.triggers[i].id, now.triggers)
<1> DEFINE list == rt.triggers
           e == [list[i] EXCEPT !.trigger = ResetTrigger(list[i].trigger)]
           new == [list EXCEPT ![i] = e]
<1>1. now = [rt EXCEPT !.triggers = new]
  OBVIOUS
<1>2. EntriesFit(list) /\ EntryFits(list[i])
  BY DEF RtFits, EntriesFit
<1> HIDE DEF list
<1>3. /\ TriggerFits(ResetTrigger(list[i].trigger), Triggers[list[i].def])
      /\ ResetTrigger(list[i].trigger).state = "waiting"
  BY <1>2, ResetFits DEF EntryFits
<1>4. DOMAIN e = DOMAIN list[i] /\ e.id = list[i].id /\ e.def = list[i].def /\ e.trigger = ResetTrigger(list[i].trigger)
  BY <1>2 DEF EntryFits
<1> HIDE DEF e
<1>5. EntryFits(e) /\ e.trigger.state = "waiting"
  BY <1>2, <1>3, <1>4 DEF EntryFits
<1>6. i \in DOMAIN list
  BY DEF list
<1>7. /\ IsList(new) /\ Apart(new) /\ DOMAIN new = DOMAIN list
      /\ \A j \in DOMAIN list : new[j] = IF j = i THEN e ELSE list[j]
  BY <1>2, <1>4, <1>6, ChangeKeeps DEF EntriesFit
<1> HIDE DEF new
<1>8. EntriesFit(new)
  BY <1>2, <1>5, <1>7 DEF EntriesFit
<1>9. StartedAlone(list, list[i].id, new)
  <2>1. ASSUME NEW j \in DOMAIN list, j # i
        PROVE  new[j].id # list[i].id /\ new[j] = list[j]
    BY <1>2, <1>6, <1>7, <2>1 DEF EntriesFit, Apart
  <2>2. new[i].id = list[i].id /\ new[i].trigger.state = "waiting"
    BY <1>4, <1>5, <1>6, <1>7
  <2> QED BY <1>7, <2>1, <2>2 DEF StartedAlone
<1>10. RtFits(now) /\ now.triggers = new /\ now.lboards = rt.lboards /\ now.rich = rt.rich /\ now.pool = rt.pool
  BY ONLY RtFits(rt), <1>1, <1>8, OtherEntries
<1> QED BY <1>9, <1>10 DEF list

(* An achievement enters a runtime that has none of its id, with the pool it was parsed into. *)
LEMMA EntryEnters ==
  ASSUME NEW rt, RtFits(rt), NEW e, EntryFits(e), \A j \in DOMAIN rt.triggers : rt.triggers[j].id # e.id,
         NEW pool, PoolFine(pool), NEW now, now = Enter(rt, "triggers", e, pool)
  PROVE  /\ RtFits(now) /\ now.lboards = rt.lboards /\ now.rich = rt.rich
         /\ \A j \in DOMAIN now.triggers : now.triggers[j] = e \/ \E k \in DOMAIN rt.triggers : now.triggers[j] = rt.triggers[k]
<1> DEFINE new == Append(rt.triggers, e)
<1>1. EntriesFit(rt.triggers)
  BY DEF RtFits
<1>2. /\ IsList(new) /\ Apart(new)
      /\ \A j \in DOMAIN new : new[j] = e \/ \E k \in DOMAIN rt.triggers : new[j] = rt.triggers[k]
  <2> DEFINE list == rt.triggers
  <2>1. IsList(list) /\ Apart(list) /\ new = Append(list, e) /\ \A j \in DOMAIN list : list[j].id # e.id
    BY <1>1 DEF EntriesFit
  <2> HIDE DEF new, list
  <2>2. IsList(new) /\ Apart(new)
    BY ONLY <2>1, EnterKeeps
  <2>3. \A j \in DOMAIN new : new[j] = e \/ \E k \in DOMAIN list : new[j] = list[k]
    BY ONLY <2>1, EnterKeeps
  <2> QED BY <2>2, <2>3 DEF list
<1> HIDE DEF new
<1>3. EntriesFit(new)
  BY <1>1, <1>2 DEF EntriesFit
<1>4. /\ DOMAIN now = RtFields /\ now.triggers = new /\ now.lboards = rt.lboards /\ now.rich = rt.rich
      /\ now.pool = pool
  BY DEF Enter, RtFits, RtFields, new
<1>5. RtFits(now)
  BY <1>3, <1>4 DEF RtFits
<1> QED BY <1>2, <1>4, <1>5

(* rc_runtime_activate_achievement. *)
LEMMA AchievementActivated ==
  ASSUME NEW rt, RtFits(rt), NEW id \in Ids, NEW def \in DOMAIN Triggers, NEW now, now = ActivateAchievement(rt, id, def)
  PROVE  RtFits(now) /\ now.lboards = rt.lboards /\ StartedAlone(rt.triggers, id, now.triggers)
<1> DEFINE i == IndexOf(rt.triggers, id)
           parsed == ParseTrigger(Triggers[def], ParseState(rt.pool, FALSE))
           left == Without(rt, "triggers", IndexOf(rt.triggers, id))
           new == [id |-> id, def |-> def, trigger |-> ResetTrigger(parsed.trigger), invalid |-> NoRef]
<1>1. now = IF i # 0 /\ rt.triggers[i].def = def THEN [rt EXCEPT !.triggers[i].trigger = ResetTrigger(@)]
            ELSE IF parsed.ps.error # Ok THEN left ELSE Enter(left, "triggers", new, parsed.ps.pool)
  BY DEF ActivateAchievement, NewTrigger
<1>2. \/ i = 0 /\ \A j \in DOMAIN rt.triggers : rt.triggers[j].id # id
      \/ i \in DOMAIN rt.triggers /\ i # 0 /\ rt.triggers[i].id = id
  BY IndexOfFacts DEF RtFits, EntriesFit
<1>3. /\ RtFits(left) /\ left.lboards = rt.lboards
      /\ \A j \in DOMAIN left.triggers : left.triggers[j].id # id /\ \E k \in DOMAIN rt.triggers : left.triggers[j] = rt.triggers[k]
  <2>1. left = Without(rt, "triggers", IndexOf(rt.triggers, id))
    OBVIOUS
  <2> HIDE DEF left, new, parsed, i
  <2> QED BY ONLY RtFits(rt), <2>1, WithoutEntry
<1>4. /\ PoolFine(parsed.ps.pool)
      /\ parsed.ps.error = Ok => TriggerFits(parsed.trigger, Triggers[def])
  <2> DEFINE ps == ParseState(rt.pool, FALSE)
  <2>1. Fine(ps) /\ ~ps.isValue
    BY ParseStateFine DEF RtFits
  <2>2. IsRawTrigger(Triggers[def])
    BY DefinitionsAssumption
  <2> HIDE DEF ps
  <2>3. TriggerParsed(Triggers[def], ps, ParseTrigger(Triggers[def], ps))
    BY <2>1, <2>2, TriggerParses
  <2>4. parsed = ParseTrigger(Triggers[def], ps)
    BY DEF ps
  <2> HIDE DEF parsed
  <2>5. PoolFine(parsed.ps.pool)
    BY <2>3, <2>4 DEF TriggerParsed, Stays, Fine
  <2>6. ASSUME parsed.ps.error = Ok
        PROVE  TriggerFits(parsed.trigger, Triggers[def])
    BY <2>1, <2>2, <2>3, <2>4, <2>6, NewTriggerFits DEF TriggerParsed
  <2> QED BY <2>5, <2>6
<1> HIDE DEF i, parsed, left
<1>5. CASE i # 0 /\ rt.triggers[i].def = def
  <2>1. now = [rt EXCEPT !.triggers[i].trigger = ResetTrigger(@)]
    BY <1>1, <1>5
  <2>2. i \in DOMAIN rt.triggers /\ rt.triggers[i].id = id
    BY <1>2, <1>5
  <2>3. RtFits(now) /\ now.lboards = rt.lboards /\ StartedAlone(rt.triggers, rt.triggers[i].id, now.triggers)
    BY ONLY RtFits(rt), <2>1, <2>2, EntryRestarts, ZenonT(60)
  <2> QED BY <2>2, <2>3
<1>6. CASE ~(i # 0 /\ rt.triggers[i].def = def) /\ parsed.ps.error # Ok
  <2>1. now = left
    BY <1>1, <1>6
  <2> QED BY <1>3, <2>1 DEF StartedAlone
<1>7. CASE ~(i # 0 /\ rt.triggers[i].def = def) /\ parsed.ps.error = Ok
  <2>1. now = Enter(left, "triggers", new, parsed.ps.pool)
    BY <1>1, <1>7
  <2>2. TriggerFits(ResetTrigger(parsed.trigger), Triggers[def]) /\ ResetTrigger(parsed.trigger).state = "waiting"
    BY <1>4, <1>7, ResetFits
  <2>3. new.id = id /\ new.def = def /\ new.trigger = ResetTrigger(parsed.trigger) /\ DOMAIN new = {"id", "def", "trigger", "invalid"}
    OBVIOUS
  <2> HIDE DEF new
  <2>4. EntryFits(new)
    BY <2>2, <2>3 DEF EntryFits
  <2>5. PoolFine(parsed.ps.pool) /\ \A j \in DOMAIN left.triggers : left.triggers[j].id # new.id
    BY <1>3, <1>4, <2>3
  <2>7. RtFits(left)
    BY <1>3
  <2>6. /\ RtFits(now) /\ now.lboards = left.lboards
        /\ \A j \in DOMAIN now.triggers : now.triggers[j] = new \/ \E k \in DOMAIN left.triggers : now.triggers[j] = left.triggers[k]
    BY ONLY <2>1, <2>4, <2>5, <2>7, EntryEnters
  <2> QED BY <1>3, <2>2, <2>3, <2>6 DEF StartedAlone
<1> QED BY <1>5, <1>6, <1>7

(* A leaderboard with the definition it had starts over. *)
LEMMA BoardRestarts ==
  ASSUME NEW rt, RtFits(rt), NEW i \in DOMAIN rt.lboards, NEW now,
         now = [rt EXCEPT !.lboards[i].lboard = ResetLboard(@)]
  PROVE  /\ RtFits(now) /\ now.triggers = rt.triggers /\ now.rich = rt.rich /\ now.pool = rt.pool
         /\ BoardStartedAlone(rt.lboards, rt.lboards[i].id, now.lboards)
<1> DEFINE list == rt.lboards
           e == [list[i] EXCEPT !.lboard = ResetLboard(list[i].lboard)]
           new == [list EXCEPT ![i] = e]
<1>1. now = [rt EXCEPT !.lboards = new]
  OBVIOUS
<1>2. BoardsFit(list) /\ BoardFits(list[i])
  BY DEF RtFits, BoardsFit
<1> HIDE DEF list
<1>3. /\ LboardFits(ResetLboard(list[i].lboard), Lboards[list[i].def])
      /\ ResetLboard(list[i].lboard).state = "waiting"
  BY <1>2, LboardReset DEF BoardFits
<1>4. DOMAIN e = DOMAIN list[i] /\ e.id = list[i].id /\ e.def = list[i].def /\ e.lboard = ResetLboard(list[i].lboard)
  BY <1>2 DEF BoardFits
<1> HIDE DEF e
<1>5. BoardFits(e) /\ e.lboard.state = "waiting"
  BY <1>2, <1>3, <1>4 DEF BoardFits
<1>6. i \in DOMAIN list
  BY DEF list
<1>7. /\ IsList(new) /\ Apart(new) /\ DOMAIN new = DOMAIN list
      /\ \A j \in DOMAIN list : new[j] = IF j = i THEN e ELSE list[j]
  BY <1>2, <1>4, <1>6, ChangeKeeps DEF BoardsFit
<1> HIDE DEF new
<1>8. BoardsFit(new)
  BY <1>2, <1>5, <1>7 DEF BoardsFit
<1>9. BoardStartedAlone(list, list[i].id, new)
  <2>1. ASSUME NEW j \in DOMAIN list, j # i
        PROVE  new[j].id # list[i].id /\ new[j] = list[j]
    BY <1>2, <1>6, <1>7, <2>1 DEF BoardsFit, Apart
  <2>2. new[i].id = list[i].id /\ new[i].lboard.state = "waiting"
    BY <1>4, <1>5, <1>6, <1>7
  <2> QED BY <1>7, <2>1, <2>2 DEF BoardStartedAlone
<1>10. RtFits(now) /\ now.lboards = new /\ now.triggers = rt.triggers /\ now.rich = rt.rich /\ now.pool = rt.pool
  BY ONLY RtFits(rt), <1>1, <1>8, OtherBoards
<1> QED BY <1>9, <1>10 DEF list

(* A leaderboard enters a runtime that has none of its id, with the pool it was parsed into. *)
LEMMA BoardEnters ==
  ASSUME NEW rt, RtFits(rt), NEW e, BoardFits(e), \A j \in DOMAIN rt.lboards : rt.lboards[j].id # e.id,
         NEW pool, PoolFine(pool), NEW now, now = Enter(rt, "lboards", e, pool)
  PROVE  /\ RtFits(now) /\ now.triggers = rt.triggers /\ now.rich = rt.rich
         /\ \A j \in DOMAIN now.lboards : now.lboards[j] = e \/ \E k \in DOMAIN rt.lboards : now.lboards[j] = rt.lboards[k]
<1> DEFINE new == Append(rt.lboards, e)
<1>1. BoardsFit(rt.lboards)
  BY DEF RtFits
<1>2. /\ IsList(new) /\ Apart(new)
      /\ \A j \in DOMAIN new : new[j] = e \/ \E k \in DOMAIN rt.lboards : new[j] = rt.lboards[k]
  <2> DEFINE list == rt.lboards
  <2>1. IsList(list) /\ Apart(list) /\ new = Append(list, e) /\ \A j \in DOMAIN list : list[j].id # e.id
    BY <1>1 DEF BoardsFit
  <2> HIDE DEF new, list
  <2>2. IsList(new) /\ Apart(new)
    BY ONLY <2>1, EnterKeeps
  <2>3. \A j \in DOMAIN new : new[j] = e \/ \E k \in DOMAIN list : new[j] = list[k]
    BY ONLY <2>1, EnterKeeps
  <2> QED BY <2>2, <2>3 DEF list
<1> HIDE DEF new
<1>3. BoardsFit(new)
  BY <1>1, <1>2 DEF BoardsFit
<1>4. /\ DOMAIN now = RtFields /\ now.lboards = new /\ now.triggers = rt.triggers /\ now.rich = rt.rich
      /\ now.pool = pool
  BY DEF Enter, RtFits, RtFields, new
<1>5. RtFits(now)
  BY <1>3, <1>4 DEF RtFits
<1> QED BY <1>2, <1>4, <1>5

(* rc_runtime_activate_lboard. *)
LEMMA LboardActivated ==
  ASSUME NEW rt, RtFits(rt), NEW id \in Ids, NEW def \in DOMAIN Lboards, NEW now, now = ActivateLboard(rt, id, def)
  PROVE  RtFits(now) /\ now.triggers = rt.triggers /\ BoardStartedAlone(rt.lboards, id, now.lboards)
<1> DEFINE i == IndexOf(rt.lboards, id)
           parsed == ParseLboard(Lboards[def], ParseState(rt.pool, FALSE))
           left == Without(rt, "lboards", IndexOf(rt.lboards, id))
           new == [id |-> id, def |-> def, lboard |-> ResetLboard(parsed.lboard), value |-> 0, invalid |-> NoRef]
<1>1. now = IF i # 0 /\ rt.lboards[i].def = def THEN [rt EXCEPT !.lboards[i].lboard = ResetLboard(@)]
            ELSE IF parsed.ps.error # Ok THEN left ELSE Enter(left, "lboards", new, parsed.ps.pool)
  BY DEF ActivateLboard, NewLboard
<1>2. \/ i = 0 /\ \A j \in DOMAIN rt.lboards : rt.lboards[j].id # id
      \/ i \in DOMAIN rt.lboards /\ i # 0 /\ rt.lboards[i].id = id
  BY IndexOfFacts DEF RtFits, BoardsFit
<1>3. /\ RtFits(left) /\ left.triggers = rt.triggers
      /\ \A j \in DOMAIN left.lboards : left.lboards[j].id # id /\ \E k \in DOMAIN rt.lboards : left.lboards[j] = rt.lboards[k]
  <2>1. left = Without(rt, "lboards", IndexOf(rt.lboards, id))
    OBVIOUS
  <2> HIDE DEF left, new, parsed, i
  <2> QED BY ONLY RtFits(rt), <2>1, WithoutBoard, SMTT(60)
<1>4. /\ PoolFine(parsed.ps.pool)
      /\ parsed.ps.error = Ok => LboardFits(parsed.lboard, Lboards[def])
  <2> DEFINE ps == ParseState(rt.pool, FALSE)
  <2>1. Fine(ps) /\ ~ps.isValue
    BY ParseStateFine DEF RtFits
  <2>2. IsRawLboard(Lboards[def])
    BY DefinitionsAssumption
  <2> HIDE DEF ps
  <2>3. LboardParsed(Lboards[def], ps, ParseLboard(Lboards[def], ps))
    BY <2>1, <2>2, LboardParses
  <2>4. parsed = ParseLboard(Lboards[def], ps)
    BY DEF ps
  <2> HIDE DEF parsed
  <2>5. PoolFine(parsed.ps.pool)
    BY <2>3, <2>4 DEF LboardParsed, Stays, Fine
  <2>6. ASSUME parsed.ps.error = Ok
        PROVE  LboardFits(parsed.lboard, Lboards[def])
    BY <2>1, <2>2, <2>3, <2>4, <2>6, NewLboardFits DEF LboardParsed
  <2> QED BY <2>5, <2>6
<1> HIDE DEF i, parsed, left
<1>5. CASE i # 0 /\ rt.lboards[i].def = def
  <2>1. now = [rt EXCEPT !.lboards[i].lboard = ResetLboard(@)]
    BY <1>1, <1>5
  <2>2. i \in DOMAIN rt.lboards /\ rt.lboards[i].id = id
    BY <1>2, <1>5
  <2>3. RtFits(now) /\ now.triggers = rt.triggers /\ BoardStartedAlone(rt.lboards, rt.lboards[i].id, now.lboards)
    BY ONLY RtFits(rt), <2>1, <2>2, BoardRestarts, ZenonT(60)
  <2> QED BY <2>2, <2>3
<1>6. CASE ~(i # 0 /\ rt.lboards[i].def = def) /\ parsed.ps.error # Ok
  <2>1. now = left
    BY <1>1, <1>6
  <2> QED BY <1>3, <2>1 DEF BoardStartedAlone
<1>7. CASE ~(i # 0 /\ rt.lboards[i].def = def) /\ parsed.ps.error = Ok
  <2>1. now = Enter(left, "lboards", new, parsed.ps.pool)
    BY <1>1, <1>7
  <2>2. LboardFits(ResetLboard(parsed.lboard), Lboards[def]) /\ ResetLboard(parsed.lboard).state = "waiting"
    BY <1>4, <1>7, LboardReset
  <2>3. new.id = id /\ new.def = def /\ new.lboard = ResetLboard(parsed.lboard) /\ DOMAIN new = {"id", "def", "lboard", "value", "invalid"}
    OBVIOUS
  <2> HIDE DEF new
  <2>4. BoardFits(new)
    BY <2>2, <2>3 DEF BoardFits
  <2>5. PoolFine(parsed.ps.pool) /\ \A j \in DOMAIN left.lboards : left.lboards[j].id # new.id
    BY <1>3, <1>4, <2>3
  <2>7. RtFits(left)
    BY <1>3
  <2>6. /\ RtFits(now) /\ now.triggers = left.triggers
        /\ \A j \in DOMAIN now.lboards : now.lboards[j] = new \/ \E k \in DOMAIN left.lboards : now.lboards[j] = left.lboards[k]
    BY ONLY <2>1, <2>4, <2>5, <2>7, BoardEnters
  <2> QED BY <1>3, <2>2, <2>3, <2>6 DEF BoardStartedAlone
<1> QED BY <1>5, <1>6, <1>7

(* A script's own record among the others keeps what it holds. *)
LEMMA RichOfHolds ==
  ASSUME NEW def, NEW r, RichHolds(r)
  PROVE  RichFits(Rich(def, r)) /\ Rich(def, r).def = def
  BY DEF Rich, RichFits, RichHolds

(* A runtime whose rich presence is another. *)
LEMMA OtherRich ==
  ASSUME NEW rt, RtFits(rt), NEW rich, RichFits(rich), NEW now, now = [rt EXCEPT !.rich = rich]
  PROVE  /\ RtFits(now) /\ now.lboards = rt.lboards /\ now.triggers = rt.triggers /\ now.rich = rich /\ now.pool = rt.pool
<1>1. DOMAIN now = RtFields /\ now.lboards = rt.lboards /\ now.triggers = rt.triggers /\ now.rich = rich /\ now.pool = rt.pool
  BY DEF RtFits, RtFields
<1> QED BY <1>1 DEF RtFits

(* rc_runtime_activate_richpresence. *)
LEMMA ScriptActivated ==
  ASSUME NEW rt, RtFits(rt), NEW def \in DOMAIN Scripts, NEW now, now = ActivateRichPresence(rt, def)
  PROVE  RtFits(now) /\ now.lboards = rt.lboards /\ now.triggers = rt.triggers
<1> DEFINE ps == ParseState(rt.pool, FALSE)
           parsed == ParseRichPresence(Scripts[def], ps)
           again == Rich(def, ResetRichPresence(rt.rich))
           new == Rich(def, ResetRichPresence(parsed.rich))
           placed == [rt EXCEPT !.pool = parsed.ps.pool]
<1>1. CASE rt.rich.def = def
  <2>1. RichFits(again)
    <3>1. RichHolds(ResetRichPresence(rt.rich))
      BY RichReset DEF RtFits, RichFits
    <3> QED BY <3>1, RichOfHolds
  <2>2. now = [rt EXCEPT !.rich = again]
    BY <1>1 DEF ActivateRichPresence
  <2> HIDE DEF again
  <2> QED BY ONLY RtFits(rt), <2>1, <2>2, OtherRich
<1>2. CASE rt.rich.def # def
  <2>1. now = IF parsed.ps.error # Ok THEN rt ELSE [rt EXCEPT !.rich = new, !.pool = parsed.ps.pool]
    BY <1>2 DEF ActivateRichPresence, NewScript
  <2>2. Fine(ps) /\ ~ps.isValue
    BY ParseStateFine DEF RtFits
  <2>3. DOMAIN parsed.rich = {"values", "displays"}
    BY DEF ParseRichPresence, ParseDisplays, RichOf
  <2>4. IsRawScript(Scripts[def])
    BY DefinitionsAssumption
  <2> HIDE DEF ps
  <2>5. RichParsed(ps, parsed)
    BY <2>2, <2>4, RichParses
  <2> HIDE DEF parsed
  <2>6. CASE parsed.ps.error # Ok
    BY <2>1, <2>6
  <2>7. CASE parsed.ps.error = Ok
    <3>1. RichHolds(parsed.rich)
      BY <2>5, <2>7 DEF RichParsed, RichHolds
    <3>2. RichHolds(ResetRichPresence(parsed.rich))
      BY <2>3, <3>1, RichReset
    <3>3. RichFits(new)
      BY <3>2, RichOfHolds
    <3>4. PoolFine(parsed.ps.pool)
      BY <2>5 DEF RichParsed, Stays, Fine
    <3> HIDE DEF new
    <3>5. now = [rt EXCEPT !.rich = new, !.pool = parsed.ps.pool]
      BY <2>1, <2>7
    <3>6. DOMAIN now = RtFields /\ now.lboards = rt.lboards /\ now.triggers = rt.triggers /\ now.rich = new /\ now.pool = parsed.ps.pool
      BY <3>5 DEF RtFits, RtFields
    <3> QED BY <3>3, <3>4, <3>6 DEF RtFits
  <2> QED BY <2>6, <2>7
<1> QED BY <1>1, <1>2

(* Entries that are changed each in its place fit, and so do leaderboards. *)
LEMMA EachEntryFits ==
  ASSUME NEW list, EntriesFit(list), NEW now, DOMAIN now = DOMAIN list, now = [i \in DOMAIN now |-> now[i]],
         \A i \in DOMAIN list : EntryFits(now[i]) /\ now[i].id = list[i].id
  PROVE  EntriesFit(now)
<1>1. IsList(list) /\ Apart(list) /\ \A i \in DOMAIN list : now[i].id = list[i].id
  BY DEF EntriesFit
<1>2. IsList(now) /\ Apart(now)
  BY ONLY <1>1, DOMAIN now = DOMAIN list, now = [i \in DOMAIN now |-> now[i]], EachKeeps
<1> QED BY <1>2 DEF EntriesFit

(* A list of leaderboards each of which fits. *)
LEMMA EachBoardFits ==
  ASSUME NEW list, BoardsFit(list), NEW now, DOMAIN now = DOMAIN list, now = [i \in DOMAIN now |-> now[i]],
         \A i \in DOMAIN list : BoardFits(now[i]) /\ now[i].id = list[i].id
  PROVE  BoardsFit(now)
<1>1. IsList(list) /\ Apart(list) /\ \A i \in DOMAIN list : now[i].id = list[i].id
  BY DEF BoardsFit
<1>2. IsList(now) /\ Apart(now)
  BY ONLY <1>1, DOMAIN now = DOMAIN list, now = [i \in DOMAIN now |-> now[i]], EachKeeps
<1> QED BY <1>2 DEF BoardsFit

(* One entry, and one leaderboard, starts over. *)
LEMMA EntryStartsOver ==
  ASSUME NEW e, EntryFits(e), NEW d, d = ResetEntry(e)
  PROVE  EntryRenewed(e, d) /\ d.invalid = e.invalid
<1> DEFINE t == ResetTrigger(e.trigger)
<1>1. TriggerFits(t, Triggers[e.def]) /\ t.state = "waiting" /\ TriggerNoHits(t)
  BY ResetFits DEF EntryFits
<1>2. d = [e EXCEPT !.trigger = t]
  BY DEF ResetEntry
<1> HIDE DEF t
<1>3. DOMAIN d = DOMAIN e /\ d.id = e.id /\ d.def = e.def /\ d.trigger = t /\ d.invalid = e.invalid
  BY <1>2 DEF EntryFits
<1> QED BY <1>1, <1>3 DEF EntryFits, EntryRenewed

(* rc_reset_lboard: a leaderboard that is reset starts over. *)
LEMMA BoardStartsOver ==
  ASSUME NEW e, BoardFits(e), NEW d, d = ResetBoard(e)
  PROVE  BoardRenewed(e, d) /\ d.invalid = e.invalid
<1> DEFINE l == ResetLboard(e.lboard)
<1>1. LboardFits(l, Lboards[e.def]) /\ l.state = "waiting" /\ \A f \in TriggerNames : TriggerNoHits(l[f])
  BY LboardReset DEF BoardFits
<1>2. d = [e EXCEPT !.lboard = l]
  BY DEF ResetBoard
<1> HIDE DEF l
<1>3. DOMAIN d = DOMAIN e /\ d.id = e.id /\ d.def = e.def /\ d.lboard = l /\ d.invalid = e.invalid
  BY <1>2 DEF BoardFits
<1> QED BY <1>1, <1>3 DEF BoardFits, BoardRenewed

(* rc_runtime_reset starts everything over. *)
LEMMA RuntimeReset ==
  ASSUME NEW rt, RtFits(rt), NEW now, now = ResetRuntime(rt)
  PROVE  RtFits(now) /\ Renewals(rt, now) /\ now.pool = rt.pool
<1> DEFINE trig == [i \in DOMAIN rt.triggers |-> ResetEntry(rt.triggers[i])]
           lb == [i \in DOMAIN rt.lboards |-> ResetBoard(rt.lboards[i])]
           rich == Rich(rt.rich.def, ResetRichPresence(rt.rich))
<1>1. now = [rt EXCEPT !.triggers = trig, !.lboards = lb, !.rich = rich]
  BY DEF ResetRuntime
<1>2. /\ EntriesFit(trig) /\ DOMAIN trig = DOMAIN rt.triggers
      /\ \A i \in DOMAIN rt.triggers : EntryRenewed(rt.triggers[i], trig[i])
  <2>1. DOMAIN trig = DOMAIN rt.triggers /\ trig = [i \in DOMAIN trig |-> trig[i]]
    OBVIOUS
  <2>2. ASSUME NEW i \in DOMAIN rt.triggers
        PROVE  EntryRenewed(rt.triggers[i], trig[i])
    <3>1. EntryFits(rt.triggers[i]) /\ trig[i] = ResetEntry(rt.triggers[i])
      BY DEF RtFits, EntriesFit
    <3> HIDE DEF trig
    <3> QED BY ONLY <3>1, EntryStartsOver
  <2> HIDE DEF trig
  <2>3. EntriesFit(rt.triggers) /\ \A i \in DOMAIN rt.triggers : EntryFits(trig[i]) /\ trig[i].id = rt.triggers[i].id
    BY <2>2 DEF EntryRenewed, RtFits
  <2>4. EntriesFit(trig)
    BY ONLY <2>1, <2>3, EachEntryFits
  <2> QED BY <2>1, <2>2, <2>4
<1>3. /\ BoardsFit(lb) /\ DOMAIN lb = DOMAIN rt.lboards
      /\ \A i \in DOMAIN rt.lboards : BoardRenewed(rt.lboards[i], lb[i])
  <2>1. DOMAIN lb = DOMAIN rt.lboards /\ lb = [i \in DOMAIN lb |-> lb[i]]
    OBVIOUS
  <2>2. ASSUME NEW i \in DOMAIN rt.lboards
        PROVE  BoardRenewed(rt.lboards[i], lb[i])
    <3>1. BoardFits(rt.lboards[i]) /\ lb[i] = ResetBoard(rt.lboards[i])
      BY DEF RtFits, BoardsFit
    <3> HIDE DEF lb
    <3> QED BY ONLY <3>1, BoardStartsOver
  <2> HIDE DEF lb
  <2>3. BoardsFit(rt.lboards) /\ \A i \in DOMAIN rt.lboards : BoardFits(lb[i]) /\ lb[i].id = rt.lboards[i].id
    BY <2>2 DEF BoardRenewed, RtFits
  <2>4. BoardsFit(lb)
    BY ONLY <2>1, <2>3, EachBoardFits
  <2> QED BY <2>1, <2>2, <2>4
<1>4. RichFits(rich)
  <2>1. RichHolds(ResetRichPresence(rt.rich))
    BY RichReset DEF RtFits, RichFits
  <2> QED BY <2>1, RichOfHolds
<1> HIDE DEF trig, lb, rich
<1>5. /\ DOMAIN now = RtFields /\ now.triggers = trig /\ now.lboards = lb /\ now.rich = rich /\ now.pool = rt.pool
  BY <1>1 DEF RtFits, RtFields
<1>6. RtFits(now)
  BY <1>2, <1>3, <1>4, <1>5 DEF RtFits
<1>7. Renewals(rt, now)
  BY <1>2, <1>3, <1>5 DEF Renewals
<1> QED BY <1>5, <1>6, <1>7

(* The order of the references depends on the lists alone, not on what the cells hold. *)
LEMMA PoolAt ==
  ASSUME NEW pool, PoolFine(pool), NEW at, NEW now, now = [pool EXCEPT !.at = at]
  PROVE  PoolFine(now) /\ now.plain = pool.plain /\ now.modified = pool.modified /\ now.at = at
<1>1. DOMAIN now = PoolFields /\ now.plain = pool.plain /\ now.modified = pool.modified /\ now.at = at
  BY DEF PoolFine, PoolFields
<1> QED BY <1>1 DEF PoolFine

(* A runtime is one it weakens to, and one weakened twice is weakened. *)
LEMMA WeakensSelf ==
  ASSUME NEW rt, RtFits(rt)
  PROVE  Weakens(rt, rt)
  BY DEF Weakens, RtFits, EntriesFit, BoardsFit, EntryLike, BoardLike

(* Disabling goes on step by step. *)
LEMMA WeakensOn ==
  ASSUME NEW rt, NEW next, NEW now, Weakens(rt, next), Weakens(next, now)
  PROVE  Weakens(rt, now)
<1>1. ASSUME NEW i \in DOMAIN rt.triggers
      PROVE  EntryLike(rt.triggers[i], now.triggers[i])
  BY DEF Weakens, EntryLike
<1>2. ASSUME NEW i \in DOMAIN rt.lboards
      PROVE  BoardLike(rt.lboards[i], now.lboards[i])
  BY DEF Weakens, BoardLike
<1> QED BY <1>1, <1>2 DEF Weakens

(* Entries changed each in its place, to ones alike, are a runtime weakened. *)
LEMMA WeakensEach ==
  ASSUME NEW rt, RtFits(rt), NEW now, DOMAIN now = RtFields, PoolFine(now.pool), now.rich = rt.rich,
         DOMAIN now.triggers = DOMAIN rt.triggers, now.triggers = [i \in DOMAIN now.triggers |-> now.triggers[i]],
         \A i \in DOMAIN rt.triggers : EntryLike(rt.triggers[i], now.triggers[i]),
         DOMAIN now.lboards = DOMAIN rt.lboards, now.lboards = [i \in DOMAIN now.lboards |-> now.lboards[i]],
         \A i \in DOMAIN rt.lboards : BoardLike(rt.lboards[i], now.lboards[i])
  PROVE  Weakens(rt, now)
<1> DEFINE list == rt.triggers
           trig == now.triggers
           boards == rt.lboards
           lb == now.lboards
<1>1. EntriesFit(list) /\ DOMAIN trig = DOMAIN list /\ trig = [i \in DOMAIN trig |-> trig[i]]
  BY DEF RtFits
<1>2. \A i \in DOMAIN list : EntryFits(trig[i]) /\ trig[i].id = list[i].id
  BY DEF EntryLike
<1>3. BoardsFit(boards) /\ DOMAIN lb = DOMAIN boards /\ lb = [i \in DOMAIN lb |-> lb[i]]
  BY DEF RtFits
<1>4. \A i \in DOMAIN boards : BoardFits(lb[i]) /\ lb[i].id = boards[i].id
  BY DEF BoardLike
<1> HIDE DEF list, trig, boards, lb
<1>5. EntriesFit(trig)
  BY ONLY <1>1, <1>2, EachEntryFits
<1>6. BoardsFit(lb)
  BY ONLY <1>3, <1>4, EachBoardFits
<1> QED BY <1>5, <1>6 DEF trig, lb, RtFits, Weakens

(* A trigger that is turned off fits as it did. *)
LEMMA OffFits ==
  ASSUME NEW t, NEW raw, TriggerFits(t, raw), NEW ref
  PROVE  TriggerFits(TurnedOff(t, ref), raw)
  BY FitsOtherState DEF TurnedOff

(* The triggers of a leaderboard are turned off in their places. *)
LEMMA BoardOff ==
  ASSUME NEW e, BoardFits(e), NEW ref, NEW d,
         d = [e EXCEPT !.invalid = ref, !.lboard.start = TurnedOff(@, ref), !.lboard.cancel = TurnedOff(@, ref),
                       !.lboard.submit = TurnedOff(@, ref)]
  PROVE  BoardLike(e, d)
<1> DEFINE l == e.lboard
           u == d.lboard
           s == TurnedOff(l.start, ref)
           c == TurnedOff(l.cancel, ref)
           q == TurnedOff(l.submit, ref)
<1>1. DOMAIN l = LboardFields /\ DOMAIN e = {"id", "def", "lboard", "value", "invalid"} /\ LboardFits(l, Lboards[e.def])
  BY DEF BoardFits, LboardFits
<1>2. s = TurnedOff(l["start"], ref) /\ c = TurnedOff(l["cancel"], ref) /\ q = TurnedOff(l["submit"], ref)
  OBVIOUS
<1>3. \A f \in TriggerNames : TriggerFits(TurnedOff(l[f], ref), FieldDef(Lboards[e.def], f))
  BY <1>1, OffFits DEF LboardFits
<1>4. d = [e EXCEPT !.invalid = ref, !.lboard = [l EXCEPT !.start = s, !.cancel = c, !.submit = q]]
  BY <1>1 DEF LboardFields
<1> HIDE DEF s, c, q
<1>5. DOMAIN d = {"id", "def", "lboard", "value", "invalid"} /\ d.id = e.id /\ d.def = e.def
  BY <1>1, <1>4
<1>6. u = [l EXCEPT !.start = s, !.cancel = c, !.submit = q]
  BY <1>1, <1>4
<1> HIDE DEF u
<1>7. DOMAIN u = LboardFields /\ u.state = l.state /\ u.value = l.value /\ u.progress = l.progress
  BY <1>1, <1>6 DEF LboardFields
<1>8. u["start"] = s /\ u["cancel"] = c /\ u["submit"] = q
  BY <1>1, <1>6 DEF LboardFields
<1>9. \A f \in TriggerNames : u[f] = TurnedOff(l[f], ref)
  BY <1>2, <1>8 DEF TriggerNames
<1>10. LboardFits(u, Lboards[e.def])
  BY <1>1, <1>3, <1>7, <1>9 DEF LboardFits, ValuesShaped
<1> QED BY <1>5, <1>7, <1>10 DEF u, BoardFits, BoardLike

(* rc_runtime_invalidate_memref weakens the runtime. *)
LEMMA MemrefInvalidated ==
  ASSUME NEW rt, RtFits(rt), NEW ref, NEW now, now = InvalidateMemref(rt, ref)
  PROVE  Weakens(rt, now)
<1> DEFINE trigger(e) == IF e.invalid = NoRef /\ TriggerContains(e.trigger, ref) THEN [e EXCEPT !.invalid = ref] ELSE e
           hit(l) == ValueContains(l.value, ref) \/ \E t \in {l.start, l.cancel, l.submit} : TriggerContains(t, ref)
           off(e) == [e EXCEPT !.invalid = ref, !.lboard.start = TurnedOff(@, ref), !.lboard.cancel = TurnedOff(@, ref),
                               !.lboard.submit = TurnedOff(@, ref)]
           board(e) == IF e.invalid # NoRef \/ ~hit(e.lboard) THEN e ELSE off(e)
           trig == [i \in DOMAIN rt.triggers |-> trigger(rt.triggers[i])]
           lb == [i \in DOMAIN rt.lboards |-> board(rt.lboards[i])]
           at == [rt.pool.at EXCEPT ![ref].type = "none"]
           pool == [rt.pool EXCEPT !.at = at]
<1>1. now = [rt EXCEPT !.pool = pool, !.triggers = trig, !.lboards = lb]
  BY DEF InvalidateMemref, TurnedOff
<1>2. PoolFine(pool)
  <2> HIDE DEF at
  <2> QED BY PoolAt DEF RtFits
<1>3. /\ DOMAIN trig = DOMAIN rt.triggers /\ trig = [i \in DOMAIN trig |-> trig[i]]
      /\ DOMAIN lb = DOMAIN rt.lboards /\ lb = [i \in DOMAIN lb |-> lb[i]]
  BY ZenonT(60)
<1>4. ASSUME NEW i \in DOMAIN rt.triggers
      PROVE  EntryLike(rt.triggers[i], trig[i])
  <2> DEFINE e == rt.triggers[i]
  <2>1. EntryFits(e) /\ trig[i] = trigger(e)
    BY DEF RtFits, EntriesFit
  <2> HIDE DEF e, trig
  <2>2. DOMAIN trigger(e) = DOMAIN e /\ trigger(e).id = e.id /\ trigger(e).def = e.def /\ trigger(e).trigger = e.trigger
    BY <2>1 DEF EntryFits
  <2> QED BY <2>1, <2>2 DEF e, EntryFits, EntryLike
<1>5. ASSUME NEW i \in DOMAIN rt.lboards
      PROVE  BoardLike(rt.lboards[i], lb[i])
  <2> DEFINE e == rt.lboards[i]
             d == off(e)
  <2>1. BoardFits(e) /\ lb[i] \in {e, d}
    BY DEF RtFits, BoardsFit
  <2>2. d = off(e)
    OBVIOUS
  <2> HIDE DEF e, lb, d
  <2>3. BoardLike(e, d)
    BY ONLY <2>1, <2>2, BoardOff
  <2>4. BoardLike(e, e)
    BY <2>1 DEF BoardLike
  <2> QED BY <2>1, <2>3, <2>4 DEF e
<1> HIDE DEF trig, lb, pool
<1>6. DOMAIN now = RtFields /\ now.pool = pool /\ now.triggers = trig /\ now.lboards = lb /\ now.rich = rt.rich
  BY <1>1 DEF RtFits, RtFields
<1> QED BY RtFits(rt), <1>2, <1>3, <1>4, <1>5, <1>6, WeakensEach

FInvalid == INSTANCE FoldFacts WITH Op <- StepInvalid, Holds <- HoldsInvalid

(* The references of bad addresses are invalidated by a fold. *)
LEMMA InvalidFold ==
  ASSUME NEW rt, NEW bad
  PROVE  InvalidateAll(rt, bad) = FInvalid!Result(bad, rt, rt.pool.plain)
  BY DEF InvalidateAll, FoldLeft, MapThenFoldSet, FInvalid!Result, FInvalid!Table, FInvalid!Greatest, Max, StepInvalid

(* Making addresses invalid weakens the runtime. *)
LEMMA AllInvalidated ==
  ASSUME NEW rt, RtFits(rt), NEW bad
  PROVE  Weakens(rt, InvalidateAll(rt, bad))
<1> DEFINE items == rt.pool.plain
           n == Len(items)
<1>1. n \in Nat /\ DOMAIN items = 1..n
  BY ListFacts DEF RtFits, PoolFine
<1>2. HoldsInvalid(bad, rt, 0, rt)
  BY WeakensSelf DEF HoldsInvalid
<1>3. InvalidateAll(rt, bad) = FInvalid!Result(bad, rt, items)
  BY InvalidFold
<1> HIDE DEF n, items
<1>4. \A k \in 1..n : \A a : HoldsInvalid(bad, rt, k - 1, a) => HoldsInvalid(bad, rt, k, StepInvalid(bad, a, items[k]))
  <2> TAKE k \in 1..n
  <2> TAKE a
  <2> DEFINE ref == items[k]
             u == InvalidateMemref(a, ref)
  <2> HIDE DEF ref
  <2> HAVE HoldsInvalid(bad, rt, k - 1, a)
  <2>1. RtFits(a) /\ Weakens(rt, a) /\ u = InvalidateMemref(a, ref)
    BY DEF HoldsInvalid
  <2>2. StepInvalid(bad, a, ref) \in {a, u}
    BY DEF StepInvalid
  <2> HIDE DEF u
  <2>3. Weakens(a, u)
    BY <2>1, MemrefInvalidated
  <2>4. Weakens(rt, u) /\ RtFits(u)
    BY <2>1, <2>3, WeakensOn DEF Weakens
  <2> QED BY <2>1, <2>2, <2>4 DEF HoldsInvalid, ref
<1>5. HoldsInvalid(bad, rt, n, FInvalid!Result(bad, rt, items))
  BY ONLY <1>1, <1>2, <1>4, FInvalid!FoldKeeps, Induction
<1> QED BY <1>3, <1>5 DEF HoldsInvalid

(* What two lists one after the other hold is in one of them. *)
LEMMA ConcatFrom ==
  ASSUME NEW s, IsList(s), NEW t, IsList(t), NEW j \in DOMAIN (s \o t)
  PROVE  (\E m \in DOMAIN s : (s \o t)[j] = s[m]) \/ (\E m \in DOMAIN t : (s \o t)[j] = t[m])
<1> DEFINE n == Len(s)
           k == Len(t)
           all == s \o t
<1>1. n \in Nat /\ DOMAIN s = 1..n /\ k \in Nat /\ DOMAIN t = 1..k
  BY ListFacts
<1>2. DOMAIN all = 1..(n + k) /\ (\A i \in 1..n : all[i] = s[i]) /\ (\A i \in 1..k : all[n + i] = t[i])
  BY ConcatFacts
<1>3. j \in DOMAIN all
  OBVIOUS
<1> HIDE DEF n, k, all
<1>4. j \in 1..n \/ (j - n \in 1..k /\ n + (j - n) = j)
  BY <1>1, <1>2, <1>3
<1>5. (\E m \in DOMAIN s : all[j] = s[m]) \/ (\E m \in DOMAIN t : all[j] = t[m])
  BY <1>1, <1>2, <1>4
<1> QED BY <1>5 DEF all

FTold == INSTANCE FoldFacts WITH Op <- StepTold, Holds <- HoldsTold

(* What the entries of a list told is gathered by a fold. *)
LEMMA ToldFold ==
  ASSUME NEW told
  PROVE  FromLast(told) = FTold!Result(told, <<>>, told)
  BY DEF FromLast, FoldLeft, MapThenFoldSet, FTold!Result, FTold!Table, FTold!Greatest, Max, StepTold

(* What is told was told by one of the entries. *)
LEMMA ToldByOne ==
  ASSUME NEW told, IsList(told), \A i \in DOMAIN told : IsList(told[i])
  PROVE  /\ IsList(FromLast(told))
         /\ \A j \in DOMAIN FromLast(told) : \E i \in DOMAIN told : \E m \in DOMAIN told[i] : FromLast(told)[j] = told[i][m]
<1> DEFINE n == Len(told)
<1>1. n \in Nat /\ DOMAIN told = 1..n
  BY ListFacts
<1>2. HoldsTold(told, <<>>, 0, <<>>)
  BY EmptyList DEF HoldsTold
<1>3. FromLast(told) = FTold!Result(told, <<>>, told)
  BY ToldFold
<1> HIDE DEF n
<1>4. \A k \in 1..n : \A a : HoldsTold(told, <<>>, k - 1, a) => HoldsTold(told, <<>>, k, StepTold(told, a, told[k]))
  <2> TAKE k \in 1..n
  <2> TAKE a
  <2> DEFINE said == told[k]
             all == said \o a
  <2> HAVE HoldsTold(told, <<>>, k - 1, a)
  <2>1. IsList(said) /\ IsList(a) /\ \A j \in DOMAIN a : \E i \in 1..(k - 1) : \E m \in DOMAIN told[i] : a[j] = told[i][m]
    BY <1>1 DEF HoldsTold
  <2>2. IsList(all)
    BY <2>1, ConcatFacts
  <2>3. ASSUME NEW j \in DOMAIN all
        PROVE  \E i \in 1..k : \E m \in DOMAIN told[i] : all[j] = told[i][m]
    <3>1. (\E m \in DOMAIN said : all[j] = said[m]) \/ (\E m \in DOMAIN a : all[j] = a[m])
      BY <2>1, ConcatFrom
    <3>2. 1..(k - 1) \subseteq 1..k /\ k \in 1..k
      BY <1>1
    <3> HIDE DEF all
    <3>3. CASE \E m \in DOMAIN said : all[j] = said[m]
      BY <3>2, <3>3
    <3>4. CASE \E m \in DOMAIN a : all[j] = a[m]
      <4>1. PICK m \in DOMAIN a : all[j] = a[m]
        BY <3>4
      <4>2. PICK i \in 1..(k - 1) : \E x \in DOMAIN told[i] : a[m] = told[i][x]
        BY <2>1
      <4> QED BY <3>2, <4>1, <4>2
    <3> QED BY <3>1, <3>3, <3>4
  <2> QED BY <2>2, <2>3 DEF HoldsTold, StepTold
<1>5. HoldsTold(told, <<>>, n, FTold!Result(told, <<>>, told))
  BY ONLY <1>1, <1>2, <1>4, FTold!FoldKeeps, Induction
<1> QED BY <1>1, <1>3, <1>5 DEF HoldsTold

(* One event told of for each entry that is off, and none for the others, are quiet. *)
LEMMA OffQuiet ==
  ASSUME NEW list, IsList(list), NEW type \in {"disabled", "lboard_disabled"}, NEW told,
         told = [i \in DOMAIN list |-> IF list[i].invalid # NoRef THEN <<Event(type, list[i].id, list[i].invalid.address)>> ELSE <<>>]
  PROVE  IsList(FromLast(told)) /\ Quiet(FromLast(told))
<1> DEFINE n == Len(list)
           all == FromLast(told)
<1>1. n \in Nat /\ DOMAIN list = 1..n
  BY ListFacts
<1>2. DOMAIN told = 1..n /\ told = [i \in 1..n |-> told[i]]
  BY <1>1
<1> HIDE DEF n
<1>3. IsList(told)
  BY ONLY <1>1, <1>2, FunctionIsList
<1>4. ASSUME NEW i \in DOMAIN told
      PROVE  IsList(told[i]) /\ \A m \in DOMAIN told[i] : told[i][m].type = type
  <2> DEFINE x == Event(type, list[i].id, list[i].invalid.address)
  <2>1. told[i] \in {<<x>>, <<>>}
    BY <1>1, <1>2
  <2>2. x.type = type
    BY DEF Event
  <2> HIDE DEF x
  <2>3. IsList(<<x>>) /\ DOMAIN <<x>> = 1..1 /\ <<x>>[1] = x
    BY OneList
  <2>4. IsList(<<>>) /\ DOMAIN <<>> = {}
    BY EmptyList
  <2> QED BY <2>1, <2>2, <2>3, <2>4
<1>5. IsList(all) /\ \A j \in DOMAIN all : \E i \in DOMAIN told : \E m \in DOMAIN told[i] : all[j] = told[i][m]
  BY ONLY <1>3, <1>4, ToldByOne
<1> HIDE DEF all
<1>6. ASSUME NEW j \in DOMAIN all
      PROVE  all[j].type = type
  <2>1. PICK i \in DOMAIN told : \E m \in DOMAIN told[i] : all[j] = told[i][m]
    BY <1>5
  <2>2. PICK m \in DOMAIN told[i] : all[j] = told[i][m]
    BY <2>1
  <2> QED BY <1>4, <2>2
<1> QED BY <1>5, <1>6 DEF Quiet, all

(* And so are two such lists, one after the other. *)
LEMMA QuietConcat ==
  ASSUME NEW s, IsList(s), Quiet(s), NEW t, IsList(t), Quiet(t)
  PROVE  Quiet(s \o t)
  BY ConcatFrom DEF Quiet

(* Told of at once: what is off is disabled, and nothing else is told. *)
LEMMA InvalidDisabled ==
  ASSUME NEW rt, RtFits(rt)
  PROVE  Weakens(rt, DisableInvalid(rt).rt) /\ Quiet(DisableInvalid(rt).events)
<1> DEFINE trigger(e) == IF e.invalid # NoRef THEN [e EXCEPT !.trigger.state = "disabled", !.invalid = NoRef] ELSE e
           board(e) == IF e.invalid # NoRef THEN [e EXCEPT !.lboard.state = "disabled", !.invalid = NoRef] ELSE e
           trig == [i \in DOMAIN rt.triggers |-> trigger(rt.triggers[i])]
           lb == [i \in DOMAIN rt.lboards |-> board(rt.lboards[i])]
           told(list, type) == [i \in DOMAIN list |->
             IF list[i].invalid # NoRef THEN <<Event(type, list[i].id, list[i].invalid.address)>> ELSE <<>>]
           s == told(rt.triggers, "disabled")
           t == told(rt.lboards, "lboard_disabled")
           now == [rt EXCEPT !.triggers = trig, !.lboards = lb]
<1>1. DisableInvalid(rt) = [rt |-> now, events |-> FromLast(s) \o FromLast(t)]
  BY DEF DisableInvalid
<1>2. IsList(rt.triggers) /\ IsList(rt.lboards)
  BY DEF RtFits, EntriesFit, BoardsFit
<1>3. Quiet(FromLast(s) \o FromLast(t))
  <2>1. IsList(FromLast(s)) /\ Quiet(FromLast(s))
    BY <1>2, OffQuiet
  <2>2. IsList(FromLast(t)) /\ Quiet(FromLast(t))
    BY <1>2, OffQuiet
  <2> HIDE DEF s, t
  <2> QED BY <2>1, <2>2, QuietConcat
<1>4. /\ DOMAIN trig = DOMAIN rt.triggers /\ trig = [i \in DOMAIN trig |-> trig[i]]
      /\ DOMAIN lb = DOMAIN rt.lboards /\ lb = [i \in DOMAIN lb |-> lb[i]]
  OBVIOUS
<1>5. ASSUME NEW i \in DOMAIN rt.triggers
      PROVE  EntryLike(rt.triggers[i], trig[i])
  <2> DEFINE e == rt.triggers[i]
             u == [e.trigger EXCEPT !.state = "disabled"]
             d == [e EXCEPT !.trigger = u, !.invalid = NoRef]
  <2>1. EntryFits(e) /\ trig[i] \in {e, d}
    BY DEF RtFits, EntriesFit
  <2> HIDE DEF e, trig
  <2>2. TriggerFits(u, Triggers[e.def]) /\ u.state = "disabled"
    BY <2>1, FitsOtherState DEF EntryFits
  <2> HIDE DEF u
  <2>3. DOMAIN d = DOMAIN e /\ d.id = e.id /\ d.def = e.def /\ d.trigger = u
    BY <2>1 DEF EntryFits
  <2>4. EntryLike(e, d) /\ EntryLike(e, e)
    BY <2>1, <2>2, <2>3 DEF EntryFits, EntryLike
  <2> QED BY <2>1, <2>4 DEF e
<1>6. ASSUME NEW i \in DOMAIN rt.lboards
      PROVE  BoardLike(rt.lboards[i], lb[i])
  <2> DEFINE e == rt.lboards[i]
             u == [e.lboard EXCEPT !.state = "disabled"]
             d == [e EXCEPT !.lboard = u, !.invalid = NoRef]
  <2>1. BoardFits(e) /\ lb[i] \in {e, d}
    BY DEF RtFits, BoardsFit
  <2> HIDE DEF e, lb
  <2>2. /\ DOMAIN u = LboardFields /\ u.state = "disabled" /\ u.value = e.lboard.value
        /\ u.progress = e.lboard.progress /\ \A f \in TriggerNames : u[f] = e.lboard[f]
    BY <2>1, BoardState DEF BoardFits, LboardFits
  <2> HIDE DEF u
  <2>3. LboardFits(u, Lboards[e.def])
    BY <2>1, <2>2 DEF BoardFits, LboardFits, ValuesShaped
  <2>4. DOMAIN d = DOMAIN e /\ d.id = e.id /\ d.def = e.def /\ d.lboard = u
    BY <2>1 DEF BoardFits
  <2>5. BoardLike(e, d) /\ BoardLike(e, e)
    BY <2>1, <2>2, <2>3, <2>4 DEF BoardFits, BoardLike
  <2> QED BY <2>1, <2>5 DEF e
<1> HIDE DEF trig, lb, s, t
<1>7. DOMAIN now = RtFields /\ now.pool = rt.pool /\ now.triggers = trig /\ now.lboards = lb /\ now.rich = rt.rich
  BY DEF RtFits, RtFields
<1> HIDE DEF now
<1>8. Weakens(rt, now)
  BY RtFits(rt), PoolFine(rt.pool), <1>4, <1>5, <1>6, <1>7, WeakensEach DEF RtFits
<1> QED BY <1>1, <1>3, <1>8

(* rc_runtime_validate_addresses weakens the runtime, and tells of nothing but that. *)
LEMMA AddressesValidated ==
  ASSUME NEW rt, RtFits(rt), NEW bad, NEW r, r = ValidateAddresses(rt, bad)
  PROVE  Weakens(rt, r.rt) /\ Quiet(r.events)
<1> DEFINE next == InvalidateAll(rt, bad)
<1>1. Weakens(rt, next) /\ RtFits(next)
  BY AllInvalidated DEF Weakens
<1>2. r = [rt |-> rt, events |-> <<>>] \/ r = DisableInvalid(next)
  BY DEF ValidateAddresses
<1> HIDE DEF next
<1>3. CASE r = DisableInvalid(next)
  BY <1>1, <1>3, InvalidDisabled, WeakensOn
<1>4. CASE r = [rt |-> rt, events |-> <<>>]
  BY <1>4, WeakensSelf, EmptyList DEF Quiet
<1> QED BY <1>2, <1>3, <1>4

(* At most one event. *)
LEMMA OneOrNone ==
  ASSUME NEW x, NEW s, s = <<x>> \/ s = <<>>
  PROVE  IsList(s) /\ \A m \in DOMAIN s : s[m] = x
<1>1. IsList(<<x>>) /\ DOMAIN <<x>> = 1..1 /\ <<x>>[1] = x
  BY OneList
<1>2. IsList(<<>>) /\ DOMAIN <<>> = {}
  BY EmptyList
<1> QED BY <1>1, <1>2

(* The events for a change of state tell "triggered" only of that state. *)
LEMMA StateEventsFacts ==
  ASSUME NEW id, NEW old, NEW new, NEW s, s = StateEvents(id, old, new)
  PROVE  /\ IsList(s)
         /\ \A m \in DOMAIN s : s[m].id = id /\ s[m].type # "started" /\ (s[m].type = "triggered" => new = "triggered")
<1> DEFINE x == Event("unprimed", id, 0)
           y == Event(IF new = "active" THEN "activated" ELSE new, id, 0)
           moved == new # old /\ (new \in {"triggered", "paused", "primed"} \/ (new = "active" /\ old \in {"waiting", "paused"}))
           a == IF old = "primed" /\ new # old THEN <<x>> ELSE <<>>
           b == IF moved THEN <<y>> ELSE <<>>
<1>1. s = a \o b
  BY DEF StateEvents
<1>2. (a = <<x>> \/ a = <<>>) /\ (b = <<y>> \/ b = <<>>) /\ (~moved => b = <<>>)
  OBVIOUS
<1>3. x.id = id /\ x.type = "unprimed" /\ y.id = id /\ y.type = (IF new = "active" THEN "activated" ELSE new)
  BY DEF Event
<1>4. moved => y.type \in {"triggered", "paused", "primed", "activated"} /\ (y.type = "triggered" => new = "triggered")
  BY <1>3
<1> HIDE DEF x, y, a, b, moved
<1>5. IsList(a) /\ IsList(b) /\ (\A m \in DOMAIN a : a[m] = x) /\ (\A m \in DOMAIN b : b[m] = y)
  BY <1>2, OneOrNone
<1>6. ASSUME NEW m \in DOMAIN b
      PROVE  b[m].id = id /\ b[m].type # "started" /\ (b[m].type = "triggered" => new = "triggered")
  <2>1. moved
    <3>1. DOMAIN <<>> = {}
      BY EmptyList
    <3> QED BY <1>2, <3>1
  <2> QED BY <1>3, <1>4, <1>5, <2>1
<1>7. ASSUME NEW m \in DOMAIN a
      PROVE  a[m].id = id /\ a[m].type # "started" /\ a[m].type # "triggered"
  BY <1>3, <1>5
<1>8. IsList(s)
  BY <1>1, <1>5, ConcatFacts
<1>9. \A m \in DOMAIN s : (\E j \in DOMAIN a : s[m] = a[j]) \/ (\E j \in DOMAIN b : s[m] = b[j])
  BY <1>1, <1>5, ConcatFrom, SMTT(60)
<1> QED BY <1>6, <1>7, <1>8, <1>9

(* The progress of an achievement is told of with its id. *)
LEMMA ProgressEventsFacts ==
  ASSUME NEW id, NEW old, NEW t, NEW state, NEW s, s = ProgressEvents(id, old, t, state)
  PROVE  IsList(s) /\ \A m \in DOMAIN s : s[m].id = id /\ s[m].type = "progress"
<1> DEFINE told == /\ t.measured # old /\ old # MeasuredUnknown /\ t.target # 0 /\ t.measured <= t.target
                   /\ state \notin {"triggered", "inactive", "waiting"}
           percent(n) == (n * 100) \div t.target
           x == Event("progress", id, percent(t.measured))
           y == Event("progress", id, t.measured)
<1>1. \/ s = <<>> \/ s = <<x>> \/ s = <<y>>
  <2>1. s = (CASE ~told -> <<>>
          [] told /\ t.percent /\ percent(old) = percent(t.measured) -> <<>>
          [] told /\ t.percent /\ percent(old) # percent(t.measured) -> <<x>>
          [] OTHER -> <<y>>)
    BY DEF ProgressEvents
  <2> HIDE DEF told, percent, x, y
  <2> QED BY <2>1
<1>2. x.id = id /\ x.type = "progress" /\ y.id = id /\ y.type = "progress"
  BY DEF Event
<1> HIDE DEF x, y
<1> QED BY <1>1, <1>2, OneOrNone

(* An achievement's frame. *)
LEMMA EntryEvents ==
  ASSUME NEW e, EntryFits(e), NEW at, NEW f, f = FrameTrigger(e, at)
  PROVE  /\ EntryRan(e, f.entry) /\ IsList(f.events)
         /\ \A m \in DOMAIN f.events : TellsEntry(f.events[m], e, f.entry)
<1>1. CASE e.invalid = NoRef
  <2> DEFINE t == e.trigger
             r == EvaluateTrigger(t, at)
             new == IF r.result = "reset" THEN r.trigger.state ELSE r.result
             x == Event("reset", e.id, 0)
             reset == IF r.result = "reset" THEN <<x>> ELSE <<>>
             progress == ProgressEvents(e.id, t.measured, r.trigger, new)
             states == StateEvents(e.id, t.state, new)
             d == [e EXCEPT !.trigger = r.trigger]
  <2>1. f = [entry |-> d, events |-> reset \o progress \o states]
    BY <1>1 DEF FrameTrigger, TriggerEvents
  <2>2. TriggerFits(t, Triggers[e.def])
    BY DEF EntryFits
  <2>3. TriggerMoved(t, r)
    BY <2>2, FitsShaped, TriggerMoves
  <2>4. /\ IsList(states)
        /\ \A m \in DOMAIN states : /\ states[m].id = e.id /\ states[m].type # "started"
                                    /\ states[m].type = "triggered" => new = "triggered"
    BY StateEventsFacts
  <2>5. IsList(progress) /\ \A m \in DOMAIN progress : progress[m].id = e.id /\ progress[m].type = "progress"
    BY ProgressEventsFacts
  <2>6. IsList(reset) /\ \A m \in DOMAIN reset : reset[m].id = e.id /\ reset[m].type = "reset"
    <3>1. reset = <<x>> \/ reset = <<>>
      OBVIOUS
    <3>2. x.id = e.id /\ x.type = "reset"
      BY DEF Event
    <3> HIDE DEF x, reset
    <3> QED BY <3>1, <3>2, OneOrNone
  <2>7. new = NewState(r)
    BY DEF NewState
  <2> HIDE DEF r, new, reset, progress, states
  <2>8. TriggerFits(r.trigger, Triggers[e.def])
    BY <2>2, <2>3, TriggerStaysFit DEF TriggerMoved
  <2>9. DOMAIN d = DOMAIN e /\ d.id = e.id /\ d.def = e.def /\ d.trigger = r.trigger
    BY DEF EntryFits
  <2> HIDE DEF d
  <2>10. EntryRan(e, d)
    BY <2>3, <2>8, <2>9 DEF EntryFits, EntryRan, TriggerMoved
  <2>11. new = "triggered" => TriggerStateActive(t.state) /\ t.state # "waiting" /\ d.trigger.state = "triggered"
    BY <2>3, <2>7, <2>9 DEF TriggerMoved
  <2>12. IsList(reset \o progress) /\ IsList(reset \o progress \o states)
    BY <2>4, <2>5, <2>6, ConcatFacts
  <2>13. ASSUME NEW m \in DOMAIN (reset \o progress \o states)
         PROVE  TellsEntry((reset \o progress \o states)[m], e, d)
    <3> DEFINE both == reset \o progress
               all == both \o states
    <3>1. IsList(both) /\ IsList(states) /\ m \in DOMAIN all
      BY <2>4, <2>12, <2>13
    <3>2. \A j \in DOMAIN both : (\E k \in DOMAIN reset : both[j] = reset[k]) \/ (\E k \in DOMAIN progress : both[j] = progress[k])
      BY <2>5, <2>6, ConcatFrom
    <3>3. (\E j \in DOMAIN both : all[m] = both[j]) \/ (\E j \in DOMAIN states : all[m] = states[j])
      <4> HIDE DEF both
      <4> QED BY <3>1, ConcatFrom
    <3> HIDE DEF both, all
    <3>4. CASE \E j \in DOMAIN both : all[m] = both[j]
      <4>1. PICK j \in DOMAIN both : all[m] = both[j]
        BY <3>4
      <4>2. all[m].id = e.id /\ all[m].type \in {"reset", "progress"}
        BY <2>5, <2>6, <3>2, <4>1
      <4> QED BY <4>2 DEF TellsEntry, all, both
    <3>5. CASE \E j \in DOMAIN states : all[m] = states[j]
      <4>1. all[m].id = e.id /\ all[m].type # "started" /\ (all[m].type = "triggered" => new = "triggered")
        BY <2>4, <3>5
      <4> QED BY <2>11, <4>1 DEF TellsEntry, all, both
    <3> QED BY <3>3, <3>4, <3>5
  <2>14. f.entry = d /\ f.events = reset \o progress \o states
    BY <2>1
  <2> QED BY <2>10, <2>12, <2>13, <2>14
<1>2. CASE e.invalid # NoRef
  <2> DEFINE u == [e.trigger EXCEPT !.state = "disabled"]
             d == [e EXCEPT !.trigger = u, !.invalid = NoRef]
             x == Event("disabled", e.id, e.invalid.address)
  <2>1. f = [entry |-> d, events |-> <<x>>]
    BY <1>2 DEF FrameTrigger
  <2>2. TriggerFits(u, Triggers[e.def]) /\ u.state = "disabled"
    BY FitsOtherState DEF EntryFits
  <2> HIDE DEF u
  <2>3. DOMAIN d = DOMAIN e /\ d.id = e.id /\ d.def = e.def /\ d.trigger = u
    BY DEF EntryFits
  <2>4. x.id = e.id /\ x.type = "disabled"
    BY DEF Event
  <2> HIDE DEF d, x
  <2>5. EntryRan(e, d)
    BY <2>2, <2>3 DEF EntryFits, EntryRan
  <2>6. IsList(<<x>>) /\ \A m \in DOMAIN <<x>> : <<x>>[m] = x
    BY OneOrNone
  <2> QED BY <2>1, <2>4, <2>5, <2>6 DEF TellsEntry
<1> QED BY <1>1, <1>2

(* A leaderboard in another state fits as it did. *)
LEMMA BoardOtherState ==
  ASSUME NEW l, NEW fields, LboardFits(l, fields), NEW state, NEW u, u = [l EXCEPT !.state = state]
  PROVE  LboardFits(u, fields) /\ u.state = state
<1>1. /\ DOMAIN u = LboardFields /\ u.state = state /\ u.value = l.value /\ u.progress = l.progress
      /\ \A f \in TriggerNames : u[f] = l[f]
  BY BoardState DEF LboardFits
<1> QED BY <1>1 DEF LboardFits, ValuesShaped

(* A leaderboard's frame. *)
LEMMA BoardEvents ==
  ASSUME NEW e, BoardFits(e), NEW at, NEW f, f = FrameLboard(e, at)
  PROVE  /\ BoardRan(e, f.entry) /\ IsList(f.events)
         /\ \A m \in DOMAIN f.events : TellsBoard(f.events[m], e, f.entry)
<1>1. CASE e.invalid = NoRef
  <2> DEFINE r == EvaluateLboard(e.lboard, at)
             was == e.lboard.state
             valued == [e EXCEPT !.lboard = r.lboard, !.value = r.value]
             plain == [e EXCEPT !.lboard = r.lboard]
             started == Event("started", e.id, r.value)
             updated == Event("updated", e.id, r.value)
             canceled == Event("canceled", e.id, 0)
             submitted == Event("submitted", e.id, r.value)
  <2>1. f = LboardEvents(e, r)
    BY <1>1 DEF FrameLboard
  <2>2. LboardFits(e.lboard, Lboards[e.def])
    BY DEF BoardFits
  <2>3. LboardMoved(e.lboard, r)
    BY <2>2, LboardFitsShaped, LboardMoves
  <2> HIDE DEF r
  <2>4. LboardFits(r.lboard, Lboards[e.def])
    BY <2>2, <2>3, LboardStaysFit DEF LboardMoved
  <2>5. /\ DOMAIN valued = DOMAIN e /\ valued.id = e.id /\ valued.def = e.def /\ valued.lboard = r.lboard
        /\ DOMAIN plain = DOMAIN e /\ plain.id = e.id /\ plain.def = e.def /\ plain.lboard = r.lboard
    BY DEF BoardFits
  <2>6. /\ started.id = e.id /\ started.type = "started" /\ updated.id = e.id /\ updated.type = "updated"
        /\ canceled.id = e.id /\ canceled.type = "canceled" /\ submitted.id = e.id /\ submitted.type = "submitted"
    BY DEF Event
  <2>7. \/ f = [entry |-> valued, events |-> <<started>>] /\ r.result = "started" /\ was # "started"
        \/ f = [entry |-> valued, events |-> <<updated>>]
        \/ f = [entry |-> plain, events |-> <<canceled>>]
        \/ f = [entry |-> plain, events |-> <<submitted>>]
        \/ f = [entry |-> plain, events |-> <<>>]
    <3>1. f = (CASE r.result = "started" /\ was # "started" -> [entry |-> valued, events |-> <<started>>]
          [] r.result = "started" /\ was = "started" /\ r.value # e.value -> [entry |-> valued, events |-> <<updated>>]
          [] r.result = "canceled" /\ was # "canceled" -> [entry |-> plain, events |-> <<canceled>>]
          [] r.result = "triggered" /\ was # "triggered" -> [entry |-> plain, events |-> <<submitted>>]
          [] OTHER -> [entry |-> plain, events |-> <<>>])
      BY <2>1 DEF LboardEvents
    <3> HIDE DEF was, valued, plain, started, updated, canceled, submitted
    <3> QED BY <3>1
  <2> HIDE DEF valued, plain, started, updated, canceled, submitted
  <2>8. f.entry \in {valued, plain}
    BY <2>7
  <2>9. BoardRan(e, f.entry) /\ f.entry.lboard = r.lboard
    <3>1. BoardRan(e, valued)
      BY <2>3, <2>4, <2>5 DEF BoardFits, BoardRan, LboardMoved
    <3>2. BoardRan(e, plain)
      BY <2>3, <2>4, <2>5 DEF BoardFits, BoardRan, LboardMoved
    <3> QED BY <2>5, <2>8, <3>1, <3>2
  <2>10. r.result = "started" /\ was # "started" => AtMostOne(r.lboard.value.sets)
    BY <2>3 DEF LboardMoved
  <2>11. \E x : /\ f.events = <<x>> \/ f.events = <<>>
                /\ x.id = e.id /\ x.type # "triggered"
                /\ x.type = "started" => r.result = "started" /\ was # "started"
    <3>1. CASE f.events = <<started>> /\ r.result = "started" /\ was # "started"
      BY <2>6, <3>1
    <3>2. CASE f.events = <<updated>>
      BY <2>6, <3>2
    <3>3. CASE f.events = <<canceled>>
      BY <2>6, <3>3
    <3>4. CASE f.events = <<submitted>> \/ f.events = <<>>
      BY <2>6, <3>4
    <3> QED BY <2>7, <3>1, <3>2, <3>3, <3>4
  <2> HIDE DEF was
  <2>12. IsList(f.events) /\ \A m \in DOMAIN f.events : TellsBoard(f.events[m], e, f.entry)
    <3>1. PICK x : /\ f.events = <<x>> \/ f.events = <<>>
                   /\ x.id = e.id /\ x.type # "triggered"
                   /\ x.type = "started" => r.result = "started" /\ was # "started"
      BY <2>11
    <3>2. IsList(f.events) /\ \A m \in DOMAIN f.events : f.events[m] = x
      BY ONLY <3>1, OneOrNone
    <3>3. TellsBoard(x, e, f.entry)
      BY <2>9, <2>10, <3>1 DEF TellsBoard
    <3> QED BY <3>2, <3>3
  <2> QED BY <2>9, <2>12
<1>2. CASE e.invalid # NoRef
  <2> DEFINE u == [e.lboard EXCEPT !.state = "disabled"]
             d == [e EXCEPT !.lboard = u, !.invalid = NoRef]
             x == Event("lboard_disabled", e.id, e.invalid.address)
  <2>1. f = [entry |-> d, events |-> <<x>>]
    BY <1>2 DEF FrameLboard
  <2>2. LboardFits(u, Lboards[e.def]) /\ u.state = "disabled"
    BY BoardOtherState DEF BoardFits
  <2> HIDE DEF u
  <2>4. DOMAIN d = DOMAIN e /\ d.id = e.id /\ d.def = e.def /\ d.lboard = u
    BY DEF BoardFits
  <2>5. x.id = e.id /\ x.type = "lboard_disabled"
    BY DEF Event
  <2> HIDE DEF d, x
  <2>6. BoardRan(e, d)
    BY <2>2, <2>4 DEF BoardFits, BoardRan
  <2>7. IsList(<<x>>) /\ \A m \in DOMAIN <<x>> : <<x>>[m] = x
    BY OneOrNone
  <2> QED BY <2>1, <2>5, <2>6, <2>7 DEF TellsBoard
<1> QED BY <1>1, <1>2

(* The events of a list of entries, each event told by one of them. *)
LEMMA ListTold ==
  ASSUME NEW list, IsList(list), NEW t, DOMAIN t = DOMAIN list,
         \A i \in DOMAIN list : IsList(t[i].events),
         NEW told, told = [i \in DOMAIN t |-> t[i].events]
  PROVE  IsList(FromLast(told)) /\ ToldIn(FromLast(told), list, t)
<1> DEFINE n == Len(list)
<1>1. n \in Nat /\ DOMAIN list = 1..n
  BY ListFacts
<1>2. told = [i \in 1..n |-> told[i]] /\ DOMAIN told = 1..n
  BY <1>1
<1>3. \A i \in 1..n : told[i] = t[i].events
  BY <1>1
<1> HIDE DEF n
<1>4. IsList(told)
  BY ONLY <1>1, <1>2, FunctionIsList
<1>5. \A i \in DOMAIN told : IsList(told[i])
  BY <1>1, <1>2, <1>3
<1>6. /\ IsList(FromLast(told))
      /\ \A j \in DOMAIN FromLast(told) : \E i \in DOMAIN told : \E m \in DOMAIN told[i] : FromLast(told)[j] = told[i][m]
  BY ONLY <1>4, <1>5, ToldByOne
<1> QED BY <1>1, <1>2, <1>3, <1>6 DEF ToldIn

(* rc_runtime_do_frame: what becomes of the entries, the leaderboards and the events. *)
LEMMA FrameRuns ==
  ASSUME NEW rt, RtFits(rt), NEW m, NEW r, r = DoFrame(rt, m)
  PROVE  Ran(rt, r.rt, r.events)
<1> DEFINE pool == UpdateMemrefValues(rt.pool, m)
           t == [i \in DOMAIN rt.triggers |-> FrameTrigger(rt.triggers[i], pool.at)]
           l == [i \in DOMAIN rt.lboards |-> FrameLboard(rt.lboards[i], pool.at)]
           shown == UpdateRichPresence(rt.rich, pool.at)
           rich == Rich(rt.rich.def, shown)
           trig == [i \in DOMAIN t |-> t[i].entry]
           lb == [i \in DOMAIN l |-> l[i].entry]
           ts == [i \in DOMAIN t |-> t[i].events]
           ls == [i \in DOMAIN l |-> l[i].events]
           now == [pool |-> pool, triggers |-> trig, lboards |-> lb, rich |-> rich]
           told == FromLast(ts) \o FromLast(ls)
<1>1. r = [rt |-> now, events |-> told]
  BY DEF DoFrame, FrameOn, FrameResult
<1>2. PoolFine(pool)
  <2>1. PoolFine(rt.pool) /\ \E at : pool = [rt.pool EXCEPT !.at = at]
    BY DEF UpdateMemrefValues, RtFits
  <2> HIDE DEF pool
  <2> QED BY <2>1, PoolAt
<1> HIDE DEF pool
<1>3. RichFits(rich)
  <2>1. RichHolds(shown)
    BY RichUpdated DEF RtFits, RichFits
  <2> HIDE DEF shown
  <2> QED BY <2>1, RichOfHolds
<1> HIDE DEF rich
<1>4. EntriesFit(rt.triggers) /\ BoardsFit(rt.lboards)
  BY DEF RtFits
<1>5. ASSUME NEW i \in DOMAIN rt.triggers
      PROVE  /\ EntryRan(rt.triggers[i], t[i].entry) /\ IsList(t[i].events)
             /\ \A k \in DOMAIN t[i].events : TellsEntry(t[i].events[k], rt.triggers[i], t[i].entry)
  <2> DEFINE e == rt.triggers[i]
             f == t[i]
  <2>1. EntryFits(e) /\ f = FrameTrigger(e, pool.at)
    BY <1>4 DEF EntriesFit
  <2> HIDE DEF t, e, f
  <2>2. EntryRan(e, f.entry) /\ IsList(f.events)
    BY ONLY <2>1, EntryEvents
  <2>3. \A k \in DOMAIN f.events : TellsEntry(f.events[k], e, f.entry)
    BY ONLY <2>1, EntryEvents
  <2> QED BY <2>2, <2>3 DEF e, f
<1>6. ASSUME NEW i \in DOMAIN rt.lboards
      PROVE  /\ BoardRan(rt.lboards[i], l[i].entry) /\ IsList(l[i].events)
             /\ \A k \in DOMAIN l[i].events : TellsBoard(l[i].events[k], rt.lboards[i], l[i].entry)
  <2> DEFINE e == rt.lboards[i]
             f == l[i]
  <2>1. BoardFits(e) /\ f = FrameLboard(e, pool.at)
    BY <1>4 DEF BoardsFit
  <2> HIDE DEF l, e, f
  <2>2. BoardRan(e, f.entry) /\ IsList(f.events)
    BY ONLY <2>1, BoardEvents
  <2>3. \A k \in DOMAIN f.events : TellsBoard(f.events[k], e, f.entry)
    BY ONLY <2>1, BoardEvents
  <2> QED BY <2>2, <2>3 DEF e, f
<1>7. DOMAIN t = DOMAIN rt.triggers /\ DOMAIN l = DOMAIN rt.lboards
  OBVIOUS
<1> HIDE DEF t, l
<1>8. /\ DOMAIN trig = DOMAIN rt.triggers /\ trig = [i \in DOMAIN trig |-> trig[i]]
      /\ \A i \in DOMAIN rt.triggers : trig[i] = t[i].entry
  BY <1>7
<1>9. /\ DOMAIN lb = DOMAIN rt.lboards /\ lb = [i \in DOMAIN lb |-> lb[i]]
      /\ \A i \in DOMAIN rt.lboards : lb[i] = l[i].entry
  BY <1>7
<1> HIDE DEF trig, lb
<1>10. EntriesFit(trig)
  <2>1. \A i \in DOMAIN rt.triggers : EntryFits(trig[i]) /\ trig[i].id = rt.triggers[i].id
    BY <1>5, <1>8 DEF EntryRan
  <2> QED BY <1>4, <1>8, <2>1, EachEntryFits
<1>11. BoardsFit(lb)
  <2>1. \A i \in DOMAIN rt.lboards : BoardFits(lb[i]) /\ lb[i].id = rt.lboards[i].id
    BY <1>6, <1>9 DEF BoardRan
  <2> QED BY <1>4, <1>9, <2>1, EachBoardFits
<1>12. /\ IsList(FromLast(ts))
       /\ \A j \in DOMAIN FromLast(ts) : \E i \in DOMAIN rt.triggers : TellsEntry(FromLast(ts)[j], rt.triggers[i], trig[i])
  <2> DEFINE list == rt.triggers
  <2>1. IsList(list) /\ DOMAIN t = DOMAIN list /\ (\A i \in DOMAIN list : IsList(t[i].events)) /\ ts = [i \in DOMAIN t |-> t[i].events]
    BY <1>4, <1>5, <1>7 DEF EntriesFit
  <2> HIDE DEF list, ts
  <2>2. IsList(FromLast(ts)) /\ ToldIn(FromLast(ts), list, t)
    BY ONLY <2>1, ListTold
  <2>4. ASSUME NEW j \in DOMAIN FromLast(ts)
        PROVE  \E i \in DOMAIN rt.triggers : TellsEntry(FromLast(ts)[j], rt.triggers[i], trig[i])
    <3>1. PICK i \in DOMAIN list : \E k \in DOMAIN t[i].events : FromLast(ts)[j] = t[i].events[k]
      BY <2>2 DEF ToldIn
    <3>2. i \in DOMAIN rt.triggers
      BY DEF list
    <3> QED BY <1>5, <1>8, <3>1, <3>2
  <2> QED BY <2>2, <2>4
<1>13. /\ IsList(FromLast(ls))
       /\ \A j \in DOMAIN FromLast(ls) : \E i \in DOMAIN rt.lboards : TellsBoard(FromLast(ls)[j], rt.lboards[i], lb[i])
  <2> DEFINE list == rt.lboards
  <2>1. IsList(list) /\ DOMAIN l = DOMAIN list /\ (\A i \in DOMAIN list : IsList(l[i].events)) /\ ls = [i \in DOMAIN l |-> l[i].events]
    BY <1>4, <1>6, <1>7 DEF BoardsFit
  <2> HIDE DEF list, ls
  <2>2. IsList(FromLast(ls)) /\ ToldIn(FromLast(ls), list, l)
    BY ONLY <2>1, ListTold
  <2>4. ASSUME NEW j \in DOMAIN FromLast(ls)
        PROVE  \E i \in DOMAIN rt.lboards : TellsBoard(FromLast(ls)[j], rt.lboards[i], lb[i])
    <3>1. PICK i \in DOMAIN list : \E k \in DOMAIN l[i].events : FromLast(ls)[j] = l[i].events[k]
      BY <2>2 DEF ToldIn
    <3>2. i \in DOMAIN rt.lboards
      BY DEF list
    <3> QED BY <1>6, <1>9, <3>1, <3>2
  <2> QED BY <2>2, <2>4
<1> DEFINE a == FromLast(ts)
           b == FromLast(ls)
<1> HIDE DEF a, b
<1>14. told = a \o b
  BY DEF a, b
<1> HIDE DEF ts, ls, told
<1>15. /\ IsList(a) /\ \A j \in DOMAIN a : \E i \in DOMAIN rt.triggers : TellsEntry(a[j], rt.triggers[i], trig[i])
       /\ IsList(b) /\ \A j \in DOMAIN b : \E i \in DOMAIN rt.lboards : TellsBoard(b[j], rt.lboards[i], lb[i])
  BY <1>12, <1>13 DEF a, b
<1>16. ASSUME NEW j \in DOMAIN told
       PROVE  \/ \E i \in DOMAIN rt.triggers : TellsEntry(told[j], rt.triggers[i], trig[i])
              \/ \E i \in DOMAIN rt.lboards : TellsBoard(told[j], rt.lboards[i], lb[i])
  <2>1. (\E k \in DOMAIN a : told[j] = a[k]) \/ (\E k \in DOMAIN b : told[j] = b[k])
    BY <1>14, <1>15, ConcatFrom, SMTT(60)
  <2> QED BY <1>15, <2>1
<1>17. /\ DOMAIN now = RtFields /\ now.pool = pool /\ now.triggers = trig /\ now.lboards = lb /\ now.rich = rich
  BY DEF RtFields
<1>18. r.rt = now /\ r.events = told
  BY <1>1
<1> HIDE DEF now
<1>19. RtFits(now)
  BY <1>2, <1>3, <1>10, <1>11, <1>17 DEF RtFits
<1>20. /\ \A i \in DOMAIN rt.triggers : EntryRan(rt.triggers[i], trig[i])
       /\ \A i \in DOMAIN rt.lboards : BoardRan(rt.lboards[i], lb[i])
  BY <1>5, <1>6, <1>8, <1>9
<1> QED BY <1>8, <1>9, <1>16, <1>17, <1>18, <1>19, <1>20 DEF Ran

(* Asking for the text leaves lines that fit. *)
LEMMA DescribedFits ==
  ASSUME NEW rich, RichFits(rich), rich.displays # <<>>, NEW at
  PROVE  RichHolds(DisplayString(rich, at).rich)
<1> DEFINE lines == rich.displays
           n == Len(lines)
           now == [i \in DOMAIN lines |-> IF lines[i].hasRequired \/ i = n THEN lines[i].trigger
                                          ELSE TestTrigger(lines[i].trigger, at).trigger]
<1>1. \E line : DisplayString(rich, at).rich =
        [rich EXCEPT !.displays = [i \in DOMAIN lines |-> IF i <= line THEN [lines[i] EXCEPT !.trigger = now[i]] ELSE lines[i]]]
  BY DEF DisplayString, DisplayFirst, Chosen
<1>2. PICK line : DisplayString(rich, at).rich =
        [rich EXCEPT !.displays = [i \in DOMAIN lines |-> IF i <= line THEN [lines[i] EXCEPT !.trigger = now[i]] ELSE lines[i]]]
  BY <1>1
<1> DEFINE new == [i \in DOMAIN lines |-> IF i <= line THEN [lines[i] EXCEPT !.trigger = now[i]] ELSE lines[i]]
           z == DisplayString(rich, at).rich
<1>3. z.displays = new /\ z.values = rich.values
  BY <1>2 DEF RichFits
<1>4. ASSUME NEW i \in DOMAIN lines
      PROVE  LineShaped(new[i])
  <2> DEFINE d == lines[i]
             u == now[i]
             e == [d EXCEPT !.trigger = u]
  <2>1. LineShaped(d)
    BY DEF RichFits, RichHolds, LinesShaped
  <2>2. new[i] \in {d, e}
    OBVIOUS
  <2>3. u \in {d.trigger, TestTrigger(d.trigger, at).trigger}
    OBVIOUS
  <2> HIDE DEF new, d, u
  <2>4. TriggerShaped(d.trigger)
    BY <2>1 DEF LineShaped
  <2>5. TriggerEvolves(d.trigger, u)
    BY <2>3, <2>4, TriggerEvolvesSelf, TestMoves
  <2>6. LineShaped(e)
    BY <2>1, <2>5, LineEvolves
  <2> QED BY <2>1, <2>2, <2>6
<1>5. LinesShaped(new)
  <2>1. DOMAIN new = DOMAIN lines /\ new = [i \in DOMAIN new |-> new[i]] /\ LinesShaped(lines)
    BY DEF RichFits, RichHolds
  <2> HIDE DEF new, lines
  <2> QED BY <1>4, <2>1, LinesMapped
<1> QED BY <1>3, <1>5 DEF RichFits, RichHolds

(* A trigger is written with the hits it has. *)
LEMMA TriggerWritten ==
  ASSUME NEW t, NEW raw, TriggerFits(t, raw), NEW at, NEW data, data = WriteTrigger(t, at)
  PROVE  TriggerDataFits(data, raw) /\ data.state = t.state
<1>1. ASSUME NEW set, NEW raws, SetFits(set, raws)
      PROVE  SetDataFits(WriteCondset(set, at), raws)
  <2>1. DOMAIN set.conds = 1..Len(raws)
    BY <1>1, ListFacts DEF SetFits
  <2>2. \A i \in DOMAIN set.conds : WriteCondset(set, at).conds[i].hits = set.conds[i].hits
    BY DEF WriteCondset
  <2>3. \A i \in 1..Len(raws) : CondFits(set.conds[i], raws[i])
    BY <1>1 DEF SetFits
  <2> QED BY <2>1, <2>2, <2>3 DEF SetDataFits, CondDataFits, CondFits
<1>2. DOMAIN t.alts = 1..Len(raw.alts)
  BY ListFacts DEF TriggerFits, SetsFit
<1>3. data.state = t.state /\ data.core = WriteCondset(t.core, at)
  BY DEF WriteTrigger
<1>4. \A i \in DOMAIN t.alts : data.alts[i] = WriteCondset(t.alts[i], at)
  BY DEF WriteTrigger
<1>5. SetDataFits(data.core, raw.core)
  BY <1>1, <1>3 DEF TriggerFits
<1>6. \A i \in 1..Len(raw.alts) : SetDataFits(data.alts[i], raw.alts[i])
  BY <1>1, <1>2, <1>4 DEF TriggerFits, SetsFit
<1> QED BY <1>3, <1>5, <1>6 DEF TriggerDataFits

(* Chunks that fit, one more or a list of them. *)
LEMMA ChunkAppend ==
  ASSUME NEW chunks, ChunksFit(chunks), NEW c, ChunkFits(c)
  PROVE  ChunksFit(Append(chunks, c))
<1> DEFINE n == Len(chunks)
           all == Append(chunks, c)
<1>1. n \in Nat /\ DOMAIN chunks = 1..n
  BY ListFacts DEF ChunksFit
<1>2. IsList(all) /\ DOMAIN all = 1..(n + 1) /\ (\A i \in 1..n : all[i] = chunks[i]) /\ all[n + 1] = c
  BY AppendFacts DEF ChunksFit
<1> HIDE DEF n, all
<1>3. \A i \in 1..(n + 1) : i \in 1..n \/ i = n + 1
  BY <1>1
<1>4. ChunksFit(all)
  BY <1>1, <1>2, <1>3 DEF ChunksFit
<1> QED BY <1>4 DEF all

(* What was saved in two parts. *)
LEMMA ChunksConcat ==
  ASSUME NEW s, ChunksFit(s), NEW t, ChunksFit(t)
  PROVE  ChunksFit(s \o t)
<1>1. IsList(s) /\ IsList(t) /\ IsList(s \o t)
  BY ConcatFacts DEF ChunksFit
<1>2. ASSUME NEW j \in DOMAIN (s \o t)
      PROVE  ChunkFits((s \o t)[j])
  <2>1. (\E m \in DOMAIN s : (s \o t)[j] = s[m]) \/ (\E m \in DOMAIN t : (s \o t)[j] = t[m])
    BY <1>1, ConcatFrom, SMTT(60)
  <2> QED BY <2>1 DEF ChunksFit
<1> QED BY <1>1, <1>2 DEF ChunksFit

(* Nothing saved. *)
LEMMA NoChunks == ChunksFit(<<>>)
  BY EmptyList DEF ChunksFit

FWrite == INSTANCE FoldFacts WITH Op <- StepWrite, Holds <- HoldsWrite

(* Achievements are written by a fold. *)
LEMMA WriteFold ==
  ASSUME NEW rt
  PROVE  WriteAchievements(rt) = FWrite!Result(rt, <<>>, rt.triggers)
  BY DEF WriteAchievements, FoldLeft, MapThenFoldSet, FWrite!Result, FWrite!Table, FWrite!Greatest, Max, StepWrite

(* rc_runtime_progress_write_achievements: what is saved of achievements fits their definitions. *)
LEMMA AchievementsWritten ==
  ASSUME NEW rt, RtFits(rt), StatesFit(rt)
  PROVE  ChunksFit(WriteAchievements(rt))
<1> DEFINE items == rt.triggers
           n == Len(items)
<1>1. n \in Nat /\ DOMAIN items = 1..n /\ \A k \in DOMAIN items : EntryFits(items[k]) /\ items[k].trigger.state \in TriggerStates
  BY ListFacts DEF RtFits, EntriesFit, StatesFit
<1>2. HoldsWrite(rt, <<>>, 0, <<>>)
  BY NoChunks DEF HoldsWrite
<1>3. WriteAchievements(rt) = FWrite!Result(rt, <<>>, items)
  BY WriteFold
<1> HIDE DEF n, items
<1>4. \A k \in 1..n : \A a : HoldsWrite(rt, <<>>, k - 1, a) => HoldsWrite(rt, <<>>, k, StepWrite(rt, a, items[k]))
  <2> TAKE k \in 1..n
  <2> TAKE a
  <2> DEFINE e == items[k]
             data == WriteTrigger(e.trigger, rt.pool.at)
             c == Chunk("achievement", e.id, e.def, data)
  <2> HAVE HoldsWrite(rt, <<>>, k - 1, a)
  <2>1. EntryFits(e) /\ e.trigger.state \in TriggerStates
    BY <1>1
  <2> HIDE DEF e
  <2>2. TriggerDataFits(data, Triggers[e.def]) /\ data.state = e.trigger.state
    BY <2>1, TriggerWritten DEF EntryFits
  <2> HIDE DEF data
  <2>3. c.kind = "achievement" /\ c.def = e.def /\ c.data = data
    BY DEF Chunk
  <2>4. StepWrite(rt, a, e) \in {a, Append(a, c)}
    BY DEF StepWrite, data
  <2> HIDE DEF c
  <2>5. ChunkFits(c)
    BY <2>1, <2>2, <2>3 DEF ChunkFits, EntryFits
  <2> QED BY <2>4, <2>5, ChunkAppend DEF HoldsWrite, e
<1>5. HoldsWrite(rt, <<>>, n, FWrite!Result(rt, <<>>, items))
  BY ONLY <1>1, <1>2, <1>4, FWrite!FoldKeeps, Induction
<1> QED BY <1>3, <1>5 DEF HoldsWrite

FBoard == INSTANCE FoldFacts WITH Op <- StepBoard, Holds <- HoldsWrite

(* Leaderboards are written by a fold. *)
LEMMA BoardFold ==
  ASSUME NEW rt
  PROVE  WriteLboards(rt) = FBoard!Result(rt, <<>>, rt.lboards)
  BY DEF WriteLboards, BoardData, FoldLeft, MapThenFoldSet, FBoard!Result, FBoard!Table, FBoard!Greatest, Max, StepBoard

(* A leaderboard is written with the hits its triggers have. *)
LEMMA BoardWritten ==
  ASSUME NEW l, NEW fields, LboardFits(l, fields), NEW at, NEW data, data = BoardData(l, at)
  PROVE  BoardDataFits(data, fields) /\ data.state = l.state
<1>1. \A f \in TriggerNames : TriggerDataFits(WriteTrigger(l[f], at), FieldDef(fields, f))
  BY TriggerWritten DEF LboardFits
<1>2. data["start"] = WriteTrigger(l["start"], at) /\ data["cancel"] = WriteTrigger(l["cancel"], at)
      /\ data["submit"] = WriteTrigger(l["submit"], at) /\ data.state = l.state
  BY DEF BoardData
<1>3. \A f \in TriggerNames : data[f] = WriteTrigger(l[f], at)
  BY <1>2 DEF TriggerNames
<1> QED BY <1>1, <1>2, <1>3 DEF BoardDataFits

(* rc_runtime_progress_write_leaderboards: what is saved of leaderboards fits their definitions. *)
LEMMA LboardsWritten ==
  ASSUME NEW rt, RtFits(rt), StatesFit(rt)
  PROVE  ChunksFit(WriteLboards(rt))
<1> DEFINE items == rt.lboards
           n == Len(items)
<1>1. n \in Nat /\ DOMAIN items = 1..n /\ \A k \in DOMAIN items : BoardFits(items[k]) /\ items[k].lboard.state \in BoardStates
  BY ListFacts DEF RtFits, BoardsFit, StatesFit
<1>2. HoldsWrite(rt, <<>>, 0, <<>>)
  BY NoChunks DEF HoldsWrite
<1>3. WriteLboards(rt) = FBoard!Result(rt, <<>>, items)
  BY BoardFold
<1> HIDE DEF n, items
<1>4. \A k \in 1..n : \A a : HoldsWrite(rt, <<>>, k - 1, a) => HoldsWrite(rt, <<>>, k, StepBoard(rt, a, items[k]))
  <2> TAKE k \in 1..n
  <2> TAKE a
  <2> DEFINE e == items[k]
             data == BoardData(e.lboard, rt.pool.at)
             c == Chunk("leaderboard", e.id, e.def, data)
  <2> HAVE HoldsWrite(rt, <<>>, k - 1, a)
  <2>1. BoardFits(e) /\ e.lboard.state \in BoardStates
    BY <1>1
  <2> HIDE DEF e
  <2>2. BoardDataFits(data, Lboards[e.def]) /\ data.state = e.lboard.state
    BY <2>1, BoardWritten DEF BoardFits
  <2> HIDE DEF data
  <2>3. c.kind = "leaderboard" /\ c.def = e.def /\ c.data = data
    BY DEF Chunk
  <2>4. StepBoard(rt, a, e) \in {a, Append(a, c)}
    BY DEF StepBoard, data
  <2> HIDE DEF c
  <2>5. ChunkFits(c)
    BY <2>1, <2>2, <2>3 DEF ChunkFits, BoardFits
  <2> QED BY <2>4, <2>5, ChunkAppend DEF HoldsWrite, e
<1>5. HoldsWrite(rt, <<>>, n, FBoard!Result(rt, <<>>, items))
  BY ONLY <1>1, <1>2, <1>4, FBoard!FoldKeeps, Induction
<1> QED BY <1>3, <1>5 DEF HoldsWrite

(* A chunk of another kind, or none. *)
LEMMA OtherChunk ==
  ASSUME NEW kind, kind \notin {"achievement", "leaderboard"}, NEW id, NEW def, NEW data, NEW s,
         s = <<>> \/ s = <<Chunk(kind, id, def, data)>>
  PROVE  ChunksFit(s)
<1> DEFINE c == Chunk(kind, id, def, data)
<1>1. c.kind = kind
  BY DEF Chunk
<1> HIDE DEF c
<1>2. ChunkFits(c)
  BY <1>1 DEF ChunkFits
<1>3. s = <<>> \/ s = <<c>>
  BY DEF c
<1>4. IsList(s) /\ \A m \in DOMAIN s : s[m] = c
  BY <1>3, OneOrNone
<1> QED BY <1>2, <1>4 DEF ChunksFit

(* What is written of a runtime fits its definitions. *)
LEMMA SerializedFits ==
  ASSUME NEW rt, RtFits(rt), StatesFit(rt)
  PROVE  ChunksFit(Serialize(rt))
<1> DEFINE a == WriteMemrefs(rt)
           b == WriteVariables(rt)
           c == WriteAchievements(rt)
           d == WriteLboards(rt)
           e == WriteRichPresence(rt)
<1>1. ChunksFit(a)
  <2> DEFINE data == [i \in DOMAIN rt.pool.plain |-> [ref |-> rt.pool.plain[i], cell |-> rt.pool.at[rt.pool.plain[i]]]]
  <2>1. a = <<>> \/ a = <<Chunk("memrefs", 0, "", data)>>
    BY DEF WriteMemrefs
  <2> HIDE DEF a, data
  <2> QED BY <2>1, OtherChunk
<1>2. ChunksFit(b)
  <2> DEFINE data == [i \in DOMAIN rt.rich.values |->
               [name |-> rt.rich.values[i].name, data |-> WriteVariable(rt.rich.values[i].value, rt.pool.at)]]
  <2>1. b = <<>> \/ b = <<Chunk("variables", 0, "", data)>>
    BY DEF WriteVariables
  <2> HIDE DEF b, data
  <2> QED BY <2>1, OtherChunk
<1>3. ChunksFit(c) /\ ChunksFit(d)
  BY AchievementsWritten, LboardsWritten
<1>4. ChunksFit(e)
  BY OtherChunk DEF WriteRichPresence
<1>5. Serialize(rt) = a \o b \o c \o d \o e
  BY DEF Serialize
<1> HIDE DEF a, b, c, d, e
<1>6. ChunksFit(a \o b)
  BY <1>1, <1>2, ChunksConcat
<1>7. ChunksFit(a \o b \o c)
  BY <1>3, <1>6, ChunksConcat
<1>8. ChunksFit(a \o b \o c \o d)
  BY <1>3, <1>7, ChunksConcat
<1>9. ChunksFit(a \o b \o c \o d \o e)
  BY <1>4, <1>8, ChunksConcat
<1> QED BY <1>5, <1>9

(* All but the last chunk, or none of none. *)
LEMMA FrontFits ==
  ASSUME NEW chunks, ChunksFit(chunks)
  PROVE  ChunksFit(Front(chunks))
<1>1. CASE chunks = <<>>
  <2>1. Front(<<>>) = <<>>
    BY DEF Front
  <2> QED BY <1>1, <2>1, NoChunks
<1>2. CASE chunks # <<>>
  <2>1. /\ IsList(Front(chunks)) /\ DOMAIN Front(chunks) = 1..(Len(chunks) - 1)
        /\ \A i \in 1..(Len(chunks) - 1) : Front(chunks)[i] = chunks[i]
    BY <1>2, FrontFacts DEF ChunksFit
  <2>2. Len(chunks) \in Nat /\ DOMAIN chunks = 1..Len(chunks)
    BY ListFacts DEF ChunksFit
  <2> QED BY <2>1, <2>2 DEF ChunksFit
<1> QED BY <1>1, <1>2

FIndirect == INSTANCE FoldFacts WITH Op <- StepIndirect, Holds <- HoldsPool

FAlt == INSTANCE FoldFacts WITH Op <- StepAlt, Holds <- HoldsPool

(* One cell is put back. *)
LEMMA CellPut ==
  ASSUME NEW p, PoolFine(p), NEW op, NEW cell
  PROVE  PoolLike(p, PutCell(p, op, cell))
<1> DEFINE at == [p.at EXCEPT ![op.ref] = Restored(@, cell[1])]
           now == [p EXCEPT !.at = at]
<1>1. PutCell(p, op, cell) = p \/ PutCell(p, op, cell) = now
  BY DEF PutCell
<1> HIDE DEF at
<1>2. PoolLike(p, now)
  BY PoolAt DEF PoolLike
<1> HIDE DEF now
<1> QED BY <1>1, <1>2 DEF PoolLike

(* The readings of a group are put back one condition after another. *)
LEMMA IndirectFold ==
  ASSUME NEW pool, NEW set, NEW data
  PROVE  ReadIndirect(pool, set, data) =
           FIndirect!Result([set |-> set, data |-> data], pool, [i \in DOMAIN set.conds |-> i])
  BY DEF ReadIndirect, FoldLeft, MapThenFoldSet, FIndirect!Result, FIndirect!Table, FIndirect!Greatest, Max,
         StepIndirect

(* And leave the references as they are. *)
LEMMA IndirectRead ==
  ASSUME NEW pool, PoolFine(pool), NEW set, IsList(set.conds), NEW data
  PROVE  PoolLike(pool, ReadIndirect(pool, set, data))
<1> DEFINE items == [i \in DOMAIN set.conds |-> i]
           n == Len(set.conds)
           c == [set |-> set, data |-> data]
<1>1. n \in Nat /\ DOMAIN items = 1..n
  BY ListFacts
<1>2. HoldsPool(c, pool, 0, pool)
  BY DEF HoldsPool, PoolLike
<1>3. ASSUME NEW k \in 1..n, NEW p, HoldsPool(c, pool, k - 1, p)
      PROVE  HoldsPool(c, pool, k, StepIndirect(c, p, items[k]))
  <2> DEFINE i == items[k]
             q == PutCell(p, c.set.conds[i].op1, c.data.conds[i].in1)
             r == PutCell(q, c.set.conds[i].op2, c.data.conds[i].in2)
  <2>1. StepIndirect(c, p, i) = r
    BY DEF StepIndirect
  <2> HIDE DEF i, c
  <2>2. PoolLike(pool, p) /\ PoolFine(p)
    BY <1>3 DEF HoldsPool, PoolLike
  <2>3. PoolLike(p, q)
    BY <2>2, CellPut
  <2> HIDE DEF q
  <2>4. PoolLike(q, r)
    BY <2>3, CellPut DEF PoolLike
  <2> HIDE DEF r
  <2>5. PoolLike(pool, r)
    BY <2>2, <2>3, <2>4 DEF PoolLike
  <2> QED BY <2>1, <2>5 DEF HoldsPool, i
<1> HIDE DEF items, n, c
<1>4. \A k \in 1..n : \A p : HoldsPool(c, pool, k - 1, p) => HoldsPool(c, pool, k, StepIndirect(c, p, items[k]))
  BY <1>3
<1>5. HoldsPool(c, pool, n, FIndirect!Result(c, pool, items))
  BY ONLY <1>1, <1>2, <1>4, FIndirect!FoldKeeps, Induction
<1> QED BY <1>5, IndirectFold DEF HoldsPool, c, items

(* The readings of a trigger's groups. *)
LEMMA TriggerCellsFold ==
  ASSUME NEW pool, NEW t, NEW data
  PROVE  ReadTriggerCells(pool, t, data) =
           FAlt!Result([t |-> t, data |-> data], ReadIndirect(pool, t.core, data.core), [i \in DOMAIN t.alts |-> i])
  BY DEF ReadTriggerCells, FoldLeft, MapThenFoldSet, FAlt!Result, FAlt!Table, FAlt!Greatest, Max, StepAlt

(* They too leave the references as they are. *)
LEMMA TriggerCellsRead ==
  ASSUME NEW pool, PoolFine(pool), NEW t, TriggerShaped(t), NEW data
  PROVE  PoolLike(pool, ReadTriggerCells(pool, t, data))
<1> DEFINE items == [i \in DOMAIN t.alts |-> i]
           n == Len(t.alts)
           c == [t |-> t, data |-> data]
           base == ReadIndirect(pool, t.core, data.core)
<1>1. n \in Nat /\ DOMAIN items = 1..n
  BY ListFacts DEF TriggerShaped, SetsShaped
<1>2. PoolLike(pool, base)
  BY IndirectRead DEF TriggerShaped, SetShaped
<1>3. ReadTriggerCells(pool, t, data) = FAlt!Result(c, base, items)
  BY TriggerCellsFold
<1> HIDE DEF base
<1>4. HoldsPool(c, base, 0, base)
  BY <1>2 DEF HoldsPool, PoolLike
<1>5. ASSUME NEW k \in 1..n, NEW p, HoldsPool(c, base, k - 1, p)
      PROVE  HoldsPool(c, base, k, StepAlt(c, p, items[k]))
  <2> DEFINE set == t.alts[k]
             r == ReadIndirect(p, set, data.alts[k])
  <2>1. StepAlt(c, p, items[k]) = r
    BY <1>1 DEF StepAlt
  <2>2. IsList(set.conds)
    BY <1>1 DEF TriggerShaped, SetsShaped, SetShaped
  <2>3. PoolLike(base, p) /\ PoolFine(p)
    BY <1>5 DEF HoldsPool, PoolLike
  <2> HIDE DEF set
  <2>4. PoolLike(p, r)
    BY <2>2, <2>3, IndirectRead
  <2> HIDE DEF r
  <2> QED BY <2>1, <2>3, <2>4 DEF HoldsPool, PoolLike
<1> HIDE DEF items, n, c
<1>6. \A k \in 1..n : \A p : HoldsPool(c, base, k - 1, p) => HoldsPool(c, base, k, StepAlt(c, p, items[k]))
  BY <1>5
<1>7. HoldsPool(c, base, n, FAlt!Result(c, base, items))
  BY ONLY <1>1, <1>4, <1>6, FAlt!FoldKeeps, Induction
<1> HIDE DEF HoldsPool
<1> QED BY <1>2, <1>3, <1>7 DEF HoldsPool, PoolLike

(* A group that is read back has the conditions it had, with the hits that were saved. *)
LEMMA GroupReadBack ==
  ASSUME NEW set, SetShaped(set), NEW data, NEW now, now = ReadCondset(set, data)
  PROVE  /\ SetShaped(now) /\ Len(now.conds) = Len(set.conds)
         /\ \A i \in DOMAIN set.conds : /\ now.conds[i].hits = data.conds[i].hits
                                        /\ now.conds[i].required = set.conds[i].required
<1> DEFINE n == Len(set.conds)
           conds == [i \in DOMAIN set.conds |->
                       [set.conds[i] EXCEPT !.hits = data.conds[i].hits, !.isTrue = data.conds[i].isTrue]]
<1>1. DOMAIN now = {"conds", "paused"} /\ now.conds = conds
  BY DEF ReadCondset
<1>2. n \in Nat /\ DOMAIN set.conds = 1..n
  BY ListFacts DEF SetShaped
<1>3. ASSUME NEW i \in 1..n
      PROVE  /\ CondShaped(conds[i]) /\ conds[i].hits = data.conds[i].hits
             /\ conds[i].required = set.conds[i].required
  <2> DEFINE c == set.conds[i]
             d == [c EXCEPT !.hits = data.conds[i].hits, !.isTrue = data.conds[i].isTrue]
  <2>1. conds[i] = d
    BY <1>2
  <2>2. CondShaped(c)
    BY <1>2 DEF SetShaped
  <2> HIDE DEF c, conds
  <2>3. DOMAIN d = CondFields /\ d.type = c.type /\ d.required = c.required /\ d.hits = data.conds[i].hits
    BY <2>2 DEF CondShaped, CondFields
  <2> HIDE DEF d
  <2> QED BY <2>1, <2>2, <2>3 DEF CondShaped, c
<1>4. conds = [i \in 1..n |-> conds[i]]
  BY <1>2
<1> HIDE DEF conds
<1>5. IsList(conds) /\ Len(conds) = n /\ DOMAIN conds = 1..n
  BY <1>2, <1>4, FunctionIsList
<1> QED BY <1>1, <1>2, <1>3, <1>5 DEF SetShaped

(* What was saved for the same definition keeps to its targets. *)
LEMMA GroupReadFits ==
  ASSUME NEW set, NEW raws, SetFits(set, raws), NEW data, SetDataFits(data, raws), NEW now, now = ReadCondset(set, data)
  PROVE  SetFits(now, raws)
<1>1. IsList(set.conds) /\ Len(set.conds) = Len(raws) /\ DOMAIN set.conds = 1..Len(raws) /\ Len(raws) \in Nat
  BY ListFacts DEF SetFits
<1>2. SetShaped(set)
  BY <1>1 DEF SetFits, CondFits, SetShaped
<1>3. /\ SetShaped(now) /\ Len(now.conds) = Len(raws)
      /\ \A i \in DOMAIN set.conds : /\ now.conds[i].hits = data.conds[i].hits
                                     /\ now.conds[i].required = set.conds[i].required
  BY <1>1, <1>2, GroupReadBack
<1>4. DOMAIN now.conds = 1..Len(raws)
  BY <1>3, ListFacts DEF SetShaped
<1>5. ASSUME NEW i \in 1..Len(raws)
      PROVE  CondFits(now.conds[i], raws[i])
  <2>1. CondFits(set.conds[i], raws[i]) /\ CondDataFits(data.conds[i], raws[i]) /\ CondShaped(now.conds[i])
    BY <1>3, <1>4 DEF SetFits, SetDataFits, SetShaped
  <2>2. now.conds[i].hits = data.conds[i].hits /\ now.conds[i].required = set.conds[i].required
    BY <1>1, <1>3
  <2> QED BY <2>1, <2>2 DEF CondFits, CondDataFits
<1> QED BY <1>3, <1>5 DEF SetFits, SetShaped

(* A trigger that is read back. *)
LEMMA TriggerReadBack ==
  ASSUME NEW t, TriggerShaped(t), NEW data, NEW u, u = ReadTrigger(t, data)
  PROVE  /\ DOMAIN u = TriggerFields /\ u.state = data.state /\ u.core = ReadCondset(t.core, data.core)
         /\ IsList(u.alts) /\ Len(u.alts) = Len(t.alts) /\ DOMAIN u.alts = DOMAIN t.alts
         /\ \A i \in DOMAIN t.alts : u.alts[i] = ReadCondset(t.alts[i], data.alts[i])
<1> DEFINE core == ReadCondset(t.core, data.core)
           alts == [i \in DOMAIN t.alts |-> ReadCondset(t.alts[i], data.alts[i])]
           n == Len(t.alts)
<1>1. u = [t EXCEPT !.state = data.state, !.measured = data.measured, !.core = core, !.alts = alts]
  BY DEF ReadTrigger
<1>2. n \in Nat /\ DOMAIN t.alts = 1..n /\ DOMAIN t = TriggerFields
  BY ListFacts DEF TriggerShaped, SetsShaped
<1>3. alts = [i \in 1..n |-> alts[i]] /\ \A i \in DOMAIN t.alts : alts[i] = ReadCondset(t.alts[i], data.alts[i])
  BY <1>2
<1> HIDE DEF core, alts
<1>4. IsList(alts) /\ Len(alts) = n /\ DOMAIN alts = 1..n
  BY <1>2, <1>3, FunctionIsList
<1>5. DOMAIN u = TriggerFields /\ u.state = data.state /\ u.core = core /\ u.alts = alts
  BY <1>1, <1>2 DEF TriggerFields
<1> QED BY <1>2, <1>3, <1>4, <1>5 DEF core

(* It keeps the shape evaluation needs. *)
LEMMA TriggerReadShaped ==
  ASSUME NEW t, TriggerShaped(t), NEW data, NEW u, u = ReadTrigger(t, data)
  PROVE  TriggerShaped(u)
<1>1. /\ DOMAIN u = TriggerFields /\ u.core = ReadCondset(t.core, data.core) /\ IsList(u.alts)
      /\ DOMAIN u.alts = DOMAIN t.alts /\ \A i \in DOMAIN t.alts : u.alts[i] = ReadCondset(t.alts[i], data.alts[i])
  BY TriggerReadBack
<1>2. SetShaped(u.core)
  BY <1>1, GroupReadBack DEF TriggerShaped
<1>3. \A i \in DOMAIN u.alts : SetShaped(u.alts[i])
  BY <1>1, GroupReadBack DEF TriggerShaped, SetsShaped
<1> QED BY <1>1, <1>2, <1>3 DEF TriggerShaped, SetsShaped

(* Of its own definition, it fits it. *)
LEMMA TriggerReadFits ==
  ASSUME NEW t, NEW raw, TriggerFits(t, raw), NEW data, TriggerDataFits(data, raw), NEW u, u = ReadTrigger(t, data)
  PROVE  TriggerFits(u, raw) /\ u.state = data.state
<1>1. TriggerShaped(t)
  BY FitsShaped
<1>2. /\ DOMAIN u = TriggerFields /\ u.state = data.state /\ u.core = ReadCondset(t.core, data.core)
      /\ IsList(u.alts) /\ Len(u.alts) = Len(t.alts)
      /\ \A i \in DOMAIN t.alts : u.alts[i] = ReadCondset(t.alts[i], data.alts[i])
  BY <1>1, TriggerReadBack
<1>3. SetFits(u.core, raw.core)
  BY <1>2, GroupReadFits DEF TriggerFits, TriggerDataFits
<1>4. Len(t.alts) = Len(raw.alts) /\ DOMAIN t.alts = 1..Len(raw.alts)
  BY ListFacts DEF TriggerFits, SetsFit
<1>5. \A i \in 1..Len(raw.alts) : SetFits(u.alts[i], raw.alts[i])
  BY <1>2, <1>4, GroupReadFits DEF TriggerFits, TriggerDataFits, SetsFit
<1> QED BY <1>2, <1>3, <1>4, <1>5 DEF TriggerFits, SetsFit

(* What counts no hit has no target, and none is saved with it. *)
LEMMA CountsNoneReadBack ==
  ASSUME NEW t, TriggerShaped(t), TriggerCountsNone(t), NEW data, NEW u, u = ReadTrigger(t, data)
  PROVE  TriggerCountsNone(u)
<1>1. /\ u.core = ReadCondset(t.core, data.core) /\ IsList(u.alts) /\ Len(u.alts) = Len(t.alts)
      /\ DOMAIN u.alts = DOMAIN t.alts /\ \A i \in DOMAIN t.alts : u.alts[i] = ReadCondset(t.alts[i], data.alts[i])
  BY TriggerReadBack
<1>2. ASSUME NEW set, SetShaped(set), CountsNone(set), NEW from
      PROVE  CountsNone(ReadCondset(set, from))
  <2> DEFINE now == ReadCondset(set, from)
  <2>1. /\ SetShaped(now) /\ Len(now.conds) = Len(set.conds)
        /\ \A i \in DOMAIN set.conds : now.conds[i].required = set.conds[i].required
    BY <1>2, GroupReadBack
  <2> HIDE DEF now
  <2>2. DOMAIN now.conds = DOMAIN set.conds
    BY <1>2, <2>1, ListFacts DEF SetShaped
  <2>3. CountsNone(now)
    BY <1>2, <2>1, <2>2 DEF CountsNone
  <2> QED BY <2>3 DEF now
<1>3. CountsNone(u.core)
  BY <1>1, <1>2 DEF TriggerCountsNone, TriggerShaped
<1>4. \A i \in DOMAIN u.alts : CountsNone(u.alts[i])
  BY <1>1, <1>2 DEF TriggerCountsNone, TriggerShaped, SetsShaped
<1> QED BY <1>3, <1>4 DEF TriggerCountsNone

(* A value that is read back keeps its groups. *)
LEMMA VariableReadBack ==
  ASSUME NEW v, ValueShaped(v), NEW data, NEW u, u = ReadVariable(v, data)
  PROVE  ValueShaped(u)
<1> DEFINE cell == Restored(v.cell, data.cell)
           first == IF data.set = <<>> THEN ResetCondset(v.sets[1]) ELSE ReadCondset(v.sets[1], data.set[1])
           sets == [v.sets EXCEPT ![1] = first]
<1>1. u = [v EXCEPT !.cell = cell, !.sets = sets]
  BY DEF ReadVariable
<1>2. DOMAIN v = {"sets", "cell"} /\ 1 \in DOMAIN v.sets /\ SetShaped(v.sets[1]) /\ IsList(v.sets)
  BY DEF ValueShaped, SetsShaped
<1>3. SetShaped(first)
  <2>1. SetShaped(ResetCondset(v.sets[1]))
    BY <1>2, SetEvolvesSelf, ResetAfter, EvolvedSetShaped
  <2>2. SetShaped(ReadCondset(v.sets[1], data.set[1]))
    BY <1>2, GroupReadBack
  <2> QED BY <2>1, <2>2
<1> HIDE DEF first
<1>4. DOMAIN sets = DOMAIN v.sets /\ sets = [i \in 1..Len(v.sets) |-> sets[i]] /\ Len(v.sets) \in Nat
  BY <1>2, ListFacts
<1>5. \A i \in DOMAIN v.sets : sets[i] = first \/ sets[i] = v.sets[i]
  OBVIOUS
<1> HIDE DEF sets, cell
<1>6. IsList(sets)
  BY <1>4, FunctionIsList
<1>7. SetsShaped(sets) /\ 1 \in DOMAIN sets
  BY <1>2, <1>3, <1>4, <1>5, <1>6 DEF ValueShaped, SetsShaped
<1>8. DOMAIN u = {"sets", "cell"} /\ u.sets = sets
  BY <1>1, <1>2
<1> QED BY <1>7, <1>8 DEF ValueShaped

(* And the readings of its conditions. *)
LEMMA VariableCellsRead ==
  ASSUME NEW pool, PoolFine(pool), NEW v, ValueShaped(v), NEW data
  PROVE  PoolLike(pool, ReadVariableCells(pool, v, data))
<1>1. IsList(v.sets[1].conds)
  BY DEF ValueShaped, SetsShaped, SetShaped
<1>2. PoolLike(pool, ReadIndirect(pool, v.sets[1], data.set[1]))
  BY <1>1, IndirectRead
<1> QED BY <1>2 DEF ReadVariableCells, PoolLike

(* Reading nothing, and reading on. *)
LEMMA ReadIntoSame ==
  ASSUME NEW rt, RtFits(rt), NEW now, RtFits(now), now.triggers = rt.triggers, now.lboards = rt.lboards
  PROVE  ReadInto(rt, now)
<1>1. \A i \in DOMAIN rt.triggers : EntryFits(rt.triggers[i])
  BY DEF RtFits, EntriesFit
<1>2. \A i \in DOMAIN rt.lboards : BoardFits(rt.lboards[i])
  BY DEF RtFits, BoardsFit
<1> QED BY <1>1, <1>2 DEF ReadInto, EntryReadOn, BoardReadOn

(* Chunk after chunk. *)
LEMMA ReadIntoOn ==
  ASSUME NEW rt, NEW next, NEW now, ReadInto(rt, next), ReadInto(next, now)
  PROVE  ReadInto(rt, now)
<1>1. \A i \in DOMAIN rt.triggers : EntryReadOn(rt.triggers[i], next.triggers[i]) /\ EntryReadOn(next.triggers[i], now.triggers[i])
  BY DEF ReadInto
<1>2. \A i \in DOMAIN rt.lboards : BoardReadOn(rt.lboards[i], next.lboards[i]) /\ BoardReadOn(next.lboards[i], now.lboards[i])
  BY DEF ReadInto
<1>3. \A i \in DOMAIN rt.triggers : EntryReadOn(rt.triggers[i], now.triggers[i])
  BY <1>1 DEF EntryReadOn
<1>4. \A i \in DOMAIN rt.lboards : BoardReadOn(rt.lboards[i], now.lboards[i])
  BY <1>2 DEF BoardReadOn
<1> QED BY <1>3, <1>4 DEF ReadInto

(* The references. *)
LEMMA MemrefsReadBack ==
  ASSUME NEW rt, RtFits(rt), NEW entries, NEW now, now = [rt EXCEPT !.pool = ReadMemrefs(@, entries)]
  PROVE  ReadInto(rt, now)
<1> DEFINE pool == ReadMemrefs(rt.pool, entries)
<1>1. PoolFine(pool)
  <2> DEFINE read(at, e) == IF e.ref \in ToSet(rt.pool.plain) THEN [at EXCEPT ![e.ref] = Restored(@, e.cell)] ELSE at
             at == FoldLeft(RecomputeCell, FoldLeft(read, rt.pool.at, entries), rt.pool.modified)
  <2>1. pool = [rt.pool EXCEPT !.at = at]
    BY Zenon DEF ReadMemrefs
  <2>2. PoolFine(rt.pool)
    BY DEF RtFits
  <2> HIDE DEF at, pool
  <2> QED BY <2>1, <2>2, PoolAt
<1>2. now = [rt EXCEPT !.pool = pool]
  OBVIOUS
<1> HIDE DEF pool
<1>3. RtFits(now) /\ now.triggers = rt.triggers /\ now.lboards = rt.lboards
  BY <1>1, <1>2, OtherPool
<1> QED BY <1>3, ReadIntoSame

(* What is read of the rich presence and of the references leaves the achievements and leaderboards alone. *)
LEMMA RichAndPool ==
  ASSUME NEW rt, RtFits(rt), NEW rich, RichFits(rich), NEW pool, PoolFine(pool),
         NEW now, now = [rt EXCEPT !.rich = rich, !.pool = pool]
  PROVE  ReadInto(rt, now)
<1>1. /\ DOMAIN now = RtFields /\ now.triggers = rt.triggers /\ now.lboards = rt.lboards
      /\ now.rich = rich /\ now.pool = pool
  BY DEF RtFits, RtFields
<1>2. RtFits(now)
  BY <1>1 DEF RtFits
<1> QED BY <1>1, <1>2, ReadIntoSame

FNamed == INSTANCE FoldFacts WITH Op <- StepNamed, Holds <- HoldsPool

(* The readings of the variables are put back by a fold. *)
LEMMA NamedFold ==
  ASSUME NEW pool, NEW values, NEW entries
  PROVE  NamedCells(pool, values, entries) = FNamed!Result(entries, pool, values)
  BY DEF NamedCells, FoldLeft, MapThenFoldSet, FNamed!Result, FNamed!Table, FNamed!Greatest, Max, StepNamed

(* And change cells alone. *)
LEMMA NamedCellsRead ==
  ASSUME NEW pool, PoolFine(pool), NEW values, VariablesShaped(values), NEW entries
  PROVE  PoolLike(pool, NamedCells(pool, values, entries))
<1> DEFINE n == Len(values)
<1>1. n \in Nat /\ DOMAIN values = 1..n
  BY ListFacts DEF VariablesShaped
<1>2. HoldsPool(entries, pool, 0, pool)
  BY DEF HoldsPool, PoolLike
<1>3. ASSUME NEW k \in 1..n, NEW p, HoldsPool(entries, pool, k - 1, p)
      PROVE  HoldsPool(entries, pool, k, StepNamed(entries, p, values[k]))
  <2> DEFINE v == values[k]
             data == entries[SavedAt(v, entries)].data
             r == ReadVariableCells(p, v.value, data)
  <2>1. StepNamed(entries, p, v) = p \/ StepNamed(entries, p, v) = r
    BY DEF StepNamed, ReadNamedCells
  <2>2. ValueShaped(v.value)
    BY <1>1 DEF VariablesShaped
  <2>3. PoolLike(pool, p) /\ PoolFine(p)
    BY <1>3 DEF HoldsPool, PoolLike
  <2> HIDE DEF v, data
  <2>4. PoolLike(p, r)
    BY <2>2, <2>3, VariableCellsRead
  <2> HIDE DEF r
  <2>5. PoolLike(pool, StepNamed(entries, p, v))
    BY <2>1, <2>3, <2>4 DEF PoolLike
  <2> QED BY <2>5 DEF HoldsPool, v
<1> HIDE DEF n
<1>4. \A k \in 1..n : \A p : HoldsPool(entries, pool, k - 1, p) => HoldsPool(entries, pool, k, StepNamed(entries, p, values[k]))
  BY <1>3
<1>5. HoldsPool(entries, pool, n, FNamed!Result(entries, pool, values))
  BY ONLY <1>1, <1>2, <1>4, FNamed!FoldKeeps, Induction
<1> QED BY <1>5, NamedFold DEF HoldsPool

(* A variable, from what was saved under its name or from the start. *)
LEMMA NamedReadBack ==
  ASSUME NEW v, DOMAIN v = {"name", "value"}, ValueShaped(v.value), NEW entries, NEW u, u = ReadNamed(v, entries)
  PROVE  DOMAIN u = {"name", "value"} /\ ValueShaped(u.value)
<1> DEFINE data == entries[SavedAt(v, entries)].data
           one == ResetValue(v.value)
           other == ReadVariable(v.value, data)
<1>1. u = [v EXCEPT !.value = one] \/ u = [v EXCEPT !.value = other]
  BY DEF ReadNamed
<1>2. ValueShaped(one)
  BY ValueReset, EvolvedValueShaped
<1>3. ValueShaped(other)
  BY VariableReadBack
<1> HIDE DEF one, other
<1> QED BY <1>1, <1>2, <1>3

(* The variables of a script. *)
LEMMA VariablesReadBack ==
  ASSUME NEW rt, RtFits(rt), NEW entries, NEW now, now = ReadVariables(rt, entries)
  PROVE  ReadInto(rt, now)
<1> DEFINE old == rt.rich.values
           values == [i \in DOMAIN old |-> ReadNamed(old[i], entries)]
           rich == [rt.rich EXCEPT !.values = values]
           pool == NamedCells(rt.pool, old, entries)
<1>1. now = [rt EXCEPT !.rich = rich, !.pool = pool]
  BY DEF ReadVariables, NamedCells
<1>2. VariablesShaped(old) /\ LinesShaped(rt.rich.displays) /\ DOMAIN rt.rich = {"def", "values", "displays"}
  BY DEF RtFits, RichFits, RichHolds
<1>3. \A i \in DOMAIN old : values[i] = ReadNamed(old[i], entries)
  OBVIOUS
<1>4. DOMAIN values = DOMAIN old /\ values = [i \in DOMAIN values |-> values[i]]
  OBVIOUS
<1> HIDE DEF old, values
<1>5. \A i \in DOMAIN old : DOMAIN values[i] = {"name", "value"} /\ ValueShaped(values[i].value)
  BY <1>2, <1>3, NamedReadBack DEF VariablesShaped
<1>6. VariablesShaped(values)
  BY <1>2, <1>4, <1>5, VariablesMapped
<1>7. RichFits(rich)
  BY <1>2, <1>6 DEF RichFits, RichHolds
<1>8. PoolFine(pool)
  BY <1>2, NamedCellsRead DEF RtFits, PoolLike
<1> HIDE DEF rich, pool
<1> QED BY <1>1, <1>7, <1>8, RichAndPool

(* One entry is replaced by what was read of it, and one leaderboard. *)
LEMMA EntryReplaced ==
  ASSUME NEW rt, RtFits(rt), NEW i \in DOMAIN rt.triggers, NEW e, EntryReadOn(rt.triggers[i], e),
         NEW list, list = [rt.triggers EXCEPT ![i] = e], NEW pool, PoolFine(pool),
         NEW now, now = [rt EXCEPT !.triggers = list, !.pool = pool]
  PROVE  ReadInto(rt, now)
<1>1. /\ DOMAIN now = RtFields /\ now.triggers = list /\ now.lboards = rt.lboards /\ now.rich = rt.rich
      /\ now.pool = pool
  BY DEF RtFits, RtFields
<1>2. IsList(rt.triggers) /\ Apart(rt.triggers) /\ \A j \in DOMAIN rt.triggers : EntryFits(rt.triggers[j])
  BY DEF RtFits, EntriesFit
<1>3. EntryFits(e) /\ e.id = rt.triggers[i].id
  BY DEF EntryReadOn
<1>4. /\ IsList(list) /\ Apart(list) /\ DOMAIN list = DOMAIN rt.triggers
      /\ \A j \in DOMAIN rt.triggers : list[j] = IF j = i THEN e ELSE rt.triggers[j]
  BY <1>2, <1>3, ChangeKeeps
<1>5. \A j \in DOMAIN rt.triggers : EntryReadOn(rt.triggers[j], list[j]) /\ EntryFits(list[j])
  BY <1>2, <1>3, <1>4 DEF EntryReadOn
<1>6. EntriesFit(list)
  BY <1>4, <1>5 DEF EntriesFit
<1>7. RtFits(now)
  BY <1>1, <1>6 DEF RtFits
<1>8. \A j \in DOMAIN rt.lboards : BoardReadOn(rt.lboards[j], rt.lboards[j])
  BY DEF RtFits, BoardsFit, BoardReadOn
<1> QED BY <1>1, <1>4, <1>5, <1>7, <1>8 DEF ReadInto

(* A leaderboard that was read back in place of the one there was. *)
LEMMA BoardReplaced ==
  ASSUME NEW rt, RtFits(rt), NEW i \in DOMAIN rt.lboards, NEW e, BoardReadOn(rt.lboards[i], e),
         NEW list, list = [rt.lboards EXCEPT ![i] = e], NEW pool, PoolFine(pool),
         NEW now, now = [rt EXCEPT !.lboards = list, !.pool = pool]
  PROVE  ReadInto(rt, now)
<1>1. /\ DOMAIN now = RtFields /\ now.lboards = list /\ now.triggers = rt.triggers /\ now.rich = rt.rich
      /\ now.pool = pool
  BY DEF RtFits, RtFields
<1>2. IsList(rt.lboards) /\ Apart(rt.lboards) /\ \A j \in DOMAIN rt.lboards : BoardFits(rt.lboards[j])
  BY DEF RtFits, BoardsFit
<1>3. BoardFits(e) /\ e.id = rt.lboards[i].id
  BY DEF BoardReadOn
<1>4. /\ IsList(list) /\ Apart(list) /\ DOMAIN list = DOMAIN rt.lboards
      /\ \A j \in DOMAIN rt.lboards : list[j] = IF j = i THEN e ELSE rt.lboards[j]
  BY <1>2, <1>3, ChangeKeeps
<1>5. \A j \in DOMAIN rt.lboards : BoardReadOn(rt.lboards[j], list[j]) /\ BoardFits(list[j])
  BY <1>2, <1>3, <1>4 DEF BoardReadOn
<1>6. BoardsFit(list)
  BY <1>4, <1>5 DEF BoardsFit
<1>7. RtFits(now)
  BY <1>1, <1>6 DEF RtFits
<1>8. \A j \in DOMAIN rt.triggers : EntryReadOn(rt.triggers[j], rt.triggers[j])
  BY DEF RtFits, EntriesFit, EntryReadOn
<1> QED BY <1>1, <1>4, <1>5, <1>7, <1>8 DEF ReadInto

(* An achievement is read back while it is marked, and if its definition is the one saved. *)
LEMMA AchievementReadBack ==
  ASSUME NEW rt, RtFits(rt), NEW c, ChunkFits(c), c.kind = "achievement", NEW now, now = ReadAchievement(rt, c)
  PROVE  ReadInto(rt, now)
<1> DEFINE i == IndexOf(rt.triggers, c.id)
           e == rt.triggers[i]
           t == ReadTrigger(e.trigger, c.data)
           d == [e EXCEPT !.trigger = t]
           list == [rt.triggers EXCEPT ![i] = d]
           pool == ReadTriggerCells(rt.pool, e.trigger, c.data)
           read == [rt EXCEPT !.triggers = list, !.pool = pool]
<1>1. CASE i = 0 \/ e.trigger.state # "unupdated" \/ e.def # c.def
  BY <1>1, ReadIntoSame DEF ReadAchievement
<1>2. CASE ~(i = 0 \/ e.trigger.state # "unupdated" \/ e.def # c.def)
  <2>1. now = read
    BY <1>2 DEF ReadAchievement
  <2>2. IsList(rt.triggers) /\ PoolFine(rt.pool)
    BY DEF RtFits, EntriesFit
  <2>3. i \in DOMAIN rt.triggers
    BY <1>2, <2>2, IndexOfFacts
  <2> HIDE DEF i
  <2>4. EntryFits(e)
    BY <2>3 DEF RtFits, EntriesFit
  <2>5. TriggerFits(e.trigger, Triggers[e.def]) /\ TriggerDataFits(c.data, Triggers[e.def]) /\ c.data.state \in TriggerStates
    BY <1>2, <2>4 DEF EntryFits, ChunkFits
  <2>6. e.trigger.state = "unupdated"
    BY <1>2
  <2> HIDE DEF e
  <2>7. TriggerFits(t, Triggers[e.def]) /\ t.state = c.data.state
    BY <2>5, TriggerReadFits
  <2>8. PoolFine(pool)
    BY <2>2, <2>5, FitsShaped, TriggerCellsRead DEF PoolLike
  <2> HIDE DEF t, pool
  <2>9. DOMAIN d = DOMAIN e /\ d.id = e.id /\ d.def = e.def /\ d.trigger = t
    BY <2>4 DEF EntryFits
  <2> HIDE DEF d
  <2>10. EntryReadOn(e, d)
    BY <2>4, <2>5, <2>6, <2>7, <2>9 DEF EntryReadOn, EntryFits
  <2>11. EntryReadOn(rt.triggers[i], d)
    BY <2>10 DEF e
  <2>12. list = [rt.triggers EXCEPT ![i] = d]
    OBVIOUS
  <2>13. now = [rt EXCEPT !.triggers = list, !.pool = pool]
    BY <2>1
  <2> HIDE DEF list, read
  <2> QED BY ONLY RtFits(rt), <2>3, <2>8, <2>11, <2>12, <2>13, EntryReplaced
<1> QED BY <1>1, <1>2

(* So is a leaderboard: its triggers, its value and its state. *)
LEMMA BoardReadBack ==
  ASSUME NEW l, NEW fields, LboardFits(l, fields), NEW data, BoardDataFits(data, fields), NEW u, u = ReadBoard(l, data)
  PROVE  LboardFits(u, fields) /\ u.state = data.state
<1> DEFINE s == ReadTrigger(l.start, data.start)
           q == ReadTrigger(l.submit, data.submit)
           c == ReadTrigger(l.cancel, data.cancel)
           v == ReadVariable(l.value, data.value)
<1>1. u = [l EXCEPT !.start = s, !.submit = q, !.cancel = c, !.value = v, !.state = data.state]
  BY DEF ReadBoard
<1>2. \A f \in TriggerNames : TriggerFits(ReadTrigger(l[f], data[f]), FieldDef(fields, f))
  BY TriggerReadFits DEF LboardFits, BoardDataFits
<1>3. s = ReadTrigger(l["start"], data["start"]) /\ q = ReadTrigger(l["submit"], data["submit"])
      /\ c = ReadTrigger(l["cancel"], data["cancel"])
  OBVIOUS
<1>4. ValueShaped(v)
  BY VariableReadBack DEF LboardFits, ValuesShaped
<1> HIDE DEF s, q, c, v
<1>5. DOMAIN l = LboardFields /\ ValuesShaped(l)
  BY DEF LboardFits
<1>6. DOMAIN u = LboardFields /\ u.state = data.state
  BY <1>1, <1>5 DEF LboardFields
<1>7. u.value = v /\ u.progress = l.progress
  BY <1>1, <1>5 DEF LboardFields
<1>8. u["start"] = s /\ u["submit"] = q /\ u["cancel"] = c
  BY <1>1, <1>5 DEF LboardFields
<1>9. \A f \in TriggerNames : u[f] = ReadTrigger(l[f], data[f])
  BY <1>3, <1>8 DEF TriggerNames
<1> QED BY <1>2, <1>4, <1>5, <1>6, <1>7, <1>9 DEF LboardFits, ValuesShaped

(* And the readings of its conditions. *)
LEMMA BoardCellsRead ==
  ASSUME NEW pool, PoolFine(pool), NEW l, LboardShaped(l), NEW data
  PROVE  PoolLike(pool, ReadBoardCells(pool, l, data))
<1> DEFINE a == ReadTriggerCells(pool, l.start, data.start)
           b == ReadTriggerCells(a, l.submit, data.submit)
           c == ReadTriggerCells(b, l.cancel, data.cancel)
           d == ReadVariableCells(c, l.value, data.value)
<1>1. ReadBoardCells(pool, l, data) = d
  BY DEF ReadBoardCells
<1>2. ValueShaped(l.value) /\ TriggerShaped(l["start"]) /\ TriggerShaped(l["submit"]) /\ TriggerShaped(l["cancel"])
  BY DEF LboardShaped, ValuesShaped, TriggerNames
<1>3. PoolLike(pool, a) /\ PoolFine(a)
  BY <1>2, TriggerCellsRead DEF PoolLike
<1> HIDE DEF a
<1>4. PoolLike(a, b) /\ PoolFine(b)
  BY <1>2, <1>3, TriggerCellsRead DEF PoolLike
<1> HIDE DEF b
<1>5. PoolLike(b, c) /\ PoolFine(c)
  BY <1>2, <1>4, TriggerCellsRead DEF PoolLike
<1> HIDE DEF c
<1>6. PoolLike(c, d)
  BY <1>2, <1>5, VariableCellsRead
<1> QED BY <1>1, <1>3, <1>4, <1>5, <1>6 DEF PoolLike

(* A leaderboard is read back while it is marked, and if its definition is the one saved. *)
LEMMA LboardReadBack ==
  ASSUME NEW rt, RtFits(rt), NEW c, ChunkFits(c), c.kind = "leaderboard", NEW now, now = ReadLboard(rt, c)
  PROVE  ReadInto(rt, now)
<1> DEFINE i == IndexOf(rt.lboards, c.id)
           e == rt.lboards[i]
           l == ReadBoard(e.lboard, c.data)
           d == [e EXCEPT !.lboard = l]
           list == [rt.lboards EXCEPT ![i] = d]
           pool == ReadBoardCells(rt.pool, e.lboard, c.data)
           read == [rt EXCEPT !.lboards = list, !.pool = pool]
<1>1. CASE i = 0 \/ e.lboard.state # "unupdated" \/ e.def # c.def
  BY <1>1, ReadIntoSame DEF ReadLboard
<1>2. CASE ~(i = 0 \/ e.lboard.state # "unupdated" \/ e.def # c.def)
  <2>1. now = read
    BY <1>2 DEF ReadLboard
  <2>2. IsList(rt.lboards) /\ PoolFine(rt.pool)
    BY DEF RtFits, BoardsFit
  <2>3. i \in DOMAIN rt.lboards
    BY <1>2, <2>2, IndexOfFacts
  <2> HIDE DEF i
  <2>4. BoardFits(e)
    BY <2>3 DEF RtFits, BoardsFit
  <2>5. LboardFits(e.lboard, Lboards[e.def]) /\ BoardDataFits(c.data, Lboards[e.def]) /\ c.data.state \in BoardStates
    BY <1>2, <2>4 DEF BoardFits, ChunkFits
  <2>6. e.lboard.state = "unupdated"
    BY <1>2
  <2> HIDE DEF e
  <2>7. LboardFits(l, Lboards[e.def]) /\ l.state = c.data.state
    BY <2>5, BoardReadBack
  <2>8. PoolFine(pool)
    BY <2>2, <2>5, LboardFitsShaped, BoardCellsRead DEF PoolLike
  <2> HIDE DEF l, pool
  <2>9. DOMAIN d = DOMAIN e /\ d.id = e.id /\ d.def = e.def /\ d.lboard = l
    BY <2>4 DEF BoardFits
  <2> HIDE DEF d
  <2>10. BoardReadOn(e, d)
    BY <2>4, <2>5, <2>6, <2>7, <2>9 DEF BoardReadOn, BoardFits
  <2>11. BoardReadOn(rt.lboards[i], d)
    BY <2>10 DEF e
  <2>12. list = [rt.lboards EXCEPT ![i] = d]
    OBVIOUS
  <2>13. now = [rt EXCEPT !.lboards = list, !.pool = pool]
    BY <2>1
  <2> HIDE DEF list, read
  <2> QED BY ONLY RtFits(rt), <2>3, <2>8, <2>11, <2>12, <2>13, BoardReplaced
<1> QED BY <1>1, <1>2

(* A conditional line that is read back. *)
LEMMA LineReadBack ==
  ASSUME NEW d, LineShaped(d), NEW data, NEW e, e = ReadLine(d, data)
  PROVE  LineShaped(e)
<1> DEFINE t == ReadTrigger(d.trigger, data)
<1>1. e = [d EXCEPT !.trigger = t]
  BY DEF ReadLine
<1>2. TriggerShaped(d.trigger) /\ DOMAIN d = {"parts", "trigger", "hasRequired"}
  BY DEF LineShaped
<1>3. TriggerShaped(t)
  BY <1>2, TriggerReadShaped
<1>4. TriggerCountsNone(d.trigger) => TriggerCountsNone(t)
  BY <1>2, CountsNoneReadBack
<1> HIDE DEF t
<1>5. DOMAIN e = {"parts", "trigger", "hasRequired"} /\ e.trigger = t
  BY <1>1, <1>2
<1>6. e.hasRequired = d.hasRequired
  BY ONLY <1>1, <1>2
<1> QED BY <1>3, <1>4, <1>5, <1>6 DEF LineShaped

(* All lines of the script but the last, which has no condition. *)
LEMMA LinesReadBack ==
  ASSUME NEW lines, LinesShaped(lines), NEW data
  PROVE  LinesShaped(ReadLines(lines, data))
<1> DEFINE now == ReadLines(lines, data)
<1>1. DOMAIN now = DOMAIN lines /\ now = [i \in DOMAIN now |-> now[i]]
  BY DEF ReadLines
<1>2. \A i \in DOMAIN lines : now[i] = lines[i] \/ now[i] = ReadLine(lines[i], data[i])
  BY DEF ReadLines
<1> HIDE DEF now
<1>3. \A i \in DOMAIN lines : LineShaped(now[i])
  BY <1>2, LineReadBack DEF LinesShaped
<1>4. LinesShaped(now)
  BY <1>1, <1>3, LinesMapped
<1> QED BY <1>4 DEF now

FLine == INSTANCE FoldFacts WITH Op <- StepLine, Holds <- HoldsPool

(* The readings of the lines are put back by a fold. *)
LEMMA LineCellsFold ==
  ASSUME NEW pool, NEW lines, NEW data
  PROVE  ReadLineCells(pool, lines, data) =
           FLine!Result([lines |-> lines, data |-> data], pool, [i \in 1..(Len(lines) - 1) |-> i])
  BY DEF ReadLineCells, FoldLeft, MapThenFoldSet, FLine!Result, FLine!Table, FLine!Greatest, Max, StepLine

(* And change cells alone. *)
LEMMA LineCellsRead ==
  ASSUME NEW pool, PoolFine(pool), NEW lines, LinesShaped(lines), NEW data
  PROVE  PoolLike(pool, ReadLineCells(pool, lines, data))
<1> DEFINE items == [i \in 1..(Len(lines) - 1) |-> i]
           n == IF Len(lines) = 0 THEN 0 ELSE Len(lines) - 1
           c == [lines |-> lines, data |-> data]
<1>1. Len(lines) \in Nat /\ DOMAIN lines = 1..Len(lines)
  BY ListFacts DEF LinesShaped
<1>2. n \in Nat /\ DOMAIN items = 1..n /\ \A k \in 1..n : items[k] = k /\ k \in DOMAIN lines
  BY <1>1
<1>3. HoldsPool(c, pool, 0, pool)
  BY DEF HoldsPool, PoolLike
<1>4. ASSUME NEW k \in 1..n, NEW p, HoldsPool(c, pool, k - 1, p)
      PROVE  HoldsPool(c, pool, k, StepLine(c, p, items[k]))
  <2> DEFINE t == lines[k].trigger
             r == ReadTriggerCells(p, t, data[k])
  <2>1. StepLine(c, p, items[k]) = r
    BY <1>2 DEF StepLine
  <2>2. TriggerShaped(t)
    BY <1>2 DEF LinesShaped, LineShaped
  <2>3. PoolLike(pool, p) /\ PoolFine(p)
    BY <1>4 DEF HoldsPool, PoolLike
  <2> HIDE DEF t
  <2>4. PoolLike(p, r)
    BY <2>2, <2>3, TriggerCellsRead
  <2> HIDE DEF r
  <2> QED BY <2>1, <2>3, <2>4 DEF HoldsPool, PoolLike
<1> HIDE DEF items, n, c
<1>5. \A k \in 1..n : \A p : HoldsPool(c, pool, k - 1, p) => HoldsPool(c, pool, k, StepLine(c, p, items[k]))
  BY <1>4
<1>6. HoldsPool(c, pool, n, FLine!Result(c, pool, items))
  BY ONLY <1>2, <1>3, <1>5, FLine!FoldKeeps, Induction
<1> QED BY <1>6, LineCellsFold DEF HoldsPool, c, items

(* The rich presence, if its script is the one saved; its lines start over if not. *)
LEMMA ScriptReadBack ==
  ASSUME NEW rt, RtFits(rt), NEW c, NEW now, now = ReadRichPresence(rt, c)
  PROVE  ReadInto(rt, now)
<1> DEFINE lines == ReadLines(rt.rich.displays, c.data)
           read == [rt.rich EXCEPT !.displays = lines]
           pool == ReadLineCells(rt.pool, rt.rich.displays, c.data)
           over == Rich(rt.rich.def, ResetDisplays(rt.rich))
<1>1. DOMAIN rt.rich = {"def", "values", "displays"} /\ RichHolds(rt.rich) /\ PoolFine(rt.pool)
  BY DEF RtFits, RichFits
<1>2. now = rt \/ now = [rt EXCEPT !.rich = over] \/ now = [rt EXCEPT !.rich = read, !.pool = pool]
  BY DEF ReadRichPresence
<1>3. RichFits(over)
  <2>1. RichHolds(ResetDisplays(rt.rich))
    BY <1>1, DisplaysReset
  <2> QED BY <2>1, RichOfHolds
<1>4. LinesShaped(lines)
  BY <1>1, LinesReadBack DEF RichHolds
<1>5. PoolFine(pool)
  BY <1>1, LineCellsRead DEF RichHolds, PoolLike
<1> HIDE DEF lines, pool, over
<1>6. RichFits(read)
  <2>1. DOMAIN read = DOMAIN rt.rich /\ read.displays = lines /\ read.values = rt.rich.values
    BY <1>1
  <2> QED BY <1>1, <1>4, <2>1 DEF RichFits, RichHolds
<1> HIDE DEF read
<1>7. CASE now = rt
  BY <1>7, ReadIntoSame
<1>8. CASE now = [rt EXCEPT !.rich = over]
  <2>1. RtFits(now) /\ now.lboards = rt.lboards /\ now.triggers = rt.triggers
    BY ONLY RtFits(rt), <1>3, <1>8, OtherRich
  <2> QED BY <2>1, ReadIntoSame
<1>9. CASE now = [rt EXCEPT !.rich = read, !.pool = pool]
  BY ONLY RtFits(rt), <1>5, <1>6, <1>9, RichAndPool
<1> QED BY <1>2, <1>7, <1>8, <1>9

(* One chunk, of any kind. *)
LEMMA ChunkReadBack ==
  ASSUME NEW rt, RtFits(rt), NEW c, ChunkFits(c), NEW now, now = ReadChunk(rt, c)
  PROVE  ReadInto(rt, now)
<1>1. CASE c.kind = "memrefs"
  <2>1. now = [rt EXCEPT !.pool = ReadMemrefs(@, c.data)]
    BY <1>1 DEF ReadChunk
  <2> QED BY <2>1, MemrefsReadBack
<1>2. CASE c.kind = "variables"
  <2>1. now = rt \/ now = ReadVariables(rt, Followed(rt, c.data))
    BY <1>2 DEF ReadChunk
  <2> QED BY <2>1, VariablesReadBack, ReadIntoSame
<1>3. CASE c.kind = "achievement"
  <2>1. now = ReadAchievement(rt, c)
    BY <1>3 DEF ReadChunk
  <2> QED BY <1>3, <2>1, AchievementReadBack
<1>4. CASE c.kind = "leaderboard"
  <2>1. now = ReadLboard(rt, c)
    BY <1>4 DEF ReadChunk
  <2> QED BY <1>4, <2>1, LboardReadBack
<1>5. CASE c.kind \notin {"memrefs", "variables", "achievement", "leaderboard"}
  <2>1. now = ReadRichPresence(rt, c)
    BY <1>5 DEF ReadChunk
  <2> QED BY <2>1, ScriptReadBack
<1> QED BY <1>1, <1>2, <1>3, <1>4, <1>5

FRead == INSTANCE FoldFacts WITH Op <- StepChunk, Holds <- HoldsRead

(* The chunks of a save state are read by a fold. *)
LEMMA ReadFold ==
  ASSUME NEW rt, NEW chunks
  PROVE  FoldLeft(ReadChunk, rt, chunks) = FRead!Result(0, rt, chunks)
  BY DEF FoldLeft, MapThenFoldSet, FRead!Result, FRead!Table, FRead!Greatest, Max, StepChunk

(* Reading them changes nothing of what was not marked. *)
LEMMA EachChunkReadBack ==
  ASSUME NEW rt, RtFits(rt), NEW chunks, ChunksFit(chunks)
  PROVE  ReadInto(rt, FoldLeft(ReadChunk, rt, chunks))
<1> DEFINE n == Len(chunks)
<1>1. n \in Nat /\ DOMAIN chunks = 1..n
  BY ListFacts DEF ChunksFit
<1>2. HoldsRead(0, rt, 0, rt)
  BY ReadIntoSame DEF HoldsRead
<1>3. ASSUME NEW k \in 1..n, NEW a, HoldsRead(0, rt, k - 1, a)
      PROVE  HoldsRead(0, rt, k, StepChunk(0, a, chunks[k]))
  <2> DEFINE now == ReadChunk(a, chunks[k])
  <2>1. ChunkFits(chunks[k])
    BY <1>1 DEF ChunksFit
  <2>2. RtFits(a) /\ ReadInto(rt, a)
    BY <1>3 DEF HoldsRead
  <2>3. ReadInto(a, now)
    BY <2>1, <2>2, ChunkReadBack
  <2>4. StepChunk(0, a, chunks[k]) = now
    BY DEF StepChunk
  <2> HIDE DEF now
  <2>5. ReadInto(rt, now)
    BY <2>2, <2>3, ReadIntoOn
  <2> QED BY <2>4, <2>5 DEF HoldsRead, ReadInto
<1> HIDE DEF n
<1>4. \A k \in 1..n : \A a : HoldsRead(0, rt, k - 1, a) => HoldsRead(0, rt, k, StepChunk(0, a, chunks[k]))
  BY <1>3
<1>5. HoldsRead(0, rt, n, FRead!Result(0, rt, chunks))
  BY ONLY <1>1, <1>2, <1>4, FRead!FoldKeeps, Induction
<1> QED BY <1>5, ReadFold DEF HoldsRead

(* What is active is marked, and nothing else changes. *)
LEMMA MarkedFits ==
  ASSUME NEW rt, RtFits(rt), NEW now, now = Marked(rt)
  PROVE  /\ RtFits(now) /\ DOMAIN now.triggers = DOMAIN rt.triggers /\ DOMAIN now.lboards = DOMAIN rt.lboards
         /\ \A i \in DOMAIN rt.triggers :
              /\ EntryFits(now.triggers[i]) /\ now.triggers[i].id = rt.triggers[i].id
              /\ now.triggers[i].trigger.state = IF TriggerStateActive(rt.triggers[i].trigger.state) THEN "unupdated"
                                                 ELSE rt.triggers[i].trigger.state
         /\ \A i \in DOMAIN rt.lboards :
              /\ BoardFits(now.lboards[i]) /\ now.lboards[i].id = rt.lboards[i].id
              /\ now.lboards[i].lboard.state = IF LboardStateActive(rt.lboards[i].lboard.state) THEN "unupdated"
                                               ELSE rt.lboards[i].lboard.state
<1> DEFINE entry(e) == IF TriggerStateActive(e.trigger.state) THEN [e EXCEPT !.trigger.state = "unupdated"] ELSE e
           board(e) == IF LboardStateActive(e.lboard.state) THEN [e EXCEPT !.lboard.state = "unupdated"] ELSE e
           triggers == [i \in DOMAIN rt.triggers |-> entry(rt.triggers[i])]
           lboards == [i \in DOMAIN rt.lboards |-> board(rt.lboards[i])]
<1>1. now = [rt EXCEPT !.triggers = triggers, !.lboards = lboards]
  BY DEF Marked
<1>2. ASSUME NEW e, EntryFits(e)
      PROVE  /\ EntryFits(entry(e)) /\ entry(e).id = e.id
             /\ entry(e).trigger.state = IF TriggerStateActive(e.trigger.state) THEN "unupdated" ELSE e.trigger.state
  <2> DEFINE t == [e.trigger EXCEPT !.state = "unupdated"]
             d == [e EXCEPT !.trigger = t]
  <2>1. TriggerFits(e.trigger, Triggers[e.def])
    BY <1>2 DEF EntryFits
  <2>2. TriggerFits(t, Triggers[e.def]) /\ t.state = "unupdated"
    BY <2>1, FitsOtherState
  <2>3. entry(e) = IF TriggerStateActive(e.trigger.state) THEN d ELSE e
    OBVIOUS
  <2> HIDE DEF t, entry
  <2>4. DOMAIN d = DOMAIN e /\ d.id = e.id /\ d.def = e.def /\ d.trigger = t
    BY <1>2 DEF EntryFits
  <2> HIDE DEF d
  <2> QED BY <1>2, <2>2, <2>3, <2>4 DEF EntryFits
<1>3. ASSUME NEW e, BoardFits(e)
      PROVE  /\ BoardFits(board(e)) /\ board(e).id = e.id
             /\ board(e).lboard.state = IF LboardStateActive(e.lboard.state) THEN "unupdated" ELSE e.lboard.state
  <2> DEFINE l == [e.lboard EXCEPT !.state = "unupdated"]
             d == [e EXCEPT !.lboard = l]
  <2>1. LboardFits(e.lboard, Lboards[e.def])
    BY <1>3 DEF BoardFits
  <2>2. LboardFits(l, Lboards[e.def]) /\ l.state = "unupdated"
    BY <2>1, BoardOtherState
  <2>3. board(e) = IF LboardStateActive(e.lboard.state) THEN d ELSE e
    OBVIOUS
  <2> HIDE DEF l, board
  <2>4. DOMAIN d = DOMAIN e /\ d.id = e.id /\ d.def = e.def /\ d.lboard = l
    BY <1>3 DEF BoardFits
  <2> HIDE DEF d
  <2> QED BY <1>3, <2>2, <2>3, <2>4 DEF BoardFits
<1>4. DOMAIN triggers = DOMAIN rt.triggers /\ triggers = [i \in DOMAIN triggers |-> triggers[i]]
      /\ \A i \in DOMAIN rt.triggers : triggers[i] = entry(rt.triggers[i])
  OBVIOUS
<1>5. DOMAIN lboards = DOMAIN rt.lboards /\ lboards = [i \in DOMAIN lboards |-> lboards[i]]
      /\ \A i \in DOMAIN rt.lboards : lboards[i] = board(rt.lboards[i])
  OBVIOUS
<1> HIDE DEF triggers, lboards, entry, board
<1>6. EntriesFit(rt.triggers) /\ BoardsFit(rt.lboards)
  BY DEF RtFits
<1>7. \A i \in DOMAIN rt.triggers :
        /\ EntryFits(triggers[i]) /\ triggers[i].id = rt.triggers[i].id
        /\ triggers[i].trigger.state = IF TriggerStateActive(rt.triggers[i].trigger.state) THEN "unupdated"
                                       ELSE rt.triggers[i].trigger.state
  BY <1>2, <1>4, <1>6 DEF EntriesFit
<1>8. \A i \in DOMAIN rt.lboards :
        /\ BoardFits(lboards[i]) /\ lboards[i].id = rt.lboards[i].id
        /\ lboards[i].lboard.state = IF LboardStateActive(rt.lboards[i].lboard.state) THEN "unupdated"
                                     ELSE rt.lboards[i].lboard.state
  BY <1>3, <1>5, <1>6 DEF BoardsFit
<1>9. EntriesFit(triggers)
  BY <1>4, <1>6, <1>7, EachEntryFits
<1>10. BoardsFit(lboards)
  BY <1>5, <1>6, <1>8, EachBoardFits
<1>11. DOMAIN now = RtFields /\ now.triggers = triggers /\ now.lboards = lboards /\ now.pool = rt.pool /\ now.rich = rt.rich
  BY <1>1 DEF RtFits, RtFields
<1>12. RtFits(now)
  BY <1>9, <1>10, <1>11 DEF RtFits
<1> QED BY <1>4, <1>5, <1>7, <1>8, <1>11, <1>12

(* All chunks are read, into a runtime that was marked. *)
LEMMA ChunksReadBack ==
  ASSUME NEW rt, RtFits(rt), StatesFit(rt), NEW chunks, ChunksFit(chunks), NEW now, now = ReadChunks(rt, chunks)
  PROVE  Halfway(rt, now)
<1> DEFINE marked == Marked(rt)
<1>1. now = FoldLeft(ReadChunk, marked, chunks)
  BY DEF ReadChunks
<1>2. /\ RtFits(marked) /\ DOMAIN marked.triggers = DOMAIN rt.triggers /\ DOMAIN marked.lboards = DOMAIN rt.lboards
      /\ \A i \in DOMAIN rt.triggers :
           /\ EntryFits(marked.triggers[i]) /\ marked.triggers[i].id = rt.triggers[i].id
           /\ marked.triggers[i].trigger.state = IF TriggerStateActive(rt.triggers[i].trigger.state) THEN "unupdated"
                                                 ELSE rt.triggers[i].trigger.state
      /\ \A i \in DOMAIN rt.lboards :
           /\ BoardFits(marked.lboards[i]) /\ marked.lboards[i].id = rt.lboards[i].id
           /\ marked.lboards[i].lboard.state = IF LboardStateActive(rt.lboards[i].lboard.state) THEN "unupdated"
                                               ELSE rt.lboards[i].lboard.state
  BY MarkedFits
<1> HIDE DEF marked
<1>3. ReadInto(marked, now)
  BY <1>1, <1>2, EachChunkReadBack
<1>4. "unupdated" \notin TriggerStates
  BY DEF TriggerStates
<1>5. ASSUME NEW i \in DOMAIN rt.triggers
      PROVE  EntryHalfway(rt.triggers[i], now.triggers[i])
  <2>1. EntryReadOn(marked.triggers[i], now.triggers[i])
    BY <1>2, <1>3 DEF ReadInto
  <2>2. rt.triggers[i].trigger.state \in TriggerStates
    BY DEF StatesFit
  <2> QED BY <1>2, <1>4, <2>1, <2>2 DEF EntryReadOn, EntryHalfway
<1>6. ASSUME NEW i \in DOMAIN rt.lboards
      PROVE  BoardHalfway(rt.lboards[i], now.lboards[i])
  <2>1. BoardReadOn(marked.lboards[i], now.lboards[i])
    BY <1>2, <1>3 DEF ReadInto
  <2>2. rt.lboards[i].lboard.state \in BoardStates
    BY DEF StatesFit
  <2> QED BY <1>2, <2>1, <2>2 DEF BoardReadOn, BoardHalfway
<1> QED BY <1>2, <1>3, <1>5, <1>6 DEF ReadInto, Halfway

(* What no chunk was about starts over. *)
LEMMA UnreadStartsOver ==
  ASSUME NEW rt, NEW read, Halfway(rt, read), NEW seen, NEW now, now = StartOverUnread(read, seen)
  PROVE  RuntimeRestored(rt, now)
<1> DEFINE entry(e) == IF e.trigger.state = "unupdated" THEN ResetEntry(e) ELSE e
           board(e) == IF e.lboard.state = "unupdated" THEN ResetBoard(e) ELSE e
           triggers == [i \in DOMAIN read.triggers |-> entry(read.triggers[i])]
           lboards == [i \in DOMAIN read.lboards |-> board(read.lboards[i])]
           rich == IF seen THEN read.rich ELSE Rich(read.rich.def, ResetDisplays(read.rich))
<1>1. now = [read EXCEPT !.triggers = triggers, !.lboards = lboards, !.rich = rich]
  BY DEF StartOverUnread
<1>2. RtFits(read) /\ EntriesFit(read.triggers) /\ BoardsFit(read.lboards) /\ RichFits(read.rich)
  BY DEF Halfway, RtFits
<1>3. RichFits(rich)
  <2>1. RichHolds(ResetDisplays(read.rich))
    BY <1>2, DisplaysReset DEF RichFits
  <2>2. RichFits(Rich(read.rich.def, ResetDisplays(read.rich)))
    BY <2>1, RichOfHolds
  <2> QED BY <1>2, <2>2
<1> HIDE DEF rich
<1>4. ASSUME NEW e, NEW d, EntryHalfway(e, d)
      PROVE  EntryRestored(e, entry(d)) /\ entry(d).id = d.id
  <2>1. EntryRenewed(d, ResetEntry(d))
    BY <1>4, EntryStartsOver DEF EntryHalfway
  <2>2. "waiting" \in TriggerStates
    BY DEF TriggerStates
  <2>3. entry(d) = IF d.trigger.state = "unupdated" THEN ResetEntry(d) ELSE d
    OBVIOUS
  <2> HIDE DEF entry
  <2> QED BY <1>4, <2>1, <2>2, <2>3 DEF EntryHalfway, EntryRestored, EntryRenewed
<1>5. ASSUME NEW e, NEW d, BoardHalfway(e, d)
      PROVE  BoardRestored(e, board(d)) /\ board(d).id = d.id
  <2>1. BoardRenewed(d, ResetBoard(d))
    BY <1>5, BoardStartsOver DEF BoardHalfway
  <2>2. "waiting" \in BoardStates
    BY DEF BoardStates
  <2>3. board(d) = IF d.lboard.state = "unupdated" THEN ResetBoard(d) ELSE d
    OBVIOUS
  <2> HIDE DEF board
  <2> QED BY <1>5, <2>1, <2>2, <2>3 DEF BoardHalfway, BoardRestored, BoardRenewed
<1>6. DOMAIN triggers = DOMAIN read.triggers /\ triggers = [i \in DOMAIN triggers |-> triggers[i]]
      /\ \A i \in DOMAIN read.triggers : triggers[i] = entry(read.triggers[i])
  OBVIOUS
<1>7. DOMAIN lboards = DOMAIN read.lboards /\ lboards = [i \in DOMAIN lboards |-> lboards[i]]
      /\ \A i \in DOMAIN read.lboards : lboards[i] = board(read.lboards[i])
  OBVIOUS
<1> HIDE DEF triggers, lboards, entry, board
<1>8. \A i \in DOMAIN rt.triggers : EntryRestored(rt.triggers[i], triggers[i]) /\ triggers[i].id = read.triggers[i].id
  BY <1>4, <1>6 DEF Halfway
<1>9. \A i \in DOMAIN rt.lboards : BoardRestored(rt.lboards[i], lboards[i]) /\ lboards[i].id = read.lboards[i].id
  BY <1>5, <1>7 DEF Halfway
<1>10. DOMAIN read.triggers = DOMAIN rt.triggers /\ DOMAIN read.lboards = DOMAIN rt.lboards
  BY DEF Halfway
<1>11. EntriesFit(triggers)
  BY <1>2, <1>6, <1>8, <1>10, EachEntryFits DEF EntryRestored
<1>12. BoardsFit(lboards)
  BY <1>2, <1>7, <1>9, <1>10, EachBoardFits DEF BoardRestored
<1>13. DOMAIN now = RtFields /\ now.triggers = triggers /\ now.lboards = lboards /\ now.pool = read.pool /\ now.rich = rich
  BY <1>1, <1>2 DEF RtFits, RtFields
<1>14. RtFits(now)
  BY <1>2, <1>3, <1>11, <1>12, <1>13 DEF RtFits
<1> QED BY <1>6, <1>7, <1>8, <1>9, <1>10, <1>13, <1>14 DEF RuntimeRestored

(* A save state, intact or damaged, leaves no state that is not one. *)
LEMMA ProgressRestored ==
  ASSUME NEW rt, RtFits(rt), StatesFit(rt), NEW chunks, ChunksFit(chunks), NEW intact,
         NEW now, now = Deserialize(rt, chunks, intact)
  PROVE  RuntimeRestored(rt, now)
<1> DEFINE read == ReadChunks(rt, chunks)
           seen == \E i \in DOMAIN chunks : chunks[i].kind = "rich"
<1>1. now = IF intact THEN StartOverUnread(read, seen) ELSE ResetRuntime(read)
  BY DEF Deserialize, FinishReading
<1>2. Halfway(rt, read)
  BY ChunksReadBack
<1> HIDE DEF read, seen
<1>3. CASE intact
  <2>1. now = StartOverUnread(read, seen)
    BY <1>1, <1>3
  <2> QED BY <1>2, <2>1, UnreadStartsOver
<1>4. CASE ~intact
  <2>1. now = ResetRuntime(read)
    BY <1>1, <1>4
  <2>2. RtFits(now) /\ Renewals(read, now)
    BY <1>2, <2>1, RuntimeReset DEF Halfway
  <2>3. "waiting" \in TriggerStates /\ "waiting" \in BoardStates
    BY DEF TriggerStates, BoardStates
  <2>4. \A i \in DOMAIN rt.triggers : EntryRestored(rt.triggers[i], now.triggers[i])
    BY <1>2, <2>2, <2>3 DEF Halfway, EntryHalfway, Renewals, EntryRenewed, EntryRestored
  <2>5. \A i \in DOMAIN rt.lboards : BoardRestored(rt.lboards[i], now.lboards[i])
    BY <1>2, <2>2, <2>3 DEF Halfway, BoardHalfway, Renewals, BoardRenewed, BoardRestored
  <2> QED BY <1>2, <2>2, <2>4, <2>5 DEF Halfway, Renewals, RuntimeRestored
<1> QED BY <1>3, <1>4

(* A damaged one leaves everything started over. *)
LEMMA DamageRestored ==
  ASSUME NEW rt, RtFits(rt), StatesFit(rt), NEW chunks, ChunksFit(chunks),
         NEW now, now = Deserialize(rt, chunks, FALSE)
  PROVE  RtFits(now) /\ \E read : Renewals(read, now)
<1> DEFINE read == ReadChunks(rt, chunks)
<1>1. now = ResetRuntime(read)
  BY DEF Deserialize, FinishReading
<1>2. Halfway(rt, read)
  BY ChunksReadBack
<1> HIDE DEF read
<1>3. RtFits(now) /\ Renewals(read, now)
  BY <1>1, <1>2, RuntimeReset DEF Halfway
<1> QED BY <1>3

FLine1 == INSTANCE FoldFacts WITH Op <- StepLine1, Holds <- HoldsLineUp

FLine2 == INSTANCE FoldFacts WITH Op <- StepLine2, Holds <- HoldsLineUp

(* A runtime without definitions. *)
LEMMA EmptyFits == RtFits(EmptyRuntime) /\ AllWaiting(EmptyRuntime)
<1>1. /\ DOMAIN EmptyRuntime = RtFields /\ EmptyRuntime.pool = EmptyPool /\ EmptyRuntime.triggers = <<>>
      /\ EmptyRuntime.lboards = <<>> /\ EmptyRuntime.rich = NoRich
  BY DEF EmptyRuntime, RtFields
<1>2. PoolFine(EmptyPool)
  <2>1. DOMAIN EmptyPool = PoolFields /\ EmptyPool.plain = <<>> /\ EmptyPool.modified = <<>>
    BY DEF EmptyPool, PoolFields
  <2>2. Ordered(<<>>)
    BY EmptyList DEF Ordered
  <2> QED BY <2>1, <2>2, EmptyList DEF PoolFine
<1>3. RichFits(NoRich)
  <2>1. DOMAIN NoRich = {"def", "values", "displays"} /\ NoRich.values = <<>> /\ NoRich.displays = <<>>
    BY DEF NoRich
  <2> QED BY <2>1, EmptyList DEF RichFits, RichHolds, VariablesShaped, LinesShaped
<1>4. EntriesFit(<<>>) /\ BoardsFit(<<>>)
  BY EmptyList DEF EntriesFit, BoardsFit, Apart
<1>5. DOMAIN <<>> = {}
  BY EmptyList
<1>6. AllWaiting(EmptyRuntime)
  BY <1>1, <1>5 DEF AllWaiting
<1> QED BY <1>1, <1>2, <1>3, <1>4, <1>6 DEF RtFits

(* Achievements are entered one after another. *)
LEMMA EntriesFold ==
  ASSUME NEW rt, NEW list
  PROVE  EntriesLinedUp(rt, list) = FLine1!Result(0, rt, list)
  BY DEF EntriesLinedUp, FoldLeft, MapThenFoldSet, FLine1!Result, FLine1!Table, FLine1!Greatest, Max, StepLine1

(* And wait. *)
LEMMA EntriesWait ==
  ASSUME NEW rt, RtFits(rt), AllWaiting(rt), NEW list, IsList(list),
         \A i \in DOMAIN list : list[i] \in [id : Ids, def : DOMAIN Triggers]
  PROVE  RtFits(EntriesLinedUp(rt, list)) /\ AllWaiting(EntriesLinedUp(rt, list))
<1> DEFINE n == Len(list)
<1>1. n \in Nat /\ DOMAIN list = 1..n
  BY ListFacts
<1>2. HoldsLineUp(0, rt, 0, rt)
  BY DEF HoldsLineUp
<1>3. ASSUME NEW k \in 1..n, NEW a, HoldsLineUp(0, rt, k - 1, a)
      PROVE  HoldsLineUp(0, rt, k, StepLine1(0, a, list[k]))
  <2> DEFINE id == list[k].id
             def == list[k].def
             now == ActivateAchievement(a, id, def)
  <2>1. StepLine1(0, a, list[k]) = now
    BY DEF StepLine1
  <2>2. id \in Ids /\ def \in DOMAIN Triggers
    BY <1>1
  <2>3. RtFits(a) /\ AllWaiting(a)
    BY <1>3 DEF HoldsLineUp
  <2> HIDE DEF id, def
  <2>4. RtFits(now) /\ now.lboards = a.lboards /\ StartedAlone(a.triggers, id, now.triggers)
    BY <2>2, <2>3, AchievementActivated
  <2> HIDE DEF now
  <2>5. AllWaiting(now)
    BY <2>3, <2>4 DEF AllWaiting, StartedAlone
  <2> QED BY <2>1, <2>4, <2>5 DEF HoldsLineUp
<1> HIDE DEF n
<1>4. \A k \in 1..n : \A a : HoldsLineUp(0, rt, k - 1, a) => HoldsLineUp(0, rt, k, StepLine1(0, a, list[k]))
  BY <1>3
<1>5. HoldsLineUp(0, rt, n, FLine1!Result(0, rt, list))
  BY ONLY <1>1, <1>2, <1>4, FLine1!FoldKeeps, Induction
<1> QED BY <1>5, EntriesFold DEF HoldsLineUp

(* Leaderboards are entered one after another. *)
LEMMA BoardsFold ==
  ASSUME NEW rt, NEW list
  PROVE  BoardsLinedUp(rt, list) = FLine2!Result(0, rt, list)
  BY DEF BoardsLinedUp, FoldLeft, MapThenFoldSet, FLine2!Result, FLine2!Table, FLine2!Greatest, Max, StepLine2

(* And wait. *)
LEMMA BoardsWait ==
  ASSUME NEW rt, RtFits(rt), AllWaiting(rt), NEW list, IsList(list),
         \A i \in DOMAIN list : list[i] \in [id : Ids, def : DOMAIN Lboards]
  PROVE  RtFits(BoardsLinedUp(rt, list)) /\ AllWaiting(BoardsLinedUp(rt, list))
<1> DEFINE n == Len(list)
<1>1. n \in Nat /\ DOMAIN list = 1..n
  BY ListFacts
<1>2. HoldsLineUp(0, rt, 0, rt)
  BY DEF HoldsLineUp
<1>3. ASSUME NEW k \in 1..n, NEW a, HoldsLineUp(0, rt, k - 1, a)
      PROVE  HoldsLineUp(0, rt, k, StepLine2(0, a, list[k]))
  <2> DEFINE id == list[k].id
             def == list[k].def
             now == ActivateLboard(a, id, def)
  <2>1. StepLine2(0, a, list[k]) = now
    BY DEF StepLine2
  <2>2. id \in Ids /\ def \in DOMAIN Lboards
    BY <1>1
  <2>3. RtFits(a) /\ AllWaiting(a)
    BY <1>3 DEF HoldsLineUp
  <2> HIDE DEF id, def
  <2>4. RtFits(now) /\ now.triggers = a.triggers /\ BoardStartedAlone(a.lboards, id, now.lboards)
    BY <2>2, <2>3, LboardActivated
  <2> HIDE DEF now
  <2>5. AllWaiting(now)
    BY <2>3, <2>4 DEF AllWaiting, BoardStartedAlone
  <2> QED BY <2>1, <2>4, <2>5 DEF HoldsLineUp
<1> HIDE DEF n
<1>4. \A k \in 1..n : \A a : HoldsLineUp(0, rt, k - 1, a) => HoldsLineUp(0, rt, k, StepLine2(0, a, list[k]))
  BY <1>3
<1>5. HoldsLineUp(0, rt, n, FLine2!Result(0, rt, list))
  BY ONLY <1>1, <1>2, <1>4, FLine2!FoldKeeps, Induction
<1> QED BY <1>5, BoardsFold DEF HoldsLineUp

(* A runtime that was just given its definitions. *)
LEMMA LinedUp ==
  ASSUME NEW l \in LineUps
  PROVE  RtFits(LineUp(l)) /\ AllWaiting(LineUp(l))
<1> DEFINE one == EntriesLinedUp(EmptyRuntime, l.achievements)
           two == BoardsLinedUp(one, l.lboards)
           three == ActivateRichPresence(two, l.script)
<1>1. LineUp(l) = IF l.script = NoScript THEN two ELSE three
  BY DEF LineUp, EntriesLinedUp, BoardsLinedUp
<1>2. /\ IsList(l.achievements)
      /\ \A i \in DOMAIN l.achievements : l.achievements[i] \in [id : Ids, def : DOMAIN Triggers]
      /\ IsList(l.lboards)
      /\ \A i \in DOMAIN l.lboards : l.lboards[i] \in [id : Ids, def : DOMAIN Lboards]
      /\ l.script # NoScript => l.script \in DOMAIN Scripts
  BY HostAssumption DEF NoScript
<1>3. RtFits(one) /\ AllWaiting(one)
  BY <1>2, EmptyFits, EntriesWait
<1> HIDE DEF one
<1>4. RtFits(two) /\ AllWaiting(two)
  BY <1>2, <1>3, BoardsWait
<1> HIDE DEF two
<1>5. CASE l.script = NoScript
  BY <1>1, <1>4, <1>5
<1>6. CASE l.script # NoScript
  <2>1. LineUp(l) = three
    BY <1>1, <1>6
  <2>2. RtFits(three) /\ three.lboards = two.lboards /\ three.triggers = two.triggers
    BY <1>2, <1>4, <1>6, ScriptActivated
  <2> HIDE DEF three
  <2> QED BY <1>4, <2>1, <2>2 DEF AllWaiting
<1> QED BY <1>5, <1>6

(* A frame leaves every state one of its states. *)
LEMMA RanStates ==
  ASSUME NEW rt, StatesFit(rt), NEW now, NEW told, Ran(rt, now, told)
  PROVE  RtFits(now) /\ StatesFit(now)
<1>1. LiveStates \cup {"disabled"} \subseteq TriggerStates
  BY DEF LiveStates, TriggerStates
<1>2. BoardLive \cup {"disabled"} \subseteq BoardStates
  BY DEF BoardLive, BoardStates
<1>3. \A i \in DOMAIN now.triggers : now.triggers[i].trigger.state \in TriggerStates
  BY <1>1 DEF Ran, EntryRan, StatesFit
<1>4. \A i \in DOMAIN now.lboards : now.lboards[i].lboard.state \in BoardStates
  BY <1>2 DEF Ran, BoardRan, StatesFit
<1> QED BY <1>3, <1>4 DEF Ran, StatesFit

FPast == INSTANCE FoldFacts WITH Op <- StepPast, Holds <- HoldsPast

(* The frames of an earlier session are a fold. *)
LEMMA PastFold ==
  ASSUME NEW rt
  PROVE  PastRun(rt) = FPast!Result(0, rt, Past)
  BY DEF PastRun, FoldLeft, MapThenFoldSet, FPast!Result, FPast!Table, FPast!Greatest, Max, StepPast

(* And what it saved fits the definitions it was saved of. *)
LEMMA EarlierFits ==
  ASSUME NEW rt, RtFits(rt), AllWaiting(rt)
  PROVE  LET s == EarlierProgress(rt)
         IN  DOMAIN s = {"chunks", "complete"} /\ s.complete \in BOOLEAN /\ ChunksFit(s.chunks)
<1> DEFINE n == Len(Past)
           ran == PastRun(rt)
<1>1. n \in Nat /\ DOMAIN Past = 1..n
  BY HostAssumption, ListFacts
<1>2. "waiting" \in TriggerStates /\ "waiting" \in BoardStates
  BY DEF TriggerStates, BoardStates
<1>3. HoldsPast(0, rt, 0, rt)
  BY <1>2 DEF HoldsPast, AllWaiting, StatesFit
<1>4. ASSUME NEW k \in 1..n, NEW a, HoldsPast(0, rt, k - 1, a)
      PROVE  HoldsPast(0, rt, k, StepPast(0, a, Past[k]))
  <2> DEFINE r == DoFrame(a, Past[k])
  <2>1. StepPast(0, a, Past[k]) = r.rt
    BY DEF StepPast
  <2>2. RtFits(a) /\ StatesFit(a)
    BY <1>4 DEF HoldsPast
  <2>3. Ran(a, r.rt, r.events)
    BY <2>2, FrameRuns
  <2> HIDE DEF r
  <2>4. RtFits(r.rt) /\ StatesFit(r.rt)
    BY <2>2, <2>3, RanStates
  <2> QED BY <2>1, <2>4 DEF HoldsPast
<1> HIDE DEF n
<1>5. \A k \in 1..n : \A a : HoldsPast(0, rt, k - 1, a) => HoldsPast(0, rt, k, StepPast(0, a, Past[k]))
  BY <1>4
<1>6. HoldsPast(0, rt, n, FPast!Result(0, rt, Past))
  BY ONLY <1>1, <1>3, <1>5, FPast!FoldKeeps, Induction
<1>7. RtFits(ran) /\ StatesFit(ran)
  BY <1>6, PastFold DEF HoldsPast
<1>8. EarlierProgress(rt) = [chunks |-> Serialize(ran), complete |-> TRUE]
  BY DEF EarlierProgress, PastRun
<1> HIDE DEF ran
<1>9. ChunksFit(Serialize(ran))
  BY <1>7, SerializedFits
<1> DEFINE chunks == Serialize(ran)
<1> HIDE DEF chunks
<1>10. EarlierProgress(rt) = [chunks |-> chunks, complete |-> TRUE] /\ ChunksFit(chunks)
  BY <1>8, <1>9 DEF chunks
<1> QED BY <1>10

(* The invariant holds of a runtime that was just given its definitions. *)
LEMMA InitHolds == Init => IInv
<1> SUFFICES ASSUME Init
             PROVE  IInv
  OBVIOUS
<1>1. PICK l \in LineUps : runtime = LineUp(l)
  BY DEF Init, Given
<1>2. RtFits(runtime) /\ AllWaiting(runtime)
  BY <1>1, LinedUp
<1>3. "waiting" \in TriggerStates /\ "waiting" \in BoardStates
  BY DEF TriggerStates, BoardStates
<1>4. StatesFit(runtime)
  BY <1>2, <1>3 DEF AllWaiting, StatesFit
<1>5. SavedFits
  <2>1. CASE saved = NothingSaved
    <3>1. DOMAIN saved = {"chunks", "complete"} /\ saved.chunks = <<>> /\ saved.complete = FALSE
      BY <2>1 DEF NothingSaved
    <3> QED BY <3>1, NoChunks DEF SavedFits
  <2>2. CASE saved # NothingSaved
    <3>1. PICK k \in LineUps : saved = EarlierProgress(LineUp(k))
      BY <2>2 DEF Init, Given
    <3>2. RtFits(LineUp(k)) /\ AllWaiting(LineUp(k))
      BY LinedUp
    <3> QED BY <3>1, <3>2, EarlierFits DEF SavedFits
  <2> QED BY <2>1, <2>2
<1>6. frames = 0 /\ calls = 0 /\ fired = {} /\ fresh = TriggerIds(runtime)
  BY DEF Init
<1>7. Counting
  BY <1>6, HostAssumption DEF Counting
<1>8. fresh \subseteq Ids
  BY <1>2, <1>6 DEF TriggerIds, RtFits, EntriesFit, EntryFits
<1>9. OverStays /\ FreshWaits
  BY <1>2, <1>6 DEF OverStays, FreshWaits, AllWaiting
<1> QED BY <1>2, <1>4, <1>5, <1>6, <1>7, <1>8, <1>9 DEF IInv

(* Each step. *)
(* A call that is no frame. *)
LEMMA CallCounts ==
  ASSUME Counting, NEW rt, NEW told, Call(rt, told)
  PROVE  Counting' /\ runtime' = rt
  BY HostAssumption DEF Counting, Call

(* A frame: what it tells triggered is over. *)
LEMMA FrameKeeps ==
  ASSUME IInv, NEW m \in Memories, Frame(m)
  PROVE  IInv'
<1> DEFINE r == DoFrame(runtime, m)
<1>1. RtFits(runtime) /\ StatesFit(runtime)
  BY DEF IInv
<1>2. Ran(runtime, r.rt, r.events)
  BY <1>1, FrameRuns
<1>3. /\ runtime' = r.rt /\ frames < MaxFrames /\ frames' = frames + 1 /\ calls' = calls
      /\ fired' = fired \cup Told(r.events, "triggered") /\ fresh' = {} /\ saved' = saved
  BY DEF Frame, FrameRun
<1> HIDE DEF r
<1>4. RtFits(runtime') /\ StatesFit(runtime')
  BY <1>1, <1>2, <1>3, RanStates
<1>5. ASSUME NEW id \in Told(r.events, "triggered")
      PROVE  \E i \in DOMAIN runtime.triggers : runtime.triggers[i].id = id /\ r.rt.triggers[i].trigger.state = "triggered"
  <2>1. PICK j \in DOMAIN r.events : r.events[j].id = id /\ r.events[j].type = "triggered"
    BY <1>5 DEF Told
  <2> QED BY <1>2, <2>1 DEF Ran, TellsEntry, TellsBoard
<1>6. fired' \subseteq Ids
  BY <1>1, <1>3, <1>5 DEF IInv, RtFits, EntriesFit, EntryFits
<1>7. OverStays'
  <2> SUFFICES ASSUME NEW i \in DOMAIN runtime'.triggers, runtime'.triggers[i].id \in fired'
               PROVE  runtime'.triggers[i].trigger.state \in {"triggered", "disabled"}
    BY DEF OverStays
  <2>1. i \in DOMAIN runtime.triggers /\ EntryRan(runtime.triggers[i], runtime'.triggers[i])
    BY <1>2, <1>3 DEF Ran
  <2>2. CASE runtime.triggers[i].id \in fired
    <3>1. runtime.triggers[i].trigger.state \in {"triggered", "disabled"}
      BY <2>1, <2>2 DEF IInv, OverStays
    <3> QED BY <2>1, <3>1 DEF EntryRan, TriggerStateActive
  <2>3. CASE runtime.triggers[i].id \notin fired
    <3>1. runtime.triggers[i].id \in Told(r.events, "triggered")
      BY <1>3, <2>1, <2>3 DEF EntryRan
    <3>2. PICK k \in DOMAIN runtime.triggers : /\ runtime.triggers[k].id = runtime.triggers[i].id
                                               /\ r.rt.triggers[k].trigger.state = "triggered"
      BY <1>5, <3>1
    <3>3. k = i
      BY <1>1, <2>1, <3>2 DEF RtFits, EntriesFit, Apart
    <3> QED BY <1>3, <3>2, <3>3
  <2> QED BY <2>2, <2>3
<1>8. FreshWaits'
  BY <1>3 DEF FreshWaits
<1>9. Counting'
  BY <1>3, HostAssumption DEF IInv, Counting
<1>10. SavedFits'
  BY <1>3 DEF IInv, SavedFits
<1> QED BY <1>3, <1>4, <1>6, <1>7, <1>8, <1>9, <1>10 DEF IInv

(* What only turns achievements off keeps the invariant. *)
LEMMA WeakenedKeeps ==
  ASSUME IInv, Weakens(runtime, runtime'), Counting', fired' = fired, fresh' = fresh, saved' = saved
  PROVE  IInv'
<1>1. "disabled" \in TriggerStates /\ "disabled" \in BoardStates
  BY DEF TriggerStates, BoardStates
<1>2. RtFits(runtime')
  BY DEF Weakens
<1>3. StatesFit(runtime')
  <2>1. \A i \in DOMAIN runtime'.triggers : runtime'.triggers[i].trigger.state \in TriggerStates
    BY <1>1 DEF IInv, Weakens, EntryLike, StatesFit
  <2>2. \A i \in DOMAIN runtime'.lboards : runtime'.lboards[i].lboard.state \in BoardStates
    BY <1>1 DEF IInv, Weakens, BoardLike, StatesFit
  <2> QED BY <2>1, <2>2 DEF StatesFit
<1>4. OverStays' /\ FreshWaits'
  BY DEF IInv, Weakens, EntryLike, OverStays, FreshWaits
<1> QED BY <1>2, <1>3, <1>4 DEF IInv, SavedFits

(* A call that leaves the achievements alone does. *)
LEMMA ElsewhereKeeps ==
  ASSUME IInv, RtFits(runtime'), runtime'.triggers = runtime.triggers, Counting',
         \A i \in DOMAIN runtime'.lboards : runtime'.lboards[i].lboard.state \in BoardStates,
         fired' = fired, fresh' = fresh, saved' = saved
  PROVE  IInv'
<1>1. StatesFit(runtime')
  BY DEF IInv, StatesFit
<1>2. OverStays' /\ FreshWaits'
  BY DEF IInv, OverStays, FreshWaits
<1> QED BY <1>1, <1>2 DEF IInv, SavedFits

(* An achievement is activated. *)
LEMMA ActivateKeeps ==
  ASSUME IInv, NEW a \in Activations, Activate(a.id, a.def)
  PROVE  IInv'
<1> DEFINE id == a.id
           now == ActivateAchievement(runtime, id, a.def)
<1>1. id \in Ids /\ a.def \in DOMAIN Triggers
  BY HostAssumption
<1>2. Call(now, <<>>) /\ Renewed({id}) /\ saved' = saved
  BY DEF Activate
<1>3. RtFits(now) /\ now.lboards = runtime.lboards /\ StartedAlone(runtime.triggers, id, now.triggers)
  BY <1>1, AchievementActivated DEF IInv
<1> HIDE DEF now, id
<1>4. Counting' /\ runtime' = now
  BY <1>2, CallCounts DEF IInv
<1>5. fresh' = fresh \cup {id} /\ fired' = fired \ {id}
  BY <1>2 DEF Renewed
<1>6. "waiting" \in TriggerStates
  BY DEF TriggerStates
<1>7. ASSUME NEW j \in DOMAIN now.triggers
      PROVE  /\ now.triggers[j].trigger.state \in TriggerStates
             /\ now.triggers[j].id \in fired' => now.triggers[j].trigger.state \in {"triggered", "disabled"}
             /\ now.triggers[j].id \in fresh' => now.triggers[j].trigger.state \in {"waiting", "disabled"}
  <2>1. CASE now.triggers[j].id = id
    BY <1>3, <1>5, <1>6, <2>1 DEF StartedAlone
  <2>2. CASE now.triggers[j].id # id
    <3>1. PICK k \in DOMAIN runtime.triggers : now.triggers[j] = runtime.triggers[k]
      BY <1>3, <2>2 DEF StartedAlone
    <3> QED BY <1>5, <2>2, <3>1 DEF IInv, StatesFit, OverStays, FreshWaits
  <2> QED BY <2>1, <2>2
<1>8. StatesFit(runtime') /\ OverStays' /\ FreshWaits'
  BY <1>3, <1>4, <1>7 DEF IInv, StatesFit, OverStays, FreshWaits
<1> QED BY <1>1, <1>2, <1>3, <1>4, <1>5, <1>8 DEF IInv, SavedFits

(* An achievement is deactivated. *)
LEMMA DeactivateKeeps ==
  ASSUME IInv, NEW id \in Ids, Deactivate(id)
  PROVE  IInv'
<1> DEFINE now == Without(runtime, "triggers", IndexOf(runtime.triggers, id))
<1>1. Call(now, <<>>) /\ saved' = saved /\ fired' = fired /\ fresh' = fresh
  BY DEF Deactivate, DeactivateAchievement
<1>2. /\ RtFits(now) /\ now.lboards = runtime.lboards
      /\ \A j \in DOMAIN now.triggers : \E k \in DOMAIN runtime.triggers : now.triggers[j] = runtime.triggers[k]
  <2>1. RtFits(runtime)
    BY DEF IInv
  <2>2. now = Without(runtime, "triggers", IndexOf(runtime.triggers, id))
    OBVIOUS
  <2> HIDE DEF now
  <2> QED BY ONLY <2>1, <2>2, WithoutEntry
<1> HIDE DEF now
<1>3. Counting' /\ runtime' = now
  BY <1>1, CallCounts DEF IInv
<1>4. ASSUME NEW j \in DOMAIN now.triggers
      PROVE  /\ now.triggers[j].trigger.state \in TriggerStates
             /\ now.triggers[j].id \in fired => now.triggers[j].trigger.state \in {"triggered", "disabled"}
             /\ now.triggers[j].id \in fresh => now.triggers[j].trigger.state \in {"waiting", "disabled"}
  <2>1. PICK k \in DOMAIN runtime.triggers : now.triggers[j] = runtime.triggers[k]
    BY <1>2
  <2> QED BY <2>1 DEF IInv, StatesFit, OverStays, FreshWaits
<1>5. StatesFit(runtime') /\ OverStays' /\ FreshWaits'
  BY <1>1, <1>2, <1>3, <1>4 DEF IInv, StatesFit, OverStays, FreshWaits
<1> QED BY <1>1, <1>2, <1>3, <1>5 DEF IInv, SavedFits

(* A leaderboard is activated, or deactivated. *)
LEMMA ActivateBoardKeeps ==
  ASSUME IInv, NEW b \in BoardActivations, ActivateBoard(b.id, b.def)
  PROVE  IInv'
<1> DEFINE id == b.id
           now == ActivateLboard(runtime, id, b.def)
<1>1. id \in Ids /\ b.def \in DOMAIN Lboards
  BY HostAssumption
<1>2. Call(now, <<>>) /\ saved' = saved /\ fired' = fired /\ fresh' = fresh
  BY DEF ActivateBoard
<1>3. RtFits(now) /\ now.triggers = runtime.triggers /\ BoardStartedAlone(runtime.lboards, id, now.lboards)
  BY <1>1, LboardActivated DEF IInv
<1> HIDE DEF now, id
<1>4. Counting' /\ runtime' = now
  BY <1>2, CallCounts DEF IInv
<1>5. "waiting" \in BoardStates
  BY DEF BoardStates
<1>6. \A j \in DOMAIN now.lboards : now.lboards[j].lboard.state \in BoardStates
  BY <1>3, <1>5 DEF BoardStartedAlone, IInv, StatesFit
<1> QED BY <1>2, <1>3, <1>4, <1>6, ElsewhereKeeps

(* rc_runtime_deactivate_lboard keeps the invariant. *)
LEMMA DeactivateBoardKeeps ==
  ASSUME IInv, NEW id \in Ids, DeactivateBoard(id)
  PROVE  IInv'
<1> DEFINE now == Without(runtime, "lboards", IndexOf(runtime.lboards, id))
<1>1. Call(now, <<>>) /\ saved' = saved /\ fired' = fired /\ fresh' = fresh
  BY DEF DeactivateBoard, DeactivateLboard
<1>2. /\ RtFits(now) /\ now.triggers = runtime.triggers
      /\ \A j \in DOMAIN now.lboards : \E k \in DOMAIN runtime.lboards : now.lboards[j] = runtime.lboards[k]
  <2>1. RtFits(runtime)
    BY DEF IInv
  <2>2. now = Without(runtime, "lboards", IndexOf(runtime.lboards, id))
    OBVIOUS
  <2> HIDE DEF now
  <2> QED BY ONLY <2>1, <2>2, WithoutBoard
<1> HIDE DEF now
<1>3. Counting' /\ runtime' = now
  BY <1>1, CallCounts DEF IInv
<1>4. \A j \in DOMAIN now.lboards : now.lboards[j].lboard.state \in BoardStates
  BY <1>2 DEF IInv, StatesFit
<1> QED BY <1>1, <1>2, <1>3, <1>4, ElsewhereKeeps

(* A script is activated. *)
LEMMA ActivateScriptKeeps ==
  ASSUME IInv, NEW def \in DOMAIN Scripts, ActivateScript(def)
  PROVE  IInv'
<1> DEFINE now == ActivateRichPresence(runtime, def)
<1>1. Call(now, <<>>) /\ saved' = saved /\ fired' = fired /\ fresh' = fresh
  BY DEF ActivateScript
<1>2. RtFits(now) /\ now.triggers = runtime.triggers /\ now.lboards = runtime.lboards
  BY ScriptActivated DEF IInv
<1> HIDE DEF now
<1>3. Counting' /\ runtime' = now
  BY <1>1, CallCounts DEF IInv
<1> QED BY <1>1, <1>2, <1>3, ElsewhereKeeps DEF IInv, StatesFit

(* What to display is asked for. *)
LEMMA DescribeKeeps ==
  ASSUME IInv, Describe
  PROVE  IInv'
<1> DEFINE shown == DisplayString(runtime.rich, runtime.pool.at).rich
           rich == Rich(runtime.rich.def, shown)
           now == [runtime EXCEPT !.rich = rich]
<1>1. Call(now, <<>>) /\ saved' = saved /\ fired' = fired /\ fresh' = fresh /\ runtime.rich.displays # <<>>
  BY DEF Describe
<1>2. RichHolds(shown)
  BY <1>1, DescribedFits DEF IInv, RtFits
<1> HIDE DEF shown
<1>3. RichFits(rich)
  BY <1>2, RichOfHolds
<1> HIDE DEF rich
<1>4. RtFits(now) /\ now.triggers = runtime.triggers /\ now.lboards = runtime.lboards
  BY <1>3, OtherRich DEF IInv
<1> HIDE DEF now
<1>5. Counting' /\ runtime' = now
  BY <1>1, CallCounts DEF IInv
<1> QED BY <1>1, <1>4, <1>5, ElsewhereKeeps DEF IInv, StatesFit

(* Addresses are found invalid, one or several. *)
LEMMA InvalidateKeeps ==
  ASSUME IInv, NEW a \in Addresses, Invalidate(a)
  PROVE  IInv'
<1> DEFINE now == InvalidateAll(runtime, {a})
<1>1. Call(now, <<>>) /\ saved' = saved /\ fired' = fired /\ fresh' = fresh
  BY DEF Invalidate, InvalidateAddress
<1>2. Weakens(runtime, now)
  BY AllInvalidated DEF IInv
<1> HIDE DEF now
<1>3. Counting' /\ runtime' = now
  BY <1>1, CallCounts DEF IInv
<1> QED BY <1>1, <1>2, <1>3, WeakenedKeeps

(* rc_runtime_validate_addresses keeps the invariant. *)
LEMMA ValidateKeeps ==
  ASSUME IInv, NEW bad \in SUBSET Addresses, Validate(bad)
  PROVE  IInv'
<1> DEFINE r == ValidateAddresses(runtime, bad)
<1>1. Call(r.rt, r.events) /\ saved' = saved /\ fired' = fired /\ fresh' = fresh
  BY DEF Validate, Validated
<1>2. Weakens(runtime, r.rt)
  BY AddressesValidated DEF IInv
<1> HIDE DEF r
<1>3. Counting' /\ runtime' = r.rt
  BY <1>1, CallCounts DEF IInv
<1> QED BY <1>1, <1>2, <1>3, WeakenedKeeps

(* Everything starts over. *)
LEMMA ResetKeeps ==
  ASSUME IInv, Reset
  PROVE  IInv'
<1> DEFINE now == ResetRuntime(runtime)
<1>1. Call(now, <<>>) /\ Renewed(TriggerIds(runtime)) /\ saved' = saved
  BY DEF Reset
<1>2. RtFits(now) /\ Renewals(runtime, now)
  BY RuntimeReset DEF IInv
<1> HIDE DEF now
<1>3. Counting' /\ runtime' = now
  BY <1>1, CallCounts DEF IInv
<1>4. "waiting" \in TriggerStates /\ "waiting" \in BoardStates
  BY DEF TriggerStates, BoardStates
<1>5. fresh' = fresh \cup TriggerIds(runtime) /\ fired' = fired \ TriggerIds(runtime)
  BY <1>1 DEF Renewed
<1>6. TriggerIds(runtime) \subseteq Ids
  BY DEF IInv, TriggerIds, RtFits, EntriesFit, EntryFits
<1>7. \A i \in DOMAIN now.triggers : now.triggers[i].trigger.state = "waiting" /\ now.triggers[i].id \in TriggerIds(runtime)
  BY <1>2 DEF Renewals, EntryRenewed, TriggerIds
<1>8. \A i \in DOMAIN now.lboards : now.lboards[i].lboard.state = "waiting"
  BY <1>2 DEF Renewals, BoardRenewed
<1>9. StatesFit(runtime') /\ OverStays' /\ FreshWaits'
  BY <1>3, <1>4, <1>5, <1>7, <1>8 DEF StatesFit, OverStays, FreshWaits
<1> QED BY <1>1, <1>2, <1>3, <1>5, <1>6, <1>9 DEF IInv, SavedFits

(* Progress is saved, or all of it but its last chunk. *)
LEMMA SaveKeeps ==
  ASSUME IInv, NEW fits \in BOOLEAN, Save(fits)
  PROVE  IInv'
<1> DEFINE chunks == Serialize(runtime)
<1>1. /\ saved' = [chunks |-> IF fits THEN chunks ELSE Front(chunks), complete |-> fits]
      /\ runtime' = runtime /\ fired' = fired /\ fresh' = fresh /\ frames' = frames /\ calls' = calls
  BY DEF Save
<1>2. ChunksFit(chunks)
  BY SerializedFits DEF IInv
<1> HIDE DEF chunks
<1>3. ChunksFit(Front(chunks))
  BY <1>2, FrontFits
<1>4. DOMAIN saved' = {"chunks", "complete"} /\ saved'.complete = fits /\ saved'.chunks = IF fits THEN chunks ELSE Front(chunks)
  BY <1>1
<1>5. SavedFits'
  BY <1>2, <1>3, <1>4 DEF SavedFits
<1> QED BY <1>1, <1>5 DEF IInv, Counting, OverStays, FreshWaits, StatesFit

(* Progress is restored. *)
LEMMA RestoreKeeps ==
  ASSUME IInv, NEW intact \in BOOLEAN, Restore(intact)
  PROVE  IInv'
<1> DEFINE now == Deserialize(runtime, saved.chunks, intact /\ saved.complete)
<1>1. /\ Call(now, <<>>) /\ fresh' = Over(now) /\ fired' = fired \ Over(now) /\ saved' = saved
  BY DEF Restore, RestoreTo
<1>2. RuntimeRestored(runtime, now)
  BY ProgressRestored DEF IInv, SavedFits
<1> HIDE DEF now
<1>3. Counting' /\ runtime' = now
  BY <1>1, CallCounts DEF IInv
<1>4. RtFits(now) /\ StatesFit(now)
  BY <1>2 DEF RuntimeRestored, EntryRestored, BoardRestored, StatesFit
<1>5. Over(now) \subseteq Ids
  BY <1>4 DEF Over, RtFits, EntriesFit, EntryFits
<1>6. ASSUME NEW i \in DOMAIN now.triggers, now.triggers[i].id \in fired \ Over(now)
      PROVE  now.triggers[i].trigger.state \in {"triggered", "disabled"}
  <2>1. i \in DOMAIN runtime.triggers /\ EntryRestored(runtime.triggers[i], now.triggers[i])
    BY <1>2 DEF RuntimeRestored
  <2>2. runtime.triggers[i].trigger.state \in {"triggered", "disabled"}
    BY <1>6, <2>1 DEF EntryRestored, IInv, OverStays
  <2>3. now.triggers[i].trigger.state # "waiting"
    BY <1>6 DEF Over
  <2> QED BY <2>1, <2>2, <2>3 DEF EntryRestored, TriggerStateActive
<1>7. ASSUME NEW i \in DOMAIN now.triggers, now.triggers[i].id \in Over(now)
      PROVE  now.triggers[i].trigger.state = "waiting"
  <2>1. PICK j \in DOMAIN now.triggers : now.triggers[j].trigger.state = "waiting" /\ now.triggers[j].id = now.triggers[i].id
    BY <1>7 DEF Over
  <2>2. j = i
    BY <1>4, <2>1 DEF RtFits, EntriesFit, Apart
  <2> QED BY <2>1, <2>2
<1>8. OverStays' /\ FreshWaits'
  BY <1>1, <1>3, <1>6, <1>7 DEF OverStays, FreshWaits
<1> QED BY <1>1, <1>3, <1>4, <1>5, <1>8 DEF IInv, SavedFits

(* Every step keeps the invariant. *)
LEMMA NextKeeps ==
  ASSUME IInv, [Next]_vars
  PROVE  IInv'
<1>1. ASSUME NEW m \in Memories, Frame(m)
      PROVE  IInv'
  BY <1>1, FrameKeeps
<1>2. ASSUME NEW a \in Activations, Activate(a.id, a.def)
      PROVE  IInv'
  BY <1>2, ActivateKeeps
<1>3. ASSUME NEW b \in BoardActivations, ActivateBoard(b.id, b.def)
      PROVE  IInv'
  BY <1>3, ActivateBoardKeeps
<1>4. ASSUME NEW id \in Ids, Deactivate(id) \/ DeactivateBoard(id)
      PROVE  IInv'
  BY <1>4, DeactivateKeeps, DeactivateBoardKeeps
<1>5. ASSUME NEW def \in DOMAIN Scripts, ActivateScript(def)
      PROVE  IInv'
  BY <1>5, ActivateScriptKeeps
<1>6. ASSUME NEW a \in Addresses, Invalidate(a)
      PROVE  IInv'
  BY <1>6, InvalidateKeeps
<1>7. ASSUME NEW bad \in SUBSET Addresses, Validate(bad)
      PROVE  IInv'
  BY <1>7, ValidateKeeps
<1>8. CASE Reset \/ Describe
  BY <1>8, ResetKeeps, DescribeKeeps
<1>9. ASSUME NEW fits \in BOOLEAN, Save(fits)
      PROVE  IInv'
  BY <1>9, SaveKeeps
<1>10. ASSUME NEW intact \in BOOLEAN, Restore(intact)
       PROVE  IInv'
  BY <1>10, RestoreKeeps
<1>11. CASE UNCHANGED vars
  BY <1>11 DEF vars, IInv, Counting, StatesFit, OverStays, FreshWaits, SavedFits
<1> QED BY <1>1, <1>2, <1>3, <1>4, <1>5, <1>6, <1>7, <1>8, <1>9, <1>10, <1>11 DEF Next

(* The invariant holds always. *)
THEOREM InvariantHolds == Spec => []IInv
<1>1. Init => IInv
  BY InitHolds
<1>2. IInv /\ [Next]_vars => IInv'
  BY NextKeeps
<1> QED BY <1>1, <1>2, PTL DEF Spec

(* A condition of a trigger counts no further than its target, and counts nothing when the trigger has no hits. *)
LEMMA GroupHits ==
  ASSUME NEW t, NEW raw, TriggerFits(t, raw), NEW g \in GroupsOf(t), NEW c \in ToSet(g.conds)
  PROVE  (c.required # 0 => c.hits <= c.required) /\ (TriggerNoHits(t) => c.hits = 0)
<1>1. ASSUME NEW set, NEW raws, SetFits(set, raws), NEW d \in ToSet(set.conds)
      PROVE  (d.required # 0 => d.hits <= d.required) /\ (NoHits(set) => d.hits = 0)
  <2>1. DOMAIN set.conds = 1..Len(raws) /\ Len(set.conds) = Len(raws)
    BY <1>1, ListFacts DEF SetFits
  <2>2. PICK i \in DOMAIN set.conds : d = set.conds[i]
    BY <1>1 DEF ToSet
  <2> QED BY <1>1, <2>1, <2>2 DEF SetFits, CondFits, NoHits
<1>2. CASE g = t.core
  BY <1>1, <1>2 DEF TriggerFits, TriggerNoHits
<1>3. CASE g # t.core
  <2>1. DOMAIN t.alts = 1..Len(raw.alts) /\ Len(t.alts) = Len(raw.alts)
    BY ListFacts DEF TriggerFits, SetsFit
  <2>2. PICK i \in DOMAIN t.alts : g = t.alts[i]
    BY <1>3 DEF GroupsOf, ToSet
  <2>3. SetFits(g, raw.alts[i]) /\ (TriggerNoHits(t) => NoHits(g))
    BY <2>1, <2>2 DEF TriggerFits, SetsFit, TriggerNoHits, NoHitsIn
  <2> QED BY <1>1, <2>3
<1> QED BY <1>2, <1>3

(* A condition of the runtime is one of an achievement's or of one of a leaderboard's three triggers. *)
LEMMA CondsWhere ==
  ASSUME NEW rt, NEW c \in AllConds(rt)
  PROVE  \/ \E i \in DOMAIN rt.triggers : \E g \in GroupsOf(rt.triggers[i].trigger) : c \in ToSet(g.conds)
         \/ \E i \in DOMAIN rt.lboards : \E f \in TriggerNames : \E g \in GroupsOf(rt.lboards[i].lboard[f]) : c \in ToSet(g.conds)
<1> DEFINE boards == {rt.lboards[i].lboard : i \in DOMAIN rt.lboards}
           ofBoards == UNION {{l.start, l.cancel, l.submit} : l \in boards}
<1>1. PICK g \in AllGroups(rt) : c \in ToSet(g.conds)
  BY DEF AllConds
<1>2. PICK t \in Live(rt) \cup ofBoards : g \in GroupsOf(t)
  BY DEF AllGroups
<1>3. CASE t \in Live(rt)
  BY <1>1, <1>2, <1>3 DEF Live
<1>4. CASE t \in ofBoards
  <2>1. PICK l \in boards : t \in {l.start, l.cancel, l.submit}
    BY <1>4
  <2>2. PICK i \in DOMAIN rt.lboards : l = rt.lboards[i].lboard
    BY <2>1
  <2>3. PICK f \in TriggerNames : t = l[f]
    BY <2>1 DEF TriggerNames
  <2> QED BY <1>1, <1>2, <2>2, <2>3
<1> QED BY <1>2, <1>3, <1>4

(* No condition of a runtime that fits its definitions has counted past its target. *)
LEMMA HitsFit ==
  ASSUME NEW rt, RtFits(rt), NEW c \in AllConds(rt)
  PROVE  c.required # 0 => c.hits <= c.required
<1>1. CASE \E i \in DOMAIN rt.triggers : \E g \in GroupsOf(rt.triggers[i].trigger) : c \in ToSet(g.conds)
  BY <1>1, GroupHits DEF RtFits, EntriesFit, EntryFits
<1>2. CASE \E i \in DOMAIN rt.lboards : \E f \in TriggerNames : \E g \in GroupsOf(rt.lboards[i].lboard[f]) : c \in ToSet(g.conds)
  <2>1. PICK i \in DOMAIN rt.lboards, f \in TriggerNames : \E g \in GroupsOf(rt.lboards[i].lboard[f]) : c \in ToSet(g.conds)
    BY <1>2
  <2>2. TriggerFits(rt.lboards[i].lboard[f], FieldDef(Lboards[rt.lboards[i].def], f))
    BY DEF RtFits, BoardsFit, BoardFits, LboardFits
  <2> QED BY <2>1, <2>2, GroupHits
<1> QED BY <1>1, <1>2, CondsWhere

(* What starts over has no hits and waits. *)
LEMMA RenewalsStartOver ==
  ASSUME NEW rt, NEW now, Renewals(rt, now)
  PROVE  StartedOver(now)
<1>1. ASSUME NEW c \in AllConds(now)
      PROVE  c.hits = 0
  <2>1. CASE \E i \in DOMAIN now.triggers : \E g \in GroupsOf(now.triggers[i].trigger) : c \in ToSet(g.conds)
    BY <2>1, GroupHits DEF Renewals, EntryRenewed, EntryFits
  <2>2. CASE \E i \in DOMAIN now.lboards : \E f \in TriggerNames : \E g \in GroupsOf(now.lboards[i].lboard[f]) : c \in ToSet(g.conds)
    <3>1. PICK i \in DOMAIN now.lboards, f \in TriggerNames : \E g \in GroupsOf(now.lboards[i].lboard[f]) : c \in ToSet(g.conds)
      BY <2>2
    <3>2. TriggerFits(now.lboards[i].lboard[f], FieldDef(Lboards[now.lboards[i].def], f)) /\ TriggerNoHits(now.lboards[i].lboard[f])
      BY DEF Renewals, BoardRenewed, BoardFits, LboardFits
    <3> QED BY <3>1, <3>2, GroupHits
  <2> QED BY <2>1, <2>2, CondsWhere
<1>2. \A t \in Live(now) : t.state = "waiting"
  BY DEF Live, Renewals, EntryRenewed
<1>3. \A i \in DOMAIN now.lboards : now.lboards[i].lboard.state = "waiting"
  BY DEF Renewals, BoardRenewed
<1> QED BY <1>1, <1>2, <1>3 DEF StartedOver

(* The invariant gives what the variables hold, the hits within their targets and the order of the references. *)
LEMMA StateFacts ==
  ASSUME IInv
  PROVE  TypeOK /\ HitsWithinTarget /\ PoolInOrder
<1>1. RtFits(runtime) /\ StatesFit(runtime)
  BY DEF IInv
<1>2. TypeOK
  BY <1>1 DEF IInv, TypeOK, Counting, StatesFit, RtFits, EntriesFit, BoardsFit, EntryFits, BoardFits, SavedFits
<1>3. HitsWithinTarget
  BY <1>1, HitsFit DEF HitsWithinTarget
<1>4. PoolInOrder
  BY <1>1 DEF PoolInOrder, RtFits, PoolFine, Ordered, Earlier, Computed
<1> QED BY <1>2, <1>3, <1>4

(* The invariant gives that damaged progress starts everything over. *)
LEMMA DamageFacts ==
  ASSUME IInv
  PROVE  DamagedStartsOver
<1> DEFINE now == Deserialize(runtime, saved.chunks, FALSE)
<1>1. RtFits(runtime) /\ StatesFit(runtime) /\ ChunksFit(saved.chunks)
  BY DEF IInv, SavedFits
<1>2. now = Deserialize(runtime, saved.chunks, FALSE)
  OBVIOUS
<1> HIDE DEF now
<1>3. \E read : Renewals(read, now)
  BY ONLY <1>1, <1>2, DamageRestored
<1>4. StartedOver(now)
  BY <1>3, RenewalsStartOver
<1> QED BY <1>2, <1>4 DEF DamagedStartsOver

(* A call that tells of nothing, or only of what it disables, triggers and starts nothing. *)
LEMMA NothingTold ==
  ASSUME Quiet(events')
  PROVE  OnceStep /\ CountsStep
<1>1. Told(events', "triggered") = {} /\ Told(events', "started") = {}
  BY DEF Told, Quiet
<1> QED BY <1>1 DEF OnceStep, CountsStep

(* A frame triggers nothing that is over, and nothing that only waits: TellsEntry says what an achievement was when
   its event was told, and the invariant what it is after it triggered or was started over. *)
LEMMA FrameOnce ==
  ASSUME IInv, NEW m \in Memories, Frame(m)
  PROVE  OnceStep
<1> DEFINE r == DoFrame(runtime, m)
<1>1. RtFits(runtime) /\ runtime' = r.rt /\ events' = r.events
  BY DEF IInv, Frame, FrameRun
<1>2. r = DoFrame(runtime, m)
  OBVIOUS
<1> HIDE DEF r
<1>3. Ran(runtime, r.rt, r.events)
  BY ONLY <1>1, <1>2, FrameRuns
<1> SUFFICES ASSUME NEW id \in Told(events', "triggered"), id \in fired \cup fresh
             PROVE  FALSE
  BY DEF OnceStep
<1>4. PICK j \in DOMAIN r.events : r.events[j].type = "triggered" /\ r.events[j].id = id
  BY <1>1 DEF Told
<1>5. PICK i \in DOMAIN runtime.triggers : TellsEntry(r.events[j], runtime.triggers[i], r.rt.triggers[i])
  BY <1>3, <1>4 DEF Ran, TellsBoard
<1> DEFINE state == runtime.triggers[i].trigger.state
<1>6. runtime.triggers[i].id = id /\ TriggerStateActive(state) /\ state # "waiting"
  BY <1>4, <1>5 DEF TellsEntry
<1>7. id \in fired => state \in {"triggered", "disabled"}
  BY <1>6 DEF IInv, OverStays
<1>8. id \in fresh => state \in {"waiting", "disabled"}
  BY <1>6 DEF IInv, FreshWaits
<1> QED BY <1>6, <1>7, <1>8 DEF TriggerStateActive

(* A leaderboard that a frame starts has counted at most what that frame counted. *)
LEMMA FrameCounts ==
  ASSUME IInv, NEW m \in Memories, Frame(m)
  PROVE  CountsStep
<1> DEFINE r == DoFrame(runtime, m)
<1>1. RtFits(runtime) /\ runtime' = r.rt /\ events' = r.events
  BY DEF IInv, Frame, FrameRun
<1>2. r = DoFrame(runtime, m)
  OBVIOUS
<1> HIDE DEF r
<1>3. Ran(runtime, r.rt, r.events)
  BY ONLY <1>1, <1>2, FrameRuns
<1> SUFFICES ASSUME NEW i \in DOMAIN r.rt.lboards, r.rt.lboards[i].id \in Told(r.events, "started"),
                    NEW g \in ToSet(r.rt.lboards[i].lboard.value.sets), NEW c \in ToSet(g.conds)
             PROVE  c.hits <= 1
  BY <1>1 DEF CountsStep
<1>4. PICK j \in DOMAIN r.events : r.events[j].type = "started" /\ r.events[j].id = r.rt.lboards[i].id
  BY DEF Told
<1>5. PICK k \in DOMAIN runtime.lboards : TellsBoard(r.events[j], runtime.lboards[k], r.rt.lboards[k])
  BY <1>3, <1>4 DEF Ran, TellsEntry
<1>6. DOMAIN r.rt.lboards = DOMAIN runtime.lboards /\ r.rt.lboards[k].id = runtime.lboards[k].id
  BY <1>3 DEF Ran, BoardRan
<1>7. i = k
  <2>1. r.rt.lboards[i].id = r.rt.lboards[k].id
    BY <1>4, <1>5, <1>6 DEF TellsBoard
  <2>2. Apart(r.rt.lboards)
    BY <1>3 DEF Ran, RtFits, BoardsFit
  <2> QED BY <1>6, <2>1, <2>2 DEF Apart
<1> DEFINE sets == r.rt.lboards[i].lboard.value.sets
<1>8. AtMostOne(sets)
  BY <1>4, <1>5, <1>7 DEF TellsBoard
<1>9. ValueShaped(r.rt.lboards[i].lboard.value)
  BY <1>3 DEF Ran, RtFits, BoardsFit, BoardFits, LboardFits, ValuesShaped
<1>10. PICK a \in DOMAIN sets : g = sets[a]
  BY DEF ToSet
<1>11. DOMAIN sets = 1..Len(sets) /\ SetShaped(g)
  BY <1>9, <1>10, ListFacts DEF ValueShaped, SetsShaped
<1>12. PICK b \in DOMAIN g.conds : c = g.conds[b]
  BY DEF ToSet
<1>13. DOMAIN g.conds = 1..Len(g.conds)
  BY <1>11, ListFacts DEF SetShaped
<1> QED BY <1>8, <1>10, <1>11, <1>12, <1>13 DEF AtMostOne

(* No step triggers what is over or new, or starts a leaderboard with what it had counted before. *)
LEMMA StepFacts ==
  ASSUME IInv, [Next]_vars
  PROVE  vars' = vars \/ (OnceStep /\ CountsStep)
<1>1. ASSUME NEW m \in Memories, Frame(m)
      PROVE  OnceStep /\ CountsStep
  BY <1>1, FrameOnce, FrameCounts
<1>2. ASSUME NEW bad \in SUBSET Addresses, Validate(bad)
      PROVE  OnceStep /\ CountsStep
  <2> DEFINE r == ValidateAddresses(runtime, bad)
  <2>1. RtFits(runtime) /\ events' = r.events
    BY <1>2 DEF IInv, Validate, Validated, Call
  <2>2. r = ValidateAddresses(runtime, bad)
    OBVIOUS
  <2> HIDE DEF r
  <2>3. Quiet(r.events)
    BY ONLY <2>1, <2>2, AddressesValidated
  <2> QED BY <2>1, <2>3, NothingTold
<1>3. CASE events' = <<>>
  <2>1. Quiet(events')
    BY <1>3 DEF Quiet
  <2> QED BY <2>1, NothingTold
<1>4. ASSUME NEW a \in Activations, Activate(a.id, a.def)
      PROVE  events' = <<>>
  BY <1>4 DEF Activate, Call
<1>5. ASSUME NEW b \in BoardActivations, ActivateBoard(b.id, b.def)
      PROVE  events' = <<>>
  BY <1>5 DEF ActivateBoard, Call
<1>6. ASSUME NEW id \in Ids, Deactivate(id) \/ DeactivateBoard(id)
      PROVE  events' = <<>>
  BY <1>6 DEF Deactivate, DeactivateBoard, Call
<1>7. ASSUME NEW def \in DOMAIN Scripts, ActivateScript(def)
      PROVE  events' = <<>>
  BY <1>7 DEF ActivateScript, Call
<1>8. ASSUME NEW a \in Addresses, Invalidate(a)
      PROVE  events' = <<>>
  BY <1>8 DEF Invalidate, Call
<1>9. Reset \/ Describe => events' = <<>>
  BY DEF Reset, Describe, Call
<1>10. ASSUME NEW fits \in BOOLEAN, Save(fits)
       PROVE  events' = <<>>
  BY <1>10 DEF Save
<1>11. ASSUME NEW intact \in BOOLEAN, Restore(intact)
       PROVE  events' = <<>>
  BY <1>11 DEF Restore, RestoreTo, Call
<1> QED BY <1>1, <1>2, <1>3, <1>4, <1>5, <1>6, <1>7, <1>8, <1>9, <1>10, <1>11 DEF Next

(* TypeOK: no trigger or leaderboard is left between two states, whatever call ran last; "unupdated", the mark of a
   restore under way, least of all (RcRuntime, rc_runtime_deserialize_progress_sized). *)
THEOREM RuntimeTyped == Spec => []TypeOK
<1>1. IInv => TypeOK
  BY StateFacts
<1> QED BY <1>1, InvariantHolds, PTL

(* HitsWithinTarget: no condition counts past its target, whatever frames ran and whatever save state was read. *)
THEOREM HitsStayWithinTarget == Spec => []HitsWithinTarget
<1>1. IInv => HitsWithinTarget
  BY StateFacts
<1> QED BY <1>1, InvariantHolds, PTL

(* PoolInOrder: a reference is never computed before the references it is computed from. *)
THEOREM PoolStaysInOrder == Spec => []PoolInOrder
<1>1. IInv => PoolInOrder
  BY StateFacts
<1> QED BY <1>1, InvariantHolds, PTL

(* DamagedStartsOver: progress found damaged after it was read leaves no hit and no state behind. *)
THEOREM DamageStartsOver == Spec => []DamagedStartsOver
<1>1. IInv => DamagedStartsOver
  BY DamageFacts
<1> QED BY <1>1, InvariantHolds, PTL

(* TriggersOnce: an achievement triggers once until it is started over, and not in the first frame after that. *)
THEOREM AchievementTriggersOnce == Spec => TriggersOnce
<1>1. IInv /\ [Next]_vars => [Told(events', "triggered") \cap (fired \cup fresh) = {}]_vars
  BY StepFacts DEF OnceStep
<1> QED BY <1>1, InvariantHolds, PTL DEF Spec, TriggersOnce

(* ValueCountsFromStart: a leaderboard that starts has forgotten what its value had counted before. *)
THEOREM BoardCountsFromStart == Spec => ValueCountsFromStart
<1>1. IInv /\ [Next]_vars => [CountsStep]_vars
  BY StepFacts
<1>2. Spec => [][CountsStep]_vars
  BY <1>1, InvariantHolds, PTL DEF Spec
<1> QED BY <1>2 DEF CountsStep, ValueCountsFromStart

(* The tally of a condition without a target is right whatever has been counted. *)
LEMMA TallyAgrees ==
  ASSUME NEW c, NEW d, CondAgrees(c, d), NEW es, NEW fs, EsAgree(es, fs), NEW test
  PROVE  Agree(c, Tally(c, es, test), Tally(d, fs, test))
<1> DEFINE r == Tally(c, es, test)
           s == Tally(d, fs, test)
<1>1. DOMAIN c = CondFields /\ DOMAIN d = CondFields /\ c.required = 0 /\ d.required = 0
  BY DEF CondAgrees, CondShaped, SameCondition
<1>2. DOMAIN es = EsFields /\ DOMAIN fs = EsFields
  BY DEF EsAgree
<1>3. DOMAIN r = {"c", "ok", "es"} /\ DOMAIN s = {"c", "ok", "es"}
  BY TallyEvolves DEF CondAgrees
<1>4. r.c.type = c.type /\ s.c.type = c.type /\ r.c.required = 0 /\ s.c.required = 0
  BY TallyEvolves DEF CondAgrees, CondEvolves, SameCondition
<1>5. r.ok = s.ok
  <2> DEFINE valid(e) == (test /\ e.andNext) \/ e.orNext
  <2>1. ASSUME NEW x, NEW e, x.required = 0
        PROVE  Tally(x, e, test).ok = (~e.resetNext /\ valid(e))
    <3>1. ~(x.hits > 0 /\ x.hits = 0)
      BY SMT
    <3>2. CASE e.resetNext
      BY <3>2 DEF Tally
    <3>3. CASE ~e.resetNext /\ valid(e)
      BY <2>1, <3>3 DEF Tally
    <3>4. CASE ~e.resetNext /\ ~valid(e)
      BY <2>1, <3>1, <3>4 DEF Tally
    <3> QED BY <3>2, <3>3, <3>4
  <2>2. r.ok = (~es.resetNext /\ valid(es)) /\ s.ok = (~fs.resetNext /\ valid(fs))
    BY <1>1, <2>1
  <2>3. es.andNext = fs.andNext /\ es.orNext = fs.orNext /\ es.resetNext = fs.resetNext
    BY DEF EsAgree
  <2> QED BY <2>2, <2>3
<1>6. EsAgree(r.es, s.es)
  BY <1>2 DEF Tally, EsAgree, EsFields, NewEval
<1> QED BY <1>3, <1>4, <1>5, <1>6 DEF Agree

(* So is what becomes of the tally. *)
LEMMA ConditionAgrees ==
  ASSUME NEW c, NEW r, NEW s, Agree(c, r, s)
  PROVE  Agree(c, EvaluateCondition(r), EvaluateCondition(s))
<1>1. ASSUME NEW t, DOMAIN t = {"c", "ok", "es"}, DOMAIN t.es = EsFields, t.c.required = 0, NEW n, n = EvaluateCondition(t)
      PROVE  /\ DOMAIN n = {"c", "ok", "es"} /\ n.c = t.c /\ n.ok = t.ok /\ DOMAIN n.es = EsFields
             /\ n.es.isTrue = t.es.isTrue /\ n.es.paused = t.es.paused /\ n.es.stop = t.es.stop
             /\ n.es.andNext = t.es.andNext /\ n.es.orNext = t.es.orNext /\ n.es.resetNext = FALSE
             /\ n.es.wasReset = t.es.wasReset
  BY <1>1 DEF EvaluateCondition, EsFields, NewEval
<1> DEFINE n == EvaluateCondition(r)
           m == EvaluateCondition(s)
<1>2. DOMAIN r = {"c", "ok", "es"} /\ DOMAIN r.es = EsFields /\ DOMAIN s = {"c", "ok", "es"} /\ DOMAIN s.es = EsFields
  BY DEF Agree, EsAgree
<1>3. n = EvaluateCondition(r) /\ m = EvaluateCondition(s) /\ r.c.required = 0 /\ s.c.required = 0
  BY DEF Agree
<1> HIDE DEF n, m
<1>4. /\ DOMAIN n = {"c", "ok", "es"} /\ n.c = r.c /\ n.ok = r.ok /\ DOMAIN n.es = EsFields
      /\ n.es.isTrue = r.es.isTrue /\ n.es.paused = r.es.paused /\ n.es.stop = r.es.stop
      /\ n.es.andNext = r.es.andNext /\ n.es.orNext = r.es.orNext /\ n.es.resetNext = FALSE
      /\ n.es.wasReset = r.es.wasReset
  BY <1>1, <1>2, <1>3
<1>5. /\ DOMAIN m = {"c", "ok", "es"} /\ m.c = s.c /\ m.ok = s.ok /\ DOMAIN m.es = EsFields
      /\ m.es.isTrue = s.es.isTrue /\ m.es.paused = s.es.paused /\ m.es.stop = s.es.stop
      /\ m.es.andNext = s.es.andNext /\ m.es.orNext = s.es.orNext /\ m.es.resetNext = FALSE
      /\ m.es.wasReset = s.es.wasReset
  BY <1>1, <1>2, <1>3
<1>6. Agree(c, n, m)
  BY <1>4, <1>5 DEF Agree, EsAgree
<1> QED BY <1>3, <1>6

(* One condition and another, the same but for what they have counted, leave the same to the next. *)
LEMMA TalliedAgrees ==
  ASSUME NEW c, c.type \in Flags \ Modifying, NEW t, NEW u, Agree(c, t, u), NEW r, NEW s, Agree(c, r, s), NEW left
  PROVE  EsAgree(EvaluateTally(t, r, left).es, EvaluateTally(u, s, left).es)
<1> DEFINE n == EvaluateTally(t, r, left)
           m == EvaluateTally(u, s, left)
<1>1. DOMAIN t.es = EsFields /\ DOMAIN u.es = EsFields /\ DOMAIN r.es = EsFields /\ DOMAIN s.es = EsFields
  BY DEF Agree, EsAgree
<1>2. c.type \in {"standard", "trigger", "measured", "measured_if"} => EsAgree(n.es, m.es)
  <2> SUFFICES ASSUME c.type \in {"standard", "trigger", "measured", "measured_if"} PROVE EsAgree(n.es, m.es)
    OBVIOUS
  <2> DEFINE Required(y, e) ==
               /\ DOMAIN e = EsFields /\ e.isTrue = (y.es.isTrue /\ y.ok) /\ e.paused = y.es.paused /\ e.stop = y.es.stop
               /\ e.andNext = y.es.andNext /\ e.orNext = y.es.orNext /\ e.resetNext = y.es.resetNext
               /\ e.wasReset = y.es.wasReset
  <2>1. ASSUME NEW y, DOMAIN y = {"c", "ok", "es"}, DOMAIN y.es = EsFields
        PROVE  DOMAIN Require(y) = {"c", "ok", "es"} /\ Required(y, Require(y).es)
    BY <2>1 DEF Require, EsFields, NewEval
  <2>2. ASSUME NEW x, x.c.type = c.type, x.c.required = 0, NEW y, DOMAIN y = {"c", "ok", "es"}, DOMAIN y.es = EsFields
        PROVE  Required(y, EvaluateTally(x, y, left).es)
    <3>1. CASE c.type = "standard"
      BY <2>1, <2>2, <3>1 DEF EvaluateTally
    <3>2. CASE c.type = "trigger"
      <4>1. EvaluateTally(x, y, left) = [y EXCEPT !.es.isTrue = @ /\ y.ok]
        BY <2>2, <3>2 DEF EvaluateTally
      <4> QED BY <2>2, <4>1 DEF EsFields, NewEval
    <3>3. CASE c.type = "measured"
      <4>1. EvaluateTally(x, y, left) = [Require(y) EXCEPT !.es.measured = left, !.es.fromHits = FALSE]
        BY <2>2, <3>3 DEF EvaluateTally, EvaluateMeasured
      <4>2. EvaluateTally(x, y, left).es = [Require(y).es EXCEPT !.measured = left, !.fromHits = FALSE]
        BY <2>1, <4>1
      <4> QED BY ONLY <2>1, <2>2, <4>2 DEF EsFields, NewEval
    <3>4. CASE c.type = "measured_if"
      <4>1. EvaluateTally(x, y, left) = [Require(y) EXCEPT !.es.canMeasure = @ /\ y.ok]
        BY <2>2, <3>4 DEF EvaluateTally
      <4>2. PICK q : q = (Require(y).es.canMeasure /\ y.ok)
        OBVIOUS
      <4>3. EvaluateTally(x, y, left) = [Require(y) EXCEPT !.es.canMeasure = q]
        BY ONLY <4>1, <4>2
      <4> QED BY <2>1, <2>2, <4>3 DEF EsFields, NewEval
    <3> QED BY <3>1, <3>2, <3>3, <3>4
  <2>3. Required(r, n.es) /\ Required(s, m.es)
    BY <1>1, <2>2 DEF Agree
  <2> HIDE DEF n, m
  <2>4. r.ok = s.ok /\ EsAgree(r.es, s.es)
    BY DEF Agree
  <2> QED BY <2>3, <2>4 DEF EsAgree
<1>3. c.type = "pause_if" => EsAgree(n.es, m.es)
  <2> SUFFICES ASSUME c.type = "pause_if" PROVE EsAgree(n.es, m.es)
    OBVIOUS
  <2>1. n = EvaluatePauseIf(r) /\ m = EvaluatePauseIf(s)
    BY DEF EvaluateTally, Agree
  <2>2. ASSUME NEW x, DOMAIN x = {"c", "ok", "es"}, DOMAIN x.es = EsFields, x.ok
        PROVE  LET y == EvaluatePauseIf(x).es
               IN  /\ DOMAIN y = EsFields /\ y.isTrue = FALSE /\ y.stop = TRUE
                   /\ y.andNext = x.es.andNext /\ y.orNext = x.es.orNext /\ y.resetNext = x.es.resetNext
                   /\ y.paused = TRUE /\ y.wasReset = x.es.wasReset
    BY <2>2 DEF EvaluatePauseIf, EsFields, NewEval
  <2>3. ASSUME NEW x, DOMAIN x = {"c", "ok", "es"}, ~x.ok
        PROVE  EvaluatePauseIf(x).es = x.es
    BY <2>3 DEF EvaluatePauseIf
  <2>4. DOMAIN r = {"c", "ok", "es"} /\ DOMAIN s = {"c", "ok", "es"} /\ r.ok = s.ok /\ EsAgree(r.es, s.es)
    BY DEF Agree
  <2> HIDE DEF n, m
  <2>5. CASE r.ok
    BY <1>1, <2>1, <2>2, <2>4, <2>5 DEF EsAgree
  <2>6. CASE ~r.ok
    BY <2>1, <2>3, <2>4, <2>6
  <2> QED BY <2>5, <2>6
<1>4. c.type = "reset_if" => EsAgree(n.es, m.es)
  <2> SUFFICES ASSUME c.type = "reset_if" PROVE EsAgree(n.es, m.es)
    OBVIOUS
  <2>1. n = EvaluateResetIf(r) /\ m = EvaluateResetIf(s)
    BY DEF EvaluateTally, Agree
  <2>2. ASSUME NEW x, DOMAIN x = {"c", "ok", "es"}, DOMAIN x.es = EsFields, x.ok
        PROVE  LET y == EvaluateResetIf(x).es
               IN  /\ DOMAIN y = EsFields /\ y.isTrue = FALSE /\ y.stop = TRUE
                   /\ y.andNext = x.es.andNext /\ y.orNext = x.es.orNext /\ y.resetNext = x.es.resetNext
                   /\ y.paused = x.es.paused /\ y.wasReset = TRUE
    BY <2>2 DEF EvaluateResetIf, EsFields, NewEval
  <2>3. ASSUME NEW x, DOMAIN x = {"c", "ok", "es"}, ~x.ok
        PROVE  EvaluateResetIf(x).es = x.es
    BY <2>3 DEF EvaluateResetIf
  <2>4. DOMAIN r = {"c", "ok", "es"} /\ DOMAIN s = {"c", "ok", "es"} /\ r.ok = s.ok /\ EsAgree(r.es, s.es)
    BY DEF Agree
  <2> HIDE DEF n, m
  <2>5. CASE r.ok
    BY <1>1, <2>1, <2>2, <2>4, <2>5 DEF EsAgree
  <2>6. CASE ~r.ok
    BY <2>1, <2>3, <2>4, <2>6
  <2> QED BY <2>5, <2>6
<1>5. c.type \in {"add_hits", "sub_hits"} => EsAgree(n.es, m.es)
  <2> SUFFICES ASSUME c.type \in {"add_hits", "sub_hits"} PROVE EsAgree(n.es, m.es)
    OBVIOUS
  <2>1. PICK z : n = EvaluateHits(t, z) /\ m = EvaluateHits(u, z)
    BY DEF EvaluateTally, Agree
  <2>2. ASSUME NEW x, DOMAIN x = {"c", "ok", "es"}, DOMAIN x.es = EsFields
        PROVE  LET y == EvaluateHits(x, z).es
               IN  /\ DOMAIN y = EsFields /\ y.isTrue = x.es.isTrue /\ y.paused = x.es.paused /\ y.stop = x.es.stop
                   /\ y.andNext = x.es.andNext /\ y.orNext = x.es.orNext /\ y.resetNext = FALSE
                   /\ y.wasReset = x.es.wasReset
    BY <2>2 DEF EvaluateHits, EsFields, NewEval
  <2>3. DOMAIN t = {"c", "ok", "es"} /\ DOMAIN u = {"c", "ok", "es"} /\ EsAgree(t.es, u.es)
    BY DEF Agree
  <2> HIDE DEF n, m
  <2>4. /\ DOMAIN n.es = EsFields /\ n.es.isTrue = t.es.isTrue /\ n.es.paused = t.es.paused /\ n.es.stop = t.es.stop
        /\ n.es.andNext = t.es.andNext /\ n.es.orNext = t.es.orNext /\ n.es.resetNext = FALSE
        /\ n.es.wasReset = t.es.wasReset
    BY ONLY <1>1, <2>1, <2>2, <2>3
  <2>5. /\ DOMAIN m.es = EsFields /\ m.es.isTrue = u.es.isTrue /\ m.es.paused = u.es.paused /\ m.es.stop = u.es.stop
        /\ m.es.andNext = u.es.andNext /\ m.es.orNext = u.es.orNext /\ m.es.resetNext = FALSE
        /\ m.es.wasReset = u.es.wasReset
    BY ONLY <1>1, <2>1, <2>2, <2>3
  <2> QED BY ONLY <2>3, <2>4, <2>5 DEF EsAgree
<1>6. c.type \in {"reset_next_if", "and_next", "or_next"} => EsAgree(n.es, m.es)
  <2>1. DOMAIN t = {"c", "ok", "es"} /\ DOMAIN u = {"c", "ok", "es"} /\ t.c.type = c.type /\ u.c.type = c.type
        /\ t.ok = u.ok /\ EsAgree(t.es, u.es)
    BY DEF Agree
  <2>2. ASSUME c.type = "reset_next_if"
        PROVE  EsAgree(n.es, m.es)
    <3>1. n = [t EXCEPT !.es.resetNext = t.ok] /\ m = [u EXCEPT !.es.resetNext = u.ok]
      BY <2>1, <2>2 DEF EvaluateTally
    <3> HIDE DEF n, m
    <3> QED BY ONLY <2>1, <3>1 DEF EsAgree, EsFields, NewEval
  <2>3. ASSUME c.type = "and_next"
        PROVE  EsAgree(n.es, m.es)
    <3>1. n = [t EXCEPT !.es.andNext = t.ok] /\ m = [u EXCEPT !.es.andNext = u.ok]
      BY <2>1, <2>3 DEF EvaluateTally
    <3> HIDE DEF n, m
    <3> QED BY ONLY <2>1, <3>1 DEF EsAgree, EsFields, NewEval
  <2>4. ASSUME c.type = "or_next"
        PROVE  EsAgree(n.es, m.es)
    <3>1. n = [t EXCEPT !.es.orNext = t.ok] /\ m = [u EXCEPT !.es.orNext = u.ok]
      BY <2>1, <2>4 DEF EvaluateTally
    <3> HIDE DEF n, m
    <3> QED BY ONLY <2>1, <3>1 DEF EsAgree, EsFields, NewEval
  <2> QED BY <2>2, <2>3, <2>4
<1> QED BY <1>2, <1>3, <1>4, <1>5, <1>6 DEF Flags, Modifying, Combining, Indirect

(* One condition of each of the two runs. *)
LEMMA OneAgrees ==
  ASSUME NEW c, NEW d, CondAgrees(c, d), NEW es, NEW fs, EsAgree(es, fs), NEW at
  PROVE  EsAgree(EvaluateOne(c, es, at).es, EvaluateOne(d, fs, at).es)
<1> DEFINE test == TestCondition(c, at)
           left == EvaluateOperand(c.op1, at)
           t == Tally(c, es, test)
           u == Tally(d, fs, test)
           r == EvaluateCondition(t)
           s == EvaluateCondition(u)
<1>1. d.type = c.type /\ d.op1 = c.op1 /\ d.oper = c.oper /\ d.op2 = c.op2 /\ c.type \in Flags
  BY DEF CondAgrees, SameCondition, CondShaped
<1>2. TestCondition(d, at) = test /\ EvaluateOperand(d.op1, at) = left
  BY <1>1 DEF TestCondition, Comparator, TestShape, CompareOperands
<1>3. CASE c.type \in Modifying
  BY <1>1, <1>3 DEF EvaluateOne
<1>4. CASE c.type \notin Modifying
  <2>1. Agree(c, t, u)
    BY TallyAgrees
  <2>2. Agree(c, r, s)
    BY <2>1, ConditionAgrees
  <2>3. EvaluateOne(c, es, at) = EvaluateTally(t, r, left) /\ EvaluateOne(d, fs, at) = EvaluateTally(u, s, left)
    BY <1>1, <1>2, <1>4 DEF EvaluateOne, Evaluate
  <2> HIDE DEF t, u, r, s, left
  <2> QED BY <1>1, <1>4, <2>1, <2>2, <2>3, TalliedAgrees
<1> QED BY <1>3, <1>4

(* What holds of 0 and passes from each number to the next, up to n, holds of n. *)
LEMMA UpTo ==
  ASSUME NEW n \in Nat, NEW S, 0 \in S, \A k \in 1..n : k - 1 \in S => k \in S
  PROVE  n \in S
<1> DEFINE T == {m \in Nat : m <= n => m \in S}
<1>1. T \in SUBSET Nat /\ 0 \in T
  OBVIOUS
<1>2. ASSUME NEW m \in Nat, m \in T
      PROVE  m + 1 \in T
  <2>1. CASE m + 1 <= n
    <3>1. m \in S /\ m + 1 \in 1..n /\ (m + 1) - 1 = m
      BY <1>2, <2>1
    <3> QED BY <3>1
  <2>2. CASE ~(m + 1 <= n)
    BY <2>2
  <2> QED BY <2>1, <2>2
<1>3. T = Nat
  <2> HIDE DEF T
  <2> QED BY <1>1, <1>2, FromZero
<1> QED BY <1>3

(* Two lists that agree still do after some of their conditions were tested. *)
LEMMA SoFarAgrees ==
  ASSUME NEW s, NEW t, ListsAgree(s, t), NEW x, NEW j, NEW y, NEW k,
         NEW now, PhaseSoFar(s, x, j, now), NEW then, PhaseSoFar(t, y, k, then)
  PROVE  ListsAgree(now, then)
<1> DEFINE n == Len(s)
<1>1. n \in Nat /\ Len(t) = n /\ DOMAIN s = 1..n /\ DOMAIN t = 1..n
  BY ListFacts DEF ListsAgree, AllShaped
<1>2. IsList(now) /\ IsList(then) /\ Len(now) = n /\ Len(then) = n /\ DOMAIN now = 1..n /\ DOMAIN then = 1..n
  BY <1>1, ListFacts DEF PhaseSoFar
<1>3. ASSUME NEW i \in 1..n
      PROVE  CondAgrees(now[i], then[i])
  <2>1. CondAgrees(s[i], t[i])
    BY DEF ListsAgree
  <2>2. now[i] = s[i] \/ CondEvolves(s[i], now[i])
    BY DEF PhaseSoFar
  <2>3. then[i] = t[i] \/ CondEvolves(t[i], then[i])
    BY <1>1 DEF PhaseSoFar
  <2>4. CondShaped(s[i]) /\ CondShaped(t[i]) /\ SameCondition(s[i], t[i]) /\ s[i].required = 0
    BY <2>1 DEF CondAgrees
  <2>5. CondShaped(now[i]) /\ CondShaped(then[i])
    BY <2>2, <2>3, <2>4, EvolvedShaped
  <2>6. SameCondition(s[i], now[i]) /\ SameCondition(t[i], then[i])
    BY <2>2, <2>3, <2>4 DEF CondEvolves, SameCondition, CondShaped
  <2>7. SameCondition(now[i], then[i]) /\ now[i].required = 0
    BY <2>4, <2>6 DEF SameCondition
  <2> QED BY <2>5, <2>7 DEF CondAgrees
<1>4. AllShaped(now) /\ AllShaped(then)
  <2> HIDE DEF n
  <2> QED BY <1>2, <1>3 DEF AllShaped, CondAgrees
<1> QED BY <1>2, <1>3, <1>4 DEF ListsAgree

(* A phase of two runs that agree. *)
LEMMA PhaseAgrees ==
  ASSUME NEW class, NEW at, NEW a, NEW b, RunsAgree(a, b)
  PROVE  RunsAgree(EvaluatePhase(class, a, at), EvaluatePhase(class, b, at))
<1> DEFINE c == [class |-> class, at |-> at]
           items == [i \in DOMAIN a.conds |-> i]
           n == Len(a.conds)
           r == EvaluatePhase(class, a, at)
           s == EvaluatePhase(class, b, at)
<1>1. n \in Nat /\ DOMAIN items = 1..n /\ (\A k \in 1..n : items[k] = k) /\ Len(b.conds) = n
      /\ DOMAIN a.conds = 1..n /\ DOMAIN b.conds = 1..n
  BY ListFacts DEF RunsAgree, ListsAgree, AllShaped
<1>2. /\ DOMAIN a = {"conds", "es"} /\ IsList(a.conds) /\ \A i \in DOMAIN a.conds : CondShaped(a.conds[i])
      /\ DOMAIN b = {"conds", "es"} /\ IsList(b.conds) /\ \A i \in DOMAIN b.conds : CondShaped(b.conds[i])
  BY DEF RunsAgree, ListsAgree, AllShaped
<1>3. r = FPhase!Result(c, a, items) /\ s = FPhase!Result(c, b, items)
  BY <1>1, PhaseFold
<1>4. c.class = class /\ c.at = at
  OBVIOUS
<1> HIDE DEF c, items, n, r, s
<1>5. PICK p : p[0] = a /\ (\A k \in 1..n : p[k] = StepPhase(c, p[k - 1], items[k])) /\ r = p[n]
  BY <1>1, <1>3, FPhase!FoldPrefixes, Induction
<1>6. PICK q : q[0] = b /\ (\A k \in 1..n : q[k] = StepPhase(c, q[k - 1], items[k])) /\ s = q[n]
  BY <1>1, <1>3, FPhase!FoldPrefixes, Induction
<1> DEFINE Good(k) == HoldsPhase(c, a, k, p[k]) /\ HoldsPhase(c, b, k, q[k]) /\ EsAgree(p[k].es, q[k].es)
           S == {k \in Nat : Good(k)}
<1>7. Good(0)
  <2>1. HoldsPhase(c, a, 0, a)
    BY <1>1, <1>2 DEF HoldsPhase, PhaseSoFar, n
  <2>2. HoldsPhase(c, b, 0, b)
    BY <1>1, <1>2 DEF HoldsPhase, PhaseSoFar
  <2> QED BY <1>5, <1>6, <2>1, <2>2 DEF RunsAgree
<1>8. ASSUME NEW k \in 1..n, Good(k - 1)
      PROVE  Good(k)
  <2> DEFINE u == p[k - 1]
             v == q[k - 1]
  <2>1. p[k] = StepPhase(c, u, k) /\ q[k] = StepPhase(c, v, k)
    BY <1>1, <1>5, <1>6
  <2>2. k \in 1..Len(a.conds) /\ k \in 1..Len(b.conds) /\ k \in Nat /\ ~(k <= k - 1)
    BY <1>1 DEF n
  <2>3. HoldsPhase(c, a, k - 1, u) /\ HoldsPhase(c, b, k - 1, v) /\ EsAgree(u.es, v.es)
    BY <1>8
  <2> HIDE DEF u, v
  <2>4. HoldsPhase(c, a, k, p[k]) /\ HoldsPhase(c, b, k, q[k])
    BY <1>2, <2>1, <2>2, <2>3, PhaseStep
  <2>5. u.conds[k] = a.conds[k] /\ v.conds[k] = b.conds[k]
    BY <2>2, <2>3 DEF HoldsPhase, PhaseSoFar
  <2>6. CondAgrees(u.conds[k], v.conds[k])
    BY <2>2, <2>5 DEF RunsAgree, ListsAgree
  <2>7. EsAgree(One(c, u, k).es, One(c, v, k).es)
    BY <2>3, <2>6, OneAgrees DEF One
  <2>8. u.conds[k].class = v.conds[k].class /\ u.es.stop = v.es.stop
    BY <2>3, <2>6 DEF CondAgrees, SameCondition, EsAgree
  <2>9. EsAgree(StepPhase(c, u, k).es, StepPhase(c, v, k).es)
    BY <2>3, <2>7, <2>8 DEF StepPhase
  <2> QED BY <2>1, <2>4, <2>9
<1>9. Good(n)
  <2>1. 0 \in S /\ \A k \in 1..n : k - 1 \in S => k \in S
    BY <1>7, <1>8
  <2> HIDE DEF S
  <2>2. n \in S
    BY <1>1, <2>1, UpTo
  <2> QED BY <2>2 DEF S
<1>10. ListsAgree(r.conds, s.conds)
  <2>1. PhaseSoFar(a.conds, {class}, n, r.conds) /\ PhaseSoFar(b.conds, {class}, n, s.conds)
    BY <1>4, <1>5, <1>6, <1>9 DEF HoldsPhase
  <2>2. ListsAgree(a.conds, b.conds)
    BY DEF RunsAgree
  <2> QED BY <2>1, <2>2, SoFarAgrees
<1>11. RunsAgree(r, s)
  BY <1>5, <1>6, <1>9, <1>10 DEF RunsAgree, HoldsPhase
<1> QED BY <1>11 DEF r, s

(* Hits that are cleared before they are measured leave two runs in agreement. *)
LEMMA ClearedAgrees ==
  ASSUME NEW a, NEW b, RunsAgree(a, b)
  PROVE  RunsAgree(ClearMeasured(a), ClearMeasured(b))
<1>1. ASSUME NEW run, DOMAIN run = {"conds", "es"}, AllShaped(run.conds)
      PROVE  /\ DOMAIN ClearMeasured(run) = {"conds", "es"} /\ ClearMeasured(run).es = run.es
             /\ PhaseSoFar(run.conds, {"measured"}, Len(run.conds), ClearMeasured(run).conds)
  <2> DEFINE z == ClearMeasured(run)
             n == Len(run.conds)
  <2>1. z.es = run.es
    BY <1>1 DEF ClearMeasured
  <2>2. n \in Nat /\ DOMAIN run.conds = 1..n
    BY <1>1, ListFacts DEF AllShaped
  <2>3. /\ DOMAIN z = {"conds", "es"} /\ AllShaped(z.conds) /\ Len(z.conds) = n
        /\ \A i \in 1..n : IF run.conds[i].class = "measured" THEN SameCondition(run.conds[i], z.conds[i]) /\ z.conds[i].hits = 0
                           ELSE z.conds[i] = run.conds[i]
    BY <1>1, ClearMeasuredFacts
  <2> HIDE DEF z, n
  <2>4. \A i \in 1..n : IF run.conds[i].class \in {"measured"} THEN CondEvolves(run.conds[i], z.conds[i])
                        ELSE z.conds[i] = run.conds[i]
    BY <2>3, NoHitsEvolves
  <2>5. PhaseSoFar(run.conds, {"measured"}, n, z.conds)
    BY <2>2, <2>3, <2>4 DEF PhaseSoFar, AllShaped, n
  <2> QED BY <2>1, <2>3, <2>5 DEF z, n
<1>2. ListsAgree(a.conds, b.conds) /\ EsAgree(a.es, b.es)
  BY DEF RunsAgree
<1>3. ListsAgree(ClearMeasured(a).conds, ClearMeasured(b).conds)
  BY <1>1, <1>2, SoFarAgrees DEF RunsAgree, ListsAgree
<1> QED BY <1>1, <1>2, <1>3 DEF RunsAgree, ListsAgree

(* So does a measured value that is void. *)
LEMMA VoidAgrees ==
  ASSUME NEW a, NEW b, RunsAgree(a, b)
  PROVE  RunsAgree(VoidMeasured(a), VoidMeasured(b))
<1>1. ASSUME NEW run, DOMAIN run = {"conds", "es"}, DOMAIN run.es = EsFields
      PROVE  LET es == VoidMeasured(run).es
             IN  /\ DOMAIN es = EsFields /\ es.isTrue = run.es.isTrue /\ es.paused = run.es.paused
                 /\ es.stop = run.es.stop /\ es.andNext = run.es.andNext /\ es.orNext = run.es.orNext
                 /\ es.resetNext = run.es.resetNext /\ es.wasReset = run.es.wasReset
  <2> DEFINE zero == Unsigned(0)
             void == [run EXCEPT !.es.measured = zero]
  <2>1. VoidMeasured(run) = void \/ VoidMeasured(run) = run
    BY DEF VoidMeasured
  <2> HIDE DEF zero
  <2>2. /\ DOMAIN void.es = EsFields /\ void.es.isTrue = run.es.isTrue /\ void.es.paused = run.es.paused
        /\ void.es.stop = run.es.stop /\ void.es.andNext = run.es.andNext /\ void.es.orNext = run.es.orNext
        /\ void.es.resetNext = run.es.resetNext /\ void.es.wasReset = run.es.wasReset
    BY <1>1 DEF EsFields, NewEval
  <2> HIDE DEF void
  <2> QED BY <1>1, <2>1, <2>2
<1> DEFINE va == VoidMeasured(a)
           vb == VoidMeasured(b)
<1>2. DOMAIN va = {"conds", "es"} /\ va.conds = a.conds /\ DOMAIN vb = {"conds", "es"} /\ vb.conds = b.conds
  BY VoidKeeps DEF RunsAgree
<1>3. DOMAIN a = {"conds", "es"} /\ DOMAIN a.es = EsFields /\ DOMAIN b = {"conds", "es"} /\ DOMAIN b.es = EsFields
  BY DEF RunsAgree, EsAgree
<1>4. EsAgree(va.es, vb.es)
  BY <1>1, <1>3 DEF RunsAgree, EsAgree
<1> QED BY <1>2, <1>4 DEF RunsAgree

(* So does every phase of a group. *)
LEMMA TestPhaseAgrees ==
  ASSUME NEW class, NEW at, NEW a, NEW b, RunsAgree(a, b)
  PROVE  RunsAgree(TestPhase(a, class, at), TestPhase(b, class, at))
<1> DEFINE Skips(x) == \/ x.es.paused \/ (class = "hittarget" /\ x.es.wasReset)
                       \/ (class = "other" /\ x.es.wasReset /\ ~x.es.isTrue)
           Start(x) == IF class = "measured" /\ x.es.wasReset THEN ClearMeasured(x) ELSE x
           Run(x) == EvaluatePhase(class, Start(x), at)
           After(x) == IF class = "measured" THEN VoidMeasured(Run(x)) ELSE Run(x)
<1>1. ASSUME NEW x
      PROVE  TestPhase(x, class, at) = IF Skips(x) THEN x ELSE After(x)
  <2>1. CASE Skips(x)
    BY <2>1 DEF TestPhase
  <2>2. CASE ~Skips(x)
    BY <2>2 DEF TestPhase
  <2> QED BY <2>1, <2>2
<1>2. Skips(a) <=> Skips(b)
  BY DEF RunsAgree, EsAgree
<1>3. RunsAgree(Start(a), Start(b))
  BY ClearedAgrees DEF RunsAgree, EsAgree
<1> HIDE DEF Start
<1>4. RunsAgree(Run(a), Run(b))
  BY <1>3, PhaseAgrees
<1> HIDE DEF Run
<1>5. RunsAgree(After(a), After(b))
  BY <1>4, VoidAgrees
<1> HIDE DEF After, Skips
<1> QED BY <1>1, <1>2, <1>5

(* All the phases of a group. *)
LEMMA PhasesAgree ==
  ASSUME NEW at, NEW a, NEW b, RunsAgree(a, b)
  PROVE  RunsAgree(PhasesRun(a, at), PhasesRun(b, at))
<1> DEFINE r == PhasesRun(a, at)
           s == PhasesRun(b, at)
           n == 5
<1>1. n \in Nat /\ DOMAIN Phases = 1..n
  BY PhasesApart
<1>2. r = FPhases!Result(at, a, Phases) /\ s = FPhases!Result(at, b, Phases)
  BY PhasesFold
<1> HIDE DEF r, s, n
<1>3. PICK p : p[0] = a /\ (\A k \in 1..n : p[k] = StepPhases(at, p[k - 1], Phases[k])) /\ r = p[n]
  BY ONLY <1>1, <1>2, FPhases!FoldPrefixes, Induction, SMTT(60)
<1>4. PICK q : q[0] = b /\ (\A k \in 1..n : q[k] = StepPhases(at, q[k - 1], Phases[k])) /\ s = q[n]
  BY ONLY <1>1, <1>2, FPhases!FoldPrefixes, Induction, SMTT(60)
<1> DEFINE S == {k \in Nat : RunsAgree(p[k], q[k])}
<1>5. 0 \in S
  BY <1>3, <1>4
<1>6. ASSUME NEW k \in 1..n, k - 1 \in S
      PROVE  k \in S
  <2>1. RunsAgree(p[k - 1], q[k - 1]) /\ k \in Nat
    BY <1>1, <1>6
  <2>2. RunsAgree(p[k], q[k])
    BY <1>3, <1>4, <2>1, TestPhaseAgrees DEF StepPhases
  <2> QED BY <2>1, <2>2
<1> HIDE DEF S
<1>7. n \in S
  BY <1>1, <1>5, <1>6, UpTo
<1>8. RunsAgree(r, s)
  BY <1>3, <1>4, <1>7 DEF S
<1> QED BY <1>8 DEF r, s

(* A group tested in two runs. *)
LEMMA CondsetAgrees ==
  ASSUME NEW g, NEW h, SetsAgree(g, h), NEW es, NEW fs, EsAgree(es, fs), NEW at
  PROVE  LET r == TestCondset(g, es, at)
             s == TestCondset(h, fs, at)
         IN  r.ok = s.ok /\ EsAgree(r.es, s.es) /\ (r.es.paused = s.es.paused)
<1> DEFINE a == [conds |-> g.conds, es |-> NextGroup(es)]
           b == [conds |-> h.conds, es |-> NextGroup(fs)]
           x == PhasesRun(a, at)
           y == PhasesRun(b, at)
<1>1. EsAgree(NextGroup(es), NextGroup(fs))
  BY DEF EsAgree, NextGroup, EsFields, NewEval
<1>2. RunsAgree(a, b)
  BY <1>1 DEF RunsAgree, SetsAgree
<1>3. TestCondset(g, es, at) = CondsetResult(g, x) /\ TestCondset(h, fs, at) = CondsetResult(h, y)
  BY DEF TestCondset, PhasesRun
<1> HIDE DEF a, b
<1>4. RunsAgree(x, y)
  BY <1>2, PhasesAgree
<1> HIDE DEF x, y
<1>5. EsAgree(x.es, y.es)
  BY <1>4 DEF RunsAgree
<1>6. x.es.paused = y.es.paused /\ x.es.isTrue = y.es.isTrue
  BY <1>5 DEF EsAgree
<1>7. CondsetResult(g, x).ok = CondsetResult(h, y).ok
  BY <1>6 DEF CondsetResult
<1>8. CondsetResult(g, x).es = x.es /\ CondsetResult(h, y).es = y.es
  BY DEF CondsetResult
<1> QED BY <1>3, <1>5, <1>6, <1>7, <1>8

(* One group more in each of two runs. *)
LEMMA SetsStepAgrees ==
  ASSUME NEW k \in Nat, k > 0, NEW c, NEW d, SetShaped(c.sets[k]), SetShaped(d.sets[k]), SetsAgree(c.sets[k], d.sets[k]),
         c.at = d.at, NEW base, NEW a, NEW b, HoldsSets(c, base, k - 1, a), HoldsSets(d, base, k - 1, b), EsAgree(a.es, b.es),
         \A i \in 1..(k - 1) : ResultsAgree(a.results[i], b.results[i]),
         NEW x, x = StepSets(c, a, c.sets[k]), NEW y, y = StepSets(d, b, d.sets[k])
  PROVE  EsAgree(x.es, y.es) /\ \A i \in 1..k : ResultsAgree(x.results[i], y.results[i])
<1> DEFINE r == TestCondset(c.sets[k], a.es, c.at)
           s == TestCondset(d.sets[k], b.es, d.at)
           rs == Append(a.results, r)
           ss == Append(b.results, s)
<1>1. x.results = rs /\ x.es = r.es /\ y.results = ss /\ y.es = s.es
  BY DEF StepSets, StepTests
<1>2. ResultsAgree(r, s)
  BY CondsetAgrees DEF ResultsAgree
<1> HIDE DEF r, s
<1>3. IsList(a.results) /\ Len(a.results) = k - 1 /\ IsList(b.results) /\ Len(b.results) = k - 1
  BY DEF HoldsSets, HoldsTests
<1>4. (k - 1) + 1 = k
  OBVIOUS
<1>5. (\A i \in 1..(k - 1) : rs[i] = a.results[i]) /\ rs[k] = r
  BY <1>3, <1>4, AppendFacts
<1>6. (\A i \in 1..(k - 1) : ss[i] = b.results[i]) /\ ss[k] = s
  BY <1>3, <1>4, AppendFacts
<1> HIDE DEF rs, ss
<1>7. \A i \in 1..k : i \in 1..(k - 1) \/ i = k
  OBVIOUS
<1>8. \A i \in 1..k : ResultsAgree(rs[i], ss[i])
  BY <1>2, <1>5, <1>6, <1>7
<1> QED BY <1>1, <1>2, <1>8 DEF ResultsAgree

(* The groups of a trigger, tested in two runs. *)
LEMMA SetsTestedAgree ==
  ASSUME NEW sets, NEW others, GroupsAgree(sets, others), NEW at
  PROVE  \A i \in 1..Len(sets) : ResultsAgree(TestSets(sets, at)[i], TestSets(others, at)[i])
<1> DEFINE c == [sets |-> sets, at |-> at]
           d == [sets |-> others, at |-> at]
           base == [results |-> <<>>, es |-> NewEval]
           n == Len(sets)
           r == SetsTested(sets, at)
           s == SetsTested(others, at)
<1>1. n \in Nat /\ DOMAIN sets = 1..n /\ DOMAIN others = 1..n /\ Len(others) = n
  BY ListFacts DEF SetsShaped, GroupsAgree
<1>2. c.sets = sets /\ d.sets = others /\ c.at = at /\ d.at = at
  OBVIOUS
<1>3. r = FSets!Result(c, base, sets) /\ s = FSets!Result(d, base, others)
  BY SetsFold
<1>4. HoldsSets(c, base, 0, base) /\ HoldsSets(d, base, 0, base) /\ EsAgree(base.es, base.es)
  BY EmptyList DEF HoldsSets, HoldsTests, EsAgree, EsFields
<1> HIDE DEF c, d, base, n, r, s
<1>5. PICK p : p[0] = base /\ (\A k \in 1..n : p[k] = StepSets(c, p[k - 1], sets[k])) /\ r = p[n]
  <2>1. n \in Nat /\ DOMAIN sets = 1..n /\ r = FSets!Result(c, base, sets)
    BY <1>1, <1>3
  <2> QED BY ONLY <2>1, FSets!FoldPrefixes, Induction, SMTT(60)
<1>6. PICK q : q[0] = base /\ (\A k \in 1..n : q[k] = StepSets(d, q[k - 1], others[k])) /\ s = q[n]
  <2>1. n \in Nat /\ DOMAIN others = 1..n /\ s = FSets!Result(d, base, others)
    BY <1>1, <1>3
  <2> QED BY ONLY <2>1, FSets!FoldPrefixes, Induction, SMTT(60)
<1> DEFINE Good(k) == /\ HoldsSets(c, base, k, p[k]) /\ HoldsSets(d, base, k, q[k]) /\ EsAgree(p[k].es, q[k].es)
                      /\ \A i \in 1..k : ResultsAgree(p[k].results[i], q[k].results[i])
           S == {k \in Nat : Good(k)}
<1>7. Good(0)
  BY <1>4, <1>5, <1>6
<1>8. ASSUME NEW k \in 1..n, Good(k - 1)
      PROVE  Good(k)
  <2> DEFINE a == p[k - 1]
             b == q[k - 1]
             x == p[k]
             y == q[k]
  <2>1. k \in Nat /\ k > 0
    BY <1>1
  <2>2. SetShaped(c.sets[k]) /\ SetShaped(d.sets[k]) /\ SetsAgree(c.sets[k], d.sets[k]) /\ c.at = d.at
    BY <1>1, <1>2 DEF GroupsAgree, SetsShaped, n
  <2>3. /\ HoldsSets(c, base, k - 1, a) /\ HoldsSets(d, base, k - 1, b) /\ EsAgree(a.es, b.es)
        /\ \A i \in 1..(k - 1) : ResultsAgree(a.results[i], b.results[i])
    BY <1>8
  <2>4. x = StepSets(c, a, c.sets[k]) /\ y = StepSets(d, b, d.sets[k])
    BY <1>2, <1>5, <1>6
  <2> HIDE DEF a, b, x, y
  <2>5. HoldsSets(c, base, k, x) /\ HoldsSets(d, base, k, y)
    BY ONLY <2>1, <2>2, <2>3, <2>4, SetsStep
  <2>6. EsAgree(x.es, y.es) /\ \A i \in 1..k : ResultsAgree(x.results[i], y.results[i])
    BY ONLY <2>1, <2>2, <2>3, <2>4, SetsStepAgrees
  <2> QED BY <2>5, <2>6 DEF x, y
<1>9. Good(n)
  <2>1. 0 \in S /\ \A k \in 1..n : k - 1 \in S => k \in S
    BY <1>7, <1>8
  <2> HIDE DEF S
  <2>2. n \in S
    BY <1>1, <2>1, UpTo
  <2> QED BY <2>2 DEF S
<1>10. TestSets(sets, at) = r.results /\ TestSets(others, at) = s.results
  BY SetsFold DEF r, s
<1> QED BY <1>5, <1>6, <1>9, <1>10 DEF n

(* The verdict of the groups is the same in both. *)
LEMMA OutcomeAgrees ==
  ASSUME NEW t, NEW u, TriggersAgree(t, u), NEW at
  PROVE  /\ TestGroups(t, at).ok = TestGroups(u, at).ok
         /\ TestGroups(t, at).es.wasReset = TestGroups(u, at).es.wasReset
<1> DEFINE n == Len(t.alts)
           Sets(x) == <<x.core>> \o x.alts
           Results(x) == TestSets(Sets(x), at)
<1>1. n \in Nat /\ Len(u.alts) = n /\ DOMAIN t.alts = 1..n /\ DOMAIN u.alts = 1..n
  BY ListFacts DEF TriggersAgree, GroupsAgree, SetsShaped
<1>2. ASSUME NEW x, TriggerShaped(x), Len(x.alts) = n
      PROVE  /\ SetsShaped(Sets(x)) /\ Len(Sets(x)) = n + 1
             /\ Sets(x)[1] = x.core /\ \A i \in 1..n : Sets(x)[i + 1] = x.alts[i]
  <2>1. SetShaped(x.core) /\ SetsShaped(x.alts) /\ IsList(x.alts) /\ DOMAIN x.alts = 1..n
    BY <1>2, ListFacts DEF TriggerShaped, SetsShaped
  <2>2. /\ IsList(Sets(x)) /\ Len(Sets(x)) = n + 1 /\ DOMAIN Sets(x) = 1..(n + 1)
        /\ Sets(x)[1] = x.core /\ \A i \in 1..n : Sets(x)[i + 1] = x.alts[i]
    BY <1>2, <2>1, ConsFacts
  <2> HIDE DEF Sets, n
  <2>3. \A i \in 1..(n + 1) : i = 1 \/ (i - 1 \in 1..n /\ (i - 1) + 1 = i)
    BY <1>1
  <2>4. \A i \in 1..(n + 1) : SetShaped(Sets(x)[i])
    BY <2>1, <2>2, <2>3 DEF SetsShaped
  <2> QED BY <2>2, <2>4 DEF SetsShaped
<1>3. TriggerShaped(t) /\ TriggerShaped(u) /\ SetsAgree(t.core, u.core) /\ \A i \in 1..n : SetsAgree(t.alts[i], u.alts[i])
  BY DEF TriggersAgree, GroupsAgree
<1> HIDE DEF Sets, n
<1>4. /\ SetsShaped(Sets(t)) /\ Len(Sets(t)) = n + 1
      /\ Sets(t)[1] = t.core /\ \A i \in 1..n : Sets(t)[i + 1] = t.alts[i]
  BY <1>2, <1>3 DEF n
<1>5. /\ SetsShaped(Sets(u)) /\ Len(Sets(u)) = n + 1
      /\ Sets(u)[1] = u.core /\ \A i \in 1..n : Sets(u)[i + 1] = u.alts[i]
  BY <1>1, <1>2, <1>3
<1>6. GroupsAgree(Sets(t), Sets(u))
  <2>1. \A i \in 1..(n + 1) : i = 1 \/ (i - 1 \in 1..n /\ (i - 1) + 1 = i)
    BY <1>1
  <2>2. \A i \in 1..(n + 1) : SetsAgree(Sets(t)[i], Sets(u)[i])
    BY <1>3, <1>4, <1>5, <2>1
  <2> QED BY <1>4, <1>5, <2>2 DEF GroupsAgree
<1>7. \A i \in 1..(n + 1) : ResultsAgree(Results(t)[i], Results(u)[i])
  BY <1>4, <1>6, SetsTestedAgree
<1>8. ASSUME NEW x, SetsShaped(Sets(x)), Len(Sets(x)) = n + 1
      PROVE  LET core == Results(x)[1]
                 alts == Tail(Results(x))
                 g == TestGroups(x, at)
             IN  /\ g.ok = (core.ok /\ (n = 0 \/ \E i \in 1..n : Results(x)[i + 1].ok = TRUE))
                 /\ g.es = Results(x)[n + 1].es
  <2> DEFINE results == Results(x)
             core == Head(results)
             alts == Tail(results)
             all == <<core>> \o alts
             g == TestGroups(x, at)
             oks == {alts[i].ok : i \in DOMAIN alts}
  <2>1. IsList(results) /\ Len(results) = n + 1
    BY <1>8, SetsEvolved
  <2>2. results # <<>>
    BY <1>1, <2>1
  <2>3. g = GroupsOutcome(x, core, alts)
    BY DEF TestGroups, Outcome, Sets
  <2> HIDE DEF results
  <2>4. core = results[1] /\ IsList(alts) /\ Len(alts) = n /\ DOMAIN alts = 1..n /\ \A i \in 1..n : alts[i] = results[i + 1]
    <3>1. (n + 1) - 1 = n
      BY <1>1
    <3> QED BY <2>1, <2>2, <3>1, HeadTailFacts
  <2> HIDE DEF core, alts
  <2>5. g.ok = (core.ok /\ (alts = <<>> \/ TRUE \in oks)) /\ g.es = Last(all).es
    <3> HIDE DEF g
    <3>1. GroupsOutcome(x, core, alts).ok = (core.ok /\ (alts = <<>> \/ TRUE \in oks))
      BY Zenon DEF GroupsOutcome
    <3>2. GroupsOutcome(x, core, alts).es = Last(all).es
      BY Zenon DEF GroupsOutcome
    <3> QED BY ONLY <2>3, <3>1, <3>2
  <2>6. alts = <<>> <=> n = 0
    BY <1>1, <2>4 DEF IsList
  <2>7. TRUE \in oks <=> \E i \in 1..n : results[i + 1].ok = TRUE
    BY <2>4
  <2>8. Last(all) = results[n + 1]
    <3>1. IsList(all) /\ Len(all) = n + 1 /\ all[1] = core /\ \A i \in 1..n : all[i + 1] = alts[i]
      BY <2>4, ConsFacts
    <3> HIDE DEF all
    <3>2. Last(all) = all[n + 1]
      BY <3>1 DEF Last
    <3>3. n = 0 \/ n \in 1..n
      BY <1>1
    <3> QED BY <2>4, <3>1, <3>2, <3>3
  <2> HIDE DEF oks, all, g
  <2> QED BY <2>4, <2>5, <2>6, <2>7, <2>8 DEF results, g
<1> HIDE DEF Results
<1>9. /\ TestGroups(t, at).ok = (Results(t)[1].ok /\ (n = 0 \/ \E i \in 1..n : Results(t)[i + 1].ok = TRUE))
      /\ TestGroups(t, at).es = Results(t)[n + 1].es
  BY <1>4, <1>8
<1>10. /\ TestGroups(u, at).ok = (Results(u)[1].ok /\ (n = 0 \/ \E i \in 1..n : Results(u)[i + 1].ok = TRUE))
       /\ TestGroups(u, at).es = Results(u)[n + 1].es
  BY <1>5, <1>8
<1>11. \A i \in 1..n : i + 1 \in 1..(n + 1)
  BY <1>1
<1>12. 1 \in 1..(n + 1) /\ n + 1 \in 1..(n + 1)
  BY <1>1
<1>13. /\ Results(t)[1].ok = Results(u)[1].ok
       /\ \A i \in 1..n : Results(t)[i + 1].ok = Results(u)[i + 1].ok
       /\ Results(t)[n + 1].es.wasReset = Results(u)[n + 1].es.wasReset
  BY <1>7, <1>11, <1>12 DEF ResultsAgree, EsAgree
<1> QED BY <1>9, <1>10, <1>13

FText == INSTANCE FoldFacts WITH Op <- StepText, Holds <- HoldsNone

(* What a line shows is a fold over its parts, and depends on the helper variables and what the references hold. *)
LEMMA TextFold ==
  ASSUME NEW parts, NEW rich
  PROVE  EvaluateDisplay(parts, rich, runtime.pool.at) = FText!Result(rich.values, NoText, parts).out
  BY DEF EvaluateDisplay, FoldLeft, MapThenFoldSet, FText!Result, FText!Table, FText!Greatest, Max, StepText, NoText,
         PartValue, PartOn, SelectInSeq

(* What an active trigger becomes is triggered exactly when its groups hold and nothing reset them. *)
LEMMA ResultMet ==
  ASSUME NEW t, TriggerShaped(t), t.state = "active", NEW g,
         NEW u, TriggerEvolves(t, u), u.state = "active"
  PROVE  TriggerResult(t, g, u).trigger.state = "triggered" <=> ~g.es.wasReset /\ g.ok
<1> DEFINE cleared == ResetHitcounts(u)
           started == ResetTrigger(u)
           reset == g.es.wasReset
           kept == IF cleared.state = "primed" THEN "active" ELSE cleared.state
           untold == [cleared EXCEPT !.hasHits = FALSE, !.state = kept]
           met == [u EXCEPT !.state = "triggered"]
           state == CASE g.paused -> "paused" [] g.primed /\ ~reset -> "primed" [] OTHER -> "active"
           base == IF reset THEN cleared ELSE u
           has == g.es.hasHits /\ ~reset
           rest == [base EXCEPT !.hasHits = has, !.state = state]
           told == IF g.es.wasCondReset THEN "reset" ELSE state
           r == TriggerResult(t, g, u)
           r1 == [trigger |-> untold, result |-> "reset"]
           r2 == [trigger |-> started, result |-> "waiting"]
           r3 == [trigger |-> met, result |-> "triggered"]
           r4 == [trigger |-> rest, result |-> told]
<1>1. /\ ~reset /\ g.ok => r = r3
      /\ ~(~reset /\ g.ok) => r = r1 \/ r = r4
  <2> HIDE DEF r1, r2, r3, r4
  <2> QED BY DEF TriggerResult, r1, r2, r3, r4
<1>2. DOMAIN cleared = TriggerFields /\ cleared.state = "active"
  BY HitcountsReset DEF TriggerEvolves
<1> HIDE DEF cleared, started
<1>3. DOMAIN u = TriggerFields
  BY DEF TriggerEvolves
<1>4. kept = "active"
  BY <1>2
<1>5. untold.state = kept
  <2> HIDE DEF kept
  <2> QED BY <1>2 DEF TriggerFields
<1>6. met.state = "triggered"
  BY <1>3 DEF TriggerFields
<1>7. state \in {"paused", "primed", "active"}
  OBVIOUS
<1>8. DOMAIN base = TriggerFields
  BY <1>2, <1>3
<1> HIDE DEF base, state, has
<1>9. rest.state = state
  BY <1>8 DEF TriggerFields
<1> HIDE DEF untold, met, rest, kept, told
<1>10. r1.trigger.state = "active" /\ r3.trigger.state = "triggered" /\ r4.trigger.state # "triggered"
  BY <1>4, <1>5, <1>6, <1>7, <1>9
<1> HIDE DEF r1, r3, r4, r, reset
<1>11. r.trigger.state = "triggered" <=> ~reset /\ g.ok
  BY <1>1, <1>10
<1> QED BY <1>11 DEF r, reset

(* A trigger tested as if it were active triggers exactly when its condition is met. *)
LEMMA TestMet ==
  ASSUME NEW t, TriggerShaped(t), NEW at
  PROVE  TestTrigger(t, at).trigger.state = "triggered" <=> Met(t, at)
<1> DEFINE a == [t EXCEPT !.state = "active"]
           g == TestGroups(a, at)
           m == MeasuredAfter(g)
           u == [g.trigger EXCEPT !.measured = m]
<1>1. DOMAIN a = TriggerFields /\ a.core = t.core /\ a.alts = t.alts /\ a.state = "active"
  BY DEF TriggerShaped, TriggerFields
<1>2. TestTrigger(t, at).trigger = EvaluateTrigger(a, at).trigger /\ (Met(t, at) <=> ~g.es.wasReset /\ g.ok)
  BY DEF TestTrigger, Tested, Met
<1>3. TriggerStateActive("active")
  BY DEF TriggerStateActive
<1>4. EvaluateTrigger(a, at) = TriggerResult(a, g, u)
  <2> HIDE DEF a
  <2> QED BY <1>1, <1>3 DEF EvaluateTrigger, Resulting
<1> HIDE DEF a
<1>5. TriggerShaped(a)
  BY <1>1 DEF TriggerShaped
<1>6. TriggerEvolves(a, g.trigger) /\ g.trigger.state = "active"
  BY <1>1, <1>5, GroupsEvolve
<1> HIDE DEF g, m
<1>7. DOMAIN u = TriggerFields /\ u.core = g.trigger.core /\ u.alts = g.trigger.alts /\ u.state = "active"
  BY <1>6 DEF TriggerEvolves, TriggerFields
<1> HIDE DEF u
<1>8. TriggerEvolves(a, u)
  BY <1>6, <1>7, OtherState
<1> QED BY <1>1, <1>2, <1>4, <1>5, <1>7, <1>8, ResultMet

(* Triggers that agree are met together. *)
LEMMA MetAgrees ==
  ASSUME NEW t, NEW u, TriggersAgree(t, u), NEW at
  PROVE  Met(t, at) <=> Met(u, at)
<1> DEFINE a == [t EXCEPT !.state = "active"]
           b == [u EXCEPT !.state = "active"]
<1>1. DOMAIN a = TriggerFields /\ a.core = t.core /\ a.alts = t.alts
  BY DEF TriggersAgree, TriggerShaped, TriggerFields
<1>2. DOMAIN b = TriggerFields /\ b.core = u.core /\ b.alts = u.alts
  BY DEF TriggersAgree, TriggerShaped, TriggerFields
<1> HIDE DEF a, b
<1>3. TriggersAgree(a, b)
  BY <1>1, <1>2 DEF TriggersAgree, TriggerShaped
<1>4. /\ TestGroups(a, at).ok = TestGroups(b, at).ok
      /\ TestGroups(a, at).es.wasReset = TestGroups(b, at).es.wasReset
  BY <1>3, OutcomeAgrees
<1> QED BY <1>4 DEF Met, a, b

(* A trigger without targets and what follows from it agree. *)
LEMMA EvolvedAgrees ==
  ASSUME NEW t, TriggerShaped(t), TriggerCountsNone(t), NEW u, TriggerEvolves(t, u)
  PROVE  TriggersAgree(t, u)
<1>1. TriggerShaped(u)
  BY EvolvedTriggerShaped
<1>2. ASSUME NEW g, SetShaped(g), CountsNone(g), NEW h, SetShaped(h), SetEvolves(g, h)
      PROVE  SetsAgree(g, h)
  <2>1. /\ AllShaped(g.conds) /\ AllShaped(h.conds) /\ Len(h.conds) = Len(g.conds)
        /\ DOMAIN g.conds = 1..Len(g.conds) /\ DOMAIN h.conds = 1..Len(g.conds)
    BY <1>2, ListFacts DEF SetShaped, AllShaped, SetEvolves, ListEvolves
  <2>2. ASSUME NEW i \in 1..Len(g.conds)
        PROVE  CondAgrees(g.conds[i], h.conds[i])
    BY <1>2, <2>1 DEF CondAgrees, AllShaped, SetEvolves, ListEvolves, CondEvolves, CountsNone
  <2> QED BY <1>2, <2>1, <2>2 DEF SetsAgree, ListsAgree
<1>3. SetsAgree(t.core, u.core)
  BY <1>1, <1>2 DEF TriggerShaped, TriggerEvolves, TriggerCountsNone
<1>4. /\ SetsShaped(t.alts) /\ SetsShaped(u.alts) /\ Len(u.alts) = Len(t.alts)
      /\ DOMAIN t.alts = 1..Len(t.alts) /\ DOMAIN u.alts = 1..Len(t.alts)
  BY <1>1, ListFacts DEF TriggerShaped, TriggerEvolves, SetsShaped, SetsEvolve
<1>5. ASSUME NEW i \in 1..Len(t.alts)
      PROVE  SetsAgree(t.alts[i], u.alts[i])
  <2>1. SetShaped(t.alts[i]) /\ SetShaped(u.alts[i]) /\ CountsNone(t.alts[i]) /\ SetEvolves(t.alts[i], u.alts[i])
    BY <1>4 DEF SetsShaped, TriggerEvolves, SetsEvolve, TriggerCountsNone
  <2> QED BY <1>2, <2>1
<1> QED BY <1>1, <1>3, <1>4, <1>5 DEF TriggersAgree, GroupsAgree

(* A trigger without targets has no condition with one. *)
LEMMA NoneTargeted ==
  ASSUME NEW t, TriggerCountsNone(t)
  PROVE  Targeted(t) = {}
<1>1. ASSUME NEW g \in GroupsOf(t), NEW c \in ToSet(g.conds)
      PROVE  c.required = 0
  <2>1. CountsNone(g)
    BY <1>1 DEF GroupsOf, ToSet, TriggerCountsNone
  <2> QED BY <1>1, <2>1 DEF ToSet, CountsNone
<1> QED BY <1>1 DEF Targeted

(* What asking makes of rich presence, and what it shows. *)
LEMMA AskedFacts ==
  ASSUME NEW rich, RichFits(rich), NEW at, NEW now, now = Asked(rich.displays, at), NEW line, line = ShownLine(now),
         NEW z, z = DisplayString(rich, at)
  PROVE  /\ z.text = EvaluateDisplay(rich.displays[line].parts, rich, at)
         /\ z.rich.displays = LinesAfter(rich.displays, now, line) /\ z.rich.values = rich.values
         /\ DOMAIN z.rich = DOMAIN rich
<1> DEFINE lines == rich.displays
           new == LinesAfter(lines, now, line)
           told == [rich EXCEPT !.displays = new]
<1>1. DisplayString(rich, at) = DisplayFirst(rich, now, at)
  BY DEF DisplayString, Asked
<1>2. DisplayFirst(rich, now, at) = Chosen(rich, line, now, at)
  BY DEF DisplayFirst, ShownLine, MetLines
<1>3. Chosen(rich, line, now, at) = [rich |-> told, line |-> line, text |-> EvaluateDisplay(lines[line].parts, rich, at)]
  BY DEF Chosen, LinesAfter
<1>4. told.displays = new /\ told.values = rich.values /\ DOMAIN told = DOMAIN rich
  <2> HIDE DEF new
  <2> QED BY DEF RichFits
<1> HIDE DEF told, new
<1>5. z.text = EvaluateDisplay(lines[line].parts, rich, at) /\ z.rich = told
  BY <1>1, <1>2, <1>3
<1> QED BY <1>4, <1>5 DEF new

(* A line when rich presence is asked, and when it is asked again. *)
LEMMA LineAsked ==
  ASSUME NEW lines, LinesShaped(lines), NEW at, NEW now, now = Asked(lines, at), NEW line,
         NEW others, others = LinesAfter(lines, now, line), NEW then, then = Asked(others, at),
         NEW i \in DOMAIN lines
  PROVE  /\ DOMAIN others = DOMAIN lines /\ Len(others) = Len(lines)
         /\ others[i].parts = lines[i].parts
         /\ Targeted(others[i].trigger) = Targeted(lines[i].trigger)
         /\ i = Len(lines) \/ (now[i].state = "triggered" <=> then[i].state = "triggered")
<1> DEFINE n == Len(lines)
           d == lines[i]
           t == d.trigger
           tested == TestTrigger(t, at).trigger
           u == now[i]
           e == [d EXCEPT !.trigger = u]
           o == others[i]
<1>1. DOMAIN others = DOMAIN lines /\ DOMAIN lines = 1..n /\ n \in Nat /\ IsList(others) /\ Len(others) = n
  <2>1. DOMAIN others = DOMAIN lines /\ others = [j \in DOMAIN others |-> others[j]]
    BY DEF LinesAfter
  <2>2. IsList(lines)
    BY DEF LinesShaped
  <2>3. DOMAIN lines = 1..n /\ n \in Nat
    BY <2>2, ListFacts
  <2> QED BY <2>1, <2>3, FunctionIsList
<1>2. LineShaped(d) /\ TriggerShaped(t) /\ (d.hasRequired \/ TriggerCountsNone(t))
  BY DEF LinesShaped, LineShaped
<1>3. u = IF d.hasRequired \/ i = n THEN t ELSE tested
  BY DEF Asked
<1>4. o = IF i <= line THEN e ELSE d
  BY DEF LinesAfter
<1>5. then[i] = IF o.hasRequired \/ i = n THEN o.trigger ELSE TestTrigger(o.trigger, at).trigger
  BY <1>1 DEF Asked
<1> HIDE DEF d, u, o
<1>6. TriggerEvolves(t, u)
  BY <1>2, <1>3, TestMoves, TriggerEvolvesSelf
<1>7. e.hasRequired = d.hasRequired /\ e.parts = d.parts /\ e.trigger = u
  BY <1>2, <1>6, LineEvolves
<1> HIDE DEF e
<1>8. /\ o.hasRequired = d.hasRequired /\ o.parts = d.parts
      /\ o.trigger = t \/ (o.trigger = tested /\ u = tested /\ ~d.hasRequired /\ i # n)
  BY <1>3, <1>4, <1>7
<1>9. TriggerEvolves(t, o.trigger)
  BY <1>2, <1>6, <1>8, TriggerEvolvesSelf
<1> HIDE DEF t
<1>10. Targeted(o.trigger) = Targeted(t)
  <2>1. CASE o.trigger = t
    BY <2>1
  <2>2. CASE ~d.hasRequired
    BY <1>2, <1>9, <2>2, EvolvedCountsNone, NoneTargeted
  <2> QED BY <1>8, <2>1, <2>2
<1>11. i = n \/ (u.state = "triggered" <=> then[i].state = "triggered")
  <2>1. CASE d.hasRequired
    BY <1>3, <1>5, <1>8, <2>1
  <2>2. CASE ~d.hasRequired /\ i # n
    <3>1. u = tested /\ then[i] = TestTrigger(o.trigger, at).trigger
      BY <1>3, <1>5, <1>8, <2>2
    <3>2. TriggersAgree(t, o.trigger) /\ TriggerShaped(o.trigger)
      BY <1>2, <1>9, <2>2, EvolvedAgrees, EvolvedTriggerShaped
    <3>3. tested.state = "triggered" <=> Met(t, at)
      BY <1>2, TestMet
    <3>4. TestTrigger(o.trigger, at).trigger.state = "triggered" <=> Met(o.trigger, at)
      BY <3>2, TestMet
    <3> HIDE DEF tested
    <3> QED BY <3>1, <3>2, <3>3, <3>4, MetAgrees
  <2> QED BY <2>1, <2>2
<1> QED BY <1>1, <1>8, <1>10, <1>11 DEF d, o, u, t

(* The line shown is one of the lines. *)
LEMMA ShownIsLine ==
  ASSUME NEW lines, LinesShaped(lines), lines # <<>>, NEW at, NEW now, now = Asked(lines, at)
  PROVE  ShownLine(now) \in DOMAIN lines
<1> DEFINE n == Len(lines)
<1>1. IsList(lines)
  BY DEF LinesShaped
<1>2. DOMAIN lines = 1..n /\ n \in Nat
  BY <1>1, ListFacts
<1>3. n # 0
  <2> SUFFICES ASSUME n = 0
               PROVE  FALSE
    OBVIOUS
  <2>1. lines = [i \in 1..0 |-> lines[i]]
    BY <1>1 DEF IsList
  <2> QED BY <2>1
<1>4. DOMAIN now = DOMAIN lines /\ now = [i \in DOMAIN now |-> now[i]]
  BY DEF Asked
<1>5. Len(now) = n
  BY <1>2, <1>4, FunctionIsList
<1>6. n \in MetLines(now) /\ MetLines(now) \subseteq 1..n
  BY <1>2, <1>3, <1>4, <1>5 DEF MetLines
<1>7. \E i \in MetLines(now) : \A j \in MetLines(now) : i <= j
  BY <1>2, <1>6, LeastIn
<1>8. ShownLine(now) \in MetLines(now)
  BY <1>7 DEF ShownLine
<1> QED BY <1>2, <1>6, <1>8

(* Asked again, rich presence shows the same line and the same text, and has counted no hit towards a target. *)
LEMMA AskedTwice ==
  ASSUME RichFits(runtime.rich), runtime.rich.displays # <<>>
  PROVE  AskedAgain(DisplayString(runtime.rich, runtime.pool.at))
<1> DEFINE rich == runtime.rich
           at == runtime.pool.at
           lines == rich.displays
           n == Len(lines)
           now == Asked(lines, at)
           line == ShownLine(now)
           once == DisplayString(rich, at)
           others == LinesAfter(lines, now, line)
           then == Asked(others, at)
           again == ShownLine(then)
           twice == DisplayString(once.rich, at)
<1>1. /\ once.text = EvaluateDisplay(lines[line].parts, rich, at)
      /\ once.rich.displays = others /\ once.rich.values = rich.values /\ DOMAIN once.rich = DOMAIN rich
  BY AskedFacts
<1>2. RichFits(once.rich)
  <2>1. RichHolds(once.rich)
    BY DescribedFits
  <2> QED BY <1>1, <2>1 DEF RichFits
<1>3. LinesShaped(lines) /\ line \in DOMAIN lines
  BY ShownIsLine DEF RichFits, RichHolds
<1>4. twice.text = EvaluateDisplay(others[again].parts, once.rich, at)
  <2> DEFINE r == once.rich
  <2>1. RichFits(r) /\ r.displays = others
    BY <1>1, <1>2
  <2> HIDE DEF r
  <2>2. DisplayString(r, at).text = EvaluateDisplay(others[again].parts, r, at)
    <3> HIDE DEF others, at
    <3> QED BY <2>1, AskedFacts
  <2> QED BY <2>2 DEF r
<1> HIDE DEF once, twice, line, now, others, then, lines, again
<1>5. ASSUME NEW i \in DOMAIN lines
      PROVE  /\ DOMAIN others = DOMAIN lines /\ Len(others) = Len(lines)
             /\ others[i].parts = lines[i].parts
             /\ Targeted(others[i].trigger) = Targeted(lines[i].trigger)
             /\ i = Len(lines) \/ (now[i].state = "triggered" <=> then[i].state = "triggered")
  BY <1>3, LineAsked DEF now, others, then
<1>6. DOMAIN others = DOMAIN lines /\ Len(others) = n
  BY <1>3, <1>5
<1>7. DOMAIN now = DOMAIN lines /\ DOMAIN then = DOMAIN lines
  BY <1>6 DEF now, then, Asked
<1>8. Len(now) = n /\ Len(then) = n
  <2>1. DOMAIN lines = 1..n /\ n \in Nat
    BY <1>3, ListFacts DEF LinesShaped
  <2>2. now = [i \in DOMAIN now |-> now[i]] /\ then = [i \in DOMAIN then |-> then[i]]
    BY DEF now, then, Asked
  <2> HIDE DEF n
  <2> QED BY <1>7, <2>1, <2>2, FunctionIsList
<1>9. MetLines(now) = MetLines(then)
  <2> HIDE DEF n
  <2>1. ASSUME NEW i \in DOMAIN lines
        PROVE  (i = n \/ now[i].state = "triggered") <=> (i = n \/ then[i].state = "triggered")
    BY <1>5 DEF n
  <2> QED BY <1>7, <1>8, <2>1 DEF MetLines
<1>10. again = line
  BY <1>9 DEF again, line, ShownLine
<1>11. once.text = twice.text
  <2>1. others[again].parts = lines[line].parts
    BY <1>3, <1>5, <1>10
  <2>2. once.text = FText!Result(rich.values, NoText, lines[line].parts).out
    BY <1>1, TextFold
  <2>3. twice.text = FText!Result(once.rich.values, NoText, others[again].parts).out
    BY <1>4, TextFold
  <2> HIDE DEF rich
  <2> QED BY <1>1, <2>1, <2>2, <2>3
<1>12. Counted(once.rich) = Counted(rich)
  <2> DEFINE r == once.rich
  <2>1. r.displays = others
    BY <1>1
  <2> HIDE DEF r, rich
  <2>2. Counted(r) = [i \in DOMAIN others |-> Targeted(others[i].trigger)]
    BY <2>1 DEF Counted, Targeted
  <2>3. Counted(rich) = [i \in DOMAIN lines |-> Targeted(lines[i].trigger)]
    BY DEF Counted, Targeted, lines
  <2> QED BY <1>5, <1>6, <2>2, <2>3 DEF r
<1> QED BY <1>11, <1>12 DEF AskedAgain, once, twice

(* AskingCountsNothing: rc_get_richpresence_display_string tests conditions to choose a line; asked again in the same
   frame it shows the same text, and no condition with a target has counted. *)
THEOREM AskingNeverCounts == Spec => []AskingCountsNothing
<1>1. IInv => AskingCountsNothing
  BY AskedTwice DEF IInv, RtFits, AskingCountsNothing
<1> QED BY <1>1, InvariantHolds, PTL
=============================================================================
