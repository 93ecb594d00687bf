------------------------------ MODULE RcMemory ------------------------------
(***************************************************************************)
(* The values the achievement runtime computes with: typed values and     *)
(* their arithmetic (value.c), memory references and what they remember   *)
(* of the previous frame (memref.c), and operands (operand.c).            *)
(*                                                                         *)
(* A float is an exact fraction num/den, den = 0 for an infinity or a NaN: *)
(* the rounding of the 24-bit mantissa is left out.  A memory reference is *)
(* the record that says what it reads, so two requests for the same        *)
(* reading are the same reference, as rc_alloc_memref makes them.          *)
(***************************************************************************)
EXTENDS Integers, Sequences, SequencesExt

CONSTANTS Word,             \* how many values a uint32_t has
          SaturatingCasts,  \* whether an out-of-range float to integer cast saturates (arm64) or wraps (x86-64)
          Precision         \* floats within 1/Precision of each other compare equal; FLT_EPSILON in the code

ASSUME WordAssumption == Word \in Nat /\ Word > 1 /\ Word % 2 = 0
ASSUME FloatAssumption == SaturatingCasts \in BOOLEAN /\ Precision \in Nat \ {0}

-----------------------------------------------------------------------------
(* Typed values *)

Typed(type, num, den) == [type |-> type, num |-> num, den |-> den]
Unsigned(n) == Typed("unsigned", n % Word, 1)
Signed(n)   == Typed("signed", ((n + Word \div 2) % Word) - Word \div 2, 1)
NoValue     == Typed("none", 0, 1)

\* the greatest common divisor, for keeping fractions in lowest terms
GCD[a, b \in Nat] == IF b = 0 THEN a ELSE GCD[b, a % b]
AbsInt(n) == IF n < 0 THEN -n ELSE n
Reduced(n, d, g) == Typed("float", IF g = 0 THEN 0 ELSE n \div g, IF g = 0 THEN 0 ELSE d \div g)
Float(n, d) ==
    LET s == IF d < 0 THEN -1 ELSE 1
    IN  Reduced(s * n, s * d, GCD[AbsInt(n), AbsInt(d)])

\* C's division rounds towards zero, and so does a cast from float
DivC(n, d) == IF (n < 0) = (d < 0) THEN AbsInt(n) \div AbsInt(d) ELSE -(AbsInt(n) \div AbsInt(d))
ModC(n, d) == n - d * DivC(n, d)

Clamp(n, lo, hi) == IF n < lo THEN lo ELSE IF n > hi THEN hi ELSE n

Integer(type, n) == IF type = "unsigned" THEN Unsigned(n) ELSE Signed(n)
Fit(type, n) ==
    IF type = "unsigned" THEN Clamp(n, 0, Word - 1) ELSE Clamp(n, -(Word \div 2), Word \div 2 - 1)
Whole(v) == IF v.den = 0 THEN 0 ELSE DivC(v.num, v.den)

\* rc_typed_value_convert
Convert(v, type) ==
    CASE v.type = type     -> v
      [] type = "none"     -> [v EXCEPT !.type = "none"]
      [] v.type = "none"   -> Typed(type, 0, 1)
      [] type = "float"    -> Typed("float", v.num, 1)
      [] v.type = "float" /\ SaturatingCasts -> Typed(type, Fit(type, Whole(v)), 1)
      [] OTHER             -> Integer(type, Whole(v))

\* rc_typed_value_negate
Negate(v) ==
    CASE v.type \in {"unsigned", "signed"} -> Signed(-(Convert(v, "signed").num))
      [] v.type = "float"                  -> [v EXCEPT !.num = -v.num]
      [] OTHER                             -> v

\* what adding, multiplying, dividing share: a float on either side makes both floats, else the left side's type wins
Arithmetic(a, b, floats(_, _), integers(_, _)) ==
    IF "float" \in {a.type, b.type} THEN floats(Convert(a, "float"), Convert(b, "float"))
    ELSE Integer(a.type, integers(a.num, Convert(b, a.type).num))
Valueless(a) == [a EXCEPT !.type = "none"]

\* rc_typed_value_add
Add(a, b) ==
    IF a.type = "none" THEN b
    ELSE Arithmetic(a, b, LAMBDA x, y : Float(x.num * y.den + y.num * x.den, x.den * y.den), LAMBDA m, n : m + n)

\* rc_typed_value_multiply
Multiply(a, b) ==
    IF "none" \in {a.type, b.type} THEN Valueless(a)
    ELSE Arithmetic(a, b, LAMBDA x, y : Float(x.num * y.num, x.den * y.den), LAMBDA m, n : m * n)

IsZero(v) == v.num = 0 /\ v.den # 0
IsNaN(v)  == v.num = 0 /\ v.den = 0

\* rc_typed_value_divide: a division by zero has no value
Divide(a, b) ==
    CASE b.type = "none" \/ IsZero(b) -> Valueless(a)
      [] a.type = "none" /\ b.type # "float" -> a
      [] OTHER -> Arithmetic(a, b, LAMBDA x, y : Float(x.num * y.den, x.den * y.num), DivC)

ModFloats(a, b) ==
    IF a.den = 0 \/ b.den = 0 THEN Float(0, 0)
    ELSE Float(ModC(a.num * b.den, b.num * a.den), a.den * b.den)

\* rc_typed_value_modulus
Modulus(a, b) ==
    CASE b.type = "none" \/ IsZero(b) -> Valueless(a)
      [] a.type = "none" /\ b.type # "float" -> a
      [] OTHER -> Arithmetic(a, b, ModFloats, ModC)

\* the & and ^ of two words, a bit at a time
AndBits[m, n \in Nat] == IF m = 0 \/ n = 0 THEN 0 ELSE 2 * AndBits[m \div 2, n \div 2] + ((m % 2) * (n % 2))
XorBits[m, n \in Nat] == IF m = 0 \/ n = 0 THEN m + n ELSE 2 * XorBits[m \div 2, n \div 2] + ((m + n) % 2)

\* rc_typed_value_combine
Combine(a, b, oper) ==
    LET bits(table) == Unsigned(table[Convert(a, "unsigned").num, Convert(b, "unsigned").num])
    IN  CASE oper = "*" -> Multiply(a, b)
          [] oper = "/" -> Divide(a, b)
          [] oper = "&" -> bits(AndBits)
          [] oper = "^" -> bits(XorBits)
          [] oper = "%" -> Modulus(a, b)
          [] oper \in {"+", "-"} -> Add(a, IF oper = "-" THEN Negate(b) ELSE b)
          [] OTHER      -> a

\* rc_test_condition_compare: an operator that compares nothing is true
CompareInts(a, b, oper) ==
    CASE oper = "="  -> a = b
      [] oper = "!=" -> a # b
      [] oper = "<"  -> a < b
      [] oper = "<=" -> a <= b
      [] oper = ">"  -> a > b
      [] oper = ">=" -> a >= b
      [] OTHER       -> TRUE

\* rc_typed_value_compare_floats: nearly equal floats are equal
CompareFloats(a, b, oper) ==
    LET diff  == IF a.den = 0 /\ b.den = 0 THEN a.num - b.num ELSE a.num * b.den - b.num * a.den
        least == IF AbsInt(a.num) * b.den < AbsInt(b.num) * a.den
                 THEN AbsInt(a.num) * b.den ELSE AbsInt(b.num) * a.den
    IN  CASE IsNaN(a) \/ IsNaN(b) -> oper \in {"!=", "<", "<="}
          [] AbsInt(diff) * Precision <= least -> oper \in {"=", ">=", "<="}
          [] diff > 0 -> oper \in {"!=", ">", ">="}
          [] OTHER    -> oper \in {"!=", "<", "<="}

\* rc_typed_value_compare: a float on either side makes both floats, else the left side's sign decides
Compare(a, b, oper) ==
    CASE "float" \in {a.type, b.type} -> CompareFloats(Convert(a, "float"), Convert(b, "float"), oper)
      [] a.type \in {"unsigned", "signed"} -> CompareInts(a.num, Convert(b, a.type).num, oper)
      [] OTHER -> TRUE

-----------------------------------------------------------------------------
(* Reading memory *)

BitSize == [bit0 |-> 0, bit1 |-> 1, bit2 |-> 2, bit3 |-> 3, bit4 |-> 4, bit5 |-> 5, bit6 |-> 6, bit7 |-> 7]
ByteSizes  == {"8", "low", "high", "bitcount"} \cup DOMAIN BitSize
FloatSizes == {"float", "floatbe", "double32", "double32be", "mbf32", "mbf32le"}

\* rc_memref_shared_size: sub-byte sizes share the byte, the others the little-endian word
SharedSize(size) ==
    CASE size \in ByteSizes        -> "8"
      [] size \in {"16", "16be"}   -> "16"
      [] OTHER                     -> "32"

\* rc_memref_masks: the part of the shared reading the size keeps, in place
Masked(v, size) ==
    CASE size = "low"              -> v % 16
      [] size = "high"             -> (v % 256) - (v % 16)
      [] size \in DOMAIN BitSize   -> ((v \div 2^BitSize[size]) % 2) * 2^BitSize[size]
      [] size \in {"8", "bitcount"} -> v % 256
      [] size \in {"16", "16be"}   -> v % 65536
      [] size \in {"24", "24be"}   -> v % 16777216
      [] OTHER                     -> v

SameMask(s, t) ==
    LET kind(z) == CASE z = "bitcount" -> "8" [] z = "16be" -> "16" [] z = "24be" -> "24"
                     [] z \in FloatSizes \cup {"32be", "variable"} -> "32" [] OTHER -> z
    IN  kind(s) = kind(t)

\* the peek function a host gives the runtime: n bytes, little-endian, zero where there is no memory
Peek(memory, address, n) ==
    FoldLeft(LAMBDA acc, i : acc * 256 + (IF address + n - i \in DOMAIN memory THEN memory[address + n - i] ELSE 0),
             0, [i \in 1..n |-> i])

\* rc_peek_value
PeekValue(address, size, memory) ==
    LET shared == SharedSize(size)
        v == Peek(memory, address, CASE shared = "8" -> 1 [] shared = "16" -> 2 [] OTHER -> 4)
    IN  IF size \in {"8", "16", "32"} THEN v ELSE Masked(v, size)

Bits(v, lo, n) == (v \div 2^lo) % 2^n
BytesOf(v)     == [i \in 0..3 |-> Bits(v, 8 * i, 8)]
SwapBytes(v, n) == LET b == BytesOf(v) IN
    FoldLeft(LAMBDA acc, i : acc * 256 + b[i - 1], 0, [i \in 1..n |-> i])

\* rc_build_float: a mantissa of 23 bits after an implied one, which a denormal lacks
BuildFloat(mantissa, exponent, negative) ==
    LET s == IF negative THEN -1 ELSE 1
        ratio == CASE exponent > 127   -> <<IF mantissa = 0 THEN s ELSE 0, 0>>
                   [] exponent >= 23   -> <<s * (mantissa + 2^23) * 2^(exponent - 23), 1>>
                   [] exponent = -127  -> <<s * mantissa, 2^149>>
                   [] exponent < -149  -> <<0, 1>>   \* rounds to zero as a float
                   [] OTHER            -> <<s * (mantissa + 2^23), 2^(23 - exponent)>>
    IN  Float(ratio[1], ratio[2])

\* where each format keeps its mantissa, its exponent and its sign
FloatFormat(size) ==
    CASE size \in {"float", "floatbe"}       -> [mantissa |-> 23, exponent |-> 8, at |-> 23, bias |-> 127, sign |-> 31]
      [] size \in {"double32", "double32be"} -> [mantissa |-> 20, exponent |-> 11, at |-> 20, bias |-> 1023, sign |-> 31]
      [] OTHER                               -> [mantissa |-> 23, exponent |-> 8, at |-> 24, bias |-> 129, sign |-> 23]

DecodeWord(word, f) ==
    LET mantissa == Bits(word, 0, f.mantissa)
        exponent == Bits(word, f.at, f.exponent)
    IN  IF f.sign = 23 /\ mantissa = 0 /\ exponent = 0 THEN Float(0, 1)
        ELSE BuildFloat(mantissa * 2^(23 - f.mantissa), exponent - f.bias, Bits(word, f.sign, 1) = 1)

\* rc_transform_memref_float and its five siblings
DecodeFloat(v, size) ==
    DecodeWord(IF size \in {"floatbe", "double32be", "mbf32"} THEN SwapBytes(v, 4) ELSE v, FloatFormat(size))

\* rc_transform_memref_value
TransformMemrefValue(v, size) ==
    LET n == v.num
        popcount(nibble) == Bits(nibble, 0, 1) + Bits(nibble, 1, 1) + Bits(nibble, 2, 1) + Bits(nibble, 3, 1)
    IN  CASE v.type = "float"            -> v
          [] size \in {"8", "16", "24"}  -> [v EXCEPT !.num = Masked(n, size)]
          [] size \in DOMAIN BitSize     -> [v EXCEPT !.num = Bits(n, BitSize[size], 1)]
          [] size = "low"                -> [v EXCEPT !.num = Bits(n, 0, 4)]
          [] size = "high"               -> [v EXCEPT !.num = Bits(n, 4, 4)]
          [] size = "bitcount"           -> [v EXCEPT !.num = popcount(Bits(n, 0, 4)) + popcount(Bits(n, 4, 4))]
          [] size = "16be"               -> [v EXCEPT !.num = SwapBytes(n, 2)]
          [] size = "24be"               -> [v EXCEPT !.num = SwapBytes(n, 3)]
          [] size = "32be"               -> [v EXCEPT !.num = SwapBytes(n, 4)]
          [] size \in FloatSizes         -> DecodeFloat(n, size)
          [] OTHER                       -> v

-----------------------------------------------------------------------------
(* Operands.  "access" is how a recalled operand reads its reference;      *)
(* "combining" marks an operand that an AddSource chain was folded into.   *)

NoRef == [kind |-> "none"]
Operand(type, size, ref, num, den) ==
    [type |-> type, size |-> size, ref |-> ref, num |-> num, den |-> den, access |-> type, combining |-> FALSE]
Const(n)         == [Operand("const", "32", NoRef, n % Word, 1) EXCEPT !.access = "none"]
FloatConst(n, d) == [Operand("fp", "float", NoRef, n, d) EXCEPT !.access = "none"]
NoOperand        == Operand("none", "32", NoRef, 0, 1)

IsMemrefType(type) == type \notin {"const", "fp", "func", "recall"}
IsMemref(op) == IsMemrefType(op.type)
IsModifying(oper) == oper \in {"&", "^", "/", "*", "%", "+", "-", "none"}

\* rc_operand_is_float, with rc_operand_is_float_memref: a combined reference has its own size
IsFloat(op) ==
    \/ op.type = "fp"
    \/ op.type = "recall" /\ op.size \in FloatSizes
    \/ /\ IsMemref(op)
       /\ IF op.ref.kind = "modified" /\ op.ref.oper # "indirect"
          THEN op.ref.size \in FloatSizes ELSE op.size \in FloatSizes

\* rc_operands_are_equal: which operands rc_alloc_modified_memref takes for the same
OperandsAreEqual(l, r) ==
    /\ l.type = r.type
    /\ CASE l.type \in {"const", "fp"} -> l.num = r.num /\ l.den = r.den
         [] l.type = "recall"          -> l.ref = r.ref /\ l.num = r.num
         [] OTHER                      -> l.size = r.size /\ l.ref = r.ref

-----------------------------------------------------------------------------
(* The pool of memory references: the plain ones and those computed from   *)
(* others, each list in the order it is updated in, and what each cell     *)
(* holds now and held before its last change.                              *)

Zero == <<0, 1>>
Cell(type) == [type |-> type, value |-> Zero, prior |-> Zero, changed |-> FALSE]
EmptyPool == [plain |-> <<>>, modified |-> <<>>, at |-> <<>>]

PlainRef(address, size) == [kind |-> "memref", address |-> address, size |-> size]
ModifiedRef(size, parent, oper, modifier) ==
    [kind |-> "modified", size |-> size, parent |-> parent, oper |-> oper, modifier |-> modifier]

\* rc_alloc_memref: found in the pool, or added to it
AllocMemref(pool, ref) ==
    IF ref \in DOMAIN pool.at THEN pool
    ELSE [pool EXCEPT !.plain = Append(@, ref), !.at = @ @@ (ref :> Cell("unsigned"))]

\* Mutant: the newest computed reference is put first
AllocModifiedFirst(pool, size, parent, oper, modifier) ==
    LET ref == ModifiedRef(size, parent, oper, modifier)
    IN  IF ref \in ToSet(pool.modified) THEN [ref |-> ref, pool |-> pool]
        ELSE [ref |-> ref, pool |-> [pool EXCEPT !.modified = <<ref>> \o @, !.at = @ @@ (ref :> Cell("unsigned"))]]

\* rc_alloc_modified_memref: the reference found or added, and the pool it is in
AllocModified(pool, size, parent, oper, modifier) ==
    LET same(r) == /\ r.size = size /\ r.oper = oper
                   /\ OperandsAreEqual(r.parent, parent) /\ OperandsAreEqual(r.modifier, modifier)
        found == SelectInSeq(pool.modified, same)
        ref == ModifiedRef(size, parent, oper, modifier)
    IN  IF found # 0 THEN [ref |-> pool.modified[found], pool |-> pool]
        ELSE [ref |-> ref,
              pool |-> [pool EXCEPT !.modified = Append(@, ref),
                                    !.at = @ @@ (ref :> Cell(IF size \in FloatSizes THEN "float" ELSE "unsigned"))]]

\* rc_update_memref_value: the prior value is the one before the last change
UpdateCell(cell, v) ==
    IF cell.value = v THEN [cell EXCEPT !.changed = FALSE]
    ELSE [cell EXCEPT !.prior = cell.value, !.value = v, !.changed = TRUE]

\* rc_get_memref_value: a delta is the prior value only in the frame of the change
CellValue(cell, access) ==
    LET raw == CASE access = "prior" -> cell.prior
                 [] access = "delta" /\ cell.changed -> cell.prior
                 [] OTHER -> cell.value
    IN  Typed(cell.type, raw[1], raw[2])

Digits(v, n) == FoldLeft(LAMBDA acc, i : acc * 10 + Bits(v, 4 * (n - i), 4), 0, [i \in 1..n |-> i])
Ones(n) == 2^n - 1

\* rc_transform_operand_value: a binary coded decimal, or the bits inverted
TransformOperandValue(n, op) ==
    LET bytes == CASE op.size = "8" -> 1 [] op.size \in {"16", "16be"} -> 2 [] op.size \in {"24", "24be"} -> 3
                   [] op.size \in {"32", "32be", "variable"} -> 4 [] OTHER -> 0
    IN  CASE op.type = "bcd" /\ bytes > 0 -> Digits(n, 2 * bytes)
          [] op.type = "inverted" /\ op.size \in {"low", "high"} -> XorBits[n, Ones(4)]
          [] op.type = "inverted" /\ bytes = 4 -> Word - 1 - n
          [] op.type = "inverted" -> XorBits[n, IF bytes = 0 THEN 1 ELSE Ones(8 * bytes)]
          [] OTHER -> n

\* rc_evaluate_operand
ReadOperand(op, read) ==
    IF read.type = "unsigned" THEN [read EXCEPT !.num = TransformOperandValue(@, op)] ELSE read
EvaluateOperand(op, at) ==
    LET access == IF op.type = "recall" THEN op.access ELSE op.type
    IN  CASE access = "const" -> Unsigned(op.num)
          [] access = "fp"    -> Float(op.num, op.den)
          [] access = "func" \/ op.ref = NoRef -> Unsigned(0)
          [] OTHER -> ReadOperand(op, TransformMemrefValue(CellValue(at[op.ref], access), op.size))

\* what a computed reference makes of its parent and its modifier
SubtractFrom(parent, modifier) == Add(Negate(parent), modifier)
CombineParent(oper, parent, modifier) ==
    CASE oper = "sub_parent"      -> SubtractFrom(parent, modifier)
      [] oper = "sub_accumulator" -> Add(parent, Convert(Negate(modifier), parent.type))
      [] oper = "add_accumulator" -> Add(parent, Convert(modifier, parent.type))
      [] OTHER                    -> Combine(parent, modifier, oper)
ModifiedValue(ref, type, parent, modifier, memory) ==
    IF ref.oper = "indirect"
    THEN Typed(type, PeekValue(Convert(Add(parent, modifier), "unsigned").num, ref.size, memory), 1)
    ELSE Convert(CombineParent(ref.oper, parent, modifier), type)

\* rc_get_modified_memref_value: what a computed reference holds, from the cells it is computed from
Ratio(v) == <<v.num, v.den>>
GetModifiedValue(ref, at, memory) ==
    Ratio(ModifiedValue(ref, at[ref].type, EvaluateOperand(ref.parent, at), EvaluateOperand(ref.modifier, at), memory))

\* rc_update_memref_values: the plain references, then the computed ones in order; an invalid one is left alone
UpdateMemrefValues(pool, memory) ==
    LET plain(at, ref) ==
            IF at[ref].type = "none" THEN at
            ELSE [at EXCEPT ![ref] = UpdateCell(@, <<PeekValue(ref.address, ref.size, memory), 1>>)]
        computed(at, ref) == [at EXCEPT ![ref] = UpdateCell(@, GetModifiedValue(ref, at, memory))]
    IN  [pool EXCEPT !.at = FoldLeft(computed, FoldLeft(plain, pool.at, pool.plain), pool.modified)]
=============================================================================
