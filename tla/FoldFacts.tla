------------------------------ MODULE FoldFacts ------------------------------
(***************************************************************************)
(* What a left fold keeps, for any operator: Op(c, a, x) is the fold's     *)
(* next value after a when x comes, in a context c, and Holds(c, b, k, a)  *)
(* what is claimed of the value a after the first k items, b the first     *)
(* value.  Result is the value of FoldLeft, spelled out as its definition  *)
(* in SequencesExt is; a module with a fold of its own instantiates this   *)
(* one with the fold's step, and finds the two equal by their definitions. *)
(***************************************************************************)
EXTENDS Integers

CONSTANTS Op(_, _, _), Holds(_, _, _, _)

Greatest(S) == CHOOSE x \in S : \A y \in S : x >= y
Table(c, base, items) ==
    CHOOSE g : g = [s \in SUBSET DOMAIN items |->
                        IF s = {} THEN base ELSE Op(c, g[s \ {Greatest(s)}], items[Greatest(s)])]
Result(c, base, items) == Table(c, base, items)[DOMAIN items]

\* the table of a fold over the first n items
Filled(g, c, base, items, n) ==
    \A s \in SUBSET (1..n) :
        g[s] = IF s = {} THEN base ELSE Op(c, g[s \ {Greatest(s)}], items[Greatest(s)])

-----------------------------------------------------------------------------

(* The last of the first n + 1 numbers is their greatest. *)
LEMMA GreatestOfFirst ==
  ASSUME NEW n \in Nat, NEW s \in SUBSET (1..(n + 1)), n + 1 \in s
  PROVE  Greatest(s) = n + 1
<1>1. \A y \in s : n + 1 >= y
  OBVIOUS
<1>2. ASSUME NEW x \in s, \A y \in s : x >= y
      PROVE  x = n + 1
  BY <1>1, <1>2
<1> QED BY <1>1, <1>2 DEF Greatest

(* There is a table of a fold over any number of items. *)
LEMMA TableExists ==
  ASSUME NEW c, NEW base, NEW items, NEW n \in Nat,
         \A S \in SUBSET Nat : 0 \in S /\ (\A m \in Nat : m \in S => m + 1 \in S) => S = Nat
  PROVE  \E g : Filled(g, c, base, items, n)
<1> DEFINE N == {m \in Nat : \E g : Filled(g, c, base, items, m)}
<1>1. 0 \in N
  <2> DEFINE g == [s \in SUBSET (1..0) |-> base]
  <2>1. \A s \in SUBSET (1..0) : s = {} /\ g[s] = base
    OBVIOUS
  <2>2. Filled(g, c, base, items, 0)
    BY <2>1 DEF Filled
  <2> QED BY <2>2
<1>2. ASSUME NEW m \in Nat, m \in N
      PROVE  m + 1 \in N
  <2>1. PICK g : Filled(g, c, base, items, m)
    BY <1>2
  <2> DEFINE h == [s \in SUBSET (1..(m + 1)) |->
                      IF m + 1 \in s THEN Op(c, g[s \ {m + 1}], items[m + 1]) ELSE g[s]]
  <2>2. \A s \in SUBSET (1..(m + 1)) : m + 1 \notin s => s \in SUBSET (1..m) /\ h[s] = g[s]
    OBVIOUS
  <2>3. ASSUME NEW s \in SUBSET (1..(m + 1))
        PROVE  h[s] = IF s = {} THEN base ELSE Op(c, h[s \ {Greatest(s)}], items[Greatest(s)])
    <3>1. CASE m + 1 \in s
      <4>1. Greatest(s) = m + 1
        BY <3>1, GreatestOfFirst
      <4>2. s \ {m + 1} \in SUBSET (1..(m + 1)) /\ m + 1 \notin s \ {m + 1}
        OBVIOUS
      <4>3. h[s \ {m + 1}] = g[s \ {m + 1}]
        BY <2>2, <4>2
      <4>4. h[s] = Op(c, g[s \ {m + 1}], items[m + 1])
        BY <3>1
      <4> HIDE DEF h
      <4> QED BY <3>1, <4>1, <4>3, <4>4
    <3>2. CASE m + 1 \notin s
      <4>1. s \in SUBSET (1..m) /\ h[s] = g[s]
        BY <2>2, <3>2
      <4>2. s \ {Greatest(s)} \in SUBSET (1..(m + 1)) /\ m + 1 \notin s \ {Greatest(s)}
        BY <3>2
      <4>3. h[s \ {Greatest(s)}] = g[s \ {Greatest(s)}]
        BY <2>2, <4>2
      <4> HIDE DEF h
      <4> QED BY <2>1, <4>1, <4>3 DEF Filled
    <3> QED BY <3>1, <3>2
  <2>4. Filled(h, c, base, items, m + 1)
    BY <2>3 DEF Filled
  <2> QED BY <2>4
<1>3. N = Nat
  <2> HIDE DEF N
  <2>1. N \in SUBSET Nat
    BY DEF N
  <2> QED BY <1>1, <1>2, <2>1
<1> QED BY <1>3

(* The table of a fold is filled as its definition says. *)
LEMMA TableFilled ==
  ASSUME NEW c, NEW base, NEW items, NEW n \in Nat, DOMAIN items = 1..n,
         \A S \in SUBSET Nat : 0 \in S /\ (\A m \in Nat : m \in S => m + 1 \in S) => S = Nat
  PROVE  Filled(Table(c, base, items), c, base, items, n)
<1>1. PICK g : Filled(g, c, base, items, n)
  BY TableExists
<1> DEFINE h == [s \in SUBSET DOMAIN items |-> g[s]]
<1>2. \A s \in SUBSET DOMAIN items : h[s] = g[s] /\ s \ {Greatest(s)} \in SUBSET DOMAIN items
  OBVIOUS
<1>3. \A s \in SUBSET DOMAIN items :
        h[s] = IF s = {} THEN base ELSE Op(c, h[s \ {Greatest(s)}], items[Greatest(s)])
  <2> HIDE DEF h
  <2> QED BY <1>1, <1>2 DEF Filled
<1>4. h = [s \in SUBSET DOMAIN items |->
             IF s = {} THEN base ELSE Op(c, h[s \ {Greatest(s)}], items[Greatest(s)])]
  <2>1. h = [s \in SUBSET DOMAIN items |-> h[s]]
    OBVIOUS
  <2> HIDE DEF h
  <2> QED BY <1>3, <2>1
<1> HIDE DEF h
<1>5. Table(c, base, items) = [s \in SUBSET DOMAIN items |->
        IF s = {} THEN base ELSE Op(c, Table(c, base, items)[s \ {Greatest(s)}], items[Greatest(s)])]
  BY <1>4 DEF Table
<1> QED BY <1>5 DEF Filled

(* What holds of a fold's first value and passes with every item holds of its result. *)
THEOREM FoldKeeps ==
  ASSUME NEW c, NEW base, NEW items, NEW n \in Nat, DOMAIN items = 1..n,
         Holds(c, base, 0, base),
         \A k \in 1..n : \A a : Holds(c, base, k - 1, a) => Holds(c, base, k, Op(c, a, items[k])),
         \A S \in SUBSET Nat : 0 \in S /\ (\A m \in Nat : m \in S => m + 1 \in S) => S = Nat
  PROVE  Holds(c, base, n, Result(c, base, items))
<1> DEFINE t == Table(c, base, items)
<1>1. Filled(t, c, base, items, n)
  BY TableFilled
<1> HIDE DEF t
<1> DEFINE N == {m \in Nat : m <= n => Holds(c, base, m, t[1..m])}
<1>2. 0 \in N
  <2>1. 1..0 = {} /\ {} \in SUBSET (1..n)
    OBVIOUS
  <2>2. t[1..0] = base
    BY <1>1, <2>1 DEF Filled
  <2> QED BY <2>2
<1>3. ASSUME NEW m \in Nat, m \in N
      PROVE  m + 1 \in N
  <2>1. SUFFICES ASSUME m + 1 <= n PROVE Holds(c, base, m + 1, t[1..(m + 1)])
    OBVIOUS
  <2>2. Holds(c, base, m, t[1..m])
    BY <1>3, <2>1
  <2>3. 1..(m + 1) \in SUBSET (1..n) /\ 1..(m + 1) # {} /\ m + 1 \in 1..(m + 1)
    BY <2>1
  <2>4. Greatest(1..(m + 1)) = m + 1
    BY <2>3, GreatestOfFirst
  <2>5. (1..(m + 1)) \ {m + 1} = 1..m
    OBVIOUS
  <2>6. t[1..(m + 1)] = Op(c, t[1..m], items[m + 1])
    BY ONLY <1>1, <2>3, <2>4, <2>5 DEF Filled
  <2>7. m + 1 \in 1..n /\ (m + 1) - 1 = m
    BY <2>1
  <2> QED BY <2>2, <2>6, <2>7
<1>4. N = Nat
  <2> HIDE DEF N
  <2>1. N \in SUBSET Nat
    BY DEF N
  <2> QED BY <1>2, <1>3, <2>1
<1>5. Holds(c, base, n, t[1..n])
  BY <1>4
<1> QED BY <1>5 DEF Result, t

(* The values a fold goes through, from its first to its result. *)
THEOREM FoldPrefixes ==
  ASSUME NEW c, NEW base, NEW items, NEW n \in Nat, DOMAIN items = 1..n,
         \A S \in SUBSET Nat : 0 \in S /\ (\A m \in Nat : m \in S => m + 1 \in S) => S = Nat
  PROVE  \E p : /\ p[0] = base
                /\ \A k \in 1..n : p[k] = Op(c, p[k - 1], items[k])
                /\ Result(c, base, items) = p[n]
<1> DEFINE t == Table(c, base, items)
<1>1. Filled(t, c, base, items, n)
  BY TableFilled
<1>2. Result(c, base, items) = t[1..n]
  BY DEF Result
<1> HIDE DEF t
<1> DEFINE p == [k \in 0..n |-> t[1..k]]
<1>3. p[0] = base
  <2>1. 1..0 = {} /\ {} \in SUBSET (1..n)
    OBVIOUS
  <2>2. t[1..0] = base
    BY <1>1, <2>1 DEF Filled
  <2> QED BY <2>2
<1>4. ASSUME NEW k \in 1..n
      PROVE  p[k] = Op(c, p[k - 1], items[k])
  <2>1. k - 1 \in Nat /\ (k - 1) + 1 = k /\ k - 1 \in 0..n /\ k \in 0..n
    OBVIOUS
  <2>2. 1..k \in SUBSET (1..n) /\ 1..k # {} /\ k \in 1..k
    <3>1. k \in Nat /\ k <= n /\ 1 <= k
      OBVIOUS
    <3> QED BY ONLY <3>1, n \in Nat
  <2>3. Greatest(1..k) = k
    BY <2>1, <2>2, GreatestOfFirst
  <2>4. (1..k) \ {k} = 1..(k - 1)
    OBVIOUS
  <2>5. t[1..k] = Op(c, t[1..(k - 1)], items[k])
    BY ONLY <1>1, <2>2, <2>3, <2>4 DEF Filled
  <2>6. p[k] = t[1..k] /\ p[k - 1] = t[1..(k - 1)]
    BY <2>1
  <2> QED BY <2>5, <2>6
<1>5. p[n] = t[1..n]
  OBVIOUS
<1> HIDE DEF p
<1> QED BY <1>2, <1>3, <1>4, <1>5
=============================================================================
