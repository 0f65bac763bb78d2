----------------------------- MODULE Recursion -----------------------------
(***************************************************************************)
(* Induction over the natural numbers, and the functions that recursion on  *)
(* 0..N defines.  Sets stand for the properties: S is what has been shown.  *)
(* Last, what a stack is without its top, and measures that fall.          *)
(***************************************************************************)
EXTENDS Integers, FiniteSetTheorems, SequenceTheorems, WellFoundedInduction, TLAPS

\* Every non-empty set of natural numbers has a least element: the intervals
\* 1..n are finite sets, which strict inclusion orders well.
LEMMA Least ==
  ASSUME NEW T \in SUBSET Nat, T # {}
  PROVE  \E m \in T : \A n \in T : m <= n
<1> DEFINE F == {1..n : n \in T}
           R == StrictSubsetOrdering(Nat)
<1>1. IsWellFoundedOn(R, FiniteSubsetsOf(Nat))
  BY FS_StrictSubsetOrderingWellFounded
<1>2. F \subseteq FiniteSubsetsOf(Nat)
  BY FS_Interval DEF FiniteSubsetsOf
<1>3. F # {}
  OBVIOUS
<1> HIDE DEF R
<1>4. PICK x \in F : \A y \in F : ~ (<<y, x>> \in R)
  <2> HIDE DEF F
  <2> QED BY <1>1, <1>2, <1>3, WFMin
<1>5. PICK m \in T : x = 1..m
  OBVIOUS
<1>6. ASSUME NEW n \in T, n < m PROVE FALSE
  <2>1. 1..n \in F /\ 1..n \subseteq 1..m /\ 1..n # 1..m
    <3>1. m \in 1..m /\ m \notin 1..n
      BY <1>6
    <3> QED BY <1>6, <3>1
  <2>2. <<1..n, x>> \in R
    BY <2>1, <1>2, <1>5 DEF R, StrictSubsetOrdering
  <2> QED BY <2>1, <2>2, <1>4
<1> QED BY <1>6

LEMMA Induction ==
  ASSUME NEW S, 0 \in S, \A n \in Nat : n \in S => n + 1 \in S
  PROVE  Nat \subseteq S
<1> SUFFICES ASSUME Nat \ S # {} PROVE FALSE
  OBVIOUS
<1>1. PICK m \in Nat \ S : \A n \in Nat \ S : m <= n
  BY Least
<1>2. m # 0 /\ m - 1 \in Nat /\ m - 1 \notin Nat \ S
  BY <1>1
<1> QED BY <1>1, <1>2

\* The same up to a bound.
LEMMA BoundedInduction ==
  ASSUME NEW N \in Nat, NEW S, 0 \in S, \A n \in 1..N : n - 1 \in S => n \in S
  PROVE  0..N \subseteq S
<1> DEFINE T == {n \in Nat : n <= N => n \in S}
<1>1. 0 \in T
  OBVIOUS
<1>2. ASSUME NEW n \in Nat, n \in T PROVE n + 1 \in T
  <2> SUFFICES ASSUME n + 1 <= N PROVE n + 1 \in S
    OBVIOUS
  <2>1. n \in S /\ n + 1 \in 1..N /\ (n + 1) - 1 = n
    BY <1>2
  <2> QED BY <2>1
<1> HIDE DEF T
<1>3. Nat \subseteq T
  BY <1>1, <1>2, Induction
<1> QED BY <1>3 DEF T

\* What recursion on 0..N defines: the value at n from the value at n - 1.
Recursive(f, N, X, a, h) ==
  f \in [0..N -> X] /\ f[0] = a /\ \A n \in 1..N : f[n] = h[n][f[n - 1]]

LEMMA RecursiveFunction ==
  ASSUME NEW N \in Nat, NEW X, NEW a \in X, NEW h \in [1..N -> [X -> X]]
  PROVE  \E f : Recursive(f, N, X, a, h)
<1> DEFINE S == {n \in 0..N : \E f : Recursive(f, n, X, a, h)}
<1>1. 0 \in S
  <2>1. Recursive([k \in 0..0 |-> a], 0, X, a, h)
    BY DEF Recursive
  <2>2. 0 \in 0..N
    OBVIOUS
  <2> QED BY <2>1, <2>2
<1>2. ASSUME NEW n \in 1..N, n - 1 \in S PROVE n \in S
  <2>1. PICK f : Recursive(f, n - 1, X, a, h)
    BY <1>2
  <2> DEFINE g == [k \in 0..n |-> IF k = n THEN h[n][f[n - 1]] ELSE f[k]]
  <2>2. g \in [0..n -> X]
    <3>1. f[n - 1] \in X /\ \A k \in 0..n : k # n => f[k] \in X
      BY <2>1 DEF Recursive
    <3> QED BY <3>1
  <2>3. g[0] = a
    BY <2>1 DEF Recursive
  <2>4. ASSUME NEW k \in 1..n PROVE g[k] = h[k][g[k - 1]]
    <3>1. g[k - 1] = f[k - 1]
      OBVIOUS
    <3>2. CASE k = n
      BY <3>1, <3>2
    <3>3. CASE k # n
      <4>1. k \in 1..(n - 1) /\ g[k] = f[k]
        BY <3>3
      <4> QED BY <2>1, <3>1, <4>1 DEF Recursive
    <3> QED BY <3>2, <3>3
  <2> HIDE DEF g
  <2>5. Recursive(g, n, X, a, h) /\ n \in 0..N
    BY <2>2, <2>3, <2>4 DEF Recursive
  <2> QED BY <2>5
<1> HIDE DEF S
<1>3. 0..N \subseteq S
  BY <1>1, <1>2, BoundedInduction
<1> QED BY <1>3 DEF S

\* A sequence without its last element.
LEMMA ShorterSeq ==
  ASSUME NEW S, NEW s \in Seq(S), Len(s) \in Nat \ {0}
  PROVE  LET b == SubSeq(s, 1, Len(s) - 1)
         IN  /\ b \in Seq(S) /\ Len(b) = Len(s) - 1
             /\ \A n \in 1..(Len(s) - 1) : b[n] = s[n]
<1>1. PICK l \in Nat \ {0} : l = Len(s)
  OBVIOUS
<1>2. \A i \in 1..(l - 1) : s[i] \in S
  BY <1>1, ElementOfSeq
<1>3. /\ 1 \in Int /\ l - 1 \in Int /\ (l - 1) - 1 + 1 = l - 1
      /\ (1 <= l - 1 => l - 1 >= 1) /\ (~(1 <= l - 1) => l - 1 = 0)
      /\ \A n \in 1..(l - 1) : 1 + n - 1 = n
  OBVIOUS
<1>4. 1..(l - 1) \subseteq 1..Len(s)
  BY <1>1
<1>5. /\ SubSeq(s, 1, l - 1) \in Seq(S)
      /\ Len(SubSeq(s, 1, l - 1)) = IF 1 <= l - 1 THEN (l - 1) - 1 + 1 ELSE 0
      /\ \A n \in 1..((l - 1) - 1 + 1) : SubSeq(s, 1, l - 1)[n] = s[1 + n - 1]
  BY <1>2, <1>3, SubSeqProperties
<1> QED BY <1>1, <1>3, <1>5

\* A finite set without one of its elements.
LEMMA OneFewer ==
  ASSUME NEW S, IsFiniteSet(S), NEW x \in S
  PROVE  Cardinality(S \ {x}) < Cardinality(S)
<1>1. Cardinality(S) \in Nat /\ Cardinality(S \ {x}) = Cardinality(S) - 1
  BY FS_RemoveElement, FS_CardinalityType
<1> QED BY <1>1

\* The lexicographic order of tuples of numbers: what a loop of loops has left to do,
\* the outermost first.
LexLess(a, b) == \E i \in DOMAIN a : a[i] < b[i] /\ \A j \in 1..(i - 1) : a[j] = b[j]

\* Tuples of numbers have a least one: of those with the least first component, of
\* those the ones with the least second, and so on.
LEMMA LeastTuple ==
  ASSUME NEW N \in Nat, NEW T \in SUBSET [1..N -> Nat], T # {}
  PROVE  \E u \in T : \A x \in T : ~LexLess(x, u)
<1> DEFINE Agree(U, n) ==
             /\ U # {} /\ U \subseteq T
             /\ \A x \in T, u \in U : (\A i \in 1..n : x[i] = u[i]) <=> x \in U
             /\ \A x \in T, u \in U : \A i \in 1..n :
                  x[i] < u[i] => \E j \in 1..(i - 1) : x[j] # u[j]
           S == {n \in 0..N : \E U : Agree(U, n)}
<1>1. 0 \in S
  <2>1. Agree(T, 0)
    OBVIOUS
  <2> HIDE DEF Agree
  <2> QED BY <2>1
<1>2. ASSUME NEW n \in 1..N, n - 1 \in S PROVE n \in S
  <2>1. PICK U : Agree(U, n - 1)
    <3> HIDE DEF Agree
    <3> QED BY <1>2
  <2>2. /\ 1..n = 1..(n - 1) \cup {n} /\ n \notin 1..(n - 1)
        /\ U \subseteq T /\ \A u \in T : u[n] \in Nat
    BY <2>1
  <2>3. /\ \A x \in T, u \in U : (\A i \in 1..(n - 1) : x[i] = u[i]) <=> x \in U
        /\ \A x \in T, u \in U : \A i \in 1..(n - 1) :
             x[i] < u[i] => \E j \in 1..(i - 1) : x[j] # u[j]
        /\ U # {}
    BY <2>1
  <2> HIDE DEF Agree
  <2> DEFINE K == {u[n] : u \in U}
  <2>4. K \in SUBSET Nat /\ K # {}
    BY <2>2, <2>3
  <2>5. PICK k \in K : \A l \in K : k <= l
    <3> HIDE DEF K
    <3> QED BY <2>4, Least
  <2> DEFINE W == {u \in U : u[n] = k}
  <2>6. W # {} /\ W \subseteq T
    BY <2>2
  <2>7. ASSUME NEW x \in T, NEW u \in W
        PROVE  (\A i \in 1..n : x[i] = u[i]) <=> x \in W
    <3>1. u \in U /\ u[n] = k
      OBVIOUS
    <3>2. (\A i \in 1..n : x[i] = u[i]) <=> (\A i \in 1..(n - 1) : x[i] = u[i]) /\ x[n] = k
      BY <2>2, <3>1
    <3> QED BY <2>3, <3>1, <3>2
  <2>8. ASSUME NEW x \in T, NEW u \in W, NEW i \in 1..n, x[i] < u[i]
        PROVE  \E j \in 1..(i - 1) : x[j] # u[j]
    <3>1. CASE i # n
      BY <2>2, <2>3, <2>8, <3>1
    <3>2. CASE i = n
      <4> SUFFICES ASSUME \A j \in 1..(n - 1) : x[j] = u[j] PROVE FALSE
        BY <3>2
      <4>1. x \in U
        BY <2>3
      <4>2. k <= x[n] /\ x[n] \in Nat /\ k \in Nat /\ u[n] = k
        BY <2>2, <2>5, <4>1
      <4> QED BY <2>8, <3>2, <4>2
    <3> QED BY <3>1, <3>2
  <2> HIDE DEF W
  <2>9. Agree(W, n)
    BY <2>6, <2>7, <2>8 DEF Agree
  <2> QED BY <2>9
<1> HIDE DEF S
<1>3. N \in S
  <2>1. 0..N \subseteq S
    BY <1>1, <1>2, BoundedInduction
  <2> QED BY <2>1
<1>4. PICK U : Agree(U, N)
  <2> HIDE DEF Agree
  <2> QED BY <1>3 DEF S
<1>5. PICK u \in T : \A x \in T : \A i \in 1..N : x[i] < u[i] => \E j \in 1..(i - 1) : x[j] # u[j]
  <2>1. PICK u : u \in U
    BY <1>4
  <2>2. u \in T
    BY <1>4, <2>1
  <2> QED BY <1>4, <2>1, <2>2
<1>6. ASSUME NEW x \in T, LexLess(x, u) PROVE FALSE
  <2>1. DOMAIN x = 1..N
    OBVIOUS
  <2> QED BY <1>5, <1>6, <2>1 DEF LexLess
<1> QED BY <1>6

\* So nothing that such a tuple measures can go on for ever (the loops of order_visit
\* and detect_cycle, and the phases around them).
THEOREM NoEndlessDescent ==
  ASSUME NEW N \in Nat, NEW f \in [Nat -> [1..N -> Nat]]
  PROVE  \E n \in Nat : ~LexLess(f[n + 1], f[n])
<1> DEFINE T == {f[n] : n \in Nat}
<1>1. T \in SUBSET [1..N -> Nat] /\ T # {}
  OBVIOUS
<1>2. PICK u \in T : \A x \in T : ~LexLess(x, u)
  BY <1>1, LeastTuple
<1>3. PICK n \in Nat : u = f[n]
  OBVIOUS
<1>4. f[n + 1] \in T
  OBVIOUS
<1> QED BY <1>2, <1>3, <1>4

\* The first place where two tuples differ decides; the measures here have five.
LEMMA LessAt ==
  ASSUME NEW a, NEW b, DOMAIN a = 1..5, NEW i \in 1..5,
         a[i] < b[i], \A j \in 1..(i - 1) : a[j] = b[j]
  PROVE  LexLess(a, b)
BY DEF LexLess
=============================================================================
