------------------------- MODULE RakefileLoadProofs -------------------------
(***************************************************************************)
(* The loader, for every Rakefile and personal layer however deep their     *)
(* tables nest, every host and every nest of shells.                       *)
(*                                                                         *)
(* LoadInv says what each phase leaves to the next: a sound document, a     *)
(* table whose targets are settled one by one, typed targets, targets and   *)
(* tools nothing can be said against.  In the search for cycles the stack   *)
(* is a path of dependencies (Walked), what is finished can be ranked       *)
(* (Sunk), and every root before `pos` is finished or at the bottom of the  *)
(* stack (RootsDone).  No fact about paths is needed: the ranking speaks of *)
(* single edges.                                                           *)
(***************************************************************************)
EXTENDS RakefileLoad, Recursion, SequenceTheorems, FiniteSetTheorems, TLAPS

-----------------------------------------------------------------------------
(* The inductive invariant: what each phase has established.               *)

Before == {"read", "local", "variants", "parse"}
Checking == {"header", "targets", "references", "cycles", "tools", "ready"}

\* The targets are typed, and validation goes on or has succeeded.
Parsed == phase \in Checking \/ verdict = "valid"
\* Every target has passed on its own.
TargetsPassed == phase \in {"references", "cycles", "tools", "ready"} \/ verdict = "valid"

PhaseOK ==
  /\ phase \in Before \cup Checking \cup {"done"}
  /\ phase \notin {"ready", "done"} => verdict = "pending"
  /\ phase = "ready" => verdict = "valid"
  /\ pos \in Nat \ {0}
  /\ phase \in {"read", "local", "parse", "header"} => pos = 1

InputsInv == InputOK([base |-> base, local |-> local, host |-> host, user |-> user])

\* A target as it is before it is typed.
Inside(v) == IF IsTable(v) THEN {v.at[k] : k \in DOMAIN v.at} ELSE {}
LeavesOK(value) == \A w \in Inside(value) : LeafOK(w)
ResolvedOK ==
  /\ resolved = Table(resolved.keys, resolved.at) /\ resolved.keys \in Seq(STRING)
  /\ resolved.at = [t \in Elements(resolved.keys) |-> resolved.at[t]]
  /\ \A t \in Elements(resolved.keys) : LeavesOK(resolved.at[t])

DocInv ==
  /\ DocumentOK(doc)
  /\ phase = "local" => base.is = "toml" /\ doc = base.value
  /\ phase = "variants" =>
       /\ base.is = "toml"
       /\ doc = IF local.is = "toml" THEN Merge(base.value, local.value) ELSE base.value
  /\ phase = "variants" /\ IsTable(Part("target")) => IsTable(resolved)
  /\ IsTable(resolved) => ResolvedOK

TargetType == [commands : Seq(CommandType), raw : Seq([skip : BOOLEAN, to : STRING]),
               tools : Seq(STRING)]
ToolsTyped ==
  /\ IsTable(Part("tool"))
  /\ \A category \in Categories :
       IsTable(Category(category)) /\ AllAre(Category(category), category)

GraphInv ==
  /\ graph = [declared |-> graph.declared, excluded |-> graph.excluded,
              dependsOn |-> graph.dependsOn, skipDeps |-> graph.skipDeps]
  /\ graph.declared \in Seq(STRING)
  /\ graph.dependsOn \in [Known -> Seq(STRING)]
  /\ graph.skipDeps \in [Known -> Seq(STRING)]
  /\ phase \in {"read", "local"} => graph.excluded = {}
  /\ Parsed => targets \in [Known -> TargetType] /\ ToolsTyped

LoadType == PhaseOK /\ InputsInv /\ DocInv /\ GraphInv

\* What resolve_platform_variants has made of t.
Settled(t) ==
  LET value == Part("target").at[t]
      here == t \in DOMAIN resolved.at
  IN /\ here <=> t \notin graph.excluded
     /\ Understood(value)
     /\ IF Variants(value) = {} THEN here /\ resolved.at[t] = value
        ELSE IF Match(value) # {} THEN here /\ \E k \in Match(value) : resolved.at[t] = value.at[k]
        ELSE IF Base(value).keys # <<>> THEN here /\ resolved.at[t] = Base(value)
        ELSE ~here

VariantsInv ==
  /\ phase = "variants" =>
       /\ \A n \in 1..Len(Names) :
            IF n < pos THEN Settled(Names[n])
            ELSE /\ Names[n] \in DOMAIN resolved.at \ graph.excluded
                 /\ resolved.at[Names[n]] = Part("target").at[Names[n]]
  /\ phase \in {"parse", "header"} => \A t \in Elements(Names) : Settled(t)
  /\ phase = "header" => IsTable(resolved) /\ \A t \in DOMAIN resolved.at : IsTable(resolved.at[t])

\* What TargetError and ToolError do not object to.
CommandSound(c) ==
  /\ GateError(c.platform, KnownOs \cup KnownFamily, "InvalidPlatform") = "none"
  /\ GateError(c.arch, KnownArch, "InvalidArch") = "none"
  /\ BodyError(c) = "none"
TargetSound(t) ==
  ~Empty(t) /\ \A n \in 1..Len(targets[t].commands) : CommandSound(targets[t].commands[n])

ToolsSound ==
  /\ \A name \in Tools("cargo") :
       /\ Tool("cargo", name).check /\ Tool("cargo", name).install
       /\ Tool("cargo", name).update => Tool("cargo", name).crate
  /\ \A name \in Tools("os") :
       Tool("os", name).check /\ name \notin Tools("cargo") \cup Tools("fish")
  /\ \A name \in Tools("fish") : name \notin Tools("cargo") \cup Tools("os")
  /\ \A t \in Known :
       /\ Elements(targets[t].tools) \subseteq AllTools
       /\ \A n \in 1..Len(targets[t].commands) :
            Elements(targets[t].commands[n].tools) \subseteq AllTools

ChecksInv ==
  /\ phase = "targets" =>
       \A n \in 1..Len(graph.declared) : n < pos => TargetSound(graph.declared[n])
  /\ TargetsPassed => \A t \in Known : TargetSound(t)
  /\ verdict = "valid" => ToolsSound

-----------------------------------------------------------------------------
(* The search.                                                             *)

Call == [node : Known, next : Nat \ {0}]

\* Finished targets have finished dependencies, further down.
Sunk ==
  \E rank \in [visited -> 1..Cardinality(visited)] :
    \A t \in visited : \A d \in Elements(Deps(t)) \cap Known : d \in visited /\ rank[d] < rank[t]

\* What a call has looked at is finished, unknown, or the call above it.
CallOK(n) ==
  LET t == stack[n].node
      next == stack[n].next
  IN /\ t \notin visited /\ next <= Len(Deps(t)) + 1
     /\ \A k \in 1..(next - 1) :
          \/ Deps(t)[k] \in visited \/ Deps(t)[k] \notin Known
          \/ n < Len(stack) /\ k = next - 1
     /\ n < Len(stack) => next > 1 /\ Deps(t)[next - 1] = stack[n + 1].node

Walked ==
  /\ stack \in Seq(Call) /\ visited \subseteq Known
  /\ \A n \in 1..Len(stack) : CallOK(n)
  /\ \A m, n \in 1..Len(stack) : stack[m].node = stack[n].node => m = n

\* Every target before `pos` has been visited or is being visited.
RootsDone ==
  \A n \in 1..Len(graph.declared) : n < pos =>
    \/ graph.declared[n] \in visited
    \/ stack # <<>> /\ n = pos - 1 /\ stack[1].node = graph.declared[n]

ReferencesOK(t) ==
  /\ \A d \in Elements(Deps(t)) \cup Elements(graph.skipDeps[t]) : d \in Known \cup graph.excluded
  /\ Elements(Deps(t)) \cap Elements(graph.skipDeps[t]) \cap Known = {}

Searching ==
  /\ phase \notin {"cycles", "tools", "ready", "done"} => stack = <<>> /\ visited = {}
  /\ phase = "references" =>
       \A n \in 1..Len(graph.declared) : n < pos => ReferencesOK(graph.declared[n])
  /\ phase = "cycles" => Walked /\ Sunk /\ RootsDone /\ ReferencesSound

SearchInv ==
  /\ Searching /\ VerdictIsExact
  /\ verdict = "valid" => Ranked /\ ReferencesSound

LoadInv == LoadType /\ VariantsInv /\ ChecksInv /\ SearchInv
-----------------------------------------------------------------------------
(* The operators of the model.                                             *)

Distinct(seq) == \A m, n \in 1..Len(seq) : seq[m] = seq[n] => m = n

\* Only keeps the members of S, each as often as it was there; it keeps all of a
\* sequence that has no others.
LEMMA OnlyShape ==
  ASSUME NEW T, NEW seq \in Seq(T), NEW S
  PROVE  /\ Only(seq, S) \in Seq(T)
         /\ Elements(Only(seq, S)) = Elements(seq) \cap S
         /\ Elements(seq) \subseteq S => Only(seq, S) = seq
         /\ Distinct(seq) => Distinct(Only(seq, S))
<1>1. PICK N \in Nat : N = Len(seq)
  BY LenProperties
<1> DEFINE X == Seq(T)
           h == [n \in 1..N |->
                   [s \in X |-> IF seq[n] \in S THEN Append(s, seq[n]) ELSE s]]
           Body(f, n) == IF n = 0 THEN <<>>
                         ELSE IF seq[n] \in S THEN Append(f[n - 1], seq[n]) ELSE f[n - 1]
<1>2. \A n \in 1..N : seq[n] \in T
  BY <1>1, ElementOfSeq
<1>3. \A s \in X, t \in T :
        /\ Append(s, t) \in X /\ Len(s) \in Nat /\ Len(Append(s, t)) = Len(s) + 1
        /\ Append(s, t)[Len(s) + 1] = t /\ \A n \in 1..Len(s) : Append(s, t)[n] = s[n]
  BY AppendProperties, LenProperties
<1>4. <<>> \in X /\ Len(<<>>) = 0
  BY EmptySeq
<1> HIDE DEF X
<1>5. h \in [1..N -> [X -> X]]
  BY <1>2, <1>3
<1>6. \E f \in [0..N -> X] : f = [n \in 0..N |-> Body(f, n)]
  <2> HIDE DEF h
  <2>1. PICK f \in [0..N -> X] : f[0] = <<>> /\ \A n \in 1..N : f[n] = h[n][f[n - 1]]
    <3>1. \E f : Recursive(f, N, X, <<>>, h)
      BY <1>4, <1>5, RecursiveFunction
    <3> QED BY <3>1 DEF Recursive
  <2>2. ASSUME NEW n \in 1..N PROVE f[n] = Body(f, n)
    <3>1. n # 0 /\ f[n - 1] \in X
      OBVIOUS
    <3>2. h[n] = [s \in X |-> IF seq[n] \in S THEN Append(s, seq[n]) ELSE s]
      BY DEF h
    <3>3. h[n][f[n - 1]] = IF seq[n] \in S THEN Append(f[n - 1], seq[n]) ELSE f[n - 1]
      BY <3>1, <3>2
    <3> QED BY <2>1, <3>1, <3>3
  <2>3. f[0] = Body(f, 0)
    BY <2>1
  <2>4. \A n \in 0..N : n = 0 \/ n \in 1..N
    OBVIOUS
  <2> HIDE DEF Body
  <2>5. \A n \in 0..N : f[n] = Body(f, n)
    BY <2>2, <2>3, <2>4
  <2> QED BY <2>5
<1> DEFINE kept == CHOOSE f : f = [n \in 0..N |-> Body(f, n)]
<1>7. kept = [n \in 0..N |-> Body(kept, n)]
  BY <1>6
<1>8. Only(seq, S) = kept[N]
  BY <1>1 DEF Only
<1> HIDE DEF kept
<1>9. /\ kept[0] = <<>>
      /\ \A n \in 1..N : kept[n] =
           IF seq[n] \in S THEN Append(kept[n - 1], seq[n]) ELSE kept[n - 1]
  <2>1. 0 \in 0..N /\ \A n \in 1..N : n \in 0..N /\ n # 0
    OBVIOUS
  <2> QED BY <1>7, <2>1
<1> DEFINE Good(n) ==
      /\ kept[n] \in X
      /\ \A i \in 1..Len(kept[n]) : \E k \in 1..n : seq[k] \in S /\ kept[n][i] = seq[k]
      /\ \A k \in 1..n : seq[k] \in S => \E i \in 1..Len(kept[n]) : kept[n][i] = seq[k]
      /\ (\A k \in 1..n : seq[k] \in S) =>
           Len(kept[n]) = n /\ \A i \in 1..n : kept[n][i] = seq[i]
      /\ Distinct(seq) => Distinct(kept[n])
           P == {n \in 0..N : Good(n)}
<1>10. 0 \in P
  <2>1. 0 \in 0..N /\ \A n : n \notin 1..0
    OBVIOUS
  <2>2. Distinct(<<>>)
    BY <1>4 DEF Distinct
  <2> QED BY <1>4, <1>9, <2>1, <2>2
<1>11. ASSUME NEW n \in 1..N, n - 1 \in P PROVE n \in P
  <2>1. n \in 0..N /\ Good(n - 1) /\ kept[n - 1] \in X
    <3>1. Good(n - 1)
      <4> HIDE DEF Good
      <4> QED BY <1>11
    <3>2. kept[n - 1] \in X
      BY <3>1
    <3> HIDE DEF Good
    <3> QED BY <3>1, <3>2
  <2>2. CASE seq[n] \notin S
    <3>1. kept[n] = kept[n - 1] /\ n \in 1..n
      BY <1>9, <2>2
    <3>2. /\ \A i \in 1..Len(kept[n]) : \E k \in 1..n : seq[k] \in S /\ kept[n][i] = seq[k]
          /\ \A k \in 1..n : seq[k] \in S => \E i \in 1..Len(kept[n]) : kept[n][i] = seq[k]
      BY <2>1, <2>2, <3>1
    <3>3. Good(n)
      BY <2>1, <2>2, <3>1, <3>2
    <3> HIDE DEF Good
    <3> QED BY <2>1, <3>3
  <2>3. CASE seq[n] \in S
    <3>1. kept[n] = Append(kept[n - 1], seq[n])
      BY <1>9, <2>3
    <3>2. PICK l \in Nat : l = Len(kept[n - 1])
      BY <1>3, <1>2, <2>1
    <3>3. /\ kept[n] \in X /\ Len(kept[n]) = l + 1 /\ kept[n][l + 1] = seq[n]
          /\ \A i \in 1..l : kept[n][i] = kept[n - 1][i]
      BY <1>2, <1>3, <2>1, <3>1, <3>2
    <3>4. ASSUME NEW i \in 1..(l + 1)
          PROVE  \E k \in 1..n : seq[k] \in S /\ kept[n][i] = seq[k]
      <4>1. CASE i \in 1..l
        <5>1. PICK k \in 1..(n - 1) : seq[k] \in S /\ kept[n - 1][i] = seq[k]
          BY <2>1, <3>2, <4>1
        <5> QED BY <3>3, <4>1, <5>1
      <4>2. CASE i = l + 1
        BY <2>3, <3>3, <4>2
      <4> QED BY <4>1, <4>2
    <3>5. ASSUME NEW k \in 1..n, seq[k] \in S
          PROVE  \E i \in 1..(l + 1) : kept[n][i] = seq[k]
      <4>1. CASE k = n
        <5>1. l + 1 \in 1..(l + 1)
          OBVIOUS
        <5> QED BY <3>3, <4>1, <5>1
      <4>2. CASE k # n
        <5>1. PICK i \in 1..l : kept[n - 1][i] = seq[k]
          BY <2>1, <3>2, <3>5, <4>2
        <5>2. i \in 1..(l + 1)
          OBVIOUS
        <5> QED BY <3>3, <5>1, <5>2
      <4> QED BY <4>1, <4>2
    <3>6. ASSUME \A k \in 1..n : seq[k] \in S
          PROVE  l + 1 = n /\ \A i \in 1..n : kept[n][i] = seq[i]
      <4>1. \A k \in 1..(n - 1) : seq[k] \in S
        BY <3>6
      <4>2. l = n - 1 /\ \A i \in 1..(n - 1) : kept[n - 1][i] = seq[i]
        BY <2>1, <3>2, <4>1
      <4> QED BY <3>3, <4>2
    <3>7. ASSUME Distinct(seq) PROVE Distinct(kept[n])
      <4>1. \A i \in 1..l : kept[n][i] # kept[n][l + 1]
        <5> SUFFICES ASSUME NEW i \in 1..l PROVE kept[n - 1][i] # seq[n]
          BY <3>3
        <5>1. PICK k \in 1..(n - 1) : kept[n - 1][i] = seq[k]
          BY <2>1, <3>2
        <5>2. k \in 1..Len(seq) /\ n \in 1..Len(seq) /\ k # n
          BY <1>1
        <5> QED BY <3>7, <5>1, <5>2 DEF Distinct
      <4>2. \A i, j \in 1..l : kept[n][i] = kept[n][j] => i = j
        BY <2>1, <3>2, <3>3, <3>7 DEF Distinct
      <4>3. \A i, j \in 1..(l + 1) : kept[n][i] = kept[n][j] => i = j
        <5>1. \A i \in 1..(l + 1) : i \in 1..l \/ i = l + 1
          OBVIOUS
        <5> QED BY <4>1, <4>2, <5>1
      <4> QED BY <3>3, <4>3 DEF Distinct
    <3>8. Good(n)
      BY <3>3, <3>4, <3>5, <3>6, <3>7
    <3> HIDE DEF Good
    <3> QED BY <2>1, <3>8
  <2> QED BY <2>2, <2>3
<1> HIDE DEF P
<1>12. 0..N \subseteq P /\ N \in 0..N
  BY <1>10, <1>11, BoundedInduction
<1>13. Good(N)
  BY <1>12 DEF P
<1> HIDE DEF Good
<1>14. Elements(kept[N]) = Elements(seq) \cap S
  <2>1. ASSUME NEW e PROVE e \in Elements(kept[N]) <=> \E i \in 1..Len(kept[N]) : kept[N][i] = e
    BY DEF Elements
  <2>2. ASSUME NEW e PROVE e \in Elements(seq) \cap S <=> e \in S /\ \E k \in 1..N : seq[k] = e
    BY <1>1 DEF Elements
  <2>3. ASSUME NEW e PROVE e \in Elements(kept[N]) <=> e \in Elements(seq) \cap S
    BY <1>13, <2>1, <2>2 DEF Good
  <2> QED BY <2>3
<1>15. ASSUME Elements(seq) \subseteq S PROVE kept[N] = seq
  <2>1. \A k \in 1..N : seq[k] \in S
    BY <1>1, <1>15 DEF Elements
  <2>2. Len(kept[N]) = N /\ \A i \in 1..N : kept[N][i] = seq[i]
    BY <1>13, <2>1 DEF Good
  <2>3. kept[N] \in Seq(T)
    BY <1>13 DEF X, Good
  <2> QED BY <1>1, <2>2, <2>3, SeqEqual
<1>16. kept[N] \in Seq(T)
  BY <1>13 DEF X, Good
<1>17. Distinct(seq) => Distinct(kept[N])
  BY <1>13 DEF Good
<1> QED BY <1>8, <1>14, <1>15, <1>16, <1>17

\* First finds an error if there is one.
LEMMA FirstNone ==
  ASSUME NEW errors, DOMAIN errors \subseteq Nat, First(errors) = "none"
  PROVE  \A n \in DOMAIN errors : errors[n] = "none"
<1> DEFINE found == {n \in DOMAIN errors : errors[n] # "none"}
<1> SUFFICES ASSUME found # {} PROVE FALSE
  OBVIOUS
<1>1. \E n \in found : \A m \in found : n <= m
  BY Least
<1>2. First(errors) = errors[CHOOSE n \in found : \A m \in found : n <= m]
  BY DEF First
<1> QED BY <1>1, <1>2

-----------------------------------------------------------------------------
(* What a path of keys leads to, and the paths of a value.                 *)

\* f follows the path key by key.
Follows(f, value, path, N) ==
  f = [n \in 0..N |-> IF n = 0 THEN value ELSE f[n - 1].at[path[n]]]

\* There is such a function, whatever the path leads to; it depends on the keys
\* alone, and At is its last value.
LEMMA FollowsExists ==
  ASSUME NEW value, NEW path, NEW N \in Nat
  PROVE  \E f : Follows(f, value, path, N)
<1> DEFINE S == {n \in 0..N : \E f : Follows(f, value, path, n)}
<1>1. 0 \in S
  <2>1. Follows([n \in 0..0 |-> value], value, path, 0)
    BY DEF Follows
  <2> QED BY <2>1
<1>2. ASSUME NEW n \in 1..N, n - 1 \in S PROVE n \in S
  <2>1. PICK f : Follows(f, value, path, n - 1)
    BY <1>2
  <2> DEFINE g == [m \in 0..n |-> IF m = n THEN f[n - 1].at[path[n]] ELSE f[m]]
  <2>2. \A m \in 0..(n - 1) : f[m] = IF m = 0 THEN value ELSE f[m - 1].at[path[m]]
    BY <2>1 DEF Follows
  <2>3. ASSUME NEW m \in 0..n PROVE g[m] = IF m = 0 THEN value ELSE g[m - 1].at[path[m]]
    <3>1. CASE m = n
      <4>1. m - 1 \in 0..n /\ m - 1 # n /\ m # 0
        BY <3>1
      <4> QED BY <3>1, <4>1
    <3>2. CASE m # n
      <4>1. m \in 0..(n - 1) /\ g[m] = f[m]
        BY <3>2
      <4>2. m # 0 => m - 1 \in 0..n /\ m - 1 # n
        BY <3>2
      <4> QED BY <2>2, <4>1, <4>2
    <3> QED BY <3>1, <3>2
  <2>4. g = [m \in 0..n |-> IF m = 0 THEN value ELSE g[m - 1].at[path[m]]]
    <3>1. g = [m \in 0..n |-> g[m]]
      OBVIOUS
    <3> HIDE DEF g
    <3> QED BY <2>3, <3>1
  <2>5. Follows(g, value, path, n)
    <3> HIDE DEF g
    <3> QED BY <2>4 DEF Follows
  <2> QED BY <2>5
<1> HIDE DEF S
<1>3. 0..N \subseteq S
  BY <1>1, <1>2, BoundedInduction
<1> QED BY <1>3 DEF S

LEMMA FollowsAgree ==
  ASSUME NEW value, NEW p, NEW q, NEW M \in Nat, NEW N \in Nat, M <= N,
         NEW f, NEW g, Follows(f, value, p, M), Follows(g, value, q, N),
         \A n \in 1..M : p[n] = q[n]
  PROVE  f[M] = g[M]
<1> DEFINE S == {n \in 0..M : f[n] = g[n]}
<1>1. /\ \A n \in 0..M : f[n] = IF n = 0 THEN value ELSE f[n - 1].at[p[n]]
      /\ \A n \in 0..N : g[n] = IF n = 0 THEN value ELSE g[n - 1].at[q[n]]
  BY DEF Follows
<1>2. 0 \in S
  BY <1>1
<1>3. ASSUME NEW n \in 1..M, n - 1 \in S PROVE n \in S
  <2>1. n \in 0..M /\ n \in 0..N /\ n # 0 /\ f[n - 1] = g[n - 1]
    BY <1>3
  <2>2. f[n] = f[n - 1].at[p[n]] /\ g[n] = g[n - 1].at[q[n]]
    BY <1>1, <2>1
  <2> QED BY <2>1, <2>2
<1> HIDE DEF S
<1>4. 0..M \subseteq S
  BY <1>2, <1>3, BoundedInduction
<1> QED BY <1>4 DEF S

LEMMA AtFollows ==
  ASSUME NEW value, NEW path, Len(path) \in Nat
  PROVE  \E f : Follows(f, value, path, Len(path)) /\ At(value, path) = f[Len(path)]
<1> DEFINE f == CHOOSE f : Follows(f, value, path, Len(path))
<1>1. Follows(f, value, path, Len(path))
  BY FollowsExists
<1>2. At(value, path) = f[Len(path)]
  BY DEF At, Follows
<1> QED BY <1>1, <1>2

\* The empty path leads to the value itself, one more key to what is there.
LEMMA AtRoot ==
  ASSUME NEW value PROVE At(value, <<>>) = value
<1>1. Len(<<>>) = 0
  BY EmptySeq
<1>2. PICK f : Follows(f, value, <<>>, 0) /\ At(value, <<>>) = f[0]
  BY <1>1, AtFollows
<1> QED BY <1>2 DEF Follows

LEMMA AtSteps ==
  ASSUME NEW value, NEW T, NEW path \in Seq(T), NEW k \in T
  PROVE  At(value, Append(path, k)) = At(value, path).at[k]
<1>1. PICK l \in Nat : l = Len(path)
  BY LenProperties
<1>2. PICK whole : whole = Append(path, k)
  OBVIOUS
<1> PICK m \in Nat : m = l + 1
  OBVIOUS
<1> /\ Len(whole) = m /\ whole[m] = k /\ l <= m
    /\ \A n \in 1..l : path[n] = whole[n]
  BY <1>1, <1>2, AppendProperties
<1>4. PICK f : Follows(f, value, path, l) /\ At(value, path) = f[l]
  BY <1>1, AtFollows
<1>5. PICK g : Follows(g, value, whole, m) /\ At(value, whole) = g[m]
  BY AtFollows
<1>6. f[l] = g[l]
  <2>1. Follows(f, value, path, l) /\ Follows(g, value, whole, m)
    BY <1>4, <1>5
  <2> QED BY <2>1, FollowsAgree
<1>7. g[m] = g[l].at[k]
  <2>1. m \in 0..m /\ m # 0 /\ m - 1 = l
    OBVIOUS
  <2> QED BY <1>5, <2>1 DEF Follows
<1> QED BY <1>2, <1>4, <1>5, <1>6, <1>7

-----------------------------------------------------------------------------
(* The paths of a value.                                                   *)

Beyond(value, path) == {Append(path, k) : k \in Keys(At(value, path))}
Onward(value, paths) == UNION {Beyond(value, path) : path \in paths}
Level(f, value, N) == f = [n \in 0..N |-> IF n = 0 THEN {<<>>} ELSE Onward(value, f[n - 1])]

\* Level by level, what lies beyond the paths of the level before.
LEMMA OnwardMembers ==
  ASSUME NEW value, NEW paths, NEW p
  PROVE  p \in Onward(value, paths)
           <=> \E q \in paths : \E k \in Keys(At(value, q)) : p = Append(q, k)
<1>1. \A q : p \in Beyond(value, q) <=> \E k \in Keys(At(value, q)) : p = Append(q, k)
  BY DEF Beyond
<1>2. p \in Onward(value, paths) <=> \E q \in paths : p \in Beyond(value, q)
  BY DEF Onward
<1> QED BY <1>1, <1>2

LEMMA LevelExists ==
  ASSUME NEW value, NEW N \in Nat
  PROVE  \E f : Level(f, value, N)
<1> DEFINE S == {n \in 0..N : \E f : Level(f, value, n)}
<1>1. 0 \in S
  <2>1. Level([n \in 0..0 |-> {<<>>}], value, 0)
    BY DEF Level
  <2> QED BY <2>1
<1>2. ASSUME NEW n \in 1..N, n - 1 \in S PROVE n \in S
  <2>1. PICK f : Level(f, value, n - 1)
    BY <1>2
  <2> DEFINE g == [m \in 0..n |-> IF m = n THEN Onward(value, f[n - 1]) ELSE f[m]]
  <2>2. \A m \in 0..(n - 1) : f[m] = IF m = 0 THEN {<<>>} ELSE Onward(value, f[m - 1])
    BY <2>1 DEF Level
  <2>3. ASSUME NEW m \in 0..n PROVE g[m] = IF m = 0 THEN {<<>>} ELSE Onward(value, g[m - 1])
    <3>1. CASE m = n
      <4>1. m - 1 \in 0..n /\ m - 1 # n /\ m # 0
        BY <3>1
      <4> QED BY <3>1, <4>1
    <3>2. CASE m # n
      <4>1. m \in 0..(n - 1) /\ g[m] = f[m]
        BY <3>2
      <4>2. m # 0 => m - 1 \in 0..n /\ m - 1 # n
        BY <3>2
      <4> QED BY <2>2, <4>1, <4>2
    <3> QED BY <3>1, <3>2
  <2>4. g = [m \in 0..n |-> g[m]]
    OBVIOUS
  <2>5. Level(g, value, n)
    <3> HIDE DEF g
    <3> QED BY <2>3, <2>4 DEF Level
  <2> QED BY <2>5
<1> HIDE DEF S
<1>3. 0..N \subseteq S
  BY <1>1, <1>2, BoundedInduction
<1> QED BY <1>3 DEF S

\* Paths grow key by key, up to the depth.
LEMMA PathSteps ==
  ASSUME Depth \in Nat, NEW value, NEW T, \A path \in Paths(value) : Keys(At(value, path)) \subseteq T
  PROVE  /\ <<>> \in Paths(value) /\ Paths(value) \subseteq Seq(T)
         /\ \A path \in Paths(value) : Len(path) <= Depth
         /\ \A path \in Seq(T), k \in T :
              Append(path, k) \in Paths(value)
                <=> path \in Paths(value) /\ k \in Keys(At(value, path)) /\ Len(path) < Depth
<1> DEFINE f == CHOOSE f : Level(f, value, Depth)
<1>1. Level(f, value, Depth)
  BY LevelExists
<1>2. Paths(value) = UNION {f[n] : n \in 0..Depth}
  BY DEF Paths, Level, Onward, Beyond
<1> HIDE DEF f
<1>3. f[0] = {<<>>} /\ \A n \in 1..Depth : f[n] = Onward(value, f[n - 1])
  <2>1. 0 \in 0..Depth /\ \A n \in 1..Depth : n \in 0..Depth /\ n # 0
    OBVIOUS
  <2> QED BY <1>1, <2>1 DEF Level
<1>4. \A p : p \in Paths(value) <=> \E n \in 0..Depth : p \in f[n]
  BY <1>2
<1> DEFINE S == {n \in 0..Depth : \A p \in f[n] : p \in Seq(T) /\ Len(p) = n}
<1>5. 0 \in S
  <2>1. 0 \in 0..Depth /\ \A p \in f[0] : p = <<>>
    BY <1>3
  <2>2. <<>> \in Seq(T) /\ Len(<<>>) = 0
    BY EmptySeq
  <2> QED BY <2>1, <2>2
<1>6. ASSUME NEW n \in 1..Depth, n - 1 \in S PROVE n \in S
  <2>1. n \in 0..Depth /\ n - 1 \in 0..Depth /\ (n - 1) + 1 = n
    OBVIOUS
  <2>2. ASSUME NEW p \in f[n] PROVE p \in Seq(T) /\ Len(p) = n
    <3>1. PICK q \in f[n - 1] : \E k \in Keys(At(value, q)) : p = Append(q, k)
      <4>1. p \in Onward(value, f[n - 1])
        BY <1>3
      <4> QED BY <4>1, OnwardMembers
    <3> PICK k \in Keys(At(value, q)) : p = Append(q, k)
      BY <3>1
    <3>2. q \in Paths(value) /\ q \in Seq(T) /\ Len(q) = n - 1
      BY <1>4, <1>6, <2>1
    <3>3. k \in T
      BY <3>1, <3>2
    <3>4. p \in Seq(T) /\ Len(p) = Len(q) + 1
      BY <3>1, <3>2, <3>3, AppendProperties
    <3> QED BY <2>1, <3>2, <3>4
  <2> QED BY <2>1, <2>2
<1> HIDE DEF S
<1>7. 0..Depth \subseteq S
  BY <1>5, <1>6, BoundedInduction
<1>8. \A n \in 0..Depth : \A p \in f[n] : p \in Seq(T) /\ Len(p) = n
  BY <1>7 DEF S
<1>9. <<>> \in Paths(value) /\ Paths(value) \subseteq Seq(T)
  <2>1. 0 \in 0..Depth
    OBVIOUS
  <2> QED BY <1>3, <1>4, <1>8, <2>1
<1>10. \A p \in Paths(value) : Len(p) <= Depth
  BY <1>4, <1>8
<1>11. ASSUME NEW p \in Seq(T), NEW k \in T, NEW whole, whole = Append(p, k), whole \in Paths(value)
       PROVE  p \in Paths(value) /\ k \in Keys(At(value, p)) /\ Len(p) < Depth
  <2>1. PICK n \in 0..Depth : whole \in f[n]
    BY <1>4, <1>11
  <2>2. n # 0 /\ n = Len(p) + 1 /\ Len(p) \in Nat
    <3>1. Len(p) \in Nat /\ Len(whole) = Len(p) + 1
      BY <1>11, AppendProperties, LenProperties
    <3>2. Len(whole) = n
      BY <1>8, <2>1
    <3> QED BY <3>1, <3>2
  <2>3. n \in 1..Depth /\ n - 1 \in 0..Depth
    BY <2>2
  <2>4. PICK q \in f[n - 1] : \E j \in Keys(At(value, q)) : whole = Append(q, j)
    <3>1. whole \in Onward(value, f[n - 1])
      BY <1>3, <2>1, <2>3
    <3> QED BY <3>1, OnwardMembers
  <2>5. PICK j \in Keys(At(value, q)) : whole = Append(q, j)
    BY <2>4
  <2>6. q \in Seq(T) /\ q \in Paths(value)
    BY <1>4, <1>8, <2>3
  <2>7. j \in T
    BY <2>6
  <2>8. Append(p, k) = Append(q, j)
    BY <1>11, <2>5
  <2>9. p = q /\ k = j
    <3>1. \A s, t \in Seq(T), d, e \in T : Append(s, d) = Append(t, e) => s = t /\ d = e
      BY AppendInjective
    <3> QED BY <2>6, <2>7, <2>8, <3>1
  <2> QED BY <2>2, <2>5, <2>6, <2>9
<1>12. ASSUME NEW p \in Seq(T), NEW k \in T, NEW whole, whole = Append(p, k),
              p \in Paths(value), k \in Keys(At(value, p)), Len(p) < Depth
       PROVE  whole \in Paths(value)
  <2>1. PICK n \in 0..Depth : p \in f[n]
    BY <1>4, <1>12
  <2>2. n = Len(p) /\ n + 1 \in 1..Depth /\ n + 1 \in 0..Depth /\ (n + 1) - 1 = n
    BY <1>8, <1>12, <2>1
  <2>3. whole \in Onward(value, f[n])
    BY <1>12, <2>1, OnwardMembers
  <2>4. whole \in f[n + 1]
    BY <1>3, <2>2, <2>3
  <2> QED BY <1>4, <2>2, <2>4
<1> QED BY <1>9, <1>10, <1>11, <1>12

-----------------------------------------------------------------------------
(* The merge.                                                              *)

\* Depth leaves nothing of a value out.
Sound(v) ==
  \A path \in Paths(v) :
    Keys(At(v, path)) \subseteq STRING /\ (Len(path) = Depth => Keys(At(v, path)) = {})

Both(b, o) == Paths(b) \cap Paths(o)
MergeAt(f, b, o, path) ==
  LET mine == At(b, path)  theirs == At(o, path)
  IN IF ~(IsTable(mine) /\ IsTable(theirs)) THEN theirs
     ELSE Table(MergedKeys(mine, theirs),
                [k \in DOMAIN mine.at \cup DOMAIN theirs.at |->
                   IF k \notin DOMAIN theirs.at THEN mine.at[k]
                   ELSE IF k \notin DOMAIN mine.at THEN theirs.at[k]
                   ELSE f[Append(path, k)]])

\* The merge at a path needs that of the paths one key further.
LEMMA MergeAtNext ==
  ASSUME NEW f, NEW g, NEW b, NEW o, NEW path,
         \A k \in Keys(At(b, path)) \cap Keys(At(o, path)) : f[Append(path, k)] = g[Append(path, k)]
  PROVE  MergeAt(f, b, o, path) = MergeAt(g, b, o, path)
<1> DEFINE mine == At(b, path)
           theirs == At(o, path)
           below(h) == [k \in DOMAIN mine.at \cup DOMAIN theirs.at |->
                          IF k \notin DOMAIN theirs.at THEN mine.at[k]
                          ELSE IF k \notin DOMAIN mine.at THEN theirs.at[k]
                          ELSE h[Append(path, k)]]
<1>1. \A h : MergeAt(h, b, o, path) =
               IF ~(IsTable(mine) /\ IsTable(theirs)) THEN theirs
               ELSE Table(MergedKeys(mine, theirs), below(h))
  BY DEF MergeAt
<1>2. CASE IsTable(mine) /\ IsTable(theirs)
  <2>1. Keys(mine) = DOMAIN mine.at /\ Keys(theirs) = DOMAIN theirs.at
    BY <1>2 DEF Keys
  <2>2. \A k \in DOMAIN mine.at \cap DOMAIN theirs.at : f[Append(path, k)] = g[Append(path, k)]
    BY <2>1
  <2>3. below(f) = below(g)
    <3> HIDE DEF mine, theirs
    <3> QED BY <2>2
  <2> HIDE DEF below
  <2> QED BY <1>1, <2>3
<1>3. CASE ~(IsTable(mine) /\ IsTable(theirs))
  <2> HIDE DEF below, mine, theirs
  <2> QED BY <1>1, <1>3
<1> QED BY <1>2, <1>3

Merges(f, b, o, C) == f = [path \in C |-> MergeAt(f, b, o, path)]

\* Merge is defined: for the deepest paths first, then for those one key shorter.
LEMMA MergeUnfolds ==
  ASSUME Depth \in Nat, NEW b, NEW o, Sound(b), Sound(o)
  PROVE  \E m : /\ \A path \in Both(b, o) : m[path] = MergeAt(m, b, o, path)
                /\ Merge(b, o) = m[<<>>]
<1> DEFINE From(n) == {path \in Both(b, o) : Len(path) > Depth - n}
           S == {n \in 0..(Depth + 1) : \E f : Merges(f, b, o, From(n))}
<1>1. /\ <<>> \in Both(b, o) /\ \A path \in Both(b, o) : path \in Seq(STRING) /\ Len(path) \in 0..Depth
      /\ \A path \in Both(b, o) : \A k \in Keys(At(b, path)) \cap Keys(At(o, path)) :
           Append(path, k) \in Both(b, o) /\ Len(Append(path, k)) = Len(path) + 1
  <2>1. \A path \in Paths(b) : Keys(At(b, path)) \subseteq STRING
    BY DEF Sound
  <2>2. \A path \in Paths(o) : Keys(At(o, path)) \subseteq STRING
    BY DEF Sound
  <2>3. /\ <<>> \in Both(b, o)
        /\ \A path \in Both(b, o) : path \in Seq(STRING) /\ Len(path) <= Depth
    BY <2>1, <2>2, PathSteps DEF Both
  <2>4. \A path \in Both(b, o) : Len(path) \in 0..Depth
    BY <2>3, LenProperties
  <2>5. ASSUME NEW path \in Both(b, o), NEW k \in Keys(At(b, path)) \cap Keys(At(o, path))
        PROVE  Append(path, k) \in Both(b, o) /\ Len(Append(path, k)) = Len(path) + 1
    <3>1. path \in Paths(b) /\ path \in Paths(o) /\ path \in Seq(STRING)
      BY <2>3 DEF Both
    <3>2. k \in STRING
      BY <2>1, <3>1
    <3>3. Len(path) < Depth
      <4>1. Len(path) # Depth
        BY <3>1 DEF Sound
      <4> QED BY <2>4, <4>1
    <3>4. Append(path, k) \in Paths(b)
      BY <2>1, <3>1, <3>2, <3>3, PathSteps
    <3>5. Append(path, k) \in Paths(o)
      BY <2>2, <3>1, <3>2, <3>3, PathSteps
    <3> QED BY <3>1, <3>2, <3>4, <3>5, AppendProperties DEF Both
  <2> QED BY <2>3, <2>4, <2>5
<1>2. 0 \in S
  <2>1. From(0) = {}
    BY <1>1
  <2>2. Merges([path \in {} |-> b], b, o, {})
    BY DEF Merges
  <2>3. \E f : Merges(f, b, o, From(0))
    <3> HIDE DEF From
    <3> QED BY <2>1, <2>2
  <2>4. 0 \in 0..(Depth + 1)
    OBVIOUS
  <2> HIDE DEF From
  <2> QED BY <2>3, <2>4
<1>3. ASSUME NEW n \in 1..(Depth + 1), n - 1 \in S PROVE n \in S
  <2>1. PICK f : Merges(f, b, o, From(n - 1))
    BY <1>3
  <2> DEFINE g == [path \in From(n) |-> IF path \in From(n - 1) THEN f[path]
                                         ELSE MergeAt(f, b, o, path)]
  <2>2. \A path \in From(n - 1) : path \in From(n) /\ f[path] = MergeAt(f, b, o, path)
    <3>1. \A path \in From(n - 1) : f[path] = MergeAt(f, b, o, path)
      BY <2>1 DEF Merges
    <3>2. \A path \in From(n - 1) : path \in From(n)
      BY <1>1
    <3> QED BY <3>1, <3>2
  <2>3. ASSUME NEW path \in From(n) PROVE g[path] = MergeAt(g, b, o, path)
    <3>1. g[path] = MergeAt(f, b, o, path)
      BY <2>2
    <3>2. ASSUME NEW k \in Keys(At(b, path)) \cap Keys(At(o, path))
          PROVE  f[Append(path, k)] = g[Append(path, k)]
      <4>1. Append(path, k) \in Both(b, o) /\ Len(Append(path, k)) = Len(path) + 1
        BY <1>1
      <4>2. Append(path, k) \in From(n - 1)
        BY <1>1, <4>1
      <4> QED BY <2>2, <4>2
    <3> HIDE DEF g, From
    <3> QED BY <3>1, <3>2, MergeAtNext
  <2>4. g = [path \in From(n) |-> g[path]]
    OBVIOUS
  <2>5. Merges(g, b, o, From(n))
    <3> HIDE DEF g, From
    <3> QED BY <2>3, <2>4 DEF Merges
  <2> HIDE DEF g, From
  <2> QED BY <2>5
<1>4. Depth + 1 \in S
  <2>1. 0..(Depth + 1) \subseteq S
    <3> HIDE DEF S
    <3> QED BY <1>2, <1>3, BoundedInduction
  <2> HIDE DEF S
  <2> QED BY <2>1
<1>5. From(Depth + 1) = Both(b, o)
  BY <1>1
<1> DEFINE m == CHOOSE f : Merges(f, b, o, Both(b, o))
<1>6. Merges(m, b, o, Both(b, o))
  <2>1. \E f : Merges(f, b, o, Both(b, o))
    <3> HIDE DEF From
    <3> QED BY <1>4, <1>5
  <2> QED BY <2>1
<1>7. Merge(b, o) = m[<<>>]
  BY DEF Merge, Merges, MergeAt, Both
<1> HIDE DEF m
<1>8. \A path \in Both(b, o) : m[path] = MergeAt(m, b, o, path)
  BY <1>6 DEF Merges
<1> QED BY <1>7, <1>8

\* A leaf that is in the way of a path is in the way of all that goes on from it.
LEMMA CoveredSteps ==
  ASSUME NEW o, NEW T, NEW path \in Seq(T), NEW k \in T
  PROVE  /\ ~Covered(o, <<>>)
         /\ Covered(o, Append(path, k))
              <=> Covered(o, path) \/ (path \in Paths(o) /\ ~IsTable(At(o, path)))
<1> DEFINE Blocked(above) == above \in Paths(o) /\ ~IsTable(At(o, above))
<1>1. PICK l \in Nat : l = Len(path)
  BY LenProperties
<1>2. PICK whole : whole = Append(path, k)
  OBVIOUS
<1>3. whole \in Seq(T) /\ Len(whole) = l + 1 /\ \A n \in 1..l : whole[n] = path[n]
  BY <1>1, <1>2, AppendProperties
<1>4. ASSUME NEW n \in 0..l PROVE SubSeq(whole, 1, n) = SubSeq(path, 1, n)
  <2>1. /\ \A i \in 1..n : whole[i] \in T /\ path[i] \in T /\ whole[i] = path[i]
        /\ n \in Int /\ n - 1 + 1 = n /\ \A i \in 1..n : 1 + i - 1 = i
    BY <1>1, <1>3, ElementOfSeq
  <2>2. /\ SubSeq(whole, 1, n) \in Seq(T) /\ Len(SubSeq(whole, 1, n)) = n
        /\ \A i \in 1..n : SubSeq(whole, 1, n)[i] = whole[i]
    BY <2>1, SubSeqProperties
  <2>3. /\ SubSeq(path, 1, n) \in Seq(T) /\ Len(SubSeq(path, 1, n)) = n
        /\ \A i \in 1..n : SubSeq(path, 1, n)[i] = path[i]
    BY <2>1, SubSeqProperties
  <2> QED BY <2>1, <2>2, <2>3, SeqEqual
<1>5. SubSeq(path, 1, l) = path
  BY <1>1, SubSeqFull
<1>6. ~Covered(o, <<>>)
  <2>1. Len(<<>>) = 0 /\ 0..(0 - 1) = {}
    BY EmptySeq
  <2> QED BY <2>1 DEF Covered
<1>7. Covered(o, path) <=> \E n \in 0..(l - 1) : Blocked(SubSeq(path, 1, n))
  BY <1>1 DEF Covered
<1>8. Covered(o, whole) <=> \E n \in 0..l : Blocked(SubSeq(path, 1, n))
  <2>1. Covered(o, whole) <=> \E n \in 0..l : Blocked(SubSeq(whole, 1, n))
    <3>1. (l + 1) - 1 = l
      OBVIOUS
    <3> QED BY <1>3, <3>1 DEF Covered
  <2> HIDE DEF Blocked
  <2> QED BY <1>4, <2>1
<1>9. (\E n \in 0..l : Blocked(SubSeq(path, 1, n)))
        <=> (\E n \in 0..(l - 1) : Blocked(SubSeq(path, 1, n))) \/ Blocked(path)
  <2>1. \A n : n \in 0..l <=> n \in 0..(l - 1) \/ n = l
    OBVIOUS
  <2> HIDE DEF Blocked
  <2> QED BY <1>5, <2>1
<1> QED BY <1>2, <1>6, <1>7, <1>8, <1>9

\* What a path of the merged value is: a merge where both sides have it, else what
\* the upper side says, else what the lower side says unless a leaf is in the way.
MergedPath(m, b, o, r, path) ==
  /\ path \in Paths(o) => ~Covered(o, path)
  /\ path \in Both(b, o) => path \in Paths(r) /\ At(r, path) = m[path]
  /\ path \in Paths(o) \ Paths(b) => path \in Paths(r) /\ At(r, path) = At(o, path)
  /\ path \in Paths(b) \ Paths(o) =>
       /\ path \in Paths(r) <=> ~Covered(o, path)
       /\ path \in Paths(r) => At(r, path) = At(b, path)
  /\ path \in Paths(r) => path \in Paths(b) \cup Paths(o)

\* The merge at a path: the upper side, unless both sides are tables, and then a
\* table of the keys of both.
LEMMA MergeAtReplaces ==
  ASSUME NEW m, NEW b, NEW o, NEW path, NEW v, v = MergeAt(m, b, o, path),
         NEW mine, mine = At(b, path), NEW theirs, theirs = At(o, path)
  PROVE  ~(IsTable(mine) /\ IsTable(theirs)) => v = theirs
BY DEF MergeAt

LEMMA MergeAtKeys ==
  ASSUME NEW m, NEW b, NEW o, NEW path, NEW v, v = MergeAt(m, b, o, path),
         NEW mine, mine = At(b, path), NEW theirs, theirs = At(o, path),
         IsTable(mine), IsTable(theirs)
  PROVE  /\ IsTable(v) /\ Keys(v) = Keys(mine) \cup Keys(theirs)
         /\ \A k \in Keys(v) : v.at[k] =
              IF k \notin Keys(theirs) THEN mine.at[k]
              ELSE IF k \notin Keys(mine) THEN theirs.at[k]
              ELSE m[Append(path, k)]
<1> DEFINE below == [k \in DOMAIN mine.at \cup DOMAIN theirs.at |->
                       IF k \notin DOMAIN theirs.at THEN mine.at[k]
                       ELSE IF k \notin DOMAIN mine.at THEN theirs.at[k]
                       ELSE m[Append(path, k)]]
<1>1. v = Table(MergedKeys(mine, theirs), below)
  BY DEF MergeAt
<1>2. v.at = below /\ IsTable(v)
  <2> HIDE DEF below
  <2> QED BY <1>1 DEF Table, IsTable
<1>3. Keys(mine) = DOMAIN mine.at /\ Keys(theirs) = DOMAIN theirs.at /\ Keys(v) = DOMAIN v.at
  BY <1>2 DEF Keys
<1>4. Keys(v) = Keys(mine) \cup Keys(theirs)
  BY <1>2, <1>3
<1>5. \A k \in Keys(v) : v.at[k] =
        IF k \notin Keys(theirs) THEN mine.at[k]
        ELSE IF k \notin Keys(mine) THEN theirs.at[k]
        ELSE m[Append(path, k)]
  BY <1>2, <1>3, <1>4
<1> QED BY <1>2, <1>4, <1>5

LEMMA MergeAtTable ==
  ASSUME NEW m, NEW b, NEW o, NEW path, NEW v, v = MergeAt(m, b, o, path),
         NEW mine, mine = At(b, path), NEW theirs, theirs = At(o, path),
         IsTable(mine), IsTable(theirs)
  PROVE  /\ v.keys = MergedKeys(mine, theirs) /\ v = Table(v.keys, v.at)
         /\ v.at = [k \in Keys(mine) \cup Keys(theirs) |-> v.at[k]]
<1> DEFINE below == [k \in DOMAIN mine.at \cup DOMAIN theirs.at |->
                       IF k \notin DOMAIN theirs.at THEN mine.at[k]
                       ELSE IF k \notin DOMAIN mine.at THEN theirs.at[k]
                       ELSE m[Append(path, k)]]
<1>1. v = Table(MergedKeys(mine, theirs), below)
  BY DEF MergeAt
<1>2. v.keys = MergedKeys(mine, theirs) /\ v.at = below /\ v = Table(v.keys, v.at)
  <2> HIDE DEF below
  <2> QED BY <1>1 DEF Table
<1>3. Keys(mine) = DOMAIN mine.at /\ Keys(theirs) = DOMAIN theirs.at
  BY DEF Keys
<1>4. v.at = [k \in Keys(mine) \cup Keys(theirs) |-> v.at[k]]
  BY <1>2, <1>3
<1> QED BY <1>2, <1>4

LEMMA TableHasKeys ==
  ASSUME NEW v, NEW k \in Keys(v) PROVE IsTable(v)
BY DEF Keys

\* That is what every path of the merged value is: by induction on its length.
LEMMA PathsMerge ==
  ASSUME Depth \in Nat, NEW b, NEW o, Sound(b), Sound(o), NEW T,
         NEW r, r = Merge(b, o), STRING \subseteq T,
         \A path \in Paths(r) : Keys(At(r, path)) \subseteq T
  PROVE  \E m : /\ \A path \in Both(b, o) : m[path] = MergeAt(m, b, o, path)
                /\ \A path \in Seq(T) : MergedPath(m, b, o, r, path)
<1>1. PICK m : /\ \A path \in Both(b, o) : m[path] = MergeAt(m, b, o, path)
               /\ r = m[<<>>]
  BY MergeUnfolds
<1>2. /\ \A path \in Paths(b) : Keys(At(b, path)) \subseteq T
      /\ \A path \in Paths(o) : Keys(At(o, path)) \subseteq T
  BY DEF Sound
<1> DEFINE S == {n \in Nat : \A path \in Seq(T) : Len(path) = n => MergedPath(m, b, o, r, path)}
<1>3. 0 \in S
  <2>1. /\ <<>> \in Paths(b) /\ <<>> \in Paths(o) /\ <<>> \in Paths(r)
        /\ At(r, <<>>) = r
    <3>1. <<>> \in Paths(b)
      BY <1>2, PathSteps
    <3>2. <<>> \in Paths(o)
      BY <1>2, PathSteps
    <3>3. <<>> \in Paths(r)
      BY PathSteps
    <3>4. At(r, <<>>) = r
      BY AtRoot
    <3> QED BY <3>1, <3>2, <3>3, <3>4
  <2>2. ~Covered(o, <<>>)
    <3>1. Len(<<>>) = 0 /\ 0..(0 - 1) = {}
      BY EmptySeq
    <3> QED BY <3>1 DEF Covered
  <2>3. MergedPath(m, b, o, r, <<>>)
    BY <1>1, <2>1, <2>2 DEF MergedPath, Both
  <2>4. \A path \in Seq(T) : Len(path) = 0 => path = <<>>
    BY EmptySeq
  <2> QED BY <2>3, <2>4
<1>4. ASSUME NEW n \in Nat, n \in S PROVE n + 1 \in S
  <2> SUFFICES ASSUME NEW whole \in Seq(T), Len(whole) = n + 1
               PROVE  MergedPath(m, b, o, r, whole)
    OBVIOUS
  <2>1. PICK path \in Seq(T), k \in T : whole = Append(path, k) /\ Len(path) = n
    <3>3. whole \in Seq(T) /\ whole # <<>>
      BY EmptySeq
    <3>4. \E q \in Seq(T), k \in T : whole = Append(q, k)
      BY <3>3, SequenceEmptyOrAppend
    <3>5. PICK q \in Seq(T), k \in T : whole = Append(q, k)
      BY <3>4
    <3>6. Len(whole) = Len(q) + 1 /\ Len(q) \in Nat
      BY <3>5, AppendProperties, LenProperties
    <3> QED BY <3>5, <3>6
  <2>2. MergedPath(m, b, o, r, path)
    BY <1>4, <2>1
  <2>3. /\ whole \in Paths(b) <=> path \in Paths(b) /\ k \in Keys(At(b, path)) /\ n < Depth
        /\ whole \in Paths(o) <=> path \in Paths(o) /\ k \in Keys(At(o, path)) /\ n < Depth
        /\ whole \in Paths(r) <=> path \in Paths(r) /\ k \in Keys(At(r, path)) /\ n < Depth
    <3>1. whole \in Paths(b) <=> path \in Paths(b) /\ k \in Keys(At(b, path)) /\ n < Depth
      BY <1>2, <2>1, PathSteps
    <3>2. whole \in Paths(o) <=> path \in Paths(o) /\ k \in Keys(At(o, path)) /\ n < Depth
      BY <1>2, <2>1, PathSteps
    <3>3. whole \in Paths(r) <=> path \in Paths(r) /\ k \in Keys(At(r, path)) /\ n < Depth
      BY <2>1, PathSteps
    <3> QED BY <3>1, <3>2, <3>3
  <2>4. /\ At(b, whole) = At(b, path).at[k]
        /\ At(o, whole) = At(o, path).at[k]
        /\ At(r, whole) = At(r, path).at[k]
    BY <2>1, AtSteps
  <2>5. Covered(o, whole) <=> Covered(o, path) \/ (path \in Paths(o) /\ ~IsTable(At(o, path)))
    BY <2>1, CoveredSteps
  <2>6. CASE path \in Both(b, o)
    <3> PICK mine : mine = At(b, path)
      OBVIOUS
    <3> PICK theirs : theirs = At(o, path)
      OBVIOUS
    <3> PICK v : v = At(r, path)
      OBVIOUS
    <3>1. path \in Paths(b) /\ path \in Paths(o) /\ path \in Paths(r) /\ ~Covered(o, path)
          /\ v = MergeAt(m, b, o, path)
      BY <1>1, <2>2, <2>6 DEF MergedPath, Both
    <3>2. /\ ~(IsTable(mine) /\ IsTable(theirs)) => v = theirs
          /\ IsTable(mine) /\ IsTable(theirs) =>
               /\ Keys(v) = Keys(mine) \cup Keys(theirs)
               /\ \A j \in Keys(v) : v.at[j] =
                    IF j \notin Keys(theirs) THEN mine.at[j]
                    ELSE IF j \notin Keys(mine) THEN theirs.at[j]
                    ELSE m[Append(path, j)]
      <4>1. ~(IsTable(mine) /\ IsTable(theirs)) => v = theirs
        BY <3>1, MergeAtReplaces
      <4>2. CASE IsTable(mine) /\ IsTable(theirs)
        BY <3>1, <4>2, MergeAtKeys
      <4> QED BY <4>1, <4>2
    <3>3. /\ k \in Keys(mine) => IsTable(mine)
          /\ k \in Keys(theirs) => IsTable(theirs)
      BY TableHasKeys
    <3>4. /\ At(b, whole) = mine.at[k] /\ At(o, whole) = theirs.at[k] /\ At(r, whole) = v.at[k]
      BY <2>4
    <3>5. /\ whole \in Paths(b) <=> k \in Keys(mine) /\ n < Depth
          /\ whole \in Paths(o) <=> k \in Keys(theirs) /\ n < Depth
          /\ whole \in Paths(r) <=> k \in Keys(v) /\ n < Depth
      BY <2>3, <3>1
    <3>6. Covered(o, whole) <=> ~IsTable(theirs)
      BY <2>5, <3>1
    <3>7. CASE IsTable(mine) /\ IsTable(theirs)
      <4>1. Keys(v) = Keys(mine) \cup Keys(theirs)
        BY <3>2, <3>7
      <4>2. k \in Keys(v) => v.at[k] =
                    IF k \notin Keys(theirs) THEN mine.at[k]
                    ELSE IF k \notin Keys(mine) THEN theirs.at[k]
                    ELSE m[whole]
        BY <2>1, <3>2, <3>7
      <4> QED BY <3>4, <3>5, <3>6, <3>7, <4>1, <4>2 DEF MergedPath, Both
    <3>8. CASE ~(IsTable(mine) /\ IsTable(theirs))
      <4>1. v = theirs
        BY <3>2, <3>8
      <4> QED BY <3>3, <3>4, <3>5, <3>6, <3>8, <4>1 DEF MergedPath, Both
    <3> QED BY <3>7, <3>8
  <2>7. CASE path \in Paths(o) \ Paths(b)
    <3>1. path \in Paths(r) /\ At(r, path) = At(o, path) /\ ~Covered(o, path)
      BY <2>2, <2>7 DEF MergedPath
    <3>2. k \in Keys(At(o, path)) => IsTable(At(o, path))
      BY TableHasKeys
    <3> QED BY <2>3, <2>4, <2>5, <2>7, <3>1, <3>2 DEF MergedPath, Both
  <2>8. CASE path \in Paths(b) \ Paths(o)
    <3>1. (path \in Paths(r) <=> ~Covered(o, path)) /\ (path \in Paths(r) => At(r, path) = At(b, path))
      BY <2>2, <2>8 DEF MergedPath
    <3> QED BY <2>3, <2>4, <2>5, <2>8, <3>1 DEF MergedPath, Both
  <2>9. CASE path \notin Paths(b) \cup Paths(o)
    <3>1. path \notin Paths(r)
      BY <2>2, <2>9 DEF MergedPath
    <3> QED BY <2>3, <2>9, <3>1 DEF MergedPath, Both
  <2> QED BY <2>6, <2>7, <2>8, <2>9 DEF Both
<1> HIDE DEF S
<1>5. Nat \subseteq S
  BY <1>3, <1>4, Induction
<1>6. \A path \in Seq(T) : MergedPath(m, b, o, r, path)
  BY <1>5, LenProperties DEF S
<1> QED BY <1>1, <1>6

\* The merge is the patch that RFC 7386 describes.
LEMMA MergeIsMergePatch ==
  ASSUME Depth \in Nat, NEW b, NEW o, Sound(b), Sound(o)
  PROVE  IsMergePatch(b, o, Merge(b, o))
<1>1. PICK r : r = Merge(b, o)
  OBVIOUS
<1> DEFINE T == STRING \cup UNION {Keys(At(r, path)) : path \in Paths(r)}
<1>2. /\ \A path \in Paths(r) : Keys(At(r, path)) \subseteq T
      /\ \A path \in Paths(b) : Keys(At(b, path)) \subseteq T
      /\ \A path \in Paths(o) : Keys(At(o, path)) \subseteq T
      /\ STRING \subseteq T
  BY DEF Sound
<1> HIDE DEF T
<1>3. Paths(b) \subseteq Seq(T) /\ Paths(o) \subseteq Seq(T) /\ Paths(r) \subseteq Seq(T)
  BY <1>2, PathSteps
<1>4. PICK m : /\ \A path \in Both(b, o) : m[path] = MergeAt(m, b, o, path)
               /\ \A path \in Seq(T) : MergedPath(m, b, o, r, path)
  BY <1>1, <1>2, PathsMerge
<1>5. ASSUME NEW path \in Paths(b) \cup Paths(o) \cup Paths(r)
      PROVE  Shape(r, path) =
               IF path \in Paths(o) THEN Shape(o, path)
               ELSE IF Covered(o, path) THEN [absent |-> TRUE] ELSE Shape(b, path)
  <2>1. MergedPath(m, b, o, r, path)
    BY <1>3, <1>4
  <2>2. CASE path \in Both(b, o)
    <3>1. path \in Paths(o) /\ path \in Paths(r) /\ At(r, path) = MergeAt(m, b, o, path)
      BY <1>4, <2>1, <2>2 DEF MergedPath, Both
    <3>2. /\ ~(IsTable(At(b, path)) /\ IsTable(At(o, path))) => At(r, path) = At(o, path)
          /\ IsTable(At(b, path)) /\ IsTable(At(o, path)) => IsTable(At(r, path))
      BY <3>1, MergeAtReplaces, MergeAtKeys
    <3> QED BY <3>1, <3>2 DEF Shape
  <2>3. CASE path \in Paths(o) \ Paths(b)
    BY <2>1, <2>3 DEF MergedPath, Shape
  <2>4. CASE path \in Paths(b) \ Paths(o)
    BY <2>1, <2>4 DEF MergedPath, Shape
  <2>5. path \in Paths(b) \cup Paths(o)
    BY <2>1 DEF MergedPath
  <2> QED BY <2>2, <2>3, <2>4, <2>5 DEF Both
<1> QED BY <1>1, <1>5 DEF IsMergePatch

\* What holds of the whole value and goes on along its keys holds at every path.
LEMMA PathInduction ==
  ASSUME Depth \in Nat, NEW value, NEW S, <<>> \in S,
         \A path \in Paths(value) \cap S : \A k \in Keys(At(value, path)) : Append(path, k) \in S
  PROVE  Paths(value) \subseteq S
<1> DEFINE f == CHOOSE f : Level(f, value, Depth)
<1>1. Level(f, value, Depth)
  BY LevelExists
<1>2. Paths(value) = UNION {f[n] : n \in 0..Depth}
  BY DEF Paths, Level, Onward, Beyond
<1> HIDE DEF f
<1>3. f[0] = {<<>>} /\ \A n \in 1..Depth : f[n] = Onward(value, f[n - 1])
  <2>1. 0 \in 0..Depth /\ \A n \in 1..Depth : n \in 0..Depth /\ n # 0
    OBVIOUS
  <2> QED BY <1>1, <2>1 DEF Level
<1> DEFINE G == {n \in 0..Depth : f[n] \subseteq S}
<1>4. 0 \in G
  BY <1>3
<1>5. ASSUME NEW n \in 1..Depth, n - 1 \in G PROVE n \in G
  <2>1. n - 1 \in 0..Depth /\ f[n - 1] \subseteq S /\ n \in 0..Depth
    BY <1>5
  <2>2. f[n - 1] \subseteq Paths(value)
    BY <1>2, <2>1
  <2>3. ASSUME NEW p \in f[n] PROVE p \in S
    <3>1. PICK q \in f[n - 1] : \E k \in Keys(At(value, q)) : p = Append(q, k)
      BY <1>3, OnwardMembers
    <3> QED BY <2>1, <2>2, <3>1
  <2> QED BY <2>1, <2>3
<1> HIDE DEF G
<1>6. 0..Depth \subseteq G
  BY <1>4, <1>5, BoundedInduction
<1> QED BY <1>2, <1>6 DEF G

\* A document's keys are names, its tables are tables all the way down.
Within(d) == {At(d, path) : path \in Paths(d)}

LEMMA DocumentWithin ==
  ASSUME Depth \in Nat, NEW d, DocumentOK(d)
  PROVE  /\ Sound(d) /\ d \in Within(d)
         /\ \A v \in Within(d) : TableOK(v) /\ LeafOK(v)
         /\ \A v \in Within(d) : \A k \in Keys(v) : v.at[k] \in Within(d)
<1>1. \A path \in Paths(d) : TableOK(At(d, path)) /\ LeafOK(At(d, path))
  BY DEF DocumentOK
<1>2. ASSUME NEW v, TableOK(v) PROVE Keys(v) \subseteq STRING
  <2>1. CASE IsTable(v)
    <3>1. v.keys \in Seq(STRING) /\ Keys(v) = Elements(v.keys)
      BY <1>2, <2>1 DEF TableOK, Keys
    <3>2. \A n \in 1..Len(v.keys) : v.keys[n] \in STRING
      BY <3>1, ElementOfSeq
    <3> QED BY <3>1, <3>2 DEF Elements
  <2>2. CASE ~IsTable(v)
    BY <2>2 DEF Keys
  <2> QED BY <2>1, <2>2
<1>3. \A path \in Paths(d) : Keys(At(d, path)) \subseteq STRING
  BY <1>1, <1>2
<1>4. Sound(d)
  BY <1>3 DEF Sound, DocumentOK
<1>5. d \in Within(d)
  <2>1. <<>> \in Paths(d)
    BY <1>3, PathSteps
  <2> QED BY <2>1, AtRoot DEF Within
<1>6. ASSUME NEW v \in Within(d), NEW k \in Keys(v) PROVE v.at[k] \in Within(d)
  <2>1. PICK path \in Paths(d) : v = At(d, path)
    BY DEF Within
  <2>2. path \in Seq(STRING) /\ k \in STRING /\ Len(path) <= Depth
    BY <1>3, <1>6, <2>1, PathSteps
  <2>3. Len(path) < Depth
    <3>1. Len(path) # Depth
      BY <1>6, <2>1 DEF DocumentOK
    <3>2. Len(path) \in Nat
      BY <2>2, LenProperties
    <3> QED BY <2>2, <3>1, <3>2
  <2>4. PICK whole : whole = Append(path, k)
    OBVIOUS
  <2>5. whole \in Paths(d)
    BY <1>3, <1>6, <2>1, <2>2, <2>3, <2>4, PathSteps
  <2>6. At(d, whole) = v.at[k]
    BY <2>1, <2>2, <2>4, AtSteps
  <2> QED BY <2>5, <2>6 DEF Within
<1> QED BY <1>1, <1>4, <1>5, <1>6 DEF Within

\* The keys of a merged table are those of both, each once.
LEMMA MergedKeysShape ==
  ASSUME NEW mine, IsTable(mine), TableOK(mine), NEW theirs, IsTable(theirs), TableOK(theirs)
  PROVE  /\ MergedKeys(mine, theirs) \in Seq(STRING)
         /\ Elements(MergedKeys(mine, theirs)) = Keys(mine) \cup Keys(theirs)
         /\ Distinct(MergedKeys(mine, theirs))
<1> DEFINE new == Only(theirs.keys, DOMAIN theirs.at \ DOMAIN mine.at)
<1>1. /\ mine.keys \in Seq(STRING) /\ Keys(mine) = Elements(mine.keys) /\ Distinct(mine.keys)
      /\ DOMAIN mine.at = Keys(mine)
  BY DEF TableOK, Keys, Distinct
<1>2. /\ theirs.keys \in Seq(STRING) /\ Keys(theirs) = Elements(theirs.keys) /\ Distinct(theirs.keys)
      /\ DOMAIN theirs.at = Keys(theirs)
  BY DEF TableOK, Keys, Distinct
<1>3. /\ new \in Seq(STRING) /\ Distinct(new)
      /\ Elements(new) = Elements(theirs.keys) \cap (DOMAIN theirs.at \ DOMAIN mine.at)
  BY <1>2, OnlyShape
<1>4. MergedKeys(mine, theirs) = mine.keys \o new
  BY DEF MergedKeys
<1> HIDE DEF new
<1>5. PICK l \in Nat, n \in Nat : l = Len(mine.keys) /\ n = Len(new)
  BY <1>1, <1>3, LenProperties
<1>6. PICK all : all = mine.keys \o new
  OBVIOUS
<1>7. /\ all \in Seq(STRING) /\ Len(all) = l + n
      /\ \A i \in 1..(l + n) : all[i] = IF i <= l THEN mine.keys[i] ELSE new[i - l]
  BY <1>1, <1>3, <1>5, <1>6, ConcatProperties
<1>8. /\ \A i \in 1..l : all[i] = mine.keys[i] /\ all[i] \in Keys(mine)
      /\ \A i \in (l + 1)..(l + n) :
           i - l \in 1..n /\ all[i] = new[i - l] /\ all[i] \in Keys(theirs) \ Keys(mine)
  <2>1. \A i \in 1..l : i \in 1..(l + n)
    OBVIOUS
  <2>2. \A i \in (l + 1)..(l + n) : i \in 1..(l + n) /\ ~(i <= l) /\ i - l \in 1..n
    OBVIOUS
  <2>3. \A i \in 1..l : mine.keys[i] \in Keys(mine)
    BY <1>1, <1>5 DEF Elements
  <2>4. \A i \in 1..n : new[i] \in Elements(new)
    BY <1>5 DEF Elements
  <2>5. \A i \in 1..n : new[i] \in Keys(theirs) \ Keys(mine)
    BY <1>1, <1>2, <1>3, <2>4
  <2> QED BY <1>7, <2>1, <2>2, <2>3, <2>5
<1>9. \A i \in 1..(l + n) : i \in 1..l \/ i \in (l + 1)..(l + n)
  OBVIOUS
<1>10. Elements(all) = Keys(mine) \cup Keys(theirs)
  <2>1. ASSUME NEW k \in Elements(all) PROVE k \in Keys(mine) \cup Keys(theirs)
    <3>1. PICK i \in 1..(l + n) : k = all[i]
      BY <1>7 DEF Elements
    <3> QED BY <1>8, <1>9, <3>1
  <2>2. ASSUME NEW k \in Keys(mine) PROVE k \in Elements(all)
    <3>1. PICK i \in 1..l : k = mine.keys[i]
      BY <1>1, <1>5 DEF Elements
    <3>2. i \in 1..Len(all) /\ all[i] = k
      BY <1>7, <1>8, <3>1
    <3> QED BY <3>2 DEF Elements
  <2>3. ASSUME NEW k \in Keys(theirs) \ Keys(mine) PROVE k \in Elements(all)
    <3>1. k \in Elements(new)
      BY <1>1, <1>2, <1>3
    <3>2. PICK i \in 1..n : k = new[i]
      BY <1>5, <3>1 DEF Elements
    <3>3. l + i \in 1..(l + n) /\ ~(l + i <= l) /\ (l + i) - l = i
      OBVIOUS
    <3>4. l + i \in 1..Len(all) /\ all[l + i] = k
      BY <1>7, <3>2, <3>3
    <3> QED BY <3>4 DEF Elements
  <2> QED BY <2>1, <2>2, <2>3
<1>11. Distinct(all)
  <2> SUFFICES ASSUME NEW i \in 1..(l + n), NEW j \in 1..(l + n), all[i] = all[j] PROVE i = j
    BY <1>7 DEF Distinct
  <2>1. CASE i \in 1..l /\ j \in 1..l
    BY <1>1, <1>5, <1>8, <2>1 DEF Distinct
  <2>2. CASE i \in (l + 1)..(l + n) /\ j \in (l + 1)..(l + n)
    <3>1. i - l \in 1..n /\ j - l \in 1..n /\ new[i - l] = new[j - l]
      BY <1>8, <2>2
    <3>2. i - l = j - l
      BY <1>3, <1>5, <3>1 DEF Distinct
    <3> QED BY <3>2
  <2>3. CASE (i \in 1..l /\ j \in (l + 1)..(l + n)) \/ (j \in 1..l /\ i \in (l + 1)..(l + n))
    BY <1>8, <2>3
  <2> QED BY <1>9, <2>1, <2>2, <2>3
<1> QED BY <1>4, <1>6, <1>7, <1>10, <1>11

\* The merge of two documents is a document.
LEMMA MergeIsDocument ==
  ASSUME Depth \in Nat, NEW b, DocumentOK(b), NEW o, DocumentOK(o)
  PROVE  DocumentOK(Merge(b, o))
<1>1. PICK r : r = Merge(b, o)
  OBVIOUS
<1> DEFINE T == STRING \cup UNION {Keys(At(r, path)) : path \in Paths(r)}
<1>2. \A path \in Paths(r) : Keys(At(r, path)) \subseteq T
  OBVIOUS
<1>3. STRING \subseteq T
  OBVIOUS
<1> HIDE DEF T
<1>4. Sound(b) /\ Sound(o)
  BY DocumentWithin
<1>5. PICK m : /\ \A path \in Both(b, o) : m[path] = MergeAt(m, b, o, path)
               /\ \A path \in Seq(T) : MergedPath(m, b, o, r, path)
  BY <1>1, <1>2, <1>3, <1>4, PathsMerge
<1>6. <<>> \in Paths(r) /\ Paths(r) \subseteq Seq(T)
  BY <1>2, PathSteps
<1>7. ASSUME NEW path \in Both(b, o), NEW v, v = MergeAt(m, b, o, path)
      PROVE  /\ TableOK(v) /\ LeafOK(v) /\ (Len(path) = Depth => Keys(v) = {})
             /\ IsTable(At(b, path)) /\ IsTable(At(o, path)) => IsTable(v)
  <2> PICK mine : mine = At(b, path)
    OBVIOUS
  <2> PICK theirs : theirs = At(o, path)
    OBVIOUS
  <2>1. /\ TableOK(mine) /\ LeafOK(mine) /\ (Len(path) = Depth => Keys(mine) = {})
        /\ TableOK(theirs) /\ LeafOK(theirs) /\ (Len(path) = Depth => Keys(theirs) = {})
    BY DEF DocumentOK, Both
  <2>2. CASE IsTable(mine) /\ IsTable(theirs)
    <3>1. IsTable(v) /\ Keys(v) = Keys(mine) \cup Keys(theirs)
      BY <1>7, <2>2, MergeAtKeys
    <3>2. /\ v.keys = MergedKeys(mine, theirs) /\ v = Table(v.keys, v.at)
          /\ v.at = [k \in Keys(mine) \cup Keys(theirs) |-> v.at[k]]
      BY <1>7, <2>2, MergeAtTable
    <3>3. /\ MergedKeys(mine, theirs) \in Seq(STRING) /\ Distinct(MergedKeys(mine, theirs))
          /\ Elements(MergedKeys(mine, theirs)) = Keys(mine) \cup Keys(theirs)
      BY <2>1, <2>2, MergedKeysShape
    <3>4. TableOK(v)
      BY <3>1, <3>2, <3>3 DEF TableOK, Distinct
    <3>5. LeafOK(v)
      <4>1. DOMAIN v = {"keys", "at"}
        BY <3>2 DEF Table
      <4>2. DOMAIN Content = {"commands", "names", "dependencies", "addresses"}
        BY DEF Content
      <4> QED BY <4>1, <4>2 DEF LeafOK
    <3>6. Len(path) = Depth => Keys(v) = {}
      BY <2>1, <3>1
    <3> QED BY <3>1, <3>4, <3>5, <3>6
  <2>3. CASE ~(IsTable(mine) /\ IsTable(theirs))
    <3>1. v = theirs
      BY <1>7, <2>3, MergeAtReplaces
    <3> QED BY <2>1, <2>3, <3>1
  <2> QED BY <2>2, <2>3
<1>8. ASSUME NEW path \in Paths(r)
      PROVE  /\ TableOK(At(r, path)) /\ LeafOK(At(r, path))
             /\ Len(path) = Depth => Keys(At(r, path)) = {}
  <2>1. MergedPath(m, b, o, r, path)
    BY <1>5, <1>6
  <2>2. CASE path \in Both(b, o)
    <3>1. At(r, path) = MergeAt(m, b, o, path)
      BY <1>5, <2>1, <2>2 DEF MergedPath
    <3> QED BY <1>7, <2>2, <3>1
  <2>3. CASE path \in Paths(o) \ Paths(b)
    BY <2>1, <2>3 DEF MergedPath, DocumentOK
  <2>4. CASE path \in Paths(b) \ Paths(o)
    BY <2>1, <2>4 DEF MergedPath, DocumentOK
  <2>5. path \in Paths(b) \cup Paths(o)
    BY <2>1 DEF MergedPath
  <2> QED BY <2>2, <2>3, <2>4, <2>5 DEF Both
<1>9. IsTable(r)
  <2>1. <<>> \in Paths(b) /\ <<>> \in Paths(o) /\ At(b, <<>>) = b /\ At(o, <<>>) = o /\ At(r, <<>>) = r
    BY <1>4, PathSteps, AtRoot DEF Sound
  <2>2. MergedPath(m, b, o, r, <<>>)
    BY <1>5, <1>6
  <2>3. r = MergeAt(m, b, o, <<>>)
    BY <1>5, <2>1, <2>2 DEF MergedPath, Both
  <2> QED BY <1>7, <2>1, <2>3 DEF Both, DocumentOK
<1> QED BY <1>1, <1>8, <1>9 DEF DocumentOK

-----------------------------------------------------------------------------
(* The files and the table of the targets.                                 *)

LEMMA InputsFixed == Next => UNCHANGED inputs
BY DEF Next, ReadRakefile, ReadLocal, ResolveTarget, RefuseVariant, VariantsDone, Parse, CheckHeader,
       CheckTarget, TargetsDone, InGraph, RefuseTools, AcceptRakefile, RunCommands, inputs

LEMMA EmptyTableOK ==
  /\ IsTable(EmptyTable) /\ DocumentOK(EmptyTable) /\ EmptyTable.keys = <<>>
  /\ EmptyTable = Table(EmptyTable.keys, EmptyTable.at) /\ EmptyTable.keys \in Seq(STRING)
  /\ EmptyTable.at = [t \in Elements(EmptyTable.keys) |-> EmptyTable.at[t]]
  /\ DOMAIN EmptyTable.at = {} /\ Elements(EmptyTable.keys) = {}
<1>1. EmptyTable.keys = <<>> /\ EmptyTable.at = [k \in {} |-> {}] /\ IsTable(EmptyTable)
  BY DEF EmptyTable, Table, IsTable
<1>2. Elements(EmptyTable.keys) = {} /\ EmptyTable.keys \in Seq(STRING) /\ Len(EmptyTable.keys) = 0
  BY <1>1, EmptySeq DEF Elements
<1>3. EmptyTable = Table(EmptyTable.keys, EmptyTable.at)
  BY <1>1 DEF EmptyTable, Table
<1>4. EmptyTable.at = [t \in Elements(EmptyTable.keys) |-> EmptyTable.at[t]]
  BY <1>1, <1>2
<1>5. DocumentOK(EmptyTable)
  <2>1. Keys(EmptyTable) = {} /\ At(EmptyTable, <<>>) = EmptyTable
    BY <1>1, AtRoot DEF Keys
  <2>2. Paths(EmptyTable) \subseteq {<<>>}
    BY <2>1, DepthAssumption, PathInduction
  <2>3. TableOK(EmptyTable)
    BY <1>2, <1>3, <1>4 DEF TableOK
  <2>4. LeafOK(EmptyTable)
    <3>1. DOMAIN EmptyTable = {"keys", "at"}
      BY DEF EmptyTable, Table
    <3>2. DOMAIN Content = {"commands", "names", "dependencies", "addresses"}
      BY DEF Content
    <3> QED BY <3>1, <3>2 DEF LeafOK
  <2> QED BY <1>1, <2>1, <2>2, <2>3, <2>4 DEF DocumentOK
<1> QED BY <1>1, <1>2, <1>3, <1>4, <1>5

\* What is somewhere in a document.
InDocument(v) == \E d : DocumentOK(d) /\ v \in Within(d)

\* It is sound, and so is whatever it has inside.
LEMMA InDocumentSteps ==
  ASSUME NEW v, InDocument(v)
  PROVE  TableOK(v) /\ LeafOK(v) /\ \A k \in Keys(v) : InDocument(v.at[k])
<1>1. PICK d : DocumentOK(d) /\ v \in Within(d)
  BY DEF InDocument
<1>2. TableOK(v) /\ LeafOK(v) /\ \A k \in Keys(v) : v.at[k] \in Within(d)
  BY <1>1, DepthAssumption, DocumentWithin
<1> QED BY <1>1, <1>2 DEF InDocument

LEMMA EntryLeaves ==
  ASSUME NEW value, InDocument(value)
  PROVE  /\ LeavesOK(value)
         /\ IsTable(value) => TableOK(value) /\ \A k \in DOMAIN value.at : LeavesOK(value.at[k])
<1>1. \A v : InDocument(v) => LeavesOK(v)
  <2> SUFFICES ASSUME NEW v, InDocument(v), NEW w \in Inside(v) PROVE LeafOK(w)
    BY DEF LeavesOK
  <2>1. PICK k \in Keys(v) : w = v.at[k]
    BY DEF Inside, Keys
  <2> QED BY <2>1, InDocumentSteps
<1>2. TableOK(value) /\ \A k \in Keys(value) : InDocument(value.at[k])
  BY InDocumentSteps
<1>3. IsTable(value) => Keys(value) = DOMAIN value.at
  BY DEF Keys
<1> QED BY <1>1, <1>2, <1>3

\* The target section of a document is a sound table of targets.
LEMMA SectionOK ==
  ASSUME NEW d, DocumentOK(d), NEW section, IsTable(section),
         section = IF "target" \in DOMAIN d.at THEN d.at["target"] ELSE EmptyTable
  PROVE  /\ TableOK(section)
         /\ \A t \in DOMAIN section.at : InDocument(section.at[t]) /\ LeavesOK(section.at[t])
<1>1. InDocument(d)
  BY DepthAssumption, DocumentWithin DEF InDocument
<1>2. InDocument(EmptyTable)
  BY EmptyTableOK, DepthAssumption, DocumentWithin DEF InDocument
<1>3. InDocument(section)
  <2>1. CASE "target" \in DOMAIN d.at
    <3>1. "target" \in Keys(d) /\ section = d.at["target"]
      BY <2>1 DEF Keys, DocumentOK
    <3> QED BY <1>1, <3>1, InDocumentSteps
  <2>2. CASE "target" \notin DOMAIN d.at
    BY <1>2, <2>2
  <2> QED BY <2>1, <2>2
<1>4. TableOK(section) /\ \A t \in Keys(section) : InDocument(section.at[t])
  BY <1>3, InDocumentSteps
<1>5. Keys(section) = DOMAIN section.at
  BY DEF Keys
<1> QED BY <1>4, <1>5, EntryLeaves

LEMMA SectionResolved ==
  ASSUME DocumentOK(doc), IsTable(Part("target"))
  PROVE  /\ TableOK(Part("target")) /\ Names = Part("target").keys /\ Names \in Seq(STRING)
         /\ Len(Names) \in Nat /\ DOMAIN Part("target").at = Elements(Names)
         /\ \A m, n \in 1..Len(Names) : Names[m] = Names[n] => m = n
         /\ \A t \in DOMAIN Part("target").at : InDocument(Part("target").at[t])
<1>1. /\ TableOK(Part("target"))
      /\ \A t \in DOMAIN Part("target").at : InDocument(Part("target").at[t])
  BY SectionOK DEF Part
<1>2. Names = Part("target").keys
  BY DEF Names
<1> QED BY <1>1, <1>2, LenProperties DEF TableOK

\* The base fields of a table are fields of it.
LEMMA BaseShape ==
  ASSUME NEW value, IsTable(value), TableOK(value)
  PROVE  /\ IsTable(Base(value)) /\ DOMAIN Base(value).at = BaseKeys \cap DOMAIN value.at
         /\ Elements(Base(value).keys) = BaseKeys \cap DOMAIN value.at
         /\ Base(value).keys = <<>> => BaseKeys \cap DOMAIN value.at = {}
         /\ \A k \in DOMAIN Base(value).at : Base(value).at[k] = value.at[k]
         /\ LeavesOK(value) => LeavesOK(Base(value))
         /\ DOMAIN value.at \subseteq BaseKeys => Base(value) = value
<1> DEFINE at == [k \in BaseKeys \cap DOMAIN value.at |-> value.at[k]]
           keys == Only(value.keys, BaseKeys)
<1>1. Base(value) = Table(keys, at)
  BY DEF Base
<1>2. IsTable(Base(value)) /\ Base(value).keys = keys /\ Base(value).at = at
  BY <1>1 DEF Table, IsTable
<1>3. /\ value = Table(value.keys, value.at) /\ value.keys \in Seq(STRING)
      /\ DOMAIN value.at = Elements(value.keys)
      /\ value.at = [k \in DOMAIN value.at |-> value.at[k]]
  BY DEF TableOK
<1>4. /\ Elements(keys) = Elements(value.keys) \cap BaseKeys
      /\ Elements(value.keys) \subseteq BaseKeys => keys = value.keys
  BY <1>3, OnlyShape
<1> HIDE DEF keys
<1>5. keys = <<>> => Elements(keys) = {}
  BY EmptySeq DEF Elements
<1>6. LeavesOK(value) => LeavesOK(Base(value))
  BY <1>2 DEF LeavesOK, Inside
<1>7. DOMAIN value.at \subseteq BaseKeys => Base(value) = value
  <2> SUFFICES ASSUME DOMAIN value.at \subseteq BaseKeys PROVE Base(value) = value
    OBVIOUS
  <2>1. BaseKeys \cap DOMAIN value.at = DOMAIN value.at
    OBVIOUS
  <2>2. at = value.at
    BY <1>3, <2>1
  <2> QED BY <1>1, <1>3, <1>4, <2>2
<1> QED BY <1>2, <1>3, <1>4, <1>5, <1>6, <1>7

\* A target of the table is replaced, or taken out of it.
LEMMA ReplaceShape ==
  ASSUME ResolvedOK, NEW value, LeavesOK(value), Replace(value)
  PROVE  /\ IsTable(resolved') /\ ResolvedOK'
         /\ DOMAIN resolved'.at = DOMAIN resolved.at
         /\ \A t \in DOMAIN resolved.at :
              resolved'.at[t] = IF t = Names[pos] THEN value ELSE resolved.at[t]
<1> DEFINE at == [resolved.at EXCEPT ![Names[pos]] = value]
<1>1. resolved = Table(resolved.keys, resolved.at) /\ resolved.keys \in Seq(STRING)
      /\ DOMAIN resolved.at = Elements(resolved.keys)
      /\ resolved.at = [t \in DOMAIN resolved.at |-> resolved.at[t]]
  BY DEF ResolvedOK
<1>2. resolved' = [resolved EXCEPT !.at[Names[pos]] = value]
  BY DEF Replace
<1>3. resolved' = Table(resolved.keys, at)
  BY <1>1, <1>2 DEF Table
<1>4. IsTable(resolved') /\ resolved'.keys = resolved.keys /\ resolved'.at = at
  BY <1>3 DEF Table, IsTable
<1>5. /\ DOMAIN at = DOMAIN resolved.at /\ at = [t \in DOMAIN at |-> at[t]]
      /\ \A t \in DOMAIN resolved.at : at[t] = IF t = Names[pos] THEN value ELSE resolved.at[t]
  BY <1>1
<1>6. \A t \in Elements(resolved.keys) : LeavesOK(at[t])
  BY <1>1, <1>5 DEF ResolvedOK
<1> HIDE DEF at
<1>7. ResolvedOK'
  BY <1>1, <1>3, <1>4, <1>5, <1>6 DEF ResolvedOK
<1> QED BY <1>4, <1>5, <1>7

LEMMA ExcludeShape ==
  ASSUME ResolvedOK, NEW name, Exclude(name)
  PROVE  /\ IsTable(resolved') /\ ResolvedOK'
         /\ DOMAIN resolved'.at = DOMAIN resolved.at \ {name}
         /\ \A t \in DOMAIN resolved.at \ {name} : resolved'.at[t] = resolved.at[t]
<1> DEFINE at == [k \in DOMAIN resolved.at \ {name} |-> resolved.at[k]]
           keys == Only(resolved.keys, DOMAIN resolved.at \ {name})
<1>1. resolved.keys \in Seq(STRING) /\ DOMAIN resolved.at = Elements(resolved.keys)
  BY DEF ResolvedOK
<1>2. resolved' = Table(keys, at)
  BY DEF Exclude
<1>3. IsTable(resolved') /\ resolved'.keys = keys /\ resolved'.at = at
  BY <1>2 DEF Table, IsTable
<1>4. keys \in Seq(STRING) /\ Elements(keys) = DOMAIN resolved.at \ {name}
  BY <1>1, OnlyShape
<1>5. /\ DOMAIN at = DOMAIN resolved.at \ {name} /\ at = [t \in DOMAIN at |-> at[t]]
      /\ \A t \in DOMAIN resolved.at \ {name} : at[t] = resolved.at[t]
  OBVIOUS
<1>6. \A t \in Elements(keys) : LeavesOK(at[t])
  BY <1>1, <1>4, <1>5 DEF ResolvedOK
<1> HIDE DEF at, keys
<1>7. ResolvedOK'
  BY <1>2, <1>3, <1>4, <1>5, <1>6 DEF ResolvedOK
<1> QED BY <1>3, <1>5, <1>7

LEMMA PhaseHolds ==
  ASSUME PhaseOK, Next
  PROVE  PhaseOK'
<1> USE DEF PhaseOK, Before, Checking, Outcome
<1>1. CASE ReadRakefile \/ ReadLocal \/ ResolveTarget \/ RefuseVariant \/ VariantsDone
  BY <1>1 DEF ReadRakefile, ReadLocal, ResolveTarget, RefuseVariant, VariantsDone
<1>2. CASE Parse \/ CheckHeader \/ CheckTarget \/ TargetsDone
  BY <1>2 DEF Parse, CheckHeader, CheckTarget, TargetsDone
<1>3. CASE CheckGraph
  BY <1>3 DEF CheckGraph, CheckReferences, ReferencesDone, StartTarget, Descend, ReportCycle,
       Finish, Accept, AtDependency
<1>4. CASE RefuseTools \/ AcceptRakefile \/ RunCommands
  BY <1>4 DEF RefuseTools, AcceptRakefile, RunCommands
<1> QED BY <1>1, <1>2, <1>3, <1>4 DEF Next, InGraph

\* The target that is being resolved, with what may take its place.
LEMMA CurrentOK ==
  ASSUME DocInv, PhaseOK, ResolveTarget
  PROVE  /\ IsTable(Part("target")) /\ IsTable(resolved) /\ ResolvedOK
         /\ pos \in 1..Len(Names) /\ Names[pos] \in DOMAIN Part("target").at
         /\ InDocument(Current) /\ LeavesOK(Current) /\ Match(Current) \subseteq Variants(Current)
         /\ \A k \in Match(Current) : LeavesOK(Current.at[k])
         /\ LeavesOK(Base(Current)) \/ Variants(Current) = {}
         /\ Variants(Current) # {} => IsTable(Current) /\ TableOK(Current)
<1>1. IsTable(Part("target"))
  <2>1. Names # <<>>
    BY EmptySeq DEF ResolveTarget, PhaseOK
  <2> QED BY <2>1 DEF Names
<1>2. IsTable(resolved) /\ ResolvedOK /\ DocumentOK(doc)
  BY <1>1 DEF DocInv, ResolveTarget
<1>3. pos \in 1..Len(Names) /\ Names[pos] \in DOMAIN Part("target").at
  BY <1>1, <1>2, SectionResolved DEF ResolveTarget, PhaseOK, Elements
<1>4. InDocument(Current)
  BY <1>1, <1>2, <1>3, SectionResolved DEF Current
<1>5. /\ LeavesOK(Current)
      /\ IsTable(Current) =>
           TableOK(Current) /\ \A k \in DOMAIN Current.at : LeavesOK(Current.at[k])
  BY <1>4, EntryLeaves
<1>6. Match(Current) \subseteq Variants(Current) /\ Variants(Current) \subseteq Keys(Current)
  BY DEF Match, Variants
<1>7. Variants(Current) # {} => IsTable(Current)
  BY <1>6 DEF Keys
<1>8. IsTable(Current) => LeavesOK(Base(Current)) /\ Keys(Current) = DOMAIN Current.at
  BY <1>5, BaseShape DEF Keys
<1> QED BY <1>1, <1>2, <1>3, <1>4, <1>5, <1>6, <1>7, <1>8

LEMMA FilesRead ==
  ASSUME InputsInv
  PROVE  /\ FileError(base) = "none" => base.is = "toml"
         /\ base.is = "toml" => DocumentOK(base.value)
         /\ local.is = "toml" => DocumentOK(local.value)
         /\ base.is = "toml" /\ local.is = "toml" => DocumentOK(Merge(base.value, local.value))
         /\ host \in Hosts /\ user.nest \in Seq(STRING)
<1>1. /\ FileError(base) = "none" => base.is = "toml"
      /\ base.is = "toml" => DocumentOK(base.value)
      /\ local.is = "toml" => DocumentOK(local.value)
      /\ host \in Hosts /\ user.nest \in Seq(STRING)
  BY DEF InputsInv, InputOK, FileOK, FileError
<1> QED BY <1>1, DepthAssumption, MergeIsDocument

LEMMA DocHolds ==
  ASSUME PhaseOK, InputsInv, DocInv, Next
  PROVE  DocInv'
<1>1. CASE ReadRakefile
  <2>1. DocumentOK(doc')
    BY <1>1, FilesRead DEF ReadRakefile, DocInv
  <2>2. phase' = "local" => base'.is = "toml" /\ doc' = base'.value
    BY <1>1, FilesRead, InputsFixed DEF ReadRakefile, Outcome, inputs
  <2>3. phase' # "variants" /\ resolved' = resolved
    BY <1>1 DEF ReadRakefile, Outcome, PhaseOK
  <2> QED BY <2>1, <2>2, <2>3 DEF DocInv, ResolvedOK
<1>2. CASE ReadLocal
  <2>1. DocumentOK(doc')
    BY <1>2, FilesRead DEF ReadLocal, DocInv
  <2>2. /\ phase' # "local" /\ resolved' = Part("target")'
        /\ resolved' = IF "target" \in DOMAIN doc'.at THEN doc'.at["target"] ELSE EmptyTable
    BY <1>2 DEF ReadLocal, Outcome, Part
  <2>3. IsTable(resolved') => /\ TableOK(resolved')
                              /\ \A t \in DOMAIN resolved'.at : LeavesOK(resolved'.at[t])
    BY <2>1, <2>2, SectionOK
  <2>4. IsTable(resolved') => ResolvedOK'
    BY <2>3 DEF ResolvedOK, TableOK
  <2>5. base'.is = "toml" /\ doc' = IF local'.is = "toml" THEN Merge(base'.value, local'.value)
                                    ELSE base'.value
    BY <1>2 DEF ReadLocal, DocInv, inputs
  <2> QED BY <2>1, <2>2, <2>4, <2>5 DEF DocInv
<1>3. CASE ResolveTarget
  <2>1. /\ doc' = doc /\ phase' = "variants" /\ phase = "variants"
        /\ UNCHANGED inputs /\ Part("target")' = Part("target")
    BY <1>3 DEF ResolveTarget, Part
  <2>2. IsTable(resolved') /\ ResolvedOK'
    <3>1. CASE UNCHANGED <<resolved, graph>>
      BY <1>3, <3>1, CurrentOK DEF ResolvedOK
    <3>2. ASSUME NEW k \in Match(Current), Replace(Current.at[k]) PROVE IsTable(resolved') /\ ResolvedOK'
      BY <1>3, <3>2, CurrentOK, ReplaceShape
    <3>3. CASE Variants(Current) # {} /\ Replace(Base(Current))
      BY <1>3, <3>3, CurrentOK, ReplaceShape
    <3>4. CASE Exclude(Names[pos])
      BY <1>3, <3>4, CurrentOK, ExcludeShape
    <3>5. ASSUME Match(Current) # {}, Replace(Current.at[CHOOSE k \in Match(Current) : TRUE])
          PROVE  \E k \in Match(Current) : Replace(Current.at[k])
      BY <3>5
    <3> QED BY <1>3, <3>1, <3>2, <3>3, <3>4, <3>5 DEF ResolveTarget
  <2> QED BY <2>1, <2>2 DEF DocInv, inputs
<1>4. CASE UNCHANGED <<doc, resolved>> /\ phase' # "local" /\ (phase' = "variants" => phase = "variants")
  <2>1. Part("target")' = Part("target")
    BY <1>4 DEF Part
  <2>2. UNCHANGED <<base, local>>
    BY InputsFixed DEF inputs
  <2> QED BY <1>4, <2>1, <2>2 DEF DocInv, ResolvedOK
<1>5. CASE RefuseVariant \/ VariantsDone \/ Parse \/ CheckHeader \/ CheckTarget \/ TargetsDone
  BY <1>4, <1>5 DEF RefuseVariant, VariantsDone, Parse, CheckHeader, CheckTarget, TargetsDone, Outcome, loaded
<1>6. CASE InGraph
  BY <1>4, <1>6 DEF InGraph, CheckGraph, CheckReferences, ReferencesDone, StartTarget, Descend, ReportCycle,
       Finish, Accept, AtDependency, loaded
<1>7. CASE RefuseTools \/ AcceptRakefile \/ RunCommands
  BY <1>4, <1>7 DEF RefuseTools, AcceptRakefile, RunCommands, Outcome, loaded
<1> QED BY <1>1, <1>2, <1>3, <1>5, <1>6, <1>7 DEF Next

-----------------------------------------------------------------------------
(* The typed targets.                                                      *)

\* Before the targets are typed a step only sets targets aside; afterwards it leaves
\* the graph alone.
LEMMA GraphSteps ==
  ASSUME PhaseOK, GraphInv, Next
  PROVE  \/ Parse
         \/ /\ phase \notin Before /\ phase' \notin Before /\ UNCHANGED <<graph, doc, targets>>
            /\ Parsed' => Parsed
         \/ /\ phase \in Before /\ ~Parsed' /\ UNCHANGED targets
            /\ graph' = [graph EXCEPT !.excluded = graph'.excluded]
            /\ phase' \in {"read", "local"} => graph'.excluded = {}
<1> USE DEF PhaseOK, Before, Checking, Outcome, Parsed, loaded
<1>1. ASSUME UNCHANGED graph
      PROVE  graph' = [graph EXCEPT !.excluded = graph'.excluded]
  BY <1>1 DEF GraphInv
<1>2. CASE ReadRakefile \/ ReadLocal \/ RefuseVariant \/ VariantsDone
  BY <1>1, <1>2 DEF ReadRakefile, ReadLocal, RefuseVariant, VariantsDone, FileError, GraphInv
<1>3. CASE ResolveTarget
  <2>1. graph' = [graph EXCEPT !.excluded = graph'.excluded]
    BY <1>1, <1>3 DEF ResolveTarget, Replace, Exclude, GraphInv
  <2> QED BY <1>3, <2>1 DEF ResolveTarget
<1>4. CASE CheckHeader \/ CheckTarget \/ TargetsDone \/ RefuseTools \/ AcceptRakefile \/ RunCommands
  BY <1>4 DEF CheckHeader, CheckTarget, TargetsDone, RefuseTools, AcceptRakefile, RunCommands
<1>5. CASE InGraph
  BY <1>5 DEF InGraph, CheckGraph, CheckReferences, ReferencesDone, StartTarget, Descend, ReportCycle,
       Finish, Accept, AtDependency
<1> QED BY <1>2, <1>3, <1>4, <1>5 DEF Next

LEMMA DependenciesTyped ==
  ASSUME NEW value, LeavesOK(value), TypedTarget(value), NEW skip
  PROVE  Dependencies(value, skip) \in Seq(STRING)
<1>1. Field(value, "depends_on", <<>>) \in Seq([skip : BOOLEAN, to : STRING])
  <2>1. CASE "depends_on" \in DOMAIN value.at
    <3>1. "dependencies" \in DOMAIN value.at["depends_on"] /\ value.at["depends_on"] \in Inside(value)
      BY <2>1 DEF TypedTarget, Kind, Is, Inside
    <3>2. value.at["depends_on"]["dependencies"] \in Seq([skip : BOOLEAN, to : STRING])
      BY <3>1 DEF LeavesOK, LeafOK, Content
    <3> QED BY <2>1, <3>2 DEF Field, Kind
  <2>2. CASE "depends_on" \notin DOMAIN value.at
    BY <2>2, EmptySeq DEF Field
  <2> QED BY <2>1, <2>2
<1> DEFINE raw == Field(value, "depends_on", <<>>)
           listed == Only(raw, {d \in Elements(raw) : d.skip = skip /\ d.to # "none"})
<1> HIDE DEF raw
<1>2. listed \in Seq([skip : BOOLEAN, to : STRING])
  BY <1>1, OnlyShape DEF raw
<1> HIDE DEF listed
<1>3. Len(listed) \in Nat /\ \A n \in 1..Len(listed) : listed[n].to \in STRING
  <2>1. \A n \in 1..Len(listed) : listed[n] \in [skip : BOOLEAN, to : STRING]
    BY <1>2, ElementOfSeq
  <2> QED BY <1>2, <2>1, LenProperties
<1>4. [n \in 1..Len(listed) |-> listed[n].to] \in Seq(STRING)
  <2>1. [n \in 1..Len(listed) |-> listed[n].to] \in [1..Len(listed) -> STRING]
    BY <1>3
  <2> QED BY <1>3, <2>1, SeqDef
<1> QED BY <1>4 DEF Dependencies, listed, raw

LEMMA FieldTyped ==
  ASSUME NEW value, LeavesOK(value), TypedTarget(value)
  PROVE  /\ Field(value, "command", <<>>) \in Seq(CommandType)
         /\ Field(value, "depends_on", <<>>) \in Seq([skip : BOOLEAN, to : STRING])
         /\ Field(value, "tools", <<>>) \in Seq(STRING)
<1>1. ASSUME NEW key \in {"command", "depends_on", "tools"}
      PROVE  Field(value, key, <<>>) \in Content[Kind[key]]
  <2>1. CASE key \in DOMAIN value.at
    <3>1. Kind[key] \in DOMAIN value.at[key] /\ value.at[key] \in Inside(value)
      BY <2>1 DEF TypedTarget, Kind, Is, Inside
    <3>2. Kind[key] \in DOMAIN Content
      BY DEF Kind, Content
    <3>3. value.at[key][Kind[key]] \in Content[Kind[key]]
      BY <3>1, <3>2 DEF LeavesOK, LeafOK
    <3> QED BY <2>1, <3>3 DEF Field
  <2>2. CASE key \notin DOMAIN value.at
    <3>1. Field(value, key, <<>>) = <<>>
      BY <2>2 DEF Field
    <3>2. Content[Kind["command"]] = Seq(CommandType) /\ Content[Kind["tools"]] = Seq(STRING)
          /\ Content[Kind["depends_on"]] = Seq([skip : BOOLEAN, to : STRING])
      BY DEF Content, Kind
    <3>3. <<>> \in Content[Kind[key]]
      BY <3>2, EmptySeq
    <3> QED BY <3>1, <3>3
  <2> QED BY <2>1, <2>2
<1> QED BY <1>1 DEF Content, Kind

LEMMA ParseTypes ==
  ASSUME PhaseOK, DocInv, GraphInv, Parse, Typed
  PROVE  GraphInv'
<1>1. /\ resolved.keys \in Seq(STRING) /\ DOMAIN resolved.at = Elements(resolved.keys)
      /\ \A t \in DOMAIN resolved.at : LeavesOK(resolved.at[t]) /\ TypedTarget(resolved.at[t])
  BY DEF Typed, DocInv, ResolvedOK
<1> DEFINE dependsOn == [t \in DOMAIN resolved.at |-> Dependencies(resolved.at[t], FALSE)]
           skipDeps == [t \in DOMAIN resolved.at |-> Dependencies(resolved.at[t], TRUE)]
           row(t) == [commands |-> Field(resolved.at[t], "command", <<>>),
                      raw |-> Field(resolved.at[t], "depends_on", <<>>),
                      tools |-> Field(resolved.at[t], "tools", <<>>)]
<1>2. graph' = [declared |-> resolved.keys, excluded |-> graph.excluded,
                dependsOn |-> dependsOn, skipDeps |-> skipDeps]
  BY DEF Parse, GraphInv
<1>3. /\ graph'.declared = resolved.keys /\ graph'.excluded = graph.excluded
      /\ graph'.dependsOn = dependsOn /\ graph'.skipDeps = skipDeps
  BY <1>2
<1>4. Known' = DOMAIN resolved.at
  BY <1>1, <1>3 DEF Known, Elements
<1>5. /\ dependsOn \in [DOMAIN resolved.at -> Seq(STRING)]
      /\ skipDeps \in [DOMAIN resolved.at -> Seq(STRING)]
  BY <1>1, DependenciesTyped
<1>6. targets' = [t \in DOMAIN resolved.at |-> row(t)]
  BY DEF Parse
<1>7. \A t \in DOMAIN resolved.at : row(t) \in TargetType
  BY <1>1, FieldTyped DEF TargetType
<1> HIDE DEF row, dependsOn, skipDeps
<1>8. targets' \in [Known' -> TargetType]
  BY <1>4, <1>6, <1>7
<1>9. ToolsTyped'
  BY DEF Parse, Typed, ToolsTyped, Part, Category
<1>10. phase' \notin {"read", "local"}
  BY DEF Parse, Outcome
<1> QED BY <1>1, <1>2, <1>3, <1>4, <1>5, <1>8, <1>9, <1>10 DEF GraphInv

LEMMA GraphHolds ==
  ASSUME PhaseOK, DocInv, GraphInv, Next
  PROVE  GraphInv'
<1>1. CASE Parse /\ Typed
  BY <1>1, ParseTypes
<1>2. CASE Parse /\ ~Typed
  <2>1. /\ UNCHANGED <<graph, targets, doc>> /\ phase' = "done" /\ verdict' = "Parse"
    BY <1>2 DEF Parse, Outcome, If
  <2> QED BY <2>1 DEF GraphInv, Parsed, Checking, Known
<1>3. CASE /\ phase \notin Before /\ phase' \notin Before /\ UNCHANGED <<graph, doc, targets>>
           /\ Parsed' => Parsed
  BY <1>3 DEF GraphInv, Before, Known, ToolsTyped, Part, Category
<1>4. CASE /\ phase \in Before /\ ~Parsed' /\ UNCHANGED targets
           /\ graph' = [graph EXCEPT !.excluded = graph'.excluded]
           /\ phase' \in {"read", "local"} => graph'.excluded = {}
  <2>1. /\ graph'.declared = graph.declared /\ graph'.dependsOn = graph.dependsOn
        /\ graph'.skipDeps = graph.skipDeps
        /\ graph' = [declared |-> graph'.declared, excluded |-> graph'.excluded,
                     dependsOn |-> graph'.dependsOn, skipDeps |-> graph'.skipDeps]
    BY <1>4 DEF GraphInv
  <2>2. Known' = Known
    BY <2>1 DEF Known
  <2> QED BY <1>4, <2>1, <2>2 DEF GraphInv
<1> QED BY <1>1, <1>2, <1>3, <1>4, GraphSteps

LEMMA LoadTypeInitially == Init => LoadType
<1> SUFFICES ASSUME Init PROVE LoadType
  OBVIOUS
<1>1. PhaseOK
  BY DEF Init, GraphInit, PhaseOK, Before
<1>2. InputsInv
  <2>1. PICK in \in Inputs : base = in.base /\ local = in.local /\ host = in.host /\ user = in.user
    BY DEF Init
  <2> QED BY <2>1, InputsAssumption DEF InputsInv, InputOK
<1>3. DocInv
  BY EmptyTableOK DEF Init, GraphInit, DocInv, ResolvedOK
<1>4. GraphInv
  <2>1. graph = NoGraph /\ phase = "read" /\ verdict = "pending"
    BY DEF Init, GraphInit
  <2>2. Known = {}
    BY <2>1, EmptySeq DEF Known, Elements, NoGraph
  <2> QED BY <2>1, <2>2, EmptySeq DEF GraphInv, NoGraph, Parsed, Checking
<1> QED BY <1>1, <1>2, <1>3, <1>4 DEF LoadType

LEMMA LoadTypeHolds == LoadType /\ [Next]_vars => LoadType'
<1> SUFFICES ASSUME LoadType, [Next]_vars PROVE LoadType'
  OBVIOUS
<1>1. CASE Next
  BY <1>1, PhaseHolds, DocHolds, GraphHolds, InputsFixed DEF LoadType, InputsInv, inputs
<1>2. CASE UNCHANGED vars
  BY <1>2 DEF LoadType, PhaseOK, InputsInv, DocInv, ResolvedOK, GraphInv, Known, Parsed, ToolsTyped, Part,
       Category, vars, graphVars, inputs, loaded
<1> QED BY <1>1, <1>2

\* There is a host for every word the gates know, with any architecture.
LEMMA HostsCover ==
  \A k \in KnownOs \cup KnownFamily, a \in KnownArch :
    \E h \in Hosts : k \in {h.os, h.family} /\ h.arch = a
<1> SUFFICES ASSUME NEW k \in KnownOs \cup KnownFamily, NEW a \in KnownArch
             PROVE  \E h \in Hosts : k \in {h.os, h.family} /\ h.arch = a
  OBVIOUS
<1> DEFINE H(o) == [os |-> o, family |-> IF o = "windows" THEN "windows" ELSE "unix", arch |-> a]
<1>1. \A o \in KnownOs : H(o) \in Hosts
  BY DEF Hosts
<1>2. /\ H("linux").os = "linux" /\ H("linux").family = "unix"
      /\ H("macos").os = "macos" /\ H("windows").os = "windows"
      /\ \A o : H(o).arch = a
  OBVIOUS
<1> HIDE DEF H
<1>3. H("linux") \in Hosts /\ H("macos") \in Hosts /\ H("windows") \in Hosts
  BY <1>1 DEF KnownOs
<1> QED BY <1>2, <1>3 DEF KnownOs, KnownFamily

-----------------------------------------------------------------------------
(* The variants.                                                           *)

\* What becomes of the target that is resolved; the others are left alone.
LEMMA ResolveSettles ==
  ASSUME LoadType, VariantsInv, ResolveTarget, NEW name, name = Names[pos]
  PROVE  /\ Settled(name)'
         /\ \A t : t # name =>
              /\ t \in DOMAIN resolved'.at <=> t \in DOMAIN resolved.at
              /\ t \in DOMAIN resolved.at => resolved'.at[t] = resolved.at[t]
              /\ t \in graph'.excluded <=> t \in graph.excluded
<1>1. /\ IsTable(Part("target")) /\ ResolvedOK /\ pos \in 1..Len(Names)
      /\ LeavesOK(Current) /\ \A k \in Match(Current) : LeavesOK(Current.at[k])
      /\ LeavesOK(Base(Current)) \/ Variants(Current) = {}
  BY CurrentOK DEF LoadType
<1>2. name \in DOMAIN resolved.at \ graph.excluded /\ resolved.at[name] = Current
  BY <1>1 DEF VariantsInv, ResolveTarget, Current
<1>3. UNCHANGED <<doc, host>> /\ Understood(Current)
  BY DEF ResolveTarget, inputs
<1>4. Part("target")' = Part("target") /\ Part("target").at[name] = Current
  BY <1>3 DEF Part, Current
<1> DEFINE Kept == \A t : t # name =>
              /\ t \in DOMAIN resolved'.at <=> t \in DOMAIN resolved.at
              /\ t \in DOMAIN resolved.at => resolved'.at[t] = resolved.at[t]
              /\ t \in graph'.excluded <=> t \in graph.excluded
           Stays(value) == /\ name \in DOMAIN resolved'.at \ graph'.excluded
                           /\ resolved'.at[name] = value
<1>5. ASSUME NEW value, LeavesOK(value), Replace(value) PROVE Kept /\ Stays(value)
  <2>1. UNCHANGED graph
    BY <1>5 DEF Replace
  <2> QED BY <1>1, <1>2, <1>5, <2>1, ReplaceShape
<1>6. ASSUME Exclude(name)
      PROVE  Kept /\ name \notin DOMAIN resolved'.at /\ name \in graph'.excluded
  <2>1. graph'.excluded = graph.excluded \cup {name}
    BY <1>6 DEF Exclude, LoadType, GraphInv
  <2> QED BY <1>1, <1>6, <2>1, ExcludeShape
<1>7. CASE Variants(Current) = {}
  <2>1. UNCHANGED <<resolved, graph>>
    BY <1>7 DEF ResolveTarget
  <2>2. Kept /\ Stays(Current)
    BY <1>2, <2>1
  <2> QED BY <1>3, <1>4, <1>7, <2>2 DEF Settled, Match
<1>8. CASE Variants(Current) # {} /\ Match(Current) # {}
  <2>1. PICK k \in Match(Current) : Replace(Current.at[k])
    BY <1>8 DEF ResolveTarget
  <2>2. Kept /\ Stays(Current.at[k])
    BY <1>1, <1>5, <2>1
  <2> QED BY <1>3, <1>4, <1>8, <2>1, <2>2 DEF Settled, Match
<1>9. CASE Variants(Current) # {} /\ Match(Current) = {} /\ Base(Current).keys # <<>>
  <2>1. Replace(Base(Current))
    BY <1>9 DEF ResolveTarget
  <2>2. Kept /\ Stays(Base(Current))
    BY <1>1, <1>5, <1>9, <2>1
  <2> QED BY <1>3, <1>4, <1>9, <2>2 DEF Settled, Match
<1>10. CASE Variants(Current) # {} /\ Match(Current) = {} /\ Base(Current).keys = <<>>
  <2>1. Exclude(name)
    BY <1>10 DEF ResolveTarget
  <2> QED BY <1>3, <1>4, <1>6, <1>10, <2>1 DEF Settled, Match
<1> QED BY <1>7, <1>8, <1>9, <1>10

LEMMA VariantsHold ==
  ASSUME LoadType, VariantsInv, Next
  PROVE  VariantsInv'
<1> USE DEF LoadType, PhaseOK, Before, Checking, Outcome
<1>1. CASE ReadLocal
  <2>1. phase' \notin {"parse", "header"}
    BY <1>1 DEF ReadLocal
  <2> SUFFICES ASSUME NEW n \in 1..Len(Names')
               PROVE  /\ ~(n < pos') /\ Names'[n] \in DOMAIN resolved'.at \ graph'.excluded
                      /\ resolved'.at[Names'[n]] = (Part("target")').at[Names'[n]]
    BY <2>1 DEF VariantsInv
  <2>2. pos' = 1 /\ graph'.excluded = {}
    BY <1>1 DEF ReadLocal, GraphInv
  <2>3. DocumentOK(doc')
    BY <1>1, DocHolds DEF DocInv
  <2>4. /\ resolved' = Part("target")'
        /\ resolved' = IF "target" \in DOMAIN doc'.at THEN doc'.at["target"] ELSE EmptyTable
    BY <1>1 DEF ReadLocal, Part
  <2>5. IsTable(Part("target")') /\ Names' = resolved'.keys
    BY <2>4, EmptySeq DEF Names
  <2>6. TableOK(resolved')
    BY <2>3, <2>4, <2>5, SectionOK
  <2>7. Names'[n] \in DOMAIN resolved'.at
    BY <2>4, <2>5, <2>6 DEF TableOK, Elements
  <2> QED BY <2>2, <2>4, <2>7
<1>2. CASE ResolveTarget
  <2>1. /\ UNCHANGED <<doc, host>> /\ phase' = "variants" /\ pos' = pos + 1 /\ phase = "variants"
        /\ pos \in 1..Len(Names)
    BY <1>2, CurrentOK DEF ResolveTarget, inputs
  <2>2. UNCHANGED <<Names, Part("target")>>
    BY <2>1 DEF Names, Part
  <2>3. \A n \in 1..Len(Names) : Names[n] = Names[pos] => n = pos
    BY <1>2, <2>1, CurrentOK, SectionResolved DEF DocInv
  <2>4. ASSUME NEW n \in 1..Len(Names)
        PROVE  IF n < pos' THEN Settled(Names[n])'
               ELSE /\ Names[n] \in DOMAIN resolved'.at \ graph'.excluded
                    /\ resolved'.at[Names[n]] = Part("target").at[Names[n]]
    <3>1. CASE n = pos
      BY <1>2, <2>1, <2>2, <3>1, ResolveSettles
    <3>2. CASE n # pos
      <4>1. PICK t : t = Names[n]
        OBVIOUS
      <4>2. /\ t \in DOMAIN resolved'.at <=> t \in DOMAIN resolved.at
            /\ t \in DOMAIN resolved.at => resolved'.at[t] = resolved.at[t]
            /\ t \in graph'.excluded <=> t \in graph.excluded
        BY <1>2, <2>3, <3>2, <4>1, ResolveSettles
      <4>3. ASSUME n < pos PROVE Settled(t)'
        <5>1. Settled(t)
          BY <2>1, <4>1, <4>3 DEF VariantsInv
        <5> QED BY <2>1, <2>2, <4>2, <5>1 DEF Settled, Match
      <4>4. ASSUME ~(n < pos)
            PROVE  /\ t \in DOMAIN resolved'.at \ graph'.excluded
                   /\ resolved'.at[t] = Part("target").at[t]
        BY <2>1, <4>1, <4>2, <4>4 DEF VariantsInv
      <4>5. n < pos' <=> n < pos
        BY <2>1, <3>2
      <4>6. Settled(Names[n])' <=> Settled(t)'
        BY <2>2, <4>1 DEF Settled
      <4> QED BY <4>1, <4>3, <4>4, <4>5, <4>6
    <3> QED BY <3>1, <3>2
  <2> QED BY <2>1, <2>2, <2>4 DEF VariantsInv
<1>3. CASE VariantsDone
  <2>1. /\ phase = "variants" /\ pos > Len(Names) /\ phase' = "parse"
        /\ UNCHANGED <<doc, resolved, graph, host>>
    BY <1>3 DEF VariantsDone, loaded, inputs
  <2>2. \A n \in 1..Len(Names) : Settled(Names[n])
    <3>1. Len(Names) \in Nat
      BY SectionResolved, EmptySeq DEF DocInv, Names
    <3> QED BY <2>1, <3>1 DEF VariantsInv
  <2>3. UNCHANGED <<Names, Part("target")>>
    BY <2>1 DEF Names, Part
  <2>4. ASSUME NEW t \in Elements(Names) PROVE Settled(t)'
    BY <2>1, <2>2, <2>3 DEF Elements, Settled, Match
  <2> QED BY <2>1, <2>3, <2>4 DEF VariantsInv, Elements
<1>4. CASE Parse
  <2>1. UNCHANGED <<doc, resolved, host>> /\ graph'.excluded = graph.excluded
    BY <1>4 DEF Parse, inputs, GraphInv
  <2>2. UNCHANGED <<Names, Part("target")>>
    BY <2>1 DEF Names, Part
  <2>3. phase = "parse" /\ ((phase' = "header" /\ Typed) \/ phase' = "done")
    BY <1>4 DEF Parse, If
  <2>4. ASSUME NEW t \in Elements(Names) PROVE Settled(t)'
    BY <2>1, <2>2, <2>3, <2>4 DEF VariantsInv, Settled, Match
  <2>5. Typed => IsTable(resolved) /\ \A t \in DOMAIN resolved.at : IsTable(resolved.at[t])
    BY DEF Typed, TypedTarget
  <2> QED BY <2>1, <2>2, <2>3, <2>4, <2>5 DEF VariantsInv, Elements
<1>5. CASE phase' \notin {"variants", "parse", "header"}
  BY <1>5 DEF VariantsInv
<1>6. CASE ReadRakefile \/ RefuseVariant \/ CheckHeader \/ CheckTarget \/ TargetsDone
  BY <1>5, <1>6 DEF ReadRakefile, RefuseVariant, CheckHeader, CheckTarget, TargetsDone
<1>7. CASE InGraph
  BY <1>5, <1>7 DEF InGraph, CheckGraph, CheckReferences, ReferencesDone, StartTarget, Descend,
       ReportCycle, Finish, Accept, AtDependency
<1>8. CASE RefuseTools \/ AcceptRakefile \/ RunCommands
  BY <1>5, <1>8 DEF RefuseTools, AcceptRakefile, RunCommands
<1> QED BY <1>1, <1>2, <1>3, <1>4, <1>6, <1>7, <1>8 DEF Next

\* What resolve_platform_variants has done to each target is what the property asks.
LEMMA SettledPartition ==
  ASSUME LoadType, VariantsInv
  PROVE  VariantsPartition
<1> SUFFICES ASSUME phase = "header", NEW t \in Elements(Names),
                    NEW table, table = Part("target").at[t],
                    NEW about, about = {host.os, host.family} \cap DOMAIN table.at
             PROVE  /\ (t \in DOMAIN resolved.at) # (t \in graph.excluded)
                    /\ host.os \in Variants(table) =>
                         t \in DOMAIN resolved.at /\ resolved.at[t] = table.at[host.os]
                    /\ about = {} /\ t \in DOMAIN resolved.at =>
                         /\ resolved.at[t] = Base(table)
                         /\ DOMAIN resolved.at[t].at = DOMAIN table.at \ VariantKeys
                    /\ t \notin DOMAIN resolved.at =>
                         /\ about = {} /\ DOMAIN table.at \cap BaseKeys = {}
                         /\ \E h \in Hosts : {h.os, h.family} \cap DOMAIN table.at # {}
  BY DEF VariantsPartition
<1>1. Settled(t) /\ (t \in DOMAIN resolved.at => IsTable(resolved.at[t]))
  BY DEF VariantsInv
<1>2. IsTable(Part("target")) /\ t \in DOMAIN Part("target").at
  <2>1. Names # <<>>
    BY EmptySeq DEF Elements
  <2>2. IsTable(Part("target"))
    BY <2>1 DEF Names
  <2> QED BY <2>2, SectionResolved DEF LoadType, DocInv
<1>3. IsTable(table)
  BY <1>1 DEF Settled, Variants, Keys
<1>4. TableOK(table) /\ Keys(table) = DOMAIN table.at
  BY <1>2, <1>3, SectionResolved, EntryLeaves DEF LoadType, DocInv, Keys
<1>5. /\ DOMAIN Base(table).at = BaseKeys \cap DOMAIN table.at
      /\ Base(table).keys = <<>> => BaseKeys \cap DOMAIN table.at = {}
      /\ DOMAIN table.at \subseteq BaseKeys => Base(table) = table
  BY <1>3, <1>4, BaseShape
<1>6. host \in Hosts
  BY FilesRead DEF LoadType
<1>7. host.os \in VariantKeys /\ host.family \in VariantKeys
  BY <1>6 DEF Hosts, VariantKeys, KnownOs, KnownFamily
<1>8. BaseKeys \cap VariantKeys = {}
  BY DEF BaseKeys, VariantKeys, KnownOs, KnownFamily
<1>9. DOMAIN table.at \subseteq BaseKeys \cup VariantKeys
  BY <1>1, <1>4 DEF Settled, Understood
<1>10. about = {} <=> Match(table) = {}
  BY <1>4, <1>7 DEF Match, Variants
<1>11. host.os \in Variants(table) => Match(table) = {host.os}
  BY DEF Match
<1>12. (t \in DOMAIN resolved.at) # (t \in graph.excluded)
  BY <1>1 DEF Settled
<1>13. host.os \in Variants(table) => t \in DOMAIN resolved.at /\ resolved.at[t] = table.at[host.os]
  BY <1>1, <1>11 DEF Settled
<1>14. ASSUME about = {}, t \in DOMAIN resolved.at
       PROVE  /\ resolved.at[t] = Base(table)
              /\ DOMAIN resolved.at[t].at = DOMAIN table.at \ VariantKeys
  <2>1. CASE Variants(table) = {}
    BY <1>1, <1>4, <1>5, <1>8, <1>9, <2>1 DEF Settled, Variants
  <2>2. CASE Variants(table) # {}
    <3>1. resolved.at[t] = Base(table)
      BY <1>1, <1>10, <1>14, <2>2 DEF Settled
    <3> QED BY <1>5, <1>8, <1>9, <3>1
  <2> QED BY <2>1, <2>2
<1>15. ASSUME t \notin DOMAIN resolved.at
       PROVE  /\ about = {} /\ DOMAIN table.at \cap BaseKeys = {}
              /\ \E h \in Hosts : {h.os, h.family} \cap DOMAIN table.at # {}
  <2>1. Variants(table) # {} /\ Match(table) = {} /\ Base(table).keys = <<>>
    BY <1>1, <1>15 DEF Settled
  <2>2. PICK k \in VariantKeys : k \in DOMAIN table.at
    BY <1>4, <2>1 DEF Variants
  <2>3. \E h \in Hosts : k \in {h.os, h.family}
    BY HostsCover DEF VariantKeys, KnownArch
  <2> QED BY <1>5, <1>10, <2>1, <2>2, <2>3
<1> QED BY <1>12, <1>13, <1>14, <1>15

-----------------------------------------------------------------------------
(* The targets' and the tools' own rules.                                  *)

LEMMA FirstAmong ==
  ASSUME NEW errors, NEW S, DOMAIN errors \subseteq Nat,
         \A n \in DOMAIN errors : errors[n] \in S \cup {"none"}
  PROVE  First(errors) \in S \cup {"none"}
<1> DEFINE found == {n \in DOMAIN errors : errors[n] # "none"}
<1>1. CASE found = {}
  BY <1>1 DEF First
<1>2. CASE found # {}
  <2>1. \E n \in found : \A m \in found : n <= m
    BY <1>2, Least
  <2>2. First(errors) = errors[CHOOSE n \in found : \A m \in found : n <= m]
    BY <1>2 DEF First
  <2> QED BY <2>1, <2>2
<1> QED BY <1>1, <1>2

\* The errors of the loader that graph::validate does not raise.
OwnErrors ==
  {"Io", "Parse", "InvalidPlatformVariant", "InvalidToolchain", "EmptyLifecycleAddresses",
   "InvalidLifecycleAddress", "EmptyTarget", "EmptyPlatformList", "InvalidPlatform", "InvalidArch",
   "AmbiguousCommandBody", "EmptyCmd", "MissingCommandBody", "EmptyShell", "DuplicateCommand",
   "EmptyToolCommand", "ToolUpdateMissingCrate", "DuplicateTool", "UnknownTool",
   "UnknownCommandTool", "ToolDeclaredAtBothLevels"}

\* First of a list of given length: what it can be, and what "none" means.
LEMMA ListErrors ==
  ASSUME NEW N, NEW errors, DOMAIN errors = 1..N
  PROVE  /\ (\A n \in 1..N : errors[n] \in OwnErrors \cup {"none"}) =>
              First(errors) \in OwnErrors \cup {"none"}
         /\ First(errors) = "none" => \A n \in 1..N : errors[n] = "none"
<1>1. DOMAIN errors \subseteq Nat
  OBVIOUS
<1> QED BY <1>1, FirstAmong, FirstNone

LEMMA TwoErrors ==
  ASSUME NEW e1, NEW e2
  PROVE  /\ {e1, e2} \subseteq OwnErrors \cup {"none"} =>
              First(<<e1, e2>>) \in OwnErrors \cup {"none"}
         /\ First(<<e1, e2>>) = "none" => {e1, e2} = {"none"}
<1> DEFINE s == <<e1, e2>>
<1>1. /\ DOMAIN s = 1..2
      /\ s[1] = e1 /\ s[2] = e2
  OBVIOUS
<1>2. \A n \in 1..2 : n = 1 \/ n = 2
  OBVIOUS
<1>3. 1 \in 1..2 /\ 2 \in 1..2
  OBVIOUS
<1> HIDE DEF s
<1>4. ASSUME {e1, e2} \subseteq OwnErrors \cup {"none"}
      PROVE  First(s) \in OwnErrors \cup {"none"}
  <2>1. \A n \in 1..2 : s[n] \in OwnErrors \cup {"none"}
    BY <1>1, <1>2, <1>4
  <2> QED BY <1>1, <2>1, ListErrors
<1>5. ASSUME First(s) = "none"
      PROVE  {e1, e2} = {"none"}
  <2>1. \A n \in 1..2 : s[n] = "none"
    BY <1>1, <1>5, ListErrors
  <2> QED BY <1>1, <1>3, <2>1
<1> QED BY <1>4, <1>5 DEF s

LEMMA ThreeErrors ==
  ASSUME NEW e1, NEW e2, NEW e3
  PROVE  /\ {e1, e2, e3} \subseteq OwnErrors \cup {"none"} =>
              First(<<e1, e2, e3>>) \in OwnErrors \cup {"none"}
         /\ First(<<e1, e2, e3>>) = "none" => {e1, e2, e3} = {"none"}
<1> DEFINE s == <<e1, e2, e3>>
<1>1. /\ DOMAIN s = 1..3
      /\ s[1] = e1 /\ s[2] = e2 /\ s[3] = e3
  OBVIOUS
<1>2. \A n \in 1..3 : n = 1 \/ n = 2 \/ n = 3
  OBVIOUS
<1>3. 1 \in 1..3 /\ 2 \in 1..3 /\ 3 \in 1..3
  OBVIOUS
<1> HIDE DEF s
<1>4. ASSUME {e1, e2, e3} \subseteq OwnErrors \cup {"none"}
      PROVE  First(s) \in OwnErrors \cup {"none"}
  <2>1. \A n \in 1..3 : s[n] \in OwnErrors \cup {"none"}
    BY <1>1, <1>2, <1>4
  <2> QED BY <1>1, <2>1, ListErrors
<1>5. ASSUME First(s) = "none"
      PROVE  {e1, e2, e3} = {"none"}
  <2>1. \A n \in 1..3 : s[n] = "none"
    BY <1>1, <1>5, ListErrors
  <2> QED BY <1>1, <1>3, <2>1
<1> QED BY <1>4, <1>5 DEF s

LEMMA FiveErrors ==
  ASSUME NEW e1, NEW e2, NEW e3, NEW e4, NEW e5
  PROVE  /\ {e1, e2, e3, e4, e5} \subseteq OwnErrors \cup {"none"} =>
              First(<<e1, e2, e3, e4, e5>>) \in OwnErrors \cup {"none"}
         /\ First(<<e1, e2, e3, e4, e5>>) = "none" => {e1, e2, e3, e4, e5} = {"none"}
<1> DEFINE s == <<e1, e2, e3, e4, e5>>
<1>1. /\ DOMAIN s = 1..5
      /\ s[1] = e1 /\ s[2] = e2 /\ s[3] = e3 /\ s[4] = e4 /\ s[5] = e5
  OBVIOUS
<1>2. \A n \in 1..5 : n = 1 \/ n = 2 \/ n = 3 \/ n = 4 \/ n = 5
  OBVIOUS
<1>3. 1 \in 1..5 /\ 2 \in 1..5 /\ 3 \in 1..5 /\ 4 \in 1..5 /\ 5 \in 1..5
  OBVIOUS
<1> HIDE DEF s
<1>4. ASSUME {e1, e2, e3, e4, e5} \subseteq OwnErrors \cup {"none"}
      PROVE  First(s) \in OwnErrors \cup {"none"}
  <2>1. \A n \in 1..5 : s[n] \in OwnErrors \cup {"none"}
    BY <1>1, <1>2, <1>4
  <2> QED BY <1>1, <2>1, ListErrors
<1>5. ASSUME First(s) = "none"
      PROVE  {e1, e2, e3, e4, e5} = {"none"}
  <2>1. \A n \in 1..5 : s[n] = "none"
    BY <1>1, <1>5, ListErrors
  <2> QED BY <1>1, <1>3, <2>1
<1> QED BY <1>4, <1>5 DEF s

LEMMA CommandErrorShape ==
  ASSUME NEW cs, NEW n
  PROVE  /\ CommandError(cs, n) \in OwnErrors \cup {"none"}
         /\ CommandError(cs, n) = "none" => CommandSound(cs[n])
<1> DEFINE c == cs[n]
           e1 == GateError(c.platform, KnownOs \cup KnownFamily, "InvalidPlatform")
           e2 == GateError(c.arch, KnownArch, "InvalidArch")
           e3 == BodyError(c)
           e4 == If(\E m \in 1..(n - 1) : cs[m].name = cs[n].name, "DuplicateCommand")
<1>1. e1 \in OwnErrors \cup {"none"} /\ e2 \in OwnErrors \cup {"none"}
  <2>1. ASSUME NEW gate, NEW known, NEW error \in {"InvalidPlatform", "InvalidArch"}
        PROVE  GateError(gate, known, error) \in {"none", "EmptyPlatformList", error}
    BY DEF GateError
  <2>2. {"none", "EmptyPlatformList", "InvalidPlatform", "InvalidArch"}
          \subseteq OwnErrors \cup {"none"}
    BY DEF OwnErrors
  <2> QED BY <2>1, <2>2
<1>2. e3 \in OwnErrors \cup {"none"} /\ e4 \in OwnErrors \cup {"none"}
  BY DEF BodyError, If, OwnErrors
<1>3. CommandErrors(c) = <<e1, e2, e3>> /\ CommandError(cs, n) = First(<<First(CommandErrors(c)), e4>>)
  BY DEF CommandErrors, CommandError
<1>4. CommandSound(c) <=> e1 = "none" /\ e2 = "none" /\ e3 = "none"
  BY DEF CommandSound
<1> HIDE DEF e1, e2, e3, e4, c
<1>5. First(CommandErrors(c)) \in OwnErrors \cup {"none"}
      /\ (First(CommandErrors(c)) = "none" => CommandSound(c))
  BY <1>1, <1>2, <1>3, <1>4, ThreeErrors
<1> QED BY <1>2, <1>3, <1>5, TwoErrors DEF c

LEMMA TargetErrorShape ==
  ASSUME NEW t
  PROVE  /\ TargetError(t) \in OwnErrors \cup {"none"}
         /\ TargetError(t) = "none" => TargetSound(t)
<1> DEFINE cs == targets[t].commands
           errors == [n \in 1..Len(cs) |-> CommandError(cs, n)]
<1>1. TargetError(t) = IF Empty(t) THEN "EmptyTarget" ELSE First(errors)
  BY DEF TargetError
<1>2. DOMAIN errors = 1..Len(cs) /\ DOMAIN errors \subseteq Nat
      /\ \A n \in 1..Len(cs) : errors[n] = CommandError(cs, n)
  OBVIOUS
<1> HIDE DEF errors
<1>3. First(errors) \in OwnErrors \cup {"none"}
  <2>1. \A n \in DOMAIN errors : errors[n] \in OwnErrors \cup {"none"}
    BY <1>2, CommandErrorShape
  <2> QED BY <1>2, <2>1, FirstAmong
<1>4. First(errors) = "none" => \A n \in 1..Len(cs) : CommandSound(cs[n])
  <2>1. First(errors) = "none" => \A n \in DOMAIN errors : errors[n] = "none"
    BY <1>2, FirstNone
  <2> QED BY <1>2, <2>1, CommandErrorShape
<1> QED BY <1>1, <1>3, <1>4 DEF TargetSound, OwnErrors

LEMMA HeaderErrorShape == First(HeaderErrors) \in OwnErrors \cup {"none"}
<1>1. \A condition : /\ If(condition, "InvalidToolchain") \in OwnErrors \cup {"none"}
                     /\ If(condition, "EmptyLifecycleAddresses") \in OwnErrors \cup {"none"}
                     /\ If(condition, "InvalidLifecycleAddress") \in OwnErrors \cup {"none"}
  BY DEF If, OwnErrors
<1> QED BY <1>1, ThreeErrors DEF HeaderErrors

\* The tables of the tools list each of their entries.
LEMMA CategoryListed ==
  ASSUME LoadType, Parsed, NEW category \in Categories
  PROVE  Tools(category) = Elements(Category(category).keys)
<1>1. IsTable(Part("tool")) /\ IsTable(Category(category)) /\ DocumentOK(doc)
  BY DEF LoadType, GraphInv, ToolsTyped, DocInv
<1>2. CASE category \in DOMAIN Part("tool").at
  <2>1. "tool" \in DOMAIN doc.at
    BY <1>2, EmptyTableOK DEF Part
  <2>2. "tool" \in Keys(doc) /\ Part("tool") = doc.at["tool"]
    BY <1>1, <2>1 DEF Part, Keys, DocumentOK
  <2>3. InDocument(Part("tool"))
    BY <1>1, <2>2, DepthAssumption, DocumentWithin, InDocumentSteps DEF InDocument
  <2>4. TableOK(Category(category))
    <3>1. category \in Keys(Part("tool")) /\ Category(category) = Part("tool").at[category]
      BY <1>1, <1>2 DEF Category, Keys
    <3> QED BY <2>3, <3>1, InDocumentSteps
  <2> QED BY <1>1, <2>4 DEF TableOK, Tools
<1>3. CASE category \notin DOMAIN Part("tool").at
  BY <1>3, EmptyTableOK DEF Category, Tools
<1> QED BY <1>2, <1>3

LEMMA ToolErrorOwn == ToolError \in OwnErrors \cup {"none"}
<1>1. \A condition : /\ If(condition, "EmptyToolCommand") \in OwnErrors \cup {"none"}
                     /\ If(condition, "ToolUpdateMissingCrate") \in OwnErrors \cup {"none"}
                     /\ If(condition, "DuplicateTool") \in OwnErrors \cup {"none"}
                     /\ If(condition, "UnknownTool") \in OwnErrors \cup {"none"}
                     /\ If(condition, "ToolDeclaredAtBothLevels") \in OwnErrors \cup {"none"}
  BY DEF If, OwnErrors
<1>2. \A name : /\ CargoError(name) \in OwnErrors \cup {"none"}
                /\ OsError(name) \in OwnErrors \cup {"none"}
                /\ FishError(name) \in OwnErrors \cup {"none"}
                /\ TargetToolError(name) \in OwnErrors \cup {"none"}
  BY <1>1, TwoErrors DEF CargoError, OsError, FishError, TargetToolError
<1>3. ASSUME NEW t, NEW c PROVE CommandToolError(t, c) \in OwnErrors \cup {"none"}
  <2> DEFINE errors == [n \in 1..Len(c.tools) |->
               IF c.tools[n] \notin AllTools THEN "UnknownCommandTool"
               ELSE If(c.tools[n] \in Elements(targets[t].tools), "ToolDeclaredAtBothLevels")]
  <2>1. CommandToolError(t, c) = First(errors)
    BY DEF CommandToolError, FirstIn
  <2>2. DOMAIN errors = 1..Len(c.tools)
        /\ \A n \in 1..Len(c.tools) : errors[n] \in OwnErrors \cup {"none"}
    BY <1>1 DEF OwnErrors
  <2> HIDE DEF errors
  <2> QED BY <2>1, <2>2, ListErrors
<1>4. ASSUME NEW t PROVE CommandToolsError(t) \in OwnErrors \cup {"none"}
  <2> DEFINE cs == targets[t].commands
             errors == [n \in 1..Len(cs) |-> CommandToolError(t, cs[n])]
  <2>1. CommandToolsError(t) = First(errors)
    BY DEF CommandToolsError, FirstIn
  <2>2. DOMAIN errors = 1..Len(cs) /\ \A n \in 1..Len(cs) : errors[n] \in OwnErrors \cup {"none"}
    BY <1>3
  <2> HIDE DEF errors
  <2> QED BY <2>1, <2>2, ListErrors
<1>5. ASSUME NEW seq
      PROVE  /\ FirstIn(seq, CargoError) \in OwnErrors \cup {"none"}
             /\ FirstIn(seq, OsError) \in OwnErrors \cup {"none"}
             /\ FirstIn(seq, FishError) \in OwnErrors \cup {"none"}
             /\ FirstIn(seq, TargetToolError) \in OwnErrors \cup {"none"}
             /\ FirstIn(seq, CommandToolsError) \in OwnErrors \cup {"none"}
  <2> DEFINE N == Len(seq)
  <2>1. ASSUME NEW errors, DOMAIN errors = 1..N,
               \A n \in 1..N : errors[n] \in OwnErrors \cup {"none"}
        PROVE  First(errors) \in OwnErrors \cup {"none"}
    BY <2>1, ListErrors
  <2>2. FirstIn(seq, CargoError) \in OwnErrors \cup {"none"}
    BY <1>2, <2>1 DEF FirstIn
  <2>3. FirstIn(seq, OsError) \in OwnErrors \cup {"none"}
    BY <1>2, <2>1 DEF FirstIn
  <2>4. FirstIn(seq, FishError) \in OwnErrors \cup {"none"}
    BY <1>2, <2>1 DEF FirstIn
  <2>5. FirstIn(seq, TargetToolError) \in OwnErrors \cup {"none"}
    BY <1>2, <2>1 DEF FirstIn
  <2>6. FirstIn(seq, CommandToolsError) \in OwnErrors \cup {"none"}
    BY <1>4, <2>1 DEF FirstIn
  <2> QED BY <2>2, <2>3, <2>4, <2>5, <2>6
<1> QED BY <1>5, FiveErrors DEF ToolError

\* With no error the tables are as the run needs them.
LEMMA ToolErrorNone ==
  ASSUME LoadType, Parsed, ToolError = "none"
  PROVE  ToolsSound
<1>1. /\ FirstIn(Category("cargo").keys, CargoError) = "none"
      /\ FirstIn(Category("os").keys, OsError) = "none"
      /\ FirstIn(Category("fish").keys, FishError) = "none"
      /\ FirstIn(graph.declared, TargetToolError) = "none"
      /\ FirstIn(graph.declared, CommandToolsError) = "none"
  BY FiveErrors DEF ToolError
<1>2. ASSUME NEW N, NEW errors, DOMAIN errors = 1..N, First(errors) = "none"
      PROVE  \A n \in 1..N : errors[n] = "none"
  BY <1>2, ListErrors
<1>3. /\ Tools("cargo") = Elements(Category("cargo").keys)
      /\ Tools("os") = Elements(Category("os").keys)
      /\ Tools("fish") = Elements(Category("fish").keys)
  BY CategoryListed DEF Categories
<1>4. /\ \A x \in Elements(Category("cargo").keys) : CargoError(x) = "none"
      /\ \A x \in Elements(Category("os").keys) : OsError(x) = "none"
      /\ \A x \in Elements(Category("fish").keys) : FishError(x) = "none"
      /\ \A x \in Elements(graph.declared) : TargetToolError(x) = "none"
      /\ \A x \in Elements(graph.declared) : CommandToolsError(x) = "none"
  <2>1. \A x \in Elements(Category("cargo").keys) : CargoError(x) = "none"
    BY <1>1, <1>2 DEF FirstIn, Elements
  <2>2. \A x \in Elements(Category("os").keys) : OsError(x) = "none"
    BY <1>1, <1>2 DEF FirstIn, Elements
  <2>3. \A x \in Elements(Category("fish").keys) : FishError(x) = "none"
    BY <1>1, <1>2 DEF FirstIn, Elements
  <2>4. \A x \in Elements(graph.declared) : TargetToolError(x) = "none"
    BY <1>1, <1>2 DEF FirstIn, Elements
  <2>5. \A x \in Elements(graph.declared) : CommandToolsError(x) = "none"
    BY <1>1, <1>2 DEF FirstIn, Elements
  <2> QED BY <2>1, <2>2, <2>3, <2>4, <2>5
<1>5. \A condition : (If(condition, "EmptyToolCommand") = "none" => ~condition)
       /\ (If(condition, "ToolUpdateMissingCrate") = "none" => ~condition)
       /\ (If(condition, "DuplicateTool") = "none" => ~condition)
       /\ (If(condition, "UnknownTool") = "none" => ~condition)
  BY DEF If
<1>6. ASSUME NEW name \in Tools("cargo")
      PROVE  /\ Tool("cargo", name).check /\ Tool("cargo", name).install
             /\ Tool("cargo", name).update => Tool("cargo", name).crate
  <2>1. CargoError(name) = "none"
    BY <1>3, <1>4
  <2>2. /\ ~(~Tool("cargo", name).check \/ ~Tool("cargo", name).install)
        /\ ~(Tool("cargo", name).update /\ ~Tool("cargo", name).crate)
    BY <2>1, TwoErrors DEF CargoError, If
  <2> QED BY <2>2
<1>7. ASSUME NEW name \in Tools("os")
      PROVE  Tool("os", name).check /\ name \notin Tools("cargo") \cup Tools("fish")
  <2>1. OsError(name) = "none"
    BY <1>3, <1>4
  <2> QED BY <2>1, TwoErrors DEF OsError, If
<1>8. ASSUME NEW name \in Tools("fish")
      PROVE  name \notin Tools("cargo") \cup Tools("os")
  <2>1. FishError(name) = "none"
    BY <1>3, <1>4
  <2> QED BY <2>1, <1>5 DEF FishError
<1>9. ASSUME NEW t \in Known
      PROVE  /\ Elements(targets[t].tools) \subseteq AllTools
             /\ \A n \in 1..Len(targets[t].commands) :
                  Elements(targets[t].commands[n].tools) \subseteq AllTools
  <2>1. TargetToolError(t) = "none" /\ CommandToolsError(t) = "none"
    BY <1>4 DEF Known
  <2>2. Elements(targets[t].tools) \subseteq AllTools
    BY <2>1, <1>5 DEF TargetToolError
  <2>3. ASSUME NEW n \in 1..Len(targets[t].commands),
               NEW tool \in Elements(targets[t].commands[n].tools)
        PROVE  tool \in AllTools
    <3>1. CommandToolError(t, targets[t].commands[n]) = "none"
      BY <1>2, <2>1 DEF CommandToolsError, FirstIn
    <3>2. PICK m \in 1..Len(targets[t].commands[n].tools) : tool = targets[t].commands[n].tools[m]
      BY DEF Elements
    <3> QED BY <1>2, <3>1, <3>2 DEF CommandToolError, FirstIn
  <2> QED BY <2>2, <2>3
<1> QED BY <1>6, <1>7, <1>8, <1>9 DEF ToolsSound

\* No error is called "valid".
LEMMA NoErrorIsValid ==
  /\ \A file : FileError(file) # "valid"
  /\ First(HeaderErrors) # "valid" /\ ToolError # "valid"
  /\ \A t : TargetError(t) # "valid" /\ ReferenceError(t) # "valid"
<1>1. "valid" \notin OwnErrors \cup {"none"}
  BY DEF OwnErrors
<1>2. \A file : FileError(file) # "valid"
  BY DEF FileError
<1>3. \A t : ReferenceError(t) # "valid"
  BY DEF ReferenceError, SkipError
<1> QED BY <1>1, <1>2, <1>3, HeaderErrorShape, ToolErrorOwn, TargetErrorShape

\* Only the last steps accept; and targets pass as a whole.
LEMMA Verdicts ==
  ASSUME PhaseOK, Next
  PROVE  /\ TargetsPassed' => TargetsPassed \/ TargetsDone
         /\ verdict' = "valid" => verdict = "valid" \/ AcceptRakefile
         /\ phase' = "targets" =>
              \/ phase = "header" /\ pos' = 1
              \/ CheckTarget /\ TargetError(graph.declared[pos]) = "none"
<1> USE DEF PhaseOK, Before, Checking, Outcome, TargetsPassed
<1>1. CASE ReadRakefile \/ ReadLocal \/ ResolveTarget \/ RefuseVariant \/ VariantsDone
  BY <1>1, NoErrorIsValid DEF ReadRakefile, ReadLocal, ResolveTarget, RefuseVariant, VariantsDone
<1>2. CASE Parse \/ CheckHeader \/ CheckTarget \/ TargetsDone
  BY <1>2, NoErrorIsValid DEF Parse, CheckHeader, CheckTarget, TargetsDone, If
<1>3. CASE CheckGraph
  BY <1>3, NoErrorIsValid DEF CheckGraph, CheckReferences, ReferencesDone, StartTarget, Descend,
       ReportCycle, Finish, Accept, AtDependency
<1>4. CASE RefuseTools \/ AcceptRakefile \/ RunCommands
  BY <1>4, NoErrorIsValid DEF RefuseTools, AcceptRakefile, RunCommands
<1> QED BY <1>1, <1>2, <1>3, <1>4 DEF Next, InGraph

LEMMA SoundKept ==
  ASSUME UNCHANGED <<graph, doc, targets>>
  PROVE  /\ Known' = Known /\ (ToolsSound => ToolsSound')
         /\ \A t : TargetSound(t)' <=> TargetSound(t)
<1>1. Known' = Known
  BY DEF Known
<1>2. \A t : TargetSound(t)' <=> TargetSound(t)
  BY DEF TargetSound, Empty, Deps, Known
<1>3. \A category : (Category(category))' = Category(category)
  BY DEF Category, Part
<1>4. \A category : (Tools(category))' = Tools(category)
  BY <1>3 DEF Tools
<1>5. \A category, name : (Tool(category, name))' = Tool(category, name)
  BY <1>3 DEF Tool
<1>6. AllTools' = AllTools
  BY <1>4 DEF AllTools
<1>7. ToolsSound => ToolsSound'
  BY <1>1, <1>4, <1>5, <1>6 DEF ToolsSound
<1> QED BY <1>1, <1>2, <1>7

LEMMA ChecksHold ==
  ASSUME LoadType, ChecksInv, Next
  PROVE  ChecksInv'
<1>1. /\ UNCHANGED <<graph, doc, targets>> /\ phase \notin Before
      \/ ~Parsed'
      \/ Parse
  BY GraphSteps DEF LoadType
<1>2. ASSUME phase' = "targets" \/ TargetsPassed' \/ verdict' = "valid"
      PROVE  UNCHANGED <<graph, doc, targets>> /\ Parsed
  <2>1. Parsed' /\ ~Parse
    BY <1>2, Verdicts DEF TargetsPassed, Parsed, Checking, Parse, Outcome, If, LoadType, PhaseOK, Before
  <2> QED BY <2>1, GraphSteps DEF LoadType
<1>3. ASSUME phase' = "targets"
      PROVE  (\A n \in 1..Len(graph.declared) : n < pos => TargetSound(graph.declared[n]))'
  <2>1. graph' = graph
    BY <1>2, <1>3
  <2> SUFFICES ASSUME NEW n \in 1..Len(graph.declared), n < pos'
               PROVE  TargetSound(graph.declared[n])
    BY <1>2, <1>3, <2>1, SoundKept DEF TargetSound
  <2>2. TargetSound(graph.declared[n])
    <3>1. CASE CheckTarget /\ TargetError(graph.declared[pos]) = "none"
      <4>1. phase = "targets" /\ pos' = pos + 1 /\ pos \in Nat
        BY <3>1 DEF CheckTarget, LoadType, PhaseOK
      <4>2. n < pos \/ n = pos
        BY <4>1
      <4> QED BY <2>1, <3>1, <4>1, <4>2, TargetErrorShape DEF ChecksInv
    <3> QED BY <1>3, <3>1, Verdicts DEF LoadType
  <2> QED BY <2>2
<1>4. ASSUME TargetsPassed', NEW t \in Known' PROVE TargetSound(t)'
  <2>1. t \in Known
    BY <1>2, <1>4, SoundKept
  <2>2. TargetSound(t)
    <3>1. CASE TargetsPassed
      BY <2>1, <3>1 DEF ChecksInv
    <3>2. CASE TargetsDone
      <4>1. phase = "targets" /\ \A n \in 1..Len(graph.declared) : n < pos
        <5>1. Len(graph.declared) \in Nat
          BY LenProperties DEF LoadType, GraphInv
        <5> QED BY <3>2, <5>1 DEF TargetsDone, LoadType, PhaseOK
      <4> QED BY <2>1, <4>1 DEF ChecksInv, Known, Elements
    <3> QED BY <1>4, <3>1, <3>2, Verdicts DEF LoadType
  <2> QED BY <1>2, <1>4, <2>2, SoundKept
<1>5. ASSUME verdict' = "valid" PROVE ToolsSound'
  <2>1. ToolsSound
    BY <1>2, <1>5, Verdicts, ToolErrorNone DEF LoadType, ChecksInv, AcceptRakefile
  <2> QED BY <1>2, <1>5, <2>1, SoundKept
<1> QED BY <1>3, <1>4, <1>5 DEF ChecksInv

\* A sound command has a body for some shell, and runs on some host.
LEMMA SoundCommand ==
  ASSUME NEW c \in CommandType, CommandSound(c), NEW env
  PROVE  /\ \E family \in Family : Invocation(c, family, env) # <<>>
         /\ \E h \in Hosts : ~Skipped(c, h)
<1>1. \E family \in Family : Invocation(c, family, env) # <<>>
  <2>1. /\ "posix" \in Family /\ "fish" \in Family /\ "ps" \in Family
        /\ Key["posix"] = "sh" /\ Key["fish"] = "fish" /\ Key["ps"] = "ps"
    BY DEF Family, Key
  <2>2. CASE c.cmd = "program"
    BY <2>1, <2>2 DEF Invocation
  <2>3. CASE c.cmd # "program"
    <3>1. c.cmd = "none" /\ HasShell(c)
      BY <2>3 DEF CommandSound, BodyError, CommandType
    <3>2. DOMAIN c.bodies = {"sh", "fish", "ps"}
      BY DEF CommandType
    <3>3. PICK family \in Family : c.bodies[Key[family]] # "none"
      BY <2>1, <3>1, <3>2 DEF HasShell
    <3> QED BY <3>1, <3>3 DEF Invocation
  <2> QED BY <2>2, <2>3
<1>2. \E h \in Hosts : ~Skipped(c, h)
  <2>1. PICK k \in KnownOs \cup KnownFamily : c.platform # <<>> => k \in c.platform[1]
    <3>1. c.platform # <<>> => c.platform[1] # {} /\ c.platform[1] \subseteq KnownOs \cup KnownFamily
      BY DEF CommandSound, GateError
    <3>2. KnownOs # {}
      BY DEF KnownOs
    <3> QED BY <3>1, <3>2
  <2>2. PICK a \in KnownArch : c.arch # <<>> => a \in c.arch[1]
    <3>1. c.arch # <<>> => c.arch[1] # {} /\ c.arch[1] \subseteq KnownArch
      BY DEF CommandSound, GateError
    <3>2. KnownArch # {}
      BY DEF KnownArch
    <3> QED BY <3>1, <3>2
  <2>3. PICK h \in Hosts : k \in {h.os, h.family} /\ h.arch = a
    BY HostsCover
  <2>4. ~Skipped(c, h)
    BY <2>1, <2>2, <2>3 DEF Skipped
  <2> QED BY <2>4
<1> QED BY <1>1, <1>2

LEMMA ChecksAccept ==
  ASSUME LoadType, ChecksInv
  PROVE  AcceptedRuns
<1> DEFINE Found(name) ==
      \E category \in Categories :
        /\ name \in Tools(category)
        /\ \A other \in Categories \ {category} : name \notin Tools(other)
        /\ category # "fish" => Tool(category, name).check
        /\ category = "cargo" =>
             /\ Tool("cargo", name).install
             /\ Tool("cargo", name).update => Tool("cargo", name).crate
<1> SUFFICES ASSUME Accepted, NEW t \in Known, NEW n \in 1..Len(targets[t].commands),
                    NEW c, c = targets[t].commands[n]
             PROVE  /\ fates[t][n] = "MissingShellVariant" =>
                         \E family \in Family : Invocation(c, family, Env) # <<>>
                    /\ \E h \in Hosts : ~Skipped(c, h)
                    /\ \A name \in Elements(targets[t].tools) \cup Elements(c.tools) : Found(name)
  BY DEF AcceptedRuns
<1>1. Parsed /\ TargetsPassed /\ ToolsSound
  BY DEF Accepted, Parsed, TargetsPassed, ChecksInv
<1>2. c \in CommandType
  <2>1. targets[t].commands \in Seq(CommandType)
    BY <1>1 DEF LoadType, GraphInv, TargetType
  <2> QED BY <2>1, ElementOfSeq
<1>3. CommandSound(c)
  BY <1>1 DEF ChecksInv, TargetSound
<1>4. ASSUME NEW name \in AllTools PROVE Found(name)
  <2>1. PICK category \in Categories : name \in Tools(category)
    BY DEF AllTools
  <2>2. CASE category = "cargo"
    <3>1. name \notin Tools("os") /\ name \notin Tools("fish")
      BY <1>1, <2>1, <2>2 DEF ToolsSound
    <3>2. /\ Tool("cargo", name).check /\ Tool("cargo", name).install
          /\ Tool("cargo", name).update => Tool("cargo", name).crate
      BY <1>1, <2>1, <2>2 DEF ToolsSound
    <3> QED BY <2>1, <2>2, <3>1, <3>2 DEF Categories
  <2>3. CASE category = "os"
    <3>1. Tool("os", name).check /\ name \notin Tools("cargo") /\ name \notin Tools("fish")
      BY <1>1, <2>1, <2>3 DEF ToolsSound
    <3> QED BY <2>1, <2>3, <3>1 DEF Categories
  <2>4. CASE category = "fish"
    <3>1. name \notin Tools("cargo") /\ name \notin Tools("os")
      BY <1>1, <2>1, <2>4 DEF ToolsSound
    <3> QED BY <2>1, <2>4, <3>1 DEF Categories
  <2> QED BY <2>1, <2>2, <2>3, <2>4 DEF Categories
<1>5. Elements(targets[t].tools) \cup Elements(c.tools) \subseteq AllTools
  BY <1>1 DEF ToolsSound
<1> HIDE DEF Found
<1> QED BY <1>2, <1>3, <1>4, <1>5, SoundCommand

-----------------------------------------------------------------------------
(* The graph: references.                                                  *)

\* validate objects to the references of a target exactly if they are wrong.
LEMMA ReferenceExact ==
  ASSUME NEW t
  PROVE  /\ ReferenceError(t) \in {"none", "UnknownDependency", "ConflictingDependency"}
         /\ ReferenceError(t) = "none" <=> ReferencesOK(t)
<1> DEFINE skips == graph.skipDeps[t]
           bad == {n \in 1..Len(skips) : Dangling(skips[n]) \/ SkipConflicts(t, skips[n])}
<1>1. /\ SkipError(t) \in {"none", "UnknownDependency", "ConflictingDependency"}
      /\ SkipError(t) = "none" <=> bad = {}
  BY DEF SkipError
<1>2. ReferenceError(t) = IF \E d \in Elements(Deps(t)) : Dangling(d) THEN "UnknownDependency"
                          ELSE SkipError(t)
  BY DEF ReferenceError
<1>3. bad = {} <=> \A s \in Elements(skips) : ~Dangling(s) /\ ~SkipConflicts(t, s)
  BY DEF Elements
<1>4. ReferencesOK(t) <=> /\ \A d \in Elements(Deps(t)) : ~Dangling(d)
                          /\ \A s \in Elements(skips) : ~Dangling(s) /\ ~SkipConflicts(t, s)
  BY DEF ReferencesOK, Dangling, SkipConflicts
<1> HIDE DEF bad, skips
<1> QED BY <1>1, <1>2, <1>3, <1>4

-----------------------------------------------------------------------------
(* The search.                                                             *)

LEMMA DepsTyped ==
  ASSUME LoadType, NEW t
  PROVE  /\ Deps(t) \in Seq(STRING) /\ Len(Deps(t)) \in Nat
         /\ Elements(Deps(t)) = {Deps(t)[k] : k \in 1..Len(Deps(t))}
<1>1. Deps(t) \in Seq(STRING)
  BY EmptySeq DEF LoadType, GraphInv, Deps
<1> QED BY <1>1, LenProperties DEF Elements

LEMMA TopOfStack ==
  ASSUME Walked, stack # <<>>
  PROVE  /\ Len(stack) \in Nat \ {0} /\ Top = stack[Len(stack)]
         /\ Top.node \in Known /\ Top.next \in Nat \ {0}
         /\ Below \in Seq(Call) /\ Len(Below) = Len(stack) - 1
         /\ \A n \in 1..(Len(stack) - 1) : Below[n] = stack[n]
         /\ \A n \in 1..Len(stack) : stack[n] \in Call
<1>1. stack \in Seq(Call) /\ Len(stack) \in Nat \ {0}
  BY EmptySeq, LenProperties DEF Walked
<1>2. \A n \in 1..Len(stack) : stack[n] \in Call
  BY <1>1, ElementOfSeq
<1>3. stack[Len(stack)] \in Call
  BY <1>1, <1>2
<1> QED BY <1>1, <1>2, <1>3, ShorterSeq DEF Top, Below, Call

\* Descend moves the top call on, and may put a new one above it.
LEMMA DescendShape ==
  ASSUME Walked, Descend, NEW l, l = Len(stack)
  PROVE  /\ stack' \in Seq(Call) /\ Len(stack') = IF Opens(Dependency) THEN l + 1 ELSE l
         /\ \A n \in 1..(l - 1) : stack'[n] = stack[n]
         /\ stack'[l] = [node |-> Top.node, next |-> Top.next + 1]
         /\ Opens(Dependency) => stack'[l + 1] = [node |-> Dependency, next |-> 1]
<1> DEFINE step == [Top EXCEPT !.next = @ + 1]
           loop == Append(Below, step)
<1>1. /\ l \in Nat \ {0} /\ Top \in Call /\ Below \in Seq(Call) /\ Len(Below) = l - 1
      /\ \A n \in 1..(l - 1) : Below[n] = stack[n]
  BY TopOfStack DEF Descend, AtDependency
<1>2. step = [node |-> Top.node, next |-> Top.next + 1] /\ step \in Call
  BY <1>1 DEF Call
<1> HIDE DEF step
<1>3. /\ loop \in Seq(Call) /\ Len(loop) = l /\ loop[l] = step
      /\ \A n \in 1..(l - 1) : loop[n] = stack[n]
  BY <1>1, <1>2, AppendProperties
<1>4. stack' = IF Opens(Dependency) THEN Append(loop, Frame(Dependency)) ELSE loop
  BY DEF Descend, step
<1> HIDE DEF loop
<1>5. CASE ~Opens(Dependency)
  BY <1>2, <1>3, <1>4, <1>5
<1>6. CASE Opens(Dependency)
  <2>1. Frame(Dependency) \in Call /\ Frame(Dependency) = [node |-> Dependency, next |-> 1]
    BY <1>6 DEF Frame, Call, Opens
  <2>2. stack' = Append(loop, Frame(Dependency))
    BY <1>4, <1>6
  <2>3. /\ stack' \in Seq(Call) /\ Len(stack') = l + 1 /\ stack'[l + 1] = Frame(Dependency)
        /\ \A n \in 1..l : stack'[n] = loop[n]
    BY <1>3, <2>1, <2>2, AppendProperties
  <2>4. /\ \A n \in 1..(l - 1) : n \in 1..l
        /\ l \in 1..l
    BY <1>1
  <2> QED BY <1>2, <1>3, <1>6, <2>1, <2>3, <2>4
<1> QED BY <1>5, <1>6

\* Descend keeps what Walked says of the calls.
LEMMA DescendWalks ==
  ASSUME LoadType, Walked, Descend
  PROVE  Walked' /\ UNCHANGED <<graph, visited>>
<1>1. PICK l \in Nat \ {0} : l = Len(stack)
  BY TopOfStack DEF Descend, AtDependency
<1>2. UNCHANGED <<graph, visited>> /\ Known' = Known /\ Call' = Call
      /\ \A t : (Deps(t))' = Deps(t)
  BY DEF Descend, Known, Call, Deps
<1>3. /\ stack' \in Seq(Call) /\ Len(stack') = IF Opens(Dependency) THEN l + 1 ELSE l
      /\ \A n \in 1..(l - 1) : stack'[n] = stack[n]
      /\ stack'[l].node = Top.node /\ stack'[l].next = Top.next + 1
      /\ Opens(Dependency) => stack'[l + 1].node = Dependency /\ stack'[l + 1].next = 1
  <2>1. /\ stack' \in Seq(Call) /\ Len(stack') = IF Opens(Dependency) THEN l + 1 ELSE l
        /\ \A n \in 1..(l - 1) : stack'[n] = stack[n]
        /\ stack'[l] = [node |-> Top.node, next |-> Top.next + 1]
        /\ Opens(Dependency) => stack'[l + 1] = [node |-> Dependency, next |-> 1]
    BY <1>1, DescendShape
  <2> QED BY <2>1
<1>4. /\ Top = stack[l] /\ Top.next \in Nat \ {0} /\ Top.next <= Len(Deps(Top.node))
      /\ Dependency = Deps(Top.node)[Top.next]
      /\ \A n \in 1..l : stack[n].node # Dependency /\ stack[n].next \in Nat \ {0}
  BY <1>1, TopOfStack DEF Descend, AtDependency, Dependency, InPath, Call
<1>5. \A t : Len(Deps(t)) \in Nat
  BY DepsTyped
<1>6. ASSUME NEW n \in 1..(l - 1) PROVE CallOK(n)'
  <2>1. CallOK(n) /\ n < l /\ n < Len(stack') /\ stack'[n] = stack[n]
        /\ stack'[n + 1].node = stack[n + 1].node
    <3>1. n + 1 \in 1..(l - 1) \/ n + 1 = l
      BY <1>1
    <3> QED BY <1>1, <1>3, <1>4, <3>1 DEF Walked
  <2> QED BY <1>1, <1>2, <2>1 DEF CallOK
<1>7. CallOK(l)'
  <2>1. PICK t, x : t = Top.node /\ x = Top.next
    OBVIOUS
  <2>2. CallOK(l) /\ Len(Deps(t)) \in Nat /\ x \in Nat \ {0}
    BY <1>1, <1>4, <1>5, <2>1 DEF Walked
  <2>3. t \notin visited /\ x + 1 <= Len(Deps(t)) + 1 /\ x + 1 > 1 /\ (x + 1) - 1 = x
    BY <1>4, <2>1, <2>2 DEF CallOK
  <2>4. ASSUME NEW k \in 1..x
        PROVE  \/ Deps(t)[k] \in visited \/ Deps(t)[k] \notin Known
               \/ l < Len(stack') /\ k = x
    <3>1. CASE k = x
      <4>1. Opens(Dependency) \/ Dependency \in visited \/ Dependency \notin Known
        BY DEF Opens
      <4> QED BY <1>1, <1>3, <1>4, <2>1, <3>1, <4>1
    <3>2. CASE k # x
      <4>1. k \in 1..(x - 1)
        BY <2>2, <3>2
      <4> QED BY <1>1, <1>4, <2>1, <2>2, <4>1 DEF CallOK
    <3> QED BY <3>1, <3>2
  <2>5. l < Len(stack') => Deps(t)[x] = stack'[l + 1].node
    BY <1>1, <1>3, <1>4, <2>1
  <2>6. stack'[l].node = t /\ stack'[l].next = x + 1
    BY <1>3, <2>1
  <2>7. (Deps(t))' = Deps(t) /\ visited' = visited /\ Known' = Known
    BY <1>2
  <2> QED BY <2>3, <2>4, <2>5, <2>6, <2>7 DEF CallOK
<1>8. ASSUME Opens(Dependency) PROVE CallOK(l + 1)'
  <2>1. Len(stack') = l + 1 /\ stack'[l + 1].node = Dependency /\ stack'[l + 1].next = 1
        /\ Dependency \notin visited /\ Len(Deps(Dependency)) \in Nat
    BY <1>3, <1>5, <1>8 DEF Opens
  <2> QED BY <1>1, <1>2, <2>1 DEF CallOK
<1>9. \A n \in 1..Len(stack') : CallOK(n)'
  <2>1. \A n \in 1..Len(stack') : n \in 1..(l - 1) \/ n = l \/ (n = l + 1 /\ Opens(Dependency))
    BY <1>1, <1>3
  <2> QED BY <1>6, <1>7, <1>8, <2>1
<1>10. ASSUME NEW m \in 1..Len(stack'), NEW n \in 1..Len(stack'),
              stack'[m].node = stack'[n].node
       PROVE  m = n
  <2>1. \A i \in 1..Len(stack') : \/ (i \in 1..l /\ stack'[i].node = stack[i].node)
                                  \/ (i = l + 1 /\ stack'[i].node = Dependency)
    <3>1. \A i \in 1..Len(stack') : i \in 1..(l - 1) \/ i = l \/ (i = l + 1 /\ Opens(Dependency))
      BY <1>1, <1>3
    <3>2. \A i \in 1..(l - 1) : i \in 1..l /\ stack'[i].node = stack[i].node
      BY <1>3
    <3>3. l \in 1..l /\ stack'[l].node = stack[l].node
      BY <1>3, <1>4
    <3>4. Opens(Dependency) => stack'[l + 1].node = Dependency
      BY <1>3
    <3> QED BY <3>1, <3>2, <3>3, <3>4
  <2> QED BY <1>1, <1>4, <1>10, <2>1 DEF Walked
<1> QED BY <1>2, <1>3, <1>9, <1>10 DEF Walked

\* Finish returns to the call below, with one more target explored.
LEMMA FinishWalks ==
  ASSUME LoadType, Walked, Finish
  PROVE  /\ Walked' /\ UNCHANGED graph
         /\ Top.node \in Known \ visited /\ visited' = visited \cup {Top.node}
         /\ \A d \in Elements(Deps(Top.node)) \cap Known : d \in visited
<1>1. PICK l \in Nat \ {0} : l = Len(stack)
  BY TopOfStack DEF Finish
<1>2. UNCHANGED graph /\ Known' = Known /\ Call' = Call /\ \A t : (Deps(t))' = Deps(t)
      /\ visited' = visited \cup {Top.node} /\ stack' = Below
  BY DEF Finish, Known, Call, Deps
<1>3. /\ Top = stack[l] /\ Top.node \in Known /\ Top.next \in Nat \ {0}
      /\ stack' \in Seq(Call) /\ Len(stack') = l - 1
      /\ \A n \in 1..(l - 1) : stack'[n] = stack[n] /\ stack[n].next \in Nat \ {0}
      /\ Top.next > Len(Deps(Top.node))
  <2>1. stack # <<>> /\ Top.next > Len(Deps(Top.node))
    BY DEF Finish
  <2>2. \A n \in 1..(l - 1) : n \in 1..l
    BY <1>1
  <2>3. /\ Top = stack[l] /\ Top.node \in Known /\ Top.next \in Nat \ {0}
        /\ Below \in Seq(Call) /\ Len(Below) = l - 1
        /\ \A n \in 1..(l - 1) : Below[n] = stack[n]
        /\ \A n \in 1..l : stack[n] \in Call
    BY <1>1, <2>1, TopOfStack
  <2>4. \A n \in 1..l : stack[n].next \in Nat \ {0}
    BY <2>3 DEF Call
  <2> QED BY <1>2, <2>1, <2>2, <2>3, <2>4
<1>4. CallOK(l) /\ Top.node \notin visited
  BY <1>1, <1>3 DEF Walked, CallOK
<1>5. ASSUME NEW d \in Elements(Deps(Top.node)) \cap Known PROVE d \in visited
  <2>1. PICK k \in 1..Len(Deps(Top.node)) : d = Deps(Top.node)[k]
    BY DepsTyped
  <2>2. k \in 1..(Top.next - 1)
    BY <1>3, DepsTyped
  <2> QED BY <1>1, <1>3, <1>4, <2>1, <2>2 DEF CallOK
<1>6. ASSUME NEW n \in 1..(l - 1) PROVE CallOK(n)'
  <2>1. CallOK(n) /\ n < l /\ stack'[n] = stack[n] /\ stack[n].node # Top.node
        /\ stack[n].next \in Nat \ {0}
    BY <1>1, <1>3 DEF Walked
  <2>2. stack'[n].node \notin visited' /\ stack'[n].next <= Len(Deps(stack[n].node)) + 1
    BY <1>2, <2>1 DEF CallOK
  <2>3. CASE n = l - 1
    <3>1. Deps(stack[n].node)[stack[n].next - 1] \in visited' /\ ~(n < Len(stack'))
      BY <1>1, <1>2, <1>3, <2>1, <2>3 DEF CallOK
    <3> QED BY <1>1, <1>2, <2>1, <2>2, <3>1 DEF CallOK
  <2>4. CASE n # l - 1
    <3>1. n < Len(stack') /\ n + 1 \in 1..(l - 1) /\ stack'[n + 1] = stack[n + 1]
      BY <1>1, <1>3, <2>4
    <3> QED BY <1>1, <1>2, <2>1, <2>2, <3>1 DEF CallOK
  <2> QED BY <2>3, <2>4
<1>7. \A m, n \in 1..Len(stack') : stack'[m].node = stack'[n].node => m = n
  <2>1. \A n \in 1..(l - 1) : n \in 1..l
    BY <1>1
  <2> QED BY <1>1, <1>3, <2>1 DEF Walked
<1>8. Walked'
  BY <1>2, <1>3, <1>6, <1>7 DEF Walked
<1> QED BY <1>2, <1>3, <1>4, <1>5, <1>8

LEMMA KnownFinite == LoadType => IsFiniteSet(Known)
<1> SUFFICES ASSUME LoadType PROVE IsFiniteSet(Known)
  OBVIOUS
<1>1. Len(graph.declared) \in Nat
  BY LenProperties DEF LoadType, GraphInv
<1>2. IsFiniteSet(1..Len(graph.declared))
  BY <1>1, FS_Interval
<1> DEFINE f == [n \in 1..Len(graph.declared) |-> graph.declared[n]]
<1>3. f \in Surjection(1..Len(graph.declared), Known)
  BY DEF Surjection, Known, Elements
<1> HIDE DEF f
<1> QED BY <1>2, <1>3, FS_Surjection

\* A finished target goes on top of the ranks of those it depends on.
LEMMA FinishSinks ==
  ASSUME LoadType, Walked, Sunk, Finish
  PROVE  Sunk'
<1>1. /\ UNCHANGED graph /\ Top.node \in Known \ visited /\ visited \subseteq Known
      /\ visited' = visited \cup {Top.node}
      /\ \A d \in Elements(Deps(Top.node)) \cap Known : d \in visited
  BY FinishWalks DEF Walked
<1>2. PICK t : t = Top.node
  OBVIOUS
<1>3. IsFiniteSet(visited) /\ Cardinality(visited) \in Nat
  BY <1>1, KnownFinite, FS_Subset, FS_CardinalityType
<1>4. Cardinality(visited') = Cardinality(visited) + 1
  BY <1>1, <1>3, FS_AddElement
<1>5. PICK rank \in [visited -> 1..Cardinality(visited)] :
        \A v \in visited : \A d \in Elements(Deps(v)) \cap Known : d \in visited /\ rank[d] < rank[v]
  BY DEF Sunk
<1> DEFINE N == Cardinality(visited)
           next == [v \in visited' |-> IF v = t THEN N + 1 ELSE rank[v]]
<1>6. next \in [visited' -> 1..Cardinality(visited')]
  <2>1. \A v \in visited : rank[v] \in 1..N
    BY <1>5
  <2>2. ASSUME NEW v \in visited' PROVE next[v] \in 1..(N + 1)
    BY <1>1, <1>2, <1>3, <2>1
  <2> QED BY <1>4, <2>2
<1>7. Known' = Known /\ \A v : (Deps(v))' = Deps(v)
  BY <1>1 DEF Known, Deps
<1>8. ASSUME NEW v \in visited', NEW d \in Elements(Deps(v)) \cap Known
      PROVE  d \in visited' /\ next[d] < next[v]
  <2>1. CASE v = t
    <3>1. d \in visited /\ d # t
      BY <1>1, <1>2, <2>1
    <3>2. rank[d] \in 1..N /\ next[v] = N + 1 /\ next[d] = rank[d]
      BY <1>1, <1>5, <2>1, <3>1
    <3> QED BY <1>1, <1>3, <3>1, <3>2
  <2>2. CASE v # t
    <3>1. v \in visited /\ d \in visited /\ rank[d] < rank[v] /\ d # t
      BY <1>1, <1>2, <1>5, <2>2
    <3> QED BY <1>1, <2>2, <3>1
  <2> QED BY <2>1, <2>2
<1> HIDE DEF next
<1> QED BY <1>6, <1>7, <1>8 DEF Sunk, Elements

\* What ReportCycle reports is a cycle: the calls from the repeated target upward.
LEMMA ReportIsReal ==
  ASSUME LoadType, Walked, ReportCycle
  PROVE  CycleIsReal'
<1>1. PICK l \in Nat \ {0} : l = Len(stack)
  BY TopOfStack DEF ReportCycle, AtDependency
<1>2. /\ Top = stack[l] /\ Top.next \in Nat \ {0} /\ Top.next <= Len(Deps(Top.node))
      /\ Dependency = Deps(Top.node)[Top.next] /\ Dependency \in InPath
      /\ \A n \in 1..l : stack[n].next \in Nat \ {0}
      /\ UNCHANGED graph /\ cycle' = Append(CycleFound, Dependency)
  BY <1>1, TopOfStack DEF ReportCycle, AtDependency, Dependency, Call
<1>3. PICK d : d = Dependency
  OBVIOUS
<1> DEFINE Repeated(n) == stack[n].node = d /\ \A m \in 1..(n - 1) : stack[m].node # d
<1>4. PICK i \in 1..l : stack[i].node = d
  BY <1>1, <1>2, <1>3 DEF InPath
<1>5. Repeated(i) /\ \A n \in 1..l : Repeated(n) => n = i
  <2>1. \A n \in 1..l : stack[n].node = d => n = i
    BY <1>1, <1>4 DEF Walked
  <2> QED BY <1>4, <2>1
<1>6. CycleFound = [n \in 1..(l - i + 1) |-> stack[i + n - 1].node]
  <2>1. i = CHOOSE n \in 1..l : Repeated(n)
    BY <1>4, <1>5
  <2> QED BY <1>1, <1>3, <2>1 DEF CycleFound
<1>7. CycleFound \in Seq(Known) /\ Len(CycleFound) = l - i + 1
  <2>1. l - i + 1 \in Nat
    BY <1>1, <1>4
  <2>2. ASSUME NEW n \in 1..(l - i + 1) PROVE stack[i + n - 1].node \in Known
    <3>1. i + n - 1 \in 1..l
      BY <1>1, <1>4
    <3> QED BY <1>1, <3>1, TopOfStack DEF ReportCycle, AtDependency, Call
  <2>3. CycleFound \in [1..(l - i + 1) -> Known]
    BY <1>6, <2>2
  <2>4. CycleFound \in Seq(Known)
    BY <2>1, <2>3, SeqDef
  <2> QED BY <1>6, <2>1, <2>4, LenProperties
<1>8. d \in Known
  BY <1>1, <1>4, TopOfStack DEF ReportCycle, AtDependency, Call
<1> DEFINE last == l - i + 2
<1>9. /\ Len(cycle') = last /\ cycle'[last] = d
      /\ \A n \in 1..(last - 1) : cycle'[n] = stack[i + n - 1].node
  <2>1. /\ Len(Append(CycleFound, d)) = l - i + 1 + 1
        /\ Append(CycleFound, d)[l - i + 1 + 1] = d
        /\ \A n \in 1..(l - i + 1) : Append(CycleFound, d)[n] = CycleFound[n]
    BY <1>7, <1>8, AppendProperties
  <2>2. last = l - i + 1 + 1 /\ last - 1 = l - i + 1
    BY <1>1, <1>4
  <2> QED BY <1>2, <1>3, <1>6, <2>1, <2>2
<1>10. last \in Nat /\ last > 1 /\ cycle'[1] = cycle'[last]
  BY <1>1, <1>4, <1>9
<1>11. ASSUME NEW n \in 1..(last - 1) PROVE cycle'[n + 1] \in Elements(Deps(stack[i + n - 1].node))
  <2>1. i + n - 1 \in 1..l
    BY <1>1, <1>4
  <2>2. CASE i + n - 1 = l
    <3>1. n + 1 = last
      BY <1>1, <1>4, <2>2
    <3>2. cycle'[n + 1] = d /\ stack[i + n - 1] = Top
      BY <1>2, <1>9, <2>2, <3>1
    <3> QED BY <1>2, <1>3, <3>2, DepsTyped
  <2>3. CASE i + n - 1 # l
    <3>1. PICK j \in 1..(l - 1) : j = i + n - 1 /\ n + 1 \in 1..(last - 1) /\ i + (n + 1) - 1 = j + 1
      BY <1>1, <1>4, <2>1, <2>3
    <3>2. CallOK(j) /\ j < Len(stack) /\ stack[j].next \in Nat \ {0}
      BY <1>1, <1>2, <3>1 DEF Walked
    <3>3. /\ stack[j].next - 1 \in 1..Len(Deps(stack[j].node))
          /\ Deps(stack[j].node)[stack[j].next - 1] = stack[j + 1].node
      BY <3>2, DepsTyped DEF CallOK
    <3> QED BY <1>9, <3>1, <3>3, DepsTyped
  <2> QED BY <2>2, <2>3
<1>12. \A m, n \in 1..(last - 1) : cycle'[m] = cycle'[n] => m = n
  <2> SUFFICES ASSUME NEW m \in 1..(last - 1), NEW n \in 1..(last - 1), cycle'[m] = cycle'[n]
               PROVE  m = n
    OBVIOUS
  <2>1. PICK j \in 1..l, k \in 1..l : j = i + m - 1 /\ k = i + n - 1
    BY <1>1, <1>4
  <2>2. stack[j].node = stack[k].node
    BY <1>9, <2>1
  <2>3. j = k
    BY <1>1, <2>2 DEF Walked
  <2> QED BY <2>1, <2>3
<1>13. \A v : (Deps(v))' = Deps(v)
  BY <1>2 DEF Deps, Known
<1> HIDE DEF last
<1> QED BY <1>9, <1>10, <1>11, <1>12, <1>13 DEF CycleIsReal, Elements

\* Which steps raise the errors of the graph, and which get past it.
LEMMA GraphVerdicts ==
  ASSUME PhaseOK, Next
  PROVE  /\ verdict' \in {"UnknownDependency", "ConflictingDependency"} =>
              CheckReferences /\ ReferenceError(graph.declared[pos]) # "none"
         /\ verdict' = "CircularDependency" => ReportCycle
         /\ phase' \in {"tools", "ready"} =>
              Accept \/ (phase \in {"tools", "ready"} /\ UNCHANGED graph)
<1> USE DEF PhaseOK, Before, Checking, Outcome
<1> DEFINE GraphErrors == {"UnknownDependency", "ConflictingDependency", "CircularDependency"}
<1>1. /\ \A file : FileError(file) \notin GraphErrors
      /\ First(HeaderErrors) \notin GraphErrors /\ ToolError \notin GraphErrors
      /\ \A t : TargetError(t) \notin GraphErrors
  <2>1. GraphErrors \cap (OwnErrors \cup {"none"}) = {}
    BY DEF OwnErrors
  <2>2. \A file : FileError(file) \notin GraphErrors
    BY DEF FileError
  <2> QED BY <2>1, <2>2, HeaderErrorShape, ToolErrorOwn, TargetErrorShape
<1>2. CASE ReadRakefile \/ ReadLocal \/ ResolveTarget \/ RefuseVariant \/ VariantsDone
  BY <1>1, <1>2 DEF ReadRakefile, ReadLocal, ResolveTarget, RefuseVariant, VariantsDone
<1>3. CASE Parse \/ CheckHeader \/ CheckTarget \/ TargetsDone
  BY <1>1, <1>3 DEF Parse, CheckHeader, CheckTarget, TargetsDone, If
<1>4. CASE CheckGraph
  BY <1>4, ReferenceExact DEF CheckGraph, CheckReferences, ReferencesDone, StartTarget, Descend,
       ReportCycle, Finish, Accept, AtDependency
<1>5. CASE RefuseTools \/ AcceptRakefile \/ RunCommands
  BY <1>1, <1>5 DEF RefuseTools, AcceptRakefile, RunCommands
<1> QED BY <1>2, <1>3, <1>4, <1>5 DEF Next, InGraph

\* The first loop is through: the references of every target are sound.
LEMMA CyclesStart ==
  ASSUME LoadType, Searching, ReferencesDone
  PROVE  Searching'
<1>1. /\ phase = "references" /\ phase' = "cycles" /\ pos' = 1 /\ pos > Len(graph.declared)
      /\ UNCHANGED <<graph, visited, stack>> /\ stack = <<>> /\ visited = {} /\ pos \in Nat
  BY DEF ReferencesDone, Searching, LoadType, PhaseOK
<1>2. Known' = Known /\ \A t : (Deps(t))' = Deps(t)
  BY <1>1 DEF Known, Deps
<1>3. ReferencesSound
  <2>1. Len(graph.declared) \in Nat
    BY LenProperties DEF LoadType, GraphInv
  <2>2. \A t \in Known : ReferencesOK(t)
    BY <1>1, <2>1 DEF Searching, Known, Elements
  <2> QED BY <2>2 DEF ReferencesSound, ReferencesOK
<1>4. ReferencesSound'
  BY <1>1, <1>2, <1>3 DEF ReferencesSound
<1>5. Walked'
  <2>1. stack' = <<>> /\ visited' = {} /\ Len(stack') = 0
    BY <1>1, EmptySeq
  <2>2. stack' \in Seq(Call') /\ \A n : n \notin 1..0
    BY <2>1, EmptySeq
  <2> QED BY <2>1, <2>2 DEF Walked
<1>6. Sunk'
  <2>1. visited' = {}
    BY <1>1
  <2>2. [v \in {} |-> 0] \in [{} -> 1..Cardinality({})]
    OBVIOUS
  <2> QED BY <2>1, <2>2 DEF Sunk
<1>7. RootsDone'
  BY <1>1 DEF RootsDone
<1> QED BY <1>1, <1>4, <1>5, <1>6, <1>7 DEF Searching

\* The next root is searched, or has been.
LEMMA RootStarts ==
  ASSUME LoadType, Searching, StartTarget
  PROVE  Searching'
<1>1. /\ phase = "cycles" /\ phase' = "cycles" /\ stack = <<>> /\ pos' = pos + 1
      /\ pos \in 1..Len(graph.declared) /\ UNCHANGED <<graph, visited>>
      /\ Walked /\ Sunk /\ RootsDone /\ ReferencesSound
  BY DEF StartTarget, Searching, LoadType, PhaseOK
<1>2. PICK root : root = graph.declared[pos]
  OBVIOUS
<1>3. root \in Known /\ stack' = IF root \in visited THEN <<>> ELSE <<Frame(root)>>
  BY <1>1, <1>2 DEF StartTarget, Opens, Known, Elements
<1>4. Known' = Known /\ Call' = Call /\ \A t : (Deps(t))' = Deps(t)
  BY <1>1 DEF Known, Call, Deps
<1>5. ReferencesSound' /\ Sunk'
  BY <1>1, <1>4 DEF ReferencesSound, Sunk
<1>6. Walked'
  <2>1. CASE root \in visited
    <3>1. stack' = <<>> /\ Len(stack') = 0 /\ stack' \in Seq(Call)
      BY <1>3, <2>1, EmptySeq
    <3> QED BY <1>1, <1>4, <3>1 DEF Walked
  <2>2. CASE root \notin visited
    <3>1. Frame(root) \in Call /\ Frame(root).node = root /\ Frame(root).next = 1
      BY <1>3 DEF Frame, Call
    <3>2. /\ stack' = <<Frame(root)>> /\ stack' \in Seq(Call) /\ Len(stack') = 1
          /\ stack'[1].node = root /\ stack'[1].next = 1
      BY <1>3, <2>2, <3>1
    <3>3. Len(Deps(root)) \in Nat
      BY DepsTyped
    <3>4. CallOK(1)'
      BY <1>1, <1>4, <2>2, <3>2, <3>3 DEF CallOK
    <3>5. \A n \in 1..1 : n = 1
      OBVIOUS
    <3> QED BY <1>1, <1>4, <3>2, <3>4, <3>5 DEF Walked
  <2> QED BY <2>1, <2>2
<1>7. RootsDone'
  <2> SUFFICES ASSUME NEW n \in 1..Len(graph.declared), n < pos + 1
               PROVE  \/ graph.declared[n] \in visited
                      \/ stack' # <<>> /\ n = pos' - 1 /\ stack'[1].node = graph.declared[n]
    BY <1>1 DEF RootsDone
  <2>1. CASE n < pos
    BY <1>1, <2>1 DEF RootsDone
  <2>2. CASE n = pos
    <3>1. n = pos' - 1 /\ graph.declared[n] = root
      BY <1>1, <1>2, <2>2
    <3>2. root \notin visited => stack' # <<>> /\ stack'[1].node = root
      BY <1>3 DEF Frame
    <3> QED BY <3>1, <3>2
  <2> QED BY <1>1, <2>1, <2>2
<1> QED BY <1>1, <1>5, <1>6, <1>7 DEF Searching

LEMMA SearchSteps ==
  ASSUME LoadType, Searching, Descend \/ Finish
  PROVE  Searching'
<1>1. /\ phase = "cycles" /\ phase' = "cycles" /\ stack # <<>> /\ UNCHANGED <<graph, pos>>
      /\ Walked /\ Sunk /\ RootsDone /\ ReferencesSound
  BY DEF Descend, Finish, AtDependency, Searching
<1>2. PICK l \in Nat \ {0} : l = Len(stack)
  BY <1>1, TopOfStack
<1>3. Known' = Known /\ \A t : (Deps(t))' = Deps(t)
  BY <1>1 DEF Known, Deps
<1>4. ReferencesSound'
  BY <1>1, <1>3 DEF ReferencesSound
<1>5. Walked' /\ Sunk'
  <2>1. CASE Descend
    <3>1. Walked' /\ visited' = visited
      BY <1>1, <2>1, DescendWalks
    <3> QED BY <1>1, <1>3, <3>1 DEF Sunk
  <2>2. CASE Finish
    BY <1>1, <2>2, FinishWalks, FinishSinks
  <2> QED BY <2>1, <2>2
<1>6. /\ visited \subseteq visited'
      /\ (stack' # <<>> /\ stack'[1].node = stack[1].node) \/ stack[1].node \in visited'
  <2>1. CASE Descend
    <3>1. visited' = visited
      BY <2>1 DEF Descend
    <3>2. /\ stack' \in Seq(Call) /\ Len(stack') = IF Opens(Dependency) THEN l + 1 ELSE l
          /\ \A n \in 1..(l - 1) : stack'[n] = stack[n]
          /\ stack'[l] = [node |-> Top.node, next |-> Top.next + 1] /\ Top = stack[l]
      BY <1>1, <1>2, <2>1, DescendShape, TopOfStack
    <3>3. stack' # <<>>
      BY <1>2, <3>2, EmptySeq
    <3>4. 1 \in 1..(l - 1) \/ l = 1
      BY <1>2
    <3> QED BY <3>1, <3>2, <3>3, <3>4
  <2>2. CASE Finish
    <3>1. stack' = Below /\ visited' = visited \cup {Top.node}
      BY <2>2 DEF Finish
    <3>2. Top = stack[l] /\ Len(Below) = l - 1 /\ \A n \in 1..(l - 1) : Below[n] = stack[n]
      BY <1>1, <1>2, TopOfStack
    <3>3. CASE l = 1
      BY <3>1, <3>2, <3>3
    <3>4. CASE l # 1
      <4>1. 1 \in 1..(l - 1) /\ l - 1 # 0
        BY <1>2, <3>4
      <4> QED BY <3>1, <3>2, <4>1, EmptySeq
    <3> QED BY <3>3, <3>4
  <2> QED BY <2>1, <2>2
<1>7. RootsDone'
  BY <1>1, <1>6 DEF RootsDone
<1> QED BY <1>1, <1>4, <1>5, <1>7 DEF Searching

LEMMA ReferencesChecked ==
  ASSUME LoadType, Searching, CheckReferences
  PROVE  /\ Searching'
         /\ ReferenceError(graph.declared[pos]) # "none" => ~ReferencesSound'
<1>1. /\ phase = "references" /\ pos \in 1..Len(graph.declared) /\ UNCHANGED <<graph, visited, stack>>
      /\ stack = <<>> /\ visited = {}
  BY DEF CheckReferences, Searching, LoadType, PhaseOK
<1>2. Known' = Known /\ \A t : (Deps(t))' = Deps(t)
  BY <1>1 DEF Known, Deps
<1>3. graph.declared[pos] \in Known
  BY <1>1 DEF Known, Elements
<1>4. CASE ReferenceError(graph.declared[pos]) = "none"
  <2>1. pos' = pos + 1 /\ phase' = phase /\ ReferencesOK(graph.declared[pos])
    BY <1>4, ReferenceExact DEF CheckReferences
  <2>2. ASSUME NEW n \in 1..Len(graph.declared), n < pos + 1
        PROVE  ReferencesOK(graph.declared[n])
    BY <1>1, <2>1, <2>2 DEF Searching
  <2>3. \A n \in 1..Len(graph.declared) : n < pos + 1 => ReferencesOK(graph.declared[n])'
    BY <1>1, <1>2, <2>2 DEF ReferencesOK
  <2> QED BY <1>1, <1>4, <2>1, <2>3 DEF Searching
<1>5. CASE ReferenceError(graph.declared[pos]) # "none"
  <2>1. phase' = "done" /\ ~ReferencesOK(graph.declared[pos])
    BY <1>5, ReferenceExact DEF CheckReferences
  <2>2. ~ReferencesSound
    BY <1>3, <2>1 DEF ReferencesSound, ReferencesOK
  <2>3. ~ReferencesSound'
    BY <1>1, <1>2, <2>2 DEF ReferencesSound
  <2> QED BY <2>1, <2>3 DEF Searching
<1> QED BY <1>4, <1>5

\* With every root searched, every target has its rank.
LEMMA AllRanked ==
  ASSUME LoadType, Searching, Accept
  PROVE  (Ranked /\ ReferencesSound)'
<1>1. /\ Walked /\ Sunk /\ RootsDone /\ ReferencesSound /\ stack = <<>>
      /\ pos > Len(graph.declared) /\ pos \in Nat /\ UNCHANGED graph
  BY DEF Accept, Searching, LoadType, PhaseOK
<1>2. visited = Known
  <2>1. Len(graph.declared) \in Nat
    BY LenProperties DEF LoadType, GraphInv
  <2>2. ASSUME NEW n \in 1..Len(graph.declared) PROVE graph.declared[n] \in visited
    BY <1>1, <2>1 DEF RootsDone
  <2> QED BY <1>1, <2>2 DEF Walked, Known, Elements
<1>3. Known' = Known /\ \A t : (Deps(t))' = Deps(t)
  BY <1>1 DEF Known, Deps
<1> QED BY <1>1, <1>2, <1>3 DEF Sunk, Ranked, ReferencesSound

LEMMA SearchingHolds ==
  ASSUME LoadType, Searching, Next
  PROVE  Searching'
<1> USE DEF LoadType, PhaseOK, Before, Checking, Outcome
<1>1. CASE ReadRakefile \/ ReadLocal \/ ResolveTarget \/ RefuseVariant \/ VariantsDone
  BY <1>1 DEF ReadRakefile, ReadLocal, ResolveTarget, RefuseVariant, VariantsDone, Searching,
       search, loaded
<1>2. CASE Parse \/ CheckHeader \/ CheckTarget \/ TargetsDone
  BY <1>2 DEF Parse, CheckHeader, CheckTarget, TargetsDone, Searching, search, loaded
<1>3. CASE phase' \in {"tools", "ready", "done"}
  BY <1>3 DEF Searching
<1>4. CASE RefuseTools \/ AcceptRakefile \/ RunCommands \/ ReportCycle \/ Accept
  BY <1>3, <1>4, ToolErrorOwn DEF RefuseTools, AcceptRakefile, RunCommands, ReportCycle, Accept
<1>5. CASE CheckGraph /\ ~(ReportCycle \/ Accept)
  BY <1>5, CyclesStart, RootStarts, SearchSteps, ReferencesChecked DEF CheckGraph
<1> QED BY <1>1, <1>2, <1>4, <1>5 DEF Next, InGraph

\* The verdict of the graph stands.
LEMMA RankedKept ==
  ASSUME UNCHANGED graph, Ranked, ReferencesSound
  PROVE  (Ranked /\ ReferencesSound)'
<1>1. Known' = Known /\ \A t : (Deps(t))' = Deps(t)
  BY DEF Known, Deps
<1> QED BY <1>1 DEF Ranked, ReferencesSound

LEMMA SearchHolds ==
  ASSUME LoadType, SearchInv, Next
  PROVE  SearchInv'
<1> USE DEF LoadType
<1>1. Searching'
  BY SearchingHolds DEF SearchInv
<1>2. phase' \in {"tools", "ready"} => (Ranked /\ ReferencesSound)'
  <2>1. phase' \in {"tools", "ready"} => Accept \/ (phase \in {"tools", "ready"} /\ UNCHANGED graph)
    BY GraphVerdicts
  <2>2. CASE Accept
    BY <2>2, AllRanked DEF SearchInv
  <2>3. CASE phase \in {"tools", "ready"} /\ UNCHANGED graph
    BY <2>3, RankedKept DEF SearchInv, VerdictIsExact
  <2> QED BY <2>1, <2>2, <2>3
<1>3. verdict' \in {"UnknownDependency", "ConflictingDependency"} => ~ReferencesSound'
  BY GraphVerdicts, ReferencesChecked DEF SearchInv
<1>4. verdict' = "CircularDependency" => CycleIsReal'
  <2>1. ReportCycle => Walked
    BY DEF ReportCycle, AtDependency, SearchInv, Searching
  <2> QED BY <2>1, GraphVerdicts, ReportIsReal
<1>5. verdict' = "valid" => (Ranked /\ ReferencesSound)'
  <2>1. verdict' = "valid" => verdict = "valid" \/ AcceptRakefile
    BY Verdicts
  <2>2. verdict' = "valid" => UNCHANGED graph
    <3>1. ASSUME verdict' = "valid" PROVE ~Parse /\ Parsed'
      BY <3>1, Verdicts DEF Parse, Outcome, If, PhaseOK, Before, Checking, AcceptRakefile, Parsed
    <3> QED BY <3>1, GraphSteps
  <2>3. verdict' = "valid" => Ranked /\ ReferencesSound
    BY <2>1 DEF AcceptRakefile, SearchInv, VerdictIsExact
  <2> QED BY <2>2, <2>3, RankedKept
<1> QED BY <1>1, <1>2, <1>3, <1>4, <1>5 DEF SearchInv, VerdictIsExact

-----------------------------------------------------------------------------
(* What an accepted Rakefile can do, and the shell.                         *)

\* The set of what t leads to exists, and is closed under dependencies.
LEMMA ReachShape ==
  ASSUME LoadType, ReferencesSound, NEW t \in Known
  PROVE  /\ t \in Reach(t) /\ Reach(t) \subseteq Known \cup graph.excluded
         /\ \A u \in Reach(t) : Elements(Deps(u)) \subseteq Reach(t)
<1> DEFINE U == Known \cup graph.excluded
           Closed(T) == t \in T /\ \A u \in T : Elements(Deps(u)) \subseteq T
           Least1(S) == Closed(S) /\ \A T \in SUBSET U : Closed(T) => S \subseteq T
           meet == {u \in U : \A T \in SUBSET U : Closed(T) => u \in T}
<1>1. \A u : Elements(Deps(u)) \subseteq U
  <2>1. ASSUME NEW u \in Known PROVE Elements(Deps(u)) \subseteq U
    BY DEF ReferencesSound
  <2>2. ASSUME NEW u, u \notin Known PROVE Elements(Deps(u)) \subseteq U
    BY <2>2, EmptySeq DEF Deps, Elements
  <2> QED BY <2>1, <2>2
<1>2. meet \in SUBSET U /\ Closed(meet)
  <2>1. t \in meet
    OBVIOUS
  <2>2. ASSUME NEW u \in meet, NEW d \in Elements(Deps(u)) PROVE d \in meet
    <3>1. d \in U
      BY <1>1
    <3>2. ASSUME NEW T \in SUBSET U, Closed(T) PROVE d \in T
      BY <3>2, <2>2
    <3> QED BY <3>1, <3>2
  <2> QED BY <2>1, <2>2
<1>3. Least1(meet)
  BY <1>2
<1>4. Reach(t) = CHOOSE S \in SUBSET U : Least1(S)
  BY DEF Reach
<1> HIDE DEF Least1, meet, U
<1>5. Reach(t) \in SUBSET U /\ Least1(Reach(t))
  BY <1>2, <1>3, <1>4
<1> QED BY <1>5 DEF Least1, U

\* A target of least rank among those t leads to depends on nothing.
LEMMA NoneHollow ==
  ASSUME LoadInv
  PROVE  NoHollowTarget
<1> SUFFICES ASSUME Accepted, NEW t \in Known,
                    \A u \in Reach(t) : u \notin graph.excluded /\ targets[u].commands = <<>>
             PROVE  FALSE
  BY DEF NoHollowTarget
<1>1. LoadType /\ Ranked /\ ReferencesSound /\ \A u \in Known : TargetSound(u)
  BY DEF Accepted, LoadInv, SearchInv, ChecksInv, TargetsPassed
<1>2. /\ t \in Reach(t) /\ Reach(t) \subseteq Known
      /\ \A u \in Reach(t) : Elements(Deps(u)) \subseteq Reach(t)
  BY <1>1, ReachShape
<1>3. IsFiniteSet(Known) /\ Cardinality(Known) \in Nat
  BY <1>1, KnownFinite, FS_CardinalityType
<1>4. PICK rank \in [Known -> 1..Cardinality(Known)] :
        \A u \in Known : \A d \in Elements(Deps(u)) \cap Known : rank[d] < rank[u]
  BY <1>1 DEF Ranked
<1> DEFINE ranks == {rank[u] : u \in Reach(t)}
<1>5. ranks \in SUBSET Nat /\ ranks # {}
  BY <1>2, <1>3, <1>4
<1>6. PICK u \in Reach(t) : \A v \in Reach(t) : rank[u] <= rank[v]
  <2>1. PICK m \in ranks : \A n \in ranks : m <= n
    <3> HIDE DEF ranks
    <3> QED BY <1>5, Least
  <2> QED BY <2>1
<1>7. Deps(u) # <<>>
  BY <1>1, <1>2 DEF TargetSound, Empty
<1>8. PICK d : d \in Elements(Deps(u))
  <2>1. Deps(u) \in Seq(STRING) /\ Len(Deps(u)) \in Nat
    BY <1>1, DepsTyped
  <2>2. 1 \in 1..Len(Deps(u))
    BY <1>7, <2>1, EmptySeq
  <2> QED BY <2>2 DEF Elements
<1>9. d \in Reach(t) /\ d \in Known /\ u \in Known
  BY <1>2, <1>8
<1>10. rank[d] < rank[u] /\ rank[u] <= rank[d] /\ rank[d] \in Nat /\ rank[u] \in Nat
  BY <1>3, <1>4, <1>6, <1>8, <1>9
<1> QED BY <1>10

LEMMA ShellAround == ShellIsAround
<1> DEFINE started == {Classify(user.nest[n]) : n \in 1..Len(user.nest)}
           inside == Elements(user.nest)
           outer == IF user.login # "none" THEN Classify(user.login)
                    ELSE IF host.os = "windows" THEN "ps" ELSE "posix"
           found == DetectFamily(Env)
<1> SUFFICES ASSUME user.rakeShell = "none"
             PROVE  /\ found \in started \cup {outer}
                    /\ "pwsh" \in inside => found = "ps"
                    /\ "fish" \in started /\ "ps" \notin started => found = "fish"
  BY DEF ShellIsAround
<1>1. /\ Env.rakeShell = "none" /\ Env.windows = (host.os = "windows") /\ Env.shell = user.login
      /\ Env.channel = ("pwsh" \in inside)
      /\ Env.modulePath = (host.os = "windows" \/ "pwsh" \in inside)
      /\ Env.fishVersion = ("fish" \in inside)
  BY DEF Env, EnvironmentOf, Elements
<1>2. PsSignal(Env) <=> "pwsh" \in inside
  BY <1>1 DEF PsSignal
<1>3. found = IF "pwsh" \in inside THEN "ps" ELSE IF "fish" \in inside THEN "fish" ELSE outer
  BY <1>1, <1>2 DEF DetectFamily, FamilyFromEnv
<1>4. /\ "pwsh" \in inside => "ps" \in started
      /\ "fish" \in inside => "fish" \in started
      /\ "fish" \in started => "fish" \in inside
  BY DEF Elements, Classify
<1> HIDE DEF started, inside, outer, found
<1> QED BY <1>3, <1>4

-----------------------------------------------------------------------------
(* The theorems.                                                           *)

LEMMA LoadInitially == Init => LoadInv
<1> SUFFICES ASSUME Init PROVE LoadInv
  OBVIOUS
<1>1. /\ phase = "read" /\ verdict = "pending" /\ stack = <<>> /\ visited = {}
  BY DEF Init, GraphInit
<1>2. VariantsInv /\ ChecksInv /\ SearchInv
  BY <1>1 DEF VariantsInv, ChecksInv, TargetsPassed, SearchInv, Searching, VerdictIsExact
<1> QED BY <1>2, LoadTypeInitially DEF LoadInv

LEMMA LoadStutters == LoadInv /\ UNCHANGED vars => LoadInv'
<1> SUFFICES ASSUME LoadInv, UNCHANGED vars PROVE LoadInv'
  OBVIOUS
<1>1. UNCHANGED <<graph, phase, verdict, pos, visited, stack, cycle, host, doc, resolved, targets>>
  BY DEF vars, graphVars, inputs, loaded
<1>2. LoadType'
  BY LoadTypeHolds DEF LoadInv
<1>3. VariantsInv'
  <2>1. UNCHANGED <<Names, Part("target")>>
    BY <1>1 DEF Names, Part
  <2>2. \A t : Settled(t)' <=> Settled(t)
    BY <1>1, <2>1 DEF Settled, Match
  <2> QED BY <1>1, <2>1, <2>2 DEF LoadInv, VariantsInv
<1>4. ChecksInv'
  BY <1>1, SoundKept DEF LoadInv, ChecksInv, TargetsPassed
<1>5. SearchInv'
  <2>1. Known' = Known /\ Call' = Call /\ \A t : (Deps(t))' = Deps(t)
    BY <1>1 DEF Known, Call, Deps
  <2>2. Walked => Walked'
    BY <1>1, <2>1 DEF Walked, CallOK
  <2>3. (Sunk => Sunk') /\ (RootsDone => RootsDone')
    BY <1>1, <2>1 DEF Sunk, RootsDone
  <2>4. (Ranked' <=> Ranked) /\ (ReferencesSound' <=> ReferencesSound)
        /\ \A t : ReferencesOK(t)' <=> ReferencesOK(t)
    BY <1>1, <2>1 DEF Ranked, ReferencesSound, ReferencesOK
  <2>5. CycleIsReal => CycleIsReal'
    BY <1>1, <2>1 DEF CycleIsReal
  <2> QED BY <1>1, <2>2, <2>3, <2>4, <2>5 DEF LoadInv, SearchInv, Searching, VerdictIsExact
<1> QED BY <1>2, <1>3, <1>4, <1>5 DEF LoadInv

LEMMA LoadHolds == LoadInv /\ [Next]_vars => LoadInv'
<1> SUFFICES ASSUME LoadInv, [Next]_vars PROVE LoadInv'
  OBVIOUS
<1>1. CASE Next
  BY <1>1, LoadTypeHolds, VariantsHold, ChecksHold, SearchHolds DEF LoadInv
<1>2. CASE UNCHANGED vars
  BY <1>2, LoadStutters
<1> QED BY <1>1, <1>2

\* The inductive invariant of the loader: what each phase has established, from the
\* TOML value to the graph that has been searched.
THEOREM LoadInvariant == Spec => []LoadInv
BY LoadInitially, LoadHolds, PTL DEF Spec

\* What local_config::merge leaves of the two files is the merge patch of RFC 7386,
\* path by path, for every pair of documents, however deep their tables nest.
THEOREM MergesArePatches == Spec => []MergeIsPatch
<1>1. LoadInv => MergeIsPatch
  <2> SUFFICES ASSUME LoadInv, phase = "variants"
               PROVE  IF local.is = "toml" THEN IsMergePatch(base.value, local.value, doc)
                      ELSE doc = base.value
    BY DEF MergeIsPatch
  <2>1. /\ base.is = "toml" /\ InputsInv
        /\ doc = IF local.is = "toml" THEN Merge(base.value, local.value) ELSE base.value
    BY DEF LoadInv, LoadType, DocInv
  <2>2. ASSUME local.is = "toml" PROVE IsMergePatch(base.value, local.value, doc)
    <3>1. DocumentOK(base.value) /\ DocumentOK(local.value)
      BY <2>1, <2>2, FilesRead
    <3>2. Sound(base.value) /\ Sound(local.value)
      BY <3>1, DepthAssumption, DocumentWithin
    <3> QED BY <2>1, <2>2, <3>2, DepthAssumption, MergeIsMergePatch
  <2> QED BY <2>1, <2>2
<1> QED BY <1>1, LoadInvariant, PTL

\* resolve_platform_variants loads or sets aside every target of the file, and what
\* it loads is what the file says for this host, for any file and any host.
THEOREM VariantsArePartition == Spec => []VariantsPartition
<1>1. LoadInv => VariantsPartition
  BY SettledPartition DEF LoadInv
<1> QED BY <1>1, LoadInvariant, PTL

\* graph::validate accepts only graphs without a cycle and refuses only those that
\* are wrong, for graphs of any size: the cycle it reports is one.
THEOREM VerdictsAreExact == Spec => []VerdictIsExact
<1>1. LoadInv => VerdictIsExact
  BY DEF LoadInv, SearchInv
<1> QED BY <1>1, LoadInvariant, PTL

\* Whatever Rakefile::validate accepts has a shell and a host for every command, and
\* every tool that is named is in exactly one category, complete.
THEOREM AcceptedCanRun == Spec => []AcceptedRuns
<1>1. LoadInv => AcceptedRuns
  BY ChecksAccept DEF LoadInv
<1> QED BY <1>1, LoadInvariant, PTL

\* No accepted target leads nowhere, whatever the graph.
THEOREM NoTargetIsHollow == Spec => []NoHollowTarget
<1>1. LoadInv => NoHollowTarget
  BY NoneHollow
<1> QED BY <1>1, LoadInvariant, PTL

\* detect_shell_family finds a shell that is around, however the user's shells nest.
THEOREM ShellsAreAround == Spec => []ShellIsAround
BY ShellAround, PTL
-----------------------------------------------------------------------------
(* Loading advances.                                                       *)

\* What loading still has before it: phases, targets of the loop under way, and in the
\* search for cycles the targets no call has met, the calls that have not returned and
\* the dependencies of the innermost one.
Unmet == Known \ (visited \cup InPath)
NextLeft == IF stack = <<>> THEN 0 ELSE Len(Deps(Top.node)) + 1 - Top.next
PhasesLeft ==
  [read |-> 10, local |-> 9, variants |-> 8, parse |-> 7, header |-> 6, targets |-> 5,
   references |-> 4, cycles |-> 3, tools |-> 2, ready |-> 1, done |-> 0][phase]
TargetsLeft ==
  IF phase = "variants" THEN Len(Names) + 1 - pos
  ELSE IF phase \in {"targets", "references", "cycles"} THEN Len(graph.declared) + 1 - pos
  ELSE 0
Left == <<PhasesLeft, TargetsLeft, Cardinality(Unmet), Len(stack), NextLeft>>
Advance == Left \in [1..5 -> Nat] /\ LexLess(Left', Left)

\* Every step of the loader leaves less to do, on a graph with a cycle as well: no
\* target is searched from twice, and every call of detect_cycle returns to its
\* caller's next dependency or reports a cycle.
LoadingAdvances == [][Advance]_vars

LoopsTyped == pos \in Nat \ {0} /\ Len(Names) \in Nat /\ Len(graph.declared) \in Nat

\* The loops stay within their targets, and calls are made in the search only.
LoopsInv ==
  /\ phase = "variants" => pos <= Len(Names) + 1
  /\ phase \in {"targets", "references", "cycles"} => pos <= Len(graph.declared) + 1
  /\ phase \notin {"cycles", "done"} => stack = <<>>

Measured ==
  /\ DOMAIN Left = 1..5 /\ Left[1] = PhasesLeft /\ Left[2] = TargetsLeft
  /\ Left[3] = Cardinality(Unmet) /\ Left[4] = Len(stack) /\ Left[5] = NextLeft
  /\ phase # "done" => Left \in [1..5 -> Nat]

LEMMA LoopsAreTyped == LoadInv => LoopsTyped
<1> SUFFICES ASSUME LoadInv PROVE LoopsTyped
  OBVIOUS
<1>1. Len(Names) \in Nat
  <2>1. CASE IsTable(Part("target"))
    BY <2>1, SectionResolved DEF LoadInv, LoadType, DocInv
  <2>2. CASE ~IsTable(Part("target"))
    BY <2>2, EmptySeq DEF Names
  <2> QED BY <2>1, <2>2
<1> QED BY <1>1, LenProperties DEF LoopsTyped, LoadInv, LoadType, PhaseOK, GraphInv

LEMMA LoopsHold == LoadInv /\ LoopsTyped /\ LoopsTyped' /\ LoopsInv /\ [Next]_vars => LoopsInv'
<1> SUFFICES ASSUME LoadInv, LoopsTyped, LoopsTyped', LoopsInv, [Next]_vars PROVE LoopsInv'
  OBVIOUS
<1> USE DEF LoopsInv, LoopsTyped
<1>1. phase \in {"read", "local", "parse", "header"} => pos = 1
  BY DEF LoadInv, LoadType, PhaseOK
<1>2. CASE ReadRakefile \/ ReadLocal
  BY <1>1, <1>2 DEF ReadRakefile, ReadLocal, Outcome, search
<1>3. CASE ResolveTarget \/ RefuseVariant
  <2>1. Names' = Names
    BY <1>3 DEF ResolveTarget, RefuseVariant, loaded, Names, Part
  <2> QED BY <1>1, <1>3, <2>1 DEF ResolveTarget, RefuseVariant, Outcome, search
<1>4. CASE VariantsDone \/ Parse \/ CheckHeader
  BY <1>1, <1>4 DEF VariantsDone, Parse, CheckHeader, Outcome, search
<1>5. CASE CheckTarget \/ TargetsDone
  BY <1>1, <1>5 DEF CheckTarget, TargetsDone, Outcome, search
<1>6. CASE CheckReferences \/ ReferencesDone
  BY <1>1, <1>6 DEF CheckReferences, ReferencesDone
<1>7. CASE StartTarget \/ Descend \/ ReportCycle \/ Finish \/ Accept
  BY <1>7 DEF StartTarget, Descend, ReportCycle, Finish, Accept, AtDependency
<1>8. CASE RefuseTools \/ AcceptRakefile \/ RunCommands
  BY <1>8 DEF RefuseTools, AcceptRakefile, RunCommands, Outcome, search
<1>9. CASE UNCHANGED vars
  <2>1. Names' = Names
    BY <1>9 DEF vars, loaded, Names, Part
  <2> QED BY <1>9, <2>1 DEF vars, graphVars
<1> QED BY <1>2, <1>3, <1>4, <1>5, <1>6, <1>7, <1>8, <1>9 DEF Next, InGraph, CheckGraph

LEMMA LoadMeasured == LoadInv /\ LoopsTyped /\ LoopsInv => Measured
<1> SUFFICES ASSUME LoadInv, LoopsTyped, LoopsInv PROVE Measured
  OBVIOUS
<1>1. Left = <<PhasesLeft, TargetsLeft, Cardinality(Unmet), Len(stack), NextLeft>>
  BY DEF Left
<1>2. \A a, b, c, d, e : LET l == <<a, b, c, d, e>> IN
        /\ DOMAIN l = 1..5 /\ l[1] = a /\ l[2] = b /\ l[3] = c /\ l[4] = d /\ l[5] = e
        /\ a \in Nat /\ b \in Nat /\ c \in Nat /\ d \in Nat /\ e \in Nat => l \in [1..5 -> Nat]
  OBVIOUS
<1>3. PhasesLeft \in Nat
  BY DEF LoadInv, LoadType, PhaseOK, Before, Checking, PhasesLeft
<1>4. TargetsLeft \in Nat
  BY DEF LoopsTyped, LoopsInv, TargetsLeft
<1>5. Cardinality(Unmet) \in Nat
  BY KnownFinite, FS_Subset, FS_CardinalityType DEF LoadInv, Unmet
<1>6. ASSUME phase # "done" PROVE Len(stack) \in Nat /\ NextLeft \in Nat
  <2>1. CASE stack = <<>>
    BY <2>1, EmptySeq DEF NextLeft
  <2>2. CASE stack # <<>>
    <3>1. Walked
      BY <1>6, <2>2 DEF LoopsInv, LoadInv, SearchInv, Searching
    <3>2. Len(stack) \in Nat \ {0} /\ Top = stack[Len(stack)] /\ Top.next \in Nat \ {0}
      BY <2>2, <3>1, TopOfStack
    <3>3. Top.next <= Len(Deps(Top.node)) + 1
      <4>1. Len(stack) \in 1..Len(stack)
        BY <3>2
      <4> QED BY <3>1, <3>2, <4>1 DEF Walked, CallOK
    <3>4. Len(Deps(Top.node)) \in Nat
      BY DepsTyped DEF LoadInv
    <3> QED BY <2>2, <3>2, <3>3, <3>4 DEF NextLeft
  <2> QED BY <2>1, <2>2
<1> QED BY <1>1, <1>2, <1>3, <1>4, <1>5, <1>6 DEF Measured

\* Inside the search: a call is opened, moves on, or returns.
LEMMA SearchLeavesLess ==
  ASSUME LoadInv, Measured, Measured', Descend \/ Finish
  PROVE  LexLess(Left', Left)
<1>1. /\ phase = "cycles" /\ phase' = "cycles" /\ stack # <<>> /\ UNCHANGED <<graph, pos>>
      /\ Walked
  BY DEF Descend, Finish, AtDependency, LoadInv, SearchInv, Searching
<1>2. PICK l \in Nat \ {0} : l = Len(stack)
  BY <1>1, TopOfStack
<1>3. /\ Top = stack[l] /\ Top.node \in Known /\ Top.next \in Nat \ {0}
      /\ 1..l = 1..(l - 1) \cup {l} /\ 1..(l + 1) = 1..l \cup {l + 1}
  BY <1>1, <1>2, TopOfStack
<1>4. Known' = Known /\ \A t : (Deps(t))' = Deps(t)
  BY <1>1 DEF Known, Deps
<1>5. Left'[1] = Left[1] /\ Left'[2] = Left[2] /\ DOMAIN Left' = 1..5
  BY <1>1 DEF Measured, PhasesLeft, TargetsLeft
<1>6. /\ Left[3] = Cardinality(Unmet) /\ Left[4] = l /\ Left[5] = NextLeft
      /\ Left'[3] = Cardinality(Unmet') /\ Left'[4] = Len(stack') /\ Left'[5] = NextLeft'
      /\ 1..(3 - 1) = {1, 2} /\ 1..(4 - 1) = {1, 2, 3} /\ 1..(5 - 1) = {1, 2, 3, 4}
  BY <1>2 DEF Measured
<1>7. CASE Finish
  <2>1. visited' = visited \cup {Top.node} /\ Len(stack') = l - 1
        /\ \A n \in 1..(l - 1) : stack'[n] = stack[n]
    BY <1>1, <1>2, <1>7, TopOfStack DEF Finish
  <2>2. \A t : t \in InPath <=> t \in InPath' \/ t = Top.node
    BY <1>2, <1>3, <2>1 DEF InPath
  <2>3. Unmet' = Unmet
    BY <1>4, <2>1, <2>2 DEF Unmet
  <2>4. Left'[3] = Left[3] /\ Left'[4] < Left[4] /\ 4 \in 1..5
    BY <1>6, <2>1, <2>3
  <2> QED BY <1>5, <1>6, <2>4, LessAt
<1>8. CASE Descend
  <2>1. /\ Len(stack') = IF Opens(Dependency) THEN l + 1 ELSE l
        /\ \A n \in 1..(l - 1) : stack'[n] = stack[n]
        /\ stack'[l] = [node |-> Top.node, next |-> Top.next + 1]
        /\ Opens(Dependency) => stack'[l + 1] = [node |-> Dependency, next |-> 1]
    BY <1>1, <1>2, <1>8, DescendShape
  <2>2. visited' = visited /\ Dependency \notin InPath
    BY <1>8 DEF Descend
  <2>3. \A n \in 1..l : stack'[n].node = stack[n].node
    BY <1>3, <2>1
  <2>4. CASE Opens(Dependency)
    <3>1. PICK dep : dep = Dependency
      OBVIOUS
    <3>2. InPath' = InPath \cup {dep}
      <4>1. Len(stack') = l + 1 /\ stack'[l + 1].node = dep
        BY <2>1, <2>4, <3>1
      <4> QED BY <1>2, <1>3, <2>3, <4>1 DEF InPath
    <3>3. Unmet' = Unmet \ {dep} /\ dep \in Unmet
      BY <1>4, <2>2, <2>4, <3>1, <3>2 DEF Unmet, Opens
    <3>4. IsFiniteSet(Unmet)
      BY KnownFinite, FS_Subset DEF LoadInv, Unmet
    <3>5. Cardinality(Unmet') < Cardinality(Unmet)
      BY <3>3, <3>4, OneFewer
    <3>6. Left'[3] < Left[3] /\ 3 \in 1..5
      BY <1>6, <3>5
    <3> QED BY <1>5, <1>6, <3>6, LessAt
  <2>5. CASE ~Opens(Dependency)
    <3>1. Len(stack') = l
      BY <2>1, <2>5
    <3>2. InPath' = InPath
      BY <1>2, <2>3, <3>1 DEF InPath
    <3>3. Unmet' = Unmet
      BY <1>4, <2>2, <3>2 DEF Unmet
    <3>4. stack' # <<>> /\ Top' = stack'[l]
      BY <3>1, EmptySeq DEF Top
    <3>5. Top'.node = Top.node /\ Top'.next = Top.next + 1
      BY <2>1, <3>4
    <3>6. Len(Deps(Top.node)) \in Nat
      BY DepsTyped DEF LoadInv
    <3>7. /\ NextLeft = Len(Deps(Top.node)) + 1 - Top.next
          /\ NextLeft' = Len(Deps(Top.node)) + 1 - (Top.next + 1)
      BY <1>1, <1>4, <3>4, <3>5 DEF NextLeft
    <3>8. Left'[3] = Left[3] /\ Left'[4] = Left[4] /\ Left'[5] < Left[5] /\ 5 \in 1..5
      BY <1>3, <1>6, <3>1, <3>3, <3>6, <3>7
    <3> QED BY <1>5, <1>6, <3>8, LessAt
  <2> QED BY <2>4, <2>5
<1> QED BY <1>7, <1>8

\* A step ends a phase or moves a loop over the targets on.
LEMMA LoopsLeaveLess ==
  ASSUME LoadInv, LoopsTyped, LoopsTyped', Measured, Measured', Next, ~(Descend \/ Finish)
  PROVE  LexLess(Left', Left)
<1>1. /\ DOMAIN Left' = 1..5 /\ Left[1] = PhasesLeft /\ Left'[1] = PhasesLeft'
      /\ Left[2] = TargetsLeft /\ Left'[2] = TargetsLeft'
      /\ 1..(1 - 1) = {} /\ 1..(2 - 1) = {1} /\ 1 \in 1..5 /\ 2 \in 1..5
  BY DEF Measured
<1>2. ASSUME PhasesLeft' < PhasesLeft PROVE LexLess(Left', Left)
  BY <1>1, <1>2, LessAt
<1>3. ASSUME phase' = phase, TargetsLeft' < TargetsLeft PROVE LexLess(Left', Left)
  <2>1. Left'[1] = Left[1] /\ Left'[2] < Left[2]
    BY <1>1, <1>3 DEF PhasesLeft
  <2> QED BY <1>1, <2>1, LessAt
<1>4. CASE phase' = phase
  <2>1. CASE ResolveTarget
    <3>1. Names' = Names /\ pos' = pos + 1 /\ phase = "variants"
      BY <2>1 DEF ResolveTarget, Names, Part
    <3>2. TargetsLeft' < TargetsLeft
      BY <1>4, <3>1 DEF TargetsLeft, LoopsTyped
    <3> QED BY <1>3, <1>4, <3>2
  <2>2. CASE CheckTarget \/ CheckReferences \/ StartTarget
    <3>1. graph' = graph /\ pos' = pos + 1 /\ phase \in {"targets", "references", "cycles"}
      BY <1>4, <2>2 DEF CheckTarget, CheckReferences, StartTarget
    <3>2. /\ TargetsLeft = Len(graph.declared) + 1 - pos
          /\ TargetsLeft' = Len(graph.declared) + 1 - (pos + 1)
      BY <1>4, <3>1 DEF TargetsLeft
    <3>3. \A n, k \in Nat : n + 1 - (k + 1) < n + 1 - k
      OBVIOUS
    <3>4. TargetsLeft' < TargetsLeft
      BY <3>2, <3>3, Zenon DEF LoopsTyped
    <3> QED BY <1>3, <1>4, <3>4
  <2>3. ResolveTarget \/ CheckTarget \/ CheckReferences \/ StartTarget
    BY <1>4 DEF Next, InGraph, CheckGraph, ReadRakefile, ReadLocal, RefuseVariant, VariantsDone,
      Parse, CheckHeader, TargetsDone, ReferencesDone, ReportCycle, Accept, AtDependency,
      RefuseTools, AcceptRakefile, RunCommands, Outcome
  <2> QED BY <2>1, <2>2, <2>3
<1>5. CASE phase' # phase
  <2>1. PhasesLeft' < PhasesLeft
    BY <1>5 DEF PhasesLeft, Next, InGraph, CheckGraph, ReadRakefile, ReadLocal, ResolveTarget,
      RefuseVariant, VariantsDone, Parse, CheckHeader, CheckTarget, TargetsDone,
      CheckReferences, ReferencesDone, StartTarget, ReportCycle, Accept, AtDependency,
      RefuseTools, AcceptRakefile, RunCommands, Outcome
  <2> QED BY <1>2, <2>1
<1> QED BY <1>4, <1>5

\* The loader does less and less, for any file, layer and host: no behaviour of it
\* goes on for ever (NoEndlessDescent).
THEOREM LoaderAdvances == Spec => LoadingAdvances
<1>1. Init => LoopsInv
  BY DEF Init, GraphInit, LoopsInv
<1>2. LoadInv /\ LoopsTyped /\ LoopsTyped' /\ Measured /\ Measured' /\ [Next]_vars => [Advance]_vars
  <2> SUFFICES ASSUME LoadInv, LoopsTyped, LoopsTyped', Measured, Measured', Next PROVE Advance
    OBVIOUS
  <2>1. phase # "done"
    BY DEF Next, InGraph, CheckGraph, ReadRakefile, ReadLocal, ResolveTarget,
      RefuseVariant, VariantsDone, Parse, CheckHeader, CheckTarget, TargetsDone,
      CheckReferences, ReferencesDone, StartTarget, Descend, Finish, ReportCycle, Accept,
      AtDependency, RefuseTools, AcceptRakefile, RunCommands
  <2>2. LexLess(Left', Left)
    BY SearchLeavesLess, LoopsLeaveLess
  <2> QED BY <2>1, <2>2 DEF Advance, Measured
<1> QED BY <1>1, <1>2, LoadInvariant, LoopsAreTyped, LoopsHold, LoadMeasured, PTL
        DEF Spec, LoadingAdvances
=============================================================================
