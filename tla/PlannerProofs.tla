--------------------------- MODULE PlannerProofs ---------------------------
(***************************************************************************)
(* The walk of order_visit is right on every graph, with or without cycles, *)
(* for any roots and skips, and so is the plan made of the two walks.      *)
(*                                                                         *)
(* WalkInv is the usual invariant of a depth-first search: nodes are new,   *)
(* on the stack or visited, and what a node has looked at is no longer new. *)
(* OrderInv adds that a ranking of the targets falls along the stack, so a  *)
(* dependency is never found there; ReachInv that the search stays within   *)
(* every closed set around the root.  The last two need no induction over   *)
(* paths: a ranking and a closed set speak of single edges.                 *)
(* EarlierCovered sums the walks of several roots up, StageInv carries the  *)
(* two finished walks through the phases to the steps.                      *)
(***************************************************************************)
EXTENDS Planner, SequenceTheorems, FiniteSetTheorems, Recursion, TLAPS

Call == [node : Targets, next : Nat \ {0}]

\* What the walk's variables hold.
PlanType ==
  /\ req \in Requests /\ root \in Nat /\ root <= Len(req.roots)
  /\ order \in Seq(Targets) /\ from \in Nat /\ from <= Len(order)
  /\ stack \in Seq(Call) /\ (phase \in {"names", "embedded"} => root = 0)

\* The places of `order` the current root's walk has filled.
Own == (from + 1)..Len(order)
Pushed(t) == \E n \in 1..Len(stack) : stack[n].node = t

\* The search has met t: a call of order_visit for it has returned or is under way.
Met(t) == t \in visited \/ Pushed(t)

Busy == /\ stack # <<>> => Walking /\ root > 0
        /\ root = 0 => order = <<>>
OwnIsVisited ==
  Walking /\ root > 0 => \A t : t \in visited <=> \E n \in Own : order[n] = t
OwnIsDistinct == \A m, n \in Own : order[m] = order[n] => m = n
PushedIsNew ==
  \A n \in 1..Len(stack) : stack[n].node \notin Avoided /\ stack[n].node \notin visited
PushedIsDistinct ==
  \A m, n \in 1..Len(stack) : stack[m].node = stack[n].node => m = n
LookedAtIsMet ==
  \A n \in 1..Len(stack) : \A k \in 1..Len(Deps(stack[n].node)) :
    k < stack[n].next /\ Visits(Deps(stack[n].node)[k]) => Met(Deps(stack[n].node)[k])
VisitedIsClosed ==
  Walking /\ root > 0 =>
    \A t \in visited : t \in Targets /\ \A d \in Edges(t) : d \notin Avoided => Met(d)

WalkInv ==
  /\ Busy /\ OwnIsVisited /\ OwnIsDistinct /\ PushedIsNew /\ PushedIsDistinct
  /\ LookedAtIsMet /\ VisitedIsClosed

\* A ranking of an acyclic request falls along the stack, and a dependency is
\* placed before its dependent.
Ranking(rank) == \A t \in Targets : \A d \in Edges(t) : rank[d] < rank[t]
Falls(rank) ==
  \A m, n \in 1..Len(stack) : m < n => rank[stack[n].node] < rank[stack[m].node]
DepsFirst ==
  Walking => \A n \in Own : \A d \in Edges(order[n]) : d \notin Avoided =>
    \E m \in Own : m < n /\ order[m] = d
OrderInv ==
  /\ \A rank \in [Targets -> Int] : Ranking(rank) => Falls(rank)
  /\ (\E rank \in [Targets -> Int] : Ranking(rank)) => DepsFirst

\* The search starts at its root, ends there, and stays within what is closed.
CurRoot == req.roots[root]
StaysInside ==
  \A C \in SUBSET Targets : Closed(C, {CurRoot} \cap Targets, Avoided) =>
    \A t : Met(t) => t \in C
ReachInv ==
  Walking /\ root > 0 =>
    /\ CurRoot \in Name /\ (Visits(CurRoot) => Met(CurRoot))
    /\ stack # <<>> => stack[1].node = CurRoot
    /\ stack = <<>> /\ from < Len(order) => order[Len(order)] = CurRoot
    /\ StaysInside


\* The whole plan.  Covers(r, P): the places P of `order` hold what the first r
\* roots need outside the skips, nothing else, and dependencies first.
Ranked == \E rank \in [Targets -> Int] : Ranking(rank)
Covers(r, P) ==
  /\ \A k \in 1..r : Visits(req.roots[k]) => \E n \in P : order[n] = req.roots[k]
  /\ \A n \in P : \A d \in Edges(order[n]) : d \notin Avoided => \E m \in P : order[m] = d
  /\ \A C \in SUBSET Targets :
       Closed(C, Roots \cap Targets, Avoided) => \A n \in P : order[n] \in C
  /\ Ranked => \A n \in P : \A d \in Edges(order[n]) : d \notin Avoided =>
                 \E m \in P : m < n /\ order[m] = d
EarlierCovered == Walking => Covers(root - 1, 1..from)

\* A finished walk over all the roots.
OrderOf(seq, A) ==
  /\ seq \in Seq(Targets) /\ Elements(seq) = Reach(Roots, A)
  /\ Ranked => \A n \in 1..Len(seq) : \A d \in Edges(seq[n]) \ A :
                 \E m \in 1..(n - 1) : seq[m] = d

\* The steps are the remaining targets of full_order, in its order.
StepsFollow ==
  /\ \A n \in 1..Len(steps) : \E k \in 1..Len(full) :
       /\ Remains(full[k]) /\ steps[n] = StepOf(full[k])
       /\ \A j \in 1..(k - 1) : Remains(full[j]) =>
            \E m \in 1..(n - 1) : steps[m] = StepOf(full[j])
  /\ \A k \in 1..Len(full) : Remains(full[k]) =>
       \E n \in 1..Len(steps) : steps[n] = StepOf(full[k])

\* A root is skipped by the command line only.
SkipsRight ==
  Skips \subseteq skipSet /\ skipSet \subseteq Targets /\ (Roots \ Skips) \cap skipSet = {}

Decided == verdict \in {"planned", "SkipNotAllowed"}
StageInv ==
  /\ (phase = "done") <=> (verdict # "pending")
  /\ Decided \/ phase \notin {"names", "done"} => Roots \cup Skips \subseteq Targets
  /\ Decided \/ phase \in {"embedded", "kept", "eligible"} => OrderOf(full, {})
  /\ Decided \/ phase \in {"kept", "eligible"} => SkipsRight
  /\ Decided \/ phase = "eligible" => OrderOf(order, skipSet)
  /\ verdict = "planned" => Eligible /\ StepsFollow
  /\ verdict = "SkipNotAllowed" => ~Eligible

-----------------------------------------------------------------------------
(* What is fixed, and what a step does to the stack.                        *)

LEMMA RequestTyped ==
  ASSUME req \in Requests
  PROVE  /\ Len(req.roots) \in Nat /\ IsFiniteSet(Targets)
         /\ \A n \in 1..Len(req.roots) : req.roots[n] \in Name
         /\ \A t \in Targets :
              /\ Deps(t) \in Seq(Name) /\ Len(Deps(t)) \in Nat
              /\ \A d : d \in Edges(t) <=>
                   d \in Targets /\ \E k \in 1..Len(Deps(t)) : Deps(t)[k] = d
<1>1. RequestOK(req)
  BY RequestsAssumption
<1>2. ASSUME NEW t \in Targets
      PROVE  Deps(t) \in Seq(Name) /\ Len(Deps(t)) \in Nat
  BY <1>1, LenProperties DEF RequestOK, Deps, Targets
<1>3. req.roots \in Seq(Name)
  BY <1>1 DEF RequestOK
<1> QED BY <1>1, <1>2, <1>3, LenProperties, ElementOfSeq DEF RequestOK, Targets, Edges, Elements

\* The next dependency of the call on top is looked at.
LEMMA DescendShape ==
  ASSUME PlanType, Descend
  PROVE  \E L \in Nat \ {0}, k \in Nat \ {0}, dep \in Name :
           /\ L = Len(stack) /\ Walking /\ stack[L] \in Call /\ k = stack[L].next
           /\ k <= Len(Deps(stack[L].node)) /\ dep = Deps(stack[L].node)[k]
           /\ stack' \in Seq(Call)
           /\ \A n \in 1..L : /\ stack'[n].node = stack[n].node
                              /\ stack'[n].next = IF n = L THEN k + 1 ELSE stack[n].next
           /\ \/ /\ Visits(dep) /\ dep \notin visited /\ ~Pushed(dep)
                 /\ Len(stack') = L + 1 /\ stack'[L + 1].node = dep /\ stack'[L + 1].next = 1
              \/ /\ ~Visits(dep) \/ Met(dep)
                 /\ Len(stack') = L
<1> DEFINE L == Len(stack)
           k == Top.next
           dep == Deps(Top.node)[k]
           loop == Append(Below, [Top EXCEPT !.next = @ + 1])
<1>1. L \in Nat \ {0} /\ Top = stack[L] /\ Top \in Call
  BY EmptySeq, ElementOfSeq DEF PlanType, Descend, Top
<1>2. Top.node \in Targets /\ k \in Nat \ {0} /\ k <= Len(Deps(Top.node)) /\ Walking
  BY <1>1 DEF Call, Descend
<1>3. dep \in Name
  BY <1>2, RequestTyped, ElementOfSeq DEF PlanType
<1>4. /\ Below \in Seq(Call) /\ Len(Below) = L - 1
      /\ \A n \in 1..(L - 1) : Below[n] = stack[n]
  BY <1>1, ShorterSeq DEF PlanType, Below
<1>5. [Top EXCEPT !.next = @ + 1] \in Call
  BY <1>1 DEF Call
<1> HIDE DEF k, dep
<1>6. /\ loop \in Seq(Call) /\ Len(loop) = L
      /\ \A n \in 1..(L - 1) : loop[n] = stack[n]
      /\ loop[L] = [Top EXCEPT !.next = @ + 1]
  BY <1>1, <1>4, <1>5, AppendProperties
<1>7. /\ \A n \in 1..L : /\ loop[n].node = stack[n].node
                         /\ loop[n].next = IF n = L THEN k + 1 ELSE stack[n].next
  BY <1>1, <1>6 DEF Call, k
<1>8. stack' = IF Visits(dep) /\ dep \notin visited \cup InProgress
                 THEN Append(loop, Frame(dep)) ELSE loop
  BY DEF Descend, dep, k
<1> HIDE DEF loop
<1>9. dep \in InProgress <=> Pushed(dep)
  BY DEF InProgress, Pushed
<1>10. CASE Visits(dep) /\ dep \notin visited \cup InProgress
  <2>1. Frame(dep) \in Call /\ Frame(dep).node = dep /\ Frame(dep).next = 1
    BY <1>10 DEF Frame, Call, Visits, Targets
  <2>2. /\ stack' \in Seq(Call) /\ Len(stack') = L + 1 /\ stack'[L + 1] = Frame(dep)
        /\ \A n \in 1..L : stack'[n] = loop[n]
    BY <1>6, <1>8, <1>10, <2>1, AppendProperties
  <2> QED BY <1>1, <1>2, <1>3, <1>7, <1>9, <1>10, <2>1, <2>2 DEF dep, k
<1>11. CASE ~(Visits(dep) /\ dep \notin visited \cup InProgress)
  BY <1>1, <1>2, <1>3, <1>6, <1>7, <1>8, <1>9, <1>11 DEF dep, k, Met
<1> QED BY <1>10, <1>11

\* The call on top returns.
LEMMA FinishShape ==
  ASSUME PlanType, Finish
  PROVE  \E L \in Nat \ {0} :
           /\ L = Len(stack) /\ Walking /\ stack[L] \in Call
           /\ stack[L].next > Len(Deps(stack[L].node))
           /\ stack' \in Seq(Call) /\ Len(stack') = L - 1
           /\ \A n \in 1..(L - 1) : stack'[n] = stack[n]
           /\ visited' = visited \cup {stack[L].node}
           /\ order' \in Seq(Targets) /\ Len(order') = Len(order) + 1 /\ Len(order) \in Nat
           /\ \A n \in 1..Len(order) : order'[n] = order[n]
           /\ order'[Len(order) + 1] = stack[L].node
<1> DEFINE L == Len(stack)
<1>1. L \in Nat \ {0} /\ Top = stack[L] /\ Top \in Call
  BY EmptySeq, ElementOfSeq DEF PlanType, Finish, Top
<1>2. /\ Below \in Seq(Call) /\ Len(Below) = L - 1
      /\ \A n \in 1..(L - 1) : Below[n] = stack[n]
  BY <1>1, ShorterSeq DEF PlanType, Below
<1>3. /\ order' \in Seq(Targets) /\ Len(order') = Len(order) + 1 /\ Len(order) \in Nat
      /\ \A n \in 1..Len(order) : order'[n] = order[n]
      /\ order'[Len(order) + 1] = Top.node
  BY <1>1, AppendProperties, LenProperties DEF PlanType, Finish, Call
<1> QED BY <1>1, <1>2, <1>3 DEF Finish

\* A new walk begins at the next root.
LEMMA StartRootShape ==
  ASSUME PlanType, StartRoot
  PROVE  /\ root' \in 1..Len(req.roots) /\ CurRoot' = req.roots[root'] /\ CurRoot' \in Name
         /\ from' = Len(order) /\ Len(order) \in Nat /\ stack' \in Seq(Call)
         /\ \/ /\ Visits(req.roots[root']) /\ Len(stack') = 1
               /\ stack'[1].node = CurRoot' /\ stack'[1].next = 1
            \/ ~Visits(req.roots[root']) /\ stack' = <<>> /\ Len(stack') = 0
<1>1. root' \in 1..Len(req.roots) /\ CurRoot' = req.roots[root']
  BY RequestTyped DEF PlanType, StartRoot, CurRoot
<1>2. CurRoot' \in Name /\ Len(order) \in Nat
  BY <1>1, RequestTyped, LenProperties DEF PlanType
<1>3. CASE Visits(req.roots[root'])
  <2>1. Frame(CurRoot') \in Call /\ Frame(CurRoot').node = CurRoot' /\ Frame(CurRoot').next = 1
    BY <1>1, <1>3 DEF Frame, Call, Visits, Targets
  <2>2. stack' = <<Frame(CurRoot')>>
    BY <1>1, <1>3 DEF StartRoot
  <2>3. stack' \in Seq(Call) /\ Len(stack') = 1 /\ stack'[1] = Frame(CurRoot')
    BY <2>1, <2>2
  <2> QED BY <1>1, <1>2, <1>3, <2>1, <2>3 DEF StartRoot
<1>4. CASE ~Visits(req.roots[root'])
  <2>1. stack' = <<>>
    BY <1>4 DEF StartRoot
  <2> QED BY <1>1, <1>2, <1>4, <2>1, EmptySeq DEF StartRoot
<1> QED BY <1>3, <1>4

\* The steps that walk nothing happen between walks.
Quiet ==
  \/ NamesKnown \/ NamesUnknown \/ FullDone \/ CollectSkips \/ KeptDone
  \/ SkipRefused \/ MakeSteps

LEMMA QuietShape ==
  ASSUME PlanType, WalkInv, Quiet
  PROVE  /\ req' = req /\ stack = <<>> /\ stack' = <<>> /\ Len(stack') = 0
         /\ root' = 0 => order' = <<>>
         /\ Walking' => root' = 0 /\ Own' = {}
         /\ \A m, n \in Own' : order'[m] = order'[n] => m = n
<1>1. stack = <<>> /\ req' = req
  BY DEF WalkInv, Busy, Walking, Quiet, NamesKnown, NamesUnknown, FullDone, CollectSkips,
         KeptDone, SkipRefused, MakeSteps, WalkDone
<1>2. stack' = <<>> /\ Len(stack') = 0
  BY <1>1, EmptySeq DEF Quiet, NamesKnown, NamesUnknown, FullDone, CollectSkips,
         KeptDone, SkipRefused, MakeSteps, walk
<1>3. order = <<>> => Own = {}
  BY EmptySeq DEF PlanType, Own
<1>4. CASE FullDone
  <2>1. root' = 0 /\ order' = <<>> /\ from' = 0
    BY <1>4 DEF FullDone
  <2> QED BY <1>1, <1>2, <2>1, EmptySeq DEF Own
<1>5. CASE ~FullDone
  <2>1. root' = root /\ order' = order /\ from' = from
    BY <1>5 DEF Quiet, NamesKnown, NamesUnknown, FullDone, CollectSkips,
         KeptDone, SkipRefused, MakeSteps, walk
  <2>2. Walking' => root = 0
    BY <1>5 DEF Quiet, NamesKnown, NamesUnknown, CollectSkips,
         KeptDone, SkipRefused, MakeSteps, Walking, PlanType
  <2>3. Own' = Own
    BY <2>1 DEF Own
  <2> QED BY <1>1, <1>2, <1>3, <2>1, <2>2, <2>3 DEF WalkInv, Busy, OwnIsDistinct
<1> QED BY <1>4, <1>5

\* A step of a walk changes neither the request nor what the walk avoids.
LEMMA SameGraph ==
  ASSUME UNCHANGED <<req, phase, skipSet>>
  PROVE  /\ Walking' = Walking /\ Avoided' = Avoided /\ Targets' = Targets /\ Call' = Call
         /\ \A t : Deps(t)' = Deps(t) /\ Edges(t)' = Edges(t) /\ (Visits(t)' <=> Visits(t))
BY DEF Walking, Avoided, Targets, Call, Deps, Edges, Elements, Visits

LEMMA PlanTypeHolds == PlanType /\ [Next]_vars => PlanType'
<1> SUFFICES ASSUME PlanType, [Next]_vars PROVE PlanType'
  OBVIOUS
<1>1. CASE StartRoot
  BY <1>1, StartRootShape DEF PlanType, StartRoot, Call, Targets, Walking
<1>2. CASE Descend
  <2>1. stack' \in Seq(Call)
    BY <1>2, DescendShape
  <2> QED BY <1>2, <2>1 DEF PlanType, Descend, Call, Targets, Walking
<1>3. CASE Finish
  <2>1. /\ stack' \in Seq(Call) /\ order' \in Seq(Targets) /\ Len(order') = Len(order) + 1
        /\ Len(order) \in Nat
    BY <1>3, FinishShape
  <2> QED BY <1>3, <2>1 DEF PlanType, Finish, Call, Targets, Walking
<1>4. CASE Quiet
  <2>1. CASE FullDone
    <3>1. order' = <<>> /\ order' \in Seq(Targets) /\ Len(order') = 0
      BY <2>1, EmptySeq DEF FullDone
    <3>2. req' = req /\ stack' = stack /\ root' = 0 /\ from' = 0
      BY <2>1 DEF FullDone
    <3> QED BY <3>1, <3>2, RequestTyped DEF PlanType, Call, Targets
  <2>2. CASE ~FullDone
    <3>1. UNCHANGED <<req, root, order, from, stack>>
      BY <1>4, <2>2 DEF Quiet, NamesKnown, NamesUnknown, CollectSkips, KeptDone,
           SkipRefused, MakeSteps, walk
    <3>2. phase' \notin {"names", "embedded"}
      BY <1>4, <2>2 DEF Quiet, NamesKnown, NamesUnknown, CollectSkips, KeptDone,
           SkipRefused, MakeSteps
    <3> QED BY <3>1, <3>2 DEF PlanType, Call, Targets
  <2> QED BY <2>1, <2>2
<1>5. CASE UNCHANGED vars
  BY <1>5 DEF PlanType, vars, Call, Targets
<1> QED BY <1>1, <1>2, <1>3, <1>4, <1>5 DEF Next, Quiet

-----------------------------------------------------------------------------
(* The search.                                                             *)

LEMMA WalkQuiet ==
  ASSUME PlanType, WalkInv, Quiet
  PROVE  WalkInv'
<1>1. /\ Len(stack') = 0 /\ stack' = <<>> /\ (root' = 0 => order' = <<>>)
      /\ (Walking' => root' = 0) /\ \A m, n \in Own' : order'[m] = order'[n] => m = n
  BY QuietShape
<1>2. \A n : n \notin 1..Len(stack')
  BY <1>1
<1>3. ~(Walking' /\ root' > 0)
  BY <1>1
<1>4. Busy' /\ OwnIsVisited' /\ OwnIsDistinct' /\ VisitedIsClosed'
  BY <1>1, <1>3 DEF Busy, OwnIsVisited, OwnIsDistinct, VisitedIsClosed
<1>5. PushedIsNew' /\ PushedIsDistinct' /\ LookedAtIsMet'
  BY <1>2 DEF PushedIsNew, PushedIsDistinct, LookedAtIsMet
<1> QED BY <1>4, <1>5 DEF WalkInv

LEMMA WalkStarts ==
  ASSUME PlanType, WalkInv, StartRoot
  PROVE  WalkInv'
<1>1. /\ root' \in 1..Len(req.roots) /\ from' = Len(order) /\ Len(order) \in Nat
      /\ Walking' /\ visited' = {} /\ order' = order
  BY StartRootShape, SameGraph DEF StartRoot
<1>2. Own' = {}
  BY <1>1 DEF Own
<1>3. \/ /\ Visits(req.roots[root']) /\ Len(stack') = 1
         /\ stack'[1].node = req.roots[root'] /\ stack'[1].next = 1
      \/ Len(stack') = 0
  BY StartRootShape
<1>4. \A n \in 1..Len(stack') : n = 1 /\ stack'[n].node \notin Avoided' /\ stack'[n].next = 1
  <2>1. Avoided' = Avoided
    BY SameGraph DEF StartRoot
  <2> QED BY <1>3, <2>1 DEF Visits
<1>5. Busy' /\ OwnIsVisited' /\ OwnIsDistinct' /\ VisitedIsClosed'
  <2>1. root' > 0
    BY <1>1, RequestTyped DEF PlanType
  <2> QED BY <1>1, <1>2, <2>1 DEF Busy, OwnIsVisited, OwnIsDistinct, VisitedIsClosed
<1>6. PushedIsNew' /\ PushedIsDistinct'
  BY <1>1, <1>4 DEF PushedIsNew, PushedIsDistinct
<1>7. LookedAtIsMet'
  <2> SUFFICES ASSUME NEW n \in 1..Len(stack'), NEW k \in 1..Len(Deps(stack[n].node))',
                      k < stack'[n].next
               PROVE  FALSE
    BY DEF LookedAtIsMet
  <2>1. k \in Int /\ k >= 1
    OBVIOUS
  <2> QED BY <1>4, <2>1
<1> QED BY <1>5, <1>6, <1>7 DEF WalkInv

LEMMA WalkDescends ==
  ASSUME PlanType, WalkInv, Descend
  PROVE  WalkInv'
<1>1. PICK L \in Nat \ {0}, k \in Nat \ {0}, dep \in Name :
        /\ L = Len(stack) /\ Walking /\ stack[L] \in Call /\ k = stack[L].next
        /\ k <= Len(Deps(stack[L].node)) /\ dep = Deps(stack[L].node)[k]
        /\ \A n \in 1..L : /\ stack'[n].node = stack[n].node
                           /\ stack'[n].next = IF n = L THEN k + 1 ELSE stack[n].next
        /\ \/ /\ Visits(dep) /\ dep \notin visited /\ ~Pushed(dep)
              /\ Len(stack') = L + 1 /\ stack'[L + 1].node = dep /\ stack'[L + 1].next = 1
           \/ /\ ~Visits(dep) \/ Met(dep)
              /\ Len(stack') = L
  BY DescendShape
<1>2. /\ UNCHANGED <<root, visited, order, from>> /\ UNCHANGED <<req, phase, skipSet>>
      /\ Own' = Own /\ stack # <<>>
  BY DEF Descend, Own
<1>3. /\ Walking' = Walking /\ Avoided' = Avoided /\ Targets' = Targets
      /\ \A t : Deps(t)' = Deps(t) /\ Edges(t)' = Edges(t) /\ (Visits(t)' <=> Visits(t))
  BY <1>2, SameGraph
<1>4. \A n \in 1..Len(stack') :
        \/ n \in 1..L
        \/ /\ n = L + 1 /\ Visits(dep) /\ dep \notin visited /\ ~Pushed(dep)
           /\ stack'[n].node = dep /\ stack'[n].next = 1
  BY <1>1
<1>5. /\ 1..L \subseteq 1..Len(stack') /\ \A t : Met(t) => Met(t)'
      /\ Visits(dep) => Met(dep)'
  <2>1. 1..L \subseteq 1..Len(stack')
    BY <1>1
  <2>2. \A t : Met(t) => Met(t)'
    BY <1>1, <1>2, <2>1 DEF Met, Pushed
  <2>3. CASE Len(stack') = L + 1
    <3>1. L + 1 \in 1..Len(stack')
      BY <2>3
    <3> QED BY <1>1, <2>1, <2>2, <3>1 DEF Met, Pushed
  <2>4. CASE Len(stack') = L
    BY <1>1, <2>1, <2>2, <2>4
  <2> QED BY <1>1, <2>1, <2>2, <2>3, <2>4
<1>6. Busy' /\ OwnIsVisited' /\ OwnIsDistinct' /\ VisitedIsClosed'
  BY <1>2, <1>3, <1>5 DEF WalkInv, Busy, OwnIsVisited, OwnIsDistinct, VisitedIsClosed
<1>7. PushedIsNew'
  BY <1>1, <1>2, <1>3, <1>4 DEF WalkInv, PushedIsNew, Visits
<1>8. PushedIsDistinct'
  BY <1>1, <1>4 DEF WalkInv, PushedIsDistinct, Pushed
<1>9. LookedAtIsMet'
  <2> SUFFICES ASSUME NEW n \in 1..Len(stack'), NEW t, t = stack'[n].node,
                      NEW j \in 1..Len(Deps(t)), j < stack'[n].next,
                      NEW d, d = Deps(t)[j], Visits(d)
               PROVE  Met(d)'
    BY <1>3 DEF LookedAtIsMet
  <2>1. CASE n \in 1..L /\ (n # L \/ j # k)
    <3>1. stack[n].node = t /\ j < stack[n].next
      BY <1>1, <2>1
    <3>2. Met(d)
      BY <1>1, <2>1, <3>1 DEF WalkInv, LookedAtIsMet
    <3> QED BY <1>5, <3>2
  <2>2. CASE n = L /\ j = k
    BY <1>1, <1>5, <2>2
  <2>3. CASE n = L + 1
    BY <1>1, <1>4, <2>3
  <2> QED BY <1>4, <2>1, <2>2, <2>3
<1> QED BY <1>6, <1>7, <1>8, <1>9 DEF WalkInv

LEMMA WalkFinishes ==
  ASSUME PlanType, WalkInv, Finish
  PROVE  WalkInv'
<1>1. PICK L \in Nat \ {0}, N \in Nat :
        /\ L = Len(stack) /\ Walking /\ stack[L] \in Call
        /\ stack[L].next > Len(Deps(stack[L].node))
        /\ Len(stack') = L - 1
        /\ \A n \in 1..(L - 1) : stack'[n] = stack[n]
        /\ visited' = visited \cup {stack[L].node}
        /\ N = Len(order) /\ Len(order') = N + 1
        /\ \A n \in 1..N : order'[n] = order[n]
        /\ order'[N + 1] = stack[L].node
  BY FinishShape
<1> DEFINE top == stack[L].node
<1>2. /\ UNCHANGED <<root, from>> /\ UNCHANGED <<req, phase, skipSet>> /\ stack # <<>>
      /\ top \in Targets
  BY <1>1 DEF Finish, Call
<1>3. /\ Walking' = Walking /\ Avoided' = Avoided /\ Targets' = Targets
      /\ \A t : Deps(t)' = Deps(t) /\ Edges(t)' = Edges(t) /\ (Visits(t)' <=> Visits(t))
  BY <1>2, SameGraph
<1>4. root > 0 /\ from \in Nat /\ from <= N
  BY <1>1, <1>2 DEF WalkInv, Busy, PlanType
<1>5. /\ Own \subseteq 1..N /\ Own' = Own \cup {N + 1} /\ N + 1 \notin Own
      /\ \A n \in Own : order'[n] = order[n]
  BY <1>1, <1>2, <1>4 DEF Own
<1>6. top \notin visited
  BY <1>1 DEF WalkInv, PushedIsNew
<1>7. \A t : Met(t) => Met(t)'
  <2> SUFFICES ASSUME NEW t, Met(t) PROVE Met(t)'
    OBVIOUS
  <2>1. CASE t \in visited \/ t = top
    BY <1>1, <2>1 DEF Met
  <2>2. CASE Pushed(t) /\ t # top
    <3>1. PICK n \in 1..L : stack[n].node = t
      BY <1>1, <2>2 DEF Pushed
    <3>2. n \in 1..(L - 1)
      BY <2>2, <3>1
    <3> QED BY <1>1, <3>1, <3>2 DEF Met, Pushed
  <2> QED BY <2>1, <2>2 DEF Met
<1>8. Busy'
  BY <1>1, <1>2, <1>3, <1>4 DEF Busy
<1>9. OwnIsVisited'
  <2>1. \A t : t \in visited <=> \E n \in Own : order[n] = t
    BY <1>1, <1>4 DEF WalkInv, OwnIsVisited
  <2>2. \A t : t \in visited' <=> \E n \in Own' : order'[n] = t
    BY <1>1, <1>5, <2>1
  <2> QED BY <2>2 DEF OwnIsVisited
<1>10. OwnIsDistinct'
  <2>1. \A n \in Own : order[n] # top
    BY <1>1, <1>4, <1>6 DEF WalkInv, OwnIsVisited
  <2>2. order'[N + 1] = top /\ \A n \in Own : order'[n] # top
    BY <1>1, <1>5, <2>1
  <2>3. \A m, n \in Own : order'[m] = order'[n] => m = n
    BY <1>5 DEF WalkInv, OwnIsDistinct
  <2> HIDE DEF top
  <2> QED BY ONLY <1>5, <2>2, <2>3 DEF OwnIsDistinct
<1>11. PushedIsNew' /\ PushedIsDistinct'
  <2>1. \A n \in 1..(L - 1) : n \in 1..L /\ stack[n].node # top
    BY <1>1 DEF WalkInv, PushedIsDistinct
  <2> QED BY <1>1, <1>3, <2>1 DEF WalkInv, PushedIsNew, PushedIsDistinct
<1>12. LookedAtIsMet'
  <2> SUFFICES ASSUME NEW n \in 1..(L - 1), NEW t, t = stack[n].node,
                      NEW j \in 1..Len(Deps(t)), j < stack[n].next,
                      NEW d, d = Deps(t)[j], Visits(d)
               PROVE  Met(d)'
    BY <1>1, <1>3 DEF LookedAtIsMet
  <2>1. Met(d)
    BY <1>1 DEF WalkInv, LookedAtIsMet
  <2> QED BY <1>7, <2>1
<1>13. VisitedIsClosed'
  <2>1. \A d \in Edges(top) : d \notin Avoided => Met(d)
    <3> SUFFICES ASSUME NEW d \in Edges(top), d \notin Avoided PROVE Met(d)
      OBVIOUS
    <3>1. PICK j \in 1..Len(Deps(top)) : Deps(top)[j] = d /\ d \in Targets
      BY <1>2, RequestTyped DEF PlanType
    <3>2. j < stack[L].next
      BY <1>1, <1>2, RequestTyped DEF PlanType, Call
    <3> QED BY <1>1, <3>1, <3>2 DEF WalkInv, LookedAtIsMet, Visits, Targets
  <2> QED BY <1>1, <1>2, <1>3, <1>4, <1>7, <2>1 DEF WalkInv, VisitedIsClosed
<1> QED BY <1>8, <1>9, <1>10, <1>11, <1>12, <1>13 DEF WalkInv

LEMMA WalkInvHolds == PlanType /\ WalkInv /\ [Next]_vars => WalkInv'
<1> SUFFICES ASSUME PlanType, WalkInv, [Next]_vars PROVE WalkInv'
  OBVIOUS
<1>1. CASE UNCHANGED vars
  <2>1. UNCHANGED <<req, phase, skipSet>> /\ UNCHANGED <<root, visited, stack, order, from>>
    BY <1>1 DEF vars
  <2> QED BY <2>1, SameGraph DEF WalkInv, Busy, OwnIsVisited, OwnIsDistinct, PushedIsNew,
        PushedIsDistinct, LookedAtIsMet, VisitedIsClosed, Met, Pushed, Own
<1>2. CASE Quiet
  BY <1>2, WalkQuiet
<1> QED BY <1>1, <1>2, WalkStarts, WalkDescends, WalkFinishes DEF Next, Quiet

-----------------------------------------------------------------------------
(* On an acyclic graph.                                                    *)

LEMMA OrderQuiet ==
  ASSUME PlanType, WalkInv, OrderInv, Quiet
  PROVE  OrderInv'
<1>1. Len(stack') = 0 /\ (Walking' => Own' = {})
  BY QuietShape
<1>2. \A n : n \notin 1..Len(stack')
  BY <1>1
<1>3. \A rank : Falls(rank)'
  BY <1>2 DEF Falls
<1>4. DepsFirst'
  BY <1>1 DEF DepsFirst
<1> QED BY <1>3, <1>4 DEF OrderInv

LEMMA OrderStarts ==
  ASSUME PlanType, OrderInv, StartRoot
  PROVE  OrderInv'
<1>1. from' = Len(order) /\ Len(order) \in Nat /\ order' = order
      /\ (Len(stack') = 1 \/ Len(stack') = 0)
  BY StartRootShape DEF StartRoot
<1>2. Own' = {}
  BY <1>1 DEF Own
<1>3. \A rank : Falls(rank)'
  <2>1. \A m, n \in 1..1 : ~(m < n)
    OBVIOUS
  <2>2. \A n : n \notin 1..0
    OBVIOUS
  <2> QED BY <1>1, <2>1, <2>2 DEF Falls
<1>4. DepsFirst'
  BY <1>2 DEF DepsFirst
<1> QED BY <1>3, <1>4 DEF OrderInv

LEMMA OrderDescends ==
  ASSUME PlanType, OrderInv, Descend
  PROVE  OrderInv'
<1>1. PICK L \in Nat \ {0}, k \in Nat \ {0}, dep \in Name :
        /\ L = Len(stack) /\ stack[L] \in Call
        /\ k <= Len(Deps(stack[L].node)) /\ dep = Deps(stack[L].node)[k]
        /\ \A n \in 1..L : stack'[n].node = stack[n].node
        /\ \/ Visits(dep) /\ Len(stack') = L + 1 /\ stack'[L + 1].node = dep
           \/ Len(stack') = L
  BY DescendShape
<1> DEFINE top == stack[L].node
<1>2. UNCHANGED <<order, from>> /\ UNCHANGED <<req, phase, skipSet>> /\ Own' = Own
      /\ top \in Targets
  BY <1>1 DEF Descend, Own, Call
<1>3. Walking' = Walking /\ Avoided' = Avoided /\ Targets' = Targets
      /\ \A t : Edges(t)' = Edges(t)
  BY <1>2, SameGraph
<1>4. ASSUME NEW rank \in [Targets -> Int], Ranking(rank)
      PROVE  Falls(rank)'
  <2>1. \A m, n \in 1..L : m < n => rank[stack[n].node] < rank[stack[m].node]
    BY <1>1, <1>4 DEF OrderInv, Falls
  <2>2. \A n \in 1..L : rank[stack[n].node] \in Int
    <3>1. \A n \in 1..L : stack[n] \in Call
      BY <1>1, ElementOfSeq DEF PlanType
    <3> QED BY <3>1 DEF Call
  <2>3. CASE Visits(dep) /\ Len(stack') = L + 1 /\ stack'[L + 1].node = dep
    <3>1. dep \in Edges(top)
      BY <1>1, <1>2, <2>3, RequestTyped DEF PlanType, Visits, Targets
    <3>2. rank[dep] \in Int /\ rank[dep] < rank[top]
      BY <1>2, <1>4, <2>3, <3>1 DEF Ranking, Visits, Targets
    <3>3. \A n \in 1..L : rank[dep] < rank[stack[n].node]
      <4>1. \A n \in 1..L : n = L \/ n < L
        OBVIOUS
      <4> QED BY <2>1, <2>2, <3>2, <4>1
    <3>4. \A m, n \in 1..(L + 1) : m < n => m \in 1..L /\ (n \in 1..L \/ n = L + 1)
      OBVIOUS
    <3> QED BY <1>1, <2>1, <2>3, <3>3, <3>4 DEF Falls
  <2>4. CASE Len(stack') = L
    BY <1>1, <2>1, <2>4 DEF Falls
  <2> QED BY <1>1, <2>3, <2>4
<1>5. \A rank : Ranking(rank)' => Ranking(rank)
  BY <1>3 DEF Ranking
<1>6. DepsFirst => DepsFirst'
  BY <1>2, <1>3 DEF DepsFirst
<1> QED BY <1>3, <1>4, <1>5, <1>6 DEF OrderInv

LEMMA OrderFinishes ==
  ASSUME PlanType, WalkInv, OrderInv, Finish
  PROVE  OrderInv'
<1>1. PICK L \in Nat \ {0}, N \in Nat :
        /\ L = Len(stack) /\ Walking /\ stack[L] \in Call
        /\ stack[L].next > Len(Deps(stack[L].node))
        /\ Len(stack') = L - 1
        /\ \A n \in 1..(L - 1) : stack'[n] = stack[n]
        /\ N = Len(order) /\ Len(order') = N + 1
        /\ \A n \in 1..N : order'[n] = order[n]
        /\ order'[N + 1] = stack[L].node
  BY FinishShape
<1> DEFINE top == stack[L].node
<1>2. from' = from /\ UNCHANGED <<req, phase, skipSet>> /\ stack # <<>> /\ top \in Targets
  BY <1>1 DEF Finish, Call
<1>3. Walking' = Walking /\ Avoided' = Avoided /\ Targets' = Targets
      /\ \A t : Edges(t)' = Edges(t)
  BY <1>2, SameGraph
<1>4. root > 0 /\ from \in Nat /\ from <= N
  BY <1>1, <1>2 DEF WalkInv, Busy, PlanType
<1>5. /\ Own \subseteq 1..N /\ Own' = Own \cup {N + 1}
      /\ \A n \in Own : n < N + 1 /\ order'[n] = order[n]
  BY <1>1, <1>2, <1>4 DEF Own
<1>6. \A rank : Falls(rank) => Falls(rank)'
  BY <1>1 DEF Falls
<1>7. ASSUME NEW rank \in [Targets -> Int], Ranking(rank), DepsFirst
      PROVE  DepsFirst'
  <2>1. ASSUME NEW d \in Edges(top), d \notin Avoided
        PROVE  \E m \in Own : order[m] = d
    <3>1. PICK j \in 1..Len(Deps(top)) : Deps(top)[j] = d /\ d \in Targets
      BY <1>2, <2>1, RequestTyped DEF PlanType
    <3>2. j < stack[L].next
      BY <1>1, <1>2, RequestTyped DEF PlanType, Call
    <3>3. Met(d)
      BY <1>1, <2>1, <3>1, <3>2 DEF WalkInv, LookedAtIsMet, Visits, Targets
    <3>4. ~Pushed(d)
      <4> SUFFICES ASSUME NEW n \in 1..L, stack[n].node = d PROVE FALSE
        BY <1>1 DEF Pushed
      <4>1. rank[d] < rank[top] /\ rank[d] \in Int /\ rank[top] \in Int
        BY <1>2, <1>7, <2>1, <3>1 DEF Ranking
      <4>2. n = L \/ n < L
        OBVIOUS
      <4>3. n < L => rank[top] < rank[d]
        BY <1>1, <1>7 DEF OrderInv, Falls
      <4> QED BY <4>1, <4>2, <4>3
    <3> QED BY <1>1, <1>4, <3>3, <3>4 DEF WalkInv, OwnIsVisited, Met
  <2>2. ASSUME NEW n \in Own', NEW t, t = order'[n], NEW d \in Edges(t), d \notin Avoided
        PROVE  \E m \in Own' : m < n /\ order'[m] = d
    <3>1. CASE n = N + 1
      BY <1>1, <1>5, <2>1, <2>2, <3>1
    <3>2. CASE n \in Own
      <4>1. \E m \in Own : m < n /\ order[m] = d
        BY <1>1, <1>5, <1>7, <2>2, <3>2 DEF DepsFirst
      <4> QED BY <1>5, <4>1
    <3> QED BY <1>5, <3>1, <3>2
  <2> QED BY <1>3, <2>2 DEF DepsFirst
<1>8. \A rank : Ranking(rank)' => Ranking(rank)
  BY <1>3 DEF Ranking
<1> QED BY <1>3, <1>6, <1>7, <1>8 DEF OrderInv

LEMMA OrderInvHolds == PlanType /\ WalkInv /\ OrderInv /\ [Next]_vars => OrderInv'
<1> SUFFICES ASSUME PlanType, WalkInv, OrderInv, [Next]_vars PROVE OrderInv'
  OBVIOUS
<1>1. CASE UNCHANGED vars
  <2>1. UNCHANGED <<req, phase, skipSet>> /\ UNCHANGED <<stack, order, from>>
    BY <1>1 DEF vars
  <2>2. Walking' = Walking /\ Avoided' = Avoided /\ Targets' = Targets /\ Own' = Own
        /\ \A t : Edges(t)' = Edges(t)
    BY <2>1, SameGraph DEF Own
  <2> QED BY <2>1, <2>2 DEF OrderInv, Ranking, Falls, DepsFirst
<1>2. CASE Quiet
  BY <1>2, OrderQuiet
<1> QED BY <1>1, <1>2, OrderStarts, OrderDescends, OrderFinishes DEF Next, Quiet

-----------------------------------------------------------------------------
(* From the root.                                                          *)

LEMMA ReachStarts ==
  ASSUME PlanType, WalkInv, StartRoot
  PROVE  ReachInv'
<1>1. /\ root' \in 1..Len(req.roots) /\ CurRoot' = req.roots[root'] /\ CurRoot' \in Name
      /\ from' = Len(order) /\ Len(order) \in Nat /\ order' = order /\ visited' = {}
      /\ UNCHANGED <<req, phase, skipSet>>
      /\ \/ Visits(req.roots[root']) /\ Len(stack') = 1 /\ stack'[1].node = CurRoot'
         \/ ~Visits(req.roots[root']) /\ Len(stack') = 0 /\ stack' = <<>>
  BY StartRootShape DEF StartRoot
<1>2. Avoided' = Avoided /\ Targets' = Targets /\ \A t : Visits(t)' <=> Visits(t)
  BY <1>1, SameGraph
<1> DEFINE r == req.roots[root']
<1>3. \A t : Met(t)' <=> Visits(r) /\ t = r
  <2>1. 1 \in 1..1 /\ (\A n \in 1..1 : n = 1) /\ \A n : n \notin 1..0
    OBVIOUS
  <2>2. CASE Visits(r)
    BY <1>1, <2>1, <2>2 DEF Met, Pushed
  <2>3. CASE ~Visits(r)
    BY <1>1, <2>1, <2>3 DEF Met, Pushed
  <2> QED BY <2>2, <2>3
<1>4. (Visits(CurRoot) => Met(CurRoot))'
  <2>1. \A t : t = r => (Visits(t)' => Met(t)')
    BY <1>2, <1>3
  <2>2. ASSUME NEW t, t = CurRoot' PROVE Visits(t)' => Met(t)'
    BY <1>1, <2>1, <2>2
  <2> QED BY <2>2
<1>5. StaysInside'
  BY <1>1, <1>2, <1>3 DEF StaysInside, Closed, Visits, Targets
<1>6. ~(from' < Len(order'))
  BY <1>1
<1> QED BY <1>1, <1>4, <1>5, <1>6 DEF ReachInv

LEMMA ReachDescends ==
  ASSUME PlanType, WalkInv, ReachInv, Descend
  PROVE  ReachInv'
<1>1. PICK L \in Nat \ {0}, k \in Nat \ {0}, dep \in Name :
        /\ L = Len(stack) /\ Walking /\ stack[L] \in Call
        /\ k <= Len(Deps(stack[L].node)) /\ dep = Deps(stack[L].node)[k]
        /\ stack' \in Seq(Call)
        /\ \A n \in 1..L : stack'[n].node = stack[n].node
        /\ \/ Visits(dep) /\ Len(stack') = L + 1 /\ stack'[L + 1].node = dep
           \/ Len(stack') = L
  BY DescendShape
<1> DEFINE top == stack[L].node
<1>2. /\ UNCHANGED <<root, visited, order, from>> /\ UNCHANGED <<req, phase, skipSet>>
      /\ stack # <<>> /\ top \in Targets
  BY <1>1 DEF Descend, Call
<1>3. /\ Walking' = Walking /\ Avoided' = Avoided /\ Targets' = Targets
      /\ CurRoot' = CurRoot /\ root > 0
      /\ \A t : Edges(t)' = Edges(t) /\ (Visits(t)' <=> Visits(t))
  BY <1>2, SameGraph DEF CurRoot, WalkInv, Busy
<1>4. \A t : Met(t) => Met(t)'
  <2>1. 1..L \subseteq 1..Len(stack')
    BY <1>1
  <2> QED BY <1>1, <1>2, <2>1 DEF Met, Pushed
<1>5. \A t : Met(t)' => Met(t) \/ (Visits(dep) /\ t = dep)
  <2>1. \A n \in 1..(L + 1) : n \in 1..L \/ n = L + 1
    OBVIOUS
  <2> QED BY <1>1, <1>2, <2>1 DEF Met, Pushed
<1>6. (Visits(CurRoot) => Met(CurRoot))'
  <2>1. ASSUME NEW t, t = CurRoot PROVE Visits(t)' => Met(t)'
    BY <1>1, <1>3, <1>4, <2>1 DEF ReachInv
  <2> QED BY <1>3, <2>1
<1>7. stack'[1].node = CurRoot' /\ stack' # <<>>
  <2>1. 1 \in 1..L
    OBVIOUS
  <2>2. Len(stack') # 0
    BY <1>1
  <2> QED BY <1>1, <1>2, <1>3, <2>1, <2>2, EmptySeq DEF ReachInv
<1>8. StaysInside'
  <2> SUFFICES ASSUME NEW C \in SUBSET Targets, Closed(C, {CurRoot} \cap Targets, Avoided),
                      NEW t, Met(t)'
               PROVE  t \in C
    BY <1>3 DEF StaysInside, Closed
  <2>1. \A u : Met(u) => u \in C
    BY <1>1, <1>3 DEF ReachInv, StaysInside
  <2>2. top \in C
    <3>1. L \in 1..L
      OBVIOUS
    <3>2. Pushed(top)
      BY <1>1, <3>1 DEF Pushed
    <3> QED BY <2>1, <3>2 DEF Met
  <2>3. Visits(dep) => dep \in Edges(top) \ Avoided
    BY <1>1, <1>2, RequestTyped DEF PlanType, Visits, Targets
  <2> QED BY <1>5, <2>1, <2>2, <2>3 DEF Closed
<1>9. CurRoot' \in Name
  BY <1>1, <1>3 DEF ReachInv
<1> QED BY <1>6, <1>7, <1>8, <1>9 DEF ReachInv

LEMMA ReachFinishes ==
  ASSUME PlanType, WalkInv, ReachInv, Finish
  PROVE  ReachInv'
<1>1. PICK L \in Nat \ {0} :
        /\ L = Len(stack) /\ Walking /\ stack[L] \in Call
        /\ stack' \in Seq(Call) /\ Len(stack') = L - 1
        /\ \A n \in 1..(L - 1) : stack'[n] = stack[n]
        /\ visited' = visited \cup {stack[L].node}
        /\ Len(order') = Len(order) + 1
        /\ order'[Len(order) + 1] = stack[L].node
  BY FinishShape
<1>2. UNCHANGED <<root, from>> /\ UNCHANGED <<req, phase, skipSet>> /\ stack # <<>>
  BY DEF Finish
<1>3. /\ Walking' = Walking /\ Avoided' = Avoided /\ Targets' = Targets
      /\ CurRoot' = CurRoot /\ root > 0
      /\ \A t : Edges(t)' = Edges(t) /\ (Visits(t)' <=> Visits(t))
  BY <1>2, SameGraph DEF CurRoot, WalkInv, Busy
<1>4. \A t : Met(t)' <=> Met(t)
  <2>1. \A n \in 1..L : n \in 1..(L - 1) \/ n = L
    OBVIOUS
  <2>2. 1..(L - 1) \subseteq 1..L /\ L \in 1..L
    OBVIOUS
  <2>3. \A t : Met(t) => Met(t)'
    BY <1>1, <2>1 DEF Met, Pushed
  <2>4. \A t : Met(t)' => Met(t)
    BY <1>1, <2>2 DEF Met, Pushed
  <2> QED BY <2>3, <2>4
<1>5. (Visits(CurRoot) => Met(CurRoot))'
  <2>1. ASSUME NEW t, t = CurRoot PROVE Visits(t)' => Met(t)'
    BY <1>1, <1>3, <1>4, <2>1 DEF ReachInv
  <2> QED BY <1>3, <2>1
<1>6. stack' # <<>> => stack'[1].node = CurRoot'
  <2>1. stack' # <<>> => 1 \in 1..(L - 1)
    BY <1>1, EmptySeq
  <2> QED BY <1>1, <1>2, <1>3, <2>1 DEF ReachInv
<1>7. stack' = <<>> => order'[Len(order')] = CurRoot'
  <2>1. stack' = <<>> => L = 1
    <3>1. stack' = <<>> => Len(stack') = 0
      BY EmptySeq
    <3>2. Len(stack') = L - 1
      BY <1>1
    <3>3. L - 1 = 0 => L = 1
      OBVIOUS
    <3> QED BY ONLY <3>1, <3>2, <3>3
  <2> QED BY <1>1, <1>2, <1>3, <2>1 DEF ReachInv
<1>8. StaysInside'
  BY <1>1, <1>3, <1>4 DEF ReachInv, StaysInside, Closed
<1>9. CurRoot' \in Name
  BY <1>1, <1>3 DEF ReachInv
<1> QED BY <1>5, <1>6, <1>7, <1>8, <1>9 DEF ReachInv

LEMMA ReachInvHolds == PlanType /\ WalkInv /\ ReachInv /\ [Next]_vars => ReachInv'
<1> SUFFICES ASSUME PlanType, WalkInv, ReachInv, [Next]_vars PROVE ReachInv'
  OBVIOUS
<1>1. CASE UNCHANGED vars
  <2>1. /\ UNCHANGED <<req, phase, skipSet>>
        /\ UNCHANGED <<root, visited, stack, order, from>>
    BY <1>1 DEF vars
  <2>2. /\ Walking' = Walking /\ Avoided' = Avoided /\ Targets' = Targets
        /\ CurRoot' = CurRoot
        /\ \A t : Edges(t)' = Edges(t) /\ (Visits(t)' <=> Visits(t)) /\ (Met(t)' <=> Met(t))
    BY <2>1, SameGraph DEF CurRoot, Met, Pushed
  <2>3. StaysInside => StaysInside'
    BY <2>2 DEF StaysInside, Closed
  <2>4. (Visits(CurRoot) => Met(CurRoot))' <=> (Visits(CurRoot) => Met(CurRoot))
    <3>1. ASSUME NEW t, t = CurRoot PROVE (Visits(t) => Met(t))' <=> (Visits(t) => Met(t))
      BY <2>2, <3>1
    <3> QED BY <2>2, <3>1
  <2> QED BY <2>1, <2>2, <2>3, <2>4 DEF ReachInv
<1>2. CASE Quiet
  <2>1. Walking' => root' = 0
    BY <1>2, QuietShape
  <2> QED BY <2>1 DEF ReachInv
<1> QED BY <1>1, <1>2, ReachStarts, ReachDescends, ReachFinishes DEF Next, Quiet

-----------------------------------------------------------------------------
(* All the roots, one after another.                                       *)

\* The current walk alone, when it is over.
LEMMA OwnCovers ==
  ASSUME PlanType, WalkInv, OrderInv, ReachInv, Walking, stack = <<>>, root > 0
  PROVE  /\ Visits(req.roots[root]) => \E n \in Own : order[n] = req.roots[root]
         /\ \A n \in Own : \A d \in Edges(order[n]) : d \notin Avoided =>
              \E m \in Own : order[m] = d
         /\ \A C \in SUBSET Targets :
              Closed(C, Roots \cap Targets, Avoided) => \A n \in Own : order[n] \in C
         /\ Ranked => DepsFirst
<1>1. \A t : Met(t) <=> \E n \in Own : order[n] = t
  BY EmptySeq DEF Met, Pushed, WalkInv, OwnIsVisited
<1>2. \A t : Met(t) <=> t \in visited
  BY EmptySeq DEF Met, Pushed
<1>3. Visits(req.roots[root]) => \E n \in Own : order[n] = req.roots[root]
  BY <1>1 DEF ReachInv, CurRoot
<1>4. \A C \in SUBSET Targets : Closed(C, {CurRoot} \cap Targets, Avoided) =>
        \A n \in Own : order[n] \in C
  BY <1>1 DEF ReachInv, StaysInside
<1>5. \A C \in SUBSET Targets :
        Closed(C, Roots \cap Targets, Avoided) => \A n \in Own : order[n] \in C
  <2>1. CurRoot \in Roots
    BY RequestTyped DEF PlanType, CurRoot, Roots, Elements
  <2>2. \A C : Closed(C, Roots \cap Targets, Avoided) => Closed(C, {CurRoot} \cap Targets, Avoided)
    BY <2>1 DEF Closed
  <2> QED BY <1>4, <2>2
<1>6. \A n \in Own : \A d \in Edges(order[n]) : d \notin Avoided => \E m \in Own : order[m] = d
  BY <1>1, <1>2 DEF WalkInv, VisitedIsClosed
<1> QED BY <1>3, <1>5, <1>6 DEF OrderInv, Ranked

\* A walk that is over adds its root to what the earlier ones cover.
LEMMA WalkCovers ==
  ASSUME PlanType, WalkInv, OrderInv, ReachInv, EarlierCovered, Walking, stack = <<>>
  PROVE  Covers(root, 1..Len(order))
<1>1. PICK N \in Nat : N = Len(order) /\ from \in Nat /\ from <= N
  BY LenProperties DEF PlanType
<1>2. Covers(root - 1, 1..from) /\ root \in Nat
  BY DEF EarlierCovered, PlanType
<1>3. CASE root = 0
  <2>1. order = <<>> /\ Len(order) = 0
    BY <1>3, EmptySeq DEF WalkInv, Busy
  <2>2. \A n : n \notin 1..0
    OBVIOUS
  <2>3. \A k : k \notin 1..root
    BY <1>3
  <2> QED BY <2>1, <2>2, <2>3 DEF Covers
<1>4. CASE root > 0
  <2>1. \A n : n \in 1..N <=> n \in 1..from \/ n \in Own
    BY <1>1 DEF Own
  <2>2. \A k \in 1..root : k \in 1..(root - 1) \/ k = root
    BY <1>2
  <2> HIDE DEF Own
  <2>3. \A k \in 1..root : Visits(req.roots[k]) => \E n \in 1..N : order[n] = req.roots[k]
    BY <1>2, <1>4, <2>1, <2>2, OwnCovers DEF Covers
  <2>4. \A n \in 1..N : \A d \in Edges(order[n]) : d \notin Avoided => \E m \in 1..N : order[m] = d
    BY <1>2, <1>4, <2>1, OwnCovers DEF Covers
  <2>5. \A C \in SUBSET Targets :
          Closed(C, Roots \cap Targets, Avoided) => \A n \in 1..N : order[n] \in C
    BY <1>2, <1>4, <2>1, OwnCovers DEF Covers
  <2>6. Ranked => \A n \in 1..N : \A d \in Edges(order[n]) : d \notin Avoided =>
          \E m \in 1..N : m < n /\ order[m] = d
    BY <1>2, <1>4, <2>1, OwnCovers DEF Covers, DepsFirst
  <2> QED BY <1>1, <2>3, <2>4, <2>5, <2>6 DEF Covers
<1> QED BY <1>2, <1>3, <1>4

\* The walks of the earlier roots stay as they are while a later one goes on.
LEMMA CoversFrame ==
  ASSUME NEW r, NEW P, Covers(r, P), UNCHANGED <<req, phase, skipSet>>,
         \A n \in P : order'[n] = order[n]
  PROVE  Covers(r, P)'
<1>1. /\ Avoided' = Avoided /\ Targets' = Targets /\ Roots' = Roots
      /\ \A t : Edges(t)' = Edges(t) /\ (Visits(t)' <=> Visits(t))
      /\ Ranked' <=> Ranked
  BY SameGraph DEF Roots, Elements, Ranked, Ranking
<1>2. /\ \A n \in P : \A d : d \in Edges(order[n])' <=> d \in Edges(order[n])
      /\ \A C : Closed(C, Roots \cap Targets, Avoided)'
                  <=> Closed(C, Roots \cap Targets, Avoided)
  BY <1>1 DEF Closed
<1>3. \A k \in 1..r : Visits(req.roots[k])' <=> Visits(req.roots[k])
  BY <1>1
<1>4. (\A k \in 1..r : Visits(req.roots[k]) => \E n \in P : order[n] = req.roots[k])'
  BY <1>3 DEF Covers
<1>5. (\A n \in P : \A d \in Edges(order[n]) : d \notin Avoided => \E m \in P : order[m] = d)'
  BY <1>1, <1>2 DEF Covers
<1>6. (\A C \in SUBSET Targets :
         Closed(C, Roots \cap Targets, Avoided) => \A n \in P : order[n] \in C)'
  BY <1>1, <1>2 DEF Covers
<1>7. (Ranked => \A n \in P : \A d \in Edges(order[n]) : d \notin Avoided =>
                   \E m \in P : m < n /\ order[m] = d)'
  BY <1>1, <1>2 DEF Covers
<1> QED BY <1>4, <1>5, <1>6, <1>7 DEF Covers

LEMMA EarlierCoveredHolds ==
  PlanType /\ WalkInv /\ OrderInv /\ ReachInv /\ EarlierCovered /\ [Next]_vars
    => EarlierCovered'
<1> SUFFICES ASSUME PlanType, WalkInv, OrderInv, ReachInv, EarlierCovered, [Next]_vars
             PROVE  EarlierCovered'
  OBVIOUS
<1>1. CASE StartRoot
  <2>1. PICK r, P : r = root /\ P = 1..Len(order)
    OBVIOUS
  <2>2. Covers(r, P)
    BY <1>1, <2>1, WalkCovers DEF StartRoot
  <2>3. Covers(r, P)'
    BY <1>1, <2>2, CoversFrame DEF StartRoot
  <2>4. r = root' - 1 /\ P = 1..from'
    BY <1>1, <2>1 DEF StartRoot, PlanType
  <2> QED BY <2>3, <2>4 DEF EarlierCovered
<1>2. CASE Descend \/ Finish \/ UNCHANGED vars
  <2>1. UNCHANGED <<req, phase, skipSet, root, from>> /\ Walking' = Walking
    BY <1>2, SameGraph DEF Descend, Finish, vars
  <2>2. PICK r, P : r = root - 1 /\ P = 1..from
    OBVIOUS
  <2>3. \A n \in P : order'[n] = order[n]
    <3>1. CASE Finish
      <4>1. \A n \in 1..Len(order) : order'[n] = order[n]
        BY <3>1, FinishShape
      <4>2. from \in Nat /\ Len(order) \in Nat /\ from <= Len(order)
        BY LenProperties DEF PlanType
      <4> QED BY <4>1, <4>2, <2>2
    <3> QED BY <1>2, <3>1 DEF Descend, vars
  <2>4. Walking => Covers(r, P)'
    BY <2>1, <2>2, <2>3, CoversFrame DEF EarlierCovered
  <2> QED BY <2>1, <2>2, <2>4 DEF EarlierCovered
<1>3. CASE Quiet
  <2>1. Walking' => root' = 0 /\ order' = <<>> /\ Len(order') = 0
    BY <1>3, QuietShape, EmptySeq
  <2>2. from' \in Nat /\ from' <= Len(order')
    BY PlanTypeHolds DEF PlanType
  <2>3. Walking' => 1..from' = {} /\ 1..(root' - 1) = {}
    BY <2>1, <2>2
  <2> QED BY <2>3 DEF EarlierCovered, Covers
<1> QED BY <1>1, <1>2, <1>3 DEF Next, Quiet

-----------------------------------------------------------------------------
(* From the walks to the plan.                                             *)

\* Both graphs of a request, and what its roots reach there, stay what they are.
LEMMA SameRequest ==
  ASSUME req' = req
  PROVE  /\ Roots' = Roots /\ Skips' = Skips /\ Targets' = Targets /\ Ranked' = Ranked
         /\ \A t : Deps(t)' = Deps(t) /\ Edges(t)' = Edges(t)
BY DEF Roots, Skips, Targets, Ranked, Ranking, Deps, Edges, Elements

LEMMA OrderOfFrame ==
  ASSUME req' = req, NEW seq, NEW A, OrderOf(seq, A)
  PROVE  OrderOf(seq, A)'
<1>1. Reach(Roots, A)' = Reach(Roots, A)
  BY SameRequest DEF Reach, Closed
<1> QED BY <1>1, SameRequest DEF OrderOf, Elements

LEMMA WalkOrders ==
  ASSUME PlanType, WalkInv, OrderInv, ReachInv, EarlierCovered, WalkDone, Roots \subseteq Targets
  PROVE  OrderOf(order, Avoided)
<1> DEFINE E == Elements(order)
<1>1. Covers(Len(req.roots), 1..Len(order))
  BY WalkCovers DEF WalkDone
<1>2. order \in Seq(Targets) /\ E \subseteq Targets
  BY LenProperties, ElementOfSeq DEF PlanType, Elements
<1>3. Closed(E, Roots \cap Targets, Avoided)
  <2>1. \A t \in Roots \ Avoided : t \in E
    <3> SUFFICES ASSUME NEW t \in Roots, t \notin Avoided PROVE t \in E
      OBVIOUS
    <3>1. PICK k \in 1..Len(req.roots) : req.roots[k] = t
      BY DEF Roots, Elements
    <3> QED BY <1>1, <3>1 DEF Covers, Visits, Targets, Elements
  <2>2. \A t \in E : Edges(t) \ Avoided \subseteq E
    BY <1>1 DEF Covers, Elements
  <2> QED BY <2>1, <2>2 DEF Closed
<1>4. E = Reach(Roots, Avoided)
  <2>1. Reach(Roots, Avoided) \subseteq E
    BY <1>2, <1>3 DEF Reach
  <2>2. E \subseteq Reach(Roots, Avoided)
    BY <1>1, <1>2 DEF Reach, Covers, Elements
  <2> QED BY <2>1, <2>2
<1>5. Ranked => \A n \in 1..Len(order) : \A d \in Edges(order[n]) \ Avoided :
        \E m \in 1..(n - 1) : order[m] = d
  <2> SUFFICES ASSUME Ranked, NEW n \in 1..Len(order), NEW d \in Edges(order[n]) \ Avoided
               PROVE  \E m \in 1..(n - 1) : order[m] = d
    OBVIOUS
  <2>1. PICK m \in 1..Len(order) : m < n /\ order[m] = d
    BY <1>1 DEF Covers
  <2> QED BY <2>1
<1> QED BY <1>2, <1>4, <1>5 DEF OrderOf

\* KeptTargets is full_order without the targets that do not remain.
LEMMA KeptShape ==
  ASSUME full \in Seq(Targets)
  PROVE  /\ KeptTargets \in Seq(Targets)
         /\ \A n \in 1..Len(KeptTargets) : \E k \in 1..Len(full) :
              /\ Remains(full[k]) /\ KeptTargets[n] = full[k]
              /\ \A j \in 1..(k - 1) : Remains(full[j]) =>
                   \E m \in 1..(n - 1) : KeptTargets[m] = full[j]
         /\ \A k \in 1..Len(full) : Remains(full[k]) =>
              \E n \in 1..Len(KeptTargets) : KeptTargets[n] = full[k]
<1>1. PICK N \in Nat : N = Len(full)
  BY LenProperties
<1> DEFINE X == Seq(Targets)
           h == [n \in 1..N |->
                   [s \in X |-> IF Remains(full[n]) THEN Append(s, full[n]) ELSE s]]
           Body(f, n) == IF n = 0 THEN <<>>
                         ELSE IF Remains(full[n]) THEN Append(f[n - 1], full[n]) ELSE f[n - 1]
<1>2. \A n \in 1..N : full[n] \in Targets
  BY <1>1, ElementOfSeq
<1>3. \A s \in X, t \in Targets :
        /\ Append(s, t) \in X /\ Len(s) \in Nat /\ Len(Append(s, t)) = Len(s) + 1
        /\ Append(s, t)[Len(s) + 1] = t /\ \A n \in 1..Len(s) : Append(s, t)[n] = s[n]
  BY AppendProperties, LenProperties
<1>4. <<>> \in X /\ Len(<<>>) = 0
  BY EmptySeq
<1> HIDE DEF X
<1>5. h \in [1..N -> [X -> X]]
  BY <1>2, <1>3
<1>6. \E f \in [0..N -> X] : f = [n \in 0..N |-> Body(f, n)]
  <2> HIDE DEF h
  <2>1. PICK f \in [0..N -> X] : f[0] = <<>> /\ \A n \in 1..N : f[n] = h[n][f[n - 1]]
    <3>1. \E f : Recursive(f, N, X, <<>>, h)
      BY <1>4, <1>5, RecursiveFunction
    <3> QED BY <3>1 DEF Recursive
  <2>2. ASSUME NEW n \in 1..N PROVE f[n] = Body(f, n)
    <3>1. n # 0 /\ f[n - 1] \in X
      OBVIOUS
    <3>2. h[n] = [s \in X |-> IF Remains(full[n]) THEN Append(s, full[n]) ELSE s]
      BY DEF h
    <3>3. h[n][f[n - 1]] = IF Remains(full[n]) THEN Append(f[n - 1], full[n]) ELSE f[n - 1]
      BY <3>1, <3>2
    <3> QED BY <2>1, <3>1, <3>3
  <2>3. f[0] = Body(f, 0)
    BY <2>1
  <2>4. \A n \in 0..N : n = 0 \/ n \in 1..N
    OBVIOUS
  <2> HIDE DEF Body
  <2>5. \A n \in 0..N : f[n] = Body(f, n)
    BY <2>2, <2>3, <2>4
  <2> QED BY <2>5
<1>7. Kept = [n \in 0..N |-> Body(Kept, n)]
  BY <1>1, <1>6 DEF Kept
<1>8. /\ Kept[0] = <<>>
      /\ \A n \in 1..N : Kept[n] =
           IF Remains(full[n]) THEN Append(Kept[n - 1], full[n]) ELSE Kept[n - 1]
  <2>1. 0 \in 0..N /\ \A n \in 1..N : n \in 0..N /\ n # 0
    OBVIOUS
  <2> QED BY <1>7, <2>1
<1> DEFINE Good(n) ==
      /\ Kept[n] \in X
      /\ \A i \in 1..Len(Kept[n]) : \E k \in 1..n :
           /\ Remains(full[k]) /\ Kept[n][i] = full[k]
           /\ \A j \in 1..(k - 1) : Remains(full[j]) => \E m \in 1..(i - 1) : Kept[n][m] = full[j]
      /\ \A k \in 1..n : Remains(full[k]) => \E i \in 1..Len(Kept[n]) : Kept[n][i] = full[k]
           S == {n \in 0..N : Good(n)}
<1>9. 0 \in S
  <2>1. 0 \in 0..N /\ \A n : n \notin 1..0
    OBVIOUS
  <2> QED BY <1>4, <1>8, <2>1
<1>10. ASSUME NEW n \in 1..N, n - 1 \in S PROVE n \in S
  <2>1. n \in 0..N /\ Good(n - 1) /\ Kept[n - 1] \in X
    BY <1>10
  <2>2. CASE ~Remains(full[n])
    <3>1. Kept[n] = Kept[n - 1]
      BY <1>8, <2>2
    <3>2. Good(n)
      BY <2>1, <2>2, <3>1
    <3> HIDE DEF Good
    <3> QED BY <2>1, <3>2
  <2>3. CASE Remains(full[n])
    <3>1. Kept[n] = Append(Kept[n - 1], full[n])
      BY <1>8, <2>3
    <3>2. PICK l \in Nat : l = Len(Kept[n - 1])
      BY <1>3, <1>2, <2>1
    <3>3. /\ Kept[n] \in X /\ Len(Kept[n]) = l + 1 /\ Kept[n][l + 1] = full[n]
          /\ \A i \in 1..l : Kept[n][i] = Kept[n - 1][i]
      BY <1>2, <1>3, <2>1, <3>1, <3>2
    <3>4. ASSUME NEW i \in 1..(l + 1)
          PROVE  \E k \in 1..n :
                   /\ Remains(full[k]) /\ Kept[n][i] = full[k]
                   /\ \A j \in 1..(k - 1) : Remains(full[j]) =>
                        \E m \in 1..(i - 1) : Kept[n][m] = full[j]
      <4>1. CASE i \in 1..l
        <5>1. PICK k \in 1..(n - 1) :
                /\ Remains(full[k]) /\ Kept[n - 1][i] = full[k]
                /\ \A j \in 1..(k - 1) : Remains(full[j]) =>
                     \E m \in 1..(i - 1) : Kept[n - 1][m] = full[j]
          BY <2>1, <3>2, <4>1
        <5>2. \A m \in 1..(i - 1) : Kept[n][m] = Kept[n - 1][m]
          BY <3>3, <4>1
        <5> QED BY <3>3, <4>1, <5>1, <5>2
      <4>2. CASE i = l + 1
        <5>1. \A j \in 1..(n - 1) : Remains(full[j]) =>
                \E m \in 1..l : Kept[n][m] = full[j]
          BY <2>1, <3>2, <3>3
        <5>2. n \in 1..n /\ i - 1 = l
          BY <4>2
        <5> QED BY <2>3, <3>3, <4>2, <5>1, <5>2
      <4> QED BY <4>1, <4>2
    <3>5. ASSUME NEW k \in 1..n, Remains(full[k])
          PROVE  \E i \in 1..(l + 1) : Kept[n][i] = full[k]
      <4>1. CASE k = n
        <5>1. l + 1 \in 1..(l + 1)
          OBVIOUS
        <5> QED BY <3>3, <4>1, <5>1
      <4>2. CASE k # n
        <5>1. PICK i \in 1..l : Kept[n - 1][i] = full[k]
          BY <2>1, <3>2, <3>5, <4>2
        <5>2. i \in 1..(l + 1)
          OBVIOUS
        <5> QED BY <3>3, <5>1, <5>2
      <4> QED BY <4>1, <4>2
    <3>6. Good(n)
      BY <3>3, <3>4, <3>5
    <3> HIDE DEF Good
    <3> QED BY <2>1, <3>6
  <2> QED BY <2>2, <2>3
<1> HIDE DEF S
<1>11. 0..N \subseteq S /\ N \in 0..N
  BY <1>9, <1>10, BoundedInduction
<1> QED BY <1>1, <1>11 DEF S, X, KeptTargets

\* The steps that MakeSteps builds.
LEMMA StepsShape ==
  ASSUME full \in Seq(Targets), MakeSteps
  PROVE  StepsFollow'
<1>1. /\ Len(KeptTargets) \in Nat /\ Len(steps') = Len(KeptTargets)
      /\ \A n \in 1..Len(KeptTargets) : steps'[n] = StepOf(KeptTargets[n])
  BY KeptShape, LenProperties DEF MakeSteps
<1>2. full' = full /\ \A t : StepOf(t)' = StepOf(t) /\ (Remains(t)' <=> Remains(t))
  BY DEF MakeSteps, walk, StepOf, Remains, Elements
<1>3. ASSUME NEW n \in 1..Len(KeptTargets)
      PROVE  \E k \in 1..Len(full) :
               /\ Remains(full[k]) /\ steps'[n] = StepOf(full[k])
               /\ \A j \in 1..(k - 1) : Remains(full[j]) =>
                    \E m \in 1..(n - 1) : steps'[m] = StepOf(full[j])
  <2>1. PICK k \in 1..Len(full) :
          /\ Remains(full[k]) /\ KeptTargets[n] = full[k]
          /\ \A j \in 1..(k - 1) : Remains(full[j]) =>
               \E m \in 1..(n - 1) : KeptTargets[m] = full[j]
    BY KeptShape
  <2>2. 1..(n - 1) \subseteq 1..Len(KeptTargets)
    BY <1>1
  <2> QED BY <1>1, <2>1, <2>2
<1>4. ASSUME NEW k \in 1..Len(full), Remains(full[k])
      PROVE  \E n \in 1..Len(KeptTargets) : steps'[n] = StepOf(full[k])
  BY <1>1, <1>4, KeptShape
<1> QED BY <1>1, <1>2, <1>3, <1>4 DEF StepsFollow

\* Every request's names are in Name.
LEMMA NamesTyped ==
  ASSUME req \in Requests
  PROVE  Elements(Named) = Roots \cup Skips
<1>1. req.roots \in Seq(Name) /\ req.skips \in Seq(Name)
  BY RequestsAssumption DEF RequestOK
<1>2. PICK r \in Nat, s \in Nat : r = Len(req.roots) /\ s = Len(req.skips)
  BY <1>1, LenProperties
<1>3. /\ Len(Named) = r + s
      /\ \A n \in 1..(r + s) : Named[n] = IF n <= r THEN req.roots[n] ELSE req.skips[n - r]
  BY <1>1, <1>2, ConcatProperties DEF Named
<1>4. \A n \in 1..r : n \in 1..(r + s) /\ Named[n] = req.roots[n]
  BY <1>3
<1>5. ASSUME NEW n \in 1..s PROVE n + r \in 1..(r + s) /\ Named[n + r] = req.skips[n]
  <2>1. n + r \in 1..(r + s) /\ ~(n + r <= r) /\ (n + r) - r = n
    OBVIOUS
  <2> QED BY <1>3, <2>1
<1>6. ASSUME NEW n \in 1..(r + s)
      PROVE  \/ n \in 1..r /\ Named[n] = req.roots[n]
             \/ n - r \in 1..s /\ Named[n] = req.skips[n - r]
  BY <1>3
<1>7. \A x \in Elements(Named) : x \in Roots \cup Skips
  BY <1>2, <1>3, <1>6 DEF Roots, Skips, Elements
<1>8. \A x \in Roots : x \in Elements(Named)
  BY <1>2, <1>3, <1>4 DEF Roots, Elements
<1>9. \A x \in Skips : x \in Elements(Named)
  <2> SUFFICES ASSUME NEW n \in 1..s PROVE req.skips[n] \in Elements(Named)
    BY <1>2 DEF Skips, Elements
  <2> QED BY <1>3, <1>5 DEF Elements
<1> QED BY <1>7, <1>8, <1>9

\* A step of a walk changes none of what the later phases rely on.
LEMMA StageFrame ==
  ASSUME StageInv, Walking, UNCHANGED <<req, phase, verdict, full, skipSet, steps>>
  PROVE  StageInv'
<1>1. ~Decided /\ ~Decided' /\ verdict = "pending" /\ phase \in {"full", "kept"}
  BY DEF StageInv, Walking, Decided
<1>2. PICK s, A : s = full /\ A = {}
  OBVIOUS
<1>3. phase = "kept" => OrderOf(s, A)
  BY <1>1, <1>2 DEF StageInv
<1>4. phase = "kept" => OrderOf(s, A)'
  BY <1>3, OrderOfFrame
<1>5. phase = "kept" => OrderOf(full, {})'
  BY <1>2, <1>4
<1>6. SkipsRight => SkipsRight'
  BY SameRequest DEF SkipsRight
<1> QED BY <1>1, <1>5, <1>6, SameRequest DEF StageInv

LEMMA StageInvHolds ==
  ASSUME PlanType, WalkInv, OrderInv, ReachInv, EarlierCovered, StageInv, [Next]_vars
  PROVE  StageInv'
<1>1. CASE StartRoot \/ Descend \/ Finish
  BY <1>1, StageFrame DEF StartRoot, Descend, Finish
<1>2. CASE NamesKnown
  BY <1>2, NamesTyped, SameRequest DEF NamesKnown, StageInv, Decided, PlanType, Targets
<1>3. CASE NamesUnknown
  BY <1>3 DEF NamesUnknown, StageInv, Decided
<1>4. CASE FullDone
  <2>1. phase = "full" /\ phase' = "embedded" /\ verdict' = verdict /\ verdict = "pending"
        /\ req' = req /\ full' = order /\ Avoided = {}
    BY <1>4 DEF FullDone, StageInv, Avoided
  <2>2. Roots \cup Skips \subseteq Targets
    BY <2>1 DEF StageInv
  <2>3. PICK s, A : s = order /\ A = {}
    OBVIOUS
  <2>4. OrderOf(s, A)
    BY <1>4, <2>1, <2>2, <2>3, WalkOrders DEF FullDone
  <2>5. OrderOf(s, A)'
    BY <2>1, <2>4, OrderOfFrame
  <2>6. OrderOf(full, {})'
    BY <2>1, <2>3, <2>5
  <2> QED BY <2>1, <2>2, <2>6, SameRequest DEF StageInv, Decided
<1>5. CASE CollectSkips
  <2>1. phase = "embedded" /\ phase' = "kept" /\ verdict' = verdict /\ verdict = "pending"
        /\ req' = req /\ full' = full
    BY <1>5 DEF CollectSkips, StageInv
  <2>2. Roots \cup Skips \subseteq Targets /\ OrderOf(full, {})
    BY <2>1 DEF StageInv
  <2>3. SkipsRight'
    <3> DEFINE E == UNION {req.skipDeps[t] : t \in Elements(full)}
    <3>1. skipSet' = Skips \cup ((E \cap req.targets) \ Roots)
      BY <1>5 DEF CollectSkips
    <3> HIDE DEF E
    <3> QED BY <2>1, <2>2, <3>1, SameRequest DEF SkipsRight, Targets
  <2>4. PICK s, A : s = full /\ A = {}
    OBVIOUS
  <2>5. OrderOf(s, A)'
    BY <2>1, <2>2, <2>4, OrderOfFrame
  <2>6. OrderOf(full, {})'
    BY <2>1, <2>4, <2>5
  <2> QED BY <2>1, <2>2, <2>3, <2>6, SameRequest DEF StageInv, Decided
<1>6. CASE KeptDone \/ SkipRefused \/ MakeSteps \/ UNCHANGED vars
  <2>1. /\ req' = req /\ full' = full /\ skipSet' = skipSet /\ order' = order
    BY <1>6 DEF KeptDone, SkipRefused, MakeSteps, vars, walk
  <2>2. PICK s, A, t, B : s = full /\ A = {} /\ t = order /\ B = skipSet
    OBVIOUS
  <2>3. OrderOf(full, {}) => OrderOf(full, {})'
    <3>1. OrderOf(s, A) => OrderOf(s, A)'
      BY <2>1, OrderOfFrame
    <3> QED BY <2>1, <2>2, <3>1
  <2>4. OrderOf(order, skipSet) => OrderOf(order, skipSet)'
    <3>1. OrderOf(t, B) => OrderOf(t, B)'
      BY <2>1, OrderOfFrame
    <3> QED BY <2>1, <2>2, <3>1
  <2>5. Eligible' = Eligible /\ (SkipsRight => SkipsRight')
        /\ (Roots \cup Skips \subseteq Targets => Roots' \cup Skips' \subseteq Targets')
    BY <2>1, SameRequest DEF Eligible, Elements, SkipsRight
  <2>6. CASE KeptDone
    <3>1. phase = "kept" /\ phase' = "eligible" /\ verdict' = verdict /\ verdict = "pending"
          /\ Avoided = skipSet
      BY <2>6 DEF KeptDone, StageInv, Avoided
    <3>2. OrderOf(order, skipSet)
      BY <2>6, <3>1, WalkOrders DEF KeptDone, StageInv
    <3> QED BY <2>3, <2>4, <2>5, <3>1, <3>2 DEF StageInv, Decided
  <2>7. CASE SkipRefused
    <3>1. phase = "eligible" /\ phase' = "done" /\ verdict' = "SkipNotAllowed" /\ ~Eligible
      BY <2>7 DEF SkipRefused
    <3> QED BY <2>3, <2>4, <2>5, <3>1 DEF StageInv, Decided
  <2>8. CASE MakeSteps
    <3>1. phase = "eligible" /\ phase' = "done" /\ verdict' = "planned" /\ Eligible
      BY <2>8 DEF MakeSteps
    <3>2. StepsFollow'
      BY <2>8, <3>1, StepsShape DEF StageInv, OrderOf
    <3> QED BY <2>3, <2>4, <2>5, <3>1, <3>2 DEF StageInv, Decided
  <2>9. CASE UNCHANGED vars
    <3>1. phase' = phase /\ verdict' = verdict /\ Decided' = Decided
      BY <2>9 DEF vars, Decided
    <3>2. StepsFollow => StepsFollow'
      BY <2>9 DEF vars, StepsFollow, Remains, StepOf, Elements
    <3> QED BY <2>3, <2>4, <2>5, <3>1, <3>2 DEF StageInv
  <2> QED BY <1>6, <2>6, <2>7, <2>8, <2>9
<1> QED BY <1>1, <1>2, <1>3, <1>4, <1>5, <1>6 DEF Next

-----------------------------------------------------------------------------
(* The theorems.                                                           *)

LEMMA SearchHolds == Spec => [](PlanType /\ WalkInv /\ OrderInv /\ ReachInv)
<1>1. Init => PlanType /\ WalkInv /\ OrderInv /\ ReachInv
  <2> SUFFICES ASSUME Init PROVE PlanType /\ WalkInv /\ OrderInv /\ ReachInv
    OBVIOUS
  <2>1. /\ stack = <<>> /\ Len(stack) = 0 /\ order = <<>> /\ Len(order) = 0
        /\ root = 0 /\ from = 0 /\ ~Walking /\ phase = "names"
    BY EmptySeq DEF Init, Walking
  <2>2. Own = {} /\ \A n : n \notin 1..Len(stack)
    BY <2>1 DEF Own
  <2>3. PlanType
    BY <2>1, EmptySeq, RequestTyped DEF PlanType, Init
  <2>4. WalkInv
    BY <2>1, <2>2 DEF WalkInv, Busy, OwnIsVisited, OwnIsDistinct, PushedIsNew,
                     PushedIsDistinct, LookedAtIsMet, VisitedIsClosed
  <2>5. OrderInv /\ ReachInv
    BY <2>1, <2>2 DEF OrderInv, Falls, DepsFirst, ReachInv
  <2> QED BY <2>3, <2>4, <2>5
<1> QED BY <1>1, PlanTypeHolds, WalkInvHolds, OrderInvHolds, ReachInvHolds, PTL DEF Spec

\* The part of the order that the current walk has written.
LEMMA SegmentShape ==
  ASSUME PlanType
  PROVE  /\ Len(Segment) = Len(order) - from /\ Len(order) \in Nat /\ from \in Nat
         /\ from <= Len(order)
         /\ \A n \in 1..Len(Segment) : Segment[n] = order[from + n] /\ from + n \in Own
         /\ \A n \in Own : n - from \in 1..Len(Segment) /\ order[n] = Segment[n - from]
<1>1. PICK N \in Nat : N = Len(order) /\ from \in Nat /\ from <= N
  BY LenProperties DEF PlanType
<1>2. /\ from + 1 \in Int /\ N \in Int /\ N - (from + 1) + 1 = N - from
      /\ (IF from + 1 <= N THEN N - from ELSE 0) = N - from
      /\ \A n \in 1..(N - from) : (from + 1) + n - 1 = from + n /\ from + n \in Own
      /\ \A n \in Own : n - from \in 1..(N - from) /\ from + (n - from) = n
  BY <1>1 DEF Own
<1>3. \A n \in (from + 1)..N : order[n] \in Targets
  <2>1. (from + 1)..N \subseteq 1..Len(order)
    BY <1>1
  <2> QED BY <2>1, ElementOfSeq DEF PlanType
<1>4. /\ Len(Segment) = IF from + 1 <= N THEN N - (from + 1) + 1 ELSE 0
      /\ \A n \in 1..(N - (from + 1) + 1) : Segment[n] = order[(from + 1) + n - 1]
  BY <1>1, <1>2, <1>3, SubSeqProperties DEF Segment
<1>5. /\ Len(Segment) = N - from
      /\ \A n \in 1..(N - from) : Segment[n] = order[from + n]
  BY <1>2, <1>4
<1>6. ASSUME NEW n \in Own
      PROVE  n - from \in 1..Len(Segment) /\ order[n] = Segment[n - from]
  <2>1. n \in Int /\ from + 1 <= n /\ n <= N
    BY <1>1 DEF Own
  <2>2. PICK k \in 1..(N - from) : k = n - from /\ from + k = n
    BY <1>1, <2>1
  <2> QED BY <1>5, <2>2
<1> QED BY <1>1, <1>2, <1>5, <1>6

\* The walk of order_visit yields no target twice and, on a graph that
\* graph::validate accepted, none before its dependencies: for every graph,
\* however large, and any roots and skips.
THEOREM SegmentsInOrder == Spec => []SegmentInOrder
<1>1. PlanType /\ WalkInv /\ OrderInv => SegmentInOrder
  <2> SUFFICES ASSUME PlanType, WalkInv, OrderInv, Walking PROVE SegmentInOrder
    BY DEF SegmentInOrder
  <2>1. \A m, n \in 1..Len(Segment) : Segment[m] = Segment[n] => m = n
    <3> SUFFICES ASSUME NEW m \in 1..Len(Segment), NEW n \in 1..Len(Segment),
                        Segment[m] = Segment[n]
                 PROVE  m = n
      OBVIOUS
    <3>1. from + m \in Own /\ from + n \in Own /\ order[from + m] = order[from + n]
      BY SegmentShape
    <3>2. from + m = from + n
      BY <3>1 DEF WalkInv, OwnIsDistinct
    <3> QED BY <3>2, SegmentShape
  <2>2. ASSUME Acyclic, NEW n \in 1..Len(Segment), NEW d \in Edges(Segment[n]) \ Avoided
        PROVE  \E m \in 1..(n - 1) : Segment[m] = d
    <3>1. Cardinality(Targets) \in Nat
      BY RequestTyped, FS_CardinalityType DEF PlanType
    <3>2. \E rank \in [Targets -> Int] : Ranking(rank)
      <4>1. PICK rank \in [Targets -> 1..Cardinality(Targets)] : Ranking(rank)
        BY <2>2 DEF Acyclic, Ranking
      <4>2. rank \in [Targets -> Int]
        BY <3>1
      <4> QED BY <4>1, <4>2
    <3>3. PICK m \in Own : m < from + n /\ order[m] = d
      BY <2>2, <3>2, SegmentShape DEF OrderInv, DepsFirst
    <3>4. m - from \in 1..(n - 1) /\ Segment[m - from] = d
      BY <3>3, SegmentShape DEF Own
    <3> QED BY <3>4
  <2> QED BY <2>1, <2>2 DEF SegmentInOrder
<1> QED BY <1>1, SearchHolds, PTL

\* When order_visit returns to build_order it has yielded exactly what its root
\* reaches outside the skips, and the root last, on cyclic graphs too.
THEOREM SegmentsComplete == Spec => []SegmentComplete
<1>1. PlanType /\ WalkInv /\ ReachInv => SegmentComplete
  <2> SUFFICES ASSUME PlanType, WalkInv, ReachInv, Walking, stack = <<>>, root > 0
               PROVE  SegmentComplete
    BY DEF SegmentComplete
  <2>1. Elements(Segment) = visited
    <3>1. \A t \in Elements(Segment) : t \in visited
      BY SegmentShape DEF Elements, WalkInv, OwnIsVisited
    <3>2. \A t \in visited : t \in Elements(Segment)
      <4> SUFFICES ASSUME NEW t \in visited PROVE t \in Elements(Segment)
        OBVIOUS
      <4>1. PICK n \in Own : order[n] = t
        BY DEF WalkInv, OwnIsVisited
      <4> QED BY <4>1, SegmentShape DEF Elements
    <3> QED BY <3>1, <3>2
  <2>2. \A t : Met(t) <=> t \in visited
    BY EmptySeq DEF Met, Pushed
  <2>3. visited = Reach({req.roots[root]}, Avoided)
    <3>1. visited \subseteq Targets
      BY DEF WalkInv, VisitedIsClosed
    <3>2. Closed(visited, {CurRoot} \cap Targets, Avoided)
      BY <2>2, <3>1 DEF Closed, ReachInv, WalkInv, VisitedIsClosed, Visits, Targets
    <3>3. visited \subseteq Reach({CurRoot}, Avoided)
      BY <2>2, <3>1 DEF Reach, ReachInv, StaysInside
    <3>4. Reach({CurRoot}, Avoided) \subseteq visited
      BY <3>1, <3>2 DEF Reach
    <3> QED BY <3>3, <3>4 DEF CurRoot
  <2>4. Segment # <<>> => Segment[Len(Segment)] = req.roots[root]
    <3> SUFFICES ASSUME Segment # <<>> PROVE Segment[Len(Segment)] = CurRoot
      BY DEF CurRoot
    <3>1. Segment \in Seq(Targets)
      <4>1. \A n \in (from + 1)..Len(order) : order[n] \in Targets
        BY LenProperties, ElementOfSeq DEF PlanType
      <4>2. from + 1 \in Int /\ Len(order) \in Int
        BY SegmentShape
      <4> QED BY <4>1, <4>2, SubSeqProperties DEF Segment
    <3>2. Len(Segment) \in Nat \ {0}
      BY <3>1, EmptySeq
    <3>3. from < Len(order) /\ Segment[Len(Segment)] = order[Len(order)]
      BY <3>2, SegmentShape
    <3> QED BY <3>3 DEF ReachInv
  <2> QED BY <2>1, <2>3, <2>4 DEF SegmentComplete
<1> QED BY <1>1, SearchHolds, PTL
LEMMA PlanHolds == Spec => [](PlanType /\ StageInv)
<1>1. Init => EarlierCovered /\ StageInv
  BY DEF Init, EarlierCovered, Walking, StageInv, Decided
<1> QED BY <1>1, SearchHolds, EarlierCoveredHolds, StageInvHolds, PTL DEF Spec

\* A dependency order is a ranking of the targets.
LEMMA AcyclicIsRanked ==
  ASSUME PlanType, Acyclic
  PROVE  Ranked
<1>1. Cardinality(Targets) \in Nat
  BY RequestTyped, FS_CardinalityType DEF PlanType
<1>2. PICK rank \in [Targets -> 1..Cardinality(Targets)] : Ranking(rank)
  BY DEF Acyclic, Ranking
<1>3. rank \in [Targets -> Int]
  BY <1>1
<1> QED BY <1>2, <1>3 DEF Ranked

\* What is outside A stays outside it; taking out more targets reaches fewer.
LEMMA ReachAvoids ==
  ASSUME NEW S \in SUBSET Targets, NEW A
  PROVE  /\ Reach(S, A) \subseteq Targets /\ Reach(S, A) \cap A = {}
         /\ S \ A \subseteq Reach(S, A) /\ Reach(S, A) \subseteq Reach(S, {})
<1>1. Closed(Targets \ A, S \cap Targets, A)
  BY DEF Closed, Edges
<1>2. \A C : Closed(C, S \cap Targets, {}) => Closed(C, S \cap Targets, A)
  BY DEF Closed
<1>3. \A C : Closed(C, S \cap Targets, A) => S \ A \subseteq C
  BY DEF Closed
<1> QED BY <1>1, <1>2, <1>3 DEF Reach

\* The plan honours the dependencies of every validated Rakefile: whatever runs
\* has its dependencies before it, or they are skips that it may be denied.
THEOREM PlansHonourDependencies == Spec => []PlanHonoursDependencies
<1>1. PlanType /\ StageInv => PlanHonoursDependencies
  <2> SUFFICES ASSUME PlanType, StageInv, verdict = "planned", Acyclic,
                      NEW n \in 1..Len(steps), steps[n].kind = "Run",
                      NEW d \in Edges(steps[n].target)
               PROVE  \/ \E m \in 1..(n - 1) : steps[m] = [kind |-> "Run", target |-> d]
                      \/ d \in skipSet /\ (d \in Skips => steps[n].target \in Roots)
    BY DEF PlanHonoursDependencies
  <2>1. /\ OrderOf(full, {}) /\ OrderOf(order, skipSet) /\ Eligible /\ StepsFollow
        /\ Ranked /\ Roots \subseteq Targets /\ Skips \subseteq skipSet
    BY AcyclicIsRanked DEF StageInv, SkipsRight, Decided
  <2>2. PICK k \in 1..Len(full) :
          /\ Remains(full[k]) /\ steps[n] = StepOf(full[k])
          /\ \A j \in 1..(k - 1) : Remains(full[j]) =>
               \E m \in 1..(n - 1) : steps[m] = StepOf(full[j])
    BY <2>1 DEF StepsFollow
  <2> DEFINE t == full[k]
  <2>3. steps[n].target = t /\ t \notin skipSet /\ t \in Elements(order) /\ d \in Edges(t)
    BY <2>2 DEF StepOf, Remains
  <2>4. PICK j \in 1..(k - 1) : full[j] = d
    BY <2>1, <2>3 DEF OrderOf
  <2>5. d \notin skipSet => d \in Elements(order)
    BY <2>1, <2>3 DEF OrderOf, Elements
  <2>6. d \notin skipSet => \E m \in 1..(n - 1) : steps[m] = [kind |-> "Run", target |-> d]
    BY <2>2, <2>4, <2>5 DEF Remains, StepOf
  <2>7. d \in Skips => t \in Roots
    BY <2>1, <2>3 DEF Eligible, Edges
  <2> QED BY <2>3, <2>6, <2>7
<1> QED BY <1>1, PlanHolds, PTL

\* The plan runs exactly what the roots need once the skips are taken out, for
\* any roots and skips and on any graph; a refusal names a target that would
\* have run without its prerequisite.
THEOREM PlansRunWhatRemains == Spec => []PlanRunsWhatRemains
<1>1. PlanType /\ StageInv => PlanRunsWhatRemains
  <2> SUFFICES ASSUME PlanType, StageInv, Decided PROVE PlanRunsWhatRemains
    BY DEF PlanRunsWhatRemains, Decided
  <2> DEFINE remaining == Reach(Roots, skipSet)
  <2>1. /\ Roots \subseteq Targets /\ Skips \subseteq skipSet /\ Skips \subseteq Targets
        /\ (Roots \ Skips) \cap skipSet = {}
        /\ Elements(full) = Reach(Roots, {}) /\ Elements(order) = remaining
    BY DEF StageInv, SkipsRight, OrderOf
  <2>2. /\ remaining \cap skipSet = {} /\ remaining \subseteq Reach(Roots, {})
        /\ Roots \ skipSet \subseteq remaining /\ remaining \subseteq Targets
    BY <2>1, ReachAvoids
  <2>3. ASSUME verdict = "planned"
        PROVE  /\ {s.target : s \in {x \in Elements(steps) : x.kind = "Run"}} = remaining
               /\ {s.target : s \in {x \in Elements(steps) : x.kind = "Skip"}}
                    = skipSet \cap Reach(Roots, {})
    <3> HIDE DEF remaining
    <3>1. StepsFollow
      BY <2>3 DEF StageInv
    <3>2. \A s \in Elements(steps) : \E t \in Elements(full) : Remains(t) /\ s = StepOf(t)
      BY <3>1 DEF StepsFollow, Elements
    <3>3. \A t \in Elements(full) : Remains(t) => StepOf(t) \in Elements(steps)
      BY <3>1 DEF StepsFollow, Elements
    <3>4. \A t : /\ StepOf(t).target = t
                 /\ StepOf(t).kind = "Run" <=> t \notin skipSet
                 /\ StepOf(t).kind = "Skip" <=> t \in skipSet
      BY DEF StepOf
    <3>5. \A t \in Elements(full) : Remains(t) <=> t \in skipSet \/ t \in remaining
      BY <2>1 DEF Remains
    <3>6. ASSUME NEW t
          PROVE  (\E s \in Elements(steps) : s.kind = "Run" /\ t = s.target) <=> t \in remaining
      BY <2>1, <2>2, <3>2, <3>3, <3>4, <3>5
    <3>7. ASSUME NEW t
          PROVE  (\E s \in Elements(steps) : s.kind = "Skip" /\ t = s.target)
                   <=> t \in skipSet \cap Reach(Roots, {})
      BY <2>1, <3>2, <3>3, <3>4, <3>5
    <3> QED BY <3>6, <3>7
  <2>4. ASSUME verdict = "SkipNotAllowed"
        PROVE  \E t \in remaining \ Roots : Edges(t) \cap Skips # {}
    <3>1. PICK t \in Elements(order) \ Roots : Elements(Deps(t)) \cap Skips # {}
      BY <2>4 DEF StageInv, Eligible
    <3> QED BY <2>1, <3>1 DEF Edges
  <2>5. Roots \ Skips \subseteq remaining
    BY <2>1, <2>2
  <2> QED BY <2>3, <2>4, <2>5 DEF PlanRunsWhatRemains
<1> QED BY <1>1, PlanHolds, PTL
-----------------------------------------------------------------------------
(* Planning advances.                                                      *)

LeftInv ==
  /\ phase \in {"names", "full", "embedded", "kept", "eligible", "done"}
  /\ \A n \in 1..Len(stack) : stack[n].next <= Len(Deps(stack[n].node)) + 1

\* What planning still has before it: phases, roots, targets that no call of this walk
\* has met, calls that have not returned, and dependencies of the innermost call.
PhasesLeft ==
  [names |-> 5, full |-> 4, embedded |-> 3, kept |-> 2, eligible |-> 1, done |-> 0][phase]
Unmet == Targets \ (visited \cup InProgress)
NextLeft == IF stack = <<>> THEN 0 ELSE Len(Deps(Top.node)) + 1 - Top.next
Left == <<PhasesLeft, Len(req.roots) - root, Cardinality(Unmet), Len(stack), NextLeft>>
Advance == Left \in [1..5 -> Nat] /\ LexLess(Left', Left)

\* Every step of the planner leaves less to do, on a graph with a cycle as well: no
\* visit is made twice in a walk, and every call returns to its caller's next
\* dependency (order_visit with visited and in_progress).
PlanningAdvances == [][Advance]_vars

LEMMA LeftInvHolds == PlanType /\ LeftInv /\ [Next]_vars => LeftInv'
<1> SUFFICES ASSUME PlanType, LeftInv, [Next]_vars PROVE LeftInv'
  OBVIOUS
<1>1. phase' \in {"names", "full", "embedded", "kept", "eligible", "done"}
  BY DEF LeftInv, Next, vars, NamesKnown, NamesUnknown, StartRoot, Descend, Finish, FullDone,
         CollectSkips, KeptDone, SkipRefused, MakeSteps
<1>2. CASE StartRoot
  <2>1. \A t : Deps(t)' = Deps(t)
    BY <1>2, SameGraph DEF StartRoot
  <2>2. /\ CurRoot' = req.roots[root']
        /\ \/ /\ Visits(req.roots[root']) /\ Len(stack') = 1
              /\ stack'[1].node = CurRoot' /\ stack'[1].next = 1
           \/ Len(stack') = 0
    BY <1>2, StartRootShape
  <2>3. \A n \in 1..Len(stack') : Visits(stack'[n].node) /\ stack'[n].next = 1
    BY <2>2
  <2>4. \A n \in 1..Len(stack') : Len(Deps(stack'[n].node)) \in Nat
    BY <2>3, RequestTyped DEF PlanType, Visits, Targets
  <2> QED BY <1>1, <2>1, <2>3, <2>4 DEF LeftInv
<1>3. CASE Descend
  <2>1. PICK L \in Nat \ {0}, k \in Nat \ {0}, dep \in Name :
          /\ L = Len(stack) /\ k = stack[L].next /\ k <= Len(Deps(stack[L].node))
          /\ stack[L] \in Call
          /\ \A n \in 1..L : /\ stack'[n].node = stack[n].node
                             /\ stack'[n].next = IF n = L THEN k + 1 ELSE stack[n].next
          /\ \/ /\ Visits(dep) /\ Len(stack') = L + 1
                /\ stack'[L + 1].node = dep /\ stack'[L + 1].next = 1
             \/ Len(stack') = L
    BY <1>3, DescendShape
  <2>2. \A t : Deps(t)' = Deps(t)
    BY <1>3, SameGraph DEF Descend
  <2>3. Len(Deps(stack[L].node)) \in Nat
    BY <2>1, RequestTyped DEF PlanType, Call
  <2>4. \A n \in 1..L : stack'[n].next <= Len(Deps(stack'[n].node)) + 1
    BY <2>1, <2>3 DEF LeftInv
  <2>5. Visits(dep) => 1 <= Len(Deps(dep)) + 1
    BY RequestTyped DEF PlanType, Visits, Targets
  <2>6. \A n \in 1..(L + 1) : n \in 1..L \/ n = L + 1
    OBVIOUS
  <2> QED BY <1>1, <2>1, <2>2, <2>4, <2>5, <2>6 DEF LeftInv
<1>4. CASE Finish
  <2>1. PICK L \in Nat \ {0} :
          L = Len(stack) /\ Len(stack') = L - 1 /\ \A n \in 1..(L - 1) : stack'[n] = stack[n]
    BY <1>4, FinishShape
  <2>2. \A t : Deps(t)' = Deps(t)
    BY <1>4, SameGraph DEF Finish
  <2>3. 1..(L - 1) \subseteq 1..L
    OBVIOUS
  <2> QED BY <1>1, <2>1, <2>2, <2>3 DEF LeftInv
<1>5. CASE Quiet
  <2>1. req' = req /\ stack' = stack
    BY <1>5 DEF Quiet, NamesKnown, NamesUnknown, FullDone, CollectSkips, KeptDone, SkipRefused,
         MakeSteps, walk
  <2> QED BY <1>1, <2>1 DEF LeftInv, Deps
<1>6. CASE UNCHANGED vars
  BY <1>1, <1>6 DEF LeftInv, vars, Deps
<1> QED BY <1>2, <1>3, <1>4, <1>5, <1>6 DEF Next, Quiet

Measured ==
  /\ Left \in [1..5 -> Nat] /\ Left[1] = PhasesLeft /\ Left[2] = Len(req.roots) - root
  /\ Left[3] = Cardinality(Unmet) /\ Left[4] = Len(stack) /\ Left[5] = NextLeft

LEMMA LeftTyped == PlanType /\ LeftInv => Measured
<1> SUFFICES ASSUME PlanType, LeftInv PROVE Measured
  OBVIOUS
<1>1. PhasesLeft \in Nat
  BY DEF LeftInv, PhasesLeft
<1>2. Len(req.roots) - root \in Nat
  BY RequestTyped DEF PlanType
<1>3. Cardinality(Unmet) \in Nat
  BY RequestTyped, FS_Subset, FS_CardinalityType DEF PlanType, Unmet
<1>4. Len(stack) \in Nat
  BY LenProperties DEF PlanType
<1>5. NextLeft \in Nat
  <2> SUFFICES ASSUME stack # <<>> PROVE Len(Deps(Top.node)) + 1 - Top.next \in Nat
    BY DEF NextLeft
  <2>1. Len(stack) \in 1..Len(stack) /\ Top \in Call
    BY EmptySeq, ElementOfSeq DEF PlanType, Top
  <2>2. Len(Deps(Top.node)) \in Nat /\ Top.next \in Nat /\ Top.next <= Len(Deps(Top.node)) + 1
    BY <2>1, RequestTyped DEF PlanType, LeftInv, Top, Call
  <2> QED BY <2>2
<1>6. Left = <<PhasesLeft, Len(req.roots) - root, Cardinality(Unmet), Len(stack), NextLeft>>
  BY DEF Left
<1>7. \A a, b, c, d, e \in Nat : LET l == <<a, b, c, d, e>> IN
        l \in [1..5 -> Nat] /\ l[1] = a /\ l[2] = b /\ l[3] = c /\ l[4] = d /\ l[5] = e
  OBVIOUS
<1> QED BY <1>1, <1>2, <1>3, <1>4, <1>5, <1>6, <1>7 DEF Measured

\* Every step of the planner leaves less to do.
LEMMA StepLeavesLess ==
  ASSUME PlanType, LeftInv, WalkInv, Measured, Measured', Next
  PROVE  LexLess(Left', Left)
<1>1. DOMAIN Left' = 1..5
  BY DEF Measured
<1>2. /\ Left[1] = PhasesLeft /\ Left[2] = Len(req.roots) - root
      /\ Left[3] = Cardinality(Unmet) /\ Left[4] = Len(stack) /\ Left[5] = NextLeft
      /\ Left'[1] = PhasesLeft' /\ Left'[2] = Len(req'.roots) - root'
      /\ Left'[3] = Cardinality(Unmet') /\ Left'[4] = Len(stack') /\ Left'[5] = NextLeft'
  BY DEF Measured
<1>3. /\ 1..0 = {} /\ 1..(1 - 1) = {} /\ 1..(2 - 1) = {1} /\ 1..(3 - 1) = {1, 2}
      /\ 1..(4 - 1) = {1, 2, 3} /\ 1..(5 - 1) = {1, 2, 3, 4}
  OBVIOUS
<1>4. CASE Quiet
  <2>1. PhasesLeft' < PhasesLeft
    BY <1>4 DEF PhasesLeft, Quiet, NamesKnown, NamesUnknown, FullDone, CollectSkips, KeptDone,
      SkipRefused, MakeSteps
  <2>2. Left'[1] < Left[1] /\ 1 \in 1..5
    BY <1>2, <2>1
  <2> QED BY <1>1, <1>3, <2>2, LessAt
<1>5. CASE StartRoot
  <2>1. phase' = phase /\ req' = req /\ root' = root + 1 /\ root \in Nat /\ Len(req.roots) \in Nat
    BY <1>5, RequestTyped DEF StartRoot, PlanType
  <2>2. Left'[1] = Left[1] /\ Left'[2] < Left[2] /\ 2 \in 1..5
    BY <1>2, <2>1 DEF PhasesLeft
  <2> QED BY <1>1, <1>3, <2>2, LessAt
<1>6. CASE Finish
  <2>1. PICK L \in Nat \ {0} :
          /\ L = Len(stack) /\ Len(stack') = L - 1 /\ \A n \in 1..(L - 1) : stack'[n] = stack[n]
          /\ visited' = visited \cup {stack[L].node}
    BY <1>6, FinishShape
  <2>2. phase' = phase /\ req' = req /\ root' = root
    BY <1>6 DEF Finish
  <2>3. Unmet' = Unmet
    <3>1. \A t : t \in InProgress <=> t \in InProgress' \/ t = stack[L].node
      <4>1. 1..L = 1..(L - 1) \cup {L}
        OBVIOUS
      <4> QED BY <2>1, <4>1 DEF InProgress
    <3> QED BY <2>1, <2>2, <3>1 DEF Unmet, Targets
  <2>4. Left'[1] = Left[1] /\ Left'[2] = Left[2] /\ Left'[3] = Left[3] /\ Left'[4] < Left[4]
        /\ 4 \in 1..5
    BY <1>2, <2>1, <2>2, <2>3 DEF PhasesLeft
  <2> QED BY <1>1, <1>3, <2>4, LessAt
<1>7. CASE Descend
  <2>1. PICK L \in Nat \ {0}, k \in Nat \ {0}, dep \in Name :
          /\ L = Len(stack) /\ k = stack[L].next /\ stack[L] \in Call
          /\ k <= Len(Deps(stack[L].node))
          /\ \A n \in 1..L : /\ stack'[n].node = stack[n].node
                             /\ stack'[n].next = IF n = L THEN k + 1 ELSE stack[n].next
          /\ \/ /\ Visits(dep) /\ dep \notin visited /\ ~Pushed(dep)
                /\ Len(stack') = L + 1 /\ stack'[L + 1].node = dep
             \/ Len(stack') = L
    BY <1>7, DescendShape
  <2>2. phase' = phase /\ req' = req /\ root' = root /\ visited' = visited /\ stack # <<>>
    BY <1>7 DEF Descend
  <2>3. \A t : t \in InProgress <=> Pushed(t)
    BY DEF InProgress, Pushed
  <2>4. CASE Visits(dep) /\ dep \notin visited /\ ~Pushed(dep) /\ Len(stack') = L + 1
             /\ stack'[L + 1].node = dep
    <3>1. InProgress' = InProgress \cup {dep}
      <4>1. 1..(L + 1) = 1..L \cup {L + 1}
        OBVIOUS
      <4> QED BY <2>1, <2>4, <4>1 DEF InProgress
    <3>2. Unmet' = Unmet \ {dep} /\ dep \in Unmet
      BY <2>2, <2>3, <2>4, <3>1 DEF Unmet, Targets, Visits
    <3>3. IsFiniteSet(Unmet)
      BY RequestTyped, FS_Subset DEF PlanType, Unmet
    <3>4. Cardinality(Unmet') < Cardinality(Unmet)
      BY <3>2, <3>3, OneFewer
    <3>5. Left'[1] = Left[1] /\ Left'[2] = Left[2] /\ Left'[3] < Left[3] /\ 3 \in 1..5
      BY <1>2, <2>2, <3>4 DEF PhasesLeft
    <3> QED BY <1>1, <1>3, <3>5, LessAt
  <2>5. CASE Len(stack') = L
    <3>1. InProgress' = InProgress
      BY <2>1, <2>5 DEF InProgress
    <3>2. Unmet' = Unmet
      BY <2>2, <3>1 DEF Unmet, Targets
    <3>3. stack' # <<>>
      BY <2>5, EmptySeq
    <3>4. Top' = stack'[L] /\ Top = stack[L] /\ L \in 1..L
      BY <2>1, <2>5 DEF Top
    <3>5. /\ NextLeft = Len(Deps(stack[L].node)) + 1 - k
          /\ NextLeft' = Len(Deps(stack[L].node)) + 1 - (k + 1)
      BY <2>1, <2>2, <3>3, <3>4 DEF NextLeft, Deps
    <3>6. Len(Deps(stack[L].node)) \in Nat
      BY <2>1, RequestTyped DEF PlanType, Call
    <3>7. NextLeft' < NextLeft
      BY <3>5, <3>6
    <3>8. Left'[1] = Left[1] /\ Left'[2] = Left[2] /\ Left'[3] = Left[3] /\ Left'[4] = Left[4]
          /\ Left'[5] < Left[5] /\ 5 \in 1..5
      BY <1>2, <2>1, <2>2, <2>5, <3>2, <3>7 DEF PhasesLeft
    <3> QED BY <1>1, <1>3, <3>8, LessAt
  <2> QED BY <2>1, <2>4, <2>5
<1> QED BY <1>4, <1>5, <1>6, <1>7 DEF Next, Quiet

\* The planner does less and less, on any graph and for any command line: no
\* behaviour of it goes on for ever (NoEndlessDescent).
THEOREM PlannerAdvances == Spec => PlanningAdvances
<1>1. Init => LeftInv
  <2> SUFFICES ASSUME Init PROVE LeftInv
    OBVIOUS
  <2>1. \A n : n \notin 1..Len(stack)
    BY EmptySeq DEF Init
  <2> QED BY <2>1 DEF Init, LeftInv
<1>2. PlanType /\ LeftInv /\ WalkInv /\ Measured /\ Measured' /\ [Next]_vars
        => [Advance]_vars
  <2> SUFFICES ASSUME PlanType, LeftInv, WalkInv, Measured, Measured', Next
               PROVE  Advance
    OBVIOUS
  <2> QED BY StepLeavesLess DEF Measured, Advance
<1> QED BY <1>1, <1>2, SearchHolds, LeftInvHolds, LeftTyped, PTL DEF Spec, PlanningAdvances
=============================================================================
