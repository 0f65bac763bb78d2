------------------------------ MODULE Planner ------------------------------
(***************************************************************************)
(* graph::execution_order_with_skips (librake, graph.rs): from the validated *)
(* targets of a Rakefile, the roots and the skips of the command line to    *)
(* the steps of the run, or to an error before anything runs.               *)
(*                                                                         *)
(* The recursion of order_visit is an explicit stack here: a frame is a     *)
(* call that has not returned, with the index of its next dependency, so    *)
(* the code's in_progress set is the set of the nodes on the stack.         *)
(***************************************************************************)
EXTENDS Naturals, Sequences, FiniteSets

CONSTANTS
  Name,      \* target names, known or not
  Requests   \* a set of Rakefiles with a command line, see RequestOK

RequestOK(r) ==
  /\ r.targets \subseteq Name /\ IsFiniteSet(r.targets)
  /\ r.excluded \subseteq Name \ r.targets  \* variants of other platforms only
  /\ r.dependsOn \in [Name -> Seq(Name)]
  /\ r.skipDeps \in [Name -> SUBSET Name]   \* the `^name` entries of depends_on
  /\ r.roots \in Seq(Name) /\ r.skips \in Seq(Name)

ASSUME RequestsAssumption == \A r \in Requests : RequestOK(r)

VARIABLES
  req,      \* the request
  phase,    \* "names", "full", "embedded", "kept", "eligible" or "done"
  verdict,  \* "pending", "planned" or the name of the error
  root,     \* number of roots whose walk has begun
  visited,  \* order_visit's set for the current root
  stack,    \* the calls of order_visit under way: [node, next]
  order,    \* the targets of the walk so far
  full,     \* full_order
  skipSet,  \* cli_skip_set
  steps,    \* the plan
  from      \* history: how long `order` was when the current root's walk began

vars ==
  <<req, phase, verdict, root, visited, stack, order, full, skipSet, steps, from>>
walk == <<root, visited, stack, order, from>>

Elements(seq) == {seq[n] : n \in 1..Len(seq)}
Roots == Elements(req.roots)
Skips == Elements(req.skips)
Deps(t) == req.dependsOn[t]

Init ==
  /\ req \in Requests /\ phase = "names" /\ verdict = "pending"
  /\ root = 0 /\ visited = {} /\ stack = <<>> /\ order = <<>>
  /\ full = <<>> /\ skipSet = {} /\ steps = <<>> /\ from = 0

-----------------------------------------------------------------------------
(* Every root and every skip must be a target of this host.                *)

Named == req.roots \o req.skips
FirstUnknown ==
  CHOOSE n \in 1..Len(Named) :
    /\ Named[n] \notin req.targets
    /\ \A m \in 1..(n - 1) : Named[m] \in req.targets

NamesKnown ==
  /\ phase = "names" /\ Elements(Named) \subseteq req.targets /\ phase' = "full"
  /\ UNCHANGED <<req, verdict, walk, full, skipSet, steps>>

NamesUnknown ==
  /\ phase = "names" /\ ~(Elements(Named) \subseteq req.targets)
  /\ verdict' = IF Named[FirstUnknown] \in req.excluded
                  THEN "TargetNotAvailableOnPlatform" ELSE "UnknownTarget"
  /\ phase' = "done"
  /\ UNCHANGED <<req, walk, full, skipSet, steps>>

-----------------------------------------------------------------------------
(* build_order: one walk of order_visit per root, over the full graph first *)
(* and then without the skipped targets.                                   *)

Walking == phase \in {"full", "kept"}
Avoided == IF phase = "kept" THEN skipSet ELSE {}
InProgress == {stack[n].node : n \in 1..Len(stack)}
Top == stack[Len(stack)]
Below == SubSeq(stack, 1, Len(stack) - 1)
Frame(t) == [node |-> t, next |-> 1]
Visits(t) == t \notin Avoided /\ t \in req.targets

\* Fault: one visited set for the whole run.
StartRootKeepsVisited ==
  /\ Walking /\ stack = <<>> /\ root < Len(req.roots)
  /\ root' = root + 1 /\ visited' = visited /\ from' = Len(order)
  /\ stack' = IF Visits(req.roots[root + 1]) /\ req.roots[root + 1] \notin visited
                THEN <<Frame(req.roots[root + 1])>> ELSE <<>>
  /\ UNCHANGED <<req, phase, verdict, order, full, skipSet, steps>>

\* Fresh visited and in_progress per root.
StartRoot ==
  /\ Walking /\ stack = <<>> /\ root < Len(req.roots)
  /\ root' = root + 1 /\ visited' = {} /\ from' = Len(order)
  /\ stack' = IF Visits(req.roots[root + 1])
                THEN <<Frame(req.roots[root + 1])>> ELSE <<>>
  /\ UNCHANGED <<req, phase, verdict, order, full, skipSet, steps>>

\* Fault: only the calls under way are looked at, not the finished ones.
DescendAgain ==
  /\ Walking /\ stack # <<>> /\ Top.next <= Len(Deps(Top.node))
  /\ LET dep == Deps(Top.node)[Top.next]
         loop == Append(Below, [Top EXCEPT !.next = @ + 1])
     IN stack' = IF Visits(dep) /\ dep \notin InProgress
                   THEN Append(loop, Frame(dep)) ELSE loop
  /\ UNCHANGED <<req, phase, verdict, root, visited, order, full, skipSet, steps,
                 from>>

\* Fault: the loop does not move on to the next dependency.
DescendStuck ==
  /\ Walking /\ stack # <<>> /\ Top.next <= Len(Deps(Top.node))
  /\ LET dep == Deps(Top.node)[Top.next]
     IN stack' = IF Visits(dep) /\ dep \notin visited \cup InProgress
                   THEN Append(stack, Frame(dep)) ELSE stack
  /\ UNCHANGED <<req, phase, verdict, root, visited, order, full, skipSet, steps,
                 from>>

\* The loop over depends_on calls order_visit on the next dependency, which
\* returns at once for a skipped, missing or already seen target.
Descend ==
  /\ Walking /\ stack # <<>> /\ Top.next <= Len(Deps(Top.node))
  /\ LET dep == Deps(Top.node)[Top.next]
         loop == Append(Below, [Top EXCEPT !.next = @ + 1])
     IN stack' = IF Visits(dep) /\ dep \notin visited \cup InProgress
                   THEN Append(loop, Frame(dep)) ELSE loop
  /\ UNCHANGED <<req, phase, verdict, root, visited, order, full, skipSet, steps,
                 from>>

\* After its dependencies the target itself is visited and appended.
Finish ==
  /\ Walking /\ stack # <<>> /\ Top.next > Len(Deps(Top.node))
  /\ visited' = visited \cup {Top.node} /\ order' = Append(order, Top.node)
  /\ stack' = Below
  /\ UNCHANGED <<req, phase, verdict, root, full, skipSet, steps, from>>

WalkDone == Walking /\ stack = <<>> /\ root = Len(req.roots)

FullDone ==
  /\ WalkDone /\ phase = "full" /\ phase' = "embedded" /\ full' = order
  /\ root' = 0 /\ order' = <<>> /\ from' = 0
  /\ UNCHANGED <<req, verdict, visited, stack, skipSet, steps>>

KeptDone ==
  /\ WalkDone /\ phase = "kept" /\ phase' = "eligible"
  /\ UNCHANGED <<req, verdict, walk, full, skipSet, steps>>

-----------------------------------------------------------------------------
(* The embedded skips of every target of the full graph join the skips of   *)
(* the command line; a root wins over an embedded skip.                     *)

\* Fault: an embedded skip of a root is honoured.
CollectSkipsOfRoots ==
  /\ phase = "embedded" /\ phase' = "kept"
  /\ skipSet' = Skips \cup
       ((UNION {req.skipDeps[t] : t \in Elements(full)}) \cap req.targets)
  /\ UNCHANGED <<req, verdict, walk, full, steps>>

CollectSkips ==
  /\ phase = "embedded" /\ phase' = "kept"
  /\ skipSet' = Skips \cup
       (((UNION {req.skipDeps[t] : t \in Elements(full)}) \cap req.targets) \ Roots)
  /\ UNCHANGED <<req, verdict, walk, full, steps>>

\* Fault: only a dependent that is itself skipped is looked for.
EligibleAlways ==
  \A t \in Elements(order) \cap Skips : Elements(Deps(t)) \cap Skips = {}

\* A target that is no root and still runs must not depend on a skip of the
\* command line.
Eligible ==
  \A t \in Elements(order) \ Roots : Elements(Deps(t)) \cap Skips = {}

SkipRefused ==
  /\ phase = "eligible" /\ ~Eligible
  /\ verdict' = "SkipNotAllowed" /\ phase' = "done"
  /\ UNCHANGED <<req, walk, full, skipSet, steps>>

StepOf(t) == [kind |-> IF t \in skipSet THEN "Skip" ELSE "Run", target |-> t]
Remains(t) == t \in skipSet \cup Elements(order)
Kept[n \in 0..Len(full)] ==
  IF n = 0 THEN <<>>
  ELSE IF Remains(full[n]) THEN Append(Kept[n - 1], full[n]) ELSE Kept[n - 1]
KeptTargets == Kept[Len(full)]

MakeSteps ==
  /\ phase = "eligible" /\ Eligible
  /\ verdict' = "planned" /\ phase' = "done"
  /\ steps' = [n \in 1..Len(KeptTargets) |-> StepOf(KeptTargets[n])]
  /\ UNCHANGED <<req, walk, full, skipSet>>

Next ==
  \/ NamesKnown \/ NamesUnknown \/ StartRoot \/ Descend \/ Finish
  \/ FullDone \/ CollectSkips \/ KeptDone \/ SkipRefused \/ MakeSteps

Spec == Init /\ [][Next]_vars /\ WF_vars(Next)

-----------------------------------------------------------------------------
(* Properties.                                                             *)

Targets == req.targets
Edges(t) == Elements(Deps(t)) \cap Targets

\* What a walk from S that avoids A reaches: the least set that holds S \ A and
\* is closed under dependencies outside A.
Closed(C, S, A) == S \ A \subseteq C /\ \A t \in C : Edges(t) \ A \subseteq C
Reach(S, A) ==
  {t \in Targets : \A C \in SUBSET Targets : Closed(C, S \cap Targets, A) => t \in C}

\* `graph::validate` accepts only targets without a cycle: some ranking puts each
\* dependency below its dependent.
Acyclic ==
  \E rank \in [Targets -> 1..Cardinality(Targets)] :
    \A t \in Targets : \A d \in Edges(t) : rank[d] < rank[t]

Segment == SubSeq(order, from + 1, Len(order))

\* The walk of one root never yields a target twice, however many dependents
\* share it, and on a validated graph it yields a target after each dependency.
SegmentInOrder ==
  Walking =>
    /\ \A m, n \in 1..Len(Segment) : Segment[m] = Segment[n] => m = n
    /\ Acyclic =>
         \A n \in 1..Len(Segment) : \A d \in Edges(Segment[n]) \ Avoided :
           \E m \in 1..(n - 1) : Segment[m] = d

\* When the walk of a root returns it has yielded exactly what the root needs
\* outside the skips, and the root last; also on a graph with a cycle.
SegmentComplete ==
  Walking /\ stack = <<>> /\ root > 0 =>
    /\ Elements(Segment) = Reach({req.roots[root]}, Avoided)
    /\ Segment # <<>> => Segment[Len(Segment)] = req.roots[root]

\* No target runs ahead of a prerequisite: each dependency of a target that runs
\* has run before it or is a skip; a skip of the command line only for a root.
PlanHonoursDependencies ==
  verdict = "planned" /\ Acyclic =>
    \A n \in 1..Len(steps) : steps[n].kind = "Run" =>
      \A d \in Edges(steps[n].target) :
        \/ \E m \in 1..(n - 1) : steps[m] = [kind |-> "Run", target |-> d]
        \/ d \in skipSet /\ (d \in Skips => steps[n].target \in Roots)

\* What runs is what the roots still need once the skips are taken out, what is
\* announced as skipped is what they would have needed; a root runs unless the
\* command line itself skips it; and the plan is refused only for a target that
\* would have run without a prerequisite.
PlanRunsWhatRemains ==
  LET remaining == Reach(Roots, skipSet)
  IN /\ verdict = "planned" =>
          /\ {s.target : s \in {x \in Elements(steps) : x.kind = "Run"}} = remaining
          /\ {s.target : s \in {x \in Elements(steps) : x.kind = "Skip"}}
               = skipSet \cap Reach(Roots, {})
          /\ Roots \ Skips \subseteq remaining
     /\ verdict = "SkipNotAllowed" =>
          \E t \in remaining \ Roots : Edges(t) \cap Skips # {}

\* Planning ends, also on a graph with a cycle (the in_progress guard).
PlanningEnds == <>(phase = "done")

(* A statement of the repository that a run refutes.                       *)

\* README: a target that depends on one without a variant for this host fails.
ExcludedDependencyFails ==
  verdict = "planned" =>
    \A s \in Elements(steps) : s.kind = "Run" =>
      Elements(Deps(s.target)) \cap req.excluded = {}
=============================================================================
