----------------------------- MODULE GraphCheck -----------------------------
(***************************************************************************)
(* graph::validate and detect_cycle (librake, graph.rs): a parsed Rakefile  *)
(* is refused for a reference to nothing, for a dependency it both asks for *)
(* and skips, and for a cycle, which the error spells out.  As in Planner   *)
(* the recursion is an explicit stack; it is the code's `path` and, as a    *)
(* set, its `in_path`.                                                     *)
(***************************************************************************)
EXTENDS Naturals, Sequences, FiniteSets

VARIABLES
  graph,    \* the target table
  phase,    \* which part of loading goes on; "references" and "cycles" are here
  verdict,  \* "pending", "valid" or the name of the error
  pos,      \* index in `declared` of the loop's next target
  visited,  \* targets fully explored
  stack,    \* the calls of detect_cycle under way: [node, next]
  cycle     \* what CircularDependency carries

graphVars == <<graph, phase, verdict, pos, visited, stack, cycle>>

Elements(seq) == {seq[n] : n \in 1..Len(seq)}
Known == Elements(graph.declared)
\* A target set aside has none.
Deps(t) == IF t \in Known THEN graph.dependsOn[t] ELSE <<>>

NoGraph == [declared |-> <<>>, excluded |-> {},
            dependsOn |-> [t \in {} |-> <<>>], skipDeps |-> [t \in {} |-> <<>>]]

GraphInit ==
  /\ graph = NoGraph /\ phase = "read" /\ verdict = "pending" /\ pos = 1
  /\ visited = {} /\ stack = <<>> /\ cycle = <<>>

-----------------------------------------------------------------------------
(* First loop: the references of each target.                              *)

\* Fault: a variant of another platform counts as unknown.
DanglingIfAbsent(d) == d \notin Known

\* A name that is neither a target nor a variant of another platform.
Dangling(d) == d \notin Known /\ d \notin graph.excluded

SkipConflicts(t, s) == s \in Known /\ s \in Elements(Deps(t))

\* The first skip in trouble decides which error it is.
SkipError(t) ==
  LET skips == graph.skipDeps[t]
      bad == {n \in 1..Len(skips) : Dangling(skips[n]) \/ SkipConflicts(t, skips[n])}
  IN IF bad = {} THEN "none"
     ELSE IF Dangling(skips[CHOOSE n \in bad : \A m \in bad : n <= m])
       THEN "UnknownDependency" ELSE "ConflictingDependency"

ReferenceError(t) ==
  IF \E d \in Elements(Deps(t)) : Dangling(d) THEN "UnknownDependency" ELSE SkipError(t)

CheckReferences ==
  /\ phase = "references" /\ pos <= Len(graph.declared)
  /\ LET error == ReferenceError(graph.declared[pos])
     IN IF error = "none"
          THEN pos' = pos + 1 /\ UNCHANGED <<phase, verdict>>
          ELSE verdict' = error /\ phase' = "done" /\ UNCHANGED pos
  /\ UNCHANGED <<graph, visited, stack, cycle>>

ReferencesDone ==
  /\ phase = "references" /\ pos > Len(graph.declared)
  /\ phase' = "cycles" /\ pos' = 1
  /\ UNCHANGED <<graph, verdict, visited, stack, cycle>>

-----------------------------------------------------------------------------
(* Second loop: depth-first search from each target.                       *)

InPath == {stack[n].node : n \in 1..Len(stack)}
Top == stack[Len(stack)]
Below == SubSeq(stack, 1, Len(stack) - 1)
Frame(t) == [node |-> t, next |-> 1]
Opens(t) == t \in Known /\ t \notin visited

StartTarget ==
  /\ phase = "cycles" /\ stack = <<>> /\ pos <= Len(graph.declared)
  /\ pos' = pos + 1
  /\ stack' = IF Opens(graph.declared[pos])
                THEN <<Frame(graph.declared[pos])>> ELSE <<>>
  /\ UNCHANGED <<graph, phase, verdict, visited, cycle>>

AtDependency == phase = "cycles" /\ stack # <<>> /\ Top.next <= Len(Deps(Top.node))
Dependency == Deps(Top.node)[Top.next]

Descend ==
  /\ AtDependency /\ Dependency \notin InPath
  /\ LET loop == Append(Below, [Top EXCEPT !.next = @ + 1])
     IN stack' = IF Opens(Dependency) THEN Append(loop, Frame(Dependency)) ELSE loop
  /\ UNCHANGED <<graph, phase, verdict, pos, visited, cycle>>

\* Fault: the whole path is reported, the way into the cycle included.
CycleFromStart == [n \in 1..Len(stack) |-> stack[n].node]

\* The path from the first occurrence of the dependency to its end.
CycleFound ==
  LET first == CHOOSE n \in 1..Len(stack) :
                 /\ stack[n].node = Dependency
                 /\ \A m \in 1..(n - 1) : stack[m].node # Dependency
  IN [n \in 1..(Len(stack) - first + 1) |-> stack[first + n - 1].node]

ReportCycle ==
  /\ AtDependency /\ Dependency \in InPath
  /\ cycle' = Append(CycleFound, Dependency)
  /\ verdict' = "CircularDependency" /\ phase' = "done"
  /\ UNCHANGED <<graph, pos, visited, stack>>

\* Fault: the search stays in the frame it has finished.
FinishWithoutReturn ==
  /\ phase = "cycles" /\ stack # <<>> /\ Top.next > Len(Deps(Top.node))
  /\ visited' = visited \cup {Top.node} /\ UNCHANGED stack
  /\ UNCHANGED <<graph, phase, verdict, pos, cycle>>

Finish ==
  /\ phase = "cycles" /\ stack # <<>> /\ Top.next > Len(Deps(Top.node))
  /\ visited' = visited \cup {Top.node} /\ stack' = Below
  /\ UNCHANGED <<graph, phase, verdict, pos, cycle>>

Accept ==
  /\ phase = "cycles" /\ stack = <<>> /\ pos > Len(graph.declared)
  /\ phase' = "tools"
  /\ UNCHANGED <<graph, verdict, pos, visited, stack, cycle>>

CheckGraph ==
  \/ CheckReferences \/ ReferencesDone \/ StartTarget \/ Descend \/ ReportCycle
  \/ Finish \/ Accept

-----------------------------------------------------------------------------
(* Properties.                                                             *)

Ranked ==
  \E rank \in [Known -> 1..Cardinality(Known)] :
    \A t \in Known : \A d \in Elements(Deps(t)) \cap Known : rank[d] < rank[t]

ReferencesSound ==
  \A t \in Known :
    /\ \A d \in Elements(Deps(t)) \cup Elements(graph.skipDeps[t]) :
         d \in Known \cup graph.excluded
    /\ Elements(Deps(t)) \cap Elements(graph.skipDeps[t]) \cap Known = {}

CycleIsReal ==
  /\ Len(cycle) > 1 /\ cycle[1] = cycle[Len(cycle)]
  /\ \A n \in 1..(Len(cycle) - 1) : cycle[n + 1] \in Elements(Deps(cycle[n]))
  /\ \A m, n \in 1..(Len(cycle) - 1) : cycle[m] = cycle[n] => m = n

\* A graph gets past graph::validate only if it has no cycle (its targets can be
\* ranked) and no dangling or contradictory reference; it is refused for a
\* reference only if there is such a one, and as circular only with the
\* evidence: a cycle that closes, follows dependencies and names no target twice.
VerdictIsExact ==
  /\ phase \in {"tools", "ready"} => Ranked /\ ReferencesSound
  /\ verdict \in {"UnknownDependency", "ConflictingDependency"} => ~ReferencesSound
  /\ verdict = "CircularDependency" => CycleIsReal
=============================================================================
