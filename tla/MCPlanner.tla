----------------------------- MODULE MCPlanner -----------------------------
(***************************************************************************)
(* Four targets in every acyclic shape, with each skip and a few embedded   *)
(* ones; and some requests of other kinds: a cycle, unknown and excluded    *)
(* names, a skipped root, a root named twice.                              *)
(***************************************************************************)
EXTENDS Planner

MCName == {"a", "b", "c", "d", "e"}
Rank == [a |-> 1, b |-> 2, c |-> 3, d |-> 4, e |-> 5]
Known == {"a", "b", "c", "d"}

\* Dependency lists in rising order; `e` is never a dependency here.
Lower(t) == {x \in Known : Rank[x] < Rank[t]}
Listed(S) == SelectSeq(<<"a", "b", "c", "d", "e">>, LAMBDA x : x \in S)
Backwards(S) == SelectSeq(<<"e", "d", "c", "b", "a">>, LAMBDA x : x \in S)

None == [t \in MCName |-> {}]
Request(deps, embedded, roots, skips) ==
  [targets |-> Known, excluded |-> {},
   dependsOn |-> deps, skipDeps |-> embedded, roots |-> roots, skips |-> skips]

Shapes ==
  {[a |-> <<>>, b |-> Listed(B), c |-> Backwards(C), d |-> Listed(D), e |-> <<>>] :
     B \in SUBSET Lower("b"), C \in SUBSET Lower("c"), D \in SUBSET Lower("d")}

\* Each with nothing embedded, or one `^name` of a target that does not depend
\* on that name (graph::validate refuses the other case).
Embeddings(deps) ==
  {None} \cup
  {[None EXCEPT ![p[1]] = {p[2]}] :
     p \in {q \in {<<"d", "a">>, <<"c", "b">>, <<"c", "a">>, <<"b", "c">>} :
              q[2] \notin Elements(deps[q[1]])}}

Acyclics ==
  UNION {{Request(deps, embedded, roots, skips) :
            embedded \in Embeddings(deps),
            roots \in {<<"d">>, <<"c", "d">>, <<"d", "b">>},
            skips \in {<<>>, <<"a">>, <<"b">>, <<"c">>}} : deps \in Shapes}

ring == [a |-> <<"c">>, b |-> <<"a">>, c |-> <<"b", "a">>, d |-> <<"c">>, e |-> <<>>]
line == [a |-> <<>>, b |-> <<"a", "e">>, c |-> <<"b">>, d |-> <<"c">>, e |-> <<>>]

Others ==
  {Request(ring, None, <<"d">>, <<>>), Request(ring, None, <<"a", "d">>, <<"b">>),
   Request(line, None, <<"c", "c">>, <<>>), Request(line, None, <<"c">>, <<"c">>),
   Request(line, None, <<"c", "e">>, <<>>),
   [Request(line, None, <<"d", "e">>, <<>>) EXCEPT !.excluded = {"e"}],
   [Request(line, None, <<"d">>, <<>>) EXCEPT !.excluded = {"e"}]}

MCRequests == Acyclics \cup Others
=============================================================================
