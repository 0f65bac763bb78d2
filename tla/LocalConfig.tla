----------------------------- MODULE LocalConfig -----------------------------
(***************************************************************************)
(* local_config.rs: the personal layer .rake/config.toml is merged onto the *)
(* Rakefile before anything looks at either.                               *)
(***************************************************************************)
EXTENDS Toml

\* The keys of a merged table: those of the base keep their places.
MergedKeys(mine, theirs) ==
  mine.keys \o Only(theirs.keys, DOMAIN theirs.at \ DOMAIN mine.at)

\* Fault: only the top level is merged key by key.
MergeShallow(base, over) ==
  IF ~(IsTable(base) /\ IsTable(over)) THEN over
  ELSE Table(MergedKeys(base, over),
             [k \in DOMAIN base.at \cup DOMAIN over.at |->
                IF k \in DOMAIN over.at THEN over.at[k] ELSE base.at[k]])

\* Tables merge key by key, at any depth; any other pair is replaced.  The
\* recursion is over the paths both sides have.
Merge(base, over) ==
  LET merged[path \in Paths(base) \cap Paths(over)] ==
        LET mine == At(base, path)  theirs == At(over, path)
        IN IF ~(IsTable(mine) /\ IsTable(theirs)) THEN theirs
           ELSE Table(MergedKeys(mine, theirs),
                      [k \in DOMAIN mine.at \cup DOMAIN theirs.at |->
                         IF k \notin DOMAIN theirs.at THEN mine.at[k]
                         ELSE IF k \notin DOMAIN mine.at THEN theirs.at[k]
                         ELSE merged[Append(path, k)]])
  IN  merged[<<>>]

-----------------------------------------------------------------------------
(* What RFC 7386 asks of the merged value, without recursion over both:     *)
(* each path has what the upper layer says of it, unless that is silent.    *)

Shape(value, path) ==
  IF path \notin Paths(value) THEN [absent |-> TRUE]
  ELSE IF IsTable(At(value, path)) THEN [table |-> TRUE] ELSE At(value, path)

\* A leaf of `over` is in the way of whatever `base` has below it.
Covered(over, path) ==
  \E n \in 0..(Len(path) - 1) :
    LET above == SubSeq(path, 1, n)
    IN above \in Paths(over) /\ ~IsTable(At(over, above))

IsMergePatch(base, over, merged) ==
  \A path \in Paths(base) \cup Paths(over) \cup Paths(merged) :
    Shape(merged, path) =
      IF path \in Paths(over) THEN Shape(over, path)
      ELSE IF Covered(over, path) THEN [absent |-> TRUE] ELSE Shape(base, path)
=============================================================================
