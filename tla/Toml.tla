-------------------------------- MODULE Toml --------------------------------
(***************************************************************************)
(* A TOML value is a table, with its keys in order, or a leaf: a scalar or  *)
(* an array, whose inside neither the merge nor the variants enter.  A leaf *)
(* has one field, named for its kind.                                      *)
(***************************************************************************)
EXTENDS Naturals, Sequences

CONSTANT Depth   \* how deep the tables of a file nest at most

Leaf(kind, value) == [k \in {kind} |-> value]
Table(keys, at) == [keys |-> keys, at |-> at]
IsTable(value) == "keys" \in DOMAIN value
Keys(value) == IF IsTable(value) THEN DOMAIN value.at ELSE {}
EmptyTable == Table(<<>>, [k \in {} |-> {}])

\* The members of S that seq has, in their order.
Only(seq, S) ==
  LET kept[n \in 0..Len(seq)] ==
        IF n = 0 THEN <<>>
        ELSE IF seq[n] \in S THEN Append(kept[n - 1], seq[n]) ELSE kept[n - 1]
  IN  kept[Len(seq)]

\* What a path of keys leads to, and the paths that lead anywhere.
At(value, path) ==
  LET reached[n \in 0..Len(path)] == IF n = 0 THEN value ELSE reached[n - 1].at[path[n]]
  IN  reached[Len(path)]

Paths(value) ==
  LET level[n \in 0..Depth] ==
        IF n = 0 THEN {<<>>}
        ELSE UNION {{Append(path, k) : k \in Keys(At(value, path))} : path \in level[n - 1]}
  IN  UNION {level[n] : n \in 0..Depth}
=============================================================================
