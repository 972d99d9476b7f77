---------------------------- MODULE MCIngestion ----------------------------
(* Small instances of Uploads for TLC: one name is written with d1, of two  *)
(* chunks, or with d2, of which only the boilerplate of d1 is left; another *)
(* begins with it and has d3, which cannot be parsed.                       *)
EXTENDS Uploads, TLC

CONSTANTS j1, j2, d1, d2, d3, n, m, a, b, x, y

MCRow == {<<d1, a>>, <<d1, b>>, <<d2, a>>}
MCRowsOf == [d \in Doc |-> { r \in MCRow : r[1] = d }]
MCTextOf == [r \in MCRow |-> r[2]]
MCNodesOf == (a :> {x, y}) @@ (b :> {y})
MCEdgesOf == (a :> {<<x, y>>}) @@ (b :> {<<y, x>>})

MCContentsOf == (n :> {d1, d2}) @@ (m :> {d3})
MCUnder == (n :> {n, m}) @@ (m :> {m})
AnySet == SUBSET Doc

Symmetry == Permutations(Job)
=============================================================================
