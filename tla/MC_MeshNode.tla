---------------------------- MODULE MC_MeshNode ----------------------------
(***************************************************************************)
(* Model-checking instances of MeshNode over three nodes A, B, C.          *)
(***************************************************************************)
EXTENDS MeshNode

CONSTANTS A, B, C   \* model values: the three nodes

MCNodes == {A, B, C}

\* All three hear each other: every DATA frame reaches its destination both
\* directly and relayed, so the dedup cache is exercised on every delivery.
TriangleLinks == {l \in MCNodes \X MCNodes : l[1] # l[2]}

\* A <-> B <-> C: A and C need B to relay (the spec's scenario S1).
LineLinks == {<<A, B>>, <<B, A>>, <<B, C>>, <<C, B>>}

\* In the triangle every permutation of the nodes is a symmetry.
TriangleSymmetry == Permutations(MCNodes)

=============================================================================
