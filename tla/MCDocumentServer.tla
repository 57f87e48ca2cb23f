-------------------------- MODULE MCDocumentServer ---------------------------
EXTENDS DocumentsRefinement, TLC

CONSTANTS b1, b2

WholeManifest == {{b1, b2}}
EveryManifest == {{b1}, {b2}, {b1, b2}}
DisjointManifests == {{b1}, {b2}}
Symmetry == Permutations(Requests) \cup Permutations(Blobs)
Interchangeable == Permutations(Requests) \cup Permutations(Tokens)
=============================================================================
