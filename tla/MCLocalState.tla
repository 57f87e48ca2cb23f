---------------------------- MODULE MCLocalState -----------------------------
EXTENDS LocalState, TLC

Interchangeable ==
  Permutations(Slugs) \cup Permutations(Manifests) \cup Permutations(Commands)
=============================================================================
