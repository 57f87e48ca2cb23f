---------------------------- MODULE MCPurgeQueue -----------------------------
EXTENDS PurgeQueue

Interchangeable == Permutations(Slugs) \cup Permutations(Inlines)
=============================================================================
