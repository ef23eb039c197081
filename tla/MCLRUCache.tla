----------------------------- MODULE MCLRUCache -----------------------------
EXTENDS LRUCache, TLC

NodeBodySymmetry == Permutations(Nodes) \cup Permutations(Bodies)
=============================================================================
