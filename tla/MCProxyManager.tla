--------------------------- MODULE MCProxyManager ---------------------------
EXTENDS ProxyManagerProps, TLC

Symmetry == Permutations(Workers) \cup Permutations(Keys)
=============================================================================
