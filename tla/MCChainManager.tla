--------------------------- MODULE MCChainManager ---------------------------
EXTENDS ChainManager, TLC

\* Authors are all alike, and so are keys.
AnyAuthorAnyKey == {p @@ q : p \in Permutations(Author), q \in Permutations(Keys)}

=============================================================================
