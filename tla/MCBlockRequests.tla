---------------------------- MODULE MCBlockRequests ----------------------------
\* Instances of BlockRequests for TLC.
EXTENDS BlockRequests, TLC

\* Peers and pieces are interchangeable.
Interchangeable == Permutations(Peers) \cup Permutations(Pieces)
=============================================================================
