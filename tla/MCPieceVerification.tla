------------------------ MODULE MCPieceVerification ------------------------
(* PieceVerification on small sets: the symmetries the safety runs use. *)
EXTENDS PieceVerification, TLC

Interchangeable ==
    Permutations(Peers) \cup Permutations(Blocks) \cup Permutations(Workers)
        \cup Permutations(Pieces)
=============================================================================
