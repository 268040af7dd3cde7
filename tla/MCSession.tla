------------------------------ MODULE MCSession ------------------------------
(* Sessions are interchangeable, and so are the two servers.               *)
EXTENDS Session, TLC

Symmetry == Permutations(Sessions) \cup Permutations(Servers)
=============================================================================
