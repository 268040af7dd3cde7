------------------------- MODULE MCPacketDispatcher -------------------------
(* Readers are interchangeable: no action or invariant tells them apart.   *)
EXTENDS PacketDispatcher, TLC

ReaderSymmetry == Permutations(Readers)
=============================================================================
