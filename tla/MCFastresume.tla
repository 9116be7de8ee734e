-------------------------- MODULE MCFastresume --------------------------
(* Two torrents, interchangeable in the safety runs. *)
EXTENDS Fastresume, TLC

Symmetry == Permutations(Torrents)
===========================================================================
