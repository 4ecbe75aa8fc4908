---------------------------- MODULE MCReconnector ----------------------------
(***************************************************************************)
(* Instances of Reconnector for TLC: one share and two paths, so that a    *)
(* mount made by hand and one made by SMBPal can stand side by side.       *)
(***************************************************************************)
EXTENDS Reconnector, TLC

\* Nothing tells one path below /Volumes from another.
SpotsAreAlike == Permutations(Spots)
=============================================================================
