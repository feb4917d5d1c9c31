---------------------------- MODULE MCReedSolomon ----------------------------
(***************************************************************************)
(* The static context when a video block has the shape of an audio block:  *)
(* four data and two parity shards, which is what the host sends for a     *)
(* frame of four packets under 35 % repair.                                *)
(***************************************************************************)
EXTENDS ReedSolomon

MCShapes == {AudioShape}
=============================================================================
