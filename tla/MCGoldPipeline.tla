--------------------------- MODULE MCGoldPipeline ---------------------------
(* Small instances of GoldPipeline: two incidents over a few days.         *)
EXTENDS GoldPipeline, TLC

KeySymmetry == Permutations(Keys)
=============================================================================
