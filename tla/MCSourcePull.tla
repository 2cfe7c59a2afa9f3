---------------------------- MODULE MCSourcePull ----------------------------
(* Two parts and three incidents.                                          *)
EXTENDS SourcePull

CONSTANTS a, b, i1, i2, i3

PartsOfPull == <<a, b>>
ByName == <<b, a>>
AtFirst == (a :> <<i1, i2>>) @@ (b :> <<i3>>)
=============================================================================
