----------------------------- MODULE MCFigures -----------------------------
(* Three cells in a row, two schemes, a short and a long window.           *)
EXTENDS Figures

MCNear(c) == CASE c = "a" -> {"b"} [] c = "b" -> {"a", "c"} [] c = "c" -> {"b"}

Report(c, d, t, k, h) == [cell |-> c, day |-> d, track |-> t, kind |-> k, hour |-> h]
MCReports == {Report("a", 1, "non_violent", "grave", 0), Report("c", 3, "violent", "petty", NoHour),
              Report("b", 4, "violent", "grave", 1)}

\* The retuned weights swap the two schemes'.
MCWeightOf(s, g, k) == IF k = "petty" THEN 1 ELSE IF (s = "area") = (g = 0) THEN 3 ELSE 2
MCArea(c)   == 1
MCPeople(c) == CASE c = "a" -> 2 [] c = "b" -> 0 [] c = "c" -> 2
MCPrior(s)  == 1
=============================================================================
