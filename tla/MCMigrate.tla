----------------------------- MODULE MCMigrate -----------------------------
(* Two runs from three checkouts; a city of 60 rows, 1 of them untimed.    *)
EXTENDS Migrate

CONSTANTS area, percapita, day, evening, dateOnly

Old    == [files |-> <<1>>, csv |-> 1, enabled |-> {area}]
New    == [files |-> <<1, 2>>, csv |-> 2, enabled |-> {percapita}]
Edit   == [files |-> <<3, 2>>, csv |-> 2, enabled |-> {area, percapita}]

Checkouts == {Old, New, Edit}
RowCount == [c \in Classes |-> IF c = day THEN 40 ELSE IF c = evening THEN 19 ELSE 1]
=============================================================================
