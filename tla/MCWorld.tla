------------------------------ MODULE MCWorld ------------------------------
EXTENDS World

Places12 == [side \in Sides |-> IF side = "TERRORIST" THEN 1 ELSE 2]

\* One along an axis, and one that is not.
Aims == {<<-1, 0>>, <<2, 1>>}

\* A wall whose corner is in the last column of its cell.
Walls == {[corner |-> <<5, 5>>, width |-> 6, height |-> 6]}

\* Terrorists in the corner, the others below the wall.
Zones == [side \in Sides |->
            IF side = "TERRORIST" THEN [x |-> 2, y |-> 12, width |-> 2, height |-> 2]
            ELSE [x |-> 11, y |-> 14, width |-> 2, height |-> 2]]
=============================================================================
