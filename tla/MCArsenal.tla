----------------------------- MODULE MCArsenal -----------------------------
EXTENDS Arsenal

\* config.yaml has 270 and 500, and a player begins with 500.
Prices == [model \in Catalog |-> IF model = AWP THEN 3 ELSE 2]
OnTheMap == <<AWP>>
=============================================================================
