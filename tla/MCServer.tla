------------------------------ MODULE MCServer ------------------------------
\* The server with few clients, for the model checker.  The first match created is
\* for one player, the second for two.
EXTENDS Server

PlacesTyped == [m \in 1 .. MaxMatches |-> m]

=============================================================================
