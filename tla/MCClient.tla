------------------------------- MODULE MCClient -------------------------------
\* One client, another player, and forms with one map, one match and two skins.
EXTENDS Client

Players == {1, 257}
Numbers == {65538}

===============================================================================
