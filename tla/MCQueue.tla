------------------------------- MODULE MCQueue -------------------------------
EXTENDS Queue
=============================================================================
