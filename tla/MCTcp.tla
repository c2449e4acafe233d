------------------------------- MODULE MCTcp -------------------------------
EXTENDS Tcp
============================================================================
