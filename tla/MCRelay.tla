------------------------------ MODULE MCRelay ------------------------------
EXTENDS Relay

CONSTANTS o1, o2, t
=============================================================================
