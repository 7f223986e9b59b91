------------------------------ MODULE MCVpnStore ------------------------------
\* The store of the pages on its own, for the claims TLC refutes.
EXTENDS VpnStore

=============================================================================
