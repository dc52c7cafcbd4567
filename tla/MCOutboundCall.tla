--------------------------- MODULE MCOutboundCall ---------------------------
EXTENDS OutboundCall, TLC
CONSTANTS h1, h2
Symmetry == Permutations({h1, h2})
=============================================================================
