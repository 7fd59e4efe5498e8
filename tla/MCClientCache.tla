--------------------------- MODULE MCClientCache ---------------------------
EXTENDS ClientCache
=============================================================================
