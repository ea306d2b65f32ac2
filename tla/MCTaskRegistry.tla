--------------------------- MODULE MCTaskRegistry ---------------------------
EXTENDS TaskRegistry
=============================================================================
