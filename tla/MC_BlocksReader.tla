--------------------------- MODULE MC_BlocksReader ---------------------------
EXTENDS BlocksReader
=============================================================================
