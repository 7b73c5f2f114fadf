---------------------------- MODULE MC_DBReader ----------------------------
EXTENDS DBReader
============================================================================
