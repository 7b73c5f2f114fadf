------------------------------- MODULE MC_DB -------------------------------
(* Model-checking instance of DB.                                          *)
EXTENDS DB
=============================================================================
