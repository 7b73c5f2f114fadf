--------------------------- MODULE MC_StreamFile ---------------------------
(* Model-checking instance of StreamFile: two labels, payloads of one and *)
(* two bytes (so events differ in length and a torn event can outlast the *)
(* one written over it), a one-byte header.                                *)
EXTENDS StreamFile

MCLabels   == {"a", "b"}
MCPayloads == {1, 2}
=============================================================================
