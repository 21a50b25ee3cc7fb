--------------------------- MODULE MC_SenderThread ---------------------------
(* Model-checking instances of the sender thread and the engine.           *)
EXTENDS SenderThread

LargeOnly == {"RDMC"}
=============================================================================
