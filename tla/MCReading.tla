------------------------------ MODULE MCReading ------------------------------
(* Reading for TLC: the texts, documents and schemas of the modules named. *)
EXTENDS MCNames, MCSchemas, MCTexts

AllWsdls == Calls \cup Interfaces
=============================================================================
