----------------------------- MODULE MCImports -----------------------------
(* Imports for TLC, by itself. *)
EXTENDS Imports, MCWorlds
=============================================================================
