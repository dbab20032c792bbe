---------------------------- MODULE Concatenation ----------------------------
(***************************************************************************)
(* The appending of one sequence after the other, for modules that Reading *)
(* takes in as instances.  SequencesExt has it as FlattenSeq, but all that *)
(* SequencesExt extends would come in once more with each of them, and     *)
(* stand in the way of the provers.                                        *)
(***************************************************************************)
EXTENDS Naturals, Sequences

Concatenation(s) ==
  IF Len(s) = 0 THEN s
  ELSE LET upto[k \in 1..Len(s)] == IF k = 1 THEN s[k] ELSE upto[k - 1] \o s[k]
       IN upto[Len(s)]
=============================================================================
