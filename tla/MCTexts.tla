------------------------------ MODULE MCTexts ------------------------------
(***************************************************************************)
(* The texts of up to three characters that TLC codes: of a, <, the two    *)
(* Latin-1 characters 82 and E2, e acute, s caron, and the euro sign,      *)
(* whose bytes are E2 82 AC.                                               *)
(***************************************************************************)
EXTENDS SequencesExt

AllTexts == SeqOf({97, 60, 130, 226, 233, 353, 8364}, 3)
=============================================================================
