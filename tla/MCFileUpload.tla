---------------------------- MODULE MCFileUpload ----------------------------
(* FileUpload for TLC.                                                     *)
EXTENDS FileUpload, TLC

PutSymmetry == Permutations(Puts)
=============================================================================
