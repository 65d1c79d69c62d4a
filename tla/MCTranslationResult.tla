-------------------------- MODULE MCTranslationResult --------------------------
(***************************************************************************)
(* Instance of TranslationResult for TLC.                                  *)
(***************************************************************************)
EXTENDS TranslationResult, TLC

Interchangeable == Permutations(Workers)
===============================================================================
