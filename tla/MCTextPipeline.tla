---------------------------- MODULE MCTextPipeline ----------------------------
(***************************************************************************)
(* Instances of TextPipeline for TLC: the .cfg files give the constants    *)
(* their values, this module the symmetry they may use.                    *)
(***************************************************************************)
EXTENDS TextPipeline, TLC

\* Interchangeable processes; used where only safety is checked.
Interchangeable == Permutations(Processors) \union Permutations(Runners)
===============================================================================
