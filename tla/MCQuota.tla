------------------------------- MODULE MCQuota -------------------------------
(***************************************************************************)
(* Instances of Quota for TLC.                                             *)
(***************************************************************************)
EXTENDS Quota, TLC

\* Jobs of a kind differ in nothing; neither do the senders not named.
JobSymmetry == Permutations(TextJobs) \union Permutations(AudioJobs)
===============================================================================
