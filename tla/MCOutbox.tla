------------------------------- MODULE MCOutbox -------------------------------
(***************************************************************************)
(* Instances of Outbox for TLC.                                            *)
(***************************************************************************)
EXTENDS Outbox, TLC

\* Replies differ in nothing, and neither do dispatchers.
Interchangeable == Permutations(Replies) \union Permutations(Dispatchers)
===============================================================================
