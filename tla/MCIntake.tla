-------------------------------- MODULE MCIntake --------------------------------
(***************************************************************************)
(* Instance of Intake for TLC: one sender with a voice note, a code that   *)
(* cannot be saved while the codes are broken, and a malformed message.    *)
(***************************************************************************)
EXTENDS Intake, TLC

CONSTANTS voice, code, garbage, submissions, registrations, b1, b2

MCContentOf ==
  voice :> "audio" @@ code :> "permitted" @@ garbage :> "malformed"

MCBatchOf ==
  b1 :> <<code, voice>> @@ b2 :> <<voice, garbage>>

MCKeyOf == [m \in Messages |-> IF m = code THEN registrations ELSE submissions]

\* The processors are interchangeable; only safety is checked.
Interchangeable == Permutations(Processors)

MCLimitOf == submissions :> 1 @@ registrations :> 1
===============================================================================
