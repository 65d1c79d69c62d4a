--------------------------- MODULE MCAudioPipeline ---------------------------
(***************************************************************************)
(* Instances of AudioPipeline for TLC: who sends which recording.          *)
(***************************************************************************)
EXTENDS AudioPipeline, TLC

CONSTANTS m1, m2, u1, j1, j2, r1

\* One sender sends one recording twice.
SameJob == m1 :> j1 @@ m2 :> j1

\* One sender sends it as a voice note and uploads it.
NoteAndUpload == m1 :> j1 @@ u1 :> j1
OneFile == j1 :> r1

\* Two voice notes of two senders.
TwoJobs == m1 :> j1 @@ m2 :> j2

\* They are the same recording.
SharedFile == j1 :> r1 @@ j2 :> r1

\* Rows of the same age: ReconcileInbound may take them in any order.
SameAge == [m \in Notes |-> 0]

\* The first note is the older one.
FirstIsOlder == m1 :> 1 @@ m2 :> 2

\* Interchangeable processes; used where only safety is checked.
Interchangeable == Permutations(Processors) \union Permutations(Workers)

\* Voice notes with the same recording are interchangeable too.
InterchangeableNotes == Interchangeable \union Permutations(Notes)
===============================================================================
