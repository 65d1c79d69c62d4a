------------------------------- MODULE TellOnce -------------------------------
(***************************************************************************)
(* What the outbox promises for every reply, whatever its dispatchers do   *)
(* to keep the promise: the recipient is shown it at most once; it is only *)
(* taken up again by those who know that it was not shown; and the word    *)
(* that it was sent, or was not, is true when it is given and stays true.  *)
(* Where nobody knows, the outbox says so, and leaves it at that.          *)
(***************************************************************************)
CONSTANTS
  Reply  \* replies

VARIABLES
  stage,  \* stage[r]: what the outbox says of the reply
  shown   \* shown[r]: how often the recipient was shown it, 0 or 1

Init ==
  /\ stage = [r \in Reply |-> "none"]
  /\ shown = [r \in Reply |-> 0]

Moves(r, from, to) ==
  /\ stage[r] = from
  /\ stage' = [stage EXCEPT ![r] = to]
  /\ UNCHANGED shown

Queue(r) == Moves(r, "none", "waiting")

Take(r) == shown[r] = 0 /\ Moves(r, "waiting", "sending")

\* The one time that the recipient is shown the reply.  It may come when the
\* outbox no longer expects it, but not after word was given.
Show(r) ==
  /\ stage[r] \in {"sending", "unknown"}
  /\ shown[r] = 0
  /\ shown' = [shown EXCEPT ![r] = 1]
  /\ UNCHANGED stage

GiveBack(r) == shown[r] = 0 /\ Moves(r, "sending", "waiting")

Report(r) ==
  IF shown[r] = 1 THEN Moves(r, "sending", "sent") ELSE Moves(r, "sending", "failed")

\* Nobody will find out any more what became of these.
GiveUp(rs) ==
  /\ \A r \in rs : stage[r] = "sending"
  /\ stage' = [r \in Reply |-> IF r \in rs THEN "unknown" ELSE stage[r]]
  /\ UNCHANGED shown

Next ==
  \/ \E r \in Reply : Queue(r) \/ Take(r) \/ Show(r) \/ GiveBack(r) \/ Report(r)
  \/ \E rs \in SUBSET Reply : GiveUp(rs)

Spec == Init /\ [][Next]_<<stage, shown>>
===============================================================================
