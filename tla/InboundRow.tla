------------------------------ MODULE InboundRow ------------------------------
(***************************************************************************)
(* One row of the table whatsapp_inbound_messages and the writes every     *)
(* component makes to it.  A row is the durable state of one inbound       *)
(* WhatsApp message:                                                       *)
(*                                                                         *)
(*   status    the column status; "ABSENT" is "no such row"                *)
(*   attempts  attempt_count                                               *)
(*   due       next_attempt_at is not NULL.  A back-off that has not run   *)
(*             out is an action that has not happened yet, so only NULL    *)
(*             against not NULL is kept.                                   *)
(*   stale     processing_started_at is more than five minutes old         *)
(*                                                                         *)
(* "FAILED" has two meanings in this table, told apart by due: waiting for *)
(* a retry (due) and failed for good (not due).                            *)
(***************************************************************************)
EXTENDS Naturals

\* What the column status can hold, plus "ABSENT" for a row not inserted yet.
InboundStatuses ==
  {"ABSENT", "PENDING", "PROCESSING", "COMPLETED", "FAILED"}

\* Rows whose attempt_count is at most max.
InboundRows(max) ==
  [status : InboundStatuses, attempts : 0..max, due : BOOLEAN, stale : BOOLEAN]

NoRow == [status |-> "ABSENT", attempts |-> 0, due |-> FALSE, stale |-> FALSE]

\* The row SaveInbound inserts, with the defaults of the schema.
NewRow == [status |-> "PENDING", attempts |-> 0, due |-> TRUE, stale |-> FALSE]

\* Mutant: a message to retry is not picked up.
MutWaitingNew(row) == row.status = "PENDING" /\ row.due

\* The row is waiting to be picked up: first disjunct of ClaimInbound.
Waiting(row) == row.status \in {"PENDING", "FAILED"} /\ row.due

\* The row was picked up more than five minutes ago.
Abandoned(row) == row.status = "PROCESSING" /\ row.stale

\* Nothing will ever pick the row up again.
Settled(row) == row.status = "COMPLETED" \/ (row.status = "FAILED" /\ ~row.due)

\* The UPDATE of ClaimInbound.
ClaimedRow(row) ==
  [status |-> "PROCESSING", attempts |-> row.attempts + 1,
   due |-> FALSE, stale |-> FALSE]

\* Mutant: without AND status = 'PROCESSING'.
MutRetriedRow(row) ==
  [row EXCEPT !.status = "FAILED", !.due = TRUE, !.stale = FALSE]

\* The UPDATE of RetryInbound; it has WHERE status = 'PROCESSING'.
RetriedRow(row) ==
  IF row.status = "PROCESSING"
  THEN [row EXCEPT !.status = "FAILED", !.due = TRUE, !.stale = FALSE]
  ELSE row

\* Every UPDATE that ends a message well clears the timestamps ...
CompletedRow(row) ==
  [row EXCEPT !.status = "COMPLETED", !.due = FALSE, !.stale = FALSE]

\* ... and so does every UPDATE that ends it with a failure for good.
FailedRow(row) ==
  [row EXCEPT !.status = "FAILED", !.due = FALSE, !.stale = FALSE]
===============================================================================
