-------------------------------- MODULE Webhook --------------------------------
(***************************************************************************)
(* POST /webhook: WhatsApp delivers a batch of messages, again and again   *)
(* until it is told 200; the handler saves the batch message by message,   *)
(* each in a transaction of its own, and stops with 503 at the first that  *)
(* it cannot save.  A text of exactly four digits is a registration code:  *)
(* what is saved is what the code stands for at that moment, never the     *)
(* code.                                                                   *)
(*                                                                         *)
(* Left out: the signature, the size limit and the GET that verifies the   *)
(* endpoint; a delivery that fails them changes nothing.                   *)
(***************************************************************************)
EXTENDS InboundRow, Sequences, FiniteSets

CONSTANTS
  Messages,       \* provider message ids
  ContentOf,      \* [Messages -> Contents]
  Deliveries,     \* the batches WhatsApp posts
  BatchOf,        \* [Deliveries -> Seq(Messages)]
  Requests,       \* requests the API serves at a time
  IntakeAttempts  \* attempts of the intake loop at a message

\* What a message of the payload is: a code says which of the two it is, or that
\* it is none; "unsavable" breaks a CHECK of whatsapp_inbound_messages (a blank
\* text, no media id, a sender that starts with 0); "malformed" has no id, no
\* type or no digits as its sender.
Codes == {"permitted", "recruiter", "wrong"}

MessageContents == Codes \union {"text", "audio", "other", "unsavable", "malformed"}

ASSUME WebhookAssumption ==
  /\ ContentOf \in [Messages -> MessageContents]
  /\ BatchOf \in [Deliveries -> Seq(Messages)]
  /\ IntakeAttempts \in Nat \ {0}

VARIABLES
  inbound,   \* [Messages -> rows of whatsapp_inbound_messages]
  type,      \* their message_type
  codes,     \* the registration codes the API was started with
  request,   \* what each request of the API has done
  delivered  \* deliveries WhatsApp was told 200 for

webhookVars == <<inbound, type, codes, request, delivered>>

Types == {"none", "text", "audio", "other", "registration_permitted",
          "registration_recruiter", "registration_invalid"}

\* As they should be, replaced by others since, and not two distinct codes.
CodeSettings == {"valid", "replaced", "broken"}

NoRequest == [state |-> "idle"]

Request == {NoRequest} \union
  UNION {[state : {"saving"}, delivery : {d}, saved : 0..Len(BatchOf[d])] :
           d \in Deliveries}

-------------------------------------------------------------------------------
InitWebhook ==
  /\ inbound = [m \in Messages |-> NoRow]
  /\ type = [m \in Messages |-> "none"]
  /\ codes \in CodeSettings
  /\ request = [r \in Requests |-> NoRequest]
  /\ delivered = {}

\* ParsePayload: one malformed message makes it refuse the whole batch.
Parsed(d) ==
  \A i \in DOMAIN BatchOf[d] : ContentOf[BatchOf[d][i]] # "malformed"

\* The type under which a message is saved; codes.RoleFor has to know it.
Classified(content) ==
  CASE content \in Codes ->
         IF codes = "valid" /\ content = "permitted" THEN "registration_permitted"
         ELSE IF codes = "valid" /\ content = "recruiter"
              THEN "registration_recruiter" ELSE "registration_invalid"
    [] content \notin Codes -> content

Classifiable(content) == content \in Codes => codes # "broken"

\* Mutant: a message that is there already is written over.
MutConflictDoesNothing(m) == FALSE

\* ON CONFLICT (whatsapp_message_id) DO NOTHING.
ConflictDoesNothing(m) == inbound[m].status # "ABSENT"

\* SaveInbound of a row that breaks no CHECK.
SaveInbound(m) ==
  IF ConflictDoesNothing(m) THEN UNCHANGED <<inbound, type>>
  ELSE /\ inbound' = [inbound EXCEPT ![m] = NewRow]
       /\ type' = [type EXCEPT ![m] = Classified(ContentOf[m])]

\* WhatsApp posts a batch, for the first time or again: it was not told 200, or
\* does not care.
Deliver(r, d) ==
  /\ request[r] = NoRequest
  /\ Parsed(d)
  /\ request' = [request EXCEPT ![r] =
       [state |-> "saving", delivery |-> d, saved |-> 0]]
  /\ UNCHANGED <<inbound, type, codes, delivered>>

\* The message a request comes to next.
Saving(r) == request[r].state = "saving"

Complete(r) == Saving(r) /\ request[r].saved = Len(BatchOf[request[r].delivery])

NextMessage(r) == BatchOf[request[r].delivery][request[r].saved + 1]

CanSave(m) == Classifiable(ContentOf[m]) /\ ContentOf[m] # "unsavable"

SaveNext(r) ==
  /\ Saving(r) /\ ~Complete(r)
  /\ CanSave(NextMessage(r))
  /\ SaveInbound(NextMessage(r))
  /\ request' = [request EXCEPT ![r].saved = @ + 1]
  /\ UNCHANGED <<codes, delivered>>

\* Mutant: the handler goes on with the next message.
MutUnavailable(r) == [request[r] EXCEPT !.saved = @ + 1]

\* 503, and the rest of the batch is not looked at.
Unavailable(r) == NoRequest

RefuseNext(r) ==
  /\ Saving(r) /\ ~Complete(r)
  /\ ~CanSave(NextMessage(r))
  /\ request' = [request EXCEPT ![r] = Unavailable(r)]
  /\ UNCHANGED <<inbound, type, codes, delivered>>

\* The database cannot be reached, the API stops, the answer is lost.
AbandonRequest(r) ==
  /\ Saving(r)
  /\ request' = [request EXCEPT ![r] = NoRequest]
  /\ UNCHANGED <<inbound, type, codes, delivered>>

Acknowledge(r) ==
  /\ Complete(r)
  /\ delivered' = delivered \union {request[r].delivery}
  /\ request' = [request EXCEPT ![r] = NoRequest]
  /\ UNCHANGED <<inbound, type, codes>>

\* The API is started again with other codes; its requests are lost.
Reconfigure(setting) ==
  /\ codes # setting
  /\ codes' = setting
  /\ request' = [r \in Requests |-> NoRequest]
  /\ UNCHANGED <<inbound, type, delivered>>

WebhookNext ==
  \/ \E r \in Requests :
       \/ \E d \in Deliveries : Deliver(r, d)
       \/ SaveNext(r) \/ RefuseNext(r) \/ AbandonRequest(r) \/ Acknowledge(r)
  \/ \E setting \in CodeSettings : Reconfigure(setting)

-------------------------------------------------------------------------------
WebhookTypeOK ==
  /\ inbound \in [Messages -> InboundRows(IntakeAttempts)]
  /\ type \in [Messages -> Types]
  /\ codes \in CodeSettings
  /\ request \in [Requests -> Request]
  /\ delivered \subseteq Deliveries

\* WhatsApp is told 200 only for a batch of which every message is kept: after
\* that nobody sends it again.
DeliveredIsSaved ==
  \A d \in delivered : \A i \in DOMAIN BatchOf[d] :
    inbound[BatchOf[d][i]].status # "ABSENT"

\* A redelivery changes nothing of a message that is there, though the codes may
\* have been replaced and the message answered meanwhile.
SavedOnce ==
  [][\A m \in Messages : inbound[m].status # "ABSENT" =>
       type'[m] = type[m] /\ inbound'[m].attempts >= inbound[m].attempts]_webhookVars
===============================================================================
