------------------------------- MODULE OneAnswer -------------------------------
(***************************************************************************)
(* What hadal promises for every voice note.  It is less than AnswerOnce:  *)
(* the answer may be given before the message is closed, which happens to  *)
(* those that join a job while it ends.  But no message is closed without  *)
(* one, no answer is given twice, and neither is ever taken back.          *)
(***************************************************************************)
CONSTANTS
  Message,  \* inbound messages
  Answers,  \* what a message may be answered with
  NoAnswer  \* what a message not answered yet has, not in Answers

VARIABLES
  stage,  \* stage[m] \in {"unheard", "open", "closed"}
  answer  \* answer[m], or NoAnswer

Init ==
  /\ stage = [m \in Message |-> "unheard"]
  /\ answer = [m \in Message |-> NoAnswer]

Hear(m) ==
  /\ stage[m] = "unheard"
  /\ stage' = [stage EXCEPT ![m] = "open"]
  /\ UNCHANGED answer

\* Of the messages that wait for the same thing some are answered, some are closed,
\* and some are both.
Settle(answered, closed) ==
  /\ \A m \in answered : stage[m] = "open" /\ answer[m] = NoAnswer
  /\ \A m \in closed : stage[m] = "open" /\ (m \in answered \/ answer[m] # NoAnswer)
  /\ stage' = [m \in Message |-> IF m \in closed THEN "closed" ELSE stage[m]]
  /\ \E a \in Answers :
       answer' = [m \in Message |-> IF m \in answered THEN a ELSE answer[m]]

Next ==
  \/ \E m \in Message : Hear(m)
  \/ \E answered, closed \in SUBSET Message : Settle(answered, closed)

Spec == Init /\ [][Next]_<<stage, answer>>
===============================================================================
