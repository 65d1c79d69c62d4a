------------------------------ MODULE AnswerOnce ------------------------------
(***************************************************************************)
(* What hadal promises for every inbound message, whatever the components  *)
(* do to keep the promise: a message it has heard of is open until it is   *)
(* closed, it is given its one answer in the step that closes it, and      *)
(* neither is ever taken back.                                             *)
(***************************************************************************)
CONSTANTS
  Message,  \* inbound messages
  Answers,  \* what a message may be answered with
  NoAnswer  \* what a message not answered yet has, not in Answers

VARIABLES
  stage,  \* stage[m] \in {"unheard", "open", "closed"}
  answer  \* answer[m], or NoAnswer

Init ==
  /\ stage = [m \in Message |-> "unheard"]
  /\ answer = [m \in Message |-> NoAnswer]

\* The message is stored: from now on it must be answered.
Hear(m) ==
  /\ stage[m] = "unheard"
  /\ stage' = [stage EXCEPT ![m] = "open"]
  /\ UNCHANGED answer

\* The messages that wait for the same thing are answered, and nothing more is
\* done for them.
Close(ms) ==
  /\ \A m \in ms : stage[m] = "open"
  /\ stage' = [m \in Message |-> IF m \in ms THEN "closed" ELSE stage[m]]
  /\ \E a \in Answers :
       answer' = [m \in Message |-> IF m \in ms THEN a ELSE answer[m]]

Next ==
  \/ \E m \in Message : Hear(m)
  \/ \E ms \in SUBSET Message : Close(ms)

Spec == Init /\ [][Next]_<<stage, answer>>
===============================================================================
