---------------------------- MODULE ChatContract ----------------------------
(***************************************************************************)
(* What LLMGateway.chat promises an agent: a call ends once, with a text   *)
(* or one exception, and which exception tells whether there was a second  *)
(* provider to ask.                                                        *)
(***************************************************************************)
CONSTANT Exhausted(_)  \* the LLM errors a call may end with, by fallbackOn

VARIABLES chat, fallbackOn

Init == chat = "idle" /\ fallbackOn \in BOOLEAN

Ask ==
  /\ chat = "idle"
  /\ chat' = "calling"
  /\ UNCHANGED fallbackOn

Return ==
  /\ chat = "calling"
  /\ chat' \in {"text", "raised"} \cup Exhausted(fallbackOn)
  /\ UNCHANGED fallbackOn

\* The agent goes on, or the request it served is over.
Reset ==
  /\ chat # "idle"
  /\ chat' = "idle"
  /\ UNCHANGED fallbackOn

Spec == Init /\ [][Ask \/ Return \/ Reset]_<<chat, fallbackOn>>
=============================================================================
