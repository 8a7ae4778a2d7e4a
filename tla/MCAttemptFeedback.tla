------------------------- MODULE MCAttemptFeedback -------------------------
(* Three tests: one shown, two checked, one of these too short to be named. *)
EXTENDS AttemptFeedback

MCPastFacts == {<<3, "input">>, Dictation}
=============================================================================
