-------------------------- MODULE VariantGenerator --------------------------
(***************************************************************************)
(* The script generate_buggy_variants: one gateway without a fallback, at  *)
(* most two chats, the validation of the answer and the output file.       *)
(***************************************************************************)
EXTENDS LLMGateway, Sequences

CONSTANT NVariants   \* --count

ASSUME VariantsAssumption == NVariants \in Nat \ {0}

VARIABLES
  genAttempt,  \* attempt, 0 before the script starts and after it ends
  genPrompts,  \* how many corrections the messages contain
  genFile,     \* the output file
  genExit      \* how the script ended

genVars == <<genAttempt, genPrompts, genFile, genExit>>

\* A variant by what _validate_payload makes of it.
VariantKinds == {"usable", "empty", "syntax_error", "other_function"}

NotAnObject == <<"not_an_object">>
Drafts ==
  {NotAnObject} \cup [1..(NVariants - 1) -> VariantKinds]
                \cup [1..NVariants -> VariantKinds]
                \cup [1..(NVariants + 1) -> VariantKinds]

\* Mutation: the check returns after the first variant.
ValidFirst(draft) ==
  /\ Len(draft) = NVariants
  /\ draft[1] = "usable"

\* _validate_payload.
Valid(draft) ==
  /\ draft # NotAnObject
  /\ Len(draft) = NVariants
  /\ \A i \in 1..NVariants : draft[i] = "usable"

NoFile == <<>>
PartialFile == <<"partial">>

Exit(how) == genAttempt' = 0 /\ genExit' = how

GenInit ==
  /\ genAttempt = 0
  /\ genPrompts = 0
  /\ genFile = NoFile
  /\ genExit = "none"

StartGenerator ==
  /\ genAttempt = 0 /\ genExit = "none"
  /\ genAttempt' = 1
  /\ UNCHANGED <<gatewayVars, genPrompts, genFile, genExit>>

AskForVariants ==
  /\ genAttempt > 0
  /\ Ask \/ GatewayStep
  /\ UNCHANGED genVars

\* The first draft that is valid goes to the file, which opening truncates;
\* an invalid one is answered with a correction, once.
TakeDraft ==
  /\ genAttempt > 0 /\ chat = "text"
  /\ \E draft \in Drafts :
       \/ /\ Valid(draft)
          /\ Forget
          /\ \/ genFile' = draft /\ Exit("ok")
             \/ genFile' \in {NoFile, PartialFile} /\ Exit("traceback")
          /\ UNCHANGED genPrompts
       \/ /\ ~Valid(draft) /\ genAttempt = 1
          /\ genAttempt' = 2
          /\ HangUp
          /\ genPrompts' = genPrompts + 1
          /\ UNCHANGED <<genFile, genExit>>
       \/ /\ ~Valid(draft) /\ genAttempt = 2
          /\ Exit("failed")
          /\ Forget
          /\ UNCHANGED <<genPrompts, genFile>>

\* Here an LLMError uses up an attempt like an invalid draft, uncorrected.
ChatFails ==
  /\ genAttempt > 0 /\ chat \in LLMErrors
  /\ \/ genAttempt = 1 /\ genAttempt' = 2 /\ HangUp /\ UNCHANGED genExit
     \/ genAttempt = 2 /\ Exit("failed") /\ Forget
  /\ UNCHANGED <<genPrompts, genFile>>

ChatRaises ==
  /\ genAttempt > 0 /\ chat = "raised"
  /\ Exit("traceback")
  /\ Forget
  /\ UNCHANGED <<genPrompts, genFile>>

GenStep == AskForVariants \/ TakeDraft \/ ChatFails \/ ChatRaises

\* The script ends with 0 exactly when the file holds as many variants as were
\* asked for, each of which is code that defines the entry function; what was
\* refused never reaches the file.
EmittedIsUsable ==
  /\ genExit = "ok" <=> genFile \notin {NoFile, PartialFile}
  /\ genExit = "ok" =>
       Len(genFile) = NVariants /\ \A i \in DOMAIN genFile : genFile[i] = "usable"
  /\ genExit = "failed" => genFile = NoFile

\* Why: the file is opened when the script has its draft, and it ends with that.
GenInv ==
  /\ genAttempt \in 0..2
  /\ genExit = "none" => genFile = NoFile
  /\ genAttempt > 0 => genExit = "none"
  /\ EmittedIsUsable
=============================================================================
