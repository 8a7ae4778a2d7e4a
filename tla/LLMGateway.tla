----------------------------- MODULE LLMGateway -----------------------------
(***************************************************************************)
(* LLMGateway.chat: the primary provider, its retries, the fallback and    *)
(* its retries, seen from the one request that waits for the answer.  The  *)
(* gateway keeps nothing between calls.  The module is composed with the   *)
(* agent that calls it: see SolvePipeline.                                 *)
(***************************************************************************)
EXTENDS Naturals

CONSTANT MaxAttempts   \* MAX_ATTEMPTS_PER_PROVIDER

ASSUME GatewayAssumption == MaxAttempts \in Nat \ {0}

VARIABLES
  fallbackOn,  \* _fallback_enabled, fixed when the gateway is made
  chat,        \* "idle", "calling", or how the last call ended
  provider,    \* the provider being asked
  attempt,     \* its attempts of this call that have failed
  failures,    \* the kinds of LLMError met in this call (history)
  calls        \* the provider calls of the request so far (history)

gatewayVars == <<fallbackOn, chat, provider, attempt, failures, calls>>

\* What a provider raises and the gateway catches: LLMTimeoutError, or any
\* other LLMError.
Failures == {"timeout", "error"}

\* What chat() raises when its providers are exhausted: the primary's own
\* error, or LLMAllProvidersFailedError if there was a fallback.
Exhausted(withFallback) == IF withFallback THEN {"all_failed"} ELSE Failures
LLMErrors == {"timeout", "error", "all_failed"}

GatewayInit ==
  /\ fallbackOn \in BOOLEAN
  /\ chat = "idle"
  /\ provider = "primary"
  /\ attempt = 0
  /\ failures = {}
  /\ calls = 0

Ask ==
  /\ chat = "idle"
  /\ chat' = "calling"
  /\ provider' = "primary"
  /\ attempt' = 0
  /\ failures' = {}
  /\ UNCHANGED <<fallbackOn, calls>>

\* The caller goes on to its next call.
HangUp == chat' = "idle" /\ UNCHANGED <<fallbackOn, provider, attempt, failures, calls>>

\* Its local variables are gone with the request.
Forget ==
  /\ chat' = "idle"
  /\ provider' = "primary"
  /\ attempt' = 0
  /\ failures' = {}
  /\ calls' = 0
  /\ UNCHANGED fallbackOn

CallProvider == chat = "calling" /\ calls' = calls + 1 /\ UNCHANGED fallbackOn

ProviderAnswers ==
  /\ CallProvider
  /\ chat' = "text"
  /\ UNCHANGED <<provider, attempt, failures>>

\* Mutation: one attempt too many.
RetryOnceMore(failure) ==
  /\ CallProvider
  /\ attempt < MaxAttempts
  /\ attempt' = attempt + 1
  /\ failures' = failures \cup {failure}
  /\ UNCHANGED <<chat, provider>>

\* Before the last attempt an LLMError is waited out.
RetryProvider(failure) ==
  /\ CallProvider
  /\ attempt + 1 < MaxAttempts
  /\ attempt' = attempt + 1
  /\ failures' = failures \cup {failure}
  /\ UNCHANGED <<chat, provider>>

FallBack(failure) ==
  /\ CallProvider
  /\ attempt + 1 = MaxAttempts
  /\ provider = "primary" /\ fallbackOn
  /\ provider' = "fallback"
  /\ attempt' = 0
  /\ failures' = failures \cup {failure}
  /\ UNCHANGED chat

\* Mutation: the last provider's own error is raised.
GiveUpUnwrapped(failure) ==
  /\ CallProvider
  /\ attempt + 1 = MaxAttempts
  /\ provider = "fallback" \/ ~fallbackOn
  /\ chat' = failure
  /\ attempt' = attempt + 1
  /\ failures' = failures \cup {failure}
  /\ UNCHANGED provider

GiveUp(failure) ==
  /\ CallProvider
  /\ attempt + 1 = MaxAttempts
  /\ \/ provider = "primary" /\ ~fallbackOn /\ chat' = failure
     \/ provider = "fallback" /\ chat' = "all_failed"
  /\ attempt' = attempt + 1
  /\ failures' = failures \cup {failure}
  /\ UNCHANGED provider

\* An answer that is not a chat completion (no choices, for DeepSeek; a body
\* that is not JSON, for both) makes the provider raise what is no LLMError:
\* it is neither retried nor passed on to the fallback.
ProviderRaises ==
  /\ CallProvider
  /\ chat' = "raised"
  /\ UNCHANGED <<provider, attempt, failures>>

GatewayStep ==
  \/ ProviderAnswers
  \/ \E failure \in Failures : RetryProvider(failure) \/ FallBack(failure) \/ GiveUp(failure)
  \/ ProviderRaises

GatewayTypeOK ==
  /\ fallbackOn \in BOOLEAN
  /\ chat \in {"idle", "calling", "text", "raised"} \cup LLMErrors
  /\ provider \in {"primary", "fallback"}
  /\ attempt \in 0..MaxAttempts
  /\ failures \subseteq Failures
  /\ calls \in Nat

\* An attempt that is made has not been made too often, and the fallback is asked
\* only if there is one.
GatewayInv ==
  /\ GatewayTypeOK
  /\ chat = "calling" => attempt < MaxAttempts /\ (provider = "fallback" => fallbackOn)

Contract == INSTANCE ChatContract

\* The retries and the change of provider are invisible to the agent: it sees
\* one call that ends in one way, LLMAllProvidersFailedError exactly when a
\* fallback is configured.
ImplementsContract == Contract!Spec
=============================================================================
