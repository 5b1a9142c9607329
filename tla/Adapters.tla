------------------------------ MODULE Adapters ------------------------------
(***************************************************************************)
(* Routing and the provider adapters (providers/): which parameters a      *)
(* model takes, the request that is sent, and which answers are passed on. *)
(* An adapter that refuses, before the request or after the answer, raises *)
(* a ValueError.  Each model stands for those the code treats alike.       *)
(***************************************************************************)
EXTENDS Contract

CONSTANT Hottest     \* the temperature 1.0

ASSUME HottestIsATemperature == Hottest \in Nat

Models == {"gpt-5", "claude-sonnet-5", "claude-haiku-4-5"}

\* PROVIDERS
ProviderFor(model) == IF model = "gpt-5" THEN "openai" ELSE "anthropic"

\* _MODELS_SUPPORTING_TEMPERATURE
SupportingTemperature == {"claude-haiku-4-5"}

\* Faulty variant: a temperature is dropped without a word.
OpenAITakesAny(job) == TRUE

\* _openai_request() does not raise.
OpenAITakes(job) == job.temperature = Unset

\* _anthropic_request() and _anthropic_temperature() do not raise.
AnthropicTakes(model, job) ==
  /\ job.max_tokens # Unset
  /\ \/ job.temperature = Unset
     \/ model \in SupportingTemperature /\ job.temperature \in 0 .. Hottest

Takes(model, job) ==
  IF ProviderFor(model) = "openai" THEN OpenAITakes(job) ELSE AnthropicTakes(model, job)

\* _openai_request() returns; it never carries a temperature.
OpenAIRequest(job) ==
  [temperature |-> Unset, max_tokens |-> job.max_tokens, format |-> job.format]

\* _anthropic_request() returns.
AnthropicRequest(job) ==
  [temperature |-> job.temperature, max_tokens |-> job.max_tokens, format |-> job.format]

Request(model, job) ==
  IF ProviderFor(model) = "openai" THEN OpenAIRequest(job) ELSE AnthropicRequest(job)

\* An answer: how it finished, and whether it carries a text.
Answers(model) ==
  [finish : IF ProviderFor(model) = "openai" THEN {"stop", "length"}
            ELSE {"end_turn", "max_tokens", "refusal", "pause_turn"},
   text : BOOLEAN]

\* _completion_from_response() of each adapter returns the text.
OpenAIComplete(answer)    == answer.finish = "stop" /\ answer.text
AnthropicComplete(answer) == answer.finish = "end_turn" /\ answer.text

\* Faulty variant: a text is enough, however the answer ended.
HasText(model, answer) == answer.text

Complete(model, answer) ==
  IF ProviderFor(model) = "openai" THEN OpenAIComplete(answer) ELSE AnthropicComplete(answer)

=============================================================================
