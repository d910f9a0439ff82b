----------------------------- MODULE Generation -----------------------------
(***************************************************************************)
(* What LLMEngine promises its caller, without queues, blocks or batches:  *)
(* a request is rejected at once or accepted for good; an accepted request *)
(* grows one sampled token at a time, whatever preemption, swapping and    *)
(* recomputation happen underneath; it ends at the first end-of-sequence   *)
(* token or with max_tokens tokens, or it is aborted with the tokens it    *)
(* has; and what has ended never changes.                                  *)
(***************************************************************************)
EXTENDS Integers, Sequences

CONSTANTS
  Requests,   \* the requests a client may submit
  Token,      \* the vocabulary
  MaxTokens,  \* sampling_params.max_tokens
  Eos         \* the tokens that end a request

VARIABLES
  prompt,      \* prompt_token_ids of every request
  completion,  \* completion_token_ids
  outcome      \* "new", "rejected", "accepted", "finished" or "aborted"

vars == <<prompt, completion, outcome>>

Init ==
  /\ prompt \in [Requests -> Seq(Token)]
  /\ completion = [r \in Requests |-> << >>]
  /\ outcome = [r \in Requests |-> "new"]

Submit(r) ==
  /\ outcome[r] = "new"
  /\ \E answer \in {"accepted", "rejected"} : outcome' = [outcome EXCEPT ![r] = answer]
  /\ UNCHANGED <<prompt, completion>>

IsComplete(tokens) ==
  \/ Len(tokens) = MaxTokens
  \/ tokens # << >> /\ tokens[Len(tokens)] \in Eos

Generate(r, token) ==
  /\ outcome[r] = "accepted"
  /\ completion' = [completion EXCEPT ![r] = Append(@, token)]
  /\ outcome' = IF IsComplete(completion'[r])
                THEN [outcome EXCEPT ![r] = "finished"] ELSE outcome
  /\ UNCHANGED prompt

Abort(r) ==
  /\ outcome[r] = "accepted"
  /\ outcome' = [outcome EXCEPT ![r] = "aborted"]
  /\ UNCHANGED <<prompt, completion>>

Next ==
  \E r \in Requests :
    Submit(r) \/ Abort(r) \/ \E token \in Token : Generate(r, token)

Spec == Init /\ [][Next]_vars
============================================================================
