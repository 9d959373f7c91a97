--------------------------- MODULE RequestService ---------------------------
(***************************************************************************)
(* What the request layer of core/unifai.go promises the callers of        *)
(* tryRequest and tryStreamRequest, whatever queues, workers and           *)
(* administrative operations stand behind it: a call is refused, or it is  *)
(* accepted and then answered at most once; the provider is called at most *)
(* once for it, never for a refused call; "result" is only ever returned   *)
(* when the provider was called; a call returns early only when its        *)
(* context has ended.                                                      *)
(***************************************************************************)
EXTENDS Naturals, Sequences

CONSTANTS Requests, Refusals

VARIABLES
    phase,     \* "open", "accepted" or "returned"
    ended,     \* the caller's context has ended
    calls,     \* provider calls made for the request
    answers,   \* what was put in its reply channels
    outcome    \* what the caller got

vars == <<phase, ended, calls, answers, outcome>>

Init ==
    /\ phase = [r \in Requests |-> "open"]
    /\ ended = [r \in Requests |-> FALSE]
    /\ calls = [r \in Requests |-> 0]
    /\ answers = [r \in Requests |-> <<>>]
    /\ outcome = [r \in Requests |-> "none"]

ReturnWith(r, what) ==
    /\ phase' = [phase EXCEPT ![r] = "returned"]
    /\ outcome' = [outcome EXCEPT ![r] = what]
    /\ UNCHANGED <<ended, calls, answers>>

Refuse(r) == /\ phase[r] = "open"
             /\ \E what \in Refusals : ReturnWith(r, what)

Accept(r) ==
    /\ phase[r] = "open"
    /\ phase' = [phase EXCEPT ![r] = "accepted"]
    /\ UNCHANGED <<ended, calls, answers, outcome>>

End(r) ==
    /\ ~ended[r] /\ phase[r] # "returned"
    /\ ended' = [ended EXCEPT ![r] = TRUE]
    /\ UNCHANGED <<phase, calls, answers, outcome>>

(* The provider is called and the answer is kept for the caller.           *)
Serve(r) ==
    /\ phase[r] # "open" /\ calls[r] = 0 /\ answers[r] = <<>>
    /\ calls' = [calls EXCEPT ![r] = 1]
    /\ \E a \in {"result", "error"} : answers' = [answers EXCEPT ![r] = <<a>>]
    /\ UNCHANGED <<phase, ended, outcome>>

(* The provider is called for a caller that may be gone.                   *)
ServeNobody(r) ==
    /\ phase[r] # "open" /\ calls[r] = 0 /\ answers[r] = <<>> /\ ended[r]
    /\ calls' = [calls EXCEPT ![r] = 1]
    /\ UNCHANGED <<phase, ended, answers, outcome>>

(* An accepted request is turned away without a provider call.             *)
TurnAway(r) ==
    /\ phase[r] # "open" /\ calls[r] = 0 /\ answers[r] = <<>>
    /\ \E a \in {"error", "shutting_down", "queue_full"} :
          answers' = [answers EXCEPT ![r] = <<a>>]
    /\ UNCHANGED <<phase, ended, calls, outcome>>

Answer(r) ==
    /\ phase[r] = "accepted" /\ answers[r] # <<>>
    /\ ReturnWith(r, Head(answers[r]))

Leave(r) ==
    /\ phase[r] = "accepted" /\ ended[r]
    /\ ReturnWith(r, "cancelled")

Next == \E r \in Requests :
    \/ Refuse(r) \/ Accept(r) \/ End(r) \/ Serve(r) \/ ServeNobody(r)
    \/ TurnAway(r) \/ Answer(r) \/ Leave(r)

Spec == Init /\ [][Next]_vars
=============================================================================
