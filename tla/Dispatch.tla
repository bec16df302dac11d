------------------------------ MODULE Dispatch -------------------------------
(***************************************************************************)
(* The HTTP dispatcher that Pub/Sub push and Cloud Tasks share             *)
(* (internal/dispatch/dispatcher.go): a POST that is repeated after a      *)
(* growing delay until it is answered with a 2xx status, the attempts are  *)
(* used up, or the context is cancelled.  The context is that of Run.      *)
(***************************************************************************)
EXTENDS Integers, ServerRun

CONSTANTS
    MaxRetries,         \* Config: attempts after the first
    InitialBackoff, Multiplier, MaxBackoff

ASSUME DispatchAssumption ==
    /\ MaxRetries \in Nat /\ InitialBackoff \in Nat
    /\ Multiplier \in Nat /\ MaxBackoff \in Nat

VARIABLES
    pc,         \* "idle", "do", "heard", "backoff"
    attempt,    \* the loop's counter
    backoff,    \* how long the next wait is
    status,     \* what the last POST was answered with
    result,     \* what Dispatch has returned
    posts,      \* history: attempts that were begun
    reached,    \* history: POSTs the endpoint got
    taken       \* history: the endpoint has accepted one

dispatchVars == <<pc, attempt, backoff, status, result, posts, reached, taken>>

NoResult == [err |-> "none", attempts |-> 0]
Result(err, n) == [err |-> err, attempts |-> n]
Least(a, b) == IF a < b THEN a ELSE b

Return(r) == pc' = "idle" /\ result' = r /\ UNCHANGED <<attempt, backoff>>

-----------------------------------------------------------------------------

(* A caller's goroutine calls Dispatch.                                    *)
BeginDispatch ==
    /\ up /\ pc = "idle" /\ stage \in {"serving", "waiting"}
    /\ pc' = "do" /\ attempt' = 0 /\ backoff' = InitialBackoff
    /\ status' = "none" /\ result' = NoResult
    /\ posts' = 1 /\ reached' = 0 /\ taken' = FALSE
    /\ UNCHANGED runVars

(* The URL is none, so no attempt gets as far as a POST.                   *)
BuildFails ==
    /\ up /\ pc = "do" /\ attempt = 0
    /\ Return(Result("build", attempt + 1))
    /\ UNCHANGED <<runVars, status, posts, reached, taken>>

(* The endpoint answers, and is heard, if only as the context ends.        *)
Answer(s) ==
    /\ up /\ pc = "do"
    /\ pc' = "heard" /\ status' = s
    /\ reached' = reached + 1
    /\ taken' = (taken \/ s = "2xx")
    /\ UNCHANGED <<runVars, attempt, backoff, result, posts>>

(* Mistaken variant: one attempt more.                                     *)
LastAttemptLate == attempt > MaxRetries

LastAttempt == attempt >= MaxRetries

(* The loop goes on after an attempt that was not accepted.                *)
Again ==
    IF LastAttempt
    THEN Return(Result("failed", MaxRetries + 1))
    ELSE pc' = "backoff" /\ attempt' = attempt + 1 /\ UNCHANGED <<backoff, result>>

(* Do returns an error: no connection, no answer in time, or a cancelled   *)
(* context.  The endpoint may have got the POST, and may accept it.        *)
NoAnswer ==
    /\ up /\ pc = "do"
    /\ \/ UNCHANGED <<reached, taken>>
       \/ reached' = reached + 1 /\ taken' \in {taken, TRUE}
    /\ status' = "none"
    /\ IF ctxDone THEN Return(Result("cancelled", attempt + 1)) ELSE Again
    /\ UNCHANGED <<runVars, posts>>

(* Mistaken variant: any answer will do.                                   *)
AcceptedAny == status # "none"

Accepted == status = "2xx"

Judge ==
    /\ up /\ pc = "heard"
    /\ IF Accepted THEN Return(Result("ok", attempt + 1)) ELSE Again
    /\ UNCHANGED <<runVars, status, posts, reached, taken>>

(* Both may be ready when the select looks: then it takes either.          *)
BackoffEnds ==
    /\ up /\ pc = "backoff"
    /\ pc' = "do"
    /\ backoff' = Least(backoff * Multiplier, MaxBackoff)
    /\ posts' = posts + 1
    /\ UNCHANGED <<runVars, attempt, status, result, reached, taken>>

BackoffCancelled ==
    /\ up /\ pc = "backoff" /\ ctxDone
    /\ Return(Result("cancelled", attempt))
    /\ UNCHANGED <<runVars, status, posts, reached, taken>>

DispatchLost ==
    /\ pc' = "idle" /\ attempt' = 0 /\ backoff' = 0 /\ status' = "none" /\ result' = NoResult
    /\ posts' = 0 /\ reached' = 0 /\ taken' = FALSE

DispatchInit ==
    /\ pc = "idle" /\ attempt = 0 /\ backoff = 0 /\ status = "none" /\ result = NoResult
    /\ posts = 0 /\ reached = 0 /\ taken = FALSE

DispatchStep ==
    \/ BeginDispatch \/ BuildFails \/ NoAnswer \/ Judge \/ BackoffEnds \/ BackoffCancelled
    \/ \E s \in {"2xx", "other"} : Answer(s)

DispatchNext ==
    \/ DispatchStep
    \/ RunStep /\ UNCHANGED dispatchVars
    \/ (\E s \in Service : FailToServe(s) \/ StopService(s)) /\ UNCHANGED dispatchVars
    \/ (MainReturns \/ Kill) /\ DispatchLost
    \/ StartAgain /\ UNCHANGED dispatchVars

DispatchSpec == RunInit /\ DispatchInit /\ [][DispatchNext]_<<runVars, dispatchVars>>

-----------------------------------------------------------------------------
(* Properties.                                                             *)

DispatchTypeOK ==
    /\ RunTypeOK
    /\ pc \in {"idle", "do", "heard", "backoff"}
    /\ attempt \in 0..MaxRetries /\ backoff \in Nat
    /\ status \in {"none", "2xx", "other"}
    /\ result \in [err : {"none", "ok", "failed", "cancelled", "build"}, attempts : 0..(MaxRetries + 1)]
    /\ posts \in Nat /\ reached \in Nat /\ taken \in BOOLEAN

(* However answers, lost answers and the end of the context interleave,    *)
(* the endpoint gets at most MaxRetries + 1 POSTs of a dispatch, a wait is *)
(* never longer than the cap (or the first one), and what Dispatch returns *)
(* is true: the attempts are those that were begun, an accepted one was    *)
(* accepted, and a failed one has used its attempts up.                    *)
HonestResult ==
    /\ reached <= posts /\ posts <= MaxRetries + 1
    /\ backoff <= InitialBackoff \/ backoff <= MaxBackoff
    /\ result # NoResult =>
          /\ result.attempts = posts
          /\ result.err = "ok" => taken
          /\ result.err = "failed" => posts = MaxRetries + 1

(* The caller's view: accepted as soon as the answer is here.              *)
Outcome ==
    CASE result.err = "ok" \/ (pc = "heard" /\ status = "2xx") -> "accepted"
      [] result.err \in {"failed", "cancelled", "build"} -> "failed"
      [] result = NoResult /\ pc # "idle" /\ ~(pc = "heard" /\ status = "2xx") -> "post"
      [] OTHER -> "none"

ADelivery == INSTANCE Delivery WITH outcome <- Outcome

(* Every step of a dispatch is a step of the one-POST delivery that the    *)
(* models of Pub/Sub and Cloud Tasks are built on, or none.                *)
ImplementsDelivery == ADelivery!Spec
=============================================================================
