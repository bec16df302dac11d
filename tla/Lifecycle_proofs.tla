-------------------------- MODULE Lifecycle_proofs --------------------------
(***************************************************************************)
(* Theorems about a process: Dispatch, for every set of services, number   *)
(* of retries and backoff; LazyContainer, for any number of connections    *)
(* and of other services; and the two in one process (MCLifecycle), where  *)
(* they live and die with Run.                                             *)
(***************************************************************************)
EXTENDS MCLifecycle, TLAPS

-----------------------------------------------------------------------------
(* The dispatcher.                                                         *)

(* What the loop has done when it is at each of its places.                *)
LoopOK ==
    /\ result = NoResult \/ result.err # "none"
    /\ pc # "idle" => result = NoResult
    /\ pc = "do" => posts = attempt + 1 /\ reached <= attempt
    /\ pc = "heard" => posts = attempt + 1 /\ (status = "2xx" => taken)
    /\ pc = "backoff" => posts = attempt /\ attempt >= 1
    /\ reached <= posts /\ posts <= MaxRetries + 1
    /\ pc = "idle" /\ result = NoResult => posts = 0

(* HonestResult is inductive with it.                                      *)
DInv == DispatchTypeOK /\ LoopOK /\ HonestResult

Env == RunStep \/ (\E s \in Service : FailToServe(s) \/ StopService(s))

LEMMA FreshTypes == NoGoroutines \in [Service -> Goroutine] /\ {} \in SUBSET Service
  BY DEF NoGoroutines, Goroutine

LEMMA RunTypes ==
    ASSUME RunTypeOK,
           Env \/ MainReturns \/ Kill \/ StartAgain \/ UNCHANGED runVars
    PROVE  RunTypeOK'
<1>1. CASE RunStep
  <2>1. CASE CheckPorts
    BY <2>1 DEF CheckPorts, RunTypeOK, ProcessTypeOK, process, Goroutine
  <2>2. CASE Signal
    BY <2>2 DEF Signal, RunTypeOK, ProcessTypeOK, process
  <2>3. CASE BeginWait
    BY <2>3 DEF BeginWait, RunTypeOK, ProcessTypeOK, process
  <2>4. CASE ReturnError
    BY <2>4 DEF ReturnError, RunTypeOK, ProcessTypeOK, process
  <2>5. CASE ReturnDone
    BY <2>5 DEF ReturnDone, RunTypeOK, ProcessTypeOK, process
  <2>6. CASE ReturnTimeout
    BY <2>6 DEF ReturnTimeout, RunTypeOK, ProcessTypeOK, process
  <2>7. ASSUME NEW s \in Service, Listen(s) \/ FailToListen(s) PROVE RunTypeOK'
    BY <2>7 DEF Listen, FailToListen, Report, RunTypeOK, ProcessTypeOK, process, Goroutine
  <2> QED
    BY <1>1, <2>1, <2>2, <2>3, <2>4, <2>5, <2>6, <2>7 DEF RunStep
<1>2. ASSUME NEW s \in Service, FailToServe(s) \/ StopService(s) PROVE RunTypeOK'
  BY <1>2 DEF FailToServe, StopService, Report, RunTypeOK, ProcessTypeOK, process, Goroutine
<1>3. CASE MainReturns \/ Kill
  <2>1. Stops /\ ProcessLost
    BY <1>3 DEF MainReturns, Kill
  <2>2. ProcessTypeOK'
    <3>1. up' \in BOOLEAN
      BY <2>1 DEF Stops
    <3>2. exits' \in 0..MaxExits
      BY <2>1, ProcessAssumption DEF Stops, RunTypeOK, ProcessTypeOK
    <3> QED
      BY <3>1, <3>2 DEF ProcessTypeOK
  <2> QED
    BY <2>1, <2>2, FreshTypes DEF ProcessLost, RunTypeOK
<1>4. CASE StartAgain
  BY <1>4 DEF StartAgain, Starts, RunTypeOK, ProcessTypeOK
<1>5. CASE UNCHANGED runVars
  BY <1>5 DEF runVars, process, RunTypeOK, ProcessTypeOK
<1> QED
  BY <1>1, <1>2, <1>3, <1>4, <1>5 DEF Env

LEMMA Delay ==
    ASSUME NEW b \in Nat
    PROVE  Least(b * Multiplier, MaxBackoff) \in Nat /\ Least(b * Multiplier, MaxBackoff) <= MaxBackoff
<1>1. b * Multiplier \in Nat /\ MaxBackoff \in Nat
  BY DispatchAssumption
<1> DEFINE m == b * Multiplier
<1>2. m \in Nat
  BY <1>1
<1> HIDE DEF m
<1>3. Least(m, MaxBackoff) \in Nat /\ Least(m, MaxBackoff) <= MaxBackoff
  BY <1>1, <1>2 DEF Least
<1> QED
  BY <1>3 DEF m

LEMMA Results ==
    /\ NoResult.err = "none" /\ NoResult.attempts = 0
    /\ \A e, n : Result(e, n).err = e /\ Result(e, n).attempts = n
    /\ \A e, n : e # "none" => Result(e, n) # NoResult
    /\ \A e \in {"ok", "failed", "cancelled", "build"}, n \in 0..(MaxRetries + 1) :
          Result(e, n) \in [err : {"none", "ok", "failed", "cancelled", "build"}, attempts : 0..(MaxRetries + 1)]
    /\ NoResult \in [err : {"none", "ok", "failed", "cancelled", "build"}, attempts : 0..(MaxRetries + 1)]
  BY DispatchAssumption DEF NoResult, Result

LEMMA InitDInv == RunInit /\ DispatchInit => DInv
<1> SUFFICES ASSUME RunInit, DispatchInit PROVE DInv
  OBVIOUS
<1>1. RunTypeOK
  <2>1. up \in BOOLEAN /\ ctxDone \in BOOLEAN
    BY DEF RunInit, ProcessInit
  <2>2. exits \in 0..MaxExits
    BY ProcessAssumption DEF RunInit, ProcessInit
  <2> QED
    BY <2>1, <2>2, FreshTypes DEF RunInit, RunTypeOK, ProcessTypeOK
<1>2. DispatchTypeOK
  <2>1. taken \in BOOLEAN
    BY DEF DispatchInit
  <2> QED
    BY <1>1, <2>1, Results, DispatchAssumption DEF DispatchInit, DispatchTypeOK
<1> QED
  BY <1>2, DispatchAssumption DEF DInv, LoopOK, HonestResult, DispatchInit

(* The two ways a try that was not accepted goes on.                       *)
LEMMA AgainOK ==
    ASSUME DInv, Again, pc \in {"do", "heard"}, posts' = posts,
           reached' \in Nat, reached' <= posts, taken' \in BOOLEAN,
           status' \in {"none", "2xx", "other"}, UNCHANGED runVars
    PROVE  DInv'
<1>0. RunTypeOK'
  BY RunTypes DEF DInv, DispatchTypeOK
<1>1. /\ MaxRetries \in Nat /\ attempt \in 0..MaxRetries /\ posts = attempt + 1 /\ posts \in Nat
      /\ backoff \in Nat /\ (backoff <= InitialBackoff \/ backoff <= MaxBackoff) /\ result = NoResult
  BY DispatchAssumption DEF DInv, DispatchTypeOK, LoopOK, HonestResult
<1>2. CASE LastAttempt
  <2>1. pc' = "idle" /\ result' = Result("failed", MaxRetries + 1) /\ UNCHANGED <<attempt, backoff>>
    BY <1>2 DEF Again, Return
  <2>2. attempt = MaxRetries
    BY <1>1, <1>2 DEF LastAttempt
  <2>3. posts = MaxRetries + 1
    BY <1>1, <2>2
  <2>4. /\ result' \in [err : {"none", "ok", "failed", "cancelled", "build"}, attempts : 0..(MaxRetries + 1)]
        /\ result'.err = "failed" /\ result'.attempts = MaxRetries + 1 /\ result' # NoResult
    BY <2>1, <1>1, Results
  <2>5. DispatchTypeOK'
    BY <1>0, <1>1, <2>1, <2>4 DEF DispatchTypeOK
  <2>6. LoopOK'
    BY <1>1, <2>1, <2>3, <2>4 DEF LoopOK
  <2>7. HonestResult'
    BY <1>1, <2>1, <2>3, <2>4 DEF HonestResult
  <2> QED
    BY <2>5, <2>6, <2>7 DEF DInv
<1>3. CASE ~LastAttempt
  <2>1. pc' = "backoff" /\ attempt' = attempt + 1 /\ UNCHANGED <<backoff, result>>
    BY <1>3 DEF Again
  <2>2. attempt < MaxRetries
    BY <1>1, <1>3 DEF LastAttempt
  <2>3. DispatchTypeOK'
    BY <1>0, <1>1, <2>1, <2>2, Results DEF DispatchTypeOK
  <2>4. LoopOK' /\ HonestResult'
    BY <1>1, <2>1, <2>2 DEF LoopOK, HonestResult
  <2> QED
    BY <2>3, <2>4 DEF DInv
<1> QED
  BY <1>2, <1>3

(* The ways Dispatch returns from the middle of the loop.                  *)
LEMMA ReturnOK ==
    ASSUME DInv, NEW e \in {"ok", "cancelled", "build"}, Return(Result(e, posts)), pc # "idle",
           posts' = posts, reached' \in Nat, reached' <= posts, taken' \in BOOLEAN, e = "ok" => taken',
           status' \in {"none", "2xx", "other"}, UNCHANGED runVars
    PROVE  DInv'
<1>0. RunTypeOK'
  BY RunTypes DEF DInv, DispatchTypeOK
<1>1. /\ MaxRetries \in Nat /\ attempt \in 0..MaxRetries /\ posts \in Nat /\ posts <= MaxRetries + 1
      /\ backoff \in Nat /\ (backoff <= InitialBackoff \/ backoff <= MaxBackoff)
  BY DispatchAssumption DEF DInv, DispatchTypeOK, LoopOK, HonestResult
<1>2. pc' = "idle" /\ result' = Result(e, posts) /\ UNCHANGED <<attempt, backoff>>
  BY DEF Return
<1>3. posts \in 0..(MaxRetries + 1)
  BY <1>1
<1>4. /\ result' \in [err : {"none", "ok", "failed", "cancelled", "build"}, attempts : 0..(MaxRetries + 1)]
      /\ result'.err = e /\ result'.attempts = posts /\ result' # NoResult
  BY <1>2, <1>3, Results
<1>5. DispatchTypeOK'
  BY <1>0, <1>1, <1>2, <1>4 DEF DispatchTypeOK
<1>6. LoopOK'
  BY <1>1, <1>2, <1>4 DEF LoopOK
<1>7. HonestResult'
  BY <1>1, <1>2, <1>4 DEF HonestResult
<1> QED
  BY <1>5, <1>6, <1>7 DEF DInv

LEMMA StepDInv == DInv /\ DispatchStep => DInv'
<1> SUFFICES ASSUME DInv, DispatchStep PROVE DInv'
  OBVIOUS
<1>t. /\ MaxRetries \in Nat /\ attempt \in 0..MaxRetries /\ posts \in Nat /\ reached \in Nat
      /\ InitialBackoff \in Nat /\ MaxBackoff \in Nat /\ backoff \in Nat /\ taken \in BOOLEAN
      /\ status \in {"none", "2xx", "other"} /\ reached <= posts /\ posts <= MaxRetries + 1
      /\ pc \in {"idle", "do", "heard", "backoff"}
  BY DispatchAssumption DEF DInv, DispatchTypeOK, LoopOK
<1>1. CASE BeginDispatch
  <2>1. RunTypeOK'
    BY <1>1, RunTypes DEF BeginDispatch, DInv, DispatchTypeOK
  <2>2. DispatchTypeOK'
    <3>1. taken' \in BOOLEAN
      BY <1>1 DEF BeginDispatch
    <3> QED
      BY <1>1, <1>t, <2>1, <3>1, Results DEF BeginDispatch, DispatchTypeOK
  <2> QED
    BY <1>1, <1>t, <2>2 DEF BeginDispatch, DInv, LoopOK, HonestResult
<1>2. CASE BuildFails
  <2>1. posts = attempt + 1
    BY <1>2 DEF BuildFails, DInv, LoopOK
  <2>2. Return(Result("build", posts))
    BY <1>2, <2>1 DEF BuildFails
  <2> QED
    BY <1>2, <1>t, <2>2, ReturnOK DEF BuildFails
<1>3. ASSUME NEW s \in {"2xx", "other"}, Answer(s) PROVE DInv'
  <2>1. RunTypeOK'
    BY <1>3, RunTypes DEF Answer, DInv, DispatchTypeOK
  <2>2. taken' \in BOOLEAN /\ (taken => taken') /\ (s = "2xx" => taken')
    BY <1>3, <1>t DEF Answer
  <2>3. DispatchTypeOK'
    BY <1>3, <1>t, <2>1, <2>2 DEF Answer, DispatchTypeOK, DInv
  <2> QED
    BY <1>3, <1>t, <2>2, <2>3 DEF Answer, DInv, LoopOK, HonestResult
<1>4. CASE NoAnswer
  <2>1. posts = attempt + 1 /\ reached <= attempt
    BY <1>4 DEF NoAnswer, DInv, LoopOK
  <2>2. reached' \in Nat /\ reached' <= posts /\ taken' \in BOOLEAN
    <3>1. taken' \in BOOLEAN
      BY <1>4, <1>t DEF NoAnswer
    <3>2. reached' \in {reached, reached + 1}
      BY <1>4 DEF NoAnswer
    <3> QED
      BY <1>t, <2>1, <3>1, <3>2
  <2>3. CASE ctxDone
    <3>1. Return(Result("cancelled", posts))
      BY <1>4, <2>1, <2>3 DEF NoAnswer
    <3> QED
      BY <1>4, <2>2, <3>1, ReturnOK DEF NoAnswer
  <2>4. CASE ~ctxDone
    <3>1. Again
      BY <1>4, <2>4 DEF NoAnswer
    <3> QED
      BY <1>4, <2>2, <3>1, AgainOK DEF NoAnswer
  <2> QED
    BY <2>3, <2>4
<1>5. CASE Judge
  <2>1. posts = attempt + 1 /\ (status = "2xx" => taken)
    BY <1>5 DEF Judge, DInv, LoopOK
  <2>2. CASE Accepted
    <3>1. Return(Result("ok", posts)) /\ taken
      BY <1>5, <2>1, <2>2 DEF Judge, Accepted
    <3> QED
      BY <1>5, <1>t, <3>1, ReturnOK DEF Judge
  <2>3. CASE ~Accepted
    <3>1. Again
      BY <1>5, <2>3 DEF Judge
    <3> QED
      BY <1>5, <1>t, <3>1, AgainOK DEF Judge
  <2> QED
    BY <2>2, <2>3
<1>6. CASE BackoffEnds
  <2>1. RunTypeOK'
    BY <1>6, RunTypes DEF BackoffEnds, DInv, DispatchTypeOK
  <2>2. backoff' \in Nat /\ backoff' <= MaxBackoff
    BY <1>6, <1>t, Delay DEF BackoffEnds
  <2>3. posts = attempt /\ posts' = posts + 1 /\ attempt' = attempt /\ result = NoResult
    BY <1>6 DEF BackoffEnds, DInv, LoopOK
  <2>4. DispatchTypeOK'
    BY <1>6, <1>t, <2>1, <2>2, <2>3, Results DEF BackoffEnds, DispatchTypeOK
  <2>5. LoopOK' /\ HonestResult'
    BY <1>6, <1>t, <2>2, <2>3 DEF BackoffEnds, LoopOK, HonestResult
  <2> QED
    BY <2>4, <2>5 DEF DInv
<1>7. CASE BackoffCancelled
  <2>1. posts = attempt
    BY <1>7 DEF BackoffCancelled, DInv, LoopOK
  <2>2. Return(Result("cancelled", posts))
    BY <1>7, <2>1 DEF BackoffCancelled
  <2> QED
    BY <1>7, <1>t, <2>2, ReturnOK DEF BackoffCancelled
<1> QED
  BY <1>1, <1>2, <1>3, <1>4, <1>5, <1>6, <1>7 DEF DispatchStep

LEMMA LostDInv == RunTypeOK' /\ DispatchLost => DInv'
<1> SUFFICES ASSUME RunTypeOK', DispatchLost PROVE DInv'
  OBVIOUS
<1>1. DispatchTypeOK'
  <2>1. taken' \in BOOLEAN
    BY DEF DispatchLost
  <2> QED
    BY <2>1, Results, DispatchAssumption DEF DispatchLost, DispatchTypeOK
<1> QED
  BY <1>1, DispatchAssumption DEF DInv, LoopOK, HonestResult, DispatchLost

LEMMA NextDInv == DInv /\ [DispatchNext]_<<runVars, dispatchVars>> => DInv'
<1> SUFFICES ASSUME DInv, [DispatchNext]_<<runVars, dispatchVars>> PROVE DInv'
  OBVIOUS
<1>0. RunTypeOK
  BY DEF DInv, DispatchTypeOK
<1>1. CASE DispatchStep
  BY <1>1, StepDInv
<1>2. CASE (MainReturns \/ Kill) /\ DispatchLost
  <2>1. RunTypeOK'
    BY <1>0, <1>2, RunTypes
  <2> QED
    BY <1>2, <2>1, LostDInv
<1>3. CASE (Env \/ StartAgain \/ UNCHANGED runVars) /\ UNCHANGED dispatchVars
  <2>1. RunTypeOK'
    BY <1>0, <1>3, RunTypes
  <2> QED
    BY <1>3, <2>1 DEF DInv, DispatchTypeOK, LoopOK, HonestResult, dispatchVars
<1> QED
  BY <1>1, <1>2, <1>3 DEF DispatchNext, Env, runVars, dispatchVars

LEMMA DInvariance == DispatchSpec => []DInv
<1> QED
  BY InitDInv, NextDInv, PTL DEF DispatchSpec

(* However answers, lost answers, retries and the end of the context       *)
(* interleave: at most MaxRetries + 1 POSTs, capped waits, true results.   *)
THEOREM ResultsAreHonest == DispatchSpec => []HonestResult
<1>1. DInv => HonestResult
  BY DEF DInv
<1> QED
  BY <1>1, DInvariance, PTL

-----------------------------------------------------------------------------
(* The refinement.                                                         *)

(* The outcome by where the loop is and what it has returned.              *)
LEMMA OutcomeIs ==
    /\ pc = "idle" /\ result = NoResult => Outcome = "none"
    /\ pc \in {"do", "backoff"} /\ result = NoResult => Outcome = "post"
    /\ pc = "heard" /\ result = NoResult =>
          Outcome = IF status = "2xx" THEN "accepted" ELSE "post"
    /\ pc = "idle" /\ result.err = "ok" => Outcome = "accepted"
    /\ pc = "idle" /\ result.err \in {"failed", "cancelled", "build"} => Outcome = "failed"
  BY Results DEF Outcome

LEMMA OutcomeIsNext ==
    /\ pc' = "idle" /\ result' = NoResult => Outcome' = "none"
    /\ pc' \in {"do", "backoff"} /\ result' = NoResult => Outcome' = "post"
    /\ pc' = "heard" /\ result' = NoResult =>
          Outcome' = IF status' = "2xx" THEN "accepted" ELSE "post"
    /\ pc' = "idle" /\ result'.err = "ok" => Outcome' = "accepted"
    /\ pc' = "idle" /\ result'.err \in {"failed", "cancelled", "build"} => Outcome' = "failed"
  BY Results DEF Outcome

Deliver == [ADelivery!Next]_<<Outcome, taken>>

LEMMA DeliverCases ==
    /\ ADelivery!Send => Deliver
    /\ ADelivery!EndpointTakes => Deliver
    /\ ADelivery!PostAccepted => Deliver
    /\ ADelivery!PostFailed => Deliver
    /\ ADelivery!Restart => Deliver
    /\ UNCHANGED <<Outcome, taken>> => Deliver
  BY DEF Deliver, ADelivery!Next

(* A try that was not accepted leaves the outcome open, or fails.          *)
LEMMA AgainDelivers ==
    ASSUME Outcome = "post", result = NoResult, Again, taken' = taken \/ taken' = TRUE
    PROVE  Deliver
<1>1. CASE LastAttempt
  <2>1. pc' = "idle" /\ result' = Result("failed", MaxRetries + 1)
    BY <1>1 DEF Again, Return
  <2>2. Outcome' = "failed"
    BY <2>1, Results, OutcomeIsNext
  <2>3. ADelivery!PostFailed
    BY <2>2 DEF ADelivery!PostFailed
  <2> QED
    BY <2>3, DeliverCases
<1>2. CASE ~LastAttempt
  <2>1. pc' = "backoff" /\ result' = NoResult
    BY <1>2 DEF Again
  <2>2. Outcome' = "post"
    BY <2>1, OutcomeIsNext
  <2>3. CASE taken' = taken
    BY <2>2, <2>3, DeliverCases
  <2>4. CASE taken' = TRUE
    <3>1. ADelivery!EndpointTakes
      BY <2>2, <2>4 DEF ADelivery!EndpointTakes
    <3> QED
      BY <3>1, DeliverCases
  <2> QED
    BY <2>3, <2>4
<1> QED
  BY <1>1, <1>2

LEMMA ReturnFails ==
    ASSUME Outcome = "post", NEW e \in {"cancelled", "build"}, NEW n, Return(Result(e, n)),
           taken' = taken \/ taken' = TRUE
    PROVE  Deliver
<1>1. pc' = "idle" /\ result'.err = e
  BY Results DEF Return
<1>2. Outcome' = "failed"
  BY <1>1, OutcomeIsNext
<1>3. ADelivery!PostFailed
  BY <1>2 DEF ADelivery!PostFailed
<1> QED
  BY <1>3, DeliverCases

LEMMA StepDelivers == DInv /\ DispatchStep => Deliver
<1> SUFFICES ASSUME DInv, DispatchStep PROVE Deliver
  OBVIOUS
<1>a. pc # "idle" => result = NoResult
  BY DEF DInv, LoopOK
<1>1. CASE BeginDispatch
  <2>1. result = NoResult \/ result.err \in {"ok", "failed", "cancelled", "build"}
    <3>1. result.err \in {"none", "ok", "failed", "cancelled", "build"}
      BY DEF DInv, DispatchTypeOK
    <3>2. result # NoResult => result.err # "none"
      BY DEF DInv, LoopOK
    <3> QED
      BY <3>1, <3>2
  <2>2. Outcome # "post"
    BY <1>1, <2>1, OutcomeIs DEF BeginDispatch
  <2>3. Outcome' = "post" /\ taken' = FALSE
    BY <1>1, OutcomeIsNext DEF BeginDispatch
  <2>4. ADelivery!Send
    BY <2>2, <2>3 DEF ADelivery!Send
  <2> QED
    BY <2>4, DeliverCases
<1>2. CASE BuildFails
  <2>1. Outcome = "post"
    BY <1>2, <1>a, OutcomeIs DEF BuildFails
  <2> QED
    BY <1>2, <2>1, ReturnFails DEF BuildFails
<1>3. ASSUME NEW s \in {"2xx", "other"}, Answer(s) PROVE Deliver
  <2>1. Outcome = "post"
    BY <1>3, <1>a, OutcomeIs DEF Answer
  <2>2. pc' = "heard" /\ status' = s /\ result' = NoResult
    BY <1>3, <1>a DEF Answer
  <2>3. CASE s = "2xx"
    <3>1. Outcome' = "accepted"
      BY <2>2, <2>3, OutcomeIsNext
    <3>2. taken' = TRUE
      BY <1>3, <2>3 DEF Answer
    <3>3. ADelivery!PostAccepted
      BY <2>1, <3>1, <3>2 DEF ADelivery!PostAccepted
    <3> QED
      BY <3>3, DeliverCases
  <2>4. CASE s # "2xx"
    <3>1. Outcome' = "post"
      BY <2>2, <2>4, OutcomeIsNext
    <3>2. taken \in BOOLEAN /\ taken' = (taken \/ FALSE)
      BY <1>3, <2>4 DEF Answer, DInv, DispatchTypeOK
    <3>3. taken' = taken
      BY <3>2
    <3> QED
      BY <2>1, <3>1, <3>3, DeliverCases
  <2> QED
    BY <2>3, <2>4
<1>4. CASE NoAnswer
  <2>1. Outcome = "post" /\ result = NoResult
    BY <1>4, <1>a, OutcomeIs DEF NoAnswer
  <2>2. taken' = taken \/ taken' = TRUE
    BY <1>4 DEF NoAnswer
  <2>3. Return(Result("cancelled", attempt + 1)) \/ Again
    BY <1>4 DEF NoAnswer
  <2> QED
    BY <2>1, <2>2, <2>3, ReturnFails, AgainDelivers
<1>5. CASE Judge
  <2>1. pc = "heard" /\ result = NoResult /\ taken' = taken
    BY <1>5, <1>a DEF Judge
  <2>2. CASE Accepted
    <3>1. Outcome = "accepted"
      BY <2>1, <2>2, OutcomeIs DEF Accepted
    <3>2. pc' = "idle" /\ result'.err = "ok"
      BY <1>5, <2>2, Results DEF Judge, Return
    <3>3. Outcome' = "accepted"
      BY <3>2, OutcomeIsNext
    <3> QED
      BY <2>1, <3>1, <3>3, DeliverCases
  <2>3. CASE ~Accepted
    <3>1. Outcome = "post"
      BY <2>1, <2>3, OutcomeIs DEF Accepted
    <3>2. Again
      BY <1>5, <2>3 DEF Judge
    <3> QED
      BY <2>1, <3>1, <3>2, AgainDelivers
  <2> QED
    BY <2>2, <2>3
<1>6. CASE BackoffEnds
  <2>1. Outcome = "post" /\ Outcome' = "post" /\ taken' = taken
    BY <1>6, <1>a, OutcomeIs, OutcomeIsNext DEF BackoffEnds
  <2> QED
    BY <2>1, DeliverCases
<1>7. CASE BackoffCancelled
  <2>1. Outcome = "post" /\ taken' = taken
    BY <1>7, <1>a, OutcomeIs DEF BackoffCancelled
  <2> QED
    BY <1>7, <2>1, ReturnFails DEF BackoffCancelled
<1> QED
  BY <1>1, <1>2, <1>3, <1>4, <1>5, <1>6, <1>7 DEF DispatchStep

LEMMA NextDelivers == DInv /\ [DispatchNext]_<<runVars, dispatchVars>> => Deliver
<1> SUFFICES ASSUME DInv, [DispatchNext]_<<runVars, dispatchVars>> PROVE Deliver
  OBVIOUS
<1>1. CASE DispatchStep
  BY <1>1, StepDelivers
<1>2. CASE DispatchLost
  <2>1. Outcome' = "none" /\ taken' = FALSE
    BY <1>2, OutcomeIsNext DEF DispatchLost
  <2>2. ADelivery!Restart
    BY <2>1 DEF ADelivery!Restart
  <2> QED
    BY <2>2, DeliverCases
<1>3. CASE UNCHANGED dispatchVars
  <2>1. UNCHANGED <<Outcome, taken>>
    BY <1>3 DEF dispatchVars, Outcome
  <2> QED
    BY <2>1, DeliverCases
<1> QED
  BY <1>1, <1>2, <1>3 DEF DispatchNext, dispatchVars

(* Every dispatch is a delivery as Pub/Sub and Cloud Tasks take it for:    *)
(* the loop's steps are steps of it, or none.                              *)
THEOREM DispatchDelivers == DispatchSpec => ImplementsDelivery
<1>1. RunInit /\ DispatchInit => ADelivery!Init
  <2> SUFFICES ASSUME DispatchInit PROVE ADelivery!Init
    OBVIOUS
  <2>1. Outcome = "none" /\ taken = FALSE
    BY OutcomeIs DEF DispatchInit
  <2> QED
    BY <2>1 DEF ADelivery!Init
<1>2. DInv /\ [DispatchNext]_<<runVars, dispatchVars>> => [ADelivery!Next]_<<Outcome, taken>>
  BY NextDelivers DEF Deliver
<1> QED
  BY <1>1, <1>2, DInvariance, PTL DEF DispatchSpec, ImplementsDelivery, ADelivery!Spec

-----------------------------------------------------------------------------
(* The container.                                                          *)

Places == {"none", "lock", "dial", "proxy"} \cup Holding

(* Where a connection is that answers for the container.                   *)
Owning == {"start", "port", "ready", "stop", "remove"}

(* The mutex is held by the one goroutine between Lock and Unlock.         *)
LockOK ==
    /\ conns \in [Conn -> Places]
    /\ \A c \in Conn : conns[c] \in Holding <=> mutex = c
    /\ stopper # "none" <=> mutex = Main

(* A process that has exited leaves nobody to answer for the container,    *)
(* and shutdown stops one that is started.                                 *)
DownOK ==
    /\ ~up => conns = NoConns /\ mutex = Nobody /\ stopper = "none" /\ ~started
    /\ stopper # "none" => started

LInv == LockOK /\ DownOK /\ NothingForgotten /\ StartedHasContainer

LEMMA InitLInv == RunInit /\ LazyInit => LInv
  BY LazyAssumption DEF RunInit, ProcessInit, LazyInit, LInv, LockOK, DownOK, NothingForgotten,
     StartedHasContainer, Places, Holding, NoConns

(* Serving a connection under the mutex: it stays, or is unlocked.         *)
LEMMA StaysLocked ==
    ASSUME LockOK, NEW c \in Conn, NEW place \in Holding,
           conns[c] \in Holding, Goto(c, place), UNCHANGED <<mutex, stopper>>
    PROVE  LockOK' /\ conns'[c] = place
  BY LazyAssumption DEF LockOK, Goto, Places

LEMMA Unlocks ==
    ASSUME LockOK, NEW c \in Conn, NEW place \in {"none", "dial"},
           conns[c] \in Holding, Goto(c, place), mutex' = Nobody, UNCHANGED stopper
    PROVE  LockOK'
  BY LazyAssumption DEF LockOK, Goto, Places, Holding

(* A connection that does not hold the mutex, and is not given it.         *)
LEMMA StaysOut ==
    ASSUME LockOK, NEW c \in Conn, NEW place \in {"none", "lock", "dial", "proxy"},
           conns[c] \notin Holding, Goto(c, place), UNCHANGED <<mutex, stopper>>
    PROVE  LockOK'
  BY LazyAssumption DEF LockOK, Goto, Places, Holding

LEMMA TakesLock ==
    ASSUME LockOK, NEW c \in Conn, conns[c] = "lock", mutex = Nobody,
           Goto(c, "find"), mutex' = c, UNCHANGED stopper
    PROVE  LockOK'
  BY LazyAssumption DEF LockOK, Goto, Places, Holding

(* Only the connection with the mutex answers for the container, and then  *)
(* the service is not started.                                             *)
LEMMA HolderAlone ==
    ASSUME LInv, NEW c \in Conn, conns[c] \in Holding
    PROVE  /\ mutex = c /\ stopper = "none" /\ ~started
           /\ \A d \in Conn : d # c => conns[d] \notin Holding
           /\ container # "absent" => lost \/ conns[c] \in Owning
  BY LazyAssumption DEF LInv, LockOK, NothingForgotten, StartedHasContainer, Owning, Holding

(* A step of a running process needs no care for what an exit leaves.      *)
LEMMA StillUp ==
    ASSUME up, UNCHANGED <<runVars, stopper>>, stopper = "none" \/ (DownOK /\ UNCHANGED started)
    PROVE  DownOK'
  BY DEF DownOK, runVars, process

(* While a connection holds the mutex, what it leaves behind is in order   *)
(* if it still answers for the container, or there is none to answer for.  *)
LEMMA InCharge ==
    ASSUME LockOK', NEW c \in Conn, ~started',
           container' # "absent" => lost' \/ conns'[c] \in Owning
    PROVE  NothingForgotten' /\ StartedHasContainer'
  BY DEF NothingForgotten, StartedHasContainer, Owning

LEMMA SearchInv ==
    ASSUME LInv, NEW c \in Conn, Find(c) \/ Drop(c) \/ Pull(c)
    PROVE  LInv'
<1>1. up /\ conns[c] \in Holding /\ conns[c] \notin Owning /\ UNCHANGED <<runVars, stopper, started>>
  BY DEF Find, Drop, Pull, At, Holding, Owning
<1>2. ~started /\ stopper = "none" /\ (container # "absent" => lost)
  BY <1>1, HolderAlone
<1>3. LockOK'
  <2>1. CASE Find(c) \/ Drop(c)
    <3>1. \E place \in Holding : Goto(c, place) /\ UNCHANGED mutex
      BY <2>1 DEF Find, Drop, Holding
    <3> QED
      BY <1>1, <3>1, StaysLocked DEF LInv
  <2>2. CASE Pull(c)
    <3>1. (Goto(c, "create") /\ UNCHANGED mutex) \/ (Goto(c, "none") /\ mutex' = Nobody)
      BY <2>2 DEF Pull, GiveUp
    <3>2. "create" \in Holding
      BY DEF Holding
    <3> QED
      BY <1>1, <3>1, <3>2, StaysLocked, Unlocks DEF LInv
  <2> QED
    BY <2>1, <2>2
<1>4. container' # "absent" => lost'
  BY <1>2 DEF Find, Drop, Pull
<1>5. ~started'
  BY <1>1, <1>2
<1> QED
  BY <1>1, <1>3, <1>4, <1>5, StillUp, InCharge, <1>2 DEF LInv

LEMMA MakingInv ==
    ASSUME LInv, NEW c \in Conn,
           Create(c) \/ StartContainer(c) \/ HostPort(c) \/ StopUnready(c) \/ RemoveUnready(c)
    PROVE  LInv'
<1>1. up /\ conns[c] \in Holding /\ UNCHANGED <<runVars, stopper, started>>
  BY DEF Create, StartContainer, HostPort, StopUnready, RemoveUnready, At, Holding
<1>2. ~started /\ stopper = "none" /\ (container # "absent" => lost \/ conns[c] \in Owning)
  BY <1>1, HolderAlone
<1>3. \/ \E place \in Owning : Goto(c, place) /\ UNCHANGED mutex
      \/ /\ Goto(c, "none") /\ mutex' = Nobody
         /\ container' # "absent" => lost'
  <2>1. CASE Create(c)
    <3>1. conns[c] \notin Owning
      BY <2>1 DEF Create, At, Owning
    <3> QED
      BY <1>2, <2>1, <3>1 DEF Create, GiveUp, Owning
  <2>2. CASE StartContainer(c)
    BY <2>2 DEF StartContainer, Owning
  <2>3. CASE HostPort(c)
    BY <2>3 DEF HostPort, Owning
  <2>4. CASE StopUnready(c)
    BY <2>4 DEF StopUnready, Owning
  <2>5. CASE RemoveUnready(c)
    BY <2>5 DEF RemoveUnready, GiveUp
  <2> QED
    BY <2>1, <2>2, <2>3, <2>4, <2>5
<1>4. ~started'
  BY <1>1, <1>2
<1>5. CASE \E place \in Owning : Goto(c, place) /\ UNCHANGED mutex
  <2>1. PICK place \in Owning : Goto(c, place) /\ UNCHANGED mutex
    BY <1>5
  <2>2. place \in Holding
    BY DEF Owning, Holding
  <2>3. LockOK' /\ conns'[c] = place
    BY <1>1, <2>1, <2>2, StaysLocked DEF LInv
  <2> QED
    BY <1>1, <1>4, <2>3, StillUp, InCharge, <1>2 DEF LInv
<1>6. CASE Goto(c, "none") /\ mutex' = Nobody /\ (container' # "absent" => lost')
  <2>1. LockOK'
    BY <1>1, <1>6, Unlocks DEF LInv
  <2> QED
    BY <1>1, <1>4, <1>6, <2>1, StillUp, InCharge, <1>2 DEF LInv
<1> QED
  BY <1>3, <1>5, <1>6

(* The two ways to become started: the container runs, and nobody holds    *)
(* the mutex any more.                                                     *)
LEMMA ReadyInv ==
    ASSUME LInv, NEW c \in Conn, Reuse(c) \/ WaitForReady(c)
    PROVE  LInv'
<1>1. up /\ conns[c] \in Holding /\ UNCHANGED <<runVars, stopper, container, lost>>
  BY DEF Reuse, WaitForReady, At, Holding
<1>2. ~started /\ stopper = "none" /\ (container # "absent" => lost \/ conns[c] \in Owning)
  BY <1>1, HolderAlone
<1>3. \/ container = "running" /\ started' = TRUE /\ mutex' = Nobody /\ Goto(c, "dial")
      \/ conns[c] = "reuse" /\ Goto(c, "drop") /\ UNCHANGED <<started, mutex>>
      \/ Goto(c, "stop") /\ UNCHANGED <<started, mutex>>
  BY DEF Reuse, WaitForReady, At
<1>4. CASE container = "running" /\ started' = TRUE /\ mutex' = Nobody /\ Goto(c, "dial")
  <2>1. LockOK'
    BY <1>1, <1>4, Unlocks DEF LInv
  <2>2. NothingForgotten' /\ StartedHasContainer'
    BY <1>1, <1>4 DEF NothingForgotten, StartedHasContainer
  <2> QED
    BY <1>1, <1>2, <2>1, <2>2, StillUp DEF LInv
<1>5. CASE conns[c] = "reuse" /\ Goto(c, "drop") /\ UNCHANGED <<started, mutex>>
  <2>1. "drop" \in Holding /\ "reuse" \notin Owning
    BY DEF Holding, Owning
  <2>2. LockOK'
    BY <1>1, <1>5, <2>1, StaysLocked DEF LInv
  <2>3. ~started' /\ (container' # "absent" => lost')
    BY <1>1, <1>2, <1>5, <2>1
  <2> QED
    BY <1>1, <2>2, <2>3, StillUp, InCharge, <1>2 DEF LInv
<1>6. CASE Goto(c, "stop") /\ UNCHANGED <<started, mutex>>
  <2>1. "stop" \in Holding /\ "stop" \in Owning
    BY DEF Holding, Owning
  <2>2. LockOK' /\ conns'[c] = "stop"
    BY <1>1, <1>6, <2>1, StaysLocked DEF LInv
  <2>3. ~started'
    BY <1>2, <1>6
  <2> QED
    BY <1>1, <2>1, <2>2, <2>3, StillUp, InCharge, <1>2 DEF LInv
<1> QED
  BY <1>3, <1>4, <1>5, <1>6

(* A connection without the mutex changes nothing that matters.            *)
LEMMA OutsideInv ==
    ASSUME LInv, NEW c \in Conn, Accept(c) \/ Lock(c) \/ Dial(c) \/ HangUp(c)
    PROVE  LInv'
<1>1. up /\ conns[c] \notin Holding /\ UNCHANGED <<runVars, stopper, container, started, lost>>
  BY DEF Accept, Lock, Dial, HangUp, At, Holding
<1>2. \/ \E place \in {"none", "lock", "dial", "proxy"} : Goto(c, place) /\ UNCHANGED mutex
      \/ /\ conns[c] = "lock" /\ mutex = Nobody /\ ~started
         /\ Goto(c, "find") /\ mutex' = c
  BY DEF Accept, Lock, Dial, HangUp, At
<1>3. \A d \in Conn : conns[d] \in Owning => conns'[d] = conns[d]
  <2>1. \A d \in Conn : d # c => conns'[d] = conns[d]
    BY <1>2 DEF LInv, LockOK, Goto
  <2> QED
    BY <1>1, <2>1 DEF Owning, Holding
<1>4. NothingForgotten'
  BY <1>1, <1>3 DEF LInv, NothingForgotten, Owning
<1>5. CASE \E place \in {"none", "lock", "dial", "proxy"} : Goto(c, place) /\ UNCHANGED mutex
  <2>1. LockOK'
    BY <1>1, <1>5, StaysOut DEF LInv
  <2>2. StartedHasContainer'
    BY <1>1, <1>5 DEF LInv, StartedHasContainer
  <2> QED
    BY <1>1, <1>4, <2>1, <2>2, StillUp DEF LInv
<1>6. CASE conns[c] = "lock" /\ mutex = Nobody /\ ~started /\ Goto(c, "find") /\ mutex' = c
  <2>1. LockOK'
    BY <1>1, <1>6, TakesLock DEF LInv
  <2>2. StartedHasContainer'
    BY <1>1, <1>6 DEF StartedHasContainer
  <2> QED
    BY <1>1, <1>4, <2>1, <2>2, StillUp DEF LInv
<1> QED
  BY <1>2, <1>5, <1>6

(* Shutdown takes the mutex when it is free, and answers for the container *)
(* of a started service.                                                   *)
LEMMA ShutdownInv ==
    ASSUME LInv, ShutdownStep
    PROVE  LInv'
<1>1. UNCHANGED conns /\ up /\ up'
  BY DEF ShutdownStep, Shutdown, ShutdownStop, ShutdownRemove, StopService, runVars, process
<1>2. DownOK'
  BY <1>1 DEF DownOK, LInv, ShutdownStep, Shutdown, ShutdownStop, ShutdownRemove
<1>3. CASE Shutdown
  <2>1. LockOK'
    BY <1>1, <1>3, LazyAssumption DEF Shutdown, LInv, LockOK
  <2>2. NothingForgotten' /\ StartedHasContainer'
    BY <1>1, <1>3 DEF Shutdown, LInv, NothingForgotten, StartedHasContainer
  <2> QED
    BY <1>2, <2>1, <2>2 DEF LInv
<1>4. CASE ShutdownStop
  <2>1. LockOK'
    BY <1>1, <1>4, LazyAssumption DEF ShutdownStop, LInv, LockOK
  <2>2. started => container \in {"running", "exited"} /\ mutex \in {Nobody, Main}
    BY DEF LInv, StartedHasContainer
  <2>3. StartedHasContainer'
    BY <1>4, <2>2 DEF ShutdownStop, StartedHasContainer
  <2>4. NothingForgotten'
    BY <1>4 DEF ShutdownStop, LInv, DownOK, NothingForgotten
  <2> QED
    BY <1>2, <2>1, <2>3, <2>4 DEF LInv
<1>5. CASE ShutdownRemove
  <2>1. LockOK'
    BY <1>1, <1>5, LazyAssumption DEF ShutdownRemove, LInv, LockOK
  <2>2. NothingForgotten'
    BY <1>5 DEF ShutdownRemove, NothingForgotten
  <2>3. StartedHasContainer'
    BY <1>5 DEF ShutdownRemove, StartedHasContainer
  <2> QED
    BY <1>2, <2>1, <2>2, <2>3 DEF LInv
<1> QED
  BY <1>3, <1>4, <1>5 DEF ShutdownStep

LEMMA EnvironmentInv ==
    ASSUME LInv, Dies \/ DaemonRecovers
    PROVE  LInv'
<1>1. /\ UNCHANGED <<runVars, conns, mutex, stopper, started, lost>>
      /\ container' = container \/ (container = "running" /\ container' = "exited")
  BY DEF Dies, DaemonRecovers
<1>2. LockOK' /\ DownOK'
  BY <1>1 DEF LInv, LockOK, DownOK, runVars, process
<1>3. NothingForgotten' /\ StartedHasContainer'
  BY <1>1 DEF LInv, NothingForgotten, StartedHasContainer
<1> QED
  BY <1>2, <1>3 DEF LInv

(* Steps of the process that do not concern the service.                   *)
LEMMA ElsewhereInv ==
    ASSUME LInv, UNCHANGED lazyVars, up' = up
    PROVE  LInv'
  BY DEF LInv, LockOK, DownOK, NothingForgotten, StartedHasContainer, lazyVars

LEMMA ExitInv ==
    ASSUME LInv, LazyExit
    PROVE  LInv'
<1>1. LockOK'
  BY LazyAssumption DEF LazyExit, LockOK, NoConns, Places, Holding
<1>2. DownOK'
  BY DEF LazyExit, DownOK
<1>3. NothingForgotten' /\ StartedHasContainer'
  BY DEF LazyExit, NothingForgotten, StartedHasContainer
<1> QED
  BY <1>1, <1>2, <1>3 DEF LInv

(* The next process starts as the last one ended: with nobody in charge,   *)
(* and only a container that is known to be lost.                          *)
LEMMA StartAgainInv ==
    ASSUME LInv, StartAgain, CleanupOrphans
    PROVE  LInv'
<1>1. ~up /\ up'
  BY DEF StartAgain, Starts
<1>2. conns = NoConns /\ ~started /\ UNCHANGED <<conns, mutex, stopper, started>>
  BY <1>1 DEF LInv, DownOK, CleanupOrphans
<1>3. \A c \in Conn : conns[c] = "none"
  BY <1>2 DEF NoConns
<1>4. container # "absent" => lost
  BY <1>2, <1>3 DEF LInv, NothingForgotten
<1>5. container' # "absent" => lost'
  BY <1>4 DEF CleanupOrphans
<1>6. NothingForgotten' /\ StartedHasContainer'
  BY <1>2, <1>5 DEF NothingForgotten, StartedHasContainer
<1>7. LockOK' /\ DownOK'
  BY <1>1, <1>2 DEF LInv, LockOK, DownOK
<1> QED
  BY <1>6, <1>7 DEF LInv

LEMMA NextLInv == LInv /\ [LazyNext]_<<runVars, lazyVars>> => LInv'
<1> SUFFICES ASSUME LInv, [LazyNext]_<<runVars, lazyVars>> PROVE LInv'
  OBVIOUS
<1>1. ASSUME NEW c \in Conn, Accept(c) \/ Lock(c) \/ Serve(c) \/ HangUp(c) PROVE LInv'
  BY <1>1, OutsideInv, SearchInv, MakingInv, ReadyInv DEF Serve
<1>2. CASE ShutdownStep \/ Dies \/ DaemonRecovers
  BY <1>2, ShutdownInv, EnvironmentInv
<1>3. CASE RunStep /\ UNCHANGED lazyVars
  <2>1. up' = up
    BY <1>3 DEF RunStep, CheckPorts, Signal, BeginWait, ReturnError, ReturnDone, ReturnTimeout,
       Listen, FailToListen, process
  <2> QED
    BY <1>3, <2>1, ElsewhereInv
<1>4. CASE OthersStep
  <2>1. up' = up
    BY <1>4 DEF OthersStep, FailToServe, StopService, process
  <2> QED
    BY <1>4, <2>1, ElsewhereInv DEF OthersStep
<1>5. CASE (MainReturns \/ Kill) /\ LazyExit
  BY <1>5, ExitInv
<1>6. CASE StartAgain /\ CleanupOrphans
  BY <1>6, StartAgainInv
<1>7. CASE UNCHANGED <<runVars, lazyVars>>
  BY <1>7, ElsewhereInv DEF runVars, process
<1> QED
  BY <1>1, <1>2, <1>3, <1>4, <1>5, <1>6, <1>7 DEF LazyNext, LazyStep

LEMMA LInvHolds == LazySpec => []LInv
  BY InitLInv, NextLInv, PTL DEF LazySpec

-----------------------------------------------------------------------------

(* ensureContainer's mutex: no two connections are ever between its Lock   *)
(* and its Unlock, nor one of them while shutdown is.                      *)
StartsApart ==
    \A c, d \in Conn : conns[c] \in Holding =>
        /\ conns[d] \in Holding => c = d
        /\ stopper = "none"

THEOREM OneStartAtATime == LazySpec => []StartsApart
<1>1. LInv => StartsApart
  BY LazyAssumption DEF LInv, LockOK, StartsApart
<1> QED
  BY <1>1, LInvHolds, PTL

(* Somebody answers for every container, but for those about which a call  *)
(* has failed and those whose process ended before it could remove them.   *)
THEOREM NoneForgotten == LazySpec => []NothingForgotten
<1>1. LInv => NothingForgotten
  BY DEF LInv
<1> QED
  BY <1>1, LInvHolds, PTL

(* A started service has its container, and nobody starts a second one.    *)
THEOREM StartedKeepsContainer == LazySpec => []StartedHasContainer
<1>1. LInv => StartedHasContainer
  BY DEF LInv
<1> QED
  BY <1>1, LInvHolds, PTL


-----------------------------------------------------------------------------
(* One process with both.                                                  *)

(* The container's types but for the mutex, which LockOK speaks of.        *)
LazyVariables ==
    /\ container \in Container /\ works \in BOOLEAN /\ started \in BOOLEAN /\ lost \in BOOLEAN
    /\ stopper \in {"none", "stop", "remove"}
    /\ mutex \in Conn \cup {Nobody, Main}

LEMMA LazyTypesAre == RunTypeOK /\ LockOK /\ LazyVariables => LazyTypeOK
  BY DEF LockOK, Places, LazyVariables, LazyTypeOK

LEMMA ServeVariables ==
    ASSUME LazyVariables, NEW c \in Conn, Accept(c) \/ Lock(c) \/ Serve(c) \/ HangUp(c)
    PROVE  LazyVariables' /\ UNCHANGED runVars
<1>1. CASE Accept(c) \/ Lock(c) \/ HangUp(c)
  BY <1>1 DEF Accept, Lock, HangUp, LazyVariables
<1>2. CASE Find(c) \/ Reuse(c) \/ Drop(c) \/ Pull(c)
  BY <1>2 DEF Find, Reuse, Drop, Pull, GiveUp, LazyVariables, Container
<1>3. CASE Create(c)
  BY <1>3 DEF Create, GiveUp, LazyVariables, Container
<1>4. CASE StartContainer(c) \/ HostPort(c) \/ WaitForReady(c) \/ Dial(c)
  BY <1>4 DEF StartContainer, HostPort, WaitForReady, Dial, LazyVariables, Container
<1>5. CASE StopUnready(c) \/ RemoveUnready(c)
  BY <1>5 DEF StopUnready, RemoveUnready, GiveUp, LazyVariables, Container
<1> QED
  BY <1>1, <1>2, <1>3, <1>4, <1>5 DEF Serve

LEMMA OtherVariables ==
    ASSUME LazyVariables,
           ShutdownStep \/ Dies \/ DaemonRecovers \/ LazyExit \/ CleanupOrphans \/ UNCHANGED lazyVars
    PROVE  LazyVariables'
<1>1. CASE Shutdown \/ ShutdownStop \/ ShutdownRemove
  BY <1>1 DEF Shutdown, ShutdownStop, ShutdownRemove, LazyVariables, Container
<1>2. CASE Dies \/ DaemonRecovers \/ UNCHANGED lazyVars
  BY <1>2 DEF Dies, DaemonRecovers, lazyVars, LazyVariables, Container
<1>3. CASE LazyExit
  BY <1>3 DEF LazyExit, LazyVariables
<1>4. CASE CleanupOrphans
  BY <1>4 DEF CleanupOrphans, LazyVariables, Container
<1> QED
  BY <1>1, <1>2, <1>3, <1>4 DEF ShutdownStep

(* What the container does to Run is that its goroutine ends.              *)
LEMMA ShutdownStops == ShutdownStep => StopService(Lazy) \/ UNCHANGED runVars
  BY DEF ShutdownStep, Shutdown, ShutdownStop, ShutdownRemove

LEMMA LazyStepStops == LazyStep => StopService(Lazy) \/ UNCHANGED runVars
<1>1. ASSUME NEW c \in Conn, Accept(c) \/ Lock(c) \/ Serve(c) \/ HangUp(c) PROVE UNCHANGED runVars
  BY <1>1 DEF Accept, Lock, HangUp, Serve, Find, Reuse, Drop, Pull, Create, StartContainer,
     HostPort, WaitForReady, StopUnready, RemoveUnready, Dial
<1>2. ASSUME Dies \/ DaemonRecovers PROVE UNCHANGED runVars
  BY <1>2 DEF Dies, DaemonRecovers
<1> QED
  BY <1>1, <1>2, ShutdownStops DEF LazyStep

(* To the dispatcher a process with a container is one without.            *)
LEMMA DispatchOfProcess == [Next]_all => [DispatchNext]_<<runVars, dispatchVars>>
<1> SUFFICES ASSUME [Next]_all PROVE DispatchNext \/ UNCHANGED <<runVars, dispatchVars>>
  OBVIOUS
<1>1. CASE ServiceStep
  <2>1. CASE LazyStep /\ UNCHANGED dispatchVars
    BY <2>1, LazyStepStops, LazyAssumption DEF DispatchNext
  <2>2. CASE DispatchStep
    BY <2>2 DEF DispatchNext
  <2>3. CASE StopService(Lazy) /\ UNCHANGED dispatchVars
    BY <2>3, LazyAssumption DEF DispatchNext
  <2> QED
    BY <1>1, <2>1, <2>2, <2>3 DEF ServiceStep
<1>2. CASE ProcessStep
  BY <1>2 DEF ProcessStep, RunOrOther, DispatchNext
<1>3. CASE UNCHANGED all
  BY <1>3 DEF all
<1> QED
  BY <1>1, <1>2, <1>3 DEF Next

(* To the container it is one without a dispatcher, except that the        *)
(* service may end by itself when it is not used.                          *)
LEMMA ContainerOfProcess ==
    [Next]_all => \/ [LazyNext]_<<runVars, lazyVars>>
                  \/ StopService(Lazy) /\ UNCHANGED lazyVars
<1> SUFFICES ASSUME [Next]_all
             PROVE  \/ LazyNext \/ UNCHANGED <<runVars, lazyVars>>
                    \/ StopService(Lazy) /\ UNCHANGED lazyVars
  OBVIOUS
<1>1. CASE ServiceStep
  <2>1. CASE LazyStep
    BY <2>1 DEF LazyNext
  <2>2. CASE DispatchStep /\ UNCHANGED lazyVars
    <3>1. UNCHANGED runVars
      BY <2>2 DEF DispatchStep, BeginDispatch, BuildFails, NoAnswer, Judge, BackoffEnds,
         BackoffCancelled, Answer
    <3> QED
      BY <2>2, <3>1
  <2> QED
    BY <1>1, <2>1, <2>2 DEF ServiceStep
<1>2. CASE ProcessStep
  BY <1>2 DEF ProcessStep, RunOrOther, LazyNext, OthersStep
<1>3. CASE UNCHANGED all
  BY <1>3 DEF all
<1> QED
  BY <1>1, <1>2, <1>3 DEF Next

LEMMA ProcessLazyStep ==
    LInv /\ LazyVariables /\ [Next]_all => LInv' /\ LazyVariables'
<1> SUFFICES ASSUME LInv, LazyVariables, [Next]_all PROVE LInv' /\ LazyVariables'
  OBVIOUS
<1>1. CASE [LazyNext]_<<runVars, lazyVars>>
  <2>1. LInv'
    BY <1>1, NextLInv
  <2>2. LazyVariables'
    BY <1>1, ServeVariables, OtherVariables DEF LazyNext, LazyStep, OthersStep
  <2> QED
    BY <2>1, <2>2
<1>2. CASE StopService(Lazy) /\ UNCHANGED lazyVars
  BY <1>2, ElsewhereInv, OtherVariables DEF StopService, process
<1> QED
  BY <1>1, <1>2, ContainerOfProcess

LEMMA ProcessDispatch == Spec => DispatchSpec
<1>1. Init => RunInit /\ DispatchInit
  BY DEF Init
<1> QED
  BY <1>1, DispatchOfProcess, PTL DEF Spec, DispatchSpec

LEMMA ProcessInv == Spec => [](DInv /\ LInv /\ LazyVariables)
<1>1. Init => LInv /\ LazyVariables
  BY InitLInv DEF Init, LazyInit, LazyVariables, Container
<1>2. LInv /\ LazyVariables /\ [Next]_all => LInv' /\ LazyVariables'
  BY ProcessLazyStep
<1> QED
  BY <1>1, <1>2, ProcessDispatch, DInvariance, PTL DEF Spec

(* LifecycleTypeOK: in a process with a container and a dispatcher, every  *)
(* variable of Run, of the proxy and of the loop is of its type, and the   *)
(* proxy's mutex belongs to the one goroutine between Lock and Unlock.     *)
THEOREM LifecycleTypeCorrect == Spec => []LifecycleTypeOK
<1>1. DInv /\ LInv /\ LazyVariables => LifecycleTypeOK
  BY LazyTypesAre DEF DInv, DispatchTypeOK, LInv, LifecycleTypeOK
<1> QED
  BY <1>1, ProcessInv, PTL

(* What holds of the container and of the dispatcher alone holds in the    *)
(* process they share, however Run's shutdown and the exits of the process *)
(* fall between their steps.  NothingForgotten says nothing of containers  *)
(* about which a call has failed, nor of those whose process ended early.  *)
THEOREM ProcessIsSound ==
    Spec => [](NothingForgotten /\ StartedHasContainer /\ HonestResult)
<1>1. DInv /\ LInv => NothingForgotten /\ StartedHasContainer /\ HonestResult
  BY DEF DInv, LInv
<1> QED
  BY <1>1, ProcessInv, PTL

(* And a dispatch of this process is the delivery that Pub/Sub and Cloud   *)
(* Tasks are modelled with.                                                *)
THEOREM ProcessDelivers == Spec => ImplementsDelivery
  BY ProcessDispatch, DispatchDelivers, PTL
=============================================================================
