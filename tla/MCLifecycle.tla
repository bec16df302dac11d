----------------------------- MODULE MCLifecycle ----------------------------
(***************************************************************************)
(* One process: a lazily started container with two connections, and a     *)
(* dispatch, under Run's context.  The two share nothing else, so a        *)
(* behaviour uses one of them, which the initial state says.               *)
(***************************************************************************)
EXTENDS LazyContainer, Dispatch

VARIABLE used

all == <<runVars, lazyVars, dispatchVars, used>>

Init ==
    /\ RunInit /\ LazyInit /\ DispatchInit
    /\ used \in {"container", "dispatch"}

RunOrOther ==
    \/ RunStep
    \/ \E s \in Service \ {Lazy} : FailToServe(s) \/ StopService(s)

ServiceStep ==
    \/ used = "container" /\ LazyStep /\ UNCHANGED dispatchVars
    \/ used = "dispatch" /\ DispatchStep /\ UNCHANGED lazyVars
    \/ used = "dispatch" /\ StopService(Lazy) /\ UNCHANGED <<lazyVars, dispatchVars>>

ProcessStep ==
    \/ RunOrOther /\ UNCHANGED <<lazyVars, dispatchVars>>
    \/ (MainReturns \/ Kill) /\ LazyExit /\ DispatchLost
    \/ StartAgain /\ CleanupOrphans /\ UNCHANGED dispatchVars

Next == (ServiceStep \/ ProcessStep) /\ UNCHANGED used

(* Goroutines that can go on do, and calls return; a mutex that is free    *)
(* again and again is got; Run's selects and timer fire, and main returns. *)
Fairness ==
    /\ \A c \in Conn : WF_all(Serve(c) /\ UNCHANGED <<dispatchVars, used>>)
    /\ \A c \in Conn : SF_all(Lock(c) /\ UNCHANGED <<dispatchVars, used>>)
    /\ WF_all(ShutdownStep /\ UNCHANGED <<dispatchVars, used>>)
    /\ WF_all((BeginWait \/ ReturnError \/ ReturnTimeout) /\ UNCHANGED <<lazyVars, dispatchVars, used>>)

(* Clients keep trying.                                                    *)
Demand == \A c \in Conn : WF_all(Accept(c) /\ UNCHANGED <<dispatchVars, used>>)

Spec == Init /\ [][Next]_all /\ Fairness /\ Demand

-----------------------------------------------------------------------------

(* What the modules say of their variables.                                *)
LifecycleTypeOK == LazyTypeOK /\ DispatchTypeOK

(* Every connection that waits for the container is proxied or closed.     *)
Answered == \A c \in Conn : conns[c] = "lock" ~> conns[c] \in {"none", "proxy"}

(* Whatever state the container was left in by failed calls and processes  *)
(* that are gone: once the daemon works again, the service gets started.   *)
Recovers == works /\ svc[Lazy] = "listening" ~> started \/ ctxDone \/ ~up

(* Run returns after a signal, whoever does not stop, and as soon as a     *)
(* service has failed.                                                     *)
RunEnds == up /\ (ctxDone \/ \E s \in Service : svc[s] = "failed") ~> stage = "returned" \/ ~up
=============================================================================
