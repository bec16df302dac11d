----------------------------- MODULE ServerRun ------------------------------
(***************************************************************************)
(* The life of one process: main registers the services and calls Run,     *)
(* which looks whether the ports are free, starts a goroutine per service, *)
(* waits for a signal or for the first service to fail, and then for the   *)
(* others, but not for long (internal/server/server.go).  ServerProcess    *)
(* is what a service sees of it.                                           *)
(***************************************************************************)
EXTENDS FiniteSets, ServerProcess

CONSTANT Service    \* the registered services

VARIABLES
    stage,      \* where Run is: "checking", "serving", "waiting", "returned"
    ctxDone,    \* the context of Run is cancelled
    svc,        \* the goroutine of each service
    errCh       \* the services whose errors are in the channel

runVars == <<process, stage, ctxDone, svc, errCh>>

Goroutine == {"none", "starting", "listening", "failed", "stopped"}
NoGoroutines == [s \in Service |-> "none"]

(* checkPorts finds them all free, or Run returns an error.                *)
CheckPorts ==
    /\ up /\ stage = "checking"
    /\ \/ stage' = "serving" /\ svc' = [s \in Service |-> "starting"]
       \/ stage' = "returned" /\ UNCHANGED svc
    /\ UNCHANGED <<process, ctxDone, errCh>>

Listen(s) ==
    /\ up /\ svc[s] = "starting"
    /\ svc' = [svc EXCEPT ![s] = "listening"]
    /\ UNCHANGED <<process, stage, ctxDone, errCh>>

(* Mistaken variant: only a service that has been listening reports.       *)
ReportServing(s) == IF ctxDone \/ svc[s] = "starting" THEN errCh ELSE errCh \cup {s}

(* The channel has room for an error of every service; once the context is *)
(* cancelled nobody wants to know.                                         *)
Report(s) == IF ctxDone THEN errCh ELSE errCh \cup {s}

(* Start returns an error: another process has taken the port since it was *)
(* checked, ...                                                            *)
FailToListen(s) ==
    /\ up /\ svc[s] = "starting"
    /\ svc' = [svc EXCEPT ![s] = "failed"]
    /\ errCh' = Report(s)
    /\ UNCHANGED <<process, stage, ctxDone>>

(* ... or accepting connections has failed.                                *)
FailToServe(s) ==
    /\ up /\ svc[s] = "listening"
    /\ svc' = [svc EXCEPT ![s] = "failed"]
    /\ errCh' = Report(s)
    /\ UNCHANGED <<process, stage, ctxDone>>

(* SIGINT or SIGTERM.                                                      *)
Signal ==
    /\ up /\ stage \in {"serving", "waiting"} /\ ~ctxDone
    /\ ctxDone' = TRUE
    /\ UNCHANGED <<process, stage, svc, errCh>>

(* Start returns because the context is cancelled.                         *)
StopService(s) ==
    /\ up /\ ctxDone /\ svc[s] = "listening"
    /\ svc' = [svc EXCEPT ![s] = "stopped"]
    /\ UNCHANGED <<process, stage, ctxDone, errCh>>

(* The first select of Run takes the cancelled context ...                 *)
BeginWait ==
    /\ up /\ stage = "serving" /\ ctxDone
    /\ stage' = "waiting"
    /\ UNCHANGED <<process, ctxDone, svc, errCh>>

(* ... or an error, which cancels the context and waits for nobody.        *)
ReturnError ==
    /\ up /\ stage = "serving" /\ errCh # {}
    /\ stage' = "returned"
    /\ ctxDone' = TRUE
    /\ UNCHANGED <<process, svc, errCh>>

(* The second select: everybody is done, or five seconds have passed.      *)
ReturnDone ==
    /\ up /\ stage = "waiting"
    /\ \A s \in Service : svc[s] \in {"failed", "stopped"}
    /\ stage' = "returned"
    /\ UNCHANGED <<process, ctxDone, svc, errCh>>

ReturnTimeout ==
    /\ up /\ stage = "waiting"
    /\ stage' = "returned"
    /\ UNCHANGED <<process, ctxDone, svc, errCh>>

ProcessLost ==
    /\ stage' = "checking" /\ ctxDone' = FALSE /\ svc' = NoGoroutines /\ errCh' = {}

(* main returns, and whatever goroutines there still are end.              *)
MainReturns == stage = "returned" /\ Stops /\ ProcessLost

Kill == stage # "returned" /\ Stops /\ ProcessLost

StartAgain == Starts /\ UNCHANGED <<stage, ctxDone, svc, errCh>>

RunInit ==
    /\ ProcessInit
    /\ stage = "checking" /\ ctxDone = FALSE /\ svc = NoGoroutines /\ errCh = {}

RunStep ==
    \/ CheckPorts \/ Signal \/ BeginWait \/ ReturnError \/ ReturnDone \/ ReturnTimeout
    \/ \E s \in Service : Listen(s) \/ FailToListen(s)

-----------------------------------------------------------------------------

RunTypeOK ==
    /\ ProcessTypeOK
    /\ stage \in {"checking", "serving", "waiting", "returned"}
    /\ ctxDone \in BOOLEAN
    /\ svc \in [Service -> Goroutine]
    /\ errCh \in SUBSET Service
=============================================================================
