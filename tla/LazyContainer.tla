--------------------------- MODULE LazyContainer ----------------------------
(***************************************************************************)
(* A service that is a container: the proxy that starts it on the first    *)
(* connection (internal/orchestrator/lazy.go), against a Docker daemon     *)
(* whose calls may fail (internal/orchestrator/runtime.go), in a process   *)
(* that stops and starts (ServerRun).                                      *)
(*                                                                         *)
(* A call that fails may have been carried out or not: its answer was late *)
(* or the context was cancelled meanwhile.  There is one container of the  *)
(* service's name or none.                                                 *)
(***************************************************************************)
EXTENDS ServerRun

CONSTANTS
    Lazy,       \* the service
    Conn,       \* goroutines that serve a connection
    Nobody,     \* the mutex is free
    Main        \* the goroutine that runs Start, and shutdown

ASSUME LazyAssumption == Lazy \in Service /\ Nobody \notin Conn /\ Main \notin Conn /\ Nobody # Main

VARIABLES
    container,  \* the container, as the daemon knows it
    works,      \* the daemon and the image do what they are asked from now on
    mutex,      \* LazyService.mu
    started,    \* LazyService.started, which implies that containerID is set
    conns,      \* where each connection is
    stopper,    \* where shutdown is
    lost        \* history: a call about this container failed, or its process ended early

lazyVars == <<container, works, mutex, started, conns, stopper, lost>>

Container == {"absent", "created", "running", "exited"}
NoConns == [c \in Conn |-> "none"]

(* A call may succeed while its context is not cancelled, and fails only   *)
(* if there is a reason.                                                   *)
MaySucceed == ~ctxDone
MayFail == ~works \/ ctxDone

At(c, pc) == up /\ conns[c] = pc
Goto(c, pc) == conns' = [conns EXCEPT ![c] = pc]

(* Mistaken variant: an error path that does not unlock.                   *)
GiveUpLocked(c) == Goto(c, "none") /\ UNCHANGED mutex

(* ensureContainer returns an error and the connection is closed.          *)
GiveUp(c) == Goto(c, "none") /\ mutex' = Nobody

-----------------------------------------------------------------------------
(* Connections.                                                            *)

Accept(c) ==
    /\ At(c, "none") /\ svc[Lazy] = "listening"
    /\ Goto(c, "lock")
    /\ UNCHANGED <<runVars, container, works, mutex, started, stopper, lost>>

(* Mistaken variant: started is looked at before the mutex is taken.       *)
LockUnguarded(c) ==
    /\ At(c, "lock")
    /\ IF started THEN Goto(c, "dial") /\ UNCHANGED mutex
       ELSE Goto(c, "find") /\ mutex' = c
    /\ UNCHANGED <<runVars, container, works, started, stopper, lost>>

Lock(c) ==
    /\ At(c, "lock") /\ mutex = Nobody
    /\ IF started THEN Goto(c, "dial") /\ UNCHANGED mutex
       ELSE Goto(c, "find") /\ mutex' = c
    /\ UNCHANGED <<runVars, container, works, started, stopper, lost>>

(* FindExisting.  An error counts as none.                                 *)
Find(c) ==
    /\ At(c, "find")
    /\ \/ MaySucceed /\ container = "absent" /\ Goto(c, "pull")
       \/ MaySucceed /\ container = "running" /\ Goto(c, "reuse")
       \/ MaySucceed /\ container \in {"created", "exited"} /\ Goto(c, "drop")
       \/ MayFail /\ Goto(c, "pull")
    /\ UNCHANGED <<runVars, container, works, mutex, started, stopper, lost>>

(* HostPort of a container that was found running.                         *)
Reuse(c) ==
    /\ At(c, "reuse")
    /\ \/ /\ MaySucceed /\ container = "running"
          /\ started' = TRUE /\ mutex' = Nobody
          /\ Goto(c, "dial")
       \/ /\ MayFail \/ container # "running"
          /\ Goto(c, "drop")
          /\ UNCHANGED <<started, mutex>>
    /\ UNCHANGED <<runVars, container, works, stopper, lost>>

(* Mistaken variant: a container that is found and not running is left.    *)
LeaveFound(c) ==
    /\ At(c, "drop")
    /\ Goto(c, "pull")
    /\ UNCHANGED <<runVars, container, works, mutex, started, stopper, lost>>

(* Remove of what was found, whose error is ignored.                       *)
Drop(c) ==
    /\ At(c, "drop")
    /\ Goto(c, "pull")
    /\ \/ container' = "absent" /\ lost' = FALSE
       \/ MayFail /\ UNCHANGED <<container, lost>>
    /\ UNCHANGED <<runVars, works, mutex, started, stopper>>

Pull(c) ==
    /\ At(c, "pull")
    /\ \/ MaySucceed /\ Goto(c, "create") /\ UNCHANGED mutex
       \/ MayFail /\ GiveUp(c)
    /\ UNCHANGED <<runVars, container, works, started, stopper, lost>>

(* The daemon refuses a second container of the name.                      *)
Create(c) ==
    /\ At(c, "create")
    /\ \/ /\ MaySucceed /\ container = "absent"
          /\ container' = "created" /\ lost' = FALSE
          /\ Goto(c, "start") /\ UNCHANGED mutex
       \/ /\ MayFail /\ container = "absent"
          /\ container' = "created" /\ lost' = TRUE
          /\ GiveUp(c)
       \/ /\ MayFail \/ container # "absent"
          /\ GiveUp(c)
          /\ UNCHANGED <<container, lost>>
    /\ UNCHANGED <<runVars, works, started, stopper>>

StartContainer(c) ==
    /\ At(c, "start")
    /\ \/ MaySucceed /\ container' = "running" /\ Goto(c, "port")
       \/ MayFail /\ container' \in {container, "running"} /\ Goto(c, "remove")
    /\ UNCHANGED <<runVars, works, mutex, started, stopper, lost>>

HostPort(c) ==
    /\ At(c, "port")
    /\ \/ MaySucceed /\ container = "running" /\ Goto(c, "ready")
       \/ (MayFail \/ container # "running") /\ Goto(c, "stop")
    /\ UNCHANGED <<runVars, container, works, mutex, started, stopper, lost>>

(* waitForReady looks at the context before each attempt to connect, so it *)
(* may succeed when the context is cancelled already.                      *)
WaitForReady(c) ==
    /\ At(c, "ready")
    /\ \/ /\ container = "running"
          /\ started' = TRUE /\ mutex' = Nobody
          /\ Goto(c, "dial")
       \/ /\ MayFail \/ container # "running"
          /\ Goto(c, "stop")
          /\ UNCHANGED <<started, mutex>>
    /\ UNCHANGED <<runVars, container, works, stopper, lost>>

(* The container is stopped and removed with the same context, so if that  *)
(* is why it did not get ready neither need happen.                        *)
StopUnready(c) ==
    /\ At(c, "stop")
    /\ Goto(c, "remove")
    /\ \/ container' = "exited"
       \/ MayFail /\ UNCHANGED container
    /\ UNCHANGED <<runVars, works, mutex, started, stopper, lost>>

(* Mistaken variant: what did not get ready is stopped only.               *)
LeaveUnready(c) ==
    /\ At(c, "remove")
    /\ GiveUp(c)
    /\ UNCHANGED <<runVars, container, works, started, stopper, lost>>

RemoveUnready(c) ==
    /\ At(c, "remove")
    /\ GiveUp(c)
    /\ \/ container' = "absent" /\ lost' = FALSE
       \/ MayFail /\ UNCHANGED container /\ lost' = TRUE
    /\ UNCHANGED <<runVars, works, started, stopper>>

(* The connection is proxied if there is something to connect to, which is *)
(* not looked after: a container that has died stays "started".            *)
Dial(c) ==
    /\ At(c, "dial")
    /\ Goto(c, IF container = "running" THEN "proxy" ELSE "none")
    /\ UNCHANGED <<runVars, container, works, mutex, started, stopper, lost>>

HangUp(c) ==
    /\ At(c, "proxy")
    /\ Goto(c, "none")
    /\ UNCHANGED <<runVars, container, works, mutex, started, stopper, lost>>

-----------------------------------------------------------------------------
(* The accept loop has ended because the context is cancelled.             *)

Shutdown ==
    /\ up /\ ctxDone /\ svc[Lazy] = "listening"
    /\ stopper = "none" /\ mutex = Nobody
    /\ IF started
       THEN stopper' = "stop" /\ mutex' = Main /\ UNCHANGED runVars
       ELSE StopService(Lazy) /\ UNCHANGED <<stopper, mutex>>
    /\ UNCHANGED <<container, works, started, conns, lost>>

(* These calls have a context of their own.                                *)
ShutdownStop ==
    /\ up /\ stopper = "stop"
    /\ stopper' = "remove"
    /\ \/ container' = "exited"
       \/ ~works /\ UNCHANGED container
    /\ UNCHANGED <<runVars, works, mutex, started, conns, lost>>

(* Mistaken variant: the mutex stays taken when the service has stopped.   *)
ShutdownRemoveLocked ==
    /\ up /\ stopper = "remove"
    /\ stopper' = "none" /\ started' = FALSE
    /\ \/ container' = "absent" /\ lost' = FALSE
       \/ ~works /\ UNCHANGED container /\ lost' = TRUE
    /\ StopService(Lazy)
    /\ UNCHANGED <<works, conns, mutex>>

ShutdownRemove ==
    /\ up /\ stopper = "remove"
    /\ stopper' = "none" /\ mutex' = Nobody /\ started' = FALSE
    /\ \/ container' = "absent" /\ lost' = FALSE
       \/ ~works /\ UNCHANGED container /\ lost' = TRUE
    /\ StopService(Lazy)
    /\ UNCHANGED <<works, conns>>

-----------------------------------------------------------------------------
(* The environment.                                                        *)

Dies ==
    /\ container = "running" /\ ~works
    /\ container' = "exited"
    /\ UNCHANGED <<runVars, works, mutex, started, conns, stopper, lost>>

DaemonRecovers ==
    /\ ~works
    /\ works' = TRUE
    /\ UNCHANGED <<runVars, container, mutex, started, conns, stopper, lost>>

(* The process ends, and its container lives on if there is one.           *)
LazyExit ==
    /\ mutex' = Nobody /\ started' = FALSE /\ conns' = NoConns /\ stopper' = "none"
    /\ lost' = (container # "absent")
    /\ UNCHANGED <<container, works>>

(* Before Run, main removes the containers of earlier processes that are   *)
(* not running, and ignores errors.                                        *)
CleanupOrphans ==
    /\ \/ container' = IF container = "running" THEN "running" ELSE "absent"
       \/ ~works /\ UNCHANGED container
    /\ lost' = (lost /\ container' # "absent")
    /\ UNCHANGED <<works, mutex, started, conns, stopper>>

-----------------------------------------------------------------------------

LazyInit ==
    /\ container = "absent" /\ works = FALSE
    /\ mutex = Nobody /\ started = FALSE /\ conns = NoConns
    /\ stopper = "none" /\ lost = FALSE

Serve(c) ==
    \/ Find(c) \/ Reuse(c) \/ Drop(c) \/ Pull(c) \/ Create(c) \/ StartContainer(c)
    \/ HostPort(c) \/ WaitForReady(c) \/ StopUnready(c) \/ RemoveUnready(c) \/ Dial(c)

ShutdownStep == Shutdown \/ ShutdownStop \/ ShutdownRemove

LazyStep ==
    \/ \E c \in Conn : Accept(c) \/ Lock(c) \/ Serve(c) \/ HangUp(c)
    \/ ShutdownStep \/ Dies \/ DaemonRecovers

(* The other services, each of which is an accept loop of its own.         *)
OthersStep ==
    /\ \E s \in Service \ {Lazy} : FailToServe(s) \/ StopService(s)
    /\ UNCHANGED lazyVars

LazyNext ==
    \/ LazyStep
    \/ RunStep /\ UNCHANGED lazyVars
    \/ OthersStep
    \/ (MainReturns \/ Kill) /\ LazyExit
    \/ StartAgain /\ CleanupOrphans

LazySpec == RunInit /\ LazyInit /\ [][LazyNext]_<<runVars, lazyVars>>

-----------------------------------------------------------------------------
(* Properties.                                                             *)

Holding == {"find", "reuse", "drop", "pull", "create", "start", "port", "ready", "stop", "remove"}

(* Every variable is of its type, and the mutex is held by the one         *)
(* goroutine that is between its Lock and its Unlock.                      *)
LazyTypeOK ==
    /\ RunTypeOK
    /\ container \in Container /\ works \in BOOLEAN /\ started \in BOOLEAN /\ lost \in BOOLEAN
    /\ conns \in [Conn -> {"none", "lock", "dial", "proxy"} \cup Holding]
    /\ stopper \in {"none", "stop", "remove"}
    /\ mutex \in Conn \cup {Nobody, Main}
    /\ \A c \in Conn : conns[c] \in Holding <=> mutex = c
    /\ stopper # "none" <=> mutex = Main

(* Who answers for a container: one there is belongs to a service that     *)
(* is started, or to the connection that is starting or removing it, or a  *)
(* call about it has failed, or the process that made it ended before it   *)
(* could be removed.  In particular, when Start returns at a shutdown, all *)
(* calls having worked, there is none.                                     *)
NothingForgotten ==
    container # "absent" =>
        \/ lost
        \/ started
        \/ \E c \in Conn : conns[c] \in {"start", "port", "ready", "stop", "remove"}

(* A service that is started has its container, unless that died.  Nobody  *)
(* else removes or replaces it, and nobody starts a second time.           *)
StartedHasContainer ==
    started => /\ container \in {"running", "exited"}
               /\ mutex \in {Nobody, Main}
=============================================================================
