---------------------------- MODULE MCCloudTasks -----------------------------
(***************************************************************************)
(* One queue, as tasks of two queues never meet.  It is created with one   *)
(* attempt or with another limit, and may be deleted and created anew.     *)
(***************************************************************************)
EXTENDS CloudTasks

CONSTANTS q1

MCQueue == {q1}
MCRequest == {1, 2}
MCRequestAny == {-1, 1}

(* What the comments of the code say of a task's life.                     *)

(* "PENDING -> schedule time passed? -> DISPATCHING -> HTTP POST": a task  *)
(* that is dispatching is being posted.                                    *)
DispatchingIsPosted ==
    \A q \in Queue, n \in Name :
        tasks[q][n] # NoTask /\ tasks[q][n].state = "dispatching" =>
            \E w \in workers : w.queue = q /\ w.name = n

(* "CompleteTask removes a successfully dispatched task": the task removed *)
(* when a goroutine reports success is the one whose POST succeeded.       *)
CompletesItsOwn ==
    [][\A w \in workers \ workers' :
          Running' /\ w.pc = "accepted" => \A u \in Held \ Held' : u = w.serial]_vars
=============================================================================
