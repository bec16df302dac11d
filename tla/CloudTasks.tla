----------------------------- MODULE CloudTasks ------------------------------
(***************************************************************************)
(* The Cloud Tasks emulator: the task store                                *)
(* (internal/cloudtasks/store.go), the dispatch loop and the goroutine it  *)
(* starts for every due task (internal/cloudtasks/service.go), the state   *)
(* file, and the exit and restart of the process.                          *)
(*                                                                         *)
(* A store method holds the mutex throughout, so it is one action.  A      *)
(* goroutine works on a copy of its task and reports back by name, so the  *)
(* task it finds may be another one.  To tell them apart a task carries    *)
(* the serial number of its creation, which the code does not have.        *)
(***************************************************************************)
EXTENDS Integers, FiniteSets

CONSTANTS
    Queue,      \* queue names
    MaxName,    \* bound: task names, k stands for "<queue>/tasks/<k>"
    MaxTasks,   \* bound: tasks the run may create
    Request,    \* what clients ask for as a queue's MaxAttempts
    MaxExits,   \* bound: exits of the process
    DataDir,    \* TRUE if the server was started with a data directory
    NoTask      \* no task of that name

Name == 1..MaxName
Serial == 1..MaxTasks

(* Mistaken variant: the limit is what the client asked for.               *)
AttemptsAsked(r) == r

(* CreateQueue takes 3 for no limit and for the API's -1, "unlimited".     *)
Attempts(r) == IF r <= 0 THEN 3 ELSE r
NoQueue == 0

(* A pending task is waiting for its schedule time or due.                 *)
State == {"waiting", "due", "dispatching"}
Task == [serial : Serial, state : State, count : Nat]

ASSUME BoundsAssumption ==
    /\ MaxName \in Nat /\ MaxTasks \in Nat /\ MaxExits \in Nat
    /\ Request \subseteq Int /\ DataDir \in BOOLEAN
ASSUME NullAssumption == NoTask \notin Task

VARIABLES
    queues,     \* Store.queues: MaxAttempts of each queue, or NoQueue
    tasks,      \* Store.tasks
    counter,    \* Store.counter, which names the tasks that have no name
    disk,       \* cloudtasks/state.json
    phase,      \* the process: "up", "stopping" (context cancelled), "down"
    exits,      \* how often the process has exited
    workers,    \* the dispatchTask goroutines
    created,    \* history: tasks created so far
    stranded    \* history: tasks the last restart loaded as dispatching

store == <<queues, tasks, counter>>
vars == <<store, disk, phase, exits, workers, created, stranded>>

-----------------------------------------------------------------------------

NoTasks == [q \in Queue |-> [n \in Name |-> NoTask]]
EmptyFile == [queues |-> [q \in Queue |-> NoQueue], tasks |-> NoTasks]

Running == phase # "down"
Exists(q) == queues[q] # NoQueue

SetTask(q, n, t) == [tasks EXCEPT ![q] = [k \in Name |-> IF k = n THEN t ELSE @[k]]]
EmptyQueue(q) == [tasks EXCEPT ![q] = [n \in Name |-> NoTask]]

(* What the store writes before it unlocks.  The counter is not part of    *)
(* the file, the state "dispatching" is.                                   *)
Persist == disk' = IF DataDir THEN [queues |-> queues', tasks |-> tasks'] ELSE disk

-----------------------------------------------------------------------------
(* Queues.                                                                 *)

CreateQueue(q, r) ==
    /\ Running
    /\ ~Exists(q)
    /\ queues' = [queues EXCEPT ![q] = Attempts(r)]
    /\ tasks' = EmptyQueue(q)
    /\ UNCHANGED <<counter, phase, exits, workers, created, stranded>>
    /\ Persist

DeleteQueue(q) ==
    /\ Running
    /\ Exists(q)
    /\ queues' = [queues EXCEPT ![q] = NoQueue]
    /\ tasks' = EmptyQueue(q)
    /\ UNCHANGED <<counter, phase, exits, workers, created, stranded>>
    /\ Persist

(* Mistaken variant: the purge is not written.                             *)
PurgeQueueUnwritten(q) ==
    /\ Running
    /\ Exists(q)
    /\ tasks' = EmptyQueue(q)
    /\ UNCHANGED <<queues, counter, disk, phase, exits, workers, created, stranded>>

PurgeQueue(q) ==
    /\ Running
    /\ Exists(q)
    /\ tasks' = EmptyQueue(q)
    /\ UNCHANGED <<queues, counter, phase, exits, workers, created, stranded>>
    /\ Persist

-----------------------------------------------------------------------------
(* Tasks.                                                                  *)

(* A schedule time in the past, or none, makes the task due at once.       *)
Add(q, n, state) ==
    /\ created < MaxTasks
    /\ created' = created + 1
    /\ tasks' = SetTask(q, n, [serial |-> created + 1, state |-> state, count |-> 0])
    /\ UNCHANGED queues
    /\ Persist

CreateNamed(q, n, state) ==
    /\ Running
    /\ Exists(q)
    /\ tasks[q][n] = NoTask
    /\ Add(q, n, state)
    /\ UNCHANGED <<counter, phase, exits, workers, stranded>>

(* The number is used up before the name is looked for: if there is such a *)
(* task, the call fails and leaves a moved counter behind.                 *)
CreateGenerated(q, state) ==
    /\ Running
    /\ Exists(q)
    /\ counter < MaxName
    /\ counter' = counter + 1
    /\ IF tasks[q][counter + 1] = NoTask
       THEN Add(q, counter + 1, state)
       ELSE UNCHANGED <<queues, tasks, disk, created>>
    /\ UNCHANGED <<phase, exits, workers, stranded>>

(* Mistaken variant: the deletion is not written.                          *)
DeleteTaskUnwritten(q, n) ==
    /\ Running
    /\ tasks[q][n] # NoTask
    /\ tasks' = SetTask(q, n, NoTask)
    /\ UNCHANGED <<queues, counter, disk, phase, exits, workers, created, stranded>>

DeleteTask(q, n) ==
    /\ Running
    /\ tasks[q][n] # NoTask
    /\ tasks' = SetTask(q, n, NoTask)
    /\ UNCHANGED queues
    /\ UNCHANGED <<counter, phase, exits, workers, created, stranded>>
    /\ Persist

(* The schedule time arrives, of the task and of its copy in the file.     *)
Ripe(t) == [t EXCEPT !.state = "due"]
Ripen(all, q, n) ==
    [all EXCEPT ![q] = [k \in Name |->
        IF k = n /\ @[k] # NoTask /\ @[k].state = "waiting" THEN Ripe(@[k]) ELSE @[k]]]

ComesDue(q, n) ==
    /\ Running
    /\ tasks[q][n] # NoTask /\ tasks[q][n].state = "waiting"
    /\ tasks' = Ripen(tasks, q, n)
    /\ disk' = [disk EXCEPT !.tasks = Ripen(disk.tasks, q, n)]
    /\ UNCHANGED <<queues, counter, phase, exits, workers, created, stranded>>

-----------------------------------------------------------------------------
(* The dispatch loop and its goroutines.                                   *)

Worker == [queue : Queue, name : Name, serial : Serial, attempt : Nat,
           pc : {"post", "accepted", "failed"}]

(* Mistaken variant: a task is dispatched for the first time only.         *)
DueOnce(q, n) == tasks[q][n] # NoTask /\ tasks[q][n].state = "due" /\ tasks[q][n].count = 0

Due(q, n) == tasks[q][n] # NoTask /\ tasks[q][n].state = "due"

Taken(t) == [t EXCEPT !.state = "dispatching", !.count = @ + 1]

NewWorker(q, n) == [queue |-> q, name |-> n, serial |-> tasks[q][n].serial,
                    attempt |-> tasks[q][n].count + 1, pc |-> "post"]

(* A tick: every due task is marked, counted and given to a goroutine.     *)
(* None of that is written to the file.                                    *)
DueTasks ==
    /\ Running
    /\ \E q \in Queue, n \in Name : Due(q, n)
    /\ tasks' = [q \in Queue |-> [n \in Name |->
                    IF Due(q, n) THEN Taken(tasks[q][n]) ELSE tasks[q][n]]]
    /\ workers' = workers \cup UNION {{NewWorker(q, n) : n \in {k \in Name : Due(q, k)}}
                                        : q \in Queue}
    /\ UNCHANGED <<queues, counter, disk, phase, exits, created, stranded>>

(* Dispatch returns.  There is no second POST (MaxRetries is 0), and once  *)
(* the context is cancelled the first one fails.                           *)
PostAccepted(w) ==
    /\ phase = "up"
    /\ w.pc = "post"
    /\ workers' = (workers \ {w}) \cup {[w EXCEPT !.pc = "accepted"]}
    /\ UNCHANGED <<store, disk, phase, exits, created, stranded>>

PostFailed(w) ==
    /\ Running
    /\ w.pc = "post"
    /\ workers' = (workers \ {w}) \cup {[w EXCEPT !.pc = "failed"]}
    /\ UNCHANGED <<store, disk, phase, exits, created, stranded>>

(* CompleteTask removes whatever task has the name now, if any.            *)
CompleteTask(w) ==
    /\ Running
    /\ w.pc = "accepted"
    /\ tasks' = SetTask(w.queue, w.name, NoTask)
    /\ workers' = workers \ {w}
    /\ UNCHANGED queues
    /\ UNCHANGED <<counter, phase, exits, created, stranded>>
    /\ Persist

(* Mistaken variant: one attempt more.                                     *)
ExhaustedLate(q, t) == t.count > queues[q]

Exhausted(q, t) == t.count >= queues[q]

(* RetryTask finds no task of that name, ...                               *)
RetryGone(w) ==
    /\ Running
    /\ w.pc = "failed"
    /\ tasks[w.queue][w.name] = NoTask
    /\ workers' = workers \ {w}
    /\ UNCHANGED <<store, disk, phase, exits, created, stranded>>

(* ... or one that has used its attempts up and is dropped, ...            *)
RetryDropped(w) ==
    /\ Running
    /\ w.pc = "failed"
    /\ tasks[w.queue][w.name] # NoTask
    /\ Exhausted(w.queue, tasks[w.queue][w.name])
    /\ tasks' = SetTask(w.queue, w.name, NoTask)
    /\ workers' = workers \ {w}
    /\ UNCHANGED queues
    /\ UNCHANGED <<counter, phase, exits, created, stranded>>
    /\ Persist

(* Mistaken variant: the task gets a schedule time and keeps its state.    *)
PostponedOnly(t) == t

(* ... or one that goes back to pending with a later schedule time.        *)
Postponed(t) == [t EXCEPT !.state = "waiting"]

RetryLater(w) ==
    /\ Running
    /\ w.pc = "failed"
    /\ tasks[w.queue][w.name] # NoTask
    /\ ~Exhausted(w.queue, tasks[w.queue][w.name])
    /\ tasks' = SetTask(w.queue, w.name, Postponed(tasks[w.queue][w.name]))
    /\ workers' = workers \ {w}
    /\ UNCHANGED queues
    /\ UNCHANGED <<counter, phase, exits, created, stranded>>
    /\ Persist

-----------------------------------------------------------------------------
(* The life of the process.                                                *)

Shutdown ==
    /\ phase = "up"
    /\ exits < MaxExits
    /\ phase' = "stopping"
    /\ UNCHANGED <<store, disk, exits, workers, created, stranded>>

MemoryLost ==
    /\ queues' = EmptyFile.queues /\ tasks' = NoTasks /\ counter' = 0
    /\ workers' = {} /\ stranded' = {}

(* The process goes away between two store operations: by a kill, by main  *)
(* returning while goroutines, for which nothing waits, still post, or by  *)
(* a panic (PurgeQueue looks its queue up again after the mutex is free,   *)
(* and does not expect that it was deleted).                               *)
Exit ==
    /\ Running
    /\ exits < MaxExits
    /\ phase' = "down" /\ exits' = exits + 1
    /\ MemoryLost
    /\ UNCHANGED <<disk, created>>

(* The process goes away while it writes: what is left does not parse.     *)
ExitInWrite ==
    /\ Running /\ DataDir
    /\ exits < MaxExits
    /\ phase' = "down" /\ exits' = exits + 1
    /\ MemoryLost
    /\ disk' = EmptyFile
    /\ UNCHANGED created

(* NewStore and load: tasks are what the file says, in the state it says.  *)
Restart ==
    /\ phase = "down"
    /\ phase' = "up"
    /\ queues' = disk.queues
    /\ tasks' = disk.tasks
    /\ stranded' = {u \in Serial : \E q \in Queue, n \in Name :
                        /\ disk.tasks[q][n] # NoTask
                        /\ disk.tasks[q][n].serial = u
                        /\ disk.tasks[q][n].state = "dispatching"}
    /\ UNCHANGED <<counter, disk, exits, workers, created>>

-----------------------------------------------------------------------------

Init ==
    /\ queues = EmptyFile.queues /\ tasks = NoTasks /\ counter = 0
    /\ disk = EmptyFile
    /\ phase = "up" /\ exits = 0
    /\ workers = {} /\ created = 0 /\ stranded = {}

Admin ==
    \/ \E q \in Queue, r \in Request : CreateQueue(q, r)
    \/ \E q \in Queue : DeleteQueue(q)
    \/ \E q \in Queue : PurgeQueue(q)

Client ==
    \/ \E q \in Queue, n \in Name, s \in {"waiting", "due"} : CreateNamed(q, n, s)
    \/ \E q \in Queue, s \in {"waiting", "due"} : CreateGenerated(q, s)
    \/ \E q \in Queue, n \in Name : DeleteTask(q, n)

Endpoint == \E w \in workers : PostAccepted(w) \/ PostFailed(w)

Report == \E w \in workers : CompleteTask(w) \/ RetryGone(w) \/ RetryDropped(w) \/ RetryLater(w)

Time == \E q \in Queue, n \in Name : ComesDue(q, n)

Process == Shutdown \/ Exit \/ ExitInWrite \/ Restart

Next == Admin \/ Client \/ DueTasks \/ Endpoint \/ Report \/ Time \/ Process

Spec == Init /\ [][Next]_vars

(* The loop's ticker and its goroutines are scheduled, Dispatch returns as *)
(* its client has a timeout, time passes, a cancelled process exits, and   *)
(* an exited one is started again.                                         *)
Fairness ==
    /\ WF_vars(DueTasks)
    /\ WF_vars(Endpoint)
    /\ WF_vars(Report)
    /\ \A q \in Queue, n \in Name : WF_vars(ComesDue(q, n))
    /\ WF_vars(phase = "stopping" /\ Exit)
    /\ WF_vars(Restart)

LiveSpec == Spec /\ Fairness

-----------------------------------------------------------------------------
(* Properties.                                                             *)

Slots == [Queue -> [Name -> Task \cup {NoTask}]]

(* Every variable is of its type; the limit of a queue is a number of      *)
(* attempts, whatever was asked for.                                       *)
TypeOK ==
    /\ queues \in [Queue -> Nat]
    /\ tasks \in Slots
    /\ counter \in 0..MaxName
    /\ disk \in [queues : [Queue -> Nat], tasks : Slots]
    /\ phase \in {"up", "stopping", "down"}
    /\ exits \in 0..MaxExits
    /\ workers \in SUBSET Worker
    /\ created \in 0..MaxTasks
    /\ stranded \in SUBSET Serial

(* The stored count stays within the limit of the task's queue, whatever   *)
(* goroutine of whatever earlier task of that name reports back: a pending *)
(* task has one left, and no goroutine posts a number beyond the limit.    *)
(* A task is only ever in a queue that exists, so RetryTask never looks at *)
(* the limits of a queue that is not there.                                *)
AttemptsWithinLimit ==
    \A q \in Queue, n \in Name : tasks[q][n] # NoTask =>
        /\ Exists(q)
        /\ tasks[q][n].count <= queues[q]
        /\ tasks[q][n].state # "dispatching" => tasks[q][n].count < queues[q]
        /\ \A w \in workers : w.serial = tasks[q][n].serial =>
                w.queue = q /\ w.name = n /\ w.attempt <= tasks[q][n].count

(* A task marked as dispatching is being dispatched: the goroutine of its  *)
(* last attempt has not reported back.  The only exceptions are the tasks  *)
(* the last restart found so marked in the file.                           *)
Attended ==
    \A q \in Queue, n \in Name :
        tasks[q][n] # NoTask /\ tasks[q][n].state = "dispatching" =>
            \/ tasks[q][n].serial \in stranded
            \/ \E w \in workers : /\ w.serial = tasks[q][n].serial
                                   /\ w.attempt = tasks[q][n].count

(* With a data directory the file of a running server has the queues and   *)
(* the tasks that are in memory, each as it is there or as it was before   *)
(* its present dispatch, one attempt ago.                                  *)
FileLags ==
    Running /\ DataDir =>
        /\ disk.queues = queues
        /\ \A q \in Queue, n \in Name :
            \/ disk.tasks[q][n] = tasks[q][n]
            \/ /\ tasks[q][n] # NoTask /\ disk.tasks[q][n] # NoTask
               /\ tasks[q][n] = Taken(disk.tasks[q][n])
               /\ disk.tasks[q][n].state = "due"

(* The tasks in memory, or in the file while there is no process.          *)
Held == LET slots == IF Running THEN tasks ELSE disk.tasks
        IN  {u \in Serial : \E q \in Queue, n \in Name :
                slots[q][n] # NoTask /\ slots[q][n].serial = u}

(* A task that was completed, dropped, deleted or purged does not come     *)
(* back: neither a goroutine that still works on it nor a restart revives  *)
(* it.                                                                     *)
GoneForGood == [][\A u \in 1..created : u \notin Held => u \notin Held']_vars

(* A task leaves, by success, by its last failure or by a client's hand,   *)
(* whatever the endpoint answers; unless a restart has stranded it.        *)
TaskLeaves == \A u \in Serial : u \in Held ~> u \notin Held \/ u \in stranded
=============================================================================
