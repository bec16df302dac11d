-------------------------- MODULE CloudTasks_proofs --------------------------
(***************************************************************************)
(* Theorems about CloudTasks, for every set of queues, every limits asked  *)
(* for and every bound.                                                    *)
(***************************************************************************)
EXTENDS CloudTasks, TLAPS

QueuesType == [Queue -> Nat]

LEMMA EmptyTypes ==
    /\ NoTasks \in Slots
    /\ EmptyFile.queues \in QueuesType
    /\ EmptyFile \in [queues : QueuesType, tasks : Slots]
    /\ \A q \in Queue, n \in Name : NoTasks[q][n] = NoTask /\ EmptyFile.tasks[q][n] = NoTask
  BY DEF NoTasks, EmptyFile, Slots, QueuesType, NoQueue

LEMMA LimitType == \A r \in Request : Attempts(r) \in Nat \ {0}
  BY BoundsAssumption DEF Attempts

(* What the updates of the task table make of it. *)
LEMMA SetTaskIs ==
    ASSUME TypeOK, NEW q \in Queue, NEW n \in Name, NEW t \in Task \cup {NoTask}
    PROVE  /\ SetTask(q, n, t) \in Slots
           /\ \A p \in Queue, k \in Name :
                 SetTask(q, n, t)[p][k] = IF p = q /\ k = n THEN t ELSE tasks[p][k]
<1>1. tasks \in Slots
  BY DEF TypeOK
<1> HIDE DEF Task
<1> QED
  BY <1>1 DEF SetTask, Slots

LEMMA EmptyQueueIs ==
    ASSUME TypeOK, NEW q \in Queue
    PROVE  /\ EmptyQueue(q) \in Slots
           /\ \A p \in Queue, k \in Name :
                 EmptyQueue(q)[p][k] = IF p = q THEN NoTask ELSE tasks[p][k]
<1>1. tasks \in Slots
  BY DEF TypeOK
<1> HIDE DEF Task
<1> QED
  BY <1>1 DEF EmptyQueue, Slots

(* What is a task stays the same task, whatever becomes of it. *)
LEMMA TaskChanges ==
    ASSUME NEW t \in Task
    PROVE  /\ t # NoTask
           /\ Taken(t) \in Task /\ Taken(t).serial = t.serial
           /\ Taken(t).state = "dispatching" /\ Taken(t).count = t.count + 1
           /\ Postponed(t) \in Task /\ Postponed(t).serial = t.serial
           /\ Postponed(t).state = "waiting" /\ Postponed(t).count = t.count
           /\ Ripe(t) \in Task
           /\ Ripe(t).serial = t.serial
           /\ Ripe(t).count = t.count
           /\ Ripe(t).state = "due"
<1>1. t # NoTask
  BY NullAssumption
<1>2. /\ Ripe(t) \in Task
      /\ Ripe(t).serial = t.serial
      /\ Ripe(t).count = t.count
      /\ Ripe(t).state = "due"
  BY DEF Task, State, Ripe
<1>3. /\ Postponed(t) \in Task /\ Postponed(t).serial = t.serial
      /\ Postponed(t).state = "waiting" /\ Postponed(t).count = t.count
  BY DEF Task, State, Postponed
<1>4. /\ Taken(t) \in Task /\ Taken(t).serial = t.serial
      /\ Taken(t).state = "dispatching" /\ Taken(t).count = t.count + 1
  <2> DEFINE c == t.count + 1
  <2>1. c \in Nat
    BY DEF Task
  <2>2. Taken(t) = [t EXCEPT !.state = "dispatching", !.count = c]
    BY DEF Taken
  <2> HIDE DEF c
  <2>3. /\ Taken(t) \in Task /\ Taken(t).serial = t.serial
        /\ Taken(t).state = "dispatching" /\ Taken(t).count = c
    BY <2>1, <2>2 DEF Task, State
  <2> QED
    BY <2>3 DEF c
<1> QED
  BY <1>1, <1>2, <1>3, <1>4

LEMMA RipenIs ==
    ASSUME NEW T \in Slots, NEW q \in Queue, NEW n \in Name
    PROVE  /\ Ripen(T, q, n) \in Slots
           /\ \A p \in Queue, k \in Name :
                 Ripen(T, q, n)[p][k] =
                    IF p = q /\ k = n /\ T[p][k] # NoTask /\ T[p][k].state = "waiting"
                    THEN Ripe(T[p][k]) ELSE T[p][k]
<1>1. \A p \in Queue, k \in Name : T[p][k] \in Task \cup {NoTask}
  BY DEF Slots
<1>2. \A p \in Queue, k \in Name :
         T[p][k] # NoTask => Ripe(T[p][k]) \in Task
  BY <1>1, TaskChanges
<1> DEFINE row == [k \in Name |-> IF k = n /\ T[q][k] # NoTask /\ T[q][k].state = "waiting"
                                  THEN Ripe(T[q][k]) ELSE T[q][k]]
<1>3. row \in [Name -> Task \cup {NoTask}]
  BY <1>1, <1>2
<1>4. Ripen(T, q, n) = [T EXCEPT ![q] = row]
  BY DEF Ripen, Slots
<1>5. \A k \in Name : row[k] = IF k = n /\ T[q][k] # NoTask /\ T[q][k].state = "waiting"
                               THEN Ripe(T[q][k]) ELSE T[q][k]
  OBVIOUS
<1> HIDE DEF row, Task
<1> QED
  BY <1>3, <1>4, <1>5 DEF Slots

LEMMA PersistType ==
    ASSUME TypeOK, Persist, queues' \in QueuesType, tasks' \in Slots
    PROVE  disk' \in [queues : QueuesType, tasks : Slots]
  BY DEF TypeOK, Persist, QueuesType

(* The tasks a tick takes, and the goroutines it starts. *)
LEMMA TickIs ==
    ASSUME TypeOK, DueTasks
    PROVE  /\ tasks' \in Slots
           /\ \A q \in Queue, n \in Name :
                 tasks'[q][n] = IF Due(q, n) THEN Taken(tasks[q][n]) ELSE tasks[q][n]
           /\ workers' \in SUBSET Worker
           /\ \A w : w \in workers' <=>
                 w \in workers \/ \E q \in Queue, n \in Name : Due(q, n) /\ w = NewWorker(q, n)
<1>1. \A q \in Queue, n \in Name : tasks[q][n] \in Task \cup {NoTask}
  BY DEF TypeOK, Slots
<1>2. \A q \in Queue, n \in Name : Due(q, n) => tasks[q][n] \in Task
  BY <1>1 DEF Due
<1>3. \A q \in Queue, n \in Name : Due(q, n) => Taken(tasks[q][n]) \in Task
  BY <1>2, TaskChanges
<1>4. \A q \in Queue, n \in Name : Due(q, n) => NewWorker(q, n) \in Worker
  BY <1>2 DEF NewWorker, Worker, Task
<1>5. tasks' = [q \in Queue |-> [n \in Name |->
                  IF Due(q, n) THEN Taken(tasks[q][n]) ELSE tasks[q][n]]]
  BY DEF DueTasks
<1>6. \A w : w \in workers' <=>
         w \in workers \/ \E q \in Queue, n \in Name : Due(q, n) /\ w = NewWorker(q, n)
  BY DEF DueTasks
<1>7. workers' \in SUBSET Worker
  BY <1>4, <1>6 DEF TypeOK
<1>8. tasks' \in Slots
  BY <1>1, <1>3, <1>5 DEF Slots
<1> QED
  BY <1>5, <1>6, <1>7, <1>8

LEMMA WorkerFields ==
    ASSUME TypeOK, NEW w \in workers
    PROVE  /\ w \in Worker /\ w.queue \in Queue /\ w.name \in Name
           /\ w.serial \in Serial /\ w.attempt \in Nat
           /\ tasks[w.queue][w.name] \in Task \cup {NoTask}
  BY DEF TypeOK, Worker, Slots

(* Every step keeps every variable of its type. *)
LEMMA TypeStep == TypeOK /\ [Next]_vars => TypeOK'
<1> SUFFICES ASSUME TypeOK, [Next]_vars PROVE TypeOK'
  OBVIOUS
<1> USE BoundsAssumption
<1>a. /\ queues \in QueuesType /\ tasks \in Slots /\ workers \in SUBSET Worker
      /\ disk \in [queues : QueuesType, tasks : Slots]
      /\ \A q \in Queue, n \in Name : tasks[q][n] \in Task \cup {NoTask}
  BY DEF TypeOK, QueuesType, Slots
<1>b. ASSUME queues' \in QueuesType, tasks' \in Slots, workers' \in SUBSET Worker,
             disk' \in [queues : QueuesType, tasks : Slots],
             counter' \in 0..MaxName, created' \in 0..MaxTasks,
             UNCHANGED <<phase, exits, stranded>>
      PROVE  TypeOK'
  BY <1>b DEF TypeOK, QueuesType
<1>1. ASSUME NEW q \in Queue, NEW r \in Request, CreateQueue(q, r) PROVE TypeOK'
  <2>1. tasks' \in Slots /\ queues' \in QueuesType
    BY <1>1, <1>a, EmptyQueueIs, LimitType DEF CreateQueue, QueuesType
  <2> QED
    BY <1>1, <1>a, <1>b, <2>1, PersistType DEF CreateQueue, TypeOK
<1>2. ASSUME NEW q \in Queue, DeleteQueue(q) \/ PurgeQueue(q) PROVE TypeOK'
  <2>1. tasks' \in Slots /\ queues' \in QueuesType /\ Persist
    BY <1>2, <1>a, EmptyQueueIs DEF DeleteQueue, PurgeQueue, QueuesType, NoQueue
  <2> QED
    BY <1>2, <1>a, <1>b, <2>1, PersistType DEF DeleteQueue, PurgeQueue, TypeOK
<1>3. ASSUME NEW q \in Queue, NEW n \in Name, NEW s \in {"waiting", "due"}, Add(q, n, s)
      PROVE  /\ tasks' \in Slots /\ created' \in 0..MaxTasks /\ UNCHANGED queues
             /\ disk' \in [queues : QueuesType, tasks : Slots]
  <2>1. created + 1 \in Serial /\ created' \in 0..MaxTasks
    BY <1>3 DEF Add, TypeOK, Serial
  <2>2. [serial |-> created + 1, state |-> s, count |-> 0] \in Task
    BY <2>1 DEF Task, State
  <2>3. tasks' \in Slots
    BY <1>3, <2>2, SetTaskIs DEF Add
  <2> QED
    BY <1>3, <1>a, <2>1, <2>3, PersistType DEF Add
<1>4. ASSUME NEW q \in Queue, NEW n \in Name, NEW s \in {"waiting", "due"}, CreateNamed(q, n, s)
      PROVE  TypeOK'
  BY <1>3, <1>4, <1>a, <1>b DEF CreateNamed, TypeOK
<1>5. ASSUME NEW q \in Queue, NEW s \in {"waiting", "due"}, CreateGenerated(q, s)
      PROVE  TypeOK'
  <2>1. counter + 1 \in Name /\ counter' \in 0..MaxName
    BY <1>5 DEF CreateGenerated, TypeOK, Name
  <2>2. CASE tasks[q][counter + 1] = NoTask
    BY <1>3, <1>5, <1>a, <1>b, <2>1, <2>2 DEF CreateGenerated
  <2>3. CASE tasks[q][counter + 1] # NoTask
    BY <1>5, <1>a, <1>b, <2>1, <2>3 DEF CreateGenerated, TypeOK
  <2> QED
    BY <2>2, <2>3
<1>6. ASSUME NEW q \in Queue, NEW n \in Name, DeleteTask(q, n) PROVE TypeOK'
  BY <1>6, <1>a, <1>b, SetTaskIs, PersistType DEF DeleteTask, TypeOK
<1>7. ASSUME NEW q \in Queue, NEW n \in Name, ComesDue(q, n) PROVE TypeOK'
  <2>1. tasks' \in Slots /\ Ripen(disk.tasks, q, n) \in Slots
    BY <1>7, <1>a, RipenIs DEF ComesDue
  <2>2. disk' \in [queues : QueuesType, tasks : Slots]
    BY <1>7, <1>a, <2>1 DEF ComesDue
  <2> QED
    BY <1>7, <1>a, <1>b, <2>1, <2>2 DEF ComesDue, TypeOK
<1>8. CASE DueTasks
  BY <1>8, <1>a, <1>b, TickIs DEF DueTasks, TypeOK
<1>9. ASSUME NEW w \in workers, PostAccepted(w) \/ PostFailed(w) PROVE TypeOK'
  <2>1. w \in Worker
    BY <1>a
  <2>2. [w EXCEPT !.pc = "accepted"] \in Worker /\ [w EXCEPT !.pc = "failed"] \in Worker
    BY <2>1 DEF Worker
  <2>3. workers' \in SUBSET Worker
    BY <1>9, <1>a, <2>2 DEF PostAccepted, PostFailed
  <2> QED
    BY <1>9, <1>a, <1>b, <2>3 DEF PostAccepted, PostFailed, store, TypeOK
<1>10. ASSUME NEW w \in workers, CompleteTask(w) \/ RetryDropped(w) PROVE TypeOK'
  <2>1. tasks' \in Slots /\ Persist /\ UNCHANGED queues
    BY <1>10, WorkerFields, SetTaskIs DEF CompleteTask, RetryDropped
  <2>2. disk' \in [queues : QueuesType, tasks : Slots]
    BY <1>a, <2>1, PersistType
  <2> QED
    BY <1>10, <1>a, <1>b, <2>1, <2>2 DEF CompleteTask, RetryDropped, TypeOK
<1>11. ASSUME NEW w \in workers, RetryGone(w) PROVE TypeOK'
  BY <1>11, <1>a, <1>b DEF RetryGone, store, TypeOK
<1>12. ASSUME NEW w \in workers, RetryLater(w) PROVE TypeOK'
  <2>1. Postponed(tasks[w.queue][w.name]) \in Task
    BY <1>12, WorkerFields, TaskChanges DEF RetryLater
  <2>2. tasks' \in Slots /\ Persist /\ UNCHANGED queues
    BY <1>12, <2>1, WorkerFields, SetTaskIs DEF RetryLater
  <2>3. disk' \in [queues : QueuesType, tasks : Slots]
    BY <1>a, <2>2, PersistType
  <2> QED
    BY <1>12, <1>a, <1>b, <2>2, <2>3 DEF RetryLater, TypeOK
<1>13. CASE Shutdown
  BY <1>13 DEF Shutdown, TypeOK, store
<1>14. CASE Exit \/ ExitInWrite
  <2>1. tasks' \in Slots /\ queues' \in QueuesType /\ disk' \in [queues : QueuesType, tasks : Slots]
    BY <1>14, <1>a, EmptyTypes DEF Exit, ExitInWrite, MemoryLost
  <2> QED
    BY <1>14, <2>1 DEF Exit, ExitInWrite, MemoryLost, TypeOK, QueuesType
<1>15. CASE Restart
  <2>1. stranded' \in SUBSET Serial
    BY <1>15 DEF Restart
  <2> QED
    BY <1>15, <1>a, <2>1 DEF Restart, TypeOK, QueuesType
<1>16. CASE UNCHANGED vars
  BY <1>16 DEF vars, store, TypeOK
<1> QED
  BY <1>1, <1>2, <1>4, <1>5, <1>6, <1>7, <1>8, <1>9, <1>10, <1>11, <1>12, <1>13, <1>14,
     <1>15, <1>16
  DEF Next, Admin, Client, Endpoint, Report, Time, Process

LEMMA TypeInit == Init => TypeOK
  BY BoundsAssumption, EmptyTypes DEF Init, TypeOK, QueuesType

(* No operation, tick, report of a goroutine, exit or restart leaves a     *)
(* variable outside its type.                                              *)
THEOREM TasksTypeCorrect == Spec => []TypeOK
<1>1. Init => TypeOK
  BY TypeInit
<1> QED
  BY <1>1, TypeStep, PTL DEF Spec

-----------------------------------------------------------------------------
(* The inductive invariant.  That no goroutine disturbs a task it was not  *)
(* started for, and that a restart finds only tasks within their limits,   *)
(* rests on two facts about serial numbers: no two tasks share one, and a  *)
(* goroutine finds a task with its serial number only in its own place.    *)

(* The tasks T of the queues Q: in memory, or in the file.                 *)
Sound(Q, T) ==
    /\ \A q \in Queue, n \in Name : T[q][n] # NoTask =>
          /\ Q[q] # NoQueue /\ T[q][n].serial <= created
          /\ T[q][n].count <= Q[q]
          /\ T[q][n].state # "dispatching" => T[q][n].count < Q[q]
    /\ \A q, p \in Queue, n, k \in Name :
          T[q][n] # NoTask /\ T[p][k] # NoTask /\ T[q][n].serial = T[p][k].serial
          => q = p /\ n = k

(* The goroutines and the tasks they were started for.                     *)
Tracked ==
    \A w \in workers :
        /\ w.serial <= created
        /\ \A q \in Queue, n \in Name :
              tasks[q][n] # NoTask /\ tasks[q][n].serial = w.serial =>
                 q = w.queue /\ n = w.name /\ w.attempt <= tasks[q][n].count

NothingWritten ==
    \A q \in Queue, n \in Name : disk.queues[q] = NoQueue /\ disk.tasks[q][n] = NoTask

IInv ==
    /\ TypeOK
    /\ Tracked
    /\ Attended
    /\ FileLags
    /\ ~DataDir => NothingWritten
    /\ Running => Sound(queues, tasks)
    /\ ~Running => workers = {} /\ tasks = NoTasks /\ Sound(disk.queues, disk.tasks)

(* An operation of a running store writes the file as it leaves the store. *)
LEMMA WriteStep ==
    ASSUME IInv, TypeOK', Running, Persist, UNCHANGED phase,
           Sound(queues, tasks)', Tracked', Attended'
    PROVE  IInv'
  BY DEF IInv, Persist, FileLags, Running, NothingWritten

(* Most steps remove tasks, or put one back that has an attempt left, and  *)
(* end at most the goroutine whose task is not dispatching afterwards.     *)
LEMMA TasksKept ==
    ASSUME IInv, Running, TypeOK', UNCHANGED <<created, stranded>>,
           workers' \subseteq workers,
           \A q \in Queue, n \in Name : tasks'[q][n] # NoTask =>
              /\ tasks[q][n] # NoTask
              /\ tasks'[q][n].serial = tasks[q][n].serial
              /\ tasks'[q][n].count = tasks[q][n].count
              /\ queues'[q] = queues[q]
              /\ \/ tasks'[q][n].state = tasks[q][n].state
                 \/ tasks'[q][n].state # "dispatching" /\ tasks[q][n].count < queues[q],
           \A w \in workers : w \notin workers' /\ tasks'[w.queue][w.name] # NoTask
              => tasks'[w.queue][w.name].state # "dispatching"
    PROVE  Sound(queues, tasks)' /\ Tracked' /\ Attended'
<1>1. Sound(queues, tasks) /\ Tracked /\ Attended
  BY DEF IInv
<1>2. Sound(queues, tasks)'
  BY <1>1 DEF Sound
<1>3. Tracked'
  BY <1>1 DEF Tracked
<1>4. ASSUME NEW q \in Queue, NEW n \in Name,
             tasks'[q][n] # NoTask, tasks'[q][n].state = "dispatching",
             tasks'[q][n].serial \notin stranded'
      PROVE  \E w \in workers' : w.serial = tasks'[q][n].serial /\ w.attempt = tasks'[q][n].count
  <2>1. PICK w \in workers : w.serial = tasks[q][n].serial /\ w.attempt = tasks[q][n].count
    BY <1>1, <1>4 DEF Attended
  <2>2. w.queue = q /\ w.name = n
    BY <1>1, <1>4, <2>1 DEF Tracked
  <2>3. w \in workers'
    BY <1>4, <2>2
  <2> QED
    BY <1>4, <2>1, <2>3
<1>5. Attended'
  BY <1>4 DEF Attended
<1> QED
  BY <1>2, <1>3, <1>5

LEMMA IInvStep == IInv /\ [Next]_vars => IInv'
<1> SUFFICES ASSUME IInv, [Next]_vars PROVE IInv'
  OBVIOUS
<1>0. TypeOK /\ TypeOK'
  BY TypeStep DEF IInv
<1>a. \A q \in Queue, n \in Name : /\ tasks[q][n] \in Task \cup {NoTask}
                                   /\ tasks'[q][n] \in Task \cup {NoTask}
                                   /\ queues[q] \in Nat /\ queues'[q] \in Nat
  BY <1>0 DEF TypeOK, Slots
<1>1. ASSUME NEW q \in Queue, NEW r \in Request, CreateQueue(q, r) PROVE IInv'
  <2>1. \A p \in Queue, k \in Name : tasks'[p][k] = IF p = q THEN NoTask ELSE tasks[p][k]
    BY <1>0, <1>1, EmptyQueueIs DEF CreateQueue
  <2>2. \A p \in Queue : p # q => queues'[p] = queues[p]
    BY <1>0, <1>1 DEF CreateQueue, TypeOK
  <2>3. Running /\ Persist /\ UNCHANGED <<created, stranded, phase, workers>>
    BY <1>1 DEF CreateQueue
  <2>4. Sound(queues, tasks)' /\ Tracked' /\ Attended'
    BY <1>0, <2>1, <2>2, <2>3, TasksKept
  <2> QED
    BY <1>0, <2>3, <2>4, WriteStep
<1>2. ASSUME NEW q \in Queue, DeleteQueue(q) \/ PurgeQueue(q) PROVE IInv'
  <2>1. \A p \in Queue, k \in Name : tasks'[p][k] = IF p = q THEN NoTask ELSE tasks[p][k]
    BY <1>0, <1>2, EmptyQueueIs DEF DeleteQueue, PurgeQueue
  <2>2. \A p \in Queue : p # q => queues'[p] = queues[p]
    BY <1>0, <1>2 DEF DeleteQueue, PurgeQueue, TypeOK
  <2>3. Running /\ Persist /\ UNCHANGED <<created, stranded, phase, workers>>
    BY <1>2 DEF DeleteQueue, PurgeQueue
  <2>4. Sound(queues, tasks)' /\ Tracked' /\ Attended'
    BY <1>0, <2>1, <2>2, <2>3, TasksKept
  <2> QED
    BY <1>0, <2>3, <2>4, WriteStep
<1>3. ASSUME NEW q \in Queue, NEW n \in Name, NEW s \in {"waiting", "due"},
             Running, Exists(q), tasks[q][n] = NoTask, Add(q, n, s),
             UNCHANGED <<phase, workers, stranded>>
      PROVE  IInv'
  <2> DEFINE t == [serial |-> created + 1, state |-> s, count |-> 0]
  <2>1. created \in Nat /\ created + 1 \in Serial /\ t \in Task
        /\ t.serial = created + 1 /\ t.state # "dispatching" /\ t.count = 0
    BY <1>0, <1>3, BoundsAssumption DEF Add, TypeOK, Task, State, Serial
  <2> HIDE DEF t
  <2>2. \A p \in Queue, k \in Name :
           tasks'[p][k] = IF p = q /\ k = n THEN t ELSE tasks[p][k]
    <3>1. tasks' = SetTask(q, n, t)
      BY <1>3 DEF Add, t
    <3> QED
      BY <1>0, <2>1, <3>1, SetTaskIs
  <2>3. created' = created + 1 /\ UNCHANGED queues /\ Persist
    BY <1>3 DEF Add
  <2>4. Sound(queues, tasks) /\ Tracked /\ Attended
    BY <1>3 DEF IInv
  <2>5. t # NoTask /\ queues[q] > 0
    BY <1>3, <1>a, <2>1, NullAssumption DEF Exists, NoQueue
  <2>6. Sound(queues, tasks)'
    <3>1. \A p \in Queue, k \in Name : tasks[p][k] # NoTask =>
             tasks[p][k].serial \in Int /\ tasks[p][k].serial <= created
      BY <1>a, <2>4 DEF Sound, Task, Serial
    <3>2. \A p \in Queue, k \in Name : tasks[p][k] # NoTask => tasks[p][k].serial # t.serial
      BY <2>1, <3>1
    <3>3. \A p \in Queue, k \in Name : tasks[p][k] # NoTask => tasks[p][k].serial <= created'
      BY <2>1, <2>3, <3>1
    <3>4. t.serial <= created' /\ queues'[q] # NoQueue /\ t.count < queues'[q] /\ t.count <= queues'[q]
      BY <1>3, <1>a, <2>1, <2>3, <2>5 DEF Exists
    <3>5. queues' = queues
      BY <2>3
    <3> QED
      BY <2>2, <2>4, <3>2, <3>3, <3>4, <3>5 DEF Sound
  <2>7. Tracked'
    <3>1. \A w \in workers : w.serial \in Int /\ w.serial <= created
      BY <1>0, <2>4, WorkerFields DEF Tracked, Serial
    <3>2. \A w \in workers : w.serial <= created' /\ w.serial # t.serial
      BY <2>1, <2>3, <3>1
    <3> QED
      BY <1>3, <2>2, <2>4, <3>2 DEF Tracked
  <2>8. Attended'
    BY <1>3, <2>1, <2>2, <2>4 DEF Attended
  <2> QED
    BY <1>0, <1>3, <2>3, <2>6, <2>7, <2>8, WriteStep
<1>4. ASSUME NEW q \in Queue, NEW n \in Name, NEW s \in {"waiting", "due"}, CreateNamed(q, n, s)
      PROVE  IInv'
  BY <1>3, <1>4 DEF CreateNamed
<1>5. ASSUME NEW q \in Queue, NEW s \in {"waiting", "due"}, CreateGenerated(q, s)
      PROVE  IInv'
  <2>1. CASE tasks[q][counter + 1] = NoTask
    <3>1. counter + 1 \in Name
      BY <1>0, <1>5, BoundsAssumption DEF CreateGenerated, TypeOK, Name
    <3> QED
      BY <1>3, <1>5, <2>1, <3>1 DEF CreateGenerated
  <2>2. CASE tasks[q][counter + 1] # NoTask
    <3>1. UNCHANGED <<queues, tasks, disk, created, phase, exits, workers, stranded>>
      BY <1>5, <2>2 DEF CreateGenerated
    <3> QED
      BY <1>0, <3>1 DEF IInv, Sound, Tracked, Attended, FileLags, Running, NothingWritten
  <2> QED
    BY <2>1, <2>2
<1>6. ASSUME NEW q \in Queue, NEW n \in Name, DeleteTask(q, n) PROVE IInv'
  <2>1. \A p \in Queue, k \in Name :
           tasks'[p][k] = IF p = q /\ k = n THEN NoTask ELSE tasks[p][k]
    BY <1>0, <1>6, SetTaskIs DEF DeleteTask
  <2>2. Running /\ Persist /\ UNCHANGED <<created, stranded, phase, workers, queues>>
    BY <1>6 DEF DeleteTask
  <2>3. Sound(queues, tasks)' /\ Tracked' /\ Attended'
    BY <1>0, <2>1, <2>2, TasksKept
  <2> QED
    BY <1>0, <2>2, <2>3, WriteStep
<1>7. ASSUME NEW q \in Queue, NEW n \in Name, ComesDue(q, n) PROVE IInv'
  <2> DEFINE Ripened(T, U) == \A p \in Queue, k \in Name :
                 U[p][k] = IF p = q /\ k = n /\ T[p][k] # NoTask /\ T[p][k].state = "waiting"
                           THEN Ripe(T[p][k]) ELSE T[p][k]
  <2>1. Ripened(tasks, tasks') /\ Ripened(disk.tasks, disk'.tasks) /\ disk'.queues = disk.queues
    <3>1. tasks \in Slots /\ disk.tasks \in Slots
          /\ disk \in [queues : [Queue -> Nat], tasks : Slots]
      BY <1>0 DEF TypeOK
    <3>2. disk' = [disk EXCEPT !.tasks = Ripen(disk.tasks, q, n)]
      BY <1>7 DEF ComesDue
    <3>3. disk'.tasks = Ripen(disk.tasks, q, n) /\ disk'.queues = disk.queues
      BY <3>1, <3>2
    <3>4. Ripened(disk.tasks, Ripen(disk.tasks, q, n))
      BY <3>1, RipenIs
    <3>5. Ripened(tasks, Ripen(tasks, q, n))
      BY <3>1, RipenIs
    <3>6. tasks' = Ripen(tasks, q, n)
      BY <1>7 DEF ComesDue
    <3> QED
      BY <3>3, <3>4, <3>5, <3>6
  <2>2. Running /\ UNCHANGED <<created, stranded, phase, workers, queues>>
    BY <1>7 DEF ComesDue
  <2>3. \A p \in Queue, k \in Name : tasks'[p][k] # NoTask =>
           /\ tasks[p][k] # NoTask
           /\ tasks'[p][k].serial = tasks[p][k].serial
           /\ tasks'[p][k].count = tasks[p][k].count
           /\ \/ tasks'[p][k].state = tasks[p][k].state
              \/ tasks'[p][k].state # "dispatching" /\ tasks[p][k].count < queues[p]
    <3> SUFFICES ASSUME NEW p \in Queue, NEW k \in Name, tasks'[p][k] # NoTask
        PROVE  /\ tasks[p][k] # NoTask
               /\ tasks'[p][k].serial = tasks[p][k].serial
               /\ tasks'[p][k].count = tasks[p][k].count
               /\ \/ tasks'[p][k].state = tasks[p][k].state
                  \/ tasks'[p][k].state # "dispatching" /\ tasks[p][k].count < queues[p]
      OBVIOUS
    <3>1. CASE tasks'[p][k] = tasks[p][k]
      BY <3>1
    <3>2. CASE tasks'[p][k] # tasks[p][k]
      <4>1. /\ tasks'[p][k] = Ripe(tasks[p][k]) /\ tasks[p][k] # NoTask
            /\ tasks[p][k].state = "waiting"
        BY <2>1, <3>2
      <4>2. tasks[p][k] \in Task
        BY <1>a, <4>1
      <4>3. tasks[p][k].count < queues[p]
        BY <2>2, <4>1 DEF IInv, Sound
      <4>4. /\ Ripe(tasks[p][k]).serial = tasks[p][k].serial
            /\ Ripe(tasks[p][k]).count = tasks[p][k].count
            /\ Ripe(tasks[p][k]).state = "due"
        BY <4>2, TaskChanges
      <4> QED
        BY <4>1, <4>3, <4>4
    <3> QED
      BY <3>1, <3>2
  <2>4. Sound(queues, tasks)' /\ Tracked' /\ Attended'
    BY <1>0, <2>2, <2>3, TasksKept
  <2>5. FileLags'
    <3>1. SUFFICES ASSUME DataDir, NEW p \in Queue, NEW k \in Name
          PROVE  \/ disk'.tasks[p][k] = tasks'[p][k]
                 \/ /\ tasks'[p][k] # NoTask /\ disk'.tasks[p][k] # NoTask
                    /\ tasks'[p][k] = Taken(disk'.tasks[p][k])
                    /\ disk'.tasks[p][k].state = "due"
      BY <2>1, <2>2 DEF FileLags, IInv
    <3>2. \/ disk.tasks[p][k] = tasks[p][k]
          \/ /\ tasks[p][k] # NoTask /\ disk.tasks[p][k] # NoTask
             /\ tasks[p][k] = Taken(disk.tasks[p][k])
             /\ disk.tasks[p][k].state = "due"
      BY <2>2, <3>1 DEF FileLags, IInv
    <3>3. CASE disk.tasks[p][k] = tasks[p][k]
      BY <2>1, <3>3
    <3>4. CASE /\ tasks[p][k] # NoTask /\ disk.tasks[p][k] # NoTask
               /\ tasks[p][k] = Taken(disk.tasks[p][k])
               /\ disk.tasks[p][k].state = "due"
      <4>1. disk.tasks[p][k] \in Task
        BY <1>0, <3>4 DEF TypeOK, Slots
      <4>2. tasks[p][k].state = "dispatching"
        BY <3>4, <4>1, TaskChanges
      <4>3. tasks'[p][k] = tasks[p][k] /\ disk'.tasks[p][k] = disk.tasks[p][k]
        BY <2>1, <3>4, <4>2
      <4> QED
        BY <3>4, <4>3
    <3> QED
      BY <3>2, <3>3, <3>4
  <2>6. ~DataDir => NothingWritten'
    BY <2>1 DEF IInv, NothingWritten
  <2> QED
    BY <1>0, <2>2, <2>4, <2>5, <2>6 DEF IInv, Running
<1>8. CASE DueTasks
  <2>1. \A q \in Queue, n \in Name :
           tasks'[q][n] = IF Due(q, n) THEN Taken(tasks[q][n]) ELSE tasks[q][n]
    BY <1>0, <1>8, TickIs
  <2>2. \A w : w \in workers' <=>
           w \in workers \/ \E q \in Queue, n \in Name : Due(q, n) /\ w = NewWorker(q, n)
    BY <1>0, <1>8, TickIs
  <2>3. Running /\ UNCHANGED <<queues, disk, phase, created, stranded>>
    BY <1>8 DEF DueTasks
  <2>4. Sound(queues, tasks) /\ Tracked /\ Attended
    BY <2>3 DEF IInv
  <2>5. \A q \in Queue, n \in Name : Due(q, n) =>
           /\ tasks[q][n] \in Task /\ tasks[q][n] # NoTask /\ tasks'[q][n] # NoTask
           /\ tasks'[q][n].serial = tasks[q][n].serial
           /\ tasks'[q][n].state = "dispatching"
           /\ tasks'[q][n].count = tasks[q][n].count + 1
           /\ tasks[q][n].count \in Nat /\ tasks[q][n].count < queues[q]
    <3>1. \A q \in Queue, n \in Name : Due(q, n) =>
             tasks[q][n] \in Task /\ tasks[q][n].count < queues[q]
      BY <1>a, <2>4 DEF Due, Sound
    <3>2. \A t \in Task : t.count \in Nat
      BY DEF Task
    <3>3. ASSUME NEW q \in Queue, NEW n \in Name, Due(q, n)
          PROVE  /\ tasks[q][n] # NoTask /\ Taken(tasks[q][n]) # NoTask
                 /\ Taken(tasks[q][n]).serial = tasks[q][n].serial
                 /\ Taken(tasks[q][n]).state = "dispatching"
                 /\ Taken(tasks[q][n]).count = tasks[q][n].count + 1
      BY <3>1, <3>3, TaskChanges, NullAssumption
    <3> QED
      BY <2>1, <3>1, <3>2, <3>3
  <2>6. Sound(queues, tasks)'
    <3>1. \A q \in Queue, n \in Name : tasks'[q][n] # NoTask =>
             tasks[q][n] # NoTask /\ tasks'[q][n].serial = tasks[q][n].serial
      BY <2>1, <2>5
    <3>2. \A q \in Queue, n \in Name : Due(q, n) => tasks'[q][n].count <= queues[q]
      BY <1>a, <2>5
    <3> QED
      BY <2>1, <2>3, <2>4, <2>5, <3>1, <3>2 DEF Sound
  <2>7. Tracked'
    <3>1. ASSUME NEW w \in workers, NEW q \in Queue, NEW n \in Name,
                 tasks'[q][n] # NoTask, tasks'[q][n].serial = w.serial
          PROVE  q = w.queue /\ n = w.name /\ w.attempt <= tasks'[q][n].count
      <4>1. CASE Due(q, n)
        <5>1. q = w.queue /\ n = w.name /\ w.attempt <= tasks[q][n].count
          BY <2>4, <2>5, <3>1, <4>1 DEF Tracked
        <5> QED
          BY <1>0, <2>5, <4>1, <5>1, WorkerFields
      <4>2. CASE ~Due(q, n)
        BY <2>1, <2>4, <3>1, <4>2 DEF Tracked
      <4> QED
        BY <4>1, <4>2
    <3>2. ASSUME NEW p \in Queue, NEW k \in Name, Due(p, k),
                 NEW q \in Queue, NEW n \in Name,
                 tasks'[q][n] # NoTask, tasks'[q][n].serial = NewWorker(p, k).serial
          PROVE  q = p /\ n = k /\ NewWorker(p, k).attempt <= tasks'[q][n].count
      <4>1. NewWorker(p, k).serial = tasks[p][k].serial
            /\ NewWorker(p, k).attempt = tasks[p][k].count + 1
        BY DEF NewWorker
      <4>2. tasks[q][n] # NoTask /\ tasks[q][n].serial = tasks[p][k].serial
        BY <2>1, <2>5, <3>2, <4>1
      <4>3. q = p /\ n = k
        BY <2>4, <2>5, <3>2, <4>2 DEF Sound
      <4> QED
        BY <2>5, <3>2, <4>1, <4>3
    <3>3. \A p \in Queue, k \in Name : Due(p, k) =>
             /\ NewWorker(p, k).queue = p /\ NewWorker(p, k).name = k
             /\ NewWorker(p, k).serial <= created
      BY <2>4, <2>5 DEF Sound, NewWorker
    <3>4. \A w \in workers : w.serial <= created'
      BY <2>3, <2>4 DEF Tracked
    <3> QED
      BY <2>2, <2>3, <3>1, <3>2, <3>3, <3>4 DEF Tracked
  <2>8. Attended'
    <3>1. ASSUME NEW q \in Queue, NEW n \in Name, Due(q, n)
          PROVE  \E w \in workers' : w.serial = tasks'[q][n].serial /\ w.attempt = tasks'[q][n].count
      <4>1. NewWorker(q, n) \in workers'
        BY <2>2, <3>1
      <4>2. NewWorker(q, n).serial = tasks[q][n].serial
            /\ NewWorker(q, n).attempt = tasks[q][n].count + 1
        BY DEF NewWorker
      <4> QED
        BY <2>5, <3>1, <4>1, <4>2
    <3>2. ASSUME NEW q \in Queue, NEW n \in Name, ~Due(q, n),
                 tasks'[q][n] # NoTask, tasks'[q][n].state = "dispatching"
          PROVE  \/ tasks'[q][n].serial \in stranded'
                 \/ \E w \in workers' : w.serial = tasks'[q][n].serial
                                        /\ w.attempt = tasks'[q][n].count
      BY <2>1, <2>2, <2>3, <2>4, <3>2 DEF Attended
    <3> QED
      BY <3>1, <3>2 DEF Attended
  <2>9. FileLags'
    <3>1. SUFFICES ASSUME DataDir, NEW q \in Queue, NEW n \in Name
          PROVE  \/ disk.tasks[q][n] = tasks'[q][n]
                 \/ /\ tasks'[q][n] # NoTask /\ disk.tasks[q][n] # NoTask
                    /\ tasks'[q][n] = Taken(disk.tasks[q][n])
                    /\ disk.tasks[q][n].state = "due"
      BY <2>3 DEF FileLags, IInv
    <3>2. \/ disk.tasks[q][n] = tasks[q][n]
          \/ /\ tasks[q][n] # NoTask /\ disk.tasks[q][n] # NoTask
             /\ tasks[q][n] = Taken(disk.tasks[q][n])
             /\ disk.tasks[q][n].state = "due"
      BY <2>3, <3>1 DEF FileLags, IInv
    <3>3. CASE Due(q, n)
      <4>1. tasks[q][n].state # "dispatching"
        BY <3>3 DEF Due
      <4>2. disk.tasks[q][n] \in Task \cup {NoTask}
        BY <1>0 DEF TypeOK, Slots
      <4>3. disk.tasks[q][n] = tasks[q][n]
        BY <3>2, <4>1, <4>2, TaskChanges
      <4> QED
        BY <2>1, <2>5, <3>3, <4>3 DEF Due
    <3>4. CASE ~Due(q, n)
      BY <2>1, <3>2, <3>4
    <3> QED
      BY <3>3, <3>4
  <2> QED
    BY <1>0, <2>3, <2>6, <2>7, <2>8, <2>9 DEF IInv, Running, NothingWritten
<1>9. ASSUME NEW w \in workers, PostAccepted(w) \/ PostFailed(w) PROVE IInv'
  <2>1. PICK v : /\ workers' = (workers \ {w}) \cup {v}
                 /\ v.queue = w.queue /\ v.name = w.name /\ v.serial = w.serial
                 /\ v.attempt = w.attempt
    <3>1. w \in Worker
      BY <1>0 DEF TypeOK
    <3>2. ASSUME NEW pc
          PROVE  LET v == [w EXCEPT !.pc = pc]
                 IN  /\ v.queue = w.queue /\ v.name = w.name /\ v.serial = w.serial
                     /\ v.attempt = w.attempt
      BY <3>1 DEF Worker
    <3>3. \/ workers' = (workers \ {w}) \cup {[w EXCEPT !.pc = "accepted"]}
          \/ workers' = (workers \ {w}) \cup {[w EXCEPT !.pc = "failed"]}
      BY <1>9 DEF PostAccepted, PostFailed
    <3> QED
      BY <3>2, <3>3
  <2>2. Running /\ UNCHANGED <<queues, tasks, disk, phase, created, stranded>>
    BY <1>9 DEF PostAccepted, PostFailed, Running, store
  <2>3. Tracked'
    BY <2>1, <2>2 DEF Tracked, IInv
  <2>4. Attended'
    BY <2>1, <2>2 DEF Attended, IInv
  <2> QED
    BY <1>0, <2>2, <2>3, <2>4 DEF IInv, Sound, FileLags, Running, NothingWritten
<1>10. ASSUME NEW w \in workers, CompleteTask(w) \/ RetryDropped(w) PROVE IInv'
  <2>1. \A p \in Queue, k \in Name :
           tasks'[p][k] = IF p = w.queue /\ k = w.name THEN NoTask ELSE tasks[p][k]
    BY <1>0, <1>10, WorkerFields, SetTaskIs DEF CompleteTask, RetryDropped
  <2>2. Running /\ Persist /\ UNCHANGED <<created, stranded, phase, queues>>
        /\ workers' = workers \ {w}
    BY <1>10 DEF CompleteTask, RetryDropped
  <2>3. tasks'[w.queue][w.name] = NoTask
    BY <1>0, <2>1, WorkerFields
  <2>4. Sound(queues, tasks)' /\ Tracked' /\ Attended'
    BY <1>0, <2>1, <2>2, <2>3, TasksKept
  <2> QED
    BY <1>0, <2>2, <2>4, WriteStep
<1>11. ASSUME NEW w \in workers, RetryGone(w) PROVE IInv'
  <2>1. Running /\ UNCHANGED <<queues, tasks, disk, created, stranded, phase>>
        /\ workers' = workers \ {w} /\ tasks[w.queue][w.name] = NoTask
    BY <1>11 DEF RetryGone, store
  <2>2. Sound(queues, tasks)' /\ Tracked' /\ Attended'
    BY <1>0, <2>1, TasksKept
  <2> QED
    BY <1>0, <2>1, <2>2 DEF IInv, FileLags, Running, NothingWritten
<1>12. ASSUME NEW w \in workers, RetryLater(w) PROVE IInv'
  <2> DEFINE t == tasks[w.queue][w.name]
  <2>1. t \in Task /\ t.count < queues[w.queue]
    BY <1>0, <1>12, <1>a, WorkerFields DEF RetryLater, Exhausted, Task
  <2>2. Postponed(t) \in Task /\ Postponed(t).serial = t.serial
        /\ Postponed(t).state = "waiting" /\ Postponed(t).count = t.count
    BY <2>1, TaskChanges
  <2>3. \A p \in Queue, k \in Name :
           tasks'[p][k] = IF p = w.queue /\ k = w.name THEN Postponed(t) ELSE tasks[p][k]
    BY <1>0, <1>12, <2>2, WorkerFields, SetTaskIs DEF RetryLater
  <2>4. Running /\ Persist /\ UNCHANGED <<created, stranded, phase, queues>>
        /\ workers' = workers \ {w} /\ t # NoTask
    BY <1>12 DEF RetryLater
  <2>5. tasks'[w.queue][w.name].state = "waiting"
    BY <1>0, <2>2, <2>3, WorkerFields
  <2>6. Sound(queues, tasks)' /\ Tracked' /\ Attended'
    BY <1>0, <2>1, <2>2, <2>3, <2>4, <2>5, TasksKept
  <2> QED
    BY <1>0, <2>4, <2>6, WriteStep
<1>13. CASE Shutdown
  <2>1. Running /\ Running' /\ UNCHANGED <<store, disk, workers, created, stranded>>
    BY <1>13 DEF Shutdown, Running
  <2> QED
    BY <1>0, <2>1 DEF IInv, Sound, Tracked, Attended, FileLags, store, NothingWritten
<1>14. CASE Exit \/ ExitInWrite
  <2>1. /\ Running /\ ~Running' /\ created' = created
        /\ workers' = {} /\ tasks' = NoTasks
        /\ disk' = disk \/ disk' = EmptyFile
    BY <1>14 DEF Exit, ExitInWrite, MemoryLost, Running
  <2>2. NothingWritten => Sound(disk.queues, disk.tasks)
    BY DEF NothingWritten, Sound
  <2>3. Sound(EmptyFile.queues, EmptyFile.tasks)
    BY EmptyTypes DEF Sound
  <2>4. DataDir => Sound(disk.queues, disk.tasks)
    <3> SUFFICES ASSUME DataDir PROVE Sound(disk.queues, disk.tasks)
      OBVIOUS
    <3>1. Sound(queues, tasks) /\ FileLags
      BY <2>1 DEF IInv
    <3>2. \A q \in Queue, n \in Name : disk.tasks[q][n] \in Task \cup {NoTask}
      BY <1>0 DEF TypeOK, Slots
    <3>3. ASSUME NEW q \in Queue, NEW n \in Name, disk.tasks[q][n] # NoTask
          PROVE  /\ tasks[q][n] # NoTask /\ tasks[q][n].serial = disk.tasks[q][n].serial
                 /\ disk.tasks[q][n].count <= queues[q]
                 /\ disk.tasks[q][n].state # "dispatching" => disk.tasks[q][n].count < queues[q]
      <4>1. CASE disk.tasks[q][n] = tasks[q][n]
        BY <3>1, <3>3, <4>1 DEF Sound
      <4>2. CASE tasks[q][n] # NoTask /\ tasks[q][n] = Taken(disk.tasks[q][n])
        <5>1. tasks[q][n].serial = disk.tasks[q][n].serial
              /\ tasks[q][n].count = disk.tasks[q][n].count + 1
          <6>1. disk.tasks[q][n] \in Task
            BY <3>2, <3>3
          <6>2. /\ Taken(disk.tasks[q][n]).serial = disk.tasks[q][n].serial
                /\ Taken(disk.tasks[q][n]).count = disk.tasks[q][n].count + 1
            BY <6>1, TaskChanges
          <6> QED
            BY <4>2, <6>2
        <5>2. tasks[q][n].count <= queues[q]
          BY <3>1, <4>2 DEF Sound
        <5>3. disk.tasks[q][n].count \in Nat /\ queues[q] \in Nat
          BY <1>a, <3>2, <3>3 DEF Task
        <5> QED
          BY <4>2, <5>1, <5>2, <5>3
      <4> QED
        BY <2>1, <3>1, <4>1, <4>2 DEF FileLags
    <3>4. disk.queues = queues
      BY <2>1, <3>1 DEF FileLags
    <3> QED
      BY <3>1, <3>3, <3>4 DEF Sound
  <2>5. Sound(disk.queues, disk.tasks)'
    BY <2>1, <2>2, <2>3, <2>4 DEF IInv, Sound
  <2>6. ~DataDir => NothingWritten'
    BY <1>14, EmptyTypes DEF Exit, ExitInWrite, IInv, NothingWritten
  <2>7. Tracked' /\ FileLags' /\ Attended'
    BY <2>1, EmptyTypes DEF Tracked, FileLags, Attended
  <2> QED
    BY <1>0, <2>1, <2>5, <2>6, <2>7 DEF IInv
<1>15. CASE Restart
  <2>1. /\ ~Running /\ Running' /\ workers' = {} /\ workers = {}
        /\ queues' = disk.queues /\ tasks' = disk.tasks /\ UNCHANGED <<disk, created>>
    BY <1>15 DEF Restart, Running, IInv
  <2>2. Attended'
    <3>1. ASSUME NEW q \in Queue, NEW n \in Name,
                 tasks'[q][n] # NoTask, tasks'[q][n].state = "dispatching"
          PROVE  tasks'[q][n].serial \in stranded'
      <4>1. tasks'[q][n].serial \in Serial
        BY <1>a, <3>1 DEF Task
      <4> QED
        BY <1>15, <2>1, <3>1, <4>1 DEF Restart
    <3> QED
      BY <3>1 DEF Attended
  <2>3. Sound(queues, tasks)' /\ Tracked' /\ FileLags' /\ (~DataDir => NothingWritten')
    BY <2>1 DEF IInv, Sound, Tracked, FileLags, NothingWritten
  <2> QED
    BY <1>0, <2>1, <2>2, <2>3 DEF IInv
<1>16. CASE UNCHANGED vars
  BY <1>0, <1>16 DEF vars, store, IInv, Sound, Tracked, Attended, FileLags, Running, NothingWritten
<1> QED
  BY <1>1, <1>2, <1>4, <1>5, <1>6, <1>7, <1>8, <1>9, <1>10, <1>11, <1>12, <1>13, <1>14,
     <1>15, <1>16
  DEF Next, Admin, Client, Endpoint, Report, Time, Process

LEMMA Invariance == Spec => []IInv
<1>1. Init => IInv
  <2> SUFFICES ASSUME Init PROVE IInv
    OBVIOUS
  <2>1. /\ disk = EmptyFile /\ tasks = NoTasks /\ queues = EmptyFile.queues
        /\ workers = {} /\ Running
    BY DEF Init, Running
  <2>2. EmptyFile.tasks = NoTasks /\ \A q \in Queue : EmptyFile.queues[q] = NoQueue
    BY DEF EmptyFile
  <2>3. Sound(queues, tasks) /\ NothingWritten
    BY <2>1, <2>2, EmptyTypes DEF Sound, NothingWritten
  <2>4. Tracked /\ Attended /\ FileLags
    BY <2>1, <2>2, EmptyTypes DEF Tracked, Attended, FileLags
  <2> QED
    BY <2>1, <2>3, <2>4, TypeInit DEF IInv
<1> QED
  BY <1>1, IInvStep, PTL DEF Spec

(* The stored counts stay within the limits whatever is deleted,           *)
(* re-created, reported back by name or loaded from the file.  A kill      *)
(* forgets a count that was not written, so POSTs across kills may exceed  *)
(* them.                                                                   *)
THEOREM LimitsKept == Spec => []AttemptsWithinLimit
<1>1. IInv => AttemptsWithinLimit
  BY DEF IInv, AttemptsWithinLimit, Sound, Tracked, Exists, NoTasks
<1> QED
  BY <1>1, Invariance, PTL

(* No tick, report or deletion leaves a task marked as dispatching behind  *)
(* without its goroutine; only a restart does.                             *)
THEOREM DispatchesAttended == Spec => []Attended
<1>1. IInv => Attended
  BY DEF IInv
<1> QED
  BY <1>1, Invariance, PTL

(* The state file is never more than one attempt of each task behind.      *)
THEOREM FileOneAttemptBehind == Spec => []FileLags
<1>1. IInv => FileLags
  BY DEF IInv
<1> QED
  BY <1>1, Invariance, PTL

-----------------------------------------------------------------------------
(* Tasks that are gone.                                                    *)

(* A step of a running store puts no task where there was another one,     *)
(* except for a new one with the next serial number.                       *)
Inherited ==
    \A q \in Queue, n \in Name : tasks'[q][n] # NoTask =>
        \/ tasks[q][n] # NoTask /\ tasks'[q][n].serial = tasks[q][n].serial
        \/ tasks'[q][n].serial = created + 1

LEMMA InheritedStep == IInv /\ [Next]_vars /\ Running /\ Running' => Inherited
<1> SUFFICES ASSUME IInv, [Next]_vars, Running, Running' PROVE Inherited
  OBVIOUS
<1>0. TypeOK
  BY DEF IInv
<1>a. \A q \in Queue, n \in Name : tasks[q][n] \in Task \cup {NoTask}
  BY <1>0 DEF TypeOK, Slots
<1>1. ASSUME NEW q \in Queue, tasks' = EmptyQueue(q) PROVE Inherited
  BY <1>0, <1>1, EmptyQueueIs DEF Inherited
<1>2. ASSUME NEW q \in Queue, NEW n \in Name, tasks' = SetTask(q, n, NoTask) PROVE Inherited
  BY <1>0, <1>2, SetTaskIs DEF Inherited
<1>3. ASSUME NEW q \in Queue, NEW n \in Name, NEW s \in {"waiting", "due"}, Add(q, n, s)
      PROVE  Inherited
  <2> DEFINE t == [serial |-> created + 1, state |-> s, count |-> 0]
  <2>1. t \in Task /\ t.serial = created + 1
    BY <1>0, <1>3, BoundsAssumption DEF Add, TypeOK, Task, State, Serial
  <2>2. tasks' = SetTask(q, n, t)
    BY <1>3 DEF Add
  <2> HIDE DEF t
  <2> QED
    BY <1>0, <2>1, <2>2, SetTaskIs DEF Inherited
<1>4. ASSUME tasks' = tasks PROVE Inherited
  BY <1>4 DEF Inherited
<1>5. ASSUME NEW q \in Queue, NEW n \in Name, ComesDue(q, n) PROVE Inherited
  <2>1. \A p \in Queue, k \in Name : tasks[p][k] # NoTask => Ripe(tasks[p][k]).serial = tasks[p][k].serial
    BY <1>a, TaskChanges
  <2>2. tasks \in Slots /\ tasks' = Ripen(tasks, q, n)
    BY <1>0, <1>5 DEF ComesDue, TypeOK
  <2> QED
    BY <2>1, <2>2, RipenIs DEF Inherited
<1>6. CASE DueTasks
  <2>1. \A q \in Queue, n \in Name : Due(q, n) =>
           tasks[q][n] # NoTask /\ Taken(tasks[q][n]).serial = tasks[q][n].serial
    BY <1>a, TaskChanges DEF Due
  <2> QED
    BY <1>0, <1>6, <2>1, TickIs DEF Inherited
<1>7. ASSUME NEW w \in workers, RetryLater(w) PROVE Inherited
  <2> DEFINE t == tasks[w.queue][w.name]
  <2>1. t \in Task /\ tasks' = SetTask(w.queue, w.name, Postponed(t))
    BY <1>0, <1>7, WorkerFields DEF RetryLater
  <2>2. Postponed(t) \in Task /\ Postponed(t).serial = t.serial /\ t # NoTask
    BY <2>1, TaskChanges
  <2> HIDE DEF t
  <2>3. \A p \in Queue, k \in Name :
           tasks'[p][k] = IF p = w.queue /\ k = w.name THEN Postponed(t) ELSE tasks[p][k]
    BY <1>0, <2>1, <2>2, WorkerFields, SetTaskIs
  <2> QED
    BY <2>2, <2>3 DEF Inherited, t
<1>8. ASSUME NEW w \in workers, CompleteTask(w) \/ RetryDropped(w) PROVE Inherited
  BY <1>0, <1>2, <1>8, WorkerFields DEF CompleteTask, RetryDropped
<1>9. ASSUME NEW q \in Queue, NEW s \in {"waiting", "due"}, CreateGenerated(q, s) PROVE Inherited
  <2>1. counter + 1 \in Name
    BY <1>0, <1>9, BoundsAssumption DEF CreateGenerated, TypeOK, Name
  <2> QED
    BY <1>3, <1>4, <1>9, <2>1 DEF CreateGenerated
<1>10. CASE Client
  BY <1>2, <1>3, <1>9, <1>10 DEF Client, CreateNamed, DeleteTask
<1>11. CASE Admin
  BY <1>1, <1>11 DEF Admin, CreateQueue, DeleteQueue, PurgeQueue
<1>12. CASE Endpoint
  BY <1>4, <1>12 DEF Endpoint, PostAccepted, PostFailed, store
<1>13. CASE Report
  BY <1>4, <1>7, <1>8, <1>13 DEF Report, RetryGone, store
<1>14. CASE Process
  BY <1>4, <1>14 DEF Process, Shutdown, Exit, ExitInWrite, Restart, Running, store
<1>15. CASE UNCHANGED vars
  BY <1>4, <1>15 DEF vars, store
<1> QED
  BY <1>5, <1>6, <1>10, <1>11, <1>12, <1>13, <1>14, <1>15 DEF Next, Time

(* A task that is neither in memory nor, while there is no process, in the *)
(* file never comes back.                                                  *)
THEOREM GoneTasksStayGone == Spec => GoneForGood
<1> DEFINE Gone == \A u \in 1..created : u \notin Held => u \notin Held'
<1>1. IInv /\ [Next]_vars => [Gone]_vars
  <2> SUFFICES ASSUME IInv, [Next]_vars, NEW u \in 1..created, u \in Held' PROVE u \in Held
    OBVIOUS
  <2>0. TypeOK /\ created \in Nat /\ u \in Int
    BY BoundsAssumption DEF IInv, TypeOK
  <2>1. CASE Running /\ Running'
    <3>1. PICK q \in Queue, n \in Name : tasks'[q][n] # NoTask /\ tasks'[q][n].serial = u
      BY <2>1 DEF Held
    <3>2. u # created + 1
      BY <2>0
    <3>3. tasks[q][n] # NoTask /\ tasks[q][n].serial = u
      BY <2>1, <3>1, <3>2, InheritedStep DEF Inherited
    <3>4. u \in Serial
      BY <2>1 DEF Held
    <3> QED
      BY <2>1, <3>3, <3>4 DEF Held
  <2>2. CASE Running /\ ~Running'
    <3>1. Exit \/ ExitInWrite
      <4>1. phase' = "down" /\ phase # "down"
        BY <2>2 DEF Running
      <4> QED
        BY <4>1 DEF Next, Admin, Client, Endpoint, Report, Time, Process, CreateQueue,
           DeleteQueue, PurgeQueue, CreateNamed, CreateGenerated, DeleteTask, ComesDue,
           DueTasks, PostAccepted, PostFailed, CompleteTask, RetryGone, RetryDropped,
           RetryLater, Shutdown, Restart, vars
    <3>2. PICK q \in Queue, n \in Name :
             disk'.tasks[q][n] # NoTask /\ disk'.tasks[q][n].serial = u
      BY <2>2 DEF Held
    <3>3. disk' = disk
      BY <3>1, <3>2, EmptyTypes DEF Exit, ExitInWrite
    <3>4. DataDir /\ FileLags
      BY <3>2, <3>3 DEF IInv, NothingWritten
    <3>5. disk.tasks[q][n] \in Task
      BY <2>0, <3>2, <3>3 DEF TypeOK, Slots
    <3>6. tasks[q][n] # NoTask
          /\ (tasks[q][n] = disk.tasks[q][n] \/ tasks[q][n] = Taken(disk.tasks[q][n]))
      BY <2>2, <3>2, <3>3, <3>4 DEF FileLags
    <3>7. tasks[q][n].serial = u
      BY <3>2, <3>3, <3>5, <3>6, TaskChanges
    <3>8. u \in Serial
      BY <2>2 DEF Held
    <3> QED
      BY <2>2, <3>6, <3>7, <3>8 DEF Held
  <2>3. CASE ~Running
    <3>1. Restart \/ UNCHANGED vars
      BY <2>3 DEF Next, Admin, Client, Endpoint, Report, Time, Process, CreateQueue,
         DeleteQueue, PurgeQueue, CreateNamed, CreateGenerated, DeleteTask, ComesDue,
         DueTasks, PostAccepted, PostFailed, CompleteTask, RetryGone, RetryDropped,
         RetryLater, Shutdown, Exit, ExitInWrite, Running
    <3>2. CASE Restart
      BY <2>3, <3>2 DEF Restart, Held, Running
    <3>3. CASE UNCHANGED vars
      BY <2>3, <3>3 DEF vars, store, Held, Running
    <3> QED
      BY <3>1, <3>2, <3>3
  <2> QED
    BY <2>1, <2>2, <2>3
<1> QED
  BY <1>1, Invariance, PTL DEF Spec, GoneForGood
=============================================================================
