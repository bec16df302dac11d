------------------------------- MODULE PubSub -------------------------------
(***************************************************************************)
(* The Pub/Sub emulator: the message store (internal/pubsub/store.go), the *)
(* push-delivery goroutine, streaming pulls and unary RPCs that work on it *)
(* (internal/pubsub/service.go), its state file, and the exit and restart  *)
(* of the process.                                                         *)
(*                                                                         *)
(* Every method of the store holds its mutex from the first read to the    *)
(* last write, state file included, so a method is one action.  What       *)
(* interleaves is what the goroutines do between two method calls: the     *)
(* push loop works for seconds on a batch it read earlier.                 *)
(*                                                                         *)
(* A stored message is addressed by subscription and message id, which is  *)
(* what the ackID "<subscription>:<id>" spells.  Time is kept only as far  *)
(* as Pull looks at it: whether a delivered message's deadline has passed. *)
(***************************************************************************)
EXTENDS Integers, FiniteSets

CONSTANTS
    Topic,          \* topic names
    Sub,            \* subscription names
    Config,         \* Config[s]: the ways the clients create subscription s
    MaxId,          \* bound: message ids the run may give out
    MaxBatch,       \* bound: messages of one Publish, maxMessages of one Pull
    AttemptCap,     \* the attempt counter saturates here, past every limit
    MaxExits,       \* bound: exits of the process
    DataDir,        \* TRUE if the server was started with a data directory
    NoTopic,        \* no dead-letter topic is configured
    DeletedTopic,   \* the topic of a subscription whose topic was deleted
    NoSub           \* no subscription

Id == 1..MaxId

SubConfig == [topic : Topic \cup {DeletedTopic}, push : BOOLEAN,
              dlt : Topic \cup {NoTopic}, max : Nat]

Lease == {"absent", "ready", "held", "lapsed"}

ASSUME BoundsAssumption ==
    /\ MaxId \in Nat /\ MaxBatch \in Nat /\ MaxExits \in Nat
    /\ AttemptCap \in Nat /\ DataDir \in BOOLEAN
ASSUME ConfigAssumption ==
    /\ Config \in [Sub -> SUBSET SubConfig]
    /\ \A s \in Sub : \A c \in Config[s] :
          c.topic # DeletedTopic /\ c.max <= AttemptCap
ASSUME NullAssumption ==
    NoTopic \notin Topic /\ DeletedTopic \notin Topic /\ NoSub \notin SubConfig
                         /\ NoSub \notin Sub

VARIABLES
    topics,         \* Store.topics: the topics that exist
    subs,           \* Store.subscriptions: configuration of each, or NoSub
    topicSubs,      \* Store.topicSubs: subscriptions a publish fans out to
    lease,          \* Store.messages: delivery state of each stored copy
    attempts,       \* message.DeliveryAttempt of each stored copy
    msgCounter,     \* Store.msgCounter: the last id given out
    disk,           \* pubsub/state.json
    phase,          \* the process: "up", "stopping" (context cancelled), "down"
    exits,          \* how often the process has exited
    loop,           \* the push-delivery goroutine
    streams,        \* subscriptions with an open StreamingPull
    acked,          \* history: copies whose acknowledgement was accepted
    issued          \* history: the highest id any publish has returned

store == <<topics, subs, topicSubs, lease, attempts, msgCounter>>
history == <<acked, issued>>
vars == <<store, disk, phase, exits, loop, streams, history>>

-----------------------------------------------------------------------------
(* The store's data, its file and the loop at rest.                        *)

NoLeases   == [s \in Sub |-> [i \in Id |-> "absent"]]
NoAttempts == [s \in Sub |-> [i \in Id |-> 0]]
NoSubs     == [s \in Sub |-> NoSub]

(* What load makes of a state file that is missing, or that a crash in the *)
(* middle of os.WriteFile left truncated: the store starts empty.          *)
EmptyFile == [topics |-> {}, subs |-> NoSubs, lease |-> NoLeases, counter |-> 0]

IdleLoop == [pc |-> "idle", todo |-> NoSubs, sub |-> NoSub, batch |-> {}, cur |-> 0]

Running == phase # "down"
Exists(s) == subs[s] # NoSub
Stored(s) == {i \in Id : lease[s][i] # "absent"}

(* Mistaken variant: a delivered message is not looked at again.           *)
AvailableOnce(s) == {i \in Id : lease[s][i] = "ready"}

(* Never delivered, handed back, or past the deadline.                     *)
Available(s) == {i \in Id : lease[s][i] \in {"ready", "lapsed"}}

(* Messages are handed out by id, and ids are compared as strings: "10" is *)
(* before "9".  Scaling to one width turns that into a numeric comparison. *)
Digits(k) == CHOOSE d \in 1..k : 10^(d - 1) <= k /\ k < 10^d
IdBefore(i, j) ==
    LET scaled(k) == k * 10^(Digits(MaxId) - Digits(k))
    IN  scaled(i) < scaled(j) \/ (scaled(i) = scaled(j) /\ i < j)
First(S, n) == {i \in S : Cardinality({j \in S : IdBefore(j, i)}) < n}

(* Mistaken variant: the id counter is not written.                        *)
PersistNoCounter == disk' = [topics |-> topics', subs |-> subs',
                             lease |-> lease', counter |-> 0]

(* The store writes the whole of its state before it unlocks.  Attempts    *)
(* are not part of the file.                                               *)
Persist == disk' = IF DataDir
                   THEN [topics |-> topics', subs |-> subs',
                         lease |-> lease', counter |-> msgCounter']
                   ELSE disk

(* Copies of the messages ids put into every subscription of topic t.      *)
Targets(t) == {s \in topicSubs[t] : Exists(s)}
FanOut(held, t, ids) ==
    [s \in Sub |-> [i \in Id |-> IF s \in Targets(t) /\ i \in ids
                                 THEN "ready" ELSE held[s][i]]]

(* The copies I of subscription s set to l; attempts go with a copy.       *)
SetLease(s, I, l) == [lease EXCEPT ![s] = [i \in Id |-> IF i \in I THEN l ELSE @[i]]]
DropAttempts(s, I) == [attempts EXCEPT ![s] = [i \in Id |-> IF i \in I THEN 0 ELSE @[i]]]

(* Mistaken variant: an acknowledgement does not write the file.           *)
AckIdsUnwritten(s, I) ==
    /\ lease' = SetLease(s, I, "absent")
    /\ attempts' = DropAttempts(s, I)
    /\ acked' = acked \cup ({s} \X (I \cap Stored(s)))
    /\ UNCHANGED <<topics, subs, topicSubs, msgCounter, issued, disk>>

(* Acknowledge on an existing subscription, whoever calls it.              *)
AckIds(s, I) ==
    /\ lease' = SetLease(s, I, "absent")
    /\ attempts' = DropAttempts(s, I)
    /\ acked' = acked \cup ({s} \X (I \cap Stored(s)))
    /\ UNCHANGED <<topics, subs, topicSubs, msgCounter, issued>>
    /\ Persist

-----------------------------------------------------------------------------
(* Topics and subscriptions.                                               *)

CreateTopic(t) ==
    /\ Running
    /\ t \notin topics
    /\ topics' = topics \cup {t}
    /\ UNCHANGED <<subs, topicSubs, lease, attempts, msgCounter>>
    /\ Persist
    /\ UNCHANGED <<phase, exits, loop, streams, history>>

(* Mistaken variant: the subscriptions keep the deleted topic's name.      *)
DeleteTopicUnmarked(t) ==
    /\ Running
    /\ t \in topics
    /\ topics' = topics \ {t}
    /\ topicSubs' = [topicSubs EXCEPT ![t] = {}]
    /\ UNCHANGED <<subs, lease, attempts, msgCounter>>
    /\ Persist
    /\ UNCHANGED <<phase, exits, loop, streams, history>>

(* The subscriptions of a deleted topic keep their messages and are        *)
(* detached for good: creating the topic again does not attach them.       *)
DeleteTopic(t) ==
    /\ Running
    /\ t \in topics
    /\ topics' = topics \ {t}
    /\ subs' = [s \in Sub |-> IF s \in Targets(t)
                              THEN [subs[s] EXCEPT !.topic = DeletedTopic]
                              ELSE subs[s]]
    /\ topicSubs' = [topicSubs EXCEPT ![t] = {}]
    /\ UNCHANGED <<lease, attempts, msgCounter>>
    /\ Persist
    /\ UNCHANGED <<phase, exits, loop, streams, history>>

CreateSubscription(s, c) ==
    /\ Running
    /\ ~Exists(s)
    /\ c.topic \in topics
    /\ subs' = [subs EXCEPT ![s] = c]
    /\ lease' = SetLease(s, Id, "absent")
    /\ attempts' = DropAttempts(s, Id)
    /\ topicSubs' = [topicSubs EXCEPT ![c.topic] = @ \cup {s}]
    /\ UNCHANGED <<topics, msgCounter>>
    /\ Persist
    /\ UNCHANGED <<phase, exits, loop, streams, history>>

DeleteSubscription(s) ==
    /\ Running
    /\ Exists(s)
    /\ topicSubs' = [t \in Topic |-> IF t = subs[s].topic
                                     THEN topicSubs[t] \ {s} ELSE topicSubs[t]]
    /\ subs' = [subs EXCEPT ![s] = NoSub]
    /\ lease' = SetLease(s, Id, "absent")
    /\ attempts' = DropAttempts(s, Id)
    /\ UNCHANGED <<topics, msgCounter>>
    /\ Persist
    /\ UNCHANGED <<phase, exits, loop, streams, history>>

-----------------------------------------------------------------------------
(* Publishing and pulling.                                                 *)

(* A Publish of n messages: n fresh ids, a copy of each per subscription.  *)
Publish(t, n) ==
    /\ Running
    /\ t \in topics
    /\ msgCounter + n <= MaxId
    /\ msgCounter' = msgCounter + n
    /\ lease' = FanOut(lease, t, (msgCounter + 1)..(msgCounter + n))
    /\ issued' = msgCounter + n
    /\ UNCHANGED <<topics, subs, topicSubs, attempts>>
    /\ Persist
    /\ UNCHANGED <<phase, exits, loop, streams, acked>>

PullIds(s, n) ==
    /\ lease' = SetLease(s, First(Available(s), n), "held")
    /\ UNCHANGED <<topics, subs, topicSubs, attempts, msgCounter>>
    /\ Persist
    /\ UNCHANGED <<phase, exits, loop, streams, history>>

Pull(s, n) == Running /\ Exists(s) /\ PullIds(s, n)

(* The push configuration is looked at once, when the stream opens.        *)
OpenStream(s) ==
    /\ Running
    /\ Exists(s) /\ ~subs[s].push
    /\ streams' = streams \cup {s}
    /\ UNCHANGED <<store, disk, phase, exits, loop, history>>

(* A tick of the stream's 200 ms ticker.  100 messages are more than a     *)
(* bounded run has.                                                        *)
StreamPull(s) ==
    /\ Running
    /\ s \in streams /\ Exists(s)
    /\ Available(s) # {}
    /\ PullIds(s, MaxId)

CloseStream(s) ==
    /\ s \in streams
    /\ streams' = streams \ {s}
    /\ UNCHANGED <<store, disk, phase, exits, loop, history>>

(* Any client that knows an ackID may use it: it need not hold the lease.  *)
Acknowledge(s, i) ==
    /\ Running
    /\ Exists(s) /\ i <= msgCounter
    /\ AckIds(s, {i})
    /\ UNCHANGED <<phase, exits, loop, streams>>

(* Mistaken variant: a message is put back whether or not it still exists. *)
NackUnchecked(s, i) ==
    /\ Running
    /\ Exists(s)
    /\ lease' = SetLease(s, {i}, "ready")
    /\ UNCHANGED <<topics, subs, topicSubs, attempts, msgCounter>>
    /\ Persist
    /\ UNCHANGED <<phase, exits, loop, streams, history>>

(* ModifyAckDeadline with 0 seconds hands the message back, ...            *)
Nack(s, i) ==
    /\ Running
    /\ Exists(s) /\ i \in Stored(s)
    /\ lease' = SetLease(s, {i}, "ready")
    /\ UNCHANGED <<topics, subs, topicSubs, attempts, msgCounter>>
    /\ Persist
    /\ UNCHANGED <<phase, exits, loop, streams, history>>

(* ... with more it moves the deadline ahead, of a delivered message only: *)
(* Delivered is left as it is, so a handed-back one stays available.       *)
ExtendDeadline(s, i) ==
    /\ Running
    /\ Exists(s) /\ i \in Stored(s)
    /\ lease' = IF lease[s][i] = "lapsed" THEN SetLease(s, {i}, "held") ELSE lease
    /\ UNCHANGED <<topics, subs, topicSubs, attempts, msgCounter>>
    /\ Persist
    /\ UNCHANGED <<phase, exits, loop, streams, history>>

Lapse(leases, s, i) ==
    [leases EXCEPT ![s] = [k \in Id |-> IF k = i /\ @[k] = "held" THEN "lapsed" ELSE @[k]]]

(* Time passes the deadline of a delivered message.  The deadline on disk  *)
(* is never the later of the two.                                          *)
DeadlinePasses(s, i) ==
    /\ Running
    /\ lease[s][i] = "held"
    /\ lease' = Lapse(lease, s, i)
    /\ disk' = [disk EXCEPT !.lease = Lapse(disk.lease, s, i)]
    /\ UNCHANGED <<topics, subs, topicSubs, attempts, msgCounter>>
    /\ UNCHANGED <<phase, exits, loop, streams, history>>

-----------------------------------------------------------------------------
(* The push-delivery goroutine.  It keeps the *subscription pointers it    *)
(* listed (todo) and the *message pointers it pulled (batch) across calls; *)
(* store calls are by name, so they see what the name means by then.       *)

PushTick ==
    /\ Running
    /\ loop.pc = "idle"
    /\ loop' = [loop EXCEPT !.pc = "scan",
                            !.todo = [s \in Sub |-> IF Exists(s) /\ subs[s].push
                                                    THEN subs[s] ELSE NoSub]]
    /\ UNCHANGED <<store, disk, phase, exits, streams, history>>

(* Mistaken variant: the delivery is not counted.                          *)
PushPullUncounted(s) ==
    /\ Running
    /\ loop.pc = "scan" /\ loop.todo[s] # NoSub
    /\ LET batch == IF Exists(s) THEN Available(s) ELSE {}
       IN  /\ lease' = SetLease(s, batch, "held")
           /\ loop' = [loop EXCEPT !.pc = "next", !.sub = s, !.batch = batch]
    /\ UNCHANGED <<topics, subs, topicSubs, attempts, msgCounter>>
    /\ UNCHANGED <<disk, phase, exits, streams, history>>

(* PullAllUndelivered: everything available is leased and counted, and     *)
(* none of that is written to the file.                                    *)
PushPull(s) ==
    /\ Running
    /\ loop.pc = "scan" /\ loop.todo[s] # NoSub
    /\ LET batch == IF Exists(s) THEN Available(s) ELSE {}
       IN  /\ lease' = SetLease(s, batch, "held")
           /\ attempts' = [attempts EXCEPT ![s] = [i \in Id |->
                              IF i \in batch /\ @[i] < AttemptCap THEN @[i] + 1 ELSE @[i]]]
           /\ loop' = [loop EXCEPT !.pc = "next", !.sub = s, !.batch = batch]
    /\ UNCHANGED <<topics, subs, topicSubs, msgCounter>>
    /\ UNCHANGED <<disk, phase, exits, streams, history>>

PushScanEnd ==
    /\ Running
    /\ loop.pc = "scan" /\ loop.todo = NoSubs
    /\ loop' = IdleLoop
    /\ UNCHANGED <<store, disk, phase, exits, streams, history>>

(* The next message of the batch goes to the dispatcher.                   *)
PushNext(i) ==
    /\ Running
    /\ loop.pc = "next" /\ i \in First(loop.batch, 1)
    /\ loop' = [loop EXCEPT !.pc = "post", !.cur = i, !.batch = @ \ {i}]
    /\ UNCHANGED <<store, disk, phase, exits, streams, history>>

(* Mistaken variant: the loop stays at the subscription it is done with.   *)
PushBatchEndStays ==
    /\ Running
    /\ loop.pc = "next" /\ loop.batch = {}
    /\ loop' = [loop EXCEPT !.todo[loop.sub] = NoSub]
    /\ UNCHANGED <<store, disk, phase, exits, streams, history>>

PushBatchEnd ==
    /\ Running
    /\ loop.pc = "next" /\ loop.batch = {}
    /\ loop' = [loop EXCEPT !.pc = "scan", !.todo[loop.sub] = NoSub,
                            !.sub = NoSub, !.cur = 0]
    /\ UNCHANGED <<store, disk, phase, exits, streams, history>>

(* Dispatch returns.  Once the context is cancelled it returns an error.   *)
PostAccepted ==
    /\ phase = "up"
    /\ loop.pc = "post"
    /\ loop' = [loop EXCEPT !.pc = "accepted"]
    /\ UNCHANGED <<store, disk, phase, exits, streams, history>>

PostFailed ==
    /\ Running
    /\ loop.pc = "post"
    /\ loop' = [loop EXCEPT !.pc = "failed"]
    /\ UNCHANGED <<store, disk, phase, exits, streams, history>>

PushAck ==
    /\ Running
    /\ loop.pc = "accepted"
    /\ IF Exists(loop.sub)
       THEN AckIds(loop.sub, {loop.cur})
       ELSE UNCHANGED <<store, disk, history>>
    /\ loop' = [loop EXCEPT !.pc = "next"]
    /\ UNCHANGED <<phase, exits, streams>>

(* Mistaken variants: one delivery too many; a dead-letter topic that does *)
(* not exist.                                                              *)
GivenUpLate(s, i) ==
    LET c == loop.todo[s]
    IN  c.dlt # NoTopic /\ c.max > 0 /\ attempts[s][i] > c.max
CanForwardAnywhere(s, i) == Exists(s) /\ subs[s].dlt # NoTopic /\ i \in Stored(s)

(* The limit is the listed subscription's; what ForwardToDeadLetter looks  *)
(* up under its own lock is the present one's topic and message.           *)
GivenUp(s, i) ==
    LET c == loop.todo[s]
    IN  c.dlt # NoTopic /\ c.max > 0 /\ attempts[s][i] >= c.max
CanForward(s, i) ==
    /\ Exists(s) /\ subs[s].dlt # NoTopic
    /\ i \in Stored(s)
    /\ subs[s].dlt \in topics

(* A new id and fresh copies for the dead-letter topic's subscriptions;    *)
(* the original is gone.                                                   *)
PushDeadLetter ==
    /\ Running
    /\ loop.pc = "failed"
    /\ LET s == loop.sub
           i == loop.cur
       IN  /\ GivenUp(s, i) /\ CanForward(s, i)
           /\ msgCounter < MaxId
           /\ msgCounter' = msgCounter + 1
           /\ lease' = FanOut(SetLease(s, {i}, "absent"), subs[s].dlt, {msgCounter + 1})
           /\ attempts' = DropAttempts(s, {i})
    /\ issued' = msgCounter + 1
    /\ UNCHANGED <<topics, subs, topicSubs>>
    /\ Persist
    /\ loop' = [loop EXCEPT !.pc = "next"]
    /\ UNCHANGED <<phase, exits, streams, acked>>

PushKeep ==
    /\ Running
    /\ loop.pc = "failed"
    /\ ~(GivenUp(loop.sub, loop.cur) /\ CanForward(loop.sub, loop.cur))
    /\ loop' = [loop EXCEPT !.pc = "next"]
    /\ UNCHANGED <<store, disk, phase, exits, streams, history>>

-----------------------------------------------------------------------------
(* The life of the process.                                                *)

Shutdown ==
    /\ phase = "up"
    /\ exits < MaxExits
    /\ phase' = "stopping"
    /\ UNCHANGED <<store, disk, exits, loop, streams, history>>

MemoryLost ==
    /\ topics' = {} /\ subs' = NoSubs /\ topicSubs' = [t \in Topic |-> {}]
    /\ lease' = NoLeases /\ attempts' = NoAttempts /\ msgCounter' = 0
    /\ loop' = IdleLoop /\ streams' = {}

(* The process goes away between two store operations: a kill, or main     *)
(* returning while the push loop, which nothing waits for, still works.    *)
Exit ==
    /\ Running
    /\ exits < MaxExits
    /\ phase' = "down" /\ exits' = exits + 1
    /\ MemoryLost
    /\ UNCHANGED disk
    /\ IF DataDir THEN UNCHANGED history ELSE acked' = {} /\ issued' = 0

(* The process goes away while it writes the state file.  Nothing of the   *)
(* old state is left, so the history starts again.                         *)
ExitInWrite ==
    /\ Running /\ DataDir
    /\ exits < MaxExits
    /\ phase' = "down" /\ exits' = exits + 1
    /\ MemoryLost
    /\ disk' = EmptyFile
    /\ acked' = {} /\ issued' = 0

(* NewStore and load: the subscription index is rebuilt, attempts are 0.   *)
Restart ==
    /\ phase = "down"
    /\ phase' = "up"
    /\ topics' = disk.topics
    /\ subs' = disk.subs
    /\ topicSubs' = [t \in Topic |-> {s \in Sub : /\ disk.subs[s] # NoSub
                                                  /\ disk.subs[s].topic = t}]
    /\ lease' = disk.lease
    /\ msgCounter' = disk.counter
    /\ UNCHANGED <<attempts, disk, exits, loop, streams, history>>

-----------------------------------------------------------------------------

Init ==
    /\ topics = {} /\ subs = NoSubs /\ topicSubs = [t \in Topic |-> {}]
    /\ lease = NoLeases /\ attempts = NoAttempts /\ msgCounter = 0
    /\ disk = EmptyFile
    /\ phase = "up" /\ exits = 0
    /\ loop = IdleLoop /\ streams = {}
    /\ acked = {} /\ issued = 0

Admin ==
    \/ \E t \in Topic : CreateTopic(t)
    \/ \E t \in Topic : DeleteTopic(t)
    \/ \E s \in Sub : \E c \in Config[s] : CreateSubscription(s, c)
    \/ \E s \in Sub : DeleteSubscription(s)

Publisher == \E t \in Topic, n \in 1..MaxBatch : Publish(t, n)

Subscriber ==
    \/ \E s \in Sub, n \in 1..MaxBatch : Pull(s, n)
    \/ \E s \in Sub, i \in Id : Acknowledge(s, i)
    \/ \E s \in Sub, i \in Id : Nack(s, i)
    \/ \E s \in Sub, i \in Id : ExtendDeadline(s, i)

Stream ==
    \/ \E s \in Sub : OpenStream(s)
    \/ \E s \in Sub : StreamPull(s)
    \/ \E s \in Sub : CloseStream(s)

PushStep ==
    \/ PushTick
    \/ \E s \in Sub : PushPull(s)
    \/ PushScanEnd
    \/ \E i \in Id : PushNext(i)
    \/ PushBatchEnd
    \/ PushAck
    \/ PushDeadLetter
    \/ PushKeep
Endpoint == PostAccepted \/ PostFailed
Time == \E s \in Sub, i \in Id : DeadlinePasses(s, i)
Process == Shutdown \/ Exit \/ ExitInWrite \/ Restart

Next == Admin \/ Publisher \/ Subscriber \/ Stream \/ PushStep \/ Endpoint
              \/ Time \/ Process

Spec == Init /\ [][Next]_vars

-----------------------------------------------------------------------------
(* Properties.                                                             *)

LoopType == [pc : {"idle", "scan", "next", "post", "accepted", "failed"},
             todo : [Sub -> SubConfig \cup {NoSub}], sub : Sub \cup {NoSub},
             batch : SUBSET Id, cur : Id \cup {0}]

FileType == [topics : SUBSET Topic, subs : [Sub -> SubConfig \cup {NoSub}],
             lease : [Sub -> [Id -> Lease]], counter : 0..MaxId]

(* Every variable is of its type, and the loop works on a subscription it  *)
(* has listed whenever it works on a batch.                                *)
TypeOK ==
    /\ topics \in SUBSET Topic
    /\ subs \in [Sub -> SubConfig \cup {NoSub}]
    /\ topicSubs \in [Topic -> SUBSET Sub]
    /\ lease \in [Sub -> [Id -> Lease]]
    /\ attempts \in [Sub -> [Id -> 0..AttemptCap]]
    /\ msgCounter \in 0..MaxId
    /\ disk \in FileType
    /\ phase \in {"up", "stopping", "down"}
    /\ exits \in 0..MaxExits
    /\ loop \in LoopType
    /\ loop.pc \in {"next", "post", "accepted", "failed"} =>
          loop.sub \in Sub /\ loop.todo[loop.sub] # NoSub
    /\ loop.pc \in {"post", "accepted", "failed"} => loop.cur \in Id
    /\ streams \in SUBSET Sub
    /\ acked \in SUBSET (Sub \X Id)
    /\ issued \in 0..MaxId

(* The fan-out index and the subscriptions say the same: a publish to a    *)
(* topic reaches exactly the subscriptions configured for it, through any  *)
(* sequence of creations, deletions, re-creations and restarts; and a      *)
(* subscription whose topic is gone carries the marker, never the name of  *)
(* a topic that might be created again.                                    *)
IndexAgrees ==
    \A s \in Sub :
        /\ \A t \in Topic : s \in topicSubs[t] <=> Exists(s) /\ subs[s].topic = t
        /\ Exists(s) => subs[s].topic \in topics \cup {DeletedTopic}

(* With a data directory, the state file of a running server holds every   *)
(* topic, subscription, id and stored message, and no others: whatever     *)
(* instant the process is killed at between two writes, nothing that was   *)
(* accepted is missing from the file and nothing removed is still in it.   *)
(* The push loop's unwritten leases are the only difference.               *)
FileCurrent ==
    Running /\ DataDir =>
        /\ disk.topics = topics /\ disk.subs = subs /\ disk.counter = msgCounter
        /\ \A s \in Sub, i \in Id : (disk.lease[s][i] = "absent") <=> (lease[s][i] = "absent")

(* An acknowledged message is gone for good: neither the push loop's stale *)
(* batch, nor a deadline change, nor a restart brings it back.             *)
AckFinal ==
    \A s \in Sub, i \in Id :
        <<s, i>> \in acked => lease[s][i] = "absent" /\ disk.lease[s][i] = "absent"

(* No message id is given out twice, not even by the process that follows: *)
(* a stored copy that appears while the server runs has an id above every  *)
(* id any publish ever returned.                                           *)
IdsAreFresh ==
    [][\A s \in Sub, i \in Id :
          Running /\ lease[s][i] = "absent" /\ lease'[s][i] # "absent" => i > issued]_vars

(* A dead letter is not a lost message: when the push loop gives a message *)
(* up, in the same step each subscription of the dead-letter topic has a   *)
(* fresh copy, in memory and in the state file, and the message had been   *)
(* pushed at least once.                                                   *)
DeadLetterKept ==
    [][\A s \in Sub, i \in Id :
          /\ i \in Stored(s) /\ i \notin Stored(s)'
          /\ Running /\ phase' # "down" /\ Exists(s)' /\ <<s, i>> \notin acked'
          => /\ attempts[s][i] > 0
             /\ subs[s].dlt \in topics
             /\ \A d \in Sub : Exists(d) /\ subs[d].topic = subs[s].dlt =>
                   /\ lease'[d][msgCounter'] = "ready"
                   /\ DataDir => disk'.lease[d][msgCounter'] = "ready"]_vars

(* The copies a subscriber can still count on: those in memory, or those   *)
(* in the file while there is no process.                                  *)
Owed == {x \in Sub \X Id :
            (IF Running THEN lease ELSE disk.lease)[x[1]][x[2]] # "absent"}

(* The emulator implements the mailbox: each step of it, an exit or a      *)
(* restart between two writes included, is a mailbox step or changes       *)
(* nothing that is owed.                                                   *)
Abstract == INSTANCE Mailbox WITH owed <- Owed, settled <- acked, used <- issued
ImplementsMailbox == Abstract!Spec
=============================================================================
