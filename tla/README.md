# A TLA+ model of localgcp

localgcp is one Go binary that emulates a dozen Google Cloud services on
localhost: gRPC and HTTP servers over in-memory stores, each guarded by a mutex
and, when a data directory is given, written to a JSON file after every change.
The modules here model the parts whose correctness depends on order: goroutines
that keep state between two calls of a store, exits and restarts between two
writes, retries, deadlines and bounded logs.

## 1. The system

| component (src/internal/...) | state | operations | interacts with |
|---|---|---|---|
| `pubsub` | topics, subscriptions, fan-out index, messages with leases, id counter, state file | topic and subscription CRUD, Publish, Pull, StreamingPull, Acknowledge, ModifyAckDeadline; a push loop every 200 ms | dispatcher, server |
| `cloudtasks` | queues, tasks with state, attempts and schedule, name counter, state file | queue and task CRUD, purge; a dispatch loop every 500 ms with a goroutine per due task | dispatcher, server |
| `dispatch` | none between calls | Dispatch: POST with retries, backoff and cancellation | pubsub, cloudtasks |
| `firestore` | documents, watchers with channels, a ring of the last 1024 changes, open transactions, state file | document CRUD, queries, Commit, transactions, Listen with resume tokens | server |
| `orchestrator` | one container per lazy service: started, id, address | first connection starts the container, later ones are proxied; shutdown removes it | Docker, server |
| `secretmanager` | secrets, versions with state and payload, state file | CRUD, add, access, enable, disable, destroy | server |
| `gcs` | buckets, objects on disk or in memory, resumable sessions | uploads (simple, multipart, resumable), downloads, lists, copies, deletes | server |
| `kms` | key rings, keys, versions with key material | create, encrypt, decrypt, sign, verify, destroy, primary version | server |
| `logging`, `cloudrun` | a slice of the last 10000 entries; a map of services | append, list, delete; CRUD | server |
| `vertexai` | none between calls | generate, stream, embed, through a provider | external model servers |
| `server`, `cmd/localgcp` | the registered services | start all, wait for a signal or a failure, stop all within 5 s | every service |

Services share no memory. They meet in three places: the server cancels one
context for all of them and waits up to five seconds; Pub/Sub and Cloud Tasks
push through the dispatcher, whose errors they count as failed deliveries; and
each reads at start the file its previous process wrote.

What makes each of them correct, and what is hard about it:

- **Pub/Sub.** Every accepted message stays with each attached subscription
  until it is acknowledged, dead-lettered or deleted with the subscription, also
  across a restart. Hard: the push loop works for seconds on messages and
  subscriptions it listed earlier, while clients acknowledge, hand back, delete
  and re-create; the process may exit between any two steps.
- **Cloud Tasks.** A task is posted until it succeeds, within one process at most
  MaxAttempts times, and then goes. Hard: completion and retry are by name, after a POST during
  which the name may have been deleted and re-used; the state "dispatching" is
  written to the file, and the counter of generated names is not.
- **Firestore.** A listener converges to the documents that match. Hard: the
  sequence number, the change log and the channels are updated after the
  document's lock is released; channels drop; tokens outlive the log. Commit
  applies its writes one at a time.
  A query answers the documents that match. Hard: it filters, sorts and sends
  without the lock, from maps of fields that it shares with the store.
- **Orchestrator.** At most one container per service, and none left after
  shutdown unless a call of the daemon about it failed. Hard: failures and
  cancellation in each step of the start.
- **Dispatcher.** At most MaxRetries + 1 POSTs, and a truthful result. Hard: the
  context may end in any of its steps, and an answer may be lost.
- **Secret Manager, KMS.** Version numbers are never reused; a disabled or
  destroyed version is not served.
- **Cloud Storage.** An object holds what one upload sent. Hard: sessions are
  looked up under one lock and written without it.
- **Server.** Run ends when it is signalled or a service fails: everything is
  stopped, or five seconds have passed. Hard: a failure before the first select,
  a service that never returns.

`PROJECT.json` lists the hazards at their lines.

## 2. Modules and plan

| module | models | builds on | checked by | proved in |
|---|---|---|---|---|
| `Mailbox` | what a subscription promises | | | |
| `PubSub` | `pubsub` | `Mailbox` (refinement) | `MCPubSubPush`, `MCPubSubLive`, `MCPubSubDeadLetter` | `PubSub_proofs` |
| `CloudTasks` | `cloudtasks` | | `MCCloudTasks` | `CloudTasks_proofs` |
| `FirestoreStore` | documents, file, change log, transactions | | `MCFirestore`, `MCFirestoreListen` | `FirestoreStore_proofs` |
| `FirestoreListen` | Listen streams | `FirestoreStore` | `MCFirestore`, `MCFirestoreListen` | `FirestoreListen_proofs` |
| `FirestoreQuery` | RunQuery | | `MCStores` | `FirestoreQuery_proofs`, `Stores_proofs` |
| `ServerProcess` | the exits and starts of the process | | with those below | |
| `CloudStorage` | `gcs` | `ServerProcess` | `MCStores` | `CloudStorage_proofs`, `Stores_proofs` |
| `SecretVersions`, `KeyVersions` | `secretmanager`, `kms` | `ServerProcess` | `MCStores` | `Stores_proofs` |
| `ServerRun` | `server`, `main` | `ServerProcess` | `MCLifecycle` | `Lifecycle_proofs` |
| `LazyContainer` | `orchestrator` | `ServerRun` | `MCLifecycle` | `Lifecycle_proofs` |
| `Delivery` | what a caller takes a dispatch for | | | |
| `Dispatch` | `dispatch` | `ServerRun`, `Delivery` (refinement) | `MCLifecycle` | `Lifecycle_proofs` |

An operator whose comment says "Mistaken variant" is no part of the
specification: it is a plausible bug in the code, and the property it belongs to
has been seen to notice it.

Every invariant, every action property and both refinements that a run checks
are also theorems, for all values of the constants that satisfy the modules'
assumptions. What only TLC checks is what the provers cannot reach: the
properties under fairness (`PushDrains`, `StreamRedelivers`, `TaskLeaves`,
`CatchesUp`, `Answered`, `Recovers`, `RunEnds`), and the runs that expect a
violation. `Stores_proofs` and `Lifecycle_proofs` hold the theorems about single
components together with those about their compositions, `MCStores` and
`MCLifecycle`.

What the plan has left: the 64-bit arithmetic of Cloud Tasks' backoff (a fold
over bit vectors against the documented "between MinBackoff and MaxBackoff").

## 3. Pub/Sub

### The model

`PubSub.tla` has one action per store method or per step of a goroutine. A
method of `Store` holds `mu` from its first read to `persist`, so it is one
action, the write of the file included. `Mailbox.tla` is what the component
promises, without leases, goroutines, files or exits.

| variable | code |
|---|---|
| `topics`, `subs`, `topicSubs` | `Store.topics`, `.subscriptions`, `.topicSubs` |
| `lease[s][i]` | `Store.messages[s]["s:i"]`: `absent`; `ready` is `Delivered == false`; `held` and `lapsed` are delivered with the deadline ahead or passed |
| `attempts[s][i]` | `message.DeliveryAttempt`, counted by the push loop only |
| `msgCounter` | `Store.msgCounter` |
| `disk` | `pubsub/state.json`; attempts are not in it |
| `phase`, `exits` | the process: up, context cancelled, gone |
| `loop` | `pushDeliveryLoop`: `todo` the subscriptions it listed, `sub` and `batch` what `PullAllUndelivered` gave it, `cur` the message in `Dispatch` |
| `streams` | subscriptions with an open `StreamingPull` |
| `acked`, `issued` | history: acknowledged copies, highest id returned |

| actions | code |
|---|---|
| `CreateTopic`, `DeleteTopic`, `CreateSubscription`, `DeleteSubscription`, `Publish`, `Pull`, `Acknowledge` | the RPCs and the store methods of those names; failing calls change nothing and are no actions |
| `Nack`, `ExtendDeadline` | `ModifyAckDeadline` with zero and with other seconds |
| `OpenStream`, `StreamPull`, `CloseStream` | `StreamingPull`; its receiving goroutine calls the store as the unary RPCs do |
| `PushTick`, `PushPull`, `PushNext`, `PushAck`, `PushDeadLetter`, `PushKeep`, `PushBatchEnd`, `PushScanEnd` | `pushDeliveryLoop` and `pushMessage`, split at each call of the store or the dispatcher |
| `PostAccepted`, `PostFailed` | the return of `Dispatch`; after the context is cancelled it can only fail |
| `DeadlinePasses` | the clock, as far as `Pull` and `PullAllUndelivered` look at it |
| `Shutdown`, `Exit`, `ExitInWrite`, `Restart` | the signal, the end of the process between and during writes, `NewStore` with `load` |

Abstractions: payloads, attributes and publish times are not kept, as no code
decides on them. Time is one bit per lease. A batch of acknowledgements is a
sequence of single ones for every property here. The push loop's `*subscription`
is kept as the value it had when it was listed; only its topic can change under
the loop, which does not read it. The order of `todo` is any order, as it is a
map's. After the signal no new RPC is accepted by the code; the model still allows
them, which only adds behaviours.

### Runs

| run | instance | shows |
|---|---|---|
| `pubsub_push` | a push subscription that can be re-created as a pull one, its dead-letter topic with a subscription, two ids, limit 1, one exit | `TypeOK`, `AckFinal`, `DeadLetterKept`, `IndexAgrees`, `FileCurrent`, `IdsAreFresh` |
| `pubsub_live` | the same with limit 2 and four ids, orderly environment, fairness | `PushDrains`, `StreamRedelivers`, `AttemptsBounded`, and `ImplementsMailbox` |
| `pubsub_dead_letter` | one push subscription, limit 2, a history of refused POSTs | `ForwardedAfterFailures` fails, see below |

The bounds (`MaxId`, `MaxBatch`, `AttemptCap`, `MaxExits`) cut off runs, not
cases: two ids are enough for a message and its dead letter, or for two messages
in one batch, and the properties each speak of one or two copies; one exit
allows a restart and changes after it, and the theorems hold for any number;
`AttemptCap` only saturates a counter beyond every limit. `MaxId` is four in `pubsub_live` so that
each message has an id left for its dead letter. `IdBefore` distinguishes
string order from numeric order from the tenth id on, which no run reaches; the
theorems hold for any `MaxId`.

### Fairness

Liveness assumes: the push loop's ticker and its steps are not starved (weak
fairness of `PushStep`); `Dispatch` returns, which its client timeout and
bounded retries ensure; deadlines pass; an open stream's ticker fires; a
cancelled process exits, by its five-second limit, and is started again, a
finite number of times. No fairness is asked of clients or of an endpoint's
answer. `MCPubSubLive` also states the environment in which draining can be
promised at all: the dead-letter topic stays (a message at its limit whose
dead-letter topic is gone is posted for ever), nobody leases the push
subscription's messages through `Pull`, and ids do not run out.

### What the code does otherwise

`website/docs/pubsub.html:276` says a message is forwarded to the dead-letter
topic after the configured number of failed delivery attempts. The loop counts
the times it took the message, and treats any error of `Dispatch` as a failure:
the POST that the server's own shutdown cancels counts, so a message can reach
the dead-letter topic one refusal early (`pubsub_dead_letter`).

### Proofs

`PubSub_proofs.tla` proves for all constants that satisfy the assumptions of
`PubSub.tla` (a data directory or none, any sets of topics and subscriptions,
any configurations and bounds):

- `TypeCorrect`, `FanOutIsExact`, `NothingUnwritten`, `AcknowledgedForGood`:
  the four invariants;
- `NoIdReused`, `DeadLettersAreKept`: the action properties `IdsAreFresh` and
  `DeadLetterKept`;
- `MailboxRefinement`: `Spec => Abstract!Spec`.

All these follow from one inductive invariant, `IInv`. The invariants are not
inductive by themselves: an acknowledged message stays away only because its id
is not above any counter that will be given out, in memory while the process
runs and in the file while it does not; and the index rebuilt by `Restart`
agrees only because the file was sound when it was written. So `IInv` states
the soundness of a store (ids stored were issued, only existing subscriptions
have messages, topics of subscriptions exist or are the marker) once, as an
operator, and demands it of memory when there is a process and of the file when
there is none; `FileCurrent` carries it from one to the other, and without a
data directory the file is empty and so is the history. The refinement proof
maps each action to the mailbox step it is, and uses `IInv` where memory and
file change places (`Exit`, `Restart`). `DeadLettersAreKept` goes through every
action to show that only an acknowledgement, the subscription's deletion and
`PushDeadLetter` take a copy away (`LostCopies`); that the last one reaches every
subscription of the dead-letter topic is `Index`.

`AttemptsAreBounded` is a theorem about `LiveSpec` of `MCPubSubLive`, since the
limit is kept only where dead letters can be delivered. `LiveAssumption` says
what is used of that environment: the push subscription has one configuration,
with some positive limit; besides it there may be any others. The invariant,
`LimitInv`, says that a message at the limit is never at rest: the loop has it in
its batch or in its hands, with the configuration it listed, and will exchange
it for a dead letter before it pulls again. It needs that attempts go with the
copy, so that a new message, or a subscription created again, starts from none.

Model-checked only: `PushDrains` and `StreamRedelivers` (liveness under
fairness is out of the prover's reach).

### Not modelled

The read-only RPCs, the request validation, logging, ordering keys (stored and
returned, never acted on), a data race on `subscription.Topic` when a reply is
formatted outside the lock, and the partial effects of a failed `os.WriteFile`
other than a truncated file.

## 4. Cloud Tasks

### The model

`CloudTasks.tla` has one action per store method, which holds the mutex
throughout, and splits a dispatch goroutine at the two points where it waits:
for the POST, and for the mutex to report.

| variable | code |
|---|---|
| `queues[q]` | `Store.queues`: the queue's `MaxAttempts`, 0 when there is no such queue |
| `tasks[q][n]` | `Store.tasks`: state, `DispatchCount` as `count`, and a serial number |
| `counter` | `Store.counter`, which names tasks created without a name; not in the file |
| `disk` | `cloudtasks/state.json` |
| `phase`, `exits` | the process: up, context cancelled, gone |
| `workers` | the goroutines of `dispatchTask`: the queue and name they will report on, and whether the POST is under way, accepted or failed |
| `created`, `stranded` | history: tasks created, and the serial numbers the last restart loaded as dispatching |

| actions | code |
|---|---|
| `CreateQueue`, `DeleteQueue`, `PurgeQueue`, `DeleteTask` | the store methods of those names; failing calls change nothing and are no actions |
| `CreateNamed`, `CreateGenerated` | `CreateTask` with and without a name; the second also fails visibly, as it moves the counter first |
| `DueTasks` | a tick of `dispatchLoop`: `DueTasks` and the start of the goroutines |
| `PostAccepted`, `PostFailed` | the return of `Dispatch`, which makes no second POST here (`MaxRetries` is 0) and fails once the context is cancelled |
| `CompleteTask` | the goroutine after a success |
| `RetryGone`, `RetryDropped`, `RetryLater` | the goroutine after a failure: the three outcomes of `RetryTask` |
| `ComesDue` | the clock, as far as `DueTasks` looks at it |
| `Shutdown`, `Exit`, `ExitInWrite`, `Restart` | the signal, the end of the process between and during writes, `NewStore` with `load` |

The serial number is the one thing the code does not have. A goroutine reports
on a *name*, and the properties have to say whether the task it finds is the one
it posted; the actions never read the number, so it decides nothing.

Abstractions: URL, method, body and headers are not kept. A pending task is
`waiting` or `due`: schedule time and backoff are how long it waits, which no
property is about. A schedule time passes for the file's copy too, as the file
holds the same instant. Names are numbers, as only generated names matter; tasks
of two queues never meet, so the runs have one queue. As in section 3, clients
may still call between the signal and the exit.

### Runs

| run | instance | shows |
|---|---|---|
| `cloudtasks` | one queue that may be created with the API's -1 (taken as 3) or with one attempt, two names, two tasks, two exits | the four invariants, `GoneForGood`, and under fairness `TaskLeaves` |
| `cloudtasks_stranded` | limits 1 and 2, one exit | `DispatchingIsPosted` fails |
| `cloudtasks_reused` | the same | `CompletesItsOwn` fails |

Two tasks are enough for the case everything turns on: the goroutine of a task
reports to another one that has its name, in a queue that was deleted and
created with another limit. More tasks only repeat it, as a report touches one
task. The first exit can strand a task, the second shows that what a restart
read is not lost again. `MaxName` bounds the counter; a clash of a generated
name with a live one needs one restart and is reached.

### Fairness

Weak fairness of the loop's tick, of some goroutine's POST ending (the client
has a timeout), of some goroutine reporting, of each schedule time arriving, of
the exit after a signal, and of the restart. A goroutine that is not the one
chosen is finally alone, as tasks and attempts are bounded, so fairness per
goroutine is not needed. Nothing is asked of clients or of the endpoint's
answer.

### What the code does otherwise

- The comment over `dispatchLoop` draws a life cycle in which a dispatching task
  is being posted. The state is written with the rest whenever another operation
  writes the file, and `load` takes it as it is: a task that was dispatching
  then has no goroutine and is never due again (`cloudtasks_stranded`). `Attended`
  shows that a restart is the only cause, and `TaskLeaves` that every other task
  leaves.
- "CompleteTask removes a successfully dispatched task", but it removes what has
  the name now (`cloudtasks_reused`). `RetryTask` has the same indirection, and
  there it is harmless to the limit of the stored count: `AttemptsWithinLimit`
  holds.

### Proofs

`CloudTasks_proofs.tla` proves for all constants that satisfy the assumptions of
`CloudTasks.tla`: `TasksTypeCorrect`, `LimitsKept` (of the stored count: a kill
forgets one that was not written, so POSTs across kills may exceed the limit),
`DispatchesAttended`,
`FileOneAttemptBehind` (invariants) and `GoneTasksStayGone` (the action property
`GoneForGood`). The inductive invariant adds three things to the properties.
A goroutine was started for a serial number that has been created, which is what
makes a new task's number fresh (`Tracked`). Serial numbers are never shared by
two slots, and every task in the store, or in the file while there is no
process, sits in an existing queue with attempts left or in dispatch (`Sound`,
stated once and demanded of memory or of the file). And without a data directory
nothing is written. `FileLags` carries soundness from memory to the file at an
exit: the file's copy of a task is the task itself or the task one attempt
earlier, and both are sound. `GoneForGood` follows from the freshness of serial
numbers, from `FileLags` at an exit, and from `Restart` reading what `Held`
counts meanwhile.

Model-checked only: `TaskLeaves` (liveness).

### Not modelled

The arithmetic of the backoff, the read-only RPCs, request validation, the
replies (which read tasks and queues outside the mutex: a data race with the
dispatch loop on the reply's counts, and in `PurgeQueue` a panic when the queue
was deleted in between; for the store that is an `Exit`).

## 5. Firestore

### The model

`FirestoreStore.tla` is the document store with the handlers that write to it;
`FirestoreListen.tla` extends it with the listeners. Unlike the stores of
sections 3 and 4 this one releases its mutex right after the change: the file is
written, the sequence number drawn and the event appended without it. So a
handler is a small machine with a step for each, and most of what is said here
is about two handlers in different steps.

| variable | code |
|---|---|
| `docs[d]` | `Store.docs`: a number that stands for the contents, 0 when there is no such document |
| `disk` | `firestore/state.json`, as `load` would read it: a truncated or garbled file reads as no documents |
| `transactions` | `Service.transactions` |
| `writer[w]` | the handlers: writes left to do (more than one for a `Commit`), the change just made, the copy of the documents collected for the file, the number drawn |
| `seq`, `changeLog`, `logStart`, `logLen` | the fields of those names |
| `up`, `exits` | the process |
| `watchers[t]` | `Store.watchers`: whose channel is registered under the target id, and for which documents |
| `stream[c]` | a `Listen` handler: where it is in answering a request to add a target |
| `events[c]` | the channel into which the goroutines of a stream's targets merge |
| `sub[c][t]` | a target: whether it is active, the channel its goroutine reads (`pipe`), and what the client has: its `view` of the documents and its resume `token` |
| `left[c]` | the channels of watchers that are no longer the latest under their id, and whose goroutines go on |

| actions | code |
|---|---|
| `Call`, `BeginTransaction`, `CommitTransaction`, `Rollback` | the RPCs; a `Call` is one write, or the writes of a `Commit` without a transaction |
| `Apply`, `ApplyRefused` | `CreateDocument`, `UpdateDocument`, `DeleteDocument` up to the unlock |
| `ReadDoc`, `Truncate`, `Fill` | `persist`: its unlocked range over the documents, and the two halves of `os.WriteFile` |
| `Number`, `AppendEvent`, `Notify` | `notifyWatchers`: the atomic counter, then the log and the channels under `watchMu` |
| `Exit`, `Restart`, `ExitAll` | the end of the process at any step; `NewStore` with `load` |
| `AddFresh`, `AddAgain` | a request to add a target without and with a resume token, with `AddWatcher` |
| `Resume`, `Fallback`, `Snapshot`, `Current` | the rest of the answer: `ChangesSince`, `SnapshotDocuments`, `CURRENT` with its token |
| `Forward`, `ForwardLeft` | the goroutine of a target's watcher, and of a watcher of an earlier use of an id |
| `Deliver` | the handler's read of the merged channel and `sendDocumentChange` |
| `RemoveTarget`, `Disconnect`, `CloseTarget`, `CloseStream` | removing a target; the end of a stream and its deferred cleanup |

`writes`, `asked`, `begun`, `opens` count for the bounds; `appends`, `inOrder`
and the `pos` of an event say how many events were appended, whether in the
order of their numbers, and which one this is; `overlap` whether another handler
was saving when the last change was made; `contested`, `doubtful` and `fresh`
which documents and targets a property has to leave out. No action's guard reads
them but for the bounds, and `writes` numbers the contents.

Abstractions: contents are version numbers, so a partial update is an update
(section 6 has the fields), and a transform, which the code acknowledges and does not apply, is no write. A
filter is a set of documents, for a collection or a document. Between the
collected data and the file there is no queue: a write that another handler has
filled in between may leave the tail of a longer content behind, in which case
the file does not parse (`spoil`). An unlocked range over a map that is written
may also end the process, which is an `Exit`. A goroutine that has read an event
and waits for room in the merged channel is that channel's last place. A stream
may use a target id again at once, or while it is active: the channel there was
goes to `left` with what it has, which its goroutine still brings to the stream.
That of an active id is never closed, and its goroutine waits for it for the rest
of the process; it has nothing more to do, and the model counts no goroutines.

### Runs

| run | instance | shows |
|---|---|---|
| `firestore` | with a file, a log of two, two handlers, two documents; either four writes (a `Commit` counts as two), one transaction and one exit, with nobody listening; or one client with one target, added twice, channels of one, and three writes or two and an exit | `TypeOK`, `LogIsRecent`, `ResumeComplete`, `FileCurrent`; `ListenTypeOK`, `Converged`, `NoWatcherLeaks`, and under fairness `CatchesUp` |
| `firestore_flush` | three writes, no exit, no listener | `FlushedOnEveryWrite` fails |
| `firestore_resume` | one target for one document or both, three writes, no file | `ResumedConverged` fails |
| `firestore_reused` | the same with channels of three, so that no event is ever dropped | `PushedToListeners` fails |

The log's 1024, the channels' 64 and 128 places are one or two where not said
otherwise, so that each is full after the first events; four writes overwrite a
log of two twice over. Two handlers are enough for each overlap, as every property compares two changes, or
one change and the documents. Two additions are an id that is used twice, whose
first channel may still have events. While a client listens, `MCFirestore` lets a
handler save without anybody else in between: no listener reads the file, and how
saves meet each other and an exit is what the behaviours without one are for.
Several targets on one stream, and clients that share a target id, are in the
model and the theorems and not in the runs: two targets have 9 million states
without a file and an exit, two clients more than 15 million. Idle servers that
have used up their writes stop, hence `CHECK_DEADLOCK FALSE`.

`Converged` and `CatchesUp` except documents whose last two changes were in
progress at once (`contested`), and those of which a target is `doubtful`: in
these cases the code does leave a listener behind for good. There are three ways
into doubt. The last event found the channel full. An event was on the stream
already when the target was added. Or an older event overtakes: the handler
applies every event to all active targets of the stream, whichever it came for,
so an event that waited in the channel of another target, or of an earlier use of
an id, can undo a newer one, or a snapshot. `Forward` and `ForwardLeft` add the
document to the doubts of all active targets when they move an event that is out
of date and that nothing still to come corrects (`Late`): no channel has a later
event of the document, and the one it came by does not belong to a registered
watcher that has missed nothing of it (`Sure`). The doubt stays until a later
event of the document is offered to the target. That it happens without a full
channel is shown by `firestore_reused`.

### Fairness

Weak fairness of each handler that writes, of each `Listen` handler's answer,
delivery and cleanup, and of the goroutine of each channel, those of earlier uses
of an id included: they are goroutines that Go schedules, and a stream's sends
return. Nothing is asked of clients, and no exit or restart is asked for.

### What the code does otherwise

- "state is loaded from disk and flushed on every write" (`store.go:87-88`): two
  handlers that save at the same time may write the older copy last, and a
  deleted document is back after a restart (`firestore_flush`). `FileCurrent`
  shows that an overlap of two saves is the only cause.
- "Clients reconnecting with valid token get incremental changes"
  (`TODOS.md:24`): the token in `CURRENT` is the counter after the snapshot. A
  change in between is in the token while its event is still on the way; a
  listener that reconnects with the token before that event arrives never hears
  of the change (`firestore_resume`). The tokens of an earlier process, which an
  empty log accepts, and snapshots that do not tell what was deleted are two
  more causes.
- "For correctness with multiple targets watching different collections, we
  re-check" (`service.go:531`): `targetIDsFor` returns every active target, and a
  target is told of documents it did not ask for (`Deliver`). The test for this,
  `TestListenIgnoresUnrelatedCollections`, has one target.
- "Changes to documents are pushed to listeners in real time"
  (`website/docs/firestore.html:239`): the goroutine of a removed target still
  brings what its channel had, and when the id is in use again, the client is
  told. A document changed before the removal and deleted before the snapshot is
  back with the client for good, although no event was dropped
  (`firestore_reused`).

### Proofs

`FirestoreStore_proofs.tla` proves for all constants that satisfy the
assumptions of `FirestoreStore.tla`: `StoreTypeCorrect`, `LogHoldsTheLatest`,
`ResumptionComplete` and `FileMatches`.

The log: `LogIsRecent` is inductive with the types, by the arithmetic of the
ring (`AddedSlot`, `OverwrittenSlot`). `ResumeComplete` is not: it needs that,
while events were appended in order, an entry's number is its position and every
number drawn beyond the log belongs to a handler that is about to append it
(`NumbersKept`). Then a number after the token is either in the log, at a place
that can be computed, or in flight.

The file: `FileCurrent` needs to know that a handler that saves alone has
collected only what the documents still are (`CopiesCurrent`), that it is alone
(`SoleSaver`), and that an exited process has no handlers
(`NobodyWhenDown`); a second change during a save ends the first two claims and
sets `overlap`.

`FirestoreListen_proofs.tla` is about the store with its listeners, for any number
of clients, targets, writers and documents, any filters, and channels of any
capacity. `ListenersKeepTheStore` shows first that the store's invariant survives
the listeners, so everything above may be used. Then `ListenTypeCorrect`,
`NoWatcherIsLeaked` and `ListenersConverge` state `ListenTypeOK`,
`NoWatcherLeaks` and `Converged`; the last two follow from `ListenIInv`:

- `ShapeInv`: a registered watcher belongs to an open stream that has the target
  active with the same filter; a closed stream has nothing left; the snapshot of
  a fresh target goes to a client that knows nothing;
- `OneInFlight`: of a document that is not contested at most one change is
  between its unlock and its announcement, and it is the document as it is;
- `TellsTruth`: once all changes of a document have been announced, the last
  event of it in the target's own channel is the document as it is
  (`PipeCurrent`); and once no channel of the stream has one, the last one on the
  stream is, or there is none and the client knows the document (`Informed`).

The claim has to pass through the channels in this order because an event moves
in three steps and each may be overtaken by events of other targets and of
earlier uses of an id, which is where `Late` comes from; `left` is among the channels
that have to be empty of a document before the stream can be trusted.
`PushedToListeners`, which does without the doubts, is false. Two clients that use one target id, and several
targets on a stream, are in the theorems, though not in the runs; what is claimed of them is what `Registered` leaves.

Model-checked only: `CatchesUp` (liveness).

### Not modelled

The read RPCs other than RunQuery (section 6), request validation, and pages.

## 6. Firestore queries

### The model

`executeQuery` holds the store's lock only in `ListDocuments`, which gives it
the documents of a collection with `Fields: sd.Fields`: not a copy, as
`getDocLocked` makes for every other reader, but the stored map. An update
without a mask puts another map in its place; one with a mask writes to it. So
what a query filters, what it sorts by and what it sends may be three different
contents of one document.

| variable | code |
|---|---|
| `docs[d]` | `Store.docs`: which map of fields the document has |
| `maps` | the maps that have been made, also those only a query still refers to |
| `readers[h]` | a `RunQuery` handler: the query, the documents it has (`docs`, and `todo` and `kept` of the current filter), what it has sent |

| actions | code |
|---|---|
| `PutDocument`, `UpdateFields`, `DeleteDocument` | `CreateDocument` and `UpdateDocument` without a mask or of a new document; with a mask; `DeleteDocument` |
| `RunQuery`, `Collect` | the request; `CollectionDocuments` of one source, by name, under the lock |
| `FilterDoc`, `NextFilter` | `applyFilter`: one document against one filter; an AND passes on what was kept, an OR starts again with all and leaves out names it has seen |
| `BeginSort`, `EndSort` | `applyOrderBy`, `sort.SliceStable`, with OFFSET and LIMIT |
| `Send`, `EndQuery` | a reply, which is encoded from the map as it is then; the end of the stream |

`read`, `written` and `moved` are history: the documents as they were collected,
the maps that were written since, and whether that happened during the sort, in
which case the sort, whose keys have changed under it, may give any order. A
value is its type's rank and a number that orders it among its type, with the
elements of an array; `compareValues` is the code's, for which all arrays, all
maps and all geo points are equal. A field stands for a whole path.

### Runs, bounds and result

The run `stores` (section 7) has a handler and three documents in two
collections, four initial contents, three requests among queries and changes,
and four queries: an AND of two filters; an OR whose filters overlap, over two
sources, sorted downwards with a limit; no filter with a sort by two keys, an
offset and a limit; an OR without a sort and with an offset. Two changes are
enough to change one document twice, or two, in the course of a query; handlers
do not touch each other, so one shows all.

`AnswersAsCollected` compares the machine with a definition of what a query
means (`AnswerTo`) that neither filters in turn nor sorts: a document belongs to
the answer if it satisfies the filters, and its place is the number of those
before it. The two agree whenever no update with a mask has met the query, and
otherwise the answer may be wrong only for the documents that were written.
Besides the mutant listed, hand-made bugs in the page's bounds, the direction
and the stability of the sort, and the OR's removal of duplicates were seen to
violate it.

### What the code does otherwise

`query.go:12` says that the matching documents are returned. A document that a
masked update writes between the filter and the reply is sent with fields that
do not match; and Go ends a process that it catches reading and writing a map at
once. The comment of `copyFields` (`store.go:252`) shows that the rule is known
and `ListDocuments` was missed. Which of these happens depends on timing, so
`AnswersAsCollected` says exactly how far the answer can be relied on.

### Proofs

`FirestoreQuery_proofs.tla` proves `QueriesAreTyped` and `QueriesAnswerAsCollected`
(`AnswersAsCollected`) of `QueriesSpec`, for any finite set of documents, any
collections without a document in common, any fields, values, filters, sort
orders, offsets and limits, and any number of handlers. `QueryAssumption` has what
is used: a query names each of its collections once.

The invariant `QInv` says of a handler in the middle of a query how what it has
done relates to what it read:

- `Shape`, `NamesApart`: its lists refer to documents it collected, which all have
  different names;
- `MapsAsRead`: a map that was not written since is as it was read - other
  changes give a document another map;
- `AndPass`, `OrPass`: what the filters so far have kept, in which order, and what
  the present one has still to look at. For an AND that is a subsequence of what
  was read; for an OR, a document stands behind those that an earlier filter
  kept, which is what `FirstMatch` counts;
- `Filtered`: the documents that match, in that order;
- `Sending`: what was sent and what will be is the page.

All of it is said of documents whose map was not written (`Sound`), so it holds
while others are. From `Filtered` to `Sending` the proof has to relate the code's
sort to the counting definition: `Less`, with the order of the documents before
the sort for those it does not tell apart, is a strict total order (`compareValues`
is one, with ties, on values of every type), it agrees with `Precedes`
(`LessMeans`, `PrecedesMeans`), an arrangement by a strict total order exists
(`OrderIsThere`) and puts an element at the number of those before it (`SortedIs`,
`PlaceIs`), and OFFSET and LIMIT cut the same interval from both (`PageIs`). `Ordered`, which chooses such an
arrangement, stands for `sort.Slice` and `sort.SliceStable`; it is a choice among
arrangements of a finite set, of which existence is proved, and not a recursion.

### Not modelled

Unary filters (IS_NULL and IS_NAN, which the code does not look at: every document
passes), filters nested in filters, a missing `where` inside one, negative limits (a
slice out of range, recovered nowhere), NaN (equal to itself and below every
number, which is an order), the plain `ListDocuments` RPC.

## 7. Cloud Storage, Secret Manager, Cloud KMS

Each of these answers a request from its own store, and they meet only in the
exit and the start of the process they share (`ServerProcess`). `MCStores`
composes them: the initial state says which one clients `used` in a behaviour,
as no two of them have a variable in common but the process; an exit stops all
of them at once and a start loads all of them.

### The models

| variable of `CloudStorage` | code |
|---|---|
| `buckets`, `objects`, `blobs`, `etags` | `Store.buckets`, `.objects`, `gcs/state.json`, `etagCounter` |
| `sessions` | `Service.resumables`, and sessions that are closed but to which a handler still refers |
| `uploads[h]` | an upload handler: its client, its session, and where it appends |
| `uploadId[c]` | the session a client was given, which it keeps through a restart |
| `sent[b][n]` | history: the client whose body the object is; `Mixed` if the session was written otherwise than once by its owner |

`BeginUpload` and `PutMedia` are the two ends of an upload in one request, with
the body read in between; `StartSession`, `BeginChunk`, `WriteBegin`,
`WriteEnd`, `PutChunk`, `CloseSession` are the steps of a resumable one. Two PUTs
of one session append to the same `bytes.Buffer` without a lock: an append is
two steps, and of two that overlap the second may start where the first did; and
`PutObject` stores the buffer's own array, so a later append may be seen in the
object (`buf`). The counter that numbers sessions starts again with the process,
so a client may continue a session of somebody else; the model lets it.

| variable of `SecretVersions` | code |
|---|---|
| `secrets`, `vault` | `Store.secrets` with each secret's versions and next number; `secretmanager/state.json` |
| `kept` | history: what was added to a secret, and which of it was destroyed |

An RPC is one store method under the mutex, and one action. `IsVersion` is
`resolveVersion`: by number from the first version on, or the last one for
"latest", whatever its state.

| variable of `KeyVersions` | code |
|---|---|
| `keyRings`, `keys`, `versions` | the maps of `Store`; a key has its version 1 and no other |
| `rpcs[r]` | an RPC between the two locked steps of finding a version and using it |
| `generated`, `products`, `answer`, `retired` | history: key material drawn, what was made with it, the last answer, and material destroyed |

`FindToMake`/`Make` are Encrypt, AsymmetricSign and MacSign,
`FindToCheck`/`Check` Decrypt and MacVerify, `Refuse` the error of either. Key
material is a number that is never drawn twice (32 random bytes), and XOR with
other material gives `Garbage`, without an error, as the code's does.

### The run `stores`

| service | instance |
|---|---|
| Cloud Storage | two buckets, one object name, two clients with the same target, two handlers, eight requests, three ids, one exit |
| Secret Manager | one secret, two payloads, three versions, eight requests, one exit |
| KMS | two keys, two texts, two RPCs at a time, five requests, one exit |
| Queries | section 6 |

A request is an arrival; the steps it takes afterwards are not counted. Eight
are enough to create a bucket, open a session, send two overlapping PUTs, delete
the object, delete the bucket and create it again; to add a version, destroy it,
exit, load and add another; five of KMS to make two keys, a product of one, and
present it to the other across a destruction or an exit. Two of each thing are
enough, since each property speaks of one object, version or product and of at
most one other that interferes. Deadlock is not checked, as at the bound of
requests there is nothing left to do.

| property | says |
|---|---|
| `StoresTypeOK` | the type invariants; no upload refers to a session that was cleared under it; no two keys share material |
| `Housed` | no object is in a bucket that is not there, in memory or file, although an upload looks at the bucket before it reads the body |
| `Intact` | an object sent in one request, or by a session its owner wrote to once, is that body, in memory and in the file |
| `AnsweredIsSaved` | what a client was answered for is in the file (`BlobsCurrent`, `SecretsSaved`) |
| `PayloadsKept` | version i of a secret holds what was added as the i-th, until destroyed and never after, also in the file |
| `RoundTrip` | what a process encrypts or signs under a key it reads under that key, and only that |
| `NeverUsedAgain` | destroyed material makes and checks nothing, not even in a call that had found the version before |

### What the code does otherwise

- "we treat every PUT as a complete upload" (`gcs/service.go:526-528`): a PUT
  appends to what earlier PUTs of the session have written. A client whose PUT
  was cut off after the append, or failed because the bucket was gone, and which
  sends it again, stores its body twice. That is why `Intact` excepts sessions
  that were not written exactly once.
- Nothing of KMS is in a file, also with a data directory: after a restart every
  key is gone, and a key that is created again under its name decrypts what the
  first one encrypted to garbage, without an error. `RoundTrip` says so.
- `DestroySecretVersion` accepts a version that is destroyed already.

### Proofs

For all values of the constants that satisfy the modules' assumptions. First each
component by itself.

`CloudStorage_proofs`: `ObjectsHaveBuckets` (`Housed`), `UploadsAreIntact`
(`Intact`), `FileIsCurrent` (`BlobsCurrent`). The inductive invariant `StInv` has
three parts. `ObjectsInv` relates objects, buckets, the file and the history, and
is what simple uploads need. `SessionsInv` says that the handlers of a session
refer to bytes it has, and what it holds when it was written to once.
`SharedInv` is needed because objects share buffers: a handler that is still
appending to the buffer of an object whose sender is known appends behind it.

`Stores_proofs`, secrets: `PayloadsAreKept`, `AnsweredCallsSaved`. `PayloadsKept`
needs that memory and file are equal while the process runs (or the file empty
without a data directory), and that nothing is remembered of a secret that was
deleted.

`Stores_proofs`, keys: `KeysAreTyped` (`KeysTypeOK`), `ProductsRoundTrip`,
`DestroyedIsUnused`. `RoundTrip` is not inductive: it needs that material is
drawn once and belongs to one key (`MaterialsOK`), that what a key made in this
process was made with the material its version still has (`ProductsOK`), and
that clients present what they were given (`RpcsOK`).

Then the process they make up. `StoresInv` is the conjunction of the components'
invariants, with that of the queries; a step of one component leaves the others'
variables alone, and the exits and starts are steps of all. From it follow, of
`MCStores!Spec`, `StoresTypeCorrect`, `StoresKeepObjects`, `StoresAreSaved`,
`StoresKeepPayloads`, `StoresRoundTrip`, `StoresForgetKeys` and
`StoresAnswerAsCollected`: every property of the run `stores`.

### Not modelled

The read handlers, signed URLs, content types, labels, lists and request
parsing; the cryptography beyond equality; `crc32c` and digests.

## 8. Server, lazy containers, dispatcher

### The models

`ServerRun` is the life of a process: `stage` is where `Run` is, `ctxDone` its
context, `svc` the goroutine of each service, `errCh` the channel of errors.
`CheckPorts`, `Listen`, `FailToListen`, `FailToServe`, `Signal`, `StopService`,
then `BeginWait` or `ReturnError` (the first select), `ReturnDone` or
`ReturnTimeout` (the second), `MainReturns` or `Kill`, `StartAgain`.

`LazyContainer` adds a service that is a proxy for a container.

| variable | code |
|---|---|
| `container`, `works` | the daemon's container of that name; whether daemon and image do what they are asked from now on |
| `mutex`, `started` | `LazyService.mu`, `.started` |
| `conns[c]` | a goroutine of `handleConn`: in `ensureContainer` before its next call, or dialling or proxying |
| `stopper` | `shutdown` |
| `lost` | history: a call about this container failed, or its process ended early |

Its actions are the calls of `ensureContainer` in order: `Lock`, `Find`, `Reuse`,
`Drop`, `Pull`, `Create`, `StartContainer`, `HostPort`, `WaitForReady`, with the
clean-up `StopUnready`, `RemoveUnready` of the four error paths; then `Dial` and
`HangUp`; `Shutdown`, `ShutdownStop`, `ShutdownRemove`; and `CleanupOrphans` of
`main`. A call that fails may have been carried out or not, as its answer may be
late; it fails only if the daemon does not work yet or the context is cancelled.

`Dispatch` is the retry loop: `Answer`, `NoAnswer` (a lost answer may hide an
acceptance), `Judge`, `BackoffEnds`, `BackoffCancelled`. `Delivery` is what the
modules of sections 3 and 4 take it for - one POST that is accepted or failed,
where a failure says nothing of what the endpoint did - and `ImplementsDelivery`
shows that it is: `outcome` is refined by `Outcome`, `taken` by itself.

### The run `lifecycle`

Two services (one lazy), two connections, up to four attempts of a dispatch with
a backoff of 1, 2, 3, two exits. Two connections are one that starts and one
that waits, and a third would wait like the second; the first exit leaves a
container in any state to a second process, whose exit leaves it again. Container
and dispatch share only the context, so a behaviour uses one of the two. After
the last exit the process need not be started again, hence
`CHECK_DEADLOCK FALSE`.

| property | says |
|---|---|
| `LifecycleTypeOK` | types, and that the mutex is held by the one goroutine between Lock and Unlock |
| `NothingForgotten` | a container that exists is the started service's, or its starter's, or a call about it failed |
| `StartedHasContainer` | a started service keeps the container it started |
| `HonestResult` | a dispatch makes at most MaxRetries + 1 POSTs, and what it returns is true |
| `Answered` | a connection that waits for the container is proxied or closed |
| `Recovers` | whatever earlier failures left, once the daemon works the service gets started |
| `RunEnds` | Run returns after a signal or the failure of a service |
| `ImplementsDelivery` | above |

### Fairness

Weak fairness of each connection's steps (the daemon's calls have timeouts, or
return), of `shutdown`, and of Run's selects with their timer; strong fairness of
`Lock`, as a mutex of Go is handed to one who has waited a millisecond. `Demand`,
that clients connect again and again, is an assumption about clients and used for
`Recovers` only: a service that nobody connects to starts nothing. The daemon's
recovery is not assumed; `Recovers` starts from it.

### What the code does otherwise

The comment of `shutdown` is "stops and removes the container if running". A
container whose start was interrupted by the signal itself is neither: the
clean-up in `ensureContainer` uses the cancelled context and does nothing, and
`shutdown` looks at `started` only. It is left to the next process, whose
`CleanupOrphans` and `FindExisting` do take care of it (`Recovers`);
`NothingForgotten` has the case as `lost`. And `started` is never looked at
again when the container dies: later connections are closed until a restart.

### Proofs

`Lifecycle_proofs`, for any number of connections and services:
`OneStartAtATime` (the mutex excludes), `NoneForgotten`, `StartedKeepsContainer`.
`NoneForgotten` and `ProcessIsSound` say nothing of the containers that are `lost`:
a call of the daemon about them failed, or their process ended early.
The invariant `LInv` adds who holds the mutex, which is what keeps anybody else
from touching a container between its creation and `started`, and that an exited
process has no goroutines left to hold anything.

The dispatcher, for every number of retries and every backoff: `ResultsAreHonest`,
`DispatchDelivers` (the refinement). The invariant `DInv`
adds what the counter says at each place of the loop: `posts = attempt + 1`
before and during a POST, `posts = attempt` during the wait.

Of the composed process, `MCLifecycle!Spec`: `LifecycleTypeCorrect`,
`ProcessIsSound` (`NothingForgotten`, `StartedHasContainer`, `HonestResult`) and
`ProcessDelivers` (`ImplementsDelivery`). `LInv` and `DInv` are kept together, since
the signal, the exits and the restarts that each of them has to survive are the
server's.

Model-checked only: the three liveness properties.

### Not modelled

Redirects, which `http.Client` follows within one attempt (307 and 308 post again,
301 to 303 get), so that the bound on POSTs is one on calls of `Do`; flags,
environment and help text, the options of the daemon's calls, image
names, the port's number, bytes on the proxied connection.

## 9. Components without a module

- **Cloud Logging, Cloud Run.** A bounded slice and a map, each under a mutex,
  in memory only: every request is one locked step that refers to no earlier
  one, so there is nothing to interleave. (Cloud Run makes its `Uid` of the
  number of services there are, which may repeat after a deletion; nothing uses
  it.)
- **Vertex AI.** A stateless translation between two JSON formats.
- **Authentication stub, website, examples.** A fixed token; static pages;
  clients of the emulator.
