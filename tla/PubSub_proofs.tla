---------------------------- MODULE PubSub_proofs ----------------------------
(***************************************************************************)
(* Theorems about PubSub, for every set of topics and subscriptions, every *)
(* configuration of them and every bound; and, in the environment of       *)
(* MCPubSubLive, for every limit of deliveries.                            *)
(***************************************************************************)
EXTENDS MCPubSubLive, TLAPS

(* What a pull takes is among what is available. *)
LEMMA FirstIsSubset == \A S, n : First(S, n) \subseteq S
  BY DEF First

LEMMA EmptyTypes ==
    /\ NoLeases \in [Sub -> [Id -> Lease]]
    /\ NoAttempts \in [Sub -> [Id -> 0..AttemptCap]]
    /\ NoSubs \in [Sub -> SubConfig \cup {NoSub}]
    /\ EmptyFile \in FileType
    /\ IdleLoop \in LoopType
  BY BoundsAssumption DEF NoLeases, NoAttempts, NoSubs, EmptyFile, FileType,
     IdleLoop, LoopType, Lease

(* The updates of the message tables keep them tables. *)
LEMMA TableTypes ==
    ASSUME TypeOK, NEW s \in Sub, NEW I, NEW l \in Lease
    PROVE  /\ SetLease(s, I, l) \in [Sub -> [Id -> Lease]]
           /\ DropAttempts(s, I) \in [Sub -> [Id -> 0..AttemptCap]]
  BY BoundsAssumption DEF TypeOK, SetLease, DropAttempts

LEMMA LapseAt ==
    ASSUME NEW leases \in [Sub -> [Id -> Lease]], NEW s \in Sub, NEW i \in Id
    PROVE  /\ Lapse(leases, s, i) \in [Sub -> [Id -> Lease]]
           /\ \A u \in Sub, k \in Id :
                 Lapse(leases, s, i)[u][k] = "absent" <=> leases[u][k] = "absent"
  BY DEF Lapse, Lease

LEMMA FanOutType ==
    ASSUME NEW held \in [Sub -> [Id -> Lease]], NEW t, NEW ids
    PROVE  FanOut(held, t, ids) \in [Sub -> [Id -> Lease]]
  BY DEF FanOut, Lease

(* The file is of its type if the store is. *)
LEMMA PersistType ==
    ASSUME TypeOK, Persist,
           topics' \in SUBSET Topic, subs' \in [Sub -> SubConfig \cup {NoSub}],
           lease' \in [Sub -> [Id -> Lease]], msgCounter' \in 0..MaxId
    PROVE  disk' \in FileType
  BY DEF TypeOK, Persist, FileType

(* Every step keeps every variable of its type. *)
LEMMA TypeStep == TypeOK /\ [Next]_vars => TypeOK'
<1> SUFFICES ASSUME TypeOK, [Next]_vars PROVE TypeOK'
  OBVIOUS
<1> USE BoundsAssumption, ConfigAssumption
<1>1. ASSUME NEW t \in Topic, CreateTopic(t) PROVE TypeOK'
  BY <1>1, PersistType DEF CreateTopic, TypeOK, history
<1>2. ASSUME NEW t \in Topic, DeleteTopic(t) PROVE TypeOK'
  BY <1>2, PersistType DEF DeleteTopic, TypeOK, history, Targets, Exists, SubConfig
<1>3. ASSUME NEW s \in Sub, NEW c \in Config[s], CreateSubscription(s, c) PROVE TypeOK'
  BY <1>3, PersistType, TableTypes DEF CreateSubscription, TypeOK, history, Lease
<1>4. ASSUME NEW s \in Sub, DeleteSubscription(s) PROVE TypeOK'
  BY <1>4, PersistType, TableTypes DEF DeleteSubscription, TypeOK, history, Lease
<1>5. ASSUME NEW t \in Topic, NEW n \in 1..MaxBatch, Publish(t, n) PROVE TypeOK'
  <2>1. lease' \in [Sub -> [Id -> Lease]]
    BY <1>5, FanOutType DEF Publish, TypeOK
  <2>2. msgCounter' \in 0..MaxId /\ issued' \in 0..MaxId
    BY <1>5 DEF Publish, TypeOK
  <2>3. disk' \in FileType
    BY <1>5, <2>1, <2>2, PersistType DEF Publish, TypeOK
  <2> QED
    BY <1>5, <2>1, <2>2, <2>3 DEF Publish, TypeOK
<1>6. ASSUME NEW s \in Sub, NEW n \in 1..MaxBatch, Pull(s, n) PROVE TypeOK'
  BY <1>6, PersistType, TableTypes DEF Pull, PullIds, TypeOK, history, Lease
<1>7. ASSUME NEW s \in Sub, NEW i \in Id, Acknowledge(s, i) PROVE TypeOK'
  BY <1>7, PersistType, TableTypes DEF Acknowledge, AckIds, TypeOK, Lease, Stored
<1>8. ASSUME NEW s \in Sub, NEW i \in Id, Nack(s, i) PROVE TypeOK'
  BY <1>8, PersistType, TableTypes DEF Nack, TypeOK, history, Lease
<1>9. ASSUME NEW s \in Sub, NEW i \in Id, ExtendDeadline(s, i) PROVE TypeOK'
  BY <1>9, PersistType, TableTypes DEF ExtendDeadline, TypeOK, history, Lease
<1>10. ASSUME NEW s \in Sub, OpenStream(s) PROVE TypeOK'
  BY <1>10 DEF OpenStream, TypeOK, history, store
<1>11. ASSUME NEW s \in Sub, StreamPull(s) PROVE TypeOK'
  BY <1>11, PersistType, TableTypes DEF StreamPull, PullIds, TypeOK, history, Lease
<1>12. ASSUME NEW s \in Sub, CloseStream(s) PROVE TypeOK'
  BY <1>12 DEF CloseStream, TypeOK, history, store
<1>13. CASE PushTick
  BY <1>13 DEF PushTick, TypeOK, history, store, LoopType
<1>14. ASSUME NEW s \in Sub, PushPull(s) PROVE TypeOK'
  <2> DEFINE batch == IF Exists(s) THEN Available(s) ELSE {}
             count == [attempts EXCEPT ![s] = [i \in Id |->
                          IF i \in batch /\ @[i] < AttemptCap THEN @[i] + 1 ELSE @[i]]]
  <2>1. batch \in SUBSET Id
    BY DEF Available
  <2>2. count \in [Sub -> [Id -> 0..AttemptCap]]
    <3>1. \A i \in Id : attempts[s][i] \in 0..AttemptCap
      BY DEF TypeOK
    <3>2. [i \in Id |-> IF i \in batch /\ attempts[s][i] < AttemptCap
                        THEN attempts[s][i] + 1 ELSE attempts[s][i]] \in [Id -> 0..AttemptCap]
      BY <3>1
    <3> QED
      BY <3>2 DEF TypeOK
  <2>3. loop' \in LoopType /\ loop'.pc = "next" /\ loop'.sub = s /\ loop'.todo[s] # NoSub
    BY <1>14, <2>1 DEF PushPull, TypeOK, LoopType
  <2>4. lease' \in [Sub -> [Id -> Lease]] /\ attempts' = count
    BY <1>14, TableTypes DEF PushPull, Lease
  <2> QED
    BY <1>14, <2>2, <2>3, <2>4 DEF PushPull, TypeOK, history
<1>15. CASE PushScanEnd
  BY <1>15, EmptyTypes DEF PushScanEnd, TypeOK, history, store, IdleLoop
<1>16. ASSUME NEW i \in Id, PushNext(i) PROVE TypeOK'
  BY <1>16 DEF PushNext, TypeOK, history, store, LoopType
<1>17. CASE PushBatchEnd
  BY <1>17 DEF PushBatchEnd, TypeOK, history, store, LoopType
<1>18. CASE PostAccepted \/ PostFailed
  BY <1>18 DEF PostAccepted, PostFailed, TypeOK, history, store, LoopType
<1>19. CASE PushAck
  <2>1. loop.sub \in Sub /\ loop.cur \in Id /\ loop.todo[loop.sub] # NoSub
    BY <1>19 DEF PushAck, TypeOK
  <2>2. loop' \in LoopType /\ loop'.pc = "next" /\ loop'.sub = loop.sub
                          /\ loop'.todo = loop.todo
    BY <1>19 DEF PushAck, TypeOK, LoopType
  <2>3. CASE Exists(loop.sub)
    <3>1. AckIds(loop.sub, {loop.cur})
      BY <1>19, <2>3 DEF PushAck
    <3>2. lease' \in [Sub -> [Id -> Lease]] /\ attempts' \in [Sub -> [Id -> 0..AttemptCap]]
      BY <2>1, <3>1, TableTypes DEF AckIds, Lease
    <3>3. acked' \in SUBSET (Sub \X Id)
      BY <2>1, <3>1 DEF AckIds, Stored, TypeOK
    <3>4. disk' \in FileType
      BY <3>1, <3>2, PersistType DEF AckIds, TypeOK
    <3> QED
      BY <1>19, <2>1, <2>2, <3>1, <3>2, <3>3, <3>4 DEF PushAck, AckIds, TypeOK
  <2>4. CASE ~Exists(loop.sub)
    BY <1>19, <2>1, <2>2, <2>4 DEF PushAck, TypeOK, history, store
  <2> QED
    BY <2>3, <2>4
<1>20. CASE PushDeadLetter
  <2> DEFINE s == loop.sub
             i == loop.cur
  <2>1. s \in Sub /\ i \in Id /\ loop.todo[s] # NoSub
    BY <1>20 DEF PushDeadLetter, TypeOK
  <2>2. loop' \in LoopType /\ loop'.pc = "next" /\ loop'.sub = s /\ loop'.todo = loop.todo
    BY <1>20 DEF PushDeadLetter, TypeOK, LoopType
  <2>3. SetLease(s, {i}, "absent") \in [Sub -> [Id -> Lease]]
        /\ DropAttempts(s, {i}) \in [Sub -> [Id -> 0..AttemptCap]]
    BY <2>1, TableTypes DEF Lease
  <2>4. lease' \in [Sub -> [Id -> Lease]] /\ attempts' \in [Sub -> [Id -> 0..AttemptCap]]
    BY <1>20, <2>3, FanOutType DEF PushDeadLetter
  <2>5. msgCounter' \in 0..MaxId /\ issued' \in 0..MaxId
    BY <1>20 DEF PushDeadLetter, TypeOK
  <2>6. disk' \in FileType
    BY <1>20, <2>4, <2>5, PersistType DEF PushDeadLetter, TypeOK
  <2> QED
    BY <1>20, <2>1, <2>2, <2>4, <2>5, <2>6 DEF PushDeadLetter, TypeOK
<1>21. CASE PushKeep
  BY <1>21 DEF PushKeep, TypeOK, history, store, LoopType
<1>22. ASSUME NEW s \in Sub, NEW i \in Id, DeadlinePasses(s, i) PROVE TypeOK'
  BY <1>22, LapseAt DEF DeadlinePasses, TypeOK, history, FileType
<1>23. CASE Shutdown
  BY <1>23 DEF Shutdown, TypeOK, history, store
<1>24. CASE Exit \/ ExitInWrite
  <2>1. MemoryLost /\ phase' = "down" /\ exits' = exits + 1 /\ exits < MaxExits
    BY <1>24 DEF Exit, ExitInWrite
  <2>2. loop' \in LoopType /\ loop'.pc = "idle"
    BY <2>1, EmptyTypes DEF MemoryLost, IdleLoop
  <2>3. disk' \in FileType
    BY <1>24, EmptyTypes DEF Exit, ExitInWrite, TypeOK
  <2>4. acked' \in SUBSET (Sub \X Id) /\ issued' \in 0..MaxId
    BY <1>24 DEF Exit, ExitInWrite, TypeOK, history
  <2> QED
    BY <2>1, <2>2, <2>3, <2>4, EmptyTypes DEF MemoryLost, TypeOK
<1>25. CASE Restart
  BY <1>25 DEF Restart, TypeOK, history, FileType
<1>26. CASE UNCHANGED vars
  BY <1>26 DEF vars, TypeOK, history, store
<1> QED
  BY <1>1, <1>2, <1>3, <1>4, <1>5, <1>6, <1>7, <1>8, <1>9, <1>10, <1>11, <1>12, <1>13,
     <1>14, <1>15, <1>16, <1>17, <1>18, <1>19, <1>20, <1>21, <1>22, <1>23, <1>24, <1>25,
     <1>26
  DEF Next, Admin, Publisher, Subscriber, Stream, PushStep, Endpoint, Time, Process

(* No operation of the store, step of the push loop, exit or restart       *)
(* leaves a variable outside its type.                                     *)
THEOREM TypeCorrect == Spec => []TypeOK
<1>1. Init => TypeOK
  BY BoundsAssumption, EmptyTypes DEF Init, TypeOK, IdleLoop, LoopType
<1> QED
  BY <1>1, TypeStep, PTL DEF Spec

-----------------------------------------------------------------------------
(* The inductive invariant.  IndexAgrees, FileCurrent and AckFinal are not *)
(* inductive: why no acknowledged copy comes back is that ids only grow    *)
(* and that the file is as good as the memory it will replace.  So the     *)
(* same conditions are put on whichever of the two is the store.           *)

(* A store with subscriptions S, messages L and counter c: no messages     *)
(* without a subscription, no id beyond the counter, and nothing that was  *)
(* acknowledged.                                                           *)
SoundStore(T, S, L, c) ==
    /\ \A s \in Sub : S[s] # NoSub => S[s].topic \in T \cup {DeletedTopic}
    /\ \A s \in Sub, i \in Id : L[s][i] # "absent" =>
          S[s] # NoSub /\ i <= c /\ <<s, i>> \notin acked
    /\ c = issued

Index == \A s \in Sub, t \in Topic : s \in topicSubs[t] <=> Exists(s) /\ subs[s].topic = t

AckedWereIssued == \A s \in Sub, i \in Id : <<s, i>> \in acked => i <= issued

IInv ==
    /\ TypeOK
    /\ Index
    /\ AckedWereIssued
    /\ FileCurrent
    /\ ~DataDir => disk = EmptyFile
    /\ Running => SoundStore(topics, subs, lease, msgCounter)
    /\ ~Running => /\ subs = NoSubs /\ lease = NoLeases
                   /\ SoundStore(disk.topics, disk.subs, disk.lease, disk.counter)


LEMMA SetLeaseAt ==
    ASSUME TypeOK, NEW s \in Sub, NEW I, NEW l, NEW u \in Sub, NEW i \in Id
    PROVE  SetLease(s, I, l)[u][i] = IF u = s /\ i \in I THEN l ELSE lease[u][i]
  BY DEF SetLease, TypeOK

LEMMA FanOutAt ==
    ASSUME NEW held, NEW t, NEW ids, NEW u \in Sub, NEW i \in Id
    PROVE  FanOut(held, t, ids)[u][i] =
              IF u \in Targets(t) /\ i \in ids THEN "ready" ELSE held[u][i]
  BY DEF FanOut

(* What an operation of a running store has to establish if it writes the  *)
(* file ...                                                                *)
LEMMA WriteStep ==
    ASSUME IInv, TypeOK', Running, Persist, UNCHANGED phase,
           Index', AckedWereIssued', SoundStore(topics, subs, lease, msgCounter)'
    PROVE  IInv'
  BY DEF IInv, Persist, FileCurrent, Running

(* ... and if it leaves the store and the file alone.                      *)
LEMMA LoopStep ==
    ASSUME IInv, TypeOK', UNCHANGED <<store, disk, history>>, Running <=> Running'
    PROVE  IInv'
  BY DEF IInv, store, history, FileCurrent, SoundStore, Index, AckedWereIssued, Exists

LEMMA IInvStep == IInv /\ [Next]_vars => IInv'
<1> SUFFICES ASSUME IInv, [Next]_vars PROVE IInv'
  OBVIOUS
<1>0. TypeOK /\ TypeOK'
  BY TypeStep DEF IInv
<1> USE <1>0, NullAssumption, ConfigAssumption, BoundsAssumption
<1>1. ASSUME NEW t \in Topic, CreateTopic(t) PROVE IInv'
  BY <1>1, WriteStep DEF CreateTopic, IInv, SoundStore, Index, AckedWereIssued, Exists, history
<1>2. ASSUME NEW t \in Topic, DeleteTopic(t) PROVE IInv'
  <2>1. \A s \in Sub : s \in Targets(t) <=> Exists(s) /\ subs[s].topic = t
    BY DEF IInv, Index, Targets, TypeOK
  <2>2. ASSUME NEW s \in Sub, s \notin Targets(t) PROVE subs'[s] = subs[s]
    BY <1>2, <2>2 DEF DeleteTopic
  <2>3. ASSUME NEW s \in Sub, s \in Targets(t)
        PROVE  subs'[s] # NoSub /\ subs'[s].topic = DeletedTopic
    <3>1. subs[s] \in SubConfig
      BY <2>1, <2>3 DEF TypeOK, Exists
    <3>2. subs'[s] = [subs[s] EXCEPT !.topic = DeletedTopic]
      BY <1>2, <2>3 DEF DeleteTopic
    <3>3. subs'[s] \in SubConfig /\ subs'[s].topic = DeletedTopic
      BY <3>1, <3>2 DEF SubConfig
    <3> QED
      BY <3>3
  <2>4. ASSUME NEW s \in Sub, NEW u \in Topic
        PROVE  s \in topicSubs'[u] <=> subs'[s] # NoSub /\ subs'[s].topic = u
    <3>1. topicSubs'[u] = IF u = t THEN {} ELSE topicSubs[u]
      BY <1>2 DEF DeleteTopic, TypeOK
    <3>2. s \in topicSubs[u] <=> Exists(s) /\ subs[s].topic = u
      BY DEF IInv, Index
    <3>3. CASE s \in Targets(t)
      BY <2>1, <2>3, <3>1, <3>2, <3>3
    <3>4. CASE s \notin Targets(t)
      BY <2>1, <2>2, <3>1, <3>2, <3>4 DEF Exists
    <3> QED
      BY <3>3, <3>4
  <2>5. Index'
    BY <2>4 DEF Index, Exists
  <2>6. SoundStore(topics, subs, lease, msgCounter)'
    <3>1. SoundStore(topics, subs, lease, msgCounter)
      BY <1>2 DEF DeleteTopic, IInv
    <3>2. ASSUME NEW s \in Sub, subs'[s] # NoSub
          PROVE  subs'[s].topic \in topics' \cup {DeletedTopic}
      BY <1>2, <2>1, <2>2, <2>3, <3>1, <3>2 DEF DeleteTopic, SoundStore, Exists
    <3>3. \A s \in Sub : subs[s] # NoSub => subs'[s] # NoSub
      BY <2>2, <2>3
    <3> QED
      BY <1>2, <3>1, <3>2, <3>3 DEF DeleteTopic, SoundStore, history
  <2>7. AckedWereIssued'
    BY <1>2 DEF DeleteTopic, IInv, AckedWereIssued, history
  <2> QED
    BY <1>2, <2>5, <2>6, <2>7, WriteStep DEF DeleteTopic
<1>3. ASSUME NEW s \in Sub, NEW c \in Config[s], CreateSubscription(s, c) PROVE IInv'
  BY <1>3, WriteStep, SetLeaseAt DEF CreateSubscription, IInv, SoundStore, Index,
     AckedWereIssued, Exists, history, TypeOK
<1>4. ASSUME NEW s \in Sub, DeleteSubscription(s) PROVE IInv'
  BY <1>4, WriteStep, SetLeaseAt DEF DeleteSubscription, IInv, SoundStore, Index,
     AckedWereIssued, Exists, history, TypeOK
<1>5. ASSUME NEW t \in Topic, NEW n \in 1..MaxBatch, Publish(t, n) PROVE IInv'
  <2>1. SoundStore(topics, subs, lease, msgCounter)
    BY <1>5 DEF Publish, IInv
  <2>2. \A s \in Sub, i \in Id : lease'[s][i] # "absent" =>
           lease[s][i] # "absent" \/ (Exists(s) /\ i > msgCounter /\ i <= msgCounter')
    BY <1>5, FanOutAt DEF Publish, Targets, TypeOK, Id
  <2>3. msgCounter' = issued' /\ msgCounter' >= msgCounter /\ msgCounter = issued
    BY <1>5, <2>1 DEF Publish, SoundStore, TypeOK
  <2>4. AckedWereIssued'
    BY <1>5, <2>3 DEF Publish, IInv, AckedWereIssued, TypeOK, Id
  <2>5. SoundStore(topics, subs, lease, msgCounter)'
    BY <1>5, <2>1, <2>2, <2>3 DEF Publish, SoundStore, IInv, AckedWereIssued, TypeOK, Id, Exists
  <2>6. Index'
    BY <1>5 DEF Publish, IInv, Index, Exists
  <2> QED
    BY <1>5, <2>4, <2>5, <2>6, WriteStep DEF Publish
<1>6. ASSUME NEW s \in Sub, NEW n, Running, Exists(s), PullIds(s, n) PROVE IInv'
  BY <1>6, WriteStep, SetLeaseAt, FirstIsSubset DEF PullIds, IInv, SoundStore, Index,
     AckedWereIssued, Exists, Available, history
<1>7. ASSUME NEW s \in Sub, NEW I \in SUBSET Id, Running, Exists(s), AckIds(s, I),
             UNCHANGED phase
      PROVE IInv'
  BY <1>7, WriteStep, SetLeaseAt DEF AckIds, IInv, SoundStore, Index,
     AckedWereIssued, Exists, Stored
<1>8. ASSUME NEW s \in Sub, NEW i \in Id, Nack(s, i) \/ ExtendDeadline(s, i) PROVE IInv'
  BY <1>8, WriteStep, SetLeaseAt DEF Nack, ExtendDeadline, IInv, SoundStore, Index,
     AckedWereIssued, Exists, Stored, history
<1>9. ASSUME NEW s \in Sub, NEW i \in Id, DeadlinePasses(s, i) PROVE IInv'
  <2>1. Running /\ Running' /\ UNCHANGED <<subs, topics, topicSubs, msgCounter, acked, issued>>
    BY <1>9 DEF DeadlinePasses, Running, history
  <2>0. lease \in [Sub -> [Id -> Lease]] /\ disk \in FileType /\ disk.lease \in [Sub -> [Id -> Lease]]
    BY DEF TypeOK, FileType
  <2>2. \A u \in Sub, k \in Id : lease'[u][k] = "absent" <=> lease[u][k] = "absent"
    BY <1>9, <2>0, LapseAt DEF DeadlinePasses
  <2>3. /\ disk'.topics = disk.topics /\ disk'.subs = disk.subs /\ disk'.counter = disk.counter
        /\ \A u \in Sub, k \in Id : (disk'.lease[u][k] = "absent") <=> (disk.lease[u][k] = "absent")
    <3> DEFINE l == Lapse(disk.lease, s, i)
    <3>1. disk' = [disk EXCEPT !.lease = l]
      BY <1>9 DEF DeadlinePasses
    <3>2. disk'.lease = l
      BY <2>0, <3>1 DEF FileType
    <3>3. \A u \in Sub, k \in Id : (l[u][k] = "absent") <=> (disk.lease[u][k] = "absent")
      BY <2>0, LapseAt
    <3>4. disk'.topics = disk.topics /\ disk'.subs = disk.subs /\ disk'.counter = disk.counter
      BY <2>0, <3>1 DEF FileType
    <3> QED
      BY <3>2, <3>3, <3>4
  <2>4. ~DataDir => disk' = EmptyFile
    <3> SUFFICES ASSUME ~DataDir PROVE disk' = EmptyFile
      OBVIOUS
    <3>1. disk = EmptyFile
      BY DEF IInv
    <3>2. Lapse(NoLeases, s, i) = NoLeases
      BY DEF Lapse, NoLeases
    <3>3. disk' = [EmptyFile EXCEPT !.lease = NoLeases]
      BY <1>9, <3>1, <3>2 DEF DeadlinePasses, EmptyFile
    <3> QED
      BY <3>3 DEF EmptyFile
  <2>5. FileCurrent'
    BY <2>1, <2>2, <2>3 DEF IInv, FileCurrent
  <2>6. Index' /\ AckedWereIssued'
    BY <2>1 DEF IInv, Index, AckedWereIssued, Exists
  <2>7. SoundStore(topics, subs, lease, msgCounter)'
    BY <2>1, <2>2 DEF IInv, SoundStore
  <2> QED
    BY <2>1, <2>4, <2>5, <2>6, <2>7 DEF IInv
<1>10. ASSUME NEW s \in Sub, PushPull(s) PROVE IInv'
  BY <1>10, SetLeaseAt DEF PushPull, IInv, SoundStore, Index, FileCurrent,
     AckedWereIssued, Exists, history, Running, Available
<1>11. CASE PushDeadLetter
  <2> DEFINE s == loop.sub
             i == loop.cur
  <2>0. s \in Sub /\ i \in Id /\ Running
    BY <1>11 DEF PushDeadLetter, TypeOK
  <2>1. SoundStore(topics, subs, lease, msgCounter)
    BY <2>0 DEF IInv
  <2>2. \A u \in Sub, k \in Id : lease'[u][k] # "absent" =>
           lease[u][k] # "absent" \/ (Exists(u) /\ k = msgCounter + 1)
    BY <1>11, <2>0, SetLeaseAt, FanOutAt DEF PushDeadLetter, Targets
  <2>3. msgCounter' = msgCounter + 1 /\ issued' = msgCounter + 1 /\ msgCounter = issued
    BY <1>11, <2>1 DEF PushDeadLetter, SoundStore
  <2>4. UNCHANGED <<topics, subs, topicSubs, acked, phase>>
    BY <1>11 DEF PushDeadLetter
  <2>5. AckedWereIssued'
    BY <2>3, <2>4 DEF IInv, AckedWereIssued, TypeOK, Id
  <2>6. SoundStore(topics, subs, lease, msgCounter)'
    BY <2>1, <2>2, <2>3, <2>4 DEF SoundStore, IInv, AckedWereIssued, TypeOK, Id, Exists
  <2>7. Index'
    BY <2>4 DEF IInv, Index, Exists
  <2> QED
    BY <1>11, <2>0, <2>4, <2>5, <2>6, <2>7, WriteStep DEF PushDeadLetter
<1>12. CASE Exit \/ ExitInWrite
  BY <1>12 DEF Exit, ExitInWrite, MemoryLost, IInv, SoundStore, Index, FileCurrent,
     AckedWereIssued, Exists, history, Running, EmptyFile, NoLeases, NoSubs
<1>13. CASE Restart
  BY <1>13 DEF Restart, IInv, SoundStore, Index, FileCurrent,
     AckedWereIssued, Exists, history, Running, TypeOK, FileType
<1>14. ASSUME NEW s \in Sub, NEW i \in Id, Acknowledge(s, i) PROVE IInv'
  BY <1>14, <1>7 DEF Acknowledge
<1>15. CASE PushAck
  BY <1>15, <1>7, LoopStep DEF PushAck, Running, TypeOK
<1>16. CASE Shutdown
  BY <1>16, LoopStep DEF Shutdown, Running
<1>17. CASE Stream \/ Subscriber
  BY <1>6, <1>8, <1>14, <1>17, LoopStep DEF Stream, Subscriber, OpenStream, StreamPull, CloseStream,
     Pull, Running
<1>18. CASE PushTick \/ PushScanEnd \/ (\E i \in Id : PushNext(i)) \/ PushBatchEnd
            \/ PushKeep \/ Endpoint
  BY <1>18, LoopStep DEF PushTick, PushScanEnd, PushNext, PushBatchEnd, PushKeep, Endpoint,
     PostAccepted, PostFailed, Running
<1>19. CASE UNCHANGED vars
  BY <1>19, LoopStep DEF vars, Running
<1> QED
  BY <1>1, <1>2, <1>3, <1>4, <1>5, <1>9, <1>10, <1>11, <1>12, <1>13, <1>15, <1>16,
     <1>17, <1>18, <1>19
  DEF Next, Admin, Publisher, PushStep, Time, Process

LEMMA IInvInit == Init => IInv
  BY BoundsAssumption, EmptyTypes DEF Init, IInv, TypeOK, IdleLoop, LoopType, Index, Exists,
     AckedWereIssued, FileCurrent, SoundStore, EmptyFile, NoSubs, NoLeases, Running

LEMMA IInvHolds == Spec => []IInv
  BY IInvInit, IInvStep, PTL DEF Spec

-----------------------------------------------------------------------------
(* The safety properties.                                                  *)

(* The fan-out index of topics and the subscriptions' configuration agree  *)
(* through every sequence of creations, deletions and restarts.            *)
THEOREM FanOutIsExact == Spec => []IndexAgrees
<1>1. IInv => IndexAgrees
  BY DEF IInv, IndexAgrees, Index, SoundStore, Exists, NoSubs
<1> QED
  BY <1>1, IInvHolds, PTL

(* The process may be killed between any two writes of the state file: the *)
(* file has every topic, subscription, id and message, and no others.      *)
THEOREM NothingUnwritten == Spec => []FileCurrent
<1>1. IInv => FileCurrent
  BY DEF IInv
<1> QED
  BY <1>1, IInvHolds, PTL

(* What was acknowledged is neither in memory nor in the file, and so will *)
(* not be delivered again by this process or by the next one.              *)
THEOREM AcknowledgedForGood == Spec => []AckFinal
<1>1. IInv => AckFinal
  BY DEF IInv, AckFinal, SoundStore, FileCurrent, EmptyFile, NoLeases
<1> QED
  BY <1>1, IInvHolds, PTL

(* A copy that appears in a running store comes from a publish or from a   *)
(* dead letter, with an id above all ids that were ever returned.          *)
LEMMA NewCopies ==
    ASSUME IInv, [Next]_vars, Running, NEW s \in Sub, NEW i \in Id,
           lease[s][i] = "absent", lease'[s][i] # "absent"
    PROVE  i > issued
<1> SUFFICES ASSUME ~(i > issued) PROVE FALSE
  OBVIOUS
<1>0. TypeOK /\ issued = msgCounter /\ ~(i > msgCounter)
  BY DEF IInv, SoundStore
<1>1. ASSUME NEW t \in Topic, CreateTopic(t) \/ DeleteTopic(t) PROVE FALSE
  BY <1>1 DEF CreateTopic, DeleteTopic
<1>2. ASSUME NEW u \in Sub, NEW c, CreateSubscription(u, c) \/ DeleteSubscription(u) PROVE FALSE
  BY <1>0, <1>2, SetLeaseAt DEF CreateSubscription, DeleteSubscription
<1>3. ASSUME NEW t \in Topic, NEW n \in 1..MaxBatch, Publish(t, n) PROVE FALSE
  <2> DEFINE ids == (msgCounter + 1)..(msgCounter + n)
  <2>1. i \notin ids
    BY <1>0 DEF TypeOK, Id
  <2>2. lease' = FanOut(lease, t, ids)
    BY <1>3 DEF Publish
  <2> HIDE DEF ids
  <2> QED
    BY <2>1, <2>2, FanOutAt
<1>4. ASSUME NEW u \in Sub, NEW n, PullIds(u, n) PROVE FALSE
  BY <1>0, <1>4, SetLeaseAt, FirstIsSubset DEF PullIds, Available
<1>5. ASSUME NEW u \in Sub, NEW I, AckIds(u, I) PROVE FALSE
  BY <1>0, <1>5, SetLeaseAt DEF AckIds
<1>6. ASSUME NEW u \in Sub, NEW k \in Id, Nack(u, k) \/ ExtendDeadline(u, k) PROVE FALSE
  BY <1>0, <1>6, SetLeaseAt DEF Nack, ExtendDeadline, Stored
<1>7. ASSUME NEW u \in Sub, NEW k \in Id, DeadlinePasses(u, k) PROVE FALSE
  <2>0. lease \in [Sub -> [Id -> Lease]]
    BY <1>0 DEF TypeOK
  <2>1. Lapse(lease, u, k)[s][i] = "absent"
    BY <2>0, LapseAt
  <2> QED
    BY <1>7, <2>1 DEF DeadlinePasses
<1>8. ASSUME NEW u \in Sub, PushPull(u) PROVE FALSE
  BY <1>0, <1>8, SetLeaseAt DEF PushPull, Available
<1>9. CASE PushDeadLetter
  <2>1. loop.sub \in Sub
    BY <1>0, <1>9 DEF PushDeadLetter, TypeOK
  <2>2. SetLease(loop.sub, {loop.cur}, "absent")[s][i] = "absent"
    BY <1>0, <2>1, SetLeaseAt
  <2>3. lease'[s][i] = IF s \in Targets(subs[loop.sub].dlt) /\ i \in {msgCounter + 1}
                       THEN "ready" ELSE "absent"
    BY <1>9, <2>2, FanOutAt DEF PushDeadLetter
  <2> QED
    BY <1>0, <2>3 DEF TypeOK, Id
<1>10. CASE Exit \/ ExitInWrite
  BY <1>10 DEF Exit, ExitInWrite, MemoryLost, NoLeases
<1>11. CASE Restart
  BY <1>11 DEF Restart, Running
<1>12. CASE UNCHANGED lease
  BY <1>12
<1>13. CASE Admin \/ Publisher
  BY <1>1, <1>2, <1>3, <1>13 DEF Admin, Publisher
<1>14. CASE Subscriber \/ Stream
  BY <1>4, <1>5, <1>6, <1>12, <1>14 DEF Subscriber, Stream, Pull, Acknowledge, OpenStream,
     StreamPull, CloseStream, store
<1>15. CASE PushStep \/ Endpoint
  <2>1. loop.pc = "accepted" => loop.sub \in Sub
    BY <1>0 DEF TypeOK
  <2> QED
    BY <1>5, <1>8, <1>9, <1>12, <1>15, <2>1 DEF PushStep, Endpoint, PushTick, PushScanEnd, PushNext,
       PushBatchEnd, PushAck, PushKeep, PostAccepted, PostFailed, store
<1>16. CASE Time \/ Process
  BY <1>7, <1>10, <1>11, <1>12, <1>16 DEF Time, Process, Shutdown, store
<1> QED
  BY <1>12, <1>13, <1>14, <1>15, <1>16 DEF Next, vars, store

(* No message id is used twice, not by a later process either.             *)
THEOREM NoIdReused == Spec => IdsAreFresh
<1>1. IInv /\ [Next]_vars =>
        [\A s \in Sub, i \in Id :
            Running /\ lease[s][i] = "absent" /\ lease'[s][i] # "absent" => i > issued]_vars
  BY NewCopies
<1> QED
  BY <1>1, IInvHolds, PTL DEF Spec, IdsAreFresh

(* While the server runs, a stored copy whose subscription is still there  *)
(* goes only by an acknowledgement or as the push loop's dead letter.      *)
LEMMA LostCopies ==
    ASSUME IInv, [Next]_vars, Running, phase' # "down", NEW s \in Sub, NEW i \in Id,
           lease[s][i] # "absent", lease'[s][i] = "absent", subs'[s] # NoSub,
           <<s, i>> \notin acked'
    PROVE  PushDeadLetter /\ s = loop.sub /\ i = loop.cur
<1> SUFFICES ASSUME ~(PushDeadLetter /\ s = loop.sub /\ i = loop.cur) PROVE FALSE
  OBVIOUS
<1>0. TypeOK /\ subs[s] # NoSub
  BY DEF IInv, SoundStore
<1>1. ASSUME NEW t \in Topic, CreateTopic(t) \/ DeleteTopic(t) PROVE FALSE
  BY <1>1 DEF CreateTopic, DeleteTopic
<1>2. ASSUME NEW u \in Sub, NEW c, CreateSubscription(u, c) PROVE FALSE
  BY <1>0, <1>2, SetLeaseAt DEF CreateSubscription, Exists
<1>3. ASSUME NEW u \in Sub, DeleteSubscription(u) PROVE FALSE
  BY <1>0, <1>3, SetLeaseAt DEF DeleteSubscription, TypeOK
<1>4. ASSUME NEW t \in Topic, NEW n \in 1..MaxBatch, Publish(t, n) PROVE FALSE
  <2> DEFINE ids == (msgCounter + 1)..(msgCounter + n)
  <2>1. lease' = FanOut(lease, t, ids)
    BY <1>4 DEF Publish
  <2> HIDE DEF ids
  <2> QED
    BY <2>1, FanOutAt
<1>5. ASSUME NEW u \in Sub, NEW n, PullIds(u, n) PROVE FALSE
  BY <1>0, <1>5, SetLeaseAt DEF PullIds
<1>6. ASSUME NEW u \in Sub, NEW I, AckIds(u, I) PROVE FALSE
  <2>1. s = u /\ i \in I
    BY <1>0, <1>6, SetLeaseAt DEF AckIds
  <2> QED
    BY <1>6, <2>1 DEF AckIds, Stored
<1>7. ASSUME NEW u \in Sub, NEW k \in Id, Nack(u, k) \/ ExtendDeadline(u, k) PROVE FALSE
  BY <1>0, <1>7, SetLeaseAt DEF Nack, ExtendDeadline
<1>8. ASSUME NEW u \in Sub, NEW k \in Id, DeadlinePasses(u, k) PROVE FALSE
  <2>0. lease \in [Sub -> [Id -> Lease]]
    BY <1>0 DEF TypeOK
  <2>1. Lapse(lease, u, k)[s][i] # "absent"
    BY <2>0, LapseAt
  <2> QED
    BY <1>8, <2>1 DEF DeadlinePasses
<1>9. ASSUME NEW u \in Sub, PushPull(u) PROVE FALSE
  BY <1>0, <1>9, SetLeaseAt DEF PushPull
<1>10. CASE PushDeadLetter
  <2>1. loop.sub \in Sub
    BY <1>0, <1>10 DEF PushDeadLetter, TypeOK
  <2>2. SetLease(loop.sub, {loop.cur}, "absent")[s][i] = lease[s][i]
    BY <1>0, <1>10, <2>1, SetLeaseAt
  <2>3. \/ lease'[s][i] = "ready"
        \/ lease'[s][i] = SetLease(loop.sub, {loop.cur}, "absent")[s][i]
    BY <1>10, FanOutAt DEF PushDeadLetter
  <2> QED
    BY <2>2, <2>3
<1>11. CASE Exit \/ ExitInWrite
  BY <1>11 DEF Exit, ExitInWrite
<1>12. CASE Restart
  BY <1>12 DEF Restart, Running
<1>13. CASE UNCHANGED lease
  BY <1>13
<1>14. CASE Admin \/ Publisher
  BY <1>1, <1>2, <1>3, <1>4, <1>14 DEF Admin, Publisher
<1>15. CASE Subscriber \/ Stream
  BY <1>5, <1>6, <1>7, <1>13, <1>15 DEF Subscriber, Stream, Pull, Acknowledge, OpenStream,
     StreamPull, CloseStream, store
<1>16. CASE PushStep \/ Endpoint
  <2>1. loop.pc = "accepted" => loop.sub \in Sub
    BY <1>0 DEF TypeOK
  <2> QED
    BY <1>6, <1>9, <1>10, <1>13, <1>16, <2>1 DEF PushStep, Endpoint, PushTick, PushScanEnd,
       PushNext, PushBatchEnd, PushAck, PushKeep, PostAccepted, PostFailed, store
<1>17. CASE Time \/ Process
  BY <1>8, <1>11, <1>12, <1>13, <1>17 DEF Time, Process, Shutdown, store
<1> QED
  BY <1>13, <1>14, <1>15, <1>16, <1>17 DEF Next, vars, store

(* What the push loop gives up it has pushed, and the copy that stands for *)
(* it is in every subscription of the dead-letter topic, and in the file.  *)
LEMMA DeadLetterCopies ==
    ASSUME IInv, PushDeadLetter
    PROVE  /\ attempts[loop.sub][loop.cur] > 0
           /\ subs[loop.sub].dlt \in topics
           /\ \A d \in Sub : Exists(d) /\ subs[d].topic = subs[loop.sub].dlt =>
                 /\ lease'[d][msgCounter'] = "ready"
                 /\ DataDir => disk'.lease[d][msgCounter'] = "ready"
<1>0. TypeOK /\ Index
  BY DEF IInv
<1> DEFINE s == loop.sub
           i == loop.cur
           new == msgCounter + 1
<1>1. /\ s \in Sub /\ i \in Id
      /\ GivenUp(s, i) /\ CanForward(s, i)
      /\ msgCounter < MaxId /\ msgCounter' = new
      /\ lease' = FanOut(SetLease(s, {i}, "absent"), subs[s].dlt, {new})
      /\ Persist
  BY <1>0 DEF PushDeadLetter, TypeOK
<1>2. attempts[s][i] > 0
  <2>1. loop.todo[s].max \in Nat
    BY <1>0, <1>1 DEF TypeOK, LoopType, SubConfig, PushDeadLetter
  <2>2. attempts[s][i] \in Nat
    BY <1>0, <1>1, BoundsAssumption DEF TypeOK
  <2> QED
    BY <1>1, <2>1, <2>2 DEF GivenUp
<1>3. subs[s].dlt \in topics /\ subs[s].dlt \in Topic
  BY <1>0, <1>1 DEF CanForward, TypeOK
<1>4. ASSUME NEW d \in Sub, Exists(d), subs[d].topic = subs[s].dlt
      PROVE  /\ lease'[d][msgCounter'] = "ready"
             /\ DataDir => disk'.lease[d][msgCounter'] = "ready"
  <2>1. d \in Targets(subs[s].dlt)
    BY <1>0, <1>3, <1>4 DEF Targets, Index
  <2>2. new \in Id
    BY <1>0, <1>1, BoundsAssumption DEF TypeOK, Id
  <2>3. lease'[d][new] = "ready"
    <3> HIDE DEF s, i, new
    <3> QED
      BY <1>1, <2>1, <2>2, FanOutAt
  <2> QED
    BY <1>1, <2>3 DEF Persist
<1> QED
  BY <1>2, <1>3, <1>4

(* A message the push loop gives up is not lost: in the same step the      *)
(* subscriptions of the dead-letter topic have it, in memory and in the    *)
(* state file; and none is given up that was not pushed at least once.     *)
THEOREM DeadLettersAreKept == Spec => DeadLetterKept
<1> DEFINE Kept == \A s \in Sub, i \in Id :
          /\ i \in Stored(s) /\ i \notin Stored(s)'
          /\ Running /\ phase' # "down" /\ Exists(s)' /\ <<s, i>> \notin acked'
          => /\ attempts[s][i] > 0
             /\ subs[s].dlt \in topics
             /\ \A d \in Sub : Exists(d) /\ subs[d].topic = subs[s].dlt =>
                   /\ lease'[d][msgCounter'] = "ready"
                   /\ DataDir => disk'.lease[d][msgCounter'] = "ready"
<1>1. IInv /\ [Next]_vars => [Kept]_vars
  <2> SUFFICES ASSUME IInv, [Next]_vars, NEW s \in Sub, NEW i \in Id,
                      i \in Stored(s), i \notin Stored(s)', Running, phase' # "down",
                      Exists(s)', <<s, i>> \notin acked'
               PROVE  /\ attempts[s][i] > 0
                      /\ subs[s].dlt \in topics
                      /\ \A d \in Sub : Exists(d) /\ subs[d].topic = subs[s].dlt =>
                            /\ lease'[d][msgCounter'] = "ready"
                            /\ DataDir => disk'.lease[d][msgCounter'] = "ready"
    OBVIOUS
  <2>1. PushDeadLetter /\ s = loop.sub /\ i = loop.cur
    BY LostCopies DEF Stored, Exists
  <2> QED
    BY <2>1, DeadLetterCopies
<1> QED
  BY <1>1, IInvHolds, PTL DEF Spec, DeadLetterKept

-----------------------------------------------------------------------------
(* The emulator implements the mailbox.                                    *)

LEMMA SameCopies ==
    ASSUME NEW A \in SUBSET (Sub \X Id), NEW B \in SUBSET (Sub \X Id),
           \A s \in Sub, i \in Id : <<s, i>> \in A <=> <<s, i>> \in B
    PROVE  A = B
  OBVIOUS

LEMMA OwedAt ==
    /\ Owed \in SUBSET (Sub \X Id)
    /\ \A s \in Sub, i \in Id :
          <<s, i>> \in Owed <=> (IF Running THEN lease[s][i] ELSE disk.lease[s][i]) # "absent"
  BY DEF Owed

LEMMA OwedNext ==
    /\ Owed' \in SUBSET (Sub \X Id)
    /\ \A s \in Sub, i \in Id :
          <<s, i>> \in Owed' <=> (IF Running' THEN lease'[s][i] ELSE disk'.lease[s][i]) # "absent"
  BY DEF Owed

(* Steps that keep every stored copy stored. *)
LEMMA OwedKept ==
    ASSUME Running, Running', UNCHANGED history,
           \A s \in Sub, i \in Id : (lease'[s][i] = "absent") <=> (lease[s][i] = "absent")
    PROVE  UNCHANGED <<Owed, acked, issued>>
<1>1. \A s \in Sub, i \in Id : <<s, i>> \in Owed' <=> <<s, i>> \in Owed
  BY OwedAt, OwedNext
<1>2. Owed' = Owed
  BY <1>1, OwedAt, OwedNext, SameCopies
<1> QED
  BY <1>2 DEF history

LEMMA MailboxStep ==
    ASSUME IInv, [Next]_vars PROVE [Abstract!Next]_<<Owed, acked, issued>>
<1>0. TypeOK /\ TypeOK' /\ IInv'
  BY IInvStep, TypeStep DEF IInv
<1>1. ASSUME NEW t \in Topic, CreateTopic(t) \/ DeleteTopic(t)
      PROVE  UNCHANGED <<Owed, acked, issued>>
  BY <1>1, OwedKept DEF CreateTopic, DeleteTopic, Running
<1>2. ASSUME NEW s \in Sub, NEW c \in Config[s], CreateSubscription(s, c)
      PROVE  UNCHANGED <<Owed, acked, issued>>
  <2>1. Running /\ Running' /\ UNCHANGED history
    BY <1>2 DEF CreateSubscription, Running
  <2>2. \A i \in Id : lease[s][i] = "absent"
    BY <1>2, <2>1 DEF IInv, SoundStore, CreateSubscription, Exists
  <2>3. \A u \in Sub, i \in Id : (lease'[u][i] = "absent") <=> (lease[u][i] = "absent")
    BY <1>0, <1>2, <2>2, SetLeaseAt DEF CreateSubscription
  <2> QED
    BY <2>1, <2>3, OwedKept
<1>3. ASSUME NEW s \in Sub, DeleteSubscription(s) PROVE Abstract!Next
  <2>1. Running /\ Running' /\ UNCHANGED <<acked, issued>>
    BY <1>3 DEF DeleteSubscription, Running, history
  <2>2. \A u \in Sub, i \in Id : lease'[u][i] = IF u = s THEN "absent" ELSE lease[u][i]
    BY <1>0, <1>3, SetLeaseAt DEF DeleteSubscription
  <2>3. Owed' = Owed \ ({s} \X Id)
    BY <2>1, <2>2, OwedAt, OwedNext, SameCopies
  <2>4. Abstract!Close(s)
    BY <2>1, <2>3 DEF Abstract!Close, Abstract!Id, Id
  <2> QED
    BY <2>4 DEF Abstract!Next
<1>4. ASSUME NEW t \in Topic, NEW n \in 1..MaxBatch, Publish(t, n) PROVE Abstract!Next
  <2> DEFINE ids == (msgCounter + 1)..(msgCounter + n)
             S == Targets(t)
  <2>1. Running /\ Running' /\ UNCHANGED acked /\ issued = msgCounter /\ issued' = issued + n
    BY <1>4 DEF Publish, Running, IInv, SoundStore
  <2>2. lease' = FanOut(lease, t, ids)
    BY <1>4 DEF Publish
  <2>3. S \in SUBSET Sub /\ ids \in SUBSET Id /\ n \in 1..MaxId
    BY <1>0, <1>4, BoundsAssumption DEF Publish, Targets, TypeOK, Id
  <2>4. Owed' = Owed \cup (S \X ids)
    <3> HIDE DEF ids, S
    <3>1. \A u \in Sub, i \in Id :
             (lease'[u][i] # "absent") <=> (lease[u][i] # "absent" \/ (u \in S /\ i \in ids))
      BY <2>2, FanOutAt DEF S
    <3> QED
      BY <2>1, <2>3, <3>1, OwedAt, OwedNext, SameCopies
  <2>5. Abstract!Publish(S, n)
    BY <2>1, <2>4 DEF Abstract!Publish
  <2> QED
    BY <2>3, <2>5 DEF Abstract!Next
<1>5. ASSUME NEW s \in Sub, NEW n, Running, PullIds(s, n)
      PROVE  UNCHANGED <<Owed, acked, issued>>
  <2>1. Running' /\ UNCHANGED history
    BY <1>5 DEF PullIds, Running
  <2>2. \A u \in Sub, i \in Id : (lease'[u][i] = "absent") <=> (lease[u][i] = "absent")
    BY <1>0, <1>5, SetLeaseAt, FirstIsSubset DEF PullIds, Available
  <2> QED
    BY <1>5, <2>1, <2>2, OwedKept
<1>6. ASSUME NEW s \in Sub, NEW I \in SUBSET Id, Running, AckIds(s, I), UNCHANGED phase
      PROVE  Abstract!Next
  <2>1. Running /\ Running' /\ UNCHANGED issued
    BY <1>6 DEF AckIds, Running
  <2>2. \A u \in Sub, i \in Id : lease'[u][i] = IF u = s /\ i \in I THEN "absent" ELSE lease[u][i]
    BY <1>0, <1>6, SetLeaseAt DEF AckIds
  <2>3. Owed' = Owed \ ({s} \X I)
    BY <2>1, <2>2, OwedAt, OwedNext, SameCopies
  <2>4. {s} \X (I \cap Stored(s)) = Owed \cap ({s} \X I)
    BY <2>1, OwedAt, SameCopies DEF Stored
  <2>5. Abstract!Settle(s, I)
    BY <1>6, <2>1, <2>3, <2>4 DEF AckIds, Abstract!Settle
  <2> QED
    BY <2>5 DEF Abstract!Next, Abstract!Id, Id
<1>7. ASSUME NEW s \in Sub, NEW i \in Id, Nack(s, i) \/ ExtendDeadline(s, i)
      PROVE  UNCHANGED <<Owed, acked, issued>>
  <2>1. Running /\ Running' /\ UNCHANGED history
    BY <1>7 DEF Nack, ExtendDeadline, Running
  <2>2. \A u \in Sub, k \in Id : (lease'[u][k] = "absent") <=> (lease[u][k] = "absent")
    BY <1>0, <1>7, SetLeaseAt DEF Nack, ExtendDeadline, Stored
  <2> QED
    BY <2>1, <2>2, OwedKept
<1>8. ASSUME NEW s \in Sub, NEW i \in Id, DeadlinePasses(s, i)
      PROVE  UNCHANGED <<Owed, acked, issued>>
  <2>1. Running /\ Running' /\ UNCHANGED history /\ lease' = Lapse(lease, s, i)
    BY <1>8 DEF DeadlinePasses, Running
  <2>2. lease \in [Sub -> [Id -> Lease]]
    BY <1>0 DEF TypeOK
  <2> QED
    BY <2>1, <2>2, LapseAt, OwedKept
<1>9. ASSUME NEW s \in Sub, PushPull(s) PROVE UNCHANGED <<Owed, acked, issued>>
  <2>1. Running /\ Running' /\ UNCHANGED history
    BY <1>9 DEF PushPull, Running
  <2>2. \A u \in Sub, i \in Id : (lease'[u][i] = "absent") <=> (lease[u][i] = "absent")
    BY <1>0, <1>9, SetLeaseAt DEF PushPull, Available
  <2> QED
    BY <2>1, <2>2, OwedKept
<1>10. CASE PushDeadLetter
  <2> DEFINE s == loop.sub
             i == loop.cur
             S == Targets(subs[s].dlt)
             new == msgCounter + 1
  <2>1. s \in Sub /\ i \in Id /\ Running /\ Running' /\ UNCHANGED acked
    BY <1>0, <1>10 DEF PushDeadLetter, TypeOK, Running
  <2>2. issued = msgCounter /\ issued' = issued + 1 /\ new \in Id
    BY <1>0, <1>10, <2>1 DEF PushDeadLetter, IInv, SoundStore, TypeOK, Id
  <2>3. S \in SUBSET Sub /\ lease[s][i] # "absent"
    BY <1>0, <1>10, <2>1 DEF PushDeadLetter, Targets, TypeOK, CanForward, Stored
  <2>4. \A u \in Sub, k \in Id :
           lease'[u][k] = IF u \in S /\ k = new THEN "ready"
                          ELSE IF u = s /\ k = i THEN "absent" ELSE lease[u][k]
    <3>1. lease' = FanOut(SetLease(s, {i}, "absent"), subs[s].dlt, {new})
      BY <1>10 DEF PushDeadLetter
    <3>2. \A u \in Sub, k \in Id :
             SetLease(s, {i}, "absent")[u][k] = IF u = s /\ k = i THEN "absent" ELSE lease[u][k]
      BY <1>0, <2>1, SetLeaseAt
    <3>3. \A u \in Sub, k \in Id :
             lease'[u][k] = IF u \in S /\ k \in {new} THEN "ready"
                            ELSE SetLease(s, {i}, "absent")[u][k]
      <4> HIDE DEF s, i, new
      <4> QED
        BY <3>1, FanOutAt
    <3> HIDE DEF s, i, S, new
    <3> QED
      BY <3>2, <3>3
  <2>5. Owed' = (Owed \ {<<s, i>>}) \cup (S \X {new}) /\ <<s, i>> \in Owed
    <3> HIDE DEF s, i, S, new
    <3>1. <<s, i>> \in Owed
      BY <2>1, <2>3, OwedAt
    <3>2. \A u \in Sub, k \in Id :
             (lease'[u][k] # "absent") <=>
                (u \in S /\ k = new) \/ (lease[u][k] # "absent" /\ <<u, k>> # <<s, i>>)
      BY <2>4
    <3>3. (Owed \ {<<s, i>>}) \cup (S \X {new}) \in SUBSET (Sub \X Id)
      BY <2>2, <2>3, OwedAt
    <3> QED
      BY <2>1, <3>1, <3>2, <3>3, OwedAt, OwedNext, SameCopies
  <2>6. Abstract!DeadLetter(s, i, S)
    BY <2>1, <2>2, <2>5 DEF Abstract!DeadLetter
  <2> QED
    BY <2>1, <2>3, <2>6 DEF Abstract!Next, Abstract!Id, Id
<1>11. CASE (Exit /\ ~DataDir) \/ ExitInWrite
  <2>1. ~Running' /\ disk' = EmptyFile /\ acked' = {} /\ issued' = 0
    BY <1>11 DEF Exit, ExitInWrite, Running, IInv
  <2>2. Owed' = {}
    BY <2>1, OwedNext, SameCopies DEF EmptyFile, NoLeases
  <2> QED
    BY <2>1, <2>2 DEF Abstract!Next, Abstract!Wipe
<1>12. CASE Exit /\ DataDir
  <2>1. Running /\ ~Running' /\ disk' = disk /\ UNCHANGED history
    BY <1>12 DEF Exit, Running
  <2>2. \A s \in Sub, i \in Id : (disk.lease[s][i] = "absent") <=> (lease[s][i] = "absent")
    BY <1>12, <2>1 DEF IInv, FileCurrent
  <2> QED
    BY <2>1, <2>2, OwedAt, OwedNext, SameCopies DEF history
<1>13. CASE Restart
  <2>1. ~Running /\ Running' /\ lease' = disk.lease /\ UNCHANGED history
    BY <1>13 DEF Restart, Running
  <2> QED
    BY <2>1, OwedAt, OwedNext, SameCopies DEF history
<1>14. ASSUME UNCHANGED <<store, disk, history>>, Running <=> Running'
       PROVE  UNCHANGED <<Owed, acked, issued>>
  BY <1>14, OwedAt, OwedNext, SameCopies DEF store, history
<1>15. CASE Admin \/ Publisher
  BY <1>1, <1>2, <1>3, <1>4, <1>15 DEF Admin, Publisher
<1>16. CASE Subscriber \/ Stream
  <2>1. ASSUME NEW s \in Sub, NEW i \in Id, Acknowledge(s, i) PROVE Abstract!Next
    BY <1>6, <2>1 DEF Acknowledge
  <2>2. ASSUME NEW s \in Sub, NEW n, Pull(s, n) \/ StreamPull(s)
        PROVE  UNCHANGED <<Owed, acked, issued>>
    BY <1>5, <2>2 DEF Pull, StreamPull
  <2>3. ASSUME NEW s \in Sub, OpenStream(s) \/ CloseStream(s)
        PROVE  UNCHANGED <<Owed, acked, issued>>
    <3>1. UNCHANGED <<store, disk, phase, history>>
      BY <2>3 DEF OpenStream, CloseStream
    <3> QED
      BY <1>14, <3>1 DEF Running
  <2> QED
    BY <1>7, <1>16, <2>1, <2>2, <2>3 DEF Subscriber, Stream
<1>17. CASE PushStep \/ Endpoint
  <2>1. CASE PushAck /\ Exists(loop.sub)
    BY <1>0, <1>6, <2>1 DEF PushAck, TypeOK
  <2>2. CASE PushAck /\ ~Exists(loop.sub)
    BY <1>14, <2>2 DEF PushAck, Running
  <2>3. CASE PushTick \/ PushScanEnd \/ (\E i \in Id : PushNext(i)) \/ PushBatchEnd
             \/ PushKeep \/ Endpoint
    BY <1>14, <2>3 DEF PushTick, PushScanEnd, PushNext, PushBatchEnd, PushKeep, Endpoint,
       PostAccepted, PostFailed, Running
  <2> QED
    BY <1>9, <1>10, <1>17, <2>1, <2>2, <2>3 DEF PushStep
<1>18. CASE Time \/ Process
  <2>1. CASE Shutdown
    BY <1>14, <2>1 DEF Shutdown, Running
  <2> QED
    BY <1>8, <1>11, <1>12, <1>13, <1>18, <2>1 DEF Time, Process
<1>19. CASE UNCHANGED vars
  BY <1>14, <1>19 DEF vars, Running
<1> QED
  BY <1>15, <1>16, <1>17, <1>18, <1>19 DEF Next

(* Clients that know nothing of leases, files and restarts see a mailbox:  *)
(* what is published stays owed until it is acknowledged, dead-lettered or *)
(* dropped with its subscription, and no exit between two writes changes   *)
(* that.                                                                   *)
THEOREM MailboxRefinement == Spec => ImplementsMailbox
<1>1. Init => Abstract!Init
  <2> SUFFICES ASSUME Init PROVE Abstract!Init
    OBVIOUS
  <2>1. Owed = {}
    BY OwedAt, SameCopies DEF Init, NoLeases, Running
  <2> QED
    BY <2>1 DEF Init, Abstract!Init
<1> QED
  BY <1>1, MailboxStep, IInvHolds, PTL DEF Spec, ImplementsMailbox, Abstract!Spec, Abstract!abs
-----------------------------------------------------------------------------
(* How often a message is pushed.  The limit is kept because a message at  *)
(* the limit is never at rest: it is in the hands of the push loop, which  *)
(* exchanges it for a dead letter before it pulls again.                   *)

(* Configurations of the push subscription, as memory or the file has them. *)
Limited(T, S) == S[pushed] # NoSub => S[pushed] = PushedConfig /\ dead \in T

InHand(i) ==
    /\ loop.pc \in {"next", "post", "accepted", "failed"} /\ loop.sub = pushed
    /\ i \in loop.batch \/ (loop.pc # "next" /\ i = loop.cur)

Counted(i) ==
    /\ lease[pushed][i] = "absent" => attempts[pushed][i] = 0
    /\ attempts[pushed][i] <= Limit
    /\ attempts[pushed][i] = Limit => InHand(i)

LimitInv ==
    /\ IInv
    /\ loop.todo[pushed] \in {NoSub, PushedConfig}
    /\ Running => Limited(topics, subs)
    /\ ~Running => Limited(disk.topics, disk.subs) /\ attempts = NoAttempts
    /\ \A i \in Id : Counted(i)

LEMMA PushedFacts ==
    /\ pushed \in Sub /\ work \in Topic /\ dead \in Topic
    /\ PushedConfig \in SubConfig /\ PushedConfig # NoSub /\ dead # NoTopic
    /\ PushedConfig.max = Limit /\ PushedConfig.dlt = dead
    /\ Limit \in Nat /\ Limit > 0 /\ Limit <= AttemptCap
<1>1. PushedConfig \in SubConfig /\ PushedConfig.max <= AttemptCap
  BY LiveAssumption, ConfigAssumption
<1>2. PushedConfig.max = Limit /\ PushedConfig.dlt = dead
  BY DEF PushedConfig
<1> QED
  BY <1>1, <1>2, LiveAssumption, NullAssumption DEF SubConfig

LEMMA DropAttemptsAt ==
    ASSUME TypeOK, NEW s \in Sub, NEW I, NEW u \in Sub, NEW i \in Id
    PROVE  DropAttempts(s, I)[u][i] = IF u = s /\ i \in I THEN 0 ELSE attempts[u][i]
  BY DEF DropAttempts, TypeOK

(* The environment's steps are steps of the emulator. *)
LEMMA LiveIsNext == [LiveNext]_vars => [Next]_vars
<1>1. 1 \in 1..MaxBatch
  BY BoundsAssumption, LiveAssumption
<1> QED
  BY <1>1, LiveAssumption DEF LiveNext, Next, Admin, Publisher, Subscriber

(* What a store operation that leaves the loop alone has to establish. *)
LEMMA CountedStep ==
    ASSUME LimitInv, IInv', Running, Running', UNCHANGED loop,
           Limited(topics, subs)', \A i \in Id : Counted(i)'
    PROVE  LimitInv'
  BY DEF LimitInv

(* A step that changes no attempts and no stored copy, and from which the  *)
(* loop emerges with all it had in hand.                                   *)
LEMMA HandStep ==
    ASSUME LimitInv, IInv', Running, Running', Limited(topics, subs)',
           loop'.todo[pushed] \in {NoSub, PushedConfig}, UNCHANGED attempts,
           \A i \in Id : (lease'[pushed][i] = "absent") => (lease[pushed][i] = "absent"),
           \A i \in Id : attempts[pushed][i] = Limit /\ InHand(i) => InHand(i)'
    PROVE  LimitInv'
<1>1. \A i \in Id : Counted(i)'
  BY DEF LimitInv, Counted
<1> QED
  BY <1>1 DEF LimitInv

LEMMA LimitStep ==
    ASSUME LimitInv, [LiveNext]_vars PROVE LimitInv'
<1>0. TypeOK /\ TypeOK' /\ IInv /\ IInv' /\ [Next]_vars
  BY LiveIsNext, IInvStep DEF LimitInv, IInv
<1> USE <1>0, PushedFacts
<1>a. /\ attempts \in [Sub -> [Id -> 0..AttemptCap]] /\ lease \in [Sub -> [Id -> Lease]]
      /\ loop \in LoopType
      /\ \A i \in Id : attempts[pushed][i] \in Nat
  BY BoundsAssumption DEF TypeOK
<1>b. \A i \in Id : Counted(i)
  BY DEF LimitInv
<1>1. ASSUME NEW u \in Topic, CreateTopic(u) PROVE LimitInv'
  BY <1>1, HandStep DEF CreateTopic, Running, LimitInv, Limited, InHand
<1>2. ASSUME NEW s \in Sub, NEW c \in Config[s], dead \in topics, CreateSubscription(s, c)
      PROVE  LimitInv'
  <2>1. Running /\ Running' /\ UNCHANGED <<loop, topics>>
    BY <1>2 DEF CreateSubscription, Running
  <2>2. Limited(topics, subs)'
    <3>1. subs'[pushed] = IF pushed = s THEN c ELSE subs[pushed]
      BY <1>2 DEF CreateSubscription, TypeOK
    <3> QED
      BY <1>2, <2>1, <3>1, LiveAssumption DEF LimitInv, Limited
  <2>3. ASSUME NEW i \in Id PROVE Counted(i)'
    <3>1. /\ lease'[pushed][i] = IF pushed = s THEN "absent" ELSE lease[pushed][i]
          /\ attempts'[pushed][i] = IF pushed = s THEN 0 ELSE attempts[pushed][i]
      BY <1>2, SetLeaseAt, DropAttemptsAt DEF CreateSubscription
    <3> QED
      BY <1>b, <2>1, <3>1 DEF Counted, InHand
  <2> QED
    BY <2>1, <2>2, <2>3, CountedStep
<1>3. CASE DeleteSubscription(pushed)
  <2>1. Running /\ Running' /\ UNCHANGED <<loop, topics>>
    BY <1>3 DEF DeleteSubscription, Running
  <2>2. Limited(topics, subs)'
    BY <1>3 DEF DeleteSubscription, Limited, TypeOK
  <2>3. ASSUME NEW i \in Id PROVE Counted(i)'
    <3>1. attempts'[pushed][i] = 0
      BY <1>3, DropAttemptsAt DEF DeleteSubscription
    <3> QED
      BY <3>1 DEF Counted
  <2> QED
    BY <2>1, <2>2, <2>3, CountedStep
<1>4. CASE Publish(work, 1)
  <2>1. \A i \in Id : (lease'[pushed][i] = "absent") => (lease[pushed][i] = "absent")
    BY <1>4, FanOutAt DEF Publish
  <2> QED
    BY <1>4, <2>1, HandStep DEF Publish, Running, LimitInv, Limited, InHand
<1>5. ASSUME NEW s \in Sub, NEW n, Running, PullIds(s, n) PROVE LimitInv'
  <2>1. \A i \in Id : (lease'[pushed][i] = "absent") => (lease[pushed][i] = "absent")
    BY <1>5, SetLeaseAt DEF PullIds
  <2> QED
    BY <1>5, <2>1, HandStep DEF PullIds, Running, LimitInv, Limited, InHand
<1>6. ASSUME NEW s \in Sub, NEW i \in Id, Acknowledge(s, i) PROVE LimitInv'
  <2>1. Running /\ Running' /\ UNCHANGED <<loop, topics, subs>>
    BY <1>6 DEF Acknowledge, AckIds, Running
  <2>2. ASSUME NEW k \in Id PROVE Counted(k)'
    <3>1. /\ lease'[pushed][k] = IF pushed = s /\ k = i THEN "absent" ELSE lease[pushed][k]
          /\ attempts'[pushed][k] = IF pushed = s /\ k = i THEN 0 ELSE attempts[pushed][k]
      BY <1>6, SetLeaseAt, DropAttemptsAt DEF Acknowledge, AckIds
    <3> QED
      BY <1>b, <2>1, <3>1 DEF Counted, InHand
  <2>3. Limited(topics, subs)'
    BY <2>1 DEF LimitInv, Limited
  <2> QED
    BY <2>1, <2>2, <2>3, CountedStep
<1>7. ASSUME NEW s \in Sub, NEW i \in Id, Nack(s, i) PROVE LimitInv'
  <2>1. \A k \in Id : (lease'[pushed][k] = "absent") => (lease[pushed][k] = "absent")
    BY <1>7, SetLeaseAt DEF Nack
  <2> QED
    BY <1>7, <2>1, HandStep DEF Nack, Running, LimitInv, Limited, InHand
<1>8. ASSUME UNCHANGED <<store, disk, phase, loop>> PROVE LimitInv'
  <2>1. UNCHANGED Running
    BY <1>8 DEF Running
  <2> QED
    BY <1>8, <2>1 DEF store, LimitInv, Limited, Counted, InHand
<1>9. CASE PushTick
  <2>1. ~\E i \in Id : InHand(i)
    BY <1>9 DEF PushTick, InHand
  <2>2. loop'.todo[pushed] \in {NoSub, PushedConfig}
    BY <1>9, <1>a DEF PushTick, LimitInv, Limited, LoopType, Exists
  <2> QED
    BY <1>9, <2>1, <2>2, HandStep DEF PushTick, Running, LimitInv, Limited, store
<1>10. ASSUME NEW s \in Sub, PushPull(s) PROVE LimitInv'
  <2> DEFINE batch == IF Exists(s) THEN Available(s) ELSE {}
  <2>1. /\ Running /\ Running' /\ UNCHANGED <<topics, subs>>
        /\ loop.pc = "scan"
        /\ loop' = [loop EXCEPT !.pc = "next", !.sub = s, !.batch = batch]
        /\ lease' = SetLease(s, batch, "held")
    BY <1>10 DEF PushPull, Running
  <2>2. loop'.pc = "next" /\ loop'.sub = s /\ loop'.batch = batch /\ loop'.todo = loop.todo
    <3> HIDE DEF batch
    <3> QED
      BY <1>a, <2>1 DEF LoopType
  <2>3. ASSUME NEW i \in Id PROVE Counted(i)'
    <3>1. attempts[pushed][i] < Limit
      <4>1. ~InHand(i)
        BY <2>1 DEF InHand
      <4>2. attempts[pushed][i] <= Limit /\ attempts[pushed][i] # Limit
        BY <1>b, <4>1 DEF Counted
      <4>3. attempts[pushed][i] \in Nat /\ Limit \in Nat
        BY <1>a
      <4> QED
        BY ONLY <4>2, <4>3
    <3>2. (lease'[pushed][i] = "absent") = (lease[pushed][i] = "absent")
      BY <2>1, SetLeaseAt DEF Available
    <3>3. CASE s = pushed /\ i \in batch
      <4>1. attempts'[pushed][i] \in {attempts[pushed][i], attempts[pushed][i] + 1}
        BY <1>10, <1>a, <3>3 DEF PushPull
      <4>2. lease[pushed][i] # "absent"
        BY <3>3 DEF Available
      <4>3. InHand(i)'
        BY <2>2, <3>3 DEF InHand
      <4> QED
        BY <1>a, <3>1, <3>2, <4>1, <4>2, <4>3 DEF Counted
    <3>4. CASE ~(s = pushed /\ i \in batch)
      <4>1. attempts'[pushed][i] = attempts[pushed][i]
        BY <1>10, <1>a, <3>4 DEF PushPull
      <4> QED
        BY <1>a, <1>b, <3>1, <3>2, <4>1 DEF Counted
    <3> QED
      BY <3>3, <3>4
  <2>4. Limited(topics, subs)'
    BY <2>1 DEF LimitInv, Limited
  <2> QED
    BY <2>1, <2>2, <2>3, <2>4 DEF LimitInv
<1>11. CASE PushScanEnd
  <2>1. ~\E i \in Id : InHand(i)
    BY <1>11 DEF PushScanEnd, InHand
  <2>2. loop'.todo[pushed] \in {NoSub, PushedConfig}
    BY <1>11 DEF PushScanEnd, IdleLoop, NoSubs
  <2> QED
    BY <1>11, <2>1, <2>2, HandStep DEF PushScanEnd, Running, LimitInv, Limited, store
<1>12. ASSUME NEW i \in Id, PushNext(i) PROVE LimitInv'
  <2>1. /\ loop.pc = "next" /\ loop'.pc = "post" /\ loop'.cur = i
        /\ loop'.sub = loop.sub /\ loop'.batch = loop.batch \ {i} /\ loop'.todo = loop.todo
    BY <1>12, <1>a DEF PushNext, LoopType
  <2>2. \A k \in Id : InHand(k) => InHand(k)'
    BY <2>1 DEF InHand
  <2> QED
    BY <1>12, <2>1, <2>2, HandStep DEF PushNext, Running, LimitInv, Limited, store
<1>13. CASE PushBatchEnd
  <2>1. ~\E i \in Id : InHand(i)
    BY <1>13 DEF PushBatchEnd, InHand
  <2>2. loop'.todo[pushed] \in {NoSub, PushedConfig}
    BY <1>13, <1>a DEF PushBatchEnd, LimitInv, LoopType
  <2> QED
    BY <1>13, <2>1, <2>2, HandStep DEF PushBatchEnd, Running, LimitInv, Limited, store
<1>14. CASE Endpoint
  <2>1. /\ loop.pc = "post" /\ loop'.pc \in {"accepted", "failed"} /\ loop'.cur = loop.cur
        /\ loop'.sub = loop.sub /\ loop'.batch = loop.batch /\ loop'.todo = loop.todo
    BY <1>14, <1>a DEF Endpoint, PostAccepted, PostFailed, LoopType
  <2>2. \A k \in Id : InHand(k) => InHand(k)'
    BY <2>1 DEF InHand
  <2> QED
    BY <1>14, <2>1, <2>2, HandStep
    DEF Endpoint, PostAccepted, PostFailed, Running, LimitInv, Limited, store
<1>15. ASSUME loop.pc \in {"accepted", "failed"}, Running, Running',
              UNCHANGED <<topics, subs>>, loop' = [loop EXCEPT !.pc = "next"],
              \A k \in Id :
                  /\ attempts'[pushed][k] \in {0, attempts[pushed][k]}
                  /\ lease'[pushed][k] = "absent" =>
                        lease[pushed][k] = "absent" \/ attempts'[pushed][k] = 0
                  /\ attempts'[pushed][k] = Limit /\ loop.sub = pushed => k # loop.cur
       PROVE  LimitInv'
  <2>1. /\ loop'.pc = "next" /\ loop'.cur = loop.cur
        /\ loop'.sub = loop.sub /\ loop'.batch = loop.batch /\ loop'.todo = loop.todo
    BY <1>15, <1>a DEF LoopType
  <2>2. ASSUME NEW k \in Id PROVE Counted(k)'
    <3>1. attempts'[pushed][k] = Limit => InHand(k)'
      BY <1>15, <1>a, <1>b, <2>1 DEF Counted, InHand
    <3> QED
      BY <1>15, <1>a, <1>b, <3>1 DEF Counted
  <2>3. Limited(topics, subs)'
    BY <1>15 DEF LimitInv, Limited
  <2> QED
    BY <1>15, <2>1, <2>2, <2>3 DEF LimitInv
<1>16. CASE PushAck
  <2>1. /\ Running /\ Running' /\ UNCHANGED <<topics, subs>> /\ loop.pc = "accepted"
        /\ loop' = [loop EXCEPT !.pc = "next"] /\ loop.sub \in Sub
    BY <1>16 DEF PushAck, Running, AckIds, store, TypeOK
  <2>2. CASE Exists(loop.sub)
    <3>1. AckIds(loop.sub, {loop.cur})
      BY <1>16, <2>2 DEF PushAck
    <3>2. \A k \in Id :
             /\ lease'[pushed][k] = IF pushed = loop.sub /\ k = loop.cur
                                    THEN "absent" ELSE lease[pushed][k]
             /\ attempts'[pushed][k] = IF pushed = loop.sub /\ k = loop.cur
                                       THEN 0 ELSE attempts[pushed][k]
      BY <2>1, <3>1, SetLeaseAt, DropAttemptsAt DEF AckIds
    <3> QED
      BY <1>15, <1>b, <2>1, <3>2 DEF Counted
  <2>3. CASE ~Exists(loop.sub)
    <3>1. UNCHANGED store
      BY <1>16, <2>3 DEF PushAck
    <3>2. loop.sub = pushed => \A k \in Id : attempts[pushed][k] = 0
      BY <1>b, <2>1, <2>3 DEF IInv, SoundStore, Exists, Counted
    <3> QED
      BY <1>15, <2>1, <3>1, <3>2 DEF store
  <2> QED
    BY <2>2, <2>3
<1>17. CASE PushDeadLetter
  <2>1. /\ Running /\ Running' /\ UNCHANGED <<topics, subs>> /\ loop.pc = "failed"
        /\ loop' = [loop EXCEPT !.pc = "next"] /\ loop.sub \in Sub
        /\ lease' = FanOut(SetLease(loop.sub, {loop.cur}, "absent"), subs[loop.sub].dlt,
                           {msgCounter + 1})
        /\ attempts' = DropAttempts(loop.sub, {loop.cur})
    BY <1>17 DEF PushDeadLetter, Running, TypeOK
  <2>2. \A k \in Id :
           /\ lease'[pushed][k] = "absent" =>
                 lease[pushed][k] = "absent" \/ (pushed = loop.sub /\ k = loop.cur)
           /\ attempts'[pushed][k] = IF pushed = loop.sub /\ k = loop.cur
                                     THEN 0 ELSE attempts[pushed][k]
    BY <2>1, SetLeaseAt, FanOutAt, DropAttemptsAt
  <2>3. ASSUME NEW k \in Id
        PROVE  /\ attempts'[pushed][k] \in {0, attempts[pushed][k]}
               /\ lease'[pushed][k] = "absent" =>
                     lease[pushed][k] = "absent" \/ attempts'[pushed][k] = 0
               /\ attempts'[pushed][k] = Limit /\ loop.sub = pushed => k # loop.cur
    <3>1. CASE pushed = loop.sub /\ k = loop.cur
      BY <2>2, <3>1
    <3>2. CASE ~(pushed = loop.sub /\ k = loop.cur)
      BY <2>2, <3>2
    <3> QED
      BY <3>1, <3>2
  <2> QED
    BY <1>15, <2>1, <2>3
<1>18. CASE PushKeep
  <2>1. /\ Running /\ Running' /\ UNCHANGED store /\ loop.pc = "failed"
        /\ loop' = [loop EXCEPT !.pc = "next"] /\ loop.sub \in Sub /\ loop.cur \in Id
        /\ loop.todo[loop.sub] # NoSub
    BY <1>18 DEF PushKeep, Running, TypeOK
  <2>2. ASSUME loop.sub = pushed, attempts[pushed][loop.cur] = Limit PROVE FALSE
    <3>1. GivenUp(pushed, loop.cur)
      BY <2>1, <2>2 DEF GivenUp, LimitInv
    <3>2. loop.cur \in Stored(pushed)
      BY <1>b, <2>1, <2>2 DEF Counted, Stored
    <3>3. Exists(pushed)
      BY <2>1, <3>2 DEF IInv, SoundStore, Exists, Stored
    <3>4. CanForward(pushed, loop.cur)
      BY <2>1, <3>2, <3>3 DEF CanForward, LimitInv, Limited, Exists
    <3> QED
      BY <1>18, <2>2, <3>1, <3>4 DEF PushKeep
  <2> QED
    BY <1>15, <2>1, <2>2 DEF store
<1>19. ASSUME NEW s \in Sub, NEW i \in Id, DeadlinePasses(s, i) PROVE LimitInv'
  <2>1. \A k \in Id : (lease'[pushed][k] = "absent") => (lease[pushed][k] = "absent")
    BY <1>19, <1>a, LapseAt DEF DeadlinePasses
  <2> QED
    BY <1>19, <2>1, HandStep DEF DeadlinePasses, Running, LimitInv, Limited, InHand
<1>20. CASE Shutdown
  BY <1>20, HandStep DEF Shutdown, Running, LimitInv, Limited, InHand, store
<1>21. CASE Exit \/ ExitInWrite
  <2>1. /\ Running /\ ~Running' /\ loop' = IdleLoop /\ attempts' = NoAttempts
        /\ disk' \in {disk, EmptyFile} /\ (ExitInWrite => DataDir)
    BY <1>21 DEF Exit, ExitInWrite, MemoryLost, Running
  <2>2. Limited(EmptyFile.topics, EmptyFile.subs)
    BY DEF Limited, EmptyFile, NoSubs
  <2>3. Limited(disk.topics, disk.subs)
    BY <2>1, <2>2 DEF LimitInv, IInv, FileCurrent
  <2>4. Limited(disk.topics, disk.subs)'
    BY <2>1, <2>2, <2>3 DEF Limited
  <2>5. loop'.todo[pushed] \in {NoSub, PushedConfig}
    BY <2>1 DEF IdleLoop, NoSubs
  <2>6. \A i \in Id : Counted(i)'
    BY <2>1 DEF Counted, NoAttempts
  <2> QED
    BY <2>1, <2>4, <2>5, <2>6 DEF LimitInv
<1>22. CASE Restart
  <2>1. /\ ~Running /\ Running' /\ UNCHANGED <<loop, attempts>>
        /\ topics' = disk.topics /\ subs' = disk.subs
    BY <1>22 DEF Restart, Running
  <2>2. \A i \in Id : Counted(i)'
    BY <2>1 DEF LimitInv, Counted, NoAttempts
  <2> QED
    BY <2>1, <2>2 DEF LimitInv, Limited
<1>23. CASE Stream
  BY <1>5, <1>8, <1>23 DEF Stream, OpenStream, StreamPull, CloseStream
<1>24. CASE PushStep \/ Endpoint
  BY <1>9, <1>10, <1>11, <1>12, <1>13, <1>14, <1>16, <1>17, <1>18, <1>24 DEF PushStep
<1>25. CASE Time \/ Process
  BY <1>19, <1>20, <1>21, <1>22, <1>25 DEF Time, Process
<1>26. CASE UNCHANGED vars
  BY <1>8, <1>26 DEF vars
<1> QED
  BY <1>1, <1>2, <1>3, <1>4, <1>6, <1>7, <1>23, <1>24, <1>25, <1>26, LiveAssumption DEF LiveNext

(* Where dead letters can be delivered - their topic exists before the     *)
(* push subscription and is not deleted - no process pushes a message more *)
(* often than the subscription's limit, through any deletion and           *)
(* re-creation of the subscription, exit or restart.                       *)
THEOREM AttemptsAreBounded == LiveSpec => []AttemptsBounded
<1>1. Init => LimitInv
  <2> SUFFICES ASSUME Init PROVE LimitInv
    OBVIOUS
  <2>1. IInv
    BY IInvInit
  <2> QED
    BY <2>1, PushedFacts DEF Init, LimitInv, IdleLoop, NoSubs, Limited, Running, Counted,
       NoAttempts
<1>2. LimitInv => AttemptsBounded
  <2> SUFFICES ASSUME LimitInv, NEW i \in Stored(pushed)
               PROVE  attempts[pushed][i] <= subs[pushed].max
    BY DEF AttemptsBounded
  <2>1. i \in Id /\ lease[pushed][i] # "absent"
    BY DEF Stored
  <2>2. Running /\ subs[pushed] # NoSub
    BY <2>1, PushedFacts DEF LimitInv, IInv, SoundStore, NoLeases
  <2> QED
    BY <2>1, <2>2, PushedFacts DEF LimitInv, Limited, Counted
<1> QED
  BY <1>1, <1>2, LimitStep, PTL DEF LiveSpec

=============================================================================
