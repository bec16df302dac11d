----------------------- MODULE FirestoreListen_proofs ------------------------
(***************************************************************************)
(* Theorems about FirestoreListen, for every set of clients, targets and   *)
(* filters, every size of the channels and every bound.                    *)
(***************************************************************************)
EXTENDS FirestoreListen, FirestoreStore_proofs, SequenceTheorems, NaturalsInduction,
        WellFoundedInduction

-----------------------------------------------------------------------------
(* The store under the listeners.                                          *)

LEMMA ListenStepIsStep == [ListenNext]_allVars => [Next]_vars
<1> SUFFICES ASSUME [ListenNext]_allVars PROVE [Next]_vars
  OBVIOUS
<1>1. ASSUME NEW w \in Writer, WriterStep(w) PROVE Next
  BY <1>1 DEF WriterStep, ApplyMarked, Notify, Next, Applies
<1>2. CASE (Requests \/ Restart) /\ UNCHANGED listenVars
  BY <1>2 DEF Next, Process
<1>3. CASE ExitAll
  BY <1>3 DEF ExitAll, Next, Process
<1>4. ASSUME NEW c \in Client, NEW t \in Target, NEW f, NEW after, AddTarget(c, t, f, after)
      PROVE  UNCHANGED vars
  BY <1>4 DEF AddTarget
<1>5. ASSUME NEW c \in Client, NEW t \in Target,
             AddAgain(c, t) \/ RemoveTarget(c, t) \/ Forward(c, t) \/ CloseTarget(c, t)
      PROVE  UNCHANGED vars
  BY <1>4, <1>5 DEF AddAgain, RemoveTarget, Forward, Move, CloseTarget
<1>6. ASSUME NEW c \in Client,
             \/ Answers(c) \/ Deliver(c) \/ Disconnect(c) \/ CloseStream(c)
             \/ \E i \in 1..MaxOpens : ForwardLeft(c, i)
      PROVE  UNCHANGED vars
  BY <1>6 DEF Answers, Resume, Fallback, Snapshot, Current, Deliver, Disconnect, CloseStream,
              ForwardLeft, Move
<1>7. CASE UNCHANGED allVars
  BY <1>7 DEF allVars
<1> QED
  BY <1>1, <1>2, <1>3, <1>4, <1>5, <1>6, <1>7 DEF ListenNext, AddFresh, Closes

(* The listeners only read the store: with them it behaves as it does
   alone, and what is proved of it holds of both. *)
THEOREM ListenersKeepTheStore == ListenSpec => Spec
<1>1. ListenInit => Init
  BY DEF ListenInit
<1> QED
  BY <1>1, ListenStepIsStep, PTL DEF ListenSpec, Spec

-----------------------------------------------------------------------------
(* Operators.                                                              *)

LEMMA HasMaximum ==
    ASSUME NEW n \in Nat, NEW S \in SUBSET (0..n), S # {}
    PROVE  \E x \in S : \A y \in S : y <= x
<1> DEFINE T == {k \in 0..n : n - k \in S}
<1>1. \A x \in S : n - x \in T
  OBVIOUS
<1>2. T \subseteq Nat /\ T # {}
  <2>1. T \subseteq 0..n
    OBVIOUS
  <2>2. PICK x \in S : TRUE
    OBVIOUS
  <2> QED
    BY <1>1, <2>1, <2>2
<1>3. \E m \in T : \A k \in T : ~(<<k, m>> \in OpToRel(<, Nat))
  <2> HIDE DEF T
  <2> QED
    BY <1>2, NatLessThanWellFounded, WFMin
<1>4. PICK m \in T : \A k \in T : ~(<<k, m>> \in OpToRel(<, Nat))
  BY <1>3, Zenon
<1>5. ASSUME NEW k \in T PROVE ~(k < m)
  <2>1. <<k, m>> \in Nat \X Nat
    BY <1>2
  <2>2. <<k, m>>[1] = k /\ <<k, m>>[2] = m
    OBVIOUS
  <2>3. ~(<<k, m>>[1] < <<k, m>>[2])
    <3> HIDE DEF T
    <3> QED
      BY <1>4, <2>1, Zenon DEF OpToRel
  <2> QED
    BY <2>2, <2>3
<1> QED
  BY <1>1, <1>5

(* Replaying the log gives versions that are in it. *)
LEMMA ReplayedType ==
    ASSUME TypeOK, NEW v \in [Doc -> Version], NEW after \in Nat, NEW f
    PROVE  Replayed(v, after, f) \in [Doc -> Version]
<1>1. ASSUME NEW i \in 0..logLen - 1 PROVE Entry(i).ver \in Version
  <2>1. (logStart + i) % LogSize \in Slot
    <3>1. logStart + i \in Nat /\ LogSize \in Nat \ {0}
      BY BoundsAssumption DEF TypeOK, Slot
    <3> QED
      BY <3>1 DEF Slot
  <2>2. Entry(i) \in Event \cup {NoEvent}
    BY <2>1 DEF Entry, TypeOK
  <2> QED
    BY <2>2 DEF Event, NoEvent, Version, Absent
<1>2. ASSUME NEW d \in Doc
      PROVE  LET changes == {i \in Since(after) : Entry(i).doc = d}
             IN  changes # {} => Entry(CHOOSE i \in changes : \A j \in changes : j <= i).ver \in Version
  <2> DEFINE changes == {i \in Since(after) : Entry(i).doc = d}
  <2> SUFFICES ASSUME changes # {}
               PROVE  Entry(CHOOSE i \in changes : \A j \in changes : j <= i).ver \in Version
    OBVIOUS
  <2>1. changes \in SUBSET (0..logLen) /\ changes \in SUBSET (0..logLen - 1) /\ logLen \in Nat
    BY DEF Since, TypeOK
  <2> HIDE DEF changes
  <2>2. \E i \in changes : \A j \in changes : j <= i
    BY <2>1, HasMaximum
  <2>3. (CHOOSE i \in changes : \A j \in changes : j <= i) \in changes
    BY <2>2
  <2> QED
    BY <1>1, <2>1, <2>3
<1> QED
  BY <1>2 DEF Replayed

LEMMA AppendFits ==
    ASSUME NEW S, NEW s \in Seq(S), NEW e \in S, NEW n \in Nat, Len(s) < n
    PROVE  Append(s, e) \in Seq(S) /\ Len(Append(s, e)) <= n
<1> DEFINE l == Len(s)
<1>1. Append(s, e) \in Seq(S) /\ Len(Append(s, e)) = l + 1 /\ l \in Nat /\ l < n
  OBVIOUS
<1> DEFINE k == Len(Append(s, e))
<1> HIDE DEF l, k
<1>2. k = l + 1
  BY <1>1 DEF k
<1>3. k <= n
  BY <1>1, <1>2
<1> QED
  BY <1>1, <1>3 DEF k

-----------------------------------------------------------------------------
(* Sequences of events, and of channels.                                   *)

(* Whether the last event of the document is of this version.              *)
LastIs(s, d, v) ==
    \A i \in DOMAIN s :
        s[i].doc = d /\ (\A j \in DOMAIN s : j > i => s[j].doc # d) => s[i].ver = v

(* Whether one of these channels has an event of the document.             *)
Held(channels, d) == \E i \in DOMAIN channels : Mentions(channels[i], d)

LEMMA EmptyEvents ==
    ASSUME NEW d, NEW v
    PROVE  ~Mentions(<<>>, d) /\ LastIs(<<>>, d, v)
  BY DEF Mentions, LastIs

LEMMA AppendedEvent ==
    ASSUME NEW s \in Seq(Event), NEW e \in Event, NEW d, NEW v
    PROVE  /\ Mentions(Append(s, e), d) <=> Mentions(s, d) \/ e.doc = d
           /\ e.doc = d => (LastIs(Append(s, e), d, v) <=> e.ver = v)
           /\ e.doc # d /\ LastIs(s, d, v) => LastIs(Append(s, e), d, v)
<1> DEFINE a == Append(s, e)
           n == Len(s)
<1>1. /\ n \in Nat /\ DOMAIN s = 1..n /\ DOMAIN a = 1..n + 1
      /\ a[n + 1] = e /\ \A i \in 1..n : a[i] = s[i]
  OBVIOUS
<1> HIDE DEF a, n
<1>2. \A i \in DOMAIN a : i \in 1..n \/ i = n + 1
  BY <1>1
<1>3. Mentions(a, d) <=> Mentions(s, d) \/ e.doc = d
  BY <1>1, <1>2 DEF Mentions
<1>4. ASSUME e.doc = d PROVE LastIs(a, d, v) <=> e.ver = v
  <2>1. \A i \in DOMAIN a : (\A j \in DOMAIN a : j > i => a[j].doc # d) => i = n + 1
    BY <1>1, <1>2, <1>4
  <2>2. n + 1 \in DOMAIN a /\ a[n + 1].doc = d /\ \A j \in DOMAIN a : ~(j > n + 1)
    BY <1>1, <1>4
  <2> QED
    BY <1>1, <2>1, <2>2 DEF LastIs
<1>5. ASSUME e.doc # d, LastIs(s, d, v) PROVE LastIs(a, d, v)
  <2> SUFFICES ASSUME NEW i \in DOMAIN a, a[i].doc = d, \A j \in DOMAIN a : j > i => a[j].doc # d
               PROVE  a[i].ver = v
    BY DEF LastIs
  <2>1. i \in DOMAIN s /\ s[i] = a[i]
    BY <1>1, <1>2, <1>5
  <2>2. \A j \in DOMAIN s : j > i => s[j].doc # d
    BY <1>1
  <2> QED
    BY <1>5, <2>1, <2>2 DEF LastIs
<1> QED
  BY <1>3, <1>4, <1>5 DEF a

LEMMA RemovedEvent ==
    ASSUME NEW s \in Seq(Event), s # <<>>, NEW d, NEW v
    PROVE  /\ Mentions(s, d) <=> Head(s).doc = d \/ Mentions(Tail(s), d)
           /\ LastIs(s, d, v) => LastIs(Tail(s), d, v)
           /\ LastIs(s, d, v) /\ Head(s).doc = d /\ ~Mentions(Tail(s), d) => Head(s).ver = v
<1> DEFINE t == Tail(s)
           n == Len(s)
<1>1. /\ n \in Nat /\ n > 0 /\ DOMAIN s = 1..n /\ DOMAIN t = 1..n - 1
      /\ s[1] = Head(s) /\ \A i \in 1..n - 1 : t[i] = s[i + 1]
  OBVIOUS
<1> HIDE DEF t, n
<1>2. \A i \in DOMAIN s : i = 1 \/ (i - 1 \in DOMAIN t /\ t[i - 1] = s[i])
  BY <1>1
<1>3. \A i \in DOMAIN t : i + 1 \in DOMAIN s /\ s[i + 1] = t[i]
  BY <1>1
<1>4. 1 \in DOMAIN s
  BY <1>1
<1>5. Mentions(s, d) <=> Head(s).doc = d \/ Mentions(t, d)
  BY <1>1, <1>2, <1>3, <1>4 DEF Mentions
<1>6. ASSUME LastIs(s, d, v) PROVE LastIs(t, d, v)
  <2> SUFFICES ASSUME NEW i \in DOMAIN t, t[i].doc = d, \A j \in DOMAIN t : j > i => t[j].doc # d
               PROVE  t[i].ver = v
    BY DEF LastIs
  <2>1. ASSUME NEW j \in DOMAIN s, j > i + 1 PROVE s[j].doc # d
    <3>1. j # 1 /\ j - 1 > i
      BY <1>1, <2>1
    <3> QED
      BY <1>2, <3>1
  <2> QED
    BY <1>3, <1>6, <2>1 DEF LastIs
<1>7. ASSUME LastIs(s, d, v), Head(s).doc = d, ~Mentions(t, d) PROVE Head(s).ver = v
  <2>1. \A j \in DOMAIN s : j > 1 => s[j].doc # d
    BY <1>1, <1>2, <1>7 DEF Mentions
  <2> QED
    BY <1>1, <1>4, <1>7, <2>1 DEF LastIs
<1> QED
  BY <1>5, <1>6, <1>7 DEF t

LEMMA AppendedChannel ==
    ASSUME NEW s \in Seq(Seq(Event)), NEW p \in Seq(Event), NEW d, NEW n \in Nat,
           Len(p) <= n, \A i \in DOMAIN s : Len(s[i]) <= n
    PROVE  /\ Append(s, p) \in Seq(Seq(Event))
           /\ \A i \in DOMAIN Append(s, p) : Len(Append(s, p)[i]) <= n
           /\ Held(Append(s, p), d) <=> Held(s, d) \/ Mentions(p, d)
<1> DEFINE a == Append(s, p)
           l == Len(s)
<1>1. a \in Seq(Seq(Event)) /\ l \in Nat /\ DOMAIN s = 1..l /\ DOMAIN a = 1..l + 1
  BY AppendProperties
<1>2. a[l + 1] = p /\ \A i \in 1..l : a[i] = s[i]
  BY AppendProperties
<1> HIDE DEF a, l
<1>3. \A i \in DOMAIN a : i \in DOMAIN s \/ i = l + 1
  BY <1>1
<1>4. l + 1 \in DOMAIN a /\ \A i \in DOMAIN s : i \in DOMAIN a /\ a[i] = s[i]
  BY <1>1, <1>2
<1>5. \A i \in DOMAIN a : Len(a[i]) <= n
  BY <1>2, <1>3, <1>4
<1>6. Held(a, d) <=> Held(s, d) \/ Mentions(p, d)
  BY <1>2, <1>3, <1>4 DEF Held
<1> QED
  BY <1>1, <1>5, <1>6 DEF a

(* One of these channels loses an event. *)
LEMMA ShortenedChannel ==
    ASSUME NEW s \in Seq(Seq(Event)), NEW i \in DOMAIN s, s[i] # <<>>, NEW n \in Nat,
           \A j \in DOMAIN s : Len(s[j]) <= n
    PROVE  LET r == [s EXCEPT ![i] = Tail(s[i])]
           IN  /\ r \in Seq(Seq(Event))
               /\ \A j \in DOMAIN r : Len(r[j]) <= n
               /\ \A d : Held(s, d) => Held(r, d) \/ Head(s[i]).doc = d
<1> DEFINE p == Tail(s[i])
           r == [s EXCEPT ![i] = p]
<1>1. s[i] \in Seq(Event) /\ i \in 1..Len(s) /\ DOMAIN s = 1..Len(s)
  OBVIOUS
<1>2. p \in Seq(Event) /\ Len(p) <= n
  <2>1. p \in Seq(Event) /\ Len(p) = Len(s[i]) - 1 /\ Len(s[i]) \in Nat
    BY <1>1, HeadTailProperties
  <2> QED
    BY <2>1
<1>3. \A d : Mentions(s[i], d) <=> Head(s[i]).doc = d \/ Mentions(p, d)
  BY <1>1, RemovedEvent
<1> HIDE DEF p
<1>4. r \in Seq(Seq(Event))
  BY <1>1, <1>2, ExceptSeq
<1>5. DOMAIN r = DOMAIN s /\ r[i] = p /\ \A j \in DOMAIN s : j # i => r[j] = s[j]
  OBVIOUS
<1> HIDE DEF r
<1>6. \A j \in DOMAIN r : Len(r[j]) <= n
  BY <1>2, <1>5
<1>7. \A d : Held(s, d) => Held(r, d) \/ Head(s[i]).doc = d
  BY <1>3, <1>5 DEF Held
<1> QED
  BY <1>4, <1>6, <1>7 DEF p, r

(* A channel that is offered an event. *)
LEMMA OfferedIs ==
    ASSUME NEW s \in Sub, NEW e \in Event, Len(s.pipe) <= Capacity
    PROVE  /\ Offered(s, e) \in Sub
           /\ Len(Offered(s, e).pipe) <= Capacity
           /\ Offered(s, e).active = s.active /\ Offered(s, e).filter = s.filter
           /\ Offered(s, e).view = s.view /\ Offered(s, e).fresh = s.fresh
           /\ \/ /\ Offered(s, e).pipe = Append(s.pipe, e)
                 /\ Offered(s, e).doubtful = s.doubtful \ {e.doc}
              \/ /\ Offered(s, e).pipe = s.pipe
                 /\ Offered(s, e).doubtful = s.doubtful \cup {e.doc}
<1>1. s.pipe \in Seq(Event) /\ s.doubtful \in SUBSET Doc /\ e.doc \in Doc
  BY DEF Sub, Event
<1>2. CASE Len(s.pipe) < Capacity
  <2>1. Append(s.pipe, e) \in Seq(Event) /\ Len(Append(s.pipe, e)) = Len(s.pipe) + 1
    BY <1>1
  <2>2. Len(Append(s.pipe, e)) <= Capacity
    BY <1>1, <1>2, <2>1, ListenAssumption
  <2> DEFINE p == Append(s.pipe, e)
             q == s.doubtful \ {e.doc}
  <2>3. q \in SUBSET Doc
    BY <1>1
  <2>4. Offered(s, e) = [s EXCEPT !.pipe = p, !.doubtful = q]
    BY <1>2 DEF Offered
  <2>5. p \in Seq(Event) /\ Len(p) <= Capacity
    BY <2>1, <2>2
  <2> HIDE DEF p, q
  <2>6. /\ Offered(s, e) \in Sub
        /\ Offered(s, e).pipe = p /\ Offered(s, e).doubtful = q
        /\ Offered(s, e).active = s.active /\ Offered(s, e).filter = s.filter
        /\ Offered(s, e).view = s.view /\ Offered(s, e).fresh = s.fresh
    BY <2>3, <2>4, <2>5 DEF Sub
  <2> QED
    BY <2>5, <2>6 DEF p, q
<1>3. CASE ~(Len(s.pipe) < Capacity)
  <2> DEFINE q == s.doubtful \cup {e.doc}
  <2>1. q \in SUBSET Doc
    BY <1>1
  <2>2. Offered(s, e) = [s EXCEPT !.doubtful = q]
    BY <1>3 DEF Offered
  <2> HIDE DEF q
  <2>3. /\ Offered(s, e) \in Sub
        /\ Offered(s, e).pipe = s.pipe /\ Offered(s, e).doubtful = q
        /\ Offered(s, e).active = s.active /\ Offered(s, e).filter = s.filter
        /\ Offered(s, e).view = s.view /\ Offered(s, e).fresh = s.fresh
    BY <2>1, <2>2 DEF Sub
  <2> QED
    BY <2>3 DEF q
<1> QED
  BY <1>2, <1>3

(* One target of one client changes. *)
LEMMA SubBecomes ==
    ASSUME NEW S, sub \in [Client -> [Target -> S]],
           NEW c \in Client, NEW t \in Target, NEW s \in S, sub' = [sub EXCEPT ![c][t] = s]
    PROVE  /\ sub' \in [Client -> [Target -> S]]
           /\ sub'[c][t] = s
           /\ \A b \in Client, u \in Target : b # c \/ u # t => sub'[b][u] = sub[b][u]
  OBVIOUS

(* The channels of one client that are left change. *)
LEMMA LeftBecomes ==
    ASSUME NEW S, left \in [Client -> S], NEW c \in Client, NEW r \in S,
           left' = [left EXCEPT ![c] = r]
    PROVE  /\ left' \in [Client -> S] /\ left'[c] = r
           /\ \A b \in Client : b # c => left'[b] = left[b]
  OBVIOUS

-----------------------------------------------------------------------------
(* What the listeners' steps do.                                           *)

(* A target is added. *)
Added(c, t, f, after) ==
    /\ watchers' \in [Target -> Watcher]
    /\ watchers'[t].client = c /\ watchers'[t].filter = f
    /\ \A u \in Target : u # t => watchers'[u] = watchers[u]
    /\ stream' \in [Client -> Stream]
    /\ stream'[c].pc = (IF after > 0 THEN "resume" ELSE "snapshot")
    /\ stream'[c].target = t
    /\ stream'[c].pc = "resume" => stream'[c].after # NoToken
    /\ \A b \in Client : b # c => stream'[b] = stream[b]
    /\ sub' \in [Client -> [Target -> Sub]]
    /\ sub'[c][t].active /\ sub'[c][t].filter = f /\ sub'[c][t].pipe = <<>>
    /\ sub'[c][t].doubtful = {events[c][i].doc : i \in DOMAIN events[c]}
    /\ sub'[c][t].fresh = (after = NoToken)
    /\ after = NoToken => sub'[c][t].view = NoDocs
    /\ \A b \in Client, u \in Target : b # c \/ u # t => sub'[b][u] = sub[b][u]

LEMMA AddIs ==
    ASSUME ListenTypeOK, NEW c \in Client, NEW t \in Target, NEW f \in SUBSET Doc,
           NEW after \in Nat \cup {NoToken}, AddTarget(c, t, f, after)
    PROVE  Added(c, t, f, after)
<1> DEFINE q == {events[c][i].doc : i \in DOMAIN events[c]}
           v == IF after = NoToken THEN NoDocs ELSE sub[c][t].view
           s == [active |-> TRUE, filter |-> f, pipe |-> <<>>, doubtful |-> q,
                 view |-> v, token |-> after, fresh |-> after = NoToken]
           h == [pc |-> IF after > 0 THEN "resume" ELSE "snapshot", target |-> t, after |-> after]
           r == [client |-> c, filter |-> f]
<1>1. q \in SUBSET Doc
  <2>1. events[c] \in Seq(Event)
    BY DEF ListenTypeOK
  <2>2. \A i \in DOMAIN events[c] : events[c][i] \in Event
    BY <2>1
  <2> QED
    BY <2>2 DEF Event
<1>2. v \in [Doc -> Version]
  BY DEF ListenTypeOK, Sub, NoDocs, Version, Absent
<1>3. /\ watchers \in [Target -> Watcher] /\ stream \in [Client -> Stream]
      /\ sub \in [Client -> [Target -> Sub]]
  BY DEF ListenTypeOK
<1>4. /\ watchers' = [watchers EXCEPT ![t] = r] /\ stream' = [stream EXCEPT ![c] = h]
      /\ sub' = [sub EXCEPT ![c][t] = s]
  BY DEF AddTarget
<1> HIDE DEF q
<1>5. s \in Sub
  <2> HIDE DEF v
  <2> QED
    BY <1>1, <1>2 DEF Sub
<1>6. s.active /\ s.filter = f /\ s.pipe = <<>> /\ s.doubtful = q /\ s.view = v /\ s.fresh = (after = NoToken)
  OBVIOUS
<1>7. h \in Stream /\ r \in Watcher
  BY DEF Stream, Watcher
<1>8. /\ h.pc = (IF after > 0 THEN "resume" ELSE "snapshot") /\ h.target = t
      /\ h.pc = "resume" => h.after # NoToken
      /\ r.client = c /\ r.filter = f
  BY DEF NoToken
<1> HIDE DEF s, h, r
<1>9. /\ sub' \in [Client -> [Target -> Sub]] /\ sub'[c][t] = s
      /\ \A b \in Client, u \in Target : b # c \/ u # t => sub'[b][u] = sub[b][u]
  BY <1>3, <1>4, <1>5, SubBecomes
<1>10. /\ watchers' \in [Target -> Watcher] /\ watchers'[t] = r
       /\ \A u \in Target : u # t => watchers'[u] = watchers[u]
       /\ stream' \in [Client -> Stream] /\ stream'[c] = h
       /\ \A b \in Client : b # c => stream'[b] = stream[b]
  BY <1>3, <1>4, <1>7
<1> QED
  BY <1>6, <1>8, <1>9, <1>10 DEF q, v, Added

(* The events of the id's last use stay with the stream. *)
LEMMA AddLeaves ==
    ASSUME ListenTypeOK, NEW c \in Client, NEW t \in Target, NEW f, NEW after, AddTarget(c, t, f, after)
    PROVE  /\ left' \in [Client -> Seq(Seq(Event))]
           /\ \A b \in Client : \A i \in DOMAIN left'[b] : Len(left'[b][i]) <= Capacity
           /\ \A b \in Client : b # c => left'[b] = left[b]
           /\ \A d : Held(left'[c], d) <=> Held(left[c], d) \/ Mentions(sub[c][t].pipe, d)
<1> DEFINE p == sub[c][t].pipe
           r == IF p = <<>> THEN left[c] ELSE Append(left[c], p)
<1>1. /\ left \in [Client -> Seq(Seq(Event))] /\ left[c] \in Seq(Seq(Event))
      /\ \A b \in Client : \A i \in DOMAIN left[b] : Len(left[b][i]) <= Capacity
      /\ p \in Seq(Event) /\ Len(p) <= Capacity /\ Capacity \in Nat
  BY ListenAssumption DEF ListenTypeOK, Sub
<1> HIDE DEF p
<1>2. /\ Append(left[c], p) \in Seq(Seq(Event))
      /\ \A i \in DOMAIN Append(left[c], p) : Len(Append(left[c], p)[i]) <= Capacity
      /\ \A d : Held(Append(left[c], p), d) <=> Held(left[c], d) \/ Mentions(p, d)
  BY <1>1, AppendedChannel
<1>3. \A d : p = <<>> => ~Mentions(p, d)
  BY EmptyEvents
<1>4. /\ r \in Seq(Seq(Event)) /\ \A i \in DOMAIN r : Len(r[i]) <= Capacity
      /\ \A d : Held(r, d) <=> Held(left[c], d) \/ Mentions(p, d)
  BY <1>1, <1>2, <1>3
<1>5. left' = [left EXCEPT ![c] = r]
  BY DEF AddTarget, p
<1> HIDE DEF r
<1>6. /\ left' \in [Client -> Seq(Seq(Event))] /\ left'[c] = r
      /\ \A b \in Client : b # c => left'[b] = left[b]
  BY <1>1, <1>4, <1>5, LeftBecomes
<1> QED
  BY <1>1, <1>4, <1>6 DEF p

LEMMA StreamBecomes ==
    ASSUME ListenTypeOK, NEW c \in Client, NEW h \in Stream, stream' = [stream EXCEPT ![c] = h]
    PROVE  /\ stream' \in [Client -> Stream] /\ stream'[c] = h
           /\ \A b \in Client : b # c => stream'[b] = stream[b]
  BY DEF ListenTypeOK

(* Two states of a target that differ in what the client knows. *)
ToldOnly(s, r) ==
    /\ r.active = s.active /\ r.filter = s.filter /\ r.pipe = s.pipe
    /\ r.doubtful = s.doubtful /\ r.fresh = s.fresh

(* The handler's answer: what the client is told, and where it goes on. *)
Answered(c) ==
    LET t == stream[c].target
    IN  /\ t \in Target
        /\ stream[c].pc \in {"resume", "snapshot", "current"}
        /\ stream' \in [Client -> Stream]
        /\ stream'[c].pc \in {"snapshot", "current", "open"}
        /\ stream'[c].pc # "open" => stream'[c].target = t
        /\ stream'[c].pc = "snapshot" => stream[c].pc = "resume" /\ sub' = sub
        /\ \A b \in Client : b # c => stream'[b] = stream[b]
        /\ sub' \in [Client -> [Target -> Sub]]
        /\ ToldOnly(sub[c][t], sub'[c][t])
        /\ stream[c].pc = "snapshot" => \A d \in Doc : sub'[c][t].view[d] =
               IF d \in sub[c][t].filter /\ docs[d] # Absent THEN docs[d] ELSE sub[c][t].view[d]
        /\ stream[c].pc = "current" => sub'[c][t].view = sub[c][t].view
        /\ \A b \in Client, u \in Target : b # c \/ u # t => sub'[b][u] = sub[b][u]

LEMMA AnswerIs ==
    ASSUME TypeOK, ListenTypeOK, NEW c \in Client, Answers(c)
    PROVE  Answered(c)
<1> DEFINE t == stream[c].target
<1>1. /\ stream[c].pc \in {"resume", "snapshot", "current"}
      /\ stream[c] \in Stream /\ sub \in [Client -> [Target -> Sub]]
  BY DEF Answers, Resume, Fallback, Snapshot, Current, ListenTypeOK
<1>2. t \in Target /\ sub[c][t] \in Sub
  BY <1>1 DEF ListenTypeOK
<1> HIDE DEF t
<1>3. ASSUME NEW pc \in {"snapshot", "current"}
      PROVE  /\ [stream[c] EXCEPT !.pc = pc] \in Stream /\ [stream[c] EXCEPT !.pc = pc].pc = pc
             /\ [stream[c] EXCEPT !.pc = pc].target = t
  BY <1>1 DEF Stream, t
<1>4. ASSUME NEW v \in [Doc -> Version], Told(c, t, v)
      PROVE  /\ sub' \in [Client -> [Target -> Sub]] /\ sub'[c][t].view = v
             /\ ToldOnly(sub[c][t], sub'[c][t])
             /\ \A b \in Client, u \in Target : b # c \/ u # t => sub'[b][u] = sub[b][u]
  <2> DEFINE s == [sub[c][t] EXCEPT !.view = v]
  <2>1. s \in Sub /\ s.view = v /\ ToldOnly(sub[c][t], s)
    BY <1>2 DEF Sub, ToldOnly
  <2>2. sub' = [sub EXCEPT ![c][t] = s]
    BY <1>4 DEF Told
  <2> HIDE DEF s
  <2>3. /\ sub' \in [Client -> [Target -> Sub]] /\ sub'[c][t] = s
        /\ \A b \in Client, u \in Target : b # c \/ u # t => sub'[b][u] = sub[b][u]
    BY <1>1, <1>2, <2>1, <2>2, SubBecomes
  <2> QED
    BY <2>1, <2>3
<1>5. CASE Resume(c)
  <2> DEFINE v == Replayed(sub[c][t].view, stream[c].after, sub[c][t].filter)
  <2>1. /\ stream[c].pc = "resume" /\ Told(c, t, v)
        /\ stream' = [stream EXCEPT ![c] = [stream[c] EXCEPT !.pc = "current"]]
    BY <1>5 DEF Resume, t
  <2>2. sub[c][t].view \in [Doc -> Version]
    BY <1>2 DEF Sub
  <2>3. stream[c].after \in Nat
    BY <1>1, <2>1 DEF ListenTypeOK, Stream
  <2>4. v \in [Doc -> Version]
    BY <2>2, <2>3, ReplayedType
  <2> HIDE DEF v
  <2> QED
    BY <1>1, <1>2, <1>3, <1>4, <2>1, <2>4, StreamBecomes DEF t, Answered
<1>6. CASE Fallback(c)
  <2>1. /\ stream[c].pc = "resume" /\ sub' = sub
        /\ stream' = [stream EXCEPT ![c] = [stream[c] EXCEPT !.pc = "snapshot"]]
    BY <1>6 DEF Fallback
  <2> QED
    BY <1>1, <1>2, <1>3, <2>1, StreamBecomes DEF t, ToldOnly, Answered
<1>7. CASE Snapshot(c)
  <2> DEFINE v == [d \in Doc |-> IF d \in sub[c][t].filter /\ docs[d] # Absent
                                 THEN docs[d] ELSE sub[c][t].view[d]]
  <2>1. /\ stream[c].pc = "snapshot" /\ Told(c, t, v)
        /\ stream' = [stream EXCEPT ![c] = [stream[c] EXCEPT !.pc = "current"]]
    BY <1>7 DEF Snapshot, t
  <2>2. v \in [Doc -> Version]
    BY <1>2 DEF Sub, TypeOK
  <2>3. \A d \in Doc : v[d] = IF d \in sub[c][t].filter /\ docs[d] # Absent
                              THEN docs[d] ELSE sub[c][t].view[d]
    OBVIOUS
  <2> HIDE DEF v
  <2> QED
    BY <1>1, <1>2, <1>3, <1>4, <2>1, <2>2, <2>3, StreamBecomes DEF t, Answered
<1>8. CASE Current(c)
  <2> DEFINE s == [sub[c][t] EXCEPT !.token = seq]
  <2>1. /\ stream[c].pc = "current" /\ sub' = [sub EXCEPT ![c][t] = s]
        /\ stream' = [stream EXCEPT ![c] = [NoStream EXCEPT !.pc = "open"]]
    BY <1>8 DEF Current, t
  <2>2. /\ s \in Sub /\ s.view = sub[c][t].view
        /\ ToldOnly(sub[c][t], s)
    BY <1>2 DEF Sub, TypeOK, ToldOnly
  <2> HIDE DEF s
  <2>3. /\ sub' \in [Client -> [Target -> Sub]] /\ sub'[c][t] = s
        /\ \A b \in Client, u \in Target : b # c \/ u # t => sub'[b][u] = sub[b][u]
    BY <1>1, <1>2, <2>1, <2>2, SubBecomes
  <2>4. [NoStream EXCEPT !.pc = "open"] \in Stream /\ [NoStream EXCEPT !.pc = "open"].pc = "open"
    BY DEF NoStream, Stream
  <2> QED
    BY <1>2, <2>1, <2>2, <2>3, <2>4, StreamBecomes DEF t, Answered
<1> QED
  BY <1>5, <1>6, <1>7, <1>8 DEF Answers, Answered

(* An event moves on, out of these channels. *)
Moved(c, e, pipes, rest) ==
    /\ e \in Event /\ Open(c)
    /\ events' \in [Client -> Seq(Event)]
    /\ events'[c] = Append(events[c], e) /\ Len(events'[c]) <= Merged
    /\ \A b \in Client : b # c => events'[b] = events[b]
    /\ left' \in [Client -> Seq(Seq(Event))]
    /\ left'[c] = rest /\ \A b \in Client : b # c => left'[b] = left[b]
    /\ sub' \in [Client -> [Target -> Sub]]
    /\ \A u \in Target :
         /\ sub'[c][u].pipe = pipes[u] /\ sub[c][u].doubtful \subseteq sub'[c][u].doubtful
         /\ sub'[c][u].active = sub[c][u].active /\ sub'[c][u].filter = sub[c][u].filter
         /\ sub'[c][u].view = sub[c][u].view /\ sub'[c][u].fresh = sub[c][u].fresh
    /\ \A b \in Client : b # c => sub'[b] = sub[b]

(* The targets that a late event misleads are in doubt. *)
Doubted(c, e) == \A u \in Target : sub[c][u].active => e.doc \in sub'[c][u].doubtful

LEMMA MoveIs ==
    ASSUME ListenTypeOK, NEW c \in Client, NEW e \in Event, NEW sure \in BOOLEAN,
           NEW pipes \in [Target -> Seq(Event)], NEW rest \in Seq(Seq(Event)),
           Move(c, e, sure, pipes, rest)
    PROVE  Moved(c, e, pipes, rest) /\ (Late(e, sure, pipes, rest) => Doubted(c, e))
<1> DEFINE D(u) == IF Late(e, sure, pipes, rest) /\ sub[c][u].active
                   THEN sub[c][u].doubtful \cup {e.doc} ELSE sub[c][u].doubtful
           S(u) == [sub[c][u] EXCEPT !.pipe = pipes[u], !.doubtful = D(u)]
<1>1. /\ sub \in [Client -> [Target -> Sub]] /\ \A u \in Target : sub[c][u] \in Sub
      /\ events \in [Client -> Seq(Event)] /\ events[c] \in Seq(Event)
      /\ left \in [Client -> Seq(Seq(Event))] /\ e.doc \in Doc
  BY DEF ListenTypeOK, Event
<1>2. ASSUME NEW u \in Target
      PROVE  /\ S(u) \in Sub /\ S(u).pipe = pipes[u] /\ S(u).doubtful = D(u)
             /\ S(u).active = sub[c][u].active /\ S(u).filter = sub[c][u].filter
             /\ S(u).view = sub[c][u].view /\ S(u).fresh = sub[c][u].fresh
  <2>1. pipes[u] \in Seq(Event) /\ D(u) \in SUBSET Doc
    BY <1>1 DEF Sub
  <2> HIDE DEF D
  <2> QED
    BY <1>1, <2>1 DEF Sub
<1>3. /\ events' = [events EXCEPT ![c] = Append(events[c], e)]
      /\ sub' = [sub EXCEPT ![c] = [u \in Target |-> S(u)]]
      /\ left' = [left EXCEPT ![c] = rest]
      /\ Len(events[c]) < Merged /\ Open(c)
  BY DEF Move
<1>4. Append(events[c], e) \in Seq(Event) /\ Len(Append(events[c], e)) <= Merged
  BY <1>1, <1>3, AppendFits, ListenAssumption
<1> HIDE DEF S
<1>5. /\ sub' \in [Client -> [Target -> Sub]]
      /\ \A u \in Target : sub'[c][u] = S(u)
      /\ \A b \in Client : b # c => sub'[b] = sub[b]
  <2> HIDE DEF Sub
  <2> QED
    BY <1>1, <1>2, <1>3
<1>6. /\ events' \in [Client -> Seq(Event)] /\ events'[c] = Append(events[c], e)
      /\ \A b \in Client : b # c => events'[b] = events[b]
  <2> DEFINE a == Append(events[c], e)
  <2>1. a \in Seq(Event) /\ events' = [events EXCEPT ![c] = a]
    BY <1>3, <1>4
  <2> HIDE DEF a
  <2>2. /\ events' \in [Client -> Seq(Event)] /\ events'[c] = a
        /\ \A b \in Client : b # c => events'[b] = events[b]
    BY <1>1, <2>1
  <2> QED
    BY <2>2 DEF a
<1>7. /\ left' \in [Client -> Seq(Seq(Event))] /\ left'[c] = rest
      /\ \A b \in Client : b # c => left'[b] = left[b]
  BY <1>1, <1>3, LeftBecomes
<1>8. \A u \in Target : sub[c][u].doubtful \subseteq D(u)
  OBVIOUS
<1>9. Late(e, sure, pipes, rest) => \A u \in Target : sub[c][u].active => e.doc \in D(u)
  OBVIOUS
<1> HIDE DEF D
<1>10. Moved(c, e, pipes, rest)
  BY <1>2, <1>3, <1>4, <1>5, <1>6, <1>7, <1>8 DEF Moved
<1>11. Late(e, sure, pipes, rest) => Doubted(c, e)
  BY <1>2, <1>5, <1>9 DEF Doubted
<1> QED
  BY <1>10, <1>11

(* The channels that the event leaves: no other event of them is lost, the
   last of a document remains so, and an event that comes from the channel
   of a registered target in no doubt of it is the last it has. *)
Loses(c, e, pipes, rest) ==
    /\ \A u \in Target :
         /\ Len(pipes[u]) <= Capacity
         /\ \A d : Mentions(pipes[u], d) => Mentions(sub[c][u].pipe, d)
         /\ \A d, v : LastIs(sub[c][u].pipe, d, v) => LastIs(pipes[u], d, v)
    /\ \A i \in DOMAIN rest : Len(rest[i]) <= Capacity
    /\ \A d : /\ \A u \in Target : Mentions(sub[c][u].pipe, d) => Mentions(pipes[u], d) \/ e.doc = d
              /\ Held(left[c], d) => Held(rest, d) \/ e.doc = d

Vouched(c, t, e, pipes) ==
    /\ Registered(c, t) /\ e.doc \notin sub[c][t].doubtful /\ Mentions(sub[c][t].pipe, e.doc)
    /\ \A v : LastIs(sub[c][t].pipe, e.doc, v) /\ ~Mentions(pipes[t], e.doc) => e.ver = v

(* Nothing in these channels is of the document. *)
Cleared(pipes, rest, d) == (\A u \in Target : ~Mentions(pipes[u], d)) /\ ~Held(rest, d)

Moving(c, e, pipes, rest) ==
    /\ Moved(c, e, pipes, rest) /\ Loses(c, e, pipes, rest)
    /\ Cleared(pipes, rest, e.doc) =>
         e.ver = docs[e.doc] \/ Doubted(c, e) \/ \E t \in Target : Vouched(c, t, e, pipes)

LEMMA ForwardMoves ==
    ASSUME ListenTypeOK, NEW c \in Client, NEW t \in Target, Forward(c, t)
    PROVE  \E e, pipes, rest : Moving(c, e, pipes, rest)
<1> DEFINE s == sub[c][t].pipe
           e == Head(s)
           pipes == [Pipes(c) EXCEPT ![t] = Tail(s)]
           sure == Sure(c, t)
<1>1. /\ s \in Seq(Event) /\ s # <<>> /\ Capacity \in Nat
      /\ left[c] \in Seq(Seq(Event)) /\ \A i \in DOMAIN left[c] : Len(left[c][i]) <= Capacity
      /\ \A u \in Target : sub[c][u].pipe \in Seq(Event) /\ Len(sub[c][u].pipe) <= Capacity
  BY ListenAssumption DEF ListenTypeOK, Sub, Forward
<1>2. e \in Event /\ Tail(s) \in Seq(Event) /\ Len(Tail(s)) <= Capacity
  <2>1. Len(Tail(s)) = Len(s) - 1 /\ Len(s) \in Nat /\ Len(s) <= Capacity
    BY <1>1, HeadTailProperties
  <2> QED
    BY <1>1, <2>1, HeadTailProperties
<1>3. /\ pipes[t] = Tail(s) /\ \A u \in Target : u # t => pipes[u] = sub[c][u].pipe
      /\ pipes \in [Target -> Seq(Event)]
  <2> DEFINE r == Tail(s)
  <2>1. Pipes(c) \in [Target -> Seq(Event)] /\ \A u \in Target : Pipes(c)[u] = sub[c][u].pipe
    BY <1>1 DEF Pipes
  <2>2. r \in Seq(Event)
    BY <1>2
  <2> HIDE DEF r
  <2>3. [Pipes(c) EXCEPT ![t] = r] \in [Target -> Seq(Event)]
    BY <2>1, <2>2
  <2>4. /\ [Pipes(c) EXCEPT ![t] = r][t] = r
        /\ \A u \in Target : u # t => [Pipes(c) EXCEPT ![t] = r][u] = sub[c][u].pipe
    BY <2>1, <2>2
  <2> QED
    BY <2>3, <2>4 DEF r
<1>4. Move(c, e, sure, pipes, left[c])
  BY DEF Forward
<1>5. sure => Registered(c, t) /\ e.doc \notin sub[c][t].doubtful
  BY DEF Sure
<1>6. sure \in BOOLEAN
  BY DEF Sure, Registered
<1>7. \A d, v : /\ Mentions(s, d) <=> e.doc = d \/ Mentions(Tail(s), d)
                /\ LastIs(s, d, v) => LastIs(Tail(s), d, v)
                /\ LastIs(s, d, v) /\ e.doc = d /\ ~Mentions(Tail(s), d) => e.ver = v
  BY <1>1, RemovedEvent
<1> HIDE DEF e, pipes, sure
<1>8. Moved(c, e, pipes, left[c]) /\ (Late(e, sure, pipes, left[c]) => Doubted(c, e))
  BY <1>1, <1>2, <1>3, <1>4, <1>6, MoveIs
<1>9. Loses(c, e, pipes, left[c])
  BY <1>1, <1>2, <1>3, <1>7 DEF Loses
<1>10. sure => Vouched(c, t, e, pipes)
  BY <1>3, <1>5, <1>7 DEF Vouched
<1>11. Cleared(pipes, left[c], e.doc) /\ ~sure /\ e.ver # docs[e.doc] => Late(e, sure, pipes, left[c])
  BY DEF Cleared, Held, Late
<1>12. Moving(c, e, pipes, left[c])
  BY <1>8, <1>9, <1>10, <1>11 DEF Moving
<1> QED
  BY <1>12

LEMMA ForwardLeftMoves ==
    ASSUME ListenTypeOK, NEW c \in Client, NEW i, ForwardLeft(c, i)
    PROVE  \E e, pipes, rest : Moving(c, e, pipes, rest)
<1> DEFINE s == left[c][i]
           e == Head(s)
           pipes == Pipes(c)
           rest == [left[c] EXCEPT ![i] = Tail(s)]
<1>1. /\ left[c] \in Seq(Seq(Event)) /\ i \in DOMAIN left[c] /\ s \in Seq(Event) /\ s # <<>>
      /\ \A j \in DOMAIN left[c] : Len(left[c][j]) <= Capacity
      /\ \A u \in Target : sub[c][u].pipe \in Seq(Event) /\ Len(sub[c][u].pipe) <= Capacity
      /\ Capacity \in Nat
  <2>1. left[c] \in Seq(Seq(Event)) /\ i \in DOMAIN left[c] /\ s # <<>>
    BY DEF ListenTypeOK, ForwardLeft
  <2>2. s \in Seq(Event)
    BY <2>1
  <2> QED
    BY <2>1, <2>2, ListenAssumption DEF ListenTypeOK, Sub
<1>2. e \in Event
  BY <1>1, HeadTailProperties
<1>3. pipes \in [Target -> Seq(Event)] /\ \A u \in Target : pipes[u] = sub[c][u].pipe
  BY <1>1 DEF Pipes
<1>4. /\ rest \in Seq(Seq(Event)) /\ \A j \in DOMAIN rest : Len(rest[j]) <= Capacity
      /\ \A d : Held(left[c], d) => Held(rest, d) \/ e.doc = d
  BY <1>1, ShortenedChannel
<1>5. Move(c, e, FALSE, pipes, rest)
  BY DEF ForwardLeft
<1> HIDE DEF e, pipes, rest
<1>6. Moved(c, e, pipes, rest) /\ (Late(e, FALSE, pipes, rest) => Doubted(c, e))
  BY <1>2, <1>3, <1>4, <1>5, MoveIs
<1>7. Loses(c, e, pipes, rest)
  BY <1>1, <1>3, <1>4 DEF Loses
<1>8. Cleared(pipes, rest, e.doc) /\ e.ver # docs[e.doc] => Late(e, FALSE, pipes, rest)
  BY DEF Cleared, Held, Late
<1>9. Moving(c, e, pipes, rest)
  BY <1>6, <1>7, <1>8 DEF Moving
<1> QED
  BY <1>9

(* Forward and ForwardLeft: the goroutine of a target, and of an earlier use
   of an id. *)
Moves(c) == (\E t \in Target : Forward(c, t)) \/ (\E i \in 1..MaxOpens : ForwardLeft(c, i))

LEMMA MovesIs ==
    ASSUME ListenTypeOK, NEW c \in Client, Moves(c)
    PROVE  /\ \E e, pipes, rest : Moving(c, e, pipes, rest)
           /\ UNCHANGED vars /\ UNCHANGED <<watchers, stream, opens, contested>>
<1>1. \E e, pipes, rest : Moving(c, e, pipes, rest)
  BY ForwardMoves, ForwardLeftMoves DEF Moves
<1>2. UNCHANGED vars /\ UNCHANGED <<watchers, stream, opens, contested>>
  BY DEF Moves, Forward, ForwardLeft, Move
<1> QED
  BY <1>1, <1>2

(* An event is sent. *)
Delivered(c) ==
    LET e == Head(events[c])
    IN  /\ e \in Event /\ events[c] # <<>> /\ stream[c].pc = "open"
        /\ events' \in [Client -> Seq(Event)]
        /\ events'[c] = Tail(events[c]) /\ Len(events'[c]) <= Merged
        /\ \A b \in Client : b # c => events'[b] = events[b]
        /\ sub' \in [Client -> [Target -> Sub]]
        /\ \A u \in Target :
             /\ ToldOnly(sub[c][u], sub'[c][u])
             /\ sub[c][u].active => \A d \in Doc :
                    sub'[c][u].view[d] = IF d = e.doc THEN e.ver ELSE sub[c][u].view[d]
        /\ \A b \in Client : b # c => sub'[b] = sub[b]

LEMMA DeliverIs ==
    ASSUME ListenTypeOK, NEW c \in Client, Deliver(c)
    PROVE  Delivered(c)
<1> DEFINE e == Head(events[c])
           v(u) == [sub[c][u].view EXCEPT ![e.doc] = e.ver]
           S(u) == IF sub[c][u].active THEN [sub[c][u] EXCEPT !.view = v(u)] ELSE sub[c][u]
<1>1. /\ sub \in [Client -> [Target -> Sub]] /\ \A u \in Target : sub[c][u] \in Sub
      /\ events \in [Client -> Seq(Event)] /\ events[c] \in Seq(Event)
      /\ events[c] # <<>> /\ Len(events[c]) <= Merged /\ stream[c].pc = "open"
  BY DEF ListenTypeOK, Deliver
<1>2. e \in Event /\ Tail(events[c]) \in Seq(Event) /\ Len(Tail(events[c])) <= Merged
  BY <1>1, ListenAssumption
<1>3. e.doc \in Doc /\ e.ver \in Version
  BY <1>2 DEF Event
<1>4. /\ events' = [events EXCEPT ![c] = Tail(events[c])]
      /\ sub' = [sub EXCEPT ![c] = [u \in Target |-> S(u)]]
  BY DEF Deliver
<1> HIDE DEF e
<1>5. ASSUME NEW u \in Target
      PROVE  /\ S(u) \in Sub /\ ToldOnly(sub[c][u], S(u))
             /\ sub[c][u].active => \A d \in Doc :
                    S(u).view[d] = IF d = e.doc THEN e.ver ELSE sub[c][u].view[d]
  <2>1. sub[c][u].view \in [Doc -> Version]
    BY <1>1 DEF Sub
  <2>2. v(u) \in [Doc -> Version] /\ \A d \in Doc : v(u)[d] = IF d = e.doc THEN e.ver ELSE sub[c][u].view[d]
    BY <1>3, <2>1
  <2> HIDE DEF v
  <2> QED
    BY <1>1, <2>2 DEF Sub, ToldOnly
<1> HIDE DEF S
<1>6. /\ sub' \in [Client -> [Target -> Sub]]
      /\ \A u \in Target : sub'[c][u] = S(u)
      /\ \A b \in Client : b # c => sub'[b] = sub[b]
  <2> HIDE DEF Sub
  <2> QED
    BY <1>1, <1>4, <1>5
<1>7. /\ events' \in [Client -> Seq(Event)] /\ events'[c] = Tail(events[c])
      /\ \A b \in Client : b # c => events'[b] = events[b]
  <2> DEFINE a == Tail(events[c])
  <2>1. a \in Seq(Event) /\ events' = [events EXCEPT ![c] = a]
    BY <1>2, <1>4
  <2> HIDE DEF a
  <2>2. /\ events' \in [Client -> Seq(Event)] /\ events'[c] = a
        /\ \A b \in Client : b # c => events'[b] = events[b]
    BY <1>1, <2>1
  <2> QED
    BY <2>2 DEF a
<1> QED
  BY <1>1, <1>2, <1>5, <1>6, <1>7 DEF e, Delivered

(* A target is removed, by its client or with its stream. *)
Removed(c, t) ==
    /\ watchers' \in [Target -> Watcher] /\ watchers'[t].client = NoClient
    /\ \A u \in Target : u # t => watchers'[u] = watchers[u]
    /\ stream' = stream /\ events' = events /\ Open(c)
    /\ sub' \in [Client -> [Target -> Sub]]
    /\ ~sub'[c][t].active
    /\ sub'[c][t].filter = sub[c][t].filter /\ sub'[c][t].pipe = sub[c][t].pipe
    /\ sub'[c][t].fresh = sub[c][t].fresh /\ sub'[c][t].view = sub[c][t].view
    /\ \A b \in Client, u \in Target : b # c \/ u # t => sub'[b][u] = sub[b][u]

LEMMA RemoveIs ==
    ASSUME ListenTypeOK, NEW c \in Client, NEW t \in Target, RemoveTarget(c, t) \/ CloseTarget(c, t)
    PROVE  Removed(c, t)
<1> DEFINE s == [sub[c][t] EXCEPT !.active = FALSE]
<1>1. /\ sub \in [Client -> [Target -> Sub]] /\ sub[c][t] \in Sub
      /\ watchers \in [Target -> Watcher]
  BY DEF ListenTypeOK
<1>2. /\ s \in Sub /\ ~s.active /\ s.filter = sub[c][t].filter /\ s.pipe = sub[c][t].pipe
      /\ s.fresh = sub[c][t].fresh /\ s.view = sub[c][t].view
  BY <1>1 DEF Sub
<1>3. /\ sub' = [sub EXCEPT ![c][t] = s] /\ watchers' = [watchers EXCEPT ![t] = NoWatcher]
      /\ stream' = stream /\ events' = events /\ Open(c)
  BY DEF RemoveTarget, CloseTarget, Unregister, Open
<1> HIDE DEF s
<1>4. /\ sub' \in [Client -> [Target -> Sub]] /\ sub'[c][t] = s
      /\ \A b \in Client, u \in Target : b # c \/ u # t => sub'[b][u] = sub[b][u]
  BY <1>1, <1>2, <1>3, SubBecomes
<1>5. NoWatcher \in Watcher /\ NoWatcher.client = NoClient
  BY DEF NoWatcher, Watcher
<1> QED
  BY <1>1, <1>2, <1>3, <1>4, <1>5 DEF Removed

(* A stream ends. *)
Closed(c) ==
    /\ stream' \in [Client -> Stream] /\ stream'[c].pc = "closed"
    /\ \A b \in Client : b # c =>
         /\ stream'[b] = stream[b] /\ sub'[b] = sub[b]
         /\ events'[b] = events[b] /\ left'[b] = left[b]
    /\ events' \in [Client -> Seq(Event)] /\ events'[c] = <<>>
    /\ left' \in [Client -> Seq(Seq(Event))] /\ left'[c] = <<>>
    /\ sub' \in [Client -> [Target -> Sub]]
    /\ \A u \in Target : ~sub[c][u].active /\ ~sub'[c][u].active /\ sub'[c][u].pipe = <<>>

LEMMA CloseStreamIs ==
    ASSUME ListenTypeOK, NEW c \in Client, CloseStream(c)
    PROVE  Closed(c)
<1> DEFINE S(u) == [sub[c][u] EXCEPT !.pipe = <<>>]
<1>1. /\ sub \in [Client -> [Target -> Sub]] /\ \A u \in Target : sub[c][u] \in Sub
      /\ events \in [Client -> Seq(Event)]
  BY DEF ListenTypeOK
<1>2. ASSUME NEW u \in Target
      PROVE  S(u) \in Sub /\ S(u).pipe = <<>> /\ S(u).active = sub[c][u].active
  <2>1. <<>> \in Seq(Event)
    OBVIOUS
  <2> QED
    BY <1>1, <2>1 DEF Sub
<1>3. /\ stream' = [stream EXCEPT ![c] = NoStream] /\ events' = [events EXCEPT ![c] = <<>>]
      /\ sub' = [sub EXCEPT ![c] = [u \in Target |-> S(u)]]
      /\ \A u \in Target : ~sub[c][u].active
  BY DEF CloseStream, Active
<1>4. NoStream \in Stream /\ NoStream.pc = "closed"
  BY DEF NoStream, Stream
<1> HIDE DEF S
<1>5. /\ sub' \in [Client -> [Target -> Sub]]
      /\ \A u \in Target : sub'[c][u] = S(u)
      /\ \A b \in Client : b # c => sub'[b] = sub[b]
  <2> HIDE DEF Sub
  <2> QED
    BY <1>1, <1>2, <1>3
<1>6. /\ events' \in [Client -> Seq(Event)] /\ events'[c] = <<>>
      /\ \A b \in Client : b # c => events'[b] = events[b]
  BY <1>1, <1>3
<1>7. /\ left' \in [Client -> Seq(Seq(Event))] /\ left'[c] = <<>>
      /\ \A b \in Client : b # c => left'[b] = left[b]
  <2>1. left \in [Client -> Seq(Seq(Event))] /\ <<>> \in Seq(Seq(Event))
    BY DEF ListenTypeOK
  <2> QED
    BY <2>1, LeftBecomes DEF CloseStream
<1> QED
  BY <1>2, <1>3, <1>4, <1>5, <1>6, <1>7, StreamBecomes DEF Closed

(* The channels when a change is announced. *)
Notified(w) ==
    LET e == EventOf(w)
    IN  /\ e \in Event
        /\ sub' \in [Client -> [Target -> Sub]]
        /\ \A c \in Client, t \in Target : Len(sub'[c][t].pipe) <= Capacity
        /\ \A c \in Client, t \in Target :
             sub'[c][t] = IF watchers[t].client = c /\ e.doc \in watchers[t].filter
                          THEN Offered(sub[c][t], e) ELSE sub[c][t]

LEMMA NotifyIs ==
    ASSUME TypeOK, ListenTypeOK, NEW w \in Writer, Notify(w)
    PROVE  Notified(w)
<1> DEFINE e == EventOf(w)
           S(c, t) == IF watchers[t].client = c /\ e.doc \in watchers[t].filter
                      THEN Offered(sub[c][t], e) ELSE sub[c][t]
<1>1. e \in Event /\ e.doc = writer[w].doc
  BY AppendIs DEF Notify, EventOf
<1>2. sub' = [c \in Client |-> [t \in Target |-> S(c, t)]]
  BY <1>1 DEF Notify
<1>3. ASSUME NEW c \in Client, NEW t \in Target
      PROVE  S(c, t) \in Sub /\ Len(S(c, t).pipe) <= Capacity
  <2>1. sub[c][t] \in Sub /\ Len(sub[c][t].pipe) <= Capacity
    BY DEF ListenTypeOK
  <2>2. Offered(sub[c][t], e) \in Sub /\ Len(Offered(sub[c][t], e).pipe) <= Capacity
    BY <1>1, <2>1, OfferedIs
  <2> QED
    BY <2>1, <2>2
<1> HIDE DEF S
<1>4. \A c \in Client, t \in Target : sub'[c][t] = S(c, t)
  BY <1>2
<1>5. sub' \in [Client -> [Target -> Sub]]
  <2> HIDE DEF Sub
  <2> QED
    BY <1>2, <1>3
<1> QED
  BY <1>1, <1>3, <1>4, <1>5 DEF S, Notified

(* The listeners of a process that has exited. *)
Emptied ==
    /\ ~up' /\ docs' = NoDocs /\ contested' = {} /\ opens' = opens
    /\ watchers' \in [Target -> Watcher] /\ stream' \in [Client -> Stream]
    /\ events' \in [Client -> Seq(Event)] /\ sub' \in [Client -> [Target -> Sub]]
    /\ left' \in [Client -> Seq(Seq(Event))]
    /\ \A t \in Target : watchers'[t].client = NoClient
    /\ \A c \in Client : stream'[c].pc = "closed" /\ events'[c] = <<>> /\ left'[c] = <<>>
    /\ \A c \in Client, t \in Target : ~sub'[c][t].active /\ sub'[c][t].pipe = <<>>

LEMMA ExitAllIs ==
    ASSUME ListenTypeOK, ExitAll
    PROVE  Emptied
<1> DEFINE S(c, t) == [sub[c][t] EXCEPT !.active = FALSE, !.pipe = <<>>]
<1>1. ASSUME NEW c \in Client, NEW t \in Target
      PROVE  S(c, t) \in Sub /\ ~S(c, t).active /\ S(c, t).pipe = <<>>
  <2>1. sub[c][t] \in Sub /\ <<>> \in Seq(Event)
    BY DEF ListenTypeOK
  <2> QED
    BY <2>1 DEF Sub
<1>2. /\ NoWatcher \in Watcher /\ NoWatcher.client = NoClient
      /\ NoStream \in Stream /\ NoStream.pc = "closed"
  BY DEF NoWatcher, Watcher, NoStream, Stream
<1>3. sub' = [c \in Client |-> [t \in Target |-> S(c, t)]]
  BY DEF ExitAll
<1> HIDE DEF S
<1>4. /\ sub' \in [Client -> [Target -> Sub]]
      /\ \A c \in Client, t \in Target : sub'[c][t] = S(c, t)
  <2> HIDE DEF Sub
  <2> QED
    BY <1>1, <1>3
<1>5. watchers' \in [Target -> Watcher] /\ \A t \in Target : watchers'[t].client = NoClient
  BY <1>2 DEF ExitAll
<1>6. stream' \in [Client -> Stream] /\ \A c \in Client : stream'[c].pc = "closed"
  BY <1>2 DEF ExitAll
<1>7. /\ events' \in [Client -> Seq(Event)] /\ left' \in [Client -> Seq(Seq(Event))]
      /\ \A c \in Client : events'[c] = <<>> /\ left'[c] = <<>>
  <2>1. <<>> \in Seq(Event) /\ <<>> \in Seq(Seq(Event))
    OBVIOUS
  <2>2. \A T : <<>> \in T => [c \in Client |-> <<>>] \in [Client -> T]
    OBVIOUS
  <2>3. events' = [c \in Client |-> <<>>] /\ left' = [c \in Client |-> <<>>]
    BY DEF ExitAll
  <2> QED
    BY <2>1, <2>2, <2>3
<1>8. ~up' /\ docs' = NoDocs /\ contested' = {} /\ opens' = opens
  BY DEF ExitAll, Exit
<1> QED
  BY <1>1, <1>4, <1>5, <1>6, <1>7, <1>8 DEF Emptied

-----------------------------------------------------------------------------
(* Types.                                                                  *)

LEMMA ListenTypeInit == ListenInit => ListenTypeOK
<1> SUFFICES ASSUME ListenInit PROVE ListenTypeOK
  OBVIOUS
<1>1. NoWatcher \in Watcher /\ NoStream \in Stream /\ NoStream.pc = "closed"
  BY DEF NoWatcher, Watcher, NoStream, Stream
<1>2. NoSub \in Sub /\ NoSub.pipe = <<>>
  <2>1. <<>> \in Seq(Event) /\ NoDocs \in [Doc -> Version]
    BY DEF NoDocs, Version, Absent
  <2> QED
    BY <2>1 DEF NoSub, Sub
<1>3. sub \in [Client -> [Target -> Sub]] /\ \A c \in Client, t \in Target : sub[c][t] = NoSub
  <2> HIDE DEF Sub
  <2> QED
    BY <1>2 DEF ListenInit
<1>4. /\ events \in [Client -> Seq(Event)] /\ left \in [Client -> Seq(Seq(Event))]
      /\ \A c \in Client : events[c] = <<>> /\ left[c] = <<>>
  <2>1. <<>> \in Seq(Event) /\ <<>> \in Seq(Seq(Event))
    OBVIOUS
  <2>2. \A S : <<>> \in S => [c \in Client |-> <<>>] \in [Client -> S]
    OBVIOUS
  <2> QED
    BY <2>1, <2>2 DEF ListenInit
<1>5. Len(<<>>) = 0 /\ DOMAIN <<>> = {}
  OBVIOUS
<1> QED
  BY <1>1, <1>2, <1>3, <1>4, <1>5, ListenAssumption DEF ListenInit, ListenTypeOK

(* Every step keeps every variable of the listeners of its type, and no
   channel gets more than it can hold. *)
LEMMA ListenTypeStep == TypeOK /\ ListenTypeOK /\ [ListenNext]_allVars => ListenTypeOK'
<1> SUFFICES ASSUME TypeOK, ListenTypeOK, [ListenNext]_allVars PROVE ListenTypeOK'
  OBVIOUS
<1>1. ASSUME NEW c \in Client, NEW t \in Target, NEW f \in SUBSET Doc,
             NEW after \in Nat \cup {NoToken}, AddTarget(c, t, f, after)
      PROVE  ListenTypeOK'
  <2>1. opens' \in 0..MaxOpens /\ events' = events /\ contested' = contested
    BY <1>1, ListenAssumption DEF AddTarget, ListenTypeOK
  <2>2. Added(c, t, f, after)
    BY <1>1, AddIs
  <2>3. Len(sub'[c][t].pipe) <= Capacity
    BY <2>2, ListenAssumption DEF Added
  <2>4. /\ watchers' \in [Target -> Watcher] /\ stream' \in [Client -> Stream]
        /\ sub' \in [Client -> [Target -> Sub]] /\ events' \in [Client -> Seq(Event)]
        /\ contested' \in SUBSET Doc
    BY <2>1, <2>2 DEF Added, ListenTypeOK
  <2>5. \A b \in Client :
        /\ stream'[b].pc \in {"resume", "snapshot", "current"} => stream'[b].target \in Target
        /\ stream'[b].pc = "resume" => stream'[b].after # NoToken
    <3>1. /\ stream'[c].target = t /\ (stream'[c].pc = "resume" => stream'[c].after # NoToken)
          /\ \A b \in Client : b # c => stream'[b] = stream[b]
      BY <2>2 DEF Added
    <3> QED
      BY <3>1 DEF ListenTypeOK
  <2>6. \A b \in Client : Len(events'[b]) <= Merged /\ \A u \in Target : Len(sub'[b][u].pipe) <= Capacity
    <3>1. \A b \in Client : Len(events[b]) <= Merged /\ \A u \in Target : Len(sub[b][u].pipe) <= Capacity
      BY DEF ListenTypeOK
    <3>2. \A b \in Client, u \in Target : b # c \/ u # t => sub'[b][u] = sub[b][u]
      BY <2>2 DEF Added
    <3> QED
      BY <2>1, <2>3, <3>1, <3>2
  <2>7. /\ left' \in [Client -> Seq(Seq(Event))]
        /\ \A b \in Client : \A i \in DOMAIN left'[b] : Len(left'[b][i]) <= Capacity
    BY <1>1, AddLeaves
  <2> QED
    BY <2>1, <2>4, <2>5, <2>6, <2>7 DEF ListenTypeOK
<1>2. ASSUME NEW c \in Client, NEW t \in Target, AddAgain(c, t) PROVE ListenTypeOK'
  <2> DEFINE f == sub[c][t].filter
             after == sub[c][t].token
  <2>1. sub[c][t] \in Sub
    BY DEF ListenTypeOK
  <2>2. f \in SUBSET Doc /\ after \in Nat \cup {NoToken}
    BY <2>1 DEF Sub
  <2>3. AddTarget(c, t, f, after)
    BY <1>2 DEF AddAgain
  <2> QED
    BY <1>1, <2>2, <2>3
<1>3. ASSUME NEW c \in Client, NEW t \in Target, NEW f \in Filter, AddFresh(c, t, f)
      PROVE  ListenTypeOK'
  BY <1>1, <1>3, ListenAssumption DEF AddFresh
<1>4. ASSUME NEW c \in Client, Answers(c) PROVE ListenTypeOK'
  <2>1. UNCHANGED <<watchers, events, left, opens, contested>>
    BY <1>4 DEF Answers, Resume, Fallback, Snapshot, Current
  <2>2. Answered(c)
    BY <1>4, AnswerIs
  <2>3. \A b \in Client, u \in Target : sub'[b][u].pipe = sub[b][u].pipe
    BY <2>2 DEF Answered, ToldOnly
  <2>4. stream'[c].pc # "resume" /\ stream'[c].pc \in {"snapshot", "current"} => stream'[c].target \in Target
    BY <2>2 DEF Answered
  <2> QED
    BY <2>1, <2>2, <2>3, <2>4 DEF Answered, ListenTypeOK
<1>5. ASSUME NEW c \in Client, Moves(c) PROVE ListenTypeOK'
  <2>1. UNCHANGED <<watchers, stream, opens, contested>>
    BY <1>5, MovesIs
  <2>2. PICK e, pipes, rest : Moving(c, e, pipes, rest)
    BY <1>5, MovesIs
  <2>3. ASSUME NEW b \in Client
        PROVE  /\ Len(events'[b]) <= Merged
               /\ \A u \in Target : Len(sub'[b][u].pipe) <= Capacity
               /\ \A i \in DOMAIN left'[b] : Len(left'[b][i]) <= Capacity
    <3>1. /\ Len(events[b]) <= Merged
          /\ \A u \in Target : Len(sub[b][u].pipe) <= Capacity
          /\ \A i \in DOMAIN left[b] : Len(left[b][i]) <= Capacity
      BY DEF ListenTypeOK
    <3>2. CASE b = c
      BY <2>2, <3>2 DEF Moving, Moved, Loses
    <3>3. CASE b # c
      BY <2>2, <3>1, <3>3 DEF Moving, Moved
    <3> QED
      BY <3>2, <3>3
  <2> QED
    BY <2>1, <2>2, <2>3 DEF Moving, Moved, ListenTypeOK
<1>6. ASSUME NEW c \in Client, Deliver(c) PROVE ListenTypeOK'
  <2>1. UNCHANGED <<watchers, stream, left, opens, contested>>
    BY <1>6 DEF Deliver
  <2>2. Delivered(c)
    BY <1>6, DeliverIs
  <2>3. \A b \in Client, u \in Target : sub'[b][u].pipe = sub[b][u].pipe
    BY <2>2 DEF Delivered, ToldOnly
  <2> QED
    BY <2>1, <2>2, <2>3 DEF Delivered, ListenTypeOK
<1>7. ASSUME NEW c \in Client, NEW t \in Target, RemoveTarget(c, t) \/ CloseTarget(c, t)
      PROVE  ListenTypeOK'
  <2>1. UNCHANGED <<left, opens, contested>>
    BY <1>7 DEF RemoveTarget, CloseTarget
  <2>2. Removed(c, t)
    BY <1>7, RemoveIs
  <2>3. \A b \in Client, u \in Target : sub'[b][u].pipe = sub[b][u].pipe
    BY <2>2 DEF Removed
  <2> QED
    BY <2>1, <2>2, <2>3 DEF Removed, ListenTypeOK
<1>8. ASSUME NEW c \in Client, Disconnect(c) PROVE ListenTypeOK'
  <2> DEFINE h == [NoStream EXCEPT !.pc = "closing"]
  <2>1. h \in Stream /\ h.pc = "closing"
    BY DEF NoStream, Stream
  <2>2. stream' = [stream EXCEPT ![c] = h] /\ UNCHANGED <<watchers, events, sub, left, opens, contested>>
    BY <1>8 DEF Disconnect
  <2> HIDE DEF h
  <2> QED
    BY <2>1, <2>2, StreamBecomes DEF ListenTypeOK
<1>9. ASSUME NEW c \in Client, CloseStream(c) PROVE ListenTypeOK'
  <2>1. UNCHANGED <<watchers, opens, contested>>
    BY <1>9 DEF CloseStream
  <2>2. Closed(c)
    BY <1>9, CloseStreamIs
  <2>3. \A b \in Client :
        /\ Len(events'[b]) <= Merged
        /\ \A u \in Target : Len(sub'[b][u].pipe) <= Capacity
        /\ \A i \in DOMAIN left'[b] : Len(left'[b][i]) <= Capacity
    <3>1. /\ Len(events'[c]) <= Merged /\ \A u \in Target : Len(sub'[c][u].pipe) <= Capacity
          /\ DOMAIN left'[c] = {}
      BY <2>2, ListenAssumption DEF Closed
    <3> QED
      BY <2>2, <3>1 DEF Closed, ListenTypeOK
  <2> QED
    BY <2>1, <2>2, <2>3 DEF Closed, ListenTypeOK
<1>10. ASSUME NEW w \in Writer, Notify(w) PROVE ListenTypeOK'
  <2>1. UNCHANGED <<watchers, stream, events, left, opens, contested>>
    BY <1>10 DEF Notify
  <2>2. Notified(w)
    BY <1>10, NotifyIs
  <2> QED
    BY <2>1, <2>2 DEF Notified, ListenTypeOK
<1>11. ASSUME NEW w \in Writer, ApplyMarked(w) PROVE ListenTypeOK'
  <2>1. Head(writer[w].todo).doc \in Doc
    BY <1>11, HandlersSound, NextWrite DEF ApplyMarked, Apply, Write
  <2>2. contested' \in SUBSET Doc /\ UNCHANGED <<watchers, stream, events, sub, left, opens>>
    BY <1>11, <2>1 DEF ApplyMarked, ListenTypeOK
  <2> QED
    BY <2>2 DEF ListenTypeOK
<1>12. ASSUME ExitAll PROVE ListenTypeOK'
  <2>1. Emptied
    BY <1>12, ExitAllIs
  <2>2. \A c \in Client :
        /\ Len(events'[c]) <= Merged /\ DOMAIN left'[c] = {}
        /\ \A t \in Target : Len(sub'[c][t].pipe) <= Capacity
    BY <2>1, ListenAssumption DEF Emptied
  <2> QED
    BY <2>1, <2>2 DEF Emptied, ListenTypeOK
<1>13. ASSUME UNCHANGED listenVars PROVE ListenTypeOK'
  BY <1>13 DEF listenVars, ListenTypeOK
<1>14. CASE UNCHANGED allVars
  BY <1>13, <1>14 DEF allVars
<1> QED
  BY <1>2, <1>3, <1>4, <1>5, <1>6, <1>7, <1>8, <1>9, <1>10, <1>11, <1>12, <1>13, <1>14
     DEF ListenNext, WriterStep, Closes, Moves

(* ListenTypeOK: the listeners' variables keep their types, and no channel
   ever holds more events than it was made for. *)
THEOREM ListenTypeCorrect == ListenSpec => []ListenTypeOK
<1>1. ListenInit => ListenTypeOK
  BY ListenTypeInit
<1>2. TypeOK /\ ListenTypeOK /\ [ListenNext]_allVars => ListenTypeOK'
  BY ListenTypeStep
<1> QED
  BY <1>1, <1>2, ListenersKeepTheStore, StoreTypeCorrect, PTL DEF ListenSpec

-----------------------------------------------------------------------------
(* The invariant.                                                          *)

(* A change is under way until its handler has announced it.               *)
UnderWay(w) == Saving(w) \/ Notifying(w)
InFlightOn(d) == {w \in Writer : UnderWay(w) /\ writer[w].doc = d}

(* A watcher is its stream's, and asks for what the target asks for.       *)
WatchersOwned ==
    \A t \in Target : LET c == watchers[t].client
                      IN  c # NoClient => /\ Open(c) /\ sub[c][t].active
                                          /\ watchers[t].filter = sub[c][t].filter

ClosedIsEmpty ==
    /\ ~up => \A c \in Client : ~Open(c)
    /\ \A c \in Client : ~Open(c) =>
        /\ events[c] = <<>>
        /\ \A t \in Target : ~sub[c][t].active /\ sub[c][t].pipe = <<>>

(* A resumed target is not fresh, and the snapshot of a fresh one goes to  *)
(* a client that knows of nothing.                                         *)
AnswersSound ==
    \A c \in Client :
        /\ stream[c].pc = "resume" => ~sub[c][stream[c].target].fresh
        /\ stream[c].pc = "snapshot" /\ sub[c][stream[c].target].fresh
            => sub[c][stream[c].target].view = NoDocs

PipesFiltered ==
    \A c \in Client, t \in Target, d \in Doc : Mentions(sub[c][t].pipe, d) => d \in sub[c][t].filter

(* Of a document that is not contested at most one change is under way,    *)
(* and it is the last.                                                     *)
OneInFlight ==
    \A d \in Doc \ contested : \A w, x \in InFlightOn(d) : w = x /\ writer[w].ver = docs[d]

(* Every change of the document has been announced to the target, and none *)
(* was lost.                                                               *)
Settled(c, t, d) ==
    /\ Registered(c, t)
    /\ d \in sub[c][t].filter \ (contested \cup sub[c][t].doubtful)
    /\ InFlightOn(d) = {}

(* Then the target's own channel ends with the document as it is.          *)
PipeCurrent(c, t, d) == Settled(c, t, d) => LastIs(sub[c][t].pipe, d, docs[d])

(* The listener has not been sent its snapshot yet, or never will be.      *)
Untold(c, t) ==
    stream[c].pc = "closing" \/ (stream[c].pc = "snapshot" /\ stream[c].target = t)

(* And once no channel, of a target or of an earlier use of an id, has an  *)
(* event of it, so does the stream's, or else the client knows it.         *)
Silent(c, d) == (\A u \in Target : ~Mentions(sub[c][u].pipe, d)) /\ ~Held(left[c], d)
Informed(c, t, d) ==
    Settled(c, t, d) /\ sub[c][t].fresh /\ Silent(c, d)
    => /\ LastIs(events[c], d, docs[d])
       /\ Mentions(events[c], d) \/ Untold(c, t) \/ sub[c][t].view[d] = docs[d]

TellsTruth == \A c \in Client, t \in Target, d \in Doc : PipeCurrent(c, t, d) /\ Informed(c, t, d)

ShapeInv == WatchersOwned /\ ClosedIsEmpty /\ AnswersSound /\ PipesFiltered
ListenIInv == ShapeInv /\ OneInFlight /\ TellsTruth

-----------------------------------------------------------------------------
(* The listeners' shape.                                                   *)

LEMMA ShapeInit == ListenInit => ShapeInv
<1> SUFFICES ASSUME ListenInit PROVE ShapeInv
  OBVIOUS
<1>1. /\ \A t \in Target : watchers[t].client = NoClient
      /\ \A c \in Client : stream[c].pc = "closed" /\ events[c] = <<>>
      /\ \A c \in Client, t \in Target : ~sub[c][t].active /\ sub[c][t].pipe = <<>>
      /\ up
  BY DEF ListenInit, Init, NoWatcher, NoStream, NoSub
<1>2. WatchersOwned
  BY <1>1 DEF WatchersOwned
<1>3. ClosedIsEmpty
  BY <1>1 DEF ClosedIsEmpty
<1>4. AnswersSound
  BY <1>1 DEF AnswersSound
<1>5. PipesFiltered
  BY <1>1, EmptyEvents DEF PipesFiltered
<1> QED
  BY <1>2, <1>3, <1>4, <1>5 DEF ShapeInv

LEMMA OwnersTyped ==
    ASSUME ListenTypeOK, NEW t \in Target
    PROVE  watchers[t].client \in Client \cup {NoClient}
<1>1. watchers[t] \in Watcher
  BY DEF ListenTypeOK
<1> QED
  BY <1>1 DEF Watcher

LEMMA AnswersTyped ==
    ASSUME ListenTypeOK, NEW b \in Client, stream[b].pc \in {"resume", "snapshot", "current"}
    PROVE  stream[b].target \in Target
  BY DEF ListenTypeOK

(* The answer of a stream that a step does not touch stays sound. *)
LEMMA AnswersKept ==
    ASSUME ListenTypeOK, ShapeInv, NEW b \in Client, stream'[b] = stream[b],
           \A u \in Target : sub'[b][u] = sub[b][u]
    PROVE  /\ stream'[b].pc = "resume" => ~sub'[b][stream'[b].target].fresh
           /\ stream'[b].pc = "snapshot" /\ sub'[b][stream'[b].target].fresh
               => sub'[b][stream'[b].target].view = NoDocs
<1> DEFINE u == stream[b].target
<1>1. /\ stream[b].pc = "resume" => ~sub[b][u].fresh
      /\ stream[b].pc = "snapshot" /\ sub[b][u].fresh => sub[b][u].view = NoDocs
  BY DEF ShapeInv, AnswersSound
<1>2. stream[b].pc \in {"resume", "snapshot"} => u \in Target
  BY AnswersTyped
<1> HIDE DEF u
<1>3. stream[b].pc \in {"resume", "snapshot"} => sub'[b][u] = sub[b][u]
  BY <1>2
<1> QED
  BY <1>1, <1>3 DEF u

LEMMA ShapeAdd ==
    ASSUME ListenTypeOK, ShapeInv, NEW c \in Client, NEW t \in Target, NEW f \in SUBSET Doc,
           NEW after \in Nat \cup {NoToken}, AddTarget(c, t, f, after)
    PROVE  ShapeInv'
<1>1. Added(c, t, f, after)
  BY AddIs
<1>2. up /\ up' = up /\ events' = events
  BY DEF AddTarget, vars, process
<1>3. /\ stream'[c].pc \in {"resume", "snapshot"} /\ stream'[c].target = t
      /\ \A b \in Client : b # c => stream'[b] = stream[b]
  BY <1>1 DEF Added
<1>4. /\ watchers'[t].client = c /\ watchers'[t].filter = f
      /\ \A u \in Target : u # t => watchers'[u] = watchers[u]
  BY <1>1 DEF Added
<1>5. /\ sub'[c][t].active /\ sub'[c][t].filter = f /\ sub'[c][t].pipe = <<>>
      /\ \A b \in Client, u \in Target : b # c \/ u # t => sub'[b][u] = sub[b][u]
  BY <1>1 DEF Added
<1>6. /\ stream'[c].pc = "resume" => ~sub'[c][t].fresh
      /\ sub'[c][t].fresh => sub'[c][t].view = NoDocs
  <2>1. /\ sub'[c][t].fresh = (after = NoToken)
        /\ after = NoToken => sub'[c][t].view = NoDocs
        /\ stream'[c].pc = IF after > 0 THEN "resume" ELSE "snapshot"
    BY <1>1 DEF Added
  <2>2. after = NoToken => ~(after > 0)
    BY DEF NoToken
  <2> QED
    BY <2>1, <2>2
<1>7. WatchersOwned'
  <2> SUFFICES ASSUME NEW u \in Target, watchers'[u].client # NoClient
               PROVE  /\ stream'[watchers'[u].client].pc # "closed"
                      /\ sub'[watchers'[u].client][u].active
                      /\ watchers'[u].filter = sub'[watchers'[u].client][u].filter
    BY DEF WatchersOwned, Open
  <2>1. CASE u = t
    BY <1>3, <1>4, <1>5, <2>1
  <2>2. CASE u # t
    <3> DEFINE b == watchers[u].client
    <3>1. b \in Client /\ watchers'[u] = watchers[u] /\ b # NoClient
      BY <1>4, <2>2, OwnersTyped
    <3>2. /\ stream[b].pc # "closed" /\ sub[b][u].active /\ watchers[u].filter = sub[b][u].filter
      BY <3>1 DEF ShapeInv, WatchersOwned, Open
    <3> HIDE DEF b
    <3>3. stream'[b].pc # "closed" /\ sub'[b][u] = sub[b][u]
      BY <1>3, <1>5, <2>2, <3>1, <3>2
    <3> QED
      BY <3>1, <3>2, <3>3 DEF b
  <2> QED
    BY <2>1, <2>2
<1>8. ClosedIsEmpty'
  <2> SUFFICES ASSUME NEW b \in Client, stream'[b].pc = "closed"
               PROVE  events'[b] = <<>> /\ \A u \in Target : ~sub'[b][u].active /\ sub'[b][u].pipe = <<>>
    BY <1>2 DEF ClosedIsEmpty, Open
  <2>1. b # c /\ stream[b].pc = "closed"
    BY <1>3
  <2>2. events[b] = <<>> /\ \A u \in Target : ~sub[b][u].active /\ sub[b][u].pipe = <<>>
    BY <2>1 DEF ShapeInv, ClosedIsEmpty, Open
  <2> QED
    BY <1>2, <1>5, <2>1, <2>2
<1>9. AnswersSound'
  <2> SUFFICES ASSUME NEW b \in Client
               PROVE  /\ stream'[b].pc = "resume" => ~sub'[b][stream'[b].target].fresh
                      /\ stream'[b].pc = "snapshot" /\ sub'[b][stream'[b].target].fresh
                          => sub'[b][stream'[b].target].view = NoDocs
    BY DEF AnswersSound
  <2>1. CASE b = c
    BY <1>3, <1>6, <2>1
  <2>2. CASE b # c
    BY <1>3, <1>5, <2>2, AnswersKept
  <2> QED
    BY <2>1, <2>2
<1>10. PipesFiltered'
  <2> SUFFICES ASSUME NEW b \in Client, NEW u \in Target, NEW d \in Doc, Mentions(sub'[b][u].pipe, d)
               PROVE  d \in sub'[b][u].filter
    BY DEF PipesFiltered
  <2>1. b # c \/ u # t
    BY <1>5, EmptyEvents
  <2> QED
    BY <1>5, <2>1 DEF ShapeInv, PipesFiltered
<1> QED
  BY <1>7, <1>8, <1>9, <1>10 DEF ShapeInv

LEMMA ShapeAnswer ==
    ASSUME TypeOK, ListenTypeOK, ShapeInv, NEW c \in Client, Answers(c)
    PROVE  ShapeInv'
<1>1. Answered(c)
  BY AnswerIs
<1>2. up /\ up' = up /\ events' = events /\ watchers' = watchers
  BY DEF Answers, Resume, Fallback, Snapshot, Current, vars, process
<1>3. /\ Open(c) /\ Open(c)' /\ \A b \in Client : b # c => stream'[b] = stream[b]
      /\ stream'[c].pc # "resume"
  BY <1>1 DEF Answered, Open
<1>4. \A b \in Client, u \in Target :
        /\ sub'[b][u].active = sub[b][u].active /\ sub'[b][u].filter = sub[b][u].filter
        /\ sub'[b][u].pipe = sub[b][u].pipe
        /\ b # c => sub'[b][u] = sub[b][u]
  BY <1>1 DEF Answered, ToldOnly
<1>5. WatchersOwned'
  <2> SUFFICES ASSUME NEW u \in Target, watchers[u].client # NoClient
               PROVE  /\ stream'[watchers[u].client].pc # "closed"
                      /\ sub'[watchers[u].client][u].active
                      /\ watchers[u].filter = sub'[watchers[u].client][u].filter
    BY <1>2 DEF WatchersOwned, Open
  <2> DEFINE b == watchers[u].client
  <2>1. b \in Client /\ stream[b].pc # "closed" /\ sub[b][u].active /\ watchers[u].filter = sub[b][u].filter
    BY OwnersTyped DEF ShapeInv, WatchersOwned, Open
  <2> HIDE DEF b
  <2>2. stream'[b].pc # "closed"
    BY <1>3, <2>1 DEF Open
  <2>3. sub'[b][u].active = sub[b][u].active /\ sub'[b][u].filter = sub[b][u].filter
    BY <1>4, <2>1
  <2> QED
    BY <2>1, <2>2, <2>3 DEF b
<1>6. ClosedIsEmpty'
  <2> SUFFICES ASSUME NEW b \in Client, stream'[b].pc = "closed"
               PROVE  events'[b] = <<>> /\ \A u \in Target : ~sub'[b][u].active /\ sub'[b][u].pipe = <<>>
    BY <1>2 DEF ClosedIsEmpty, Open
  <2>1. stream[b].pc = "closed"
    BY <1>3 DEF Open
  <2>2. events[b] = <<>> /\ \A u \in Target : ~sub[b][u].active /\ sub[b][u].pipe = <<>>
    BY <2>1 DEF ShapeInv, ClosedIsEmpty, Open
  <2> QED
    BY <1>2, <1>4, <2>2
<1>7. AnswersSound'
  <2> SUFFICES ASSUME NEW b \in Client
               PROVE  /\ stream'[b].pc = "resume" => ~sub'[b][stream'[b].target].fresh
                      /\ stream'[b].pc = "snapshot" /\ sub'[b][stream'[b].target].fresh
                          => sub'[b][stream'[b].target].view = NoDocs
    BY DEF AnswersSound
  <2>1. CASE b = c
    <3>1. stream'[c].pc = "snapshot" => ~sub'[c][stream'[c].target].fresh
      BY <1>1 DEF Answered, ShapeInv, AnswersSound
    <3> QED
      BY <1>3, <2>1, <3>1
  <2>2. CASE b # c
    BY <1>3, <1>4, <2>2, AnswersKept
  <2> QED
    BY <2>1, <2>2
<1>8. PipesFiltered'
  <2> SUFFICES ASSUME NEW b \in Client, NEW u \in Target, NEW d \in Doc, Mentions(sub'[b][u].pipe, d)
               PROVE  d \in sub'[b][u].filter
    BY DEF PipesFiltered
  <2>1. Mentions(sub[b][u].pipe, d)
    BY <1>4
  <2> QED
    BY <1>4, <2>1 DEF ShapeInv, PipesFiltered
<1> QED
  BY <1>5, <1>6, <1>7, <1>8 DEF ShapeInv

(* A step that leaves the streams and which targets they have alone. *)
LEMMA ShapeKept ==
    ASSUME ListenTypeOK, ShapeInv, up' = up, stream' = stream,
           \A t \in Target : \/ watchers'[t] = watchers[t]
                             \/ watchers'[t].client = NoClient,
           \A b \in Client : events'[b] = events[b] \/ Open(b),
           \A b \in Client, u \in Target :
               /\ sub'[b][u].active = sub[b][u].active \/ (~sub'[b][u].active /\ watchers'[u].client = NoClient)
               /\ sub'[b][u].filter = sub[b][u].filter /\ sub'[b][u].fresh = sub[b][u].fresh
               /\ sub'[b][u].view = sub[b][u].view \/ stream[b].pc = "open"
               /\ sub'[b][u].pipe = sub[b][u].pipe \/ Open(b)
               /\ \A d \in Doc : Mentions(sub'[b][u].pipe, d) => d \in sub[b][u].filter
    PROVE  ShapeInv'
<1>1. WatchersOwned'
  <2> SUFFICES ASSUME NEW u \in Target, watchers'[u].client # NoClient
               PROVE  /\ Open(watchers[u].client) /\ sub'[watchers[u].client][u].active
                      /\ watchers[u].filter = sub'[watchers[u].client][u].filter
                      /\ watchers'[u] = watchers[u]
    BY DEF WatchersOwned, Open
  <2>1. watchers'[u] = watchers[u] /\ watchers[u].client \in Client
    BY OwnersTyped
  <2>2. /\ Open(watchers[u].client) /\ sub[watchers[u].client][u].active
        /\ watchers[u].filter = sub[watchers[u].client][u].filter
    BY <2>1 DEF ShapeInv, WatchersOwned
  <2> QED
    BY <2>1, <2>2
<1>2. ClosedIsEmpty'
  BY DEF ShapeInv, ClosedIsEmpty, Open
<1>3. AnswersSound'
  BY DEF ShapeInv, AnswersSound, ListenTypeOK
<1>4. PipesFiltered'
  BY DEF PipesFiltered
<1> QED
  BY <1>1, <1>2, <1>3, <1>4 DEF ShapeInv

LEMMA ShapeForward ==
    ASSUME ListenTypeOK, ShapeInv, NEW c \in Client, Moves(c)
    PROVE  ShapeInv'
<1>1. PICK e, pipes, rest : Moving(c, e, pipes, rest)
  BY MovesIs
<1>2. up' = up /\ watchers' = watchers /\ stream' = stream
  BY MovesIs DEF vars, process
<1>3. Open(c) /\ \A b \in Client : b # c => events'[b] = events[b]
  BY <1>1 DEF Moving, Moved
<1>4. ASSUME NEW b \in Client, NEW u \in Target
      PROVE  /\ sub'[b][u].active = sub[b][u].active /\ sub'[b][u].filter = sub[b][u].filter
             /\ sub'[b][u].fresh = sub[b][u].fresh /\ sub'[b][u].view = sub[b][u].view
             /\ b # c => sub'[b][u].pipe = sub[b][u].pipe
             /\ \A d \in Doc : Mentions(sub'[b][u].pipe, d) => Mentions(sub[b][u].pipe, d)
  BY <1>1 DEF Moving, Moved, Loses
<1>5. \A b \in Client, u \in Target, d \in Doc : Mentions(sub'[b][u].pipe, d) => d \in sub[b][u].filter
  BY <1>4 DEF ShapeInv, PipesFiltered
<1> QED
  BY <1>2, <1>3, <1>4, <1>5, ShapeKept

LEMMA ShapeDeliver ==
    ASSUME ListenTypeOK, ShapeInv, NEW c \in Client, Deliver(c)
    PROVE  ShapeInv'
<1>1. Delivered(c)
  BY DeliverIs
<1>2. up' = up /\ watchers' = watchers /\ stream' = stream /\ Open(c) /\ stream[c].pc = "open"
  BY DEF Deliver, vars, process, Open
<1>3. ASSUME NEW b \in Client, NEW u \in Target
      PROVE  /\ sub'[b][u].active = sub[b][u].active /\ sub'[b][u].filter = sub[b][u].filter
             /\ sub'[b][u].fresh = sub[b][u].fresh /\ sub'[b][u].pipe = sub[b][u].pipe
             /\ b # c => sub'[b][u] = sub[b][u]
  BY <1>1 DEF Delivered, ToldOnly
<1>4. \A b \in Client : b # c => events'[b] = events[b]
  BY <1>1 DEF Delivered
<1>5. \A b \in Client, u \in Target, d \in Doc : Mentions(sub'[b][u].pipe, d) => d \in sub[b][u].filter
  BY <1>3 DEF ShapeInv, PipesFiltered
<1> QED
  BY <1>2, <1>3, <1>4, <1>5, ShapeKept

LEMMA ShapeRemove ==
    ASSUME ListenTypeOK, ShapeInv, NEW c \in Client, NEW t \in Target, RemoveTarget(c, t) \/ CloseTarget(c, t)
    PROVE  ShapeInv'
<1>1. Removed(c, t)
  BY RemoveIs
<1>2. up' = up /\ stream' = stream /\ events' = events
  BY DEF RemoveTarget, CloseTarget, vars, process
<1>3. /\ watchers'[t].client = NoClient /\ ~sub'[c][t].active
      /\ \A u \in Target : u # t => watchers'[u] = watchers[u]
  BY <1>1 DEF Removed
<1>4. ASSUME NEW b \in Client, NEW u \in Target
      PROVE  /\ b # c \/ u # t => sub'[b][u] = sub[b][u]
             /\ sub'[b][u].filter = sub[b][u].filter /\ sub'[b][u].view = sub[b][u].view
             /\ sub'[b][u].fresh = sub[b][u].fresh /\ sub'[b][u].pipe = sub[b][u].pipe
  BY <1>1 DEF Removed
<1>5. \A b \in Client, u \in Target, d \in Doc : Mentions(sub'[b][u].pipe, d) => d \in sub[b][u].filter
  BY <1>4 DEF ShapeInv, PipesFiltered
<1> QED
  BY <1>2, <1>3, <1>4, <1>5, ShapeKept

LEMMA ShapeDisconnect ==
    ASSUME ListenTypeOK, ShapeInv, NEW c \in Client, Disconnect(c)
    PROVE  ShapeInv'
<1>1. /\ up' = up /\ watchers' = watchers /\ events' = events /\ sub' = sub
      /\ Open(c) /\ stream'[c].pc = "closing" /\ \A b \in Client : b # c => stream'[b] = stream[b]
  BY DEF Disconnect, vars, process, NoStream, ListenTypeOK
<1>2. WatchersOwned'
  BY <1>1 DEF ShapeInv, WatchersOwned, Open, ListenTypeOK, Watcher
<1>3. ClosedIsEmpty'
  BY <1>1 DEF ShapeInv, ClosedIsEmpty, Open
<1>4. AnswersSound'
  BY <1>1 DEF ShapeInv, AnswersSound
<1>5. PipesFiltered'
  BY <1>1 DEF ShapeInv, PipesFiltered
<1> QED
  BY <1>2, <1>3, <1>4, <1>5 DEF ShapeInv

LEMMA ShapeClose ==
    ASSUME ListenTypeOK, ShapeInv, NEW c \in Client, CloseStream(c)
    PROVE  ShapeInv'
<1>1. Closed(c)
  BY CloseStreamIs
<1>2. up' = up /\ watchers' = watchers
  BY DEF CloseStream, vars, process
<1>3. /\ \A b \in Client : b # c => stream'[b] = stream[b] /\ sub'[b] = sub[b] /\ events'[b] = events[b]
      /\ stream'[c].pc = "closed" /\ events'[c] = <<>>
      /\ \A u \in Target : ~sub[c][u].active /\ ~sub'[c][u].active /\ sub'[c][u].pipe = <<>>
  BY <1>1 DEF Closed
<1>4. WatchersOwned'
  <2> SUFFICES ASSUME NEW u \in Target, watchers[u].client # NoClient
               PROVE  /\ stream'[watchers[u].client].pc # "closed"
                      /\ sub'[watchers[u].client][u].active
                      /\ watchers[u].filter = sub'[watchers[u].client][u].filter
    BY <1>2 DEF WatchersOwned, Open
  <2> DEFINE b == watchers[u].client
  <2>1. b \in Client /\ stream[b].pc # "closed" /\ sub[b][u].active /\ watchers[u].filter = sub[b][u].filter
    BY OwnersTyped DEF ShapeInv, WatchersOwned, Open
  <2> HIDE DEF b
  <2>2. stream'[b] = stream[b] /\ sub'[b] = sub[b]
    BY <1>3, <2>1
  <2> QED
    BY <2>1, <2>2 DEF b
<1>5. ClosedIsEmpty'
  <2> SUFFICES ASSUME NEW b \in Client
               PROVE  /\ ~up' => stream'[b].pc = "closed"
                      /\ stream'[b].pc = "closed" =>
                            events'[b] = <<>> /\ \A u \in Target : ~sub'[b][u].active /\ sub'[b][u].pipe = <<>>
    BY DEF ClosedIsEmpty, Open
  <2>1. CASE b = c
    BY <1>3, <2>1
  <2>2. CASE b # c
    BY <1>2, <1>3, <2>2 DEF ShapeInv, ClosedIsEmpty, Open
  <2> QED
    BY <2>1, <2>2
<1>6. AnswersSound'
  <2> SUFFICES ASSUME NEW b \in Client
               PROVE  /\ stream'[b].pc = "resume" => ~sub'[b][stream'[b].target].fresh
                      /\ stream'[b].pc = "snapshot" /\ sub'[b][stream'[b].target].fresh
                          => sub'[b][stream'[b].target].view = NoDocs
    BY DEF AnswersSound
  <2>1. CASE b = c
    BY <1>3, <2>1
  <2>2. CASE b # c
    BY <1>3, <2>2, AnswersKept
  <2> QED
    BY <2>1, <2>2
<1>7. PipesFiltered'
  <2> SUFFICES ASSUME NEW b \in Client, NEW u \in Target, NEW d \in Doc, Mentions(sub'[b][u].pipe, d)
               PROVE  d \in sub'[b][u].filter
    BY DEF PipesFiltered
  <2>1. b # c
    BY <1>3, EmptyEvents
  <2> QED
    BY <1>3, <2>1 DEF ShapeInv, PipesFiltered
<1> QED
  BY <1>4, <1>5, <1>6, <1>7 DEF ShapeInv

(* A target that an announced change is offered to: the event is appended
   to its channel, or put in doubt, as the watcher's filter is the target's. *)
Heard(c, t, e) ==
    /\ sub'[c][t].pipe = Append(sub[c][t].pipe, e) /\ sub'[c][t].doubtful = sub[c][t].doubtful \ {e.doc}
Missed(c, t, e) ==
    /\ sub'[c][t].pipe = sub[c][t].pipe /\ sub'[c][t].doubtful = sub[c][t].doubtful \cup {e.doc}
Announced(c, t, e) ==
    /\ sub'[c][t].active = sub[c][t].active /\ sub'[c][t].filter = sub[c][t].filter
    /\ sub'[c][t].view = sub[c][t].view /\ sub'[c][t].fresh = sub[c][t].fresh
    /\ IF Registered(c, t) /\ e.doc \in sub[c][t].filter
       THEN Heard(c, t, e) \/ Missed(c, t, e)
       ELSE sub'[c][t] = sub[c][t]

LEMMA NotifyTells ==
    ASSUME TypeOK, ListenTypeOK, ShapeInv, NEW w \in Writer, Notify(w),
           NEW c \in Client, NEW t \in Target
    PROVE  Announced(c, t, EventOf(w))
<1> DEFINE e == EventOf(w)
<1>1. Notified(w)
  BY NotifyIs
<1>2. e \in Event /\ sub[c][t] \in Sub /\ Len(sub[c][t].pipe) <= Capacity
  BY <1>1 DEF Notified, ListenTypeOK
<1>3. sub'[c][t] = IF watchers[t].client = c /\ e.doc \in watchers[t].filter
                   THEN Offered(sub[c][t], e) ELSE sub[c][t]
  BY <1>1 DEF Notified
<1>4. watchers[t].client = c => sub[c][t].active /\ watchers[t].filter = sub[c][t].filter
  BY ListenAssumption DEF ShapeInv, WatchersOwned
<1> HIDE DEF e
<1>5. CASE watchers[t].client = c /\ e.doc \in watchers[t].filter
  <2>1. sub'[c][t] = Offered(sub[c][t], e) /\ Registered(c, t) /\ e.doc \in sub[c][t].filter
    BY <1>3, <1>4, <1>5 DEF Registered
  <2>2. /\ sub'[c][t].active = sub[c][t].active /\ sub'[c][t].filter = sub[c][t].filter
        /\ sub'[c][t].view = sub[c][t].view /\ sub'[c][t].fresh = sub[c][t].fresh
        /\ Heard(c, t, e) \/ Missed(c, t, e)
    <3> DEFINE s == sub[c][t]
               r == Offered(s, e)
    <3>1. /\ r.active = s.active /\ r.filter = s.filter /\ r.view = s.view /\ r.fresh = s.fresh
          /\ \/ r.pipe = Append(s.pipe, e) /\ r.doubtful = s.doubtful \ {e.doc}
             \/ r.pipe = s.pipe /\ r.doubtful = s.doubtful \cup {e.doc}
      BY <1>2, OfferedIs
    <3>2. sub'[c][t] = r
      BY <2>1
    <3> HIDE DEF r
    <3> QED
      BY <3>1, <3>2 DEF Heard, Missed
  <2> QED
    BY <2>1, <2>2 DEF Announced, e
<1>6. CASE ~(watchers[t].client = c /\ e.doc \in watchers[t].filter)
  BY <1>3, <1>4, <1>6 DEF Announced, e, Registered
<1> QED
  BY <1>5, <1>6

LEMMA ShapeNotify ==
    ASSUME TypeOK, ListenTypeOK, ShapeInv, NEW w \in Writer, Notify(w)
    PROVE  ShapeInv'
<1> DEFINE e == EventOf(w)
<1>1. /\ up' = up /\ watchers' = watchers /\ stream' = stream /\ events' = events
  BY DEF Notify, AppendEvent, process
<1>2. e \in Event
  BY NotifyIs DEF Notified
<1>3. ASSUME NEW c \in Client, NEW t \in Target
      PROVE  /\ sub'[c][t].active = sub[c][t].active
             /\ sub'[c][t].filter = sub[c][t].filter /\ sub'[c][t].fresh = sub[c][t].fresh
             /\ sub'[c][t].view = sub[c][t].view
             /\ sub'[c][t].pipe = sub[c][t].pipe \/ Open(c)
             /\ \A d \in Doc : Mentions(sub'[c][t].pipe, d) => d \in sub[c][t].filter
  <2>1. Announced(c, t, e)
    BY NotifyTells
  <2>2. \A d \in Doc : Mentions(sub[c][t].pipe, d) => d \in sub[c][t].filter
    BY DEF ShapeInv, PipesFiltered
  <2>3. sub[c][t].pipe \in Seq(Event)
    BY DEF ListenTypeOK, Sub
  <2> HIDE DEF e
  <2>4. Registered(c, t) => Open(c)
    BY DEF Registered, ShapeInv, ClosedIsEmpty
  <2>5. CASE Heard(c, t, e) /\ Registered(c, t) /\ e.doc \in sub[c][t].filter
    <3>1. \A d \in Doc : Mentions(Append(sub[c][t].pipe, e), d) => Mentions(sub[c][t].pipe, d) \/ e.doc = d
      BY <1>2, <2>3, AppendedEvent
    <3> QED
      BY <2>1, <2>2, <2>4, <2>5, <3>1 DEF Announced, Heard
  <2>6. CASE Missed(c, t, e)
    BY <2>1, <2>2, <2>6 DEF Announced, Missed
  <2>7. CASE sub'[c][t] = sub[c][t]
    BY <2>1, <2>2, <2>7 DEF Announced
  <2> QED
    BY <2>1, <2>5, <2>6, <2>7 DEF Announced
<1> QED
  BY <1>1, <1>3, ShapeKept

LEMMA ShapeExit == ASSUME ListenTypeOK, ExitAll PROVE ShapeInv'
<1>1. Emptied
  BY ExitAllIs
<1>2. WatchersOwned'
  BY <1>1 DEF Emptied, WatchersOwned
<1>3. ClosedIsEmpty'
  BY <1>1 DEF Emptied, ClosedIsEmpty, Open
<1>4. AnswersSound'
  BY <1>1 DEF Emptied, AnswersSound
<1>5. PipesFiltered'
  BY <1>1, EmptyEvents DEF Emptied, PipesFiltered
<1> QED
  BY <1>2, <1>3, <1>4, <1>5 DEF ShapeInv

(* A step of the store that the listeners do not see. *)
LEMMA ShapeUnseen ==
    ASSUME ShapeInv, UNCHANGED <<watchers, stream, events, sub>>, up' = up \/ up'
    PROVE  ShapeInv'
<1>1. WatchersOwned'
  BY DEF ShapeInv, WatchersOwned, Open
<1>2. ClosedIsEmpty'
  BY DEF ShapeInv, ClosedIsEmpty, Open
<1>3. AnswersSound'
  BY DEF ShapeInv, AnswersSound
<1>4. PipesFiltered'
  BY DEF ShapeInv, PipesFiltered
<1> QED
  BY <1>1, <1>2, <1>3, <1>4 DEF ShapeInv

-----------------------------------------------------------------------------
(* The changes under way.                                                  *)

(* A step of the store that makes no change and announces none. *)
WorkKept ==
    /\ docs' = docs /\ up' = up
    /\ \A w \in Writer : /\ UnderWay(w)' <=> UnderWay(w)
                         /\ UnderWay(w) => writer'[w].doc = writer[w].doc /\ writer'[w].ver = writer[w].ver

LEMMA UnderWayIs ==
    \A w \in Writer :
        /\ UnderWay(w) <=> writer[w].pc \in {"read", "truncate", "fill", "spoil", "number", "append"}
        /\ UnderWay(w)' <=> writer'[w].pc \in {"read", "truncate", "fill", "spoil", "number", "append"}
  BY DEF UnderWay, Saving, Notifying

LEMMA QuietSteps ==
    ASSUME TypeOK,
           Requests \/ \E w \in Writer : ApplyRefused(w) \/ Persists(w) \/ Number(w)
    PROVE  WorkKept
<1>1. ASSUME NEW w \in Writer, Begins(w) PROVE WorkKept
  <2>1. /\ docs' = docs /\ up' = up /\ writer[w].pc \in {"idle", "apply"} /\ writer'[w].pc \in {"idle", "apply"}
        /\ \A x \in Writer : x # w => writer'[x] = writer[x]
    BY <1>1, BeginsIs DEF process
  <2> QED
    BY <2>1, UnderWayIs DEF WorkKept
<1>2. ASSUME Transacts PROVE WorkKept
  BY <1>2, UnderWayIs DEF Transacts, BeginTransaction, Rollback, process, WorkKept
<1>3. ASSUME NEW w \in Writer, UNCHANGED <<docs, up>>, UnderWay(w), UnderWay(w)',
             writer'[w].doc = writer[w].doc, writer'[w].ver = writer[w].ver,
             \A x \in Writer : x # w => writer'[x] = writer[x]
      PROVE  WorkKept
  BY <1>3, UnderWayIs DEF WorkKept
<1>4. \A w \in Writer : writer[w] \in Handler
  BY HandlersSound
<1>5. ASSUME NEW h \in Handler, NEW pc \in Step
      PROVE  At(h, pc).doc = h.doc /\ At(h, pc).ver = h.ver
  BY DEF At, Handler
<1>6. ASSUME NEW w \in Writer, NEW d \in Doc, ReadDoc(w, d) PROVE WorkKept
  <2> DEFINE read == WithCopy(writer[w], d)
  <2>1. UNCHANGED <<docs, up>> /\ writer[w].pc = "read" /\ writer'[w].pc \in {"read", "truncate"}
        /\ \A x \in Writer : x # w => writer'[x] = writer[x]
    BY <1>6, ReadIs DEF ReadDoc, process
  <2>2. read \in Handler /\ read.doc = writer[w].doc /\ read.ver = writer[w].ver
    <3>1. writer[w] \in Handler /\ docs \in [Doc -> Version]
      BY <1>4 DEF TypeOK
    <3>2. read \in Handler /\ read.doc = writer[w].doc
      BY <3>1, WithCopyIs
    <3>3. read.ver = writer[w].ver
      BY <3>1 DEF WithCopy, Handler
    <3> QED
      BY <3>2, <3>3
  <2>3. writer'[w] = IF AllRead(read) THEN At(read, "truncate") ELSE read
    BY <1>6, BecomesIs DEF ReadDoc
  <2> HIDE DEF read
  <2>4. writer'[w].doc = writer[w].doc /\ writer'[w].ver = writer[w].ver
    BY <1>5, <2>2, <2>3 DEF Step
  <2> QED
    BY <1>3, <2>1, <2>4, UnderWayIs
<1>7. ASSUME NEW w \in Writer, Truncate(w) PROVE WorkKept
  <2>1. UNCHANGED <<docs, up>> /\ writer[w].pc = "truncate" /\ writer'[w].pc = "fill"
        /\ \A x \in Writer : x # w => writer'[x] = writer[x]
    BY <1>7, TruncateIs DEF Truncate, process
  <2>2. writer'[w] = At(writer[w], "fill")
    BY <1>7, BecomesIs DEF Truncate
  <2>3. writer'[w].doc = writer[w].doc /\ writer'[w].ver = writer[w].ver
    BY <1>4, <1>5, <2>2 DEF Step
  <2> QED
    BY <1>3, <2>1, <2>3, UnderWayIs
<1>8. ASSUME NEW w \in Writer, Fill(w) PROVE WorkKept
  <2>1. UNCHANGED <<docs, up>> /\ writer[w].pc \in {"fill", "spoil"}
    BY <1>8 DEF Fill, process
  <2>2. \A x \in Writer : writer'[x] = IF x = w THEN At(writer[x], "number")
                                       ELSE IF writer[x].pc = "fill" THEN At(writer[x], "spoil")
                                       ELSE writer[x]
    BY <1>8 DEF Fill
  <2>3. \A x \in Writer : At(writer[x], "number").pc = "number" /\ At(writer[x], "spoil").pc = "spoil"
    BY <1>4, AtIs DEF Step
  <2>4. \A x \in Writer : writer'[x].doc = writer[x].doc /\ writer'[x].ver = writer[x].ver
    BY <1>4, <1>5, <2>2 DEF Step
  <2>5. \A x \in Writer : UnderWay(x)' <=> UnderWay(x)
    BY <2>1, <2>2, <2>3, UnderWayIs
  <2> QED
    BY <2>1, <2>4, <2>5 DEF WorkKept
<1>9. ASSUME NEW w \in Writer, Number(w) PROVE WorkKept
  <2>1. UNCHANGED <<docs, up>> /\ writer[w].pc = "number" /\ writer'[w].pc = "append"
        /\ \A x \in Writer : x # w => writer'[x] = writer[x]
    BY <1>9, NumberIs DEF Number, process
  <2>2. writer'[w] = Numbered(writer[w], seq + 1)
    BY <1>9, BecomesIs DEF Number
  <2>3. writer'[w].doc = writer[w].doc /\ writer'[w].ver = writer[w].ver
    BY <1>4, <2>2 DEF Numbered, Handler
  <2> QED
    BY <1>3, <2>1, <2>3, UnderWayIs
<1> QED
  BY <1>1, <1>2, <1>6, <1>7, <1>8, <1>9 DEF Requests, Begins, Transacts, Persists

LEMMA InFlightKept ==
    ASSUME WorkKept
    PROVE  \A d : InFlightOn(d)' = InFlightOn(d)
  BY DEF WorkKept, InFlightOn

(* A change of a document joins those under way, and one of a document that
   is not contested is alone. *)
Joined(w, e) ==
    /\ InFlightOn(e)' = InFlightOn(e) \cup {w}
    /\ e \notin contested' => InFlightOn(e)' = {w} /\ writer'[w].ver = docs'[e]
    /\ \A d \in Doc : d # e => /\ InFlightOn(d)' = InFlightOn(d) /\ docs'[d] = docs[d]
                               /\ d \in contested' <=> d \in contested
    /\ \A x \in Writer : x # w => writer'[x] = writer[x]

LEMMA InFlightChanged ==
    ASSUME TypeOK, NEW w \in Writer, ApplyMarked(w)
    PROVE  \E e \in Doc : Joined(w, e)
<1> DEFINE write == Head(writer[w].todo)
           h == [pc |-> AfterChange(write), todo |-> Tail(writer[w].todo),
                 doc |-> write.doc, ver |-> Changed(write), seq |-> 0,
                 copy |-> [d \in Doc |-> Unread]]
<1>1. Apply(w) /\ writer[w].pc = "apply"
  BY DEF ApplyMarked, Apply
<1>2. PICK e \in Doc : e = write.doc
  BY <1>1, HandlersSound, NextWrite DEF Write
<1>3. writer'[w] = h /\ \A x \in Writer : x # w => writer'[x] = writer[x]
  BY <1>1, BecomesIs DEF Apply
<1>4. docs' = [docs EXCEPT ![e] = Changed(write)] /\ docs \in [Doc -> Version]
  BY <1>1, <1>2 DEF Apply, TypeOK
<1>5. contested' = IF \E x \in Writer \ {w} : UnderWay(x) /\ writer[x].doc = e
                   THEN contested \cup {e} ELSE contested \ {e}
  BY <1>2 DEF ApplyMarked, UnderWay
<1>6. writer'[w].doc = e /\ writer'[w].ver = Changed(write) /\ writer'[w].pc \in {"read", "number"}
  BY <1>2, <1>3 DEF AfterChange
<1>7. ~UnderWay(w) /\ UnderWay(w)'
  BY <1>1, <1>6, UnderWayIs
<1>8. \A x \in Writer : x # w => (UnderWay(x)' <=> UnderWay(x))
  BY <1>3, UnderWayIs
<1> HIDE DEF write, h
<1>9. InFlightOn(e)' = InFlightOn(e) \cup {w}
  BY <1>3, <1>6, <1>7, <1>8 DEF InFlightOn
<1>10. e \notin contested' => InFlightOn(e) = {}
  BY <1>5, <1>7 DEF InFlightOn
<1>11. \A d \in Doc : d # e => InFlightOn(d)' = InFlightOn(d)
  BY <1>3, <1>6, <1>7, <1>8 DEF InFlightOn
<1>12. docs'[e] = writer'[w].ver /\ \A d \in Doc : d # e => docs'[d] = docs[d]
  BY <1>2, <1>4, <1>6
<1>13. \A d \in Doc : d # e => (d \in contested' <=> d \in contested)
  BY <1>5
<1> QED
  BY <1>2, <1>3, <1>9, <1>10, <1>11, <1>12, <1>13 DEF Joined

(* A change that is announced leaves them. *)
LEMMA InFlightAnnounced ==
    ASSUME TypeOK, NEW w \in Writer, AppendEvent(w)
    PROVE  /\ docs' = docs /\ up' = up
           /\ UnderWay(w) /\ EventOf(w).doc = writer[w].doc /\ EventOf(w).ver = writer[w].ver
           /\ \A d : InFlightOn(d)' = InFlightOn(d) \ {w}
           /\ \A x \in Writer : x # w => writer'[x] = writer[x]
<1>1. /\ writer[w].pc = "append" /\ writer'[w].pc \in {"idle", "apply"}
      /\ \A x \in Writer : x # w => writer'[x] = writer[x]
  BY AppendIs
<1>2. UnderWay(w) /\ ~UnderWay(w)' /\ \A x \in Writer : x # w => (UnderWay(x)' <=> UnderWay(x))
  BY <1>1, UnderWayIs
<1>3. \A d : InFlightOn(d)' = InFlightOn(d) \ {w}
  BY <1>1, <1>2 DEF InFlightOn
<1>4. docs' = docs /\ up' = up
  BY DEF AppendEvent, process
<1> QED
  BY <1>1, <1>2, <1>3, <1>4 DEF EventOf

(* OneInFlight is the store's alone: a step of the listeners changes nothing
   of it. *)
LEMMA ListenersStay ==
    ASSUME NEW c \in Client,
           \/ \E t \in Target, f \in Filter : AddFresh(c, t, f)
           \/ \E t \in Target : AddAgain(c, t) \/ RemoveTarget(c, t) \/ Forward(c, t)
           \/ \E i \in 1..MaxOpens : ForwardLeft(c, i)
           \/ Answers(c) \/ Deliver(c) \/ Disconnect(c) \/ Closes(c)
    PROVE  UNCHANGED vars /\ contested' = contested
<1>1. ASSUME NEW t \in Target, NEW f, NEW after, AddTarget(c, t, f, after)
      PROVE  UNCHANGED vars /\ contested' = contested
  BY <1>1 DEF AddTarget
<1>2. ASSUME NEW t \in Target, AddAgain(c, t) \/ RemoveTarget(c, t) \/ Forward(c, t) \/ CloseTarget(c, t)
      PROVE  UNCHANGED vars /\ contested' = contested
  BY <1>1, <1>2 DEF AddAgain, RemoveTarget, Forward, Move, CloseTarget
<1>3. ASSUME \/ Answers(c) \/ Deliver(c) \/ Disconnect(c) \/ CloseStream(c)
             \/ \E i \in 1..MaxOpens : ForwardLeft(c, i)
      PROVE  UNCHANGED vars /\ contested' = contested
  BY <1>3 DEF Answers, Resume, Fallback, Snapshot, Current, Deliver, Disconnect, CloseStream,
              ForwardLeft, Move
<1> QED
  BY <1>1, <1>2, <1>3 DEF AddFresh, Closes

LEMMA OneInFlightInit == ListenInit => OneInFlight
  BY DEF ListenInit, Init, NoWriter, OneInFlight, InFlightOn, UnderWay, Saving, Notifying

LEMMA OneInFlightStep ==
    ASSUME TypeOK, NobodyWhenDown, OneInFlight, [ListenNext]_allVars
    PROVE  OneInFlight'
<1>1. ASSUME WorkKept, contested' = contested PROVE OneInFlight'
  <2> SUFFICES ASSUME NEW d \in Doc, d \notin contested, NEW w \in InFlightOn(d)', NEW x \in InFlightOn(d)'
               PROVE  w = x /\ writer'[w].ver = docs'[d]
    BY <1>1 DEF OneInFlight
  <2>1. w \in InFlightOn(d) /\ x \in InFlightOn(d) /\ w \in Writer /\ UnderWay(w)
    BY <1>1, InFlightKept DEF InFlightOn
  <2> QED
    BY <1>1, <2>1 DEF WorkKept, OneInFlight
<1>2. ASSUME NEW w \in Writer, ApplyMarked(w) PROVE OneInFlight'
  <2>1. PICK e \in Doc : Joined(w, e)
    BY <1>2, InFlightChanged
  <2>2. writer[w].pc = "apply"
    BY <1>2 DEF ApplyMarked, Apply
  <2> SUFFICES ASSUME NEW d \in Doc, d \notin contested', NEW x \in InFlightOn(d)', NEW y \in InFlightOn(d)'
               PROVE  x = y /\ writer'[x].ver = docs'[d]
    BY DEF OneInFlight
  <2>3. CASE d = e
    BY <2>1, <2>3 DEF Joined
  <2>4. CASE d # e
    <3>1. x \in InFlightOn(d) /\ y \in InFlightOn(d) /\ d \notin contested /\ docs'[d] = docs[d]
      BY <2>1, <2>4 DEF Joined
    <3>2. x = y /\ writer[x].ver = docs[d] /\ UnderWay(x) /\ x \in Writer
      BY <3>1 DEF OneInFlight, InFlightOn
    <3>3. x # w
      BY <2>2, <3>2, UnderWayIs
    <3> QED
      BY <2>1, <3>1, <3>2, <3>3 DEF Joined
  <2> QED
    BY <2>3, <2>4
<1>3. ASSUME NEW w \in Writer, Notify(w) PROVE OneInFlight'
  <2>1. /\ docs' = docs /\ contested' = contested /\ \A d : InFlightOn(d)' = InFlightOn(d) \ {w}
        /\ \A x \in Writer : x # w => writer'[x] = writer[x]
    BY <1>3, InFlightAnnounced DEF Notify
  <2> SUFFICES ASSUME NEW d \in Doc, d \notin contested, NEW x \in InFlightOn(d)', NEW y \in InFlightOn(d)'
               PROVE  x = y /\ writer'[x].ver = docs[d]
    BY <2>1 DEF OneInFlight
  <2>2. x \in InFlightOn(d) /\ y \in InFlightOn(d) /\ x # w /\ x \in Writer
    BY <2>1 DEF InFlightOn
  <2> QED
    BY <2>1, <2>2 DEF OneInFlight
<1>4. ASSUME \A w \in Writer : writer'[w].pc = "idle" PROVE OneInFlight'
  BY <1>4, UnderWayIs DEF OneInFlight, InFlightOn
<1>5. CASE ExitAll
  BY <1>4, <1>5 DEF ExitAll, Exit, NoWriter
<1>6. CASE Restart /\ UNCHANGED listenVars
  BY <1>4, <1>6 DEF Restart, NobodyWhenDown, Idle
<1>7. ASSUME UNCHANGED vars PROVE WorkKept
  BY <1>7, UnderWayIs DEF vars, process, WorkKept
<1>8. ASSUME Requests \/ \E w \in Writer : ApplyRefused(w) \/ Persists(w) \/ Number(w) PROVE WorkKept
  BY <1>8, QuietSteps
<1>9. CASE UNCHANGED allVars
  BY <1>1, <1>7, <1>9 DEF allVars, listenVars
<1>10. CASE \E c \in Client :
              \/ \E t \in Target, f \in Filter : AddFresh(c, t, f)
              \/ \E t \in Target : AddAgain(c, t) \/ RemoveTarget(c, t) \/ Forward(c, t)
              \/ \E i \in 1..MaxOpens : ForwardLeft(c, i)
              \/ Answers(c) \/ Deliver(c) \/ Disconnect(c) \/ Closes(c)
  BY <1>1, <1>7, <1>10, ListenersStay
<1>11. CASE Requests /\ UNCHANGED listenVars
  BY <1>1, <1>8, <1>11 DEF listenVars
<1>12. ASSUME NEW w \in Writer, WriterStep(w) PROVE OneInFlight'
  BY <1>1, <1>2, <1>3, <1>8, <1>12 DEF WriterStep, listenVars
<1> QED
  BY <1>5, <1>6, <1>9, <1>10, <1>11, <1>12 DEF ListenNext

-----------------------------------------------------------------------------
(* What the clients are told.                                              *)

(* A step that does not concern the document, the target and its stream. *)
LEMMA TellsKept ==
    ASSUME TellsTruth, NEW c \in Client, NEW t \in Target, NEW d \in Doc,
           Settled(c, t, d)' =>
               /\ Settled(c, t, d) /\ docs'[d] = docs[d]
               /\ sub'[c][t].pipe = sub[c][t].pipe /\ events'[c] = events[c]
               /\ sub'[c][t].fresh = sub[c][t].fresh /\ sub'[c][t].view[d] = sub[c][t].view[d]
               /\ Silent(c, d)' => Silent(c, d)
               /\ Untold(c, t) => Untold(c, t)'
    PROVE  PipeCurrent(c, t, d)' /\ Informed(c, t, d)'
<1>1. PipeCurrent(c, t, d) /\ Informed(c, t, d)
  BY DEF TellsTruth
<1>2. PipeCurrent(c, t, d)'
  BY <1>1 DEF PipeCurrent
<1>3. Informed(c, t, d)'
  BY <1>1 DEF Informed
<1> QED
  BY <1>2, <1>3

LEMMA SettledSame ==
    ASSUME NEW c \in Client, NEW t \in Target, NEW d,
           InFlightOn(d)' = InFlightOn(d), contested' = contested,
           watchers'[t] = watchers[t], sub'[c][t].active = sub[c][t].active,
           sub'[c][t].filter = sub[c][t].filter, sub'[c][t].doubtful = sub[c][t].doubtful
    PROVE  Settled(c, t, d)' <=> Settled(c, t, d)
  BY DEF Settled, Registered

LEMMA SilentSame ==
    ASSUME NEW c \in Client, NEW d, left'[c] = left[c],
           \A u \in Target : sub'[c][u].pipe = sub[c][u].pipe
    PROVE  Silent(c, d)' <=> Silent(c, d)
  BY DEF Silent, Held

LEMMA InFlightSame ==
    ASSUME UNCHANGED vars
    PROVE  docs' = docs /\ \A d : InFlightOn(d)' = InFlightOn(d)
  BY UnderWayIs DEF vars, InFlightOn

LEMMA TruthAdd ==
    ASSUME ListenTypeOK, TellsTruth, NEW c \in Client, NEW t \in Target, NEW f \in SUBSET Doc,
           NEW after \in Nat \cup {NoToken}, AddTarget(c, t, f, after)
    PROVE  TellsTruth'
<1>1. Added(c, t, f, after)
  BY AddIs
<1>2. /\ UNCHANGED vars /\ events' = events /\ contested' = contested
      /\ stream[c].pc \in {"closed", "open"}
  BY DEF AddTarget
<1>3. docs' = docs /\ \A d : InFlightOn(d)' = InFlightOn(d)
  BY <1>2, InFlightSame
<1> SUFFICES ASSUME NEW b \in Client, NEW u \in Target, NEW d \in Doc
             PROVE  PipeCurrent(b, u, d)' /\ Informed(b, u, d)'
  BY DEF TellsTruth
<1>4. Silent(b, d)' <=> Silent(b, d)
  <2>1. CASE b = c
    <3>1. Held(left[c], d)' <=> Held(left'[c], d)
      BY DEF Held, Mentions
    <3>2. Held(left'[c], d) <=> Held(left[c], d) \/ Mentions(sub[c][t].pipe, d)
      BY AddLeaves
    <3>3. /\ ~Mentions(sub'[c][t].pipe, d)
          /\ \A v \in Target : v # t => sub'[c][v].pipe = sub[c][v].pipe
      BY <1>1, EmptyEvents DEF Added
    <3> QED
      BY <2>1, <3>1, <3>2, <3>3 DEF Silent
  <2>2. CASE b # c
    BY <1>1, <2>2, AddLeaves, SilentSame DEF Added
  <2> QED
    BY <2>1, <2>2
<1>5. CASE b = c /\ u = t
  <2>1. PipeCurrent(c, t, d)'
    BY <1>1, EmptyEvents DEF Added, PipeCurrent
  <2>2. ASSUME Settled(c, t, d)', sub'[c][t].fresh PROVE ~Mentions(events[c], d) /\ Untold(c, t)'
    <3>1. d \notin sub'[c][t].doubtful
      BY <2>2 DEF Settled
    <3>2. ~Mentions(events[c], d)
      BY <1>1, <3>1 DEF Added, Mentions
    <3>3. after = NoToken /\ stream'[c].pc = "snapshot" /\ stream'[c].target = t
      <4>1. /\ sub'[c][t].fresh = (after = NoToken) /\ stream'[c].target = t
            /\ stream'[c].pc = IF after > 0 THEN "resume" ELSE "snapshot"
        BY <1>1 DEF Added
      <4>2. after = NoToken => ~(after > 0)
        BY DEF NoToken
      <4> QED
        BY <2>2, <4>1, <4>2
    <3> QED
      BY <3>2, <3>3 DEF Untold
  <2>3. Informed(c, t, d)'
    BY <1>2, <2>2 DEF Informed, LastIs, Mentions
  <2> QED
    BY <1>5, <2>1, <2>3
<1>6. CASE b # c /\ u = t
  BY <1>1, <1>6 DEF Added, PipeCurrent, Informed, Settled, Registered
<1>7. CASE u # t
  <2>1. sub'[b][u] = sub[b][u] /\ watchers'[u] = watchers[u]
    BY <1>1, <1>7 DEF Added
  <2>2. Settled(b, u, d)' <=> Settled(b, u, d)
    BY <1>2, <1>3, <2>1, SettledSame
  <2>3. Untold(b, u) => Untold(b, u)'
    BY <1>1, <1>2 DEF Added, Untold
  <2> QED
    BY <1>2, <1>3, <1>4, <2>1, <2>2, <2>3, TellsKept
<1> QED
  BY <1>5, <1>6, <1>7

LEMMA TruthAnswer ==
    ASSUME TypeOK, ListenTypeOK, ShapeInv, TellsTruth, NEW c \in Client, Answers(c)
    PROVE  TellsTruth'
<1>1. Answered(c)
  BY AnswerIs
<1>2. UNCHANGED vars /\ UNCHANGED <<watchers, events, left, contested>>
  BY DEF Answers, Resume, Fallback, Snapshot, Current
<1>3. docs' = docs /\ \A d : InFlightOn(d)' = InFlightOn(d)
  BY <1>2, InFlightSame
<1>4. PICK t \in Target : t = stream[c].target /\ stream[c].pc \in {"resume", "snapshot", "current"}
  BY <1>1 DEF Answered
<1>5. /\ \A b \in Client, u \in Target : b # c \/ u # t => sub'[b][u] = sub[b][u]
      /\ \A b \in Client : b # c => stream'[b] = stream[b]
      /\ ToldOnly(sub[c][t], sub'[c][t])
      /\ stream[c].pc = "snapshot" => \A d \in Doc : sub'[c][t].view[d] =
             IF d \in sub[c][t].filter /\ docs[d] # Absent THEN docs[d] ELSE sub[c][t].view[d]
      /\ stream[c].pc = "current" => sub'[c][t].view = sub[c][t].view
  BY <1>1, <1>4 DEF Answered
<1>6. /\ stream[c].pc = "resume" => ~sub[c][t].fresh
      /\ stream[c].pc = "snapshot" /\ sub[c][t].fresh => sub[c][t].view = NoDocs
  BY <1>4 DEF ShapeInv, AnswersSound
<1>7. \A b \in Client, u \in Target : ToldOnly(sub[b][u], sub'[b][u])
  BY <1>4, <1>5 DEF ToldOnly
<1> SUFFICES ASSUME NEW b \in Client, NEW u \in Target, NEW d \in Doc
             PROVE  PipeCurrent(b, u, d)' /\ Informed(b, u, d)'
  BY DEF TellsTruth
<1>8. Silent(b, d)' <=> Silent(b, d)
  BY <1>2, <1>7, SilentSame DEF ToldOnly
<1>9. Settled(b, u, d)' <=> Settled(b, u, d)
  BY <1>2, <1>3, <1>7, SettledSame DEF ToldOnly
<1>10. sub'[b][u].pipe = sub[b][u].pipe /\ sub'[b][u].fresh = sub[b][u].fresh /\ events'[b] = events[b]
  BY <1>2, <1>7 DEF ToldOnly
<1>11. CASE b = c /\ u = t
  <2>1. PipeCurrent(c, t, d) /\ Informed(c, t, d)
    BY <1>4 DEF TellsTruth
  <2>2. PipeCurrent(c, t, d)'
    BY <1>3, <1>9, <1>10, <1>11, <2>1 DEF PipeCurrent
  <2>3. ASSUME Settled(c, t, d), sub[c][t].fresh, Silent(c, d)
        PROVE  LastIs(events[c], d, docs[d]) /\ (Mentions(events[c], d) \/ sub'[c][t].view[d] = docs[d])
    <3>1. LastIs(events[c], d, docs[d]) /\ (Mentions(events[c], d) \/ Untold(c, t) \/ sub[c][t].view[d] = docs[d])
      BY <2>1, <2>3 DEF Informed
    <3>2. CASE stream[c].pc = "snapshot"
      <4>1. sub[c][t].view[d] = Absent
        BY <1>6, <2>3, <3>2 DEF NoDocs
      <4>2. d \in sub[c][t].filter
        BY <2>3 DEF Settled
      <4> QED
        BY <1>5, <3>1, <3>2, <4>1, <4>2
    <3>3. CASE stream[c].pc = "current"
      BY <1>5, <3>1, <3>3 DEF Untold
    <3> QED
      BY <1>4, <1>6, <2>3, <3>2, <3>3
  <2>4. (Settled(c, t, d)' <=> Settled(c, t, d)) /\ (Silent(c, d)' <=> Silent(c, d))
    BY <1>8, <1>9, <1>11
  <2>5. sub'[c][t].fresh = sub[c][t].fresh /\ events'[c] = events[c]
    BY <1>10, <1>11
  <2> QED
    BY <1>3, <1>11, <2>2, <2>3, <2>4, <2>5 DEF Informed
<1>12. CASE b # c \/ u # t
  <2>1. sub'[b][u] = sub[b][u]
    BY <1>5, <1>12
  <2>2. Untold(b, u) => Untold(b, u)'
    BY <1>4, <1>5, <1>12 DEF Untold
  <2> QED
    BY <1>2, <1>3, <1>8, <1>9, <2>1, <2>2, TellsKept
<1> QED
  BY <1>11, <1>12

(* The event that moves on is the document's last, or the listeners that it
   misleads are in doubt. *)
LEMMA TruthForward ==
    ASSUME ListenTypeOK, ShapeInv, TellsTruth, NEW c \in Client, Moves(c)
    PROVE  TellsTruth'
<1>1. PICK e, pipes, rest : Moving(c, e, pipes, rest)
  BY MovesIs
<1>2. Moved(c, e, pipes, rest) /\ Loses(c, e, pipes, rest)
  BY <1>1 DEF Moving
<1>3. UNCHANGED vars /\ UNCHANGED <<watchers, stream, contested>>
  BY MovesIs
<1>4. docs' = docs /\ \A d : InFlightOn(d)' = InFlightOn(d)
  BY <1>3, InFlightSame
<1>5. /\ e \in Event /\ events[c] \in Seq(Event) /\ events'[c] = Append(events[c], e)
      /\ left'[c] = rest
      /\ \A u \in Target :
           /\ sub'[c][u].pipe = pipes[u] /\ sub[c][u].doubtful \subseteq sub'[c][u].doubtful
           /\ sub'[c][u].active = sub[c][u].active /\ sub'[c][u].filter = sub[c][u].filter
           /\ sub'[c][u].view = sub[c][u].view /\ sub'[c][u].fresh = sub[c][u].fresh
  BY <1>2 DEF Moved, ListenTypeOK
<1>6. \A b \in Client : b # c => sub'[b] = sub[b] /\ events'[b] = events[b] /\ left'[b] = left[b]
  BY <1>2 DEF Moved
<1> SUFFICES ASSUME NEW b \in Client, NEW u \in Target, NEW d \in Doc
             PROVE  PipeCurrent(b, u, d)' /\ Informed(b, u, d)'
  BY DEF TellsTruth
<1>7. CASE b # c
  <2>1. Settled(b, u, d)' <=> Settled(b, u, d)
    BY <1>3, <1>4, <1>6, <1>7, SettledSame
  <2>2. (Silent(b, d)' <=> Silent(b, d)) /\ (Untold(b, u) => Untold(b, u)')
    BY <1>3, <1>6, <1>7, SilentSame DEF Untold
  <2> QED
    BY <1>4, <1>6, <1>7, <2>1, <2>2, TellsKept
<1>8. CASE b = c
  <2>1. Settled(c, u, d)' => Settled(c, u, d)
    BY <1>3, <1>4, <1>5 DEF Settled, Registered
  <2>2. PipeCurrent(c, u, d) /\ Informed(c, u, d)
    BY DEF TellsTruth
  <2>3. PipeCurrent(c, u, d)'
    <3>1. LastIs(sub[c][u].pipe, d, docs[d]) => LastIs(pipes[u], d, docs[d])
      BY <1>2 DEF Loses
    <3> QED
      BY <1>4, <1>5, <2>1, <2>2, <3>1 DEF PipeCurrent
  <2>4. Informed(c, u, d)'
    <3> SUFFICES ASSUME Settled(c, u, d)', sub'[c][u].fresh, Silent(c, d)'
                 PROVE  /\ LastIs(events'[c], d, docs[d])
                        /\ Mentions(events'[c], d) \/ Untold(c, u)' \/ sub'[c][u].view[d] = docs[d]
      BY <1>4 DEF Informed
    <3>1. Cleared(pipes, rest, d)
      <4>1. (\A v \in Target : ~Mentions(sub'[c][v].pipe, d)) /\ ~Held(left'[c], d)
        BY DEF Silent, Held, Mentions
      <4> QED
        BY <1>5, <4>1 DEF Cleared
    <3>2. /\ Mentions(Append(events[c], e), d) <=> Mentions(events[c], d) \/ e.doc = d
          /\ e.doc = d => (LastIs(Append(events[c], e), d, docs[d]) <=> e.ver = docs[d])
          /\ e.doc # d /\ LastIs(events[c], d, docs[d]) => LastIs(Append(events[c], e), d, docs[d])
      BY <1>5, AppendedEvent
    <3>3. CASE e.doc # d
      <4>1. Silent(c, d)
        BY <1>2, <3>1, <3>3 DEF Silent, Loses, Cleared
      <4>2. /\ LastIs(events[c], d, docs[d])
            /\ Mentions(events[c], d) \/ Untold(c, u) \/ sub[c][u].view[d] = docs[d]
        BY <1>5, <2>1, <2>2, <4>1 DEF Informed
      <4>3. Untold(c, u) => Untold(c, u)'
        BY <1>3 DEF Untold
      <4> QED
        BY <1>5, <3>2, <3>3, <4>2, <4>3
    <3>4. CASE e.doc = d
      <4>1. ~Doubted(c, e)
        BY <1>5, <2>1, <3>4 DEF Doubted, Settled, Registered
      <4>2. e.ver = docs[d] \/ \E t \in Target : Vouched(c, t, e, pipes)
        BY <1>1, <3>1, <3>4, <4>1 DEF Moving
      <4>3. ASSUME NEW t \in Target, Vouched(c, t, e, pipes) PROVE e.ver = docs[d]
        <5>1. Registered(c, t) /\ d \notin sub[c][t].doubtful /\ d \in sub[c][t].filter
          BY <3>4, <4>3 DEF Vouched, ShapeInv, PipesFiltered
        <5>2. Settled(c, t, d)
          BY <2>1, <5>1 DEF Settled
        <5>3. LastIs(sub[c][t].pipe, d, docs[d])
          BY <5>2 DEF TellsTruth, PipeCurrent
        <5> QED
          BY <3>1, <3>4, <4>3, <5>3 DEF Vouched, Cleared
      <4> QED
        BY <1>5, <3>2, <3>4, <4>2, <4>3
    <3> QED
      BY <3>3, <3>4
  <2> QED
    BY <1>8, <2>3, <2>4
<1> QED
  BY <1>7, <1>8

LEMMA TruthDeliver ==
    ASSUME ListenTypeOK, TellsTruth, NEW c \in Client, Deliver(c)
    PROVE  TellsTruth'
<1>1. Delivered(c)
  BY DeliverIs
<1>2. UNCHANGED vars /\ UNCHANGED <<watchers, stream, left, contested>> /\ stream[c].pc = "open"
  BY DEF Deliver
<1>3. docs' = docs /\ \A d : InFlightOn(d)' = InFlightOn(d)
  BY <1>2, InFlightSame
<1>4. PICK e \in Event : e = Head(events[c])
  BY <1>1 DEF Delivered
<1>5. /\ events[c] \in Seq(Event) /\ events[c] # <<>> /\ events'[c] = Tail(events[c])
      /\ \A u \in Target : sub[c][u].active => \A d \in Doc :
             sub'[c][u].view[d] = IF d = e.doc THEN e.ver ELSE sub[c][u].view[d]
  BY <1>1, <1>4 DEF Delivered, ListenTypeOK
<1>6. /\ \A b \in Client : b # c => sub'[b] = sub[b] /\ events'[b] = events[b]
      /\ \A b \in Client, u \in Target : ToldOnly(sub[b][u], sub'[b][u])
  BY <1>1 DEF Delivered, ToldOnly
<1> SUFFICES ASSUME NEW b \in Client, NEW u \in Target, NEW d \in Doc
             PROVE  PipeCurrent(b, u, d)' /\ Informed(b, u, d)'
  BY DEF TellsTruth
<1>7. Settled(b, u, d)' <=> Settled(b, u, d)
  BY <1>2, <1>3, <1>6, SettledSame DEF ToldOnly
<1>8. Silent(b, d)' <=> Silent(b, d)
  BY <1>2, <1>6, SilentSame DEF ToldOnly
<1>9. sub'[b][u].pipe = sub[b][u].pipe /\ sub'[b][u].fresh = sub[b][u].fresh
  BY <1>6 DEF ToldOnly
<1>10. CASE b # c
  <2>1. Untold(b, u) => Untold(b, u)'
    BY <1>2 DEF Untold
  <2> QED
    BY <1>3, <1>6, <1>7, <1>8, <1>10, <2>1, TellsKept
<1>11. CASE b = c
  <2>1. PipeCurrent(c, u, d) /\ Informed(c, u, d)
    BY DEF TellsTruth
  <2>2. PipeCurrent(c, u, d)'
    BY <1>3, <1>7, <1>9, <1>11, <2>1 DEF PipeCurrent
  <2>3. Informed(c, u, d)'
    <3> SUFFICES ASSUME Settled(c, u, d), sub[c][u].fresh, Silent(c, d)
                 PROVE  /\ LastIs(events'[c], d, docs[d])
                        /\ Mentions(events'[c], d) \/ sub'[c][u].view[d] = docs[d]
      BY <1>3, <1>7, <1>8, <1>9, <1>11 DEF Informed
    <3>1. /\ LastIs(events[c], d, docs[d])
          /\ Mentions(events[c], d) \/ sub[c][u].view[d] = docs[d]
      BY <1>2, <2>1 DEF Informed, Untold
    <3>2. /\ Mentions(events[c], d) <=> e.doc = d \/ Mentions(Tail(events[c]), d)
          /\ LastIs(Tail(events[c]), d, docs[d])
          /\ e.doc = d /\ ~Mentions(Tail(events[c]), d) => e.ver = docs[d]
      BY <1>4, <1>5, <3>1, RemovedEvent
    <3>3. sub'[c][u].view[d] = IF d = e.doc THEN e.ver ELSE sub[c][u].view[d]
      BY <1>5 DEF Settled, Registered
    <3> QED
      BY <1>5, <3>1, <3>2, <3>3
  <2> QED
    BY <1>11, <2>2, <2>3
<1> QED
  BY <1>10, <1>11

(* A target that is removed and a stream that ends only leave. *)
LEMMA TruthLeave ==
    ASSUME ListenTypeOK, ShapeInv, TellsTruth, NEW c \in Client,
           \/ \E t \in Target : RemoveTarget(c, t) \/ CloseTarget(c, t)
           \/ Disconnect(c) \/ CloseStream(c)
    PROVE  TellsTruth'
<1>1. ASSUME NEW t \in Target, RemoveTarget(c, t) \/ CloseTarget(c, t) PROVE TellsTruth'
  <2>1. Removed(c, t)
    BY <1>1, RemoveIs
  <2>2. UNCHANGED vars /\ UNCHANGED <<stream, events, left, contested>>
    BY <1>1 DEF RemoveTarget, CloseTarget
  <2>3. docs' = docs /\ \A d : InFlightOn(d)' = InFlightOn(d)
    BY <2>2, InFlightSame
  <2> SUFFICES ASSUME NEW b \in Client, NEW u \in Target, NEW d \in Doc
               PROVE  PipeCurrent(b, u, d)' /\ Informed(b, u, d)'
    BY DEF TellsTruth
  <2>4. Silent(b, d)' <=> Silent(b, d)
    BY <2>1, <2>2, SilentSame DEF Removed
  <2>5. Settled(b, u, d)' => u # t
    BY <2>1, ListenAssumption DEF Removed, Settled, Registered
  <2>6. u # t => sub'[b][u] = sub[b][u] /\ watchers'[u] = watchers[u]
    BY <2>1 DEF Removed
  <2>7. u # t => (Settled(b, u, d)' <=> Settled(b, u, d))
    BY <2>2, <2>3, <2>6, SettledSame
  <2>8. Untold(b, u) => Untold(b, u)'
    BY <2>2 DEF Untold
  <2> QED
    BY <2>2, <2>3, <2>4, <2>5, <2>6, <2>7, <2>8, TellsKept
<1>2. ASSUME Disconnect(c) PROVE TellsTruth'
  <2>1. /\ UNCHANGED vars /\ UNCHANGED <<watchers, events, sub, left, contested>>
        /\ stream'[c].pc = "closing" /\ \A b \in Client : b # c => stream'[b] = stream[b]
    BY <1>2 DEF Disconnect, NoStream, ListenTypeOK
  <2>2. docs' = docs /\ \A d : InFlightOn(d)' = InFlightOn(d)
    BY <2>1, InFlightSame
  <2> SUFFICES ASSUME NEW b \in Client, NEW u \in Target, NEW d \in Doc
               PROVE  PipeCurrent(b, u, d)' /\ Informed(b, u, d)'
    BY DEF TellsTruth
  <2>3. (Silent(b, d)' <=> Silent(b, d)) /\ (Settled(b, u, d)' <=> Settled(b, u, d))
    BY <2>1, <2>2, SilentSame, SettledSame
  <2>4. Untold(b, u) => Untold(b, u)'
    BY <2>1 DEF Untold
  <2> QED
    BY <2>1, <2>2, <2>3, <2>4, TellsKept
<1>3. ASSUME CloseStream(c) PROVE TellsTruth'
  <2>1. Closed(c)
    BY <1>3, CloseStreamIs
  <2>2. UNCHANGED vars /\ UNCHANGED <<watchers, contested>>
    BY <1>3 DEF CloseStream
  <2>3. docs' = docs /\ \A d : InFlightOn(d)' = InFlightOn(d)
    BY <2>2, InFlightSame
  <2> SUFFICES ASSUME NEW b \in Client, NEW u \in Target, NEW d \in Doc
               PROVE  PipeCurrent(b, u, d)' /\ Informed(b, u, d)'
    BY DEF TellsTruth
  <2>4. Settled(b, u, d)' => b # c
    BY <2>1 DEF Closed, Settled, Registered
  <2>5. b # c => /\ stream'[b] = stream[b] /\ sub'[b] = sub[b]
                /\ events'[b] = events[b] /\ left'[b] = left[b]
    BY <2>1 DEF Closed
  <2>6. b # c => (Silent(b, d)' <=> Silent(b, d)) /\ (Settled(b, u, d)' <=> Settled(b, u, d))
    BY <2>2, <2>3, <2>5, SilentSame, SettledSame
  <2>7. b # c /\ Untold(b, u) => Untold(b, u)'
    BY <2>5 DEF Untold
  <2> QED
    BY <2>3, <2>4, <2>5, <2>6, <2>7, TellsKept
<1> QED
  BY <1>1, <1>2, <1>3

(* An announced change is the last of its document or is contested, and a
   target of the document either gets its event or is in doubt. *)
LEMMA TruthNotify ==
    ASSUME TypeOK, ListenTypeOK, ShapeInv, OneInFlight, TellsTruth, NEW w \in Writer, Notify(w)
    PROVE  TellsTruth'
<1>1. AppendEvent(w) /\ UNCHANGED <<watchers, stream, events, left, contested>>
  BY DEF Notify
<1>2. PICK e \in Event : e = EventOf(w)
  BY <1>1, AppendIs
<1>3. /\ docs' = docs /\ UnderWay(w) /\ e.doc = writer[w].doc /\ e.ver = writer[w].ver
      /\ \A d : InFlightOn(d)' = InFlightOn(d) \ {w}
  BY <1>1, <1>2, InFlightAnnounced
<1>4. \A c \in Client, t \in Target : Announced(c, t, e)
  BY <1>2, NotifyTells
<1>5. \A c \in Client, t \in Target : sub[c][t].pipe \in Seq(Event)
  BY DEF ListenTypeOK, Sub
<1>6. \A c \in Client, t \in Target :
        /\ sub'[c][t].active = sub[c][t].active /\ sub'[c][t].filter = sub[c][t].filter
        /\ sub'[c][t].view = sub[c][t].view /\ sub'[c][t].fresh = sub[c][t].fresh
  BY <1>4 DEF Announced
<1>7. ASSUME NEW c \in Client, NEW t \in Target, NEW d \in Doc
      PROVE  Mentions(sub[c][t].pipe, d) => Mentions(sub'[c][t].pipe, d)
  <2>1. Mentions(sub[c][t].pipe, d) => Mentions(Append(sub[c][t].pipe, e), d)
    BY <1>5, AppendedEvent
  <2> QED
    BY <1>4, <2>1 DEF Announced, Heard, Missed
<1> SUFFICES ASSUME NEW c \in Client, NEW t \in Target, NEW d \in Doc, Settled(c, t, d)'
             PROVE  PipeCurrent(c, t, d)' /\ Informed(c, t, d)'
  BY DEF TellsTruth, PipeCurrent, Informed
<1>8. Registered(c, t) /\ d \in sub[c][t].filter /\ d \notin contested
      /\ d \notin sub'[c][t].doubtful /\ InFlightOn(d) \ {w} = {}
  BY <1>1, <1>3, <1>6 DEF Settled, Registered
<1>9. Silent(c, d)' => Silent(c, d)
  BY <1>1, <1>7 DEF Silent, Held, Mentions
<1>10. CASE e.doc # d
  <2>1. InFlightOn(d) = {}
    BY <1>3, <1>8, <1>10 DEF InFlightOn
  <2>2. d \notin sub[c][t].doubtful
    BY <1>4, <1>8, <1>10 DEF Announced, Heard, Missed
  <2>3. Settled(c, t, d)
    BY <1>8, <2>1, <2>2 DEF Settled
  <2>4. PipeCurrent(c, t, d) /\ Informed(c, t, d)
    BY DEF TellsTruth
  <2>5. PipeCurrent(c, t, d)'
    <3>1. LastIs(sub[c][t].pipe, d, docs[d])
      BY <2>3, <2>4 DEF PipeCurrent
    <3>2. LastIs(Append(sub[c][t].pipe, e), d, docs[d])
      BY <1>5, <1>10, <3>1, AppendedEvent
    <3>3. sub'[c][t].pipe = sub[c][t].pipe \/ sub'[c][t].pipe = Append(sub[c][t].pipe, e)
      BY <1>4 DEF Announced, Heard, Missed
    <3> QED
      BY <1>3, <3>1, <3>2, <3>3 DEF PipeCurrent
  <2>6. Informed(c, t, d)'
    BY <1>1, <1>3, <1>6, <1>9, <2>3, <2>4 DEF Informed, Untold
  <2> QED
    BY <2>5, <2>6
<1>11. CASE e.doc = d
  <2>1. Heard(c, t, e)
    BY <1>4, <1>8, <1>11 DEF Announced, Missed
  <2>2. w \in InFlightOn(d)
    BY <1>3, <1>11 DEF InFlightOn
  <2>3. e.ver = docs[d]
    BY <1>3, <1>8, <2>2 DEF OneInFlight
  <2>4. LastIs(Append(sub[c][t].pipe, e), d, docs[d]) /\ Mentions(Append(sub[c][t].pipe, e), d)
    BY <1>5, <1>11, <2>3, AppendedEvent
  <2>5. sub'[c][t].pipe = Append(sub[c][t].pipe, e)
    BY <2>1 DEF Heard
  <2>6. PipeCurrent(c, t, d)'
    BY <1>3, <2>4, <2>5 DEF PipeCurrent
  <2>7. ~Silent(c, d)'
    BY <2>4, <2>5 DEF Silent
  <2> QED
    BY <2>6, <2>7 DEF Informed
<1> QED
  BY <1>10, <1>11

(* A change that is made is under way. *)
LEMMA TruthApply ==
    ASSUME TypeOK, TellsTruth, NEW w \in Writer, ApplyMarked(w)
    PROVE  TellsTruth'
<1>1. UNCHANGED <<watchers, stream, events, sub, left>>
  BY DEF ApplyMarked
<1>2. PICK e \in Doc : Joined(w, e)
  BY InFlightChanged
<1> SUFFICES ASSUME NEW c \in Client, NEW t \in Target, NEW d \in Doc
             PROVE  PipeCurrent(c, t, d)' /\ Informed(c, t, d)'
  BY DEF TellsTruth
<1>3. CASE d = e
  <2>1. ~Settled(c, t, d)'
    BY <1>2, <1>3 DEF Joined, Settled
  <2> QED
    BY <2>1 DEF PipeCurrent, Informed
<1>4. CASE d # e
  <2>1. /\ InFlightOn(d)' = InFlightOn(d) /\ docs'[d] = docs[d] /\ (d \in contested' <=> d \in contested)
    BY <1>2, <1>4 DEF Joined
  <2>2. Settled(c, t, d)' => Settled(c, t, d)
    BY <1>1, <2>1 DEF Settled, Registered
  <2>3. (Silent(c, d)' => Silent(c, d)) /\ (Untold(c, t) => Untold(c, t)')
    BY <1>1 DEF Silent, Held, Mentions, Untold
  <2> QED
    BY <1>1, <2>1, <2>2, <2>3, TellsKept
<1> QED
  BY <1>3, <1>4

LEMMA TruthUnseen ==
    ASSUME TellsTruth, WorkKept, UNCHANGED listenVars
    PROVE  TellsTruth'
<1>1. docs' = docs /\ \A d : InFlightOn(d)' = InFlightOn(d)
  BY InFlightKept DEF WorkKept
<1> SUFFICES ASSUME NEW c \in Client, NEW t \in Target, NEW d \in Doc
             PROVE  PipeCurrent(c, t, d)' /\ Informed(c, t, d)'
  BY DEF TellsTruth
<1>2. Settled(c, t, d)' => Settled(c, t, d)
  BY <1>1 DEF listenVars, Settled, Registered
<1>3. (Silent(c, d)' => Silent(c, d)) /\ (Untold(c, t) => Untold(c, t)')
  BY DEF listenVars, Silent, Held, Mentions, Untold
<1> QED
  BY <1>1, <1>2, <1>3, TellsKept DEF listenVars

(* Nobody listens to a process that is not there. *)
LEMMA TruthUnheard ==
    ASSUME \A c \in Client, t \in Target : ~sub'[c][t].active
    PROVE  TellsTruth'
  BY DEF TellsTruth, PipeCurrent, Informed, Settled, Registered

-----------------------------------------------------------------------------
(* The theorems.                                                           *)

LEMMA ListenIInvInit == ListenInit => ListenIInv
<1> SUFFICES ASSUME ListenInit PROVE ListenIInv
  OBVIOUS
<1>1. \A c \in Client, t \in Target : ~sub[c][t].active
  BY DEF ListenInit, NoSub
<1>2. TellsTruth
  BY <1>1 DEF TellsTruth, PipeCurrent, Informed, Settled, Registered
<1> QED
  BY <1>2, ShapeInit, OneInFlightInit DEF ListenIInv

LEMMA ListenIInvStep ==
    TypeOK /\ NobodyWhenDown /\ ListenTypeOK /\ ListenIInv /\ [ListenNext]_allVars => ListenIInv'
<1> SUFFICES ASSUME TypeOK, NobodyWhenDown, ListenTypeOK, ListenIInv, [ListenNext]_allVars
             PROVE  ListenIInv'
  OBVIOUS
<1>1. ShapeInv /\ OneInFlight /\ TellsTruth
  BY DEF ListenIInv
<1>2. OneInFlight'
  BY <1>1, OneInFlightStep
<1>3. ASSUME NEW c \in Client, NEW t \in Target, NEW f \in SUBSET Doc,
             NEW after \in Nat \cup {NoToken}, AddTarget(c, t, f, after)
      PROVE  ShapeInv' /\ TellsTruth'
  BY <1>1, <1>3, ShapeAdd, TruthAdd
<1>4. ASSUME NEW c \in Client, NEW t \in Target, AddAgain(c, t) PROVE ShapeInv' /\ TellsTruth'
  <2> DEFINE f == sub[c][t].filter
             after == sub[c][t].token
  <2>1. sub[c][t] \in Sub
    BY DEF ListenTypeOK
  <2>2. f \in SUBSET Doc /\ after \in Nat \cup {NoToken}
    BY <2>1 DEF Sub
  <2>3. AddTarget(c, t, f, after)
    BY <1>4 DEF AddAgain
  <2> QED
    BY <1>3, <2>2, <2>3
<1>5. ASSUME NEW c \in Client, NEW t \in Target, NEW f \in Filter, AddFresh(c, t, f)
      PROVE  ShapeInv' /\ TellsTruth'
  BY <1>3, <1>5, ListenAssumption DEF AddFresh
<1>6. ASSUME NEW c \in Client, Answers(c) PROVE ShapeInv' /\ TellsTruth'
  BY <1>1, <1>6, ShapeAnswer, TruthAnswer
<1>7. ASSUME NEW c \in Client, Moves(c) PROVE ShapeInv' /\ TellsTruth'
  BY <1>1, <1>7, ShapeForward, TruthForward
<1>8. ASSUME NEW c \in Client, Deliver(c) PROVE ShapeInv' /\ TellsTruth'
  BY <1>1, <1>8, ShapeDeliver, TruthDeliver
<1>9. ASSUME NEW c \in Client, NEW t \in Target, RemoveTarget(c, t) \/ CloseTarget(c, t)
      PROVE  ShapeInv' /\ TellsTruth'
  BY <1>1, <1>9, ShapeRemove, TruthLeave
<1>10. ASSUME NEW c \in Client, Disconnect(c) PROVE ShapeInv' /\ TellsTruth'
  BY <1>1, <1>10, ShapeDisconnect, TruthLeave
<1>11. ASSUME NEW c \in Client, CloseStream(c) PROVE ShapeInv' /\ TellsTruth'
  BY <1>1, <1>11, ShapeClose, TruthLeave
<1>12. ASSUME NEW w \in Writer, Notify(w) PROVE ShapeInv' /\ TellsTruth'
  BY <1>1, <1>12, ShapeNotify, TruthNotify
<1>13. ASSUME NEW w \in Writer, ApplyMarked(w) PROVE ShapeInv' /\ TellsTruth'
  <2>1. up' = up /\ UNCHANGED <<watchers, stream, events, sub>>
    BY <1>13 DEF ApplyMarked, Apply, process
  <2> QED
    BY <1>1, <1>13, <2>1, ShapeUnseen, TruthApply
<1>14. ASSUME ExitAll PROVE ShapeInv' /\ TellsTruth'
  BY <1>14, ExitAllIs, ShapeExit, TruthUnheard DEF Emptied
<1>15. ASSUME WorkKept, UNCHANGED listenVars PROVE ShapeInv' /\ TellsTruth'
  BY <1>1, <1>15, ShapeUnseen, TruthUnseen DEF WorkKept, listenVars
<1>16. ASSUME Requests, UNCHANGED listenVars PROVE ShapeInv' /\ TellsTruth'
  BY <1>15, <1>16, QuietSteps
<1>17. ASSUME Restart, UNCHANGED listenVars PROVE ShapeInv' /\ TellsTruth'
  <2>1. ~up /\ up' /\ UNCHANGED <<watchers, stream, events, sub>>
    BY <1>17 DEF Restart, listenVars
  <2>2. \A c \in Client, t \in Target : ~sub'[c][t].active
    BY <1>1, <2>1 DEF ShapeInv, ClosedIsEmpty
  <2> QED
    BY <1>1, <2>1, <2>2, ShapeUnseen, TruthUnheard
<1>18. ASSUME NEW w \in Writer, WriterStep(w) PROVE ShapeInv' /\ TellsTruth'
  BY <1>12, <1>13, <1>15, <1>18, QuietSteps DEF WriterStep
<1>19. ASSUME UNCHANGED allVars PROVE ShapeInv' /\ TellsTruth'
  <2>1. WorkKept /\ UNCHANGED listenVars
    BY <1>19, UnderWayIs DEF allVars, vars, process, WorkKept
  <2> QED
    BY <1>15, <2>1
<1>20. ShapeInv' /\ TellsTruth'
  BY <1>4, <1>5, <1>6, <1>7, <1>8, <1>9, <1>10, <1>11, <1>14, <1>16, <1>17, <1>18, <1>19
     DEF ListenNext, Closes, Moves
<1> QED
  BY <1>2, <1>20 DEF ListenIInv

LEMMA ListenersCorrect == ListenSpec => [](TypeOK /\ ListenTypeOK /\ ListenIInv)
<1>1. ListenInit => ListenIInv
  BY ListenIInvInit
<1>2. TypeOK /\ NobodyWhenDown /\ ListenTypeOK /\ ListenIInv /\ [ListenNext]_allVars => ListenIInv'
  BY ListenIInvStep
<1>3. TypeOK /\ FileInv => NobodyWhenDown
  BY DEF FileInv
<1> QED
  BY <1>1, <1>2, <1>3, ListenersKeepTheStore, FileCorrect, ListenTypeCorrect, PTL DEF ListenSpec

(* NoWatcherLeaks: on no way out of a Listen handler does a watcher stay
   registered, and none is registered for a target its stream has not. *)
THEOREM NoWatcherIsLeaked == ListenSpec => []NoWatcherLeaks
<1>1. ListenIInv => NoWatcherLeaks
  BY DEF ListenIInv, ShapeInv, WatchersOwned, NoWatcherLeaks
<1> QED
  BY <1>1, ListenersCorrect, PTL

(* Converged: when the handlers have announced their changes and a stream
   has nothing left to send, its client knows every document a target that
   started from a snapshot asks for, but for those whose event was dropped,
   or overtaken by an older one of another target or of an earlier use of
   an id, and those changed by handlers that overlapped. *)
THEOREM ListenersConverge == ListenSpec => []Converged
<1>1. ListenTypeOK /\ ListenIInv => Converged
  <2> SUFFICES ASSUME ListenIInv, NEW c \in Client, Quiet(c), NEW t \in Target, Listening(c, t),
                      NEW d \in sub[c][t].filter \ (contested \cup sub[c][t].doubtful), ListenTypeOK
               PROVE  sub[c][t].view[d] = docs[d]
    BY DEF Converged, UpToDate
  <2>1. d \in Doc
    BY DEF ListenTypeOK, Sub
  <2>2. InFlightOn(d) = {}
    BY DEF Quiet, InFlightOn, UnderWay
  <2>3. Silent(c, d) /\ ~Mentions(events[c], d)
    BY EmptyEvents DEF Quiet, Silent, Held
  <2>4. Settled(c, t, d) /\ sub[c][t].fresh
    BY <2>2 DEF Listening, Settled
  <2>5. ~Untold(c, t)
    BY DEF Quiet, Untold
  <2>6. Informed(c, t, d)
    BY <2>1 DEF ListenIInv, TellsTruth
  <2> QED
    BY <2>3, <2>4, <2>5, <2>6 DEF Informed
<1> QED
  BY <1>1, ListenersCorrect, PTL
=============================================================================
