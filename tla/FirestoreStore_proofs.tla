------------------------ MODULE FirestoreStore_proofs ------------------------
(***************************************************************************)
(* Theorems about FirestoreStore, for every set of documents and handlers, *)
(* every size of the log and every bound.                                  *)
(***************************************************************************)
EXTENDS FirestoreStore, TLAPS

-----------------------------------------------------------------------------
(* The invariant.                                                          *)

(* While events are appended in order, those in the log have their         *)
(* positions as numbers, and the numbers drawn beyond them are in flight.  *)
NumbersKept ==
    inOrder =>
        /\ \A i \in 0..logLen - 1 : Entry(i).seq = Entry(i).pos
        /\ \A n \in appends + 1..seq : \E w \in InFlight : writer[w].seq = n

SoleSaver == ~overlap => \A w, x \in Writer : Saving(w) /\ Saving(x) => w = x

(* What a handler has collected so far for the file is what there is.      *)
CopiesCurrent ==
    up /\ ~overlap => \A w \in Writer :
        /\ writer[w].pc = "read" => \A d \in Doc : writer[w].copy[d] \in {Unread, docs[d]}
        /\ writer[w].pc \in {"truncate", "fill"} => \A d \in Doc : writer[w].copy[d] = docs[d]
        /\ writer[w].pc # "spoil"

(* An exited process has no handlers.                                      *)
NobodyWhenDown == ~up => \A w \in Writer : Idle(w)

IInv ==
    /\ TypeOK /\ LogIsRecent /\ NumbersKept
    /\ SoleSaver /\ CopiesCurrent /\ FileCurrent /\ NobodyWhenDown

-----------------------------------------------------------------------------
(* The ring's arithmetic.                                                  *)

LEMMA ModIs ==
    ASSUME NEW N \in Nat \ {0}
    PROVE  \A x \in 0..2 * N - 1 : x % N = IF x < N THEN x ELSE x - N
<1> TAKE x \in 0..2 * N - 1
<1>1. CASE x < N
  BY <1>1
<1>2. CASE x >= N
  BY <1>2
<1> QED
  BY <1>1, <1>2

(* Adding behind the last of less than N entries leaves the others alone. *)
LEMMA AddedSlot ==
    ASSUME NEW N \in Nat \ {0}, NEW s \in 0..N - 1, NEW l \in 0..N - 1
    PROVE  /\ (s + l) % N \in 0..N - 1
           /\ \A i \in 0..l - 1 : (s + i) % N # (s + l) % N
<1>1. ASSUME NEW i \in 0..l
      PROVE  (s + i) % N = IF s + i < N THEN s + i ELSE s + i - N
  <2> DEFINE x == s + i
  <2>1. x \in 0..2 * N - 1
    OBVIOUS
  <2> HIDE DEF x
  <2>2. x % N = IF x < N THEN x ELSE x - N
    BY <2>1, ModIs
  <2> QED
    BY <2>2 DEF x
<1>2. (s + l) % N = IF s + l < N THEN s + l ELSE s + l - N
  BY <1>1
<1> QED
  BY <1>1, <1>2

(* A full ring overwrites its first entry, and the second becomes first. *)
LEMMA OverwrittenSlot ==
    ASSUME NEW N \in Nat \ {0}, NEW s \in 0..N - 1
    PROVE  /\ (s + N) % N = s
           /\ (s + 1) % N \in 0..N - 1
           /\ (((s + 1) % N) + (N - 1)) % N = s
           /\ \A i \in 0..N - 2 : /\ (((s + 1) % N) + i) % N = (s + (i + 1)) % N
                                  /\ (s + (i + 1)) % N # s
<1> DEFINE r == (s + 1) % N
<1>1. ASSUME NEW i \in 0..N
      PROVE  (s + i) % N = IF s + i < N THEN s + i ELSE s + i - N
  <2> DEFINE x == s + i
  <2>1. x \in 0..2 * N - 1
    OBVIOUS
  <2> HIDE DEF x
  <2>2. x % N = IF x < N THEN x ELSE x - N
    BY <2>1, ModIs
  <2> QED
    BY <2>2 DEF x
<1>2. (s + N) % N = s
  BY <1>1
<1>3. r \in 0..N - 1 /\ r = IF s + 1 < N THEN s + 1 ELSE s + 1 - N
  BY <1>1
<1> HIDE DEF r
<1>4. ASSUME NEW i \in 0..N - 1
      PROVE  (r + i) % N = IF r + i < N THEN r + i ELSE r + i - N
  <2> DEFINE x == r + i
  <2>1. x \in 0..2 * N - 1
    BY <1>3
  <2> HIDE DEF x
  <2>2. x % N = IF x < N THEN x ELSE x - N
    BY <2>1, ModIs
  <2> QED
    BY <1>3, <2>2 DEF x
<1>5. (r + (N - 1)) % N = s
  BY <1>3, <1>4
<1>6. ASSUME NEW i \in 0..N - 2
      PROVE  (r + i) % N = (s + (i + 1)) % N /\ (s + (i + 1)) % N # s
  <2>1. (r + i) % N = IF r + i < N THEN r + i ELSE r + i - N
    BY <1>4
  <2>2. i + 1 \in 0..N
    OBVIOUS
  <2>3. (s + (i + 1)) % N = IF s + (i + 1) < N THEN s + (i + 1) ELSE s + (i + 1) - N
    BY <1>1, <2>2, Zenon
  <2> QED
    BY <1>3, <2>1, <2>3
<1> QED
  BY <1>2, <1>3, <1>5, <1>6 DEF r

-----------------------------------------------------------------------------
(* Handlers.                                                               *)

(* What TypeOK asks of a handler. *)
Sound(h) ==
    /\ h \in Handler
    /\ h.pc \notin {"idle", "apply"} => h.doc \in Doc
    /\ h.pc = "apply" => h.todo # <<>>
    /\ h.pc \in {"truncate", "fill", "spoil"} => AllRead(h)

LEMMA HandlersSound ==
    ASSUME TypeOK
    PROVE  writer \in [Writer -> Handler] /\ \A w \in Writer : Sound(writer[w])
<1>1. ASSUME NEW w \in Writer PROVE Sound(writer[w])
  <2>1. /\ writer[w] \in Handler
        /\ Saving(w) \/ Notifying(w) => writer[w].doc \in Doc
        /\ writer[w].pc = "apply" => writer[w].todo # <<>>
        /\ writer[w].pc \in {"truncate", "fill", "spoil"} => AllRead(writer[w])
    BY DEF TypeOK
  <2>2. writer[w].pc \in Step
    BY <2>1 DEF Handler
  <2> QED
    BY <2>1, <2>2 DEF Sound, Saving, Notifying, Step
<1> QED
  BY <1>1 DEF TypeOK

LEMMA SoundHandlers ==
    ASSUME \A w \in Writer : Sound(writer'[w])
    PROVE  /\ \A w \in Writer : Saving(w)' \/ Notifying(w)' => writer'[w].doc \in Doc
           /\ \A w \in Writer : writer'[w].pc = "apply" => writer'[w].todo # <<>>
           /\ \A w \in Writer : writer'[w].pc \in {"truncate", "fill", "spoil"} => AllRead(writer'[w])
  BY DEF Sound, Saving, Notifying

LEMMA BecomesIs ==
    ASSUME TypeOK, NEW w \in Writer, NEW h, Becomes(w, h)
    PROVE  /\ writer'[w] = h
           /\ \A x \in Writer : x # w => writer'[x] = writer[x]
           /\ Sound(h) => /\ writer' \in [Writer -> Handler]
                          /\ \A x \in Writer : Sound(writer'[x])
<1>1. writer \in [Writer -> Handler] /\ \A x \in Writer : Sound(writer[x])
  BY HandlersSound
<1>2. /\ writer'[w] = h
      /\ \A x \in Writer : x # w => writer'[x] = writer[x]
  BY <1>1 DEF Becomes
<1>3. ASSUME Sound(h)
      PROVE  writer' \in [Writer -> Handler] /\ \A x \in Writer : Sound(writer'[x])
  <2>1. writer' \in [Writer -> Handler]
    <3> HIDE DEF Handler
    <3> QED
      BY <1>1, <1>3 DEF Becomes, Sound
  <2> QED
    BY <1>1, <1>2, <1>3, <2>1
<1> QED
  BY <1>2, <1>3

LEMMA RestIs ==
    ASSUME NEW todo \in Seq(Write)
    PROVE  Sound(Rest(todo)) /\ Rest(todo).pc \in {"idle", "apply"}
<1>1. NoWriter \in Handler
  BY DEF NoWriter, Handler, Step, NoDocs, Version, Absent
<1>2. /\ Rest(todo) \in Handler
      /\ Rest(todo).pc = IF todo = <<>> THEN "idle" ELSE "apply"
      /\ Rest(todo).todo = todo
  BY <1>1 DEF Rest, Handler, Step
<1> QED
  BY <1>2 DEF Sound

LEMMA AtIs ==
    ASSUME NEW h \in Handler, NEW pc \in Step
    PROVE  /\ At(h, pc) \in Handler /\ At(h, pc).pc = pc
           /\ At(h, pc).doc = h.doc /\ At(h, pc).copy = h.copy
  BY DEF At, Handler

LEMMA NumberedIs ==
    ASSUME NEW h \in Handler, NEW n \in Nat
    PROVE  /\ Numbered(h, n) \in Handler
           /\ Numbered(h, n).pc = "append" /\ Numbered(h, n).seq = n
           /\ Numbered(h, n).doc = h.doc
  BY DEF Numbered, Handler, Step

LEMMA WithCopyIs ==
    ASSUME NEW h \in Handler, NEW d \in Doc, docs \in [Doc -> Version]
    PROVE  /\ WithCopy(h, d) \in Handler
           /\ WithCopy(h, d).pc = h.pc /\ WithCopy(h, d).doc = h.doc
           /\ \A e \in Doc : WithCopy(h, d).copy[e] = IF e = d THEN docs[d] ELSE h.copy[e]
<1> DEFINE c == [e \in Doc |-> IF e = d THEN docs[d] ELSE h.copy[e]]
<1>1. c \in [Doc -> Version \cup {Unread}]
  BY DEF Handler
<1>2. WithCopy(h, d) = [h EXCEPT !.copy = c]
  BY DEF WithCopy
<1>3. \A e \in Doc : c[e] = IF e = d THEN docs[d] ELSE h.copy[e]
  OBVIOUS
<1> HIDE DEF c
<1>4. /\ WithCopy(h, d) \in Handler
      /\ WithCopy(h, d).pc = h.pc /\ WithCopy(h, d).doc = h.doc
      /\ WithCopy(h, d).copy = c
  BY <1>1, <1>2 DEF Handler
<1> QED
  BY <1>3, <1>4

(* What is left to do after the first write. *)
LEMMA NextWrite ==
    ASSUME NEW h, Sound(h), h.pc = "apply"
    PROVE  Head(h.todo) \in Write /\ Tail(h.todo) \in Seq(Write)
  BY DEF Sound, Handler

(* The handler that applies a change. *)
LEMMA AppliedIs ==
    ASSUME TypeOK, NEW w \in Writer, Apply(w)
    PROVE  /\ docs' \in [Doc -> Version] /\ writes' \in Nat /\ overlap' \in BOOLEAN
           /\ Sound(writer'[w])
           /\ writer'[w].pc = (IF DataDir THEN "read" ELSE "number")
           /\ \A d \in Doc : writer'[w].copy[d] = Unread
           /\ \A x \in Writer : x # w => writer'[x] = writer[x]
           /\ writer' \in [Writer -> Handler] /\ \A x \in Writer : Sound(writer'[x])
<1> DEFINE write == Head(writer[w].todo)
           h == [pc |-> AfterChange(write), todo |-> Tail(writer[w].todo),
                 doc |-> write.doc, ver |-> Changed(write), seq |-> 0,
                 copy |-> [d \in Doc |-> Unread]]
<1>1. write \in Write /\ Tail(writer[w].todo) \in Seq(Write)
  BY HandlersSound, NextWrite DEF Apply
<1>2. write.doc \in Doc /\ Changed(write) \in Version
  BY <1>1 DEF Write, Changed, TypeOK, Version, Absent
<1>3. AfterChange(write) = (IF DataDir THEN "read" ELSE "number") /\ AfterChange(write) \in Step
  BY DEF AfterChange, Step
<1>4. Becomes(w, h)
  BY DEF Apply
<1>5. docs' \in [Doc -> Version] /\ writes' \in Nat /\ overlap' \in BOOLEAN
  BY <1>2 DEF Apply, TypeOK
<1>6. h \in Handler
  BY <1>1, <1>2, <1>3 DEF Handler
<1>7. h.pc = AfterChange(write) /\ h.doc = write.doc /\ \A d \in Doc : h.copy[d] = Unread
  OBVIOUS
<1> HIDE DEF write, h
<1>8. Sound(h)
  BY <1>2, <1>3, <1>6, <1>7 DEF Sound
<1> QED
  BY <1>3, <1>4, <1>5, <1>7, <1>8, BecomesIs

(* The handlers when one has filled the file. *)
LEMMA FilledIs ==
    ASSUME TypeOK, NEW w \in Writer, Fill(w)
    PROVE  /\ writer' \in [Writer -> Handler] /\ \A x \in Writer : Sound(writer'[x])
           /\ writer'[w].pc = "number"
           /\ \A x \in Writer : /\ writer'[x].copy = writer[x].copy
                                /\ x # w /\ ~Saving(x) => writer'[x] = writer[x]
                                /\ writer[x].pc # "append" => writer'[x].pc # "append"
<1>1. writer \in [Writer -> Handler] /\ \A x \in Writer : Sound(writer[x])
  BY HandlersSound
<1>2. \A x \in Writer : /\ At(writer[x], "number") \in Handler /\ At(writer[x], "number").pc = "number"
                        /\ At(writer[x], "number").doc = writer[x].doc
                        /\ At(writer[x], "number").copy = writer[x].copy
                        /\ At(writer[x], "spoil") \in Handler /\ At(writer[x], "spoil").pc = "spoil"
                        /\ At(writer[x], "spoil").doc = writer[x].doc
                        /\ At(writer[x], "spoil").copy = writer[x].copy
  BY <1>1, AtIs DEF Step
<1>3. writer' = [x \in Writer |-> IF x = w THEN At(writer[x], "number")
                                  ELSE IF writer[x].pc = "fill" THEN At(writer[x], "spoil")
                                  ELSE writer[x]]
  BY DEF Fill
<1>4. writer' \in [Writer -> Handler]
  <2> HIDE DEF Handler
  <2> QED
    BY <1>1, <1>2, <1>3
<1>5. writer[w].pc \in {"fill", "spoil"}
  BY DEF Fill
<1>6. ASSUME NEW x \in Writer PROVE Sound(writer'[x])
  BY <1>1, <1>2, <1>3, <1>5 DEF Sound, AllRead
<1> QED
  BY <1>2, <1>3, <1>4, <1>6 DEF Saving

(* A handler is given work, or finds that its next write has no effect. *)
Begins(w) == (\E b \in Batch : Call(w, b) \/ \E tx \in 1..MaxTx : CommitTransaction(w, tx, b))
                \/ ApplyRefused(w)

LEMMA BeginsIs ==
    ASSUME TypeOK, NEW w \in Writer, Begins(w)
    PROVE  /\ up /\ asked' \in 0..MaxWrites /\ transactions' \in SUBSET (1..MaxTx)
           /\ UNCHANGED <<docs, disk, log, process, begun, writes, overlap>>
           /\ writer[w].pc \in {"idle", "apply"} /\ writer'[w].pc \in {"idle", "apply"}
           /\ \A x \in Writer : x # w => writer'[x] = writer[x]
           /\ writer' \in [Writer -> Handler] /\ \A x \in Writer : Sound(writer'[x])
<1>1. ASSUME NEW b \in Batch PROVE b \in Seq(Write) /\ Len(b) \in Nat
  BY BatchAssumption
<1>2. ASSUME NEW b \in Batch, Call(w, b) \/ \E tx \in 1..MaxTx : CommitTransaction(w, tx, b)
      PROVE  /\ up /\ asked' \in 0..MaxWrites /\ transactions' \in SUBSET (1..MaxTx)
             /\ UNCHANGED <<docs, disk, log, process, begun, writes, overlap>>
             /\ Idle(w) /\ Becomes(w, Rest(b))
  <2>1. asked \in 0..MaxWrites /\ transactions \in SUBSET (1..MaxTx)
    BY DEF TypeOK
  <2>2. ASSUME asked + Len(b) <= MaxWrites, asked' = asked + Len(b)
        PROVE  asked' \in 0..MaxWrites
    <3> DEFINE n == Len(b)
    <3>1. n \in Nat
      BY <1>1
    <3> HIDE DEF n
    <3> QED
      BY <2>1, <2>2, <3>1, BoundsAssumption DEF n
  <2>3. CASE Call(w, b)
    BY <2>1, <2>2, <2>3 DEF Call
  <2>4. ASSUME NEW tx \in 1..MaxTx, CommitTransaction(w, tx, b)
        PROVE  /\ up /\ asked' \in 0..MaxWrites /\ transactions' \in SUBSET (1..MaxTx)
               /\ UNCHANGED <<docs, disk, log, process, begun, writes, overlap>>
               /\ Idle(w) /\ Becomes(w, Rest(b))
    BY <2>1, <2>2, <2>4 DEF CommitTransaction
  <2> QED
    BY <1>2, <2>3, <2>4
<1>3. ASSUME ApplyRefused(w)
      PROVE  /\ up /\ UNCHANGED <<docs, disk, transactions, log, process, begun, asked, writes, overlap>>
             /\ writer[w].pc = "apply" /\ Becomes(w, Rest(Tail(writer[w].todo)))
             /\ Tail(writer[w].todo) \in Seq(Write)
  BY <1>3, HandlersSound, NextWrite DEF ApplyRefused
<1>4. ASSUME NEW todo \in Seq(Write), Becomes(w, Rest(todo))
      PROVE  /\ writer'[w].pc \in {"idle", "apply"}
             /\ \A x \in Writer : x # w => writer'[x] = writer[x]
             /\ writer' \in [Writer -> Handler] /\ \A x \in Writer : Sound(writer'[x])
  <2>1. Sound(Rest(todo)) /\ Rest(todo).pc \in {"idle", "apply"}
    BY RestIs
  <2> QED
    BY <1>4, <2>1, BecomesIs
<1>5. CASE ApplyRefused(w)
  BY <1>3, <1>4, <1>5 DEF TypeOK
<1>6. CASE \E b \in Batch : Call(w, b) \/ \E tx \in 1..MaxTx : CommitTransaction(w, tx, b)
  <2>1. PICK b \in Batch : Call(w, b) \/ \E tx \in 1..MaxTx : CommitTransaction(w, tx, b)
    BY <1>6
  <2> QED
    BY <1>1, <1>2, <1>4, <2>1 DEF Idle
<1> QED
  BY <1>5, <1>6 DEF Begins

LEMMA ReadIs ==
    ASSUME TypeOK, NEW w \in Writer, NEW d \in Doc, ReadDoc(w, d)
    PROVE  /\ writer[w].pc = "read" /\ writer'[w].pc \in {"read", "truncate"}
           /\ \A e \in Doc : writer'[w].copy[e] = IF e = d THEN docs[d] ELSE writer[w].copy[e]
           /\ writer'[w].pc = "truncate" => \A e \in Doc : writer'[w].copy[e] # Unread
           /\ \A x \in Writer : x # w => writer'[x] = writer[x]
           /\ writer' \in [Writer -> Handler] /\ \A x \in Writer : Sound(writer'[x])
<1> DEFINE read == WithCopy(writer[w], d)
           h == IF AllRead(read) THEN At(read, "truncate") ELSE read
<1>1. writer[w] \in Handler /\ Sound(writer[w]) /\ docs \in [Doc -> Version]
  BY HandlersSound DEF TypeOK
<1>2. /\ read \in Handler /\ read.pc = writer[w].pc /\ read.doc = writer[w].doc
      /\ \A e \in Doc : read.copy[e] = IF e = d THEN docs[d] ELSE writer[w].copy[e]
  BY <1>1, WithCopyIs
<1>3. writer[w].pc = "read" /\ Becomes(w, h)
  BY DEF ReadDoc
<1> HIDE DEF read
<1>4. /\ At(read, "truncate") \in Handler /\ At(read, "truncate").pc = "truncate"
      /\ At(read, "truncate").doc = read.doc /\ At(read, "truncate").copy = read.copy
  BY <1>2, AtIs DEF Step
<1>5. /\ h \in Handler /\ h.doc = writer[w].doc /\ h.pc \in {"read", "truncate"}
      /\ h.copy = read.copy
      /\ h.pc = "truncate" => \A e \in Doc : h.copy[e] # Unread
  BY <1>2, <1>3, <1>4 DEF AllRead
<1> HIDE DEF h
<1>6. Sound(h)
  BY <1>1, <1>3, <1>5 DEF Sound, AllRead
<1> QED
  BY <1>2, <1>3, <1>5, <1>6, BecomesIs

LEMMA TruncateIs ==
    ASSUME TypeOK, NEW w \in Writer, Truncate(w)
    PROVE  /\ writer[w].pc = "truncate" /\ writer'[w].pc = "fill"
           /\ writer'[w].copy = writer[w].copy /\ disk' \in [Doc -> Version]
           /\ \A x \in Writer : x # w => writer'[x] = writer[x]
           /\ writer' \in [Writer -> Handler] /\ \A x \in Writer : Sound(writer'[x])
<1> DEFINE h == At(writer[w], "fill")
<1>1. writer[w] \in Handler /\ Sound(writer[w])
  BY HandlersSound
<1>2. h \in Handler /\ h.pc = "fill" /\ h.doc = writer[w].doc /\ h.copy = writer[w].copy
  BY <1>1, AtIs DEF Step
<1>3. writer[w].pc = "truncate" /\ Becomes(w, h) /\ disk' \in [Doc -> Version]
  BY DEF Truncate, NoDocs, Version, Absent
<1> HIDE DEF h
<1>4. Sound(h)
  BY <1>1, <1>2, <1>3 DEF Sound, AllRead
<1> QED
  BY <1>2, <1>3, <1>4, BecomesIs

LEMMA NumberIs ==
    ASSUME TypeOK, NEW w \in Writer, Number(w)
    PROVE  /\ seq' = seq + 1 /\ seq' \in Nat
           /\ writer[w].pc = "number" /\ writer'[w].pc = "append" /\ writer'[w].seq = seq + 1
           /\ \A x \in Writer : x # w => writer'[x] = writer[x]
           /\ writer' \in [Writer -> Handler] /\ \A x \in Writer : Sound(writer'[x])
<1> DEFINE h == Numbered(writer[w], seq + 1)
<1>1. writer[w] \in Handler /\ Sound(writer[w])
  BY HandlersSound
<1>2. seq \in Nat /\ seq + 1 \in Nat
  BY DEF TypeOK
<1>3. h \in Handler /\ h.pc = "append" /\ h.seq = seq + 1 /\ h.doc = writer[w].doc
  BY <1>1, <1>2, NumberedIs
<1>4. writer[w].pc = "number" /\ Becomes(w, h) /\ seq' = seq + 1
  BY DEF Number
<1> HIDE DEF h
<1>5. Sound(h)
  BY <1>1, <1>3, <1>4 DEF Sound
<1> QED
  BY <1>2, <1>3, <1>4, <1>5, BecomesIs

LEMMA AppendIs ==
    ASSUME TypeOK, NEW w \in Writer, AppendEvent(w)
    PROVE  /\ writer[w].pc = "append" /\ writer'[w].pc \in {"idle", "apply"}
           /\ EventOf(w) \in Event
           /\ \A x \in Writer : x # w => writer'[x] = writer[x]
           /\ writer' \in [Writer -> Handler] /\ \A x \in Writer : Sound(writer'[x])
<1>1. writer[w] \in Handler /\ Sound(writer[w])
  BY HandlersSound
<1>2. writer[w].pc = "append" /\ Becomes(w, Rest(writer[w].todo))
  BY DEF AppendEvent
<1>3. writer[w].todo \in Seq(Write)
  BY <1>1 DEF Handler
<1>4. Sound(Rest(writer[w].todo)) /\ Rest(writer[w].todo).pc \in {"idle", "apply"}
  BY <1>3, RestIs
<1>5. EventOf(w) \in Event
  <2>1. writer[w].doc \in Doc
    BY <1>1, <1>2 DEF Sound
  <2>2. writer[w].ver \in Version /\ writer[w].seq \in Nat /\ appends + 1 \in Nat
    BY <1>1 DEF Handler, TypeOK
  <2> QED
    BY <2>1, <2>2 DEF EventOf, Event
<1> QED
  BY <1>2, <1>4, <1>5, BecomesIs

-----------------------------------------------------------------------------
(* Types.                                                                  *)

(* Steps that change no document, event or handler. *)
Transacts == BeginTransaction \/ \E tx \in 1..MaxTx : Rollback(tx)

LEMMA TypeInit == Init => TypeOK
<1> SUFFICES ASSUME Init PROVE TypeOK
  OBVIOUS
<1>1. NoDocs \in [Doc -> Version]
  BY DEF NoDocs, Version, Absent
<1>2. NoWriter \in Handler /\ NoWriter.pc = "idle"
  BY DEF NoWriter, Handler, Step, NoDocs, Version, Absent
<1>3. [i \in Slot |-> NoEvent] \in [Slot -> Event \cup {NoEvent}]
  OBVIOUS
<1>4. /\ writer \in [Writer -> Handler]
      /\ \A w \in Writer : writer[w].pc = "idle"
  BY <1>2 DEF Init
<1>5. 0 \in Slot /\ 0 \in 0..LogSize /\ 0 \in 0..MaxExits /\ 0 \in 0..MaxTx /\ 0 \in 0..MaxWrites
  BY BoundsAssumption DEF Slot
<1>6. \A w \in Writer : ~Saving(w) /\ ~Notifying(w)
  BY <1>4 DEF Saving, Notifying
<1> QED
  BY <1>1, <1>3, <1>4, <1>5, <1>6 DEF Init, TypeOK

(* Every step keeps every variable of its type. *)
LEMMA TypeStep == TypeOK /\ [Next]_vars => TypeOK'
<1> SUFFICES ASSUME TypeOK, [Next]_vars PROVE TypeOK'
  OBVIOUS
<1> DEFINE HandlersOK == writer' \in [Writer -> Handler] /\ \A x \in Writer : Sound(writer'[x])
           LogOK == UNCHANGED <<seq, changeLog, logStart, logLen, appends, inOrder>>
           HistoryOK == UNCHANGED <<up, exits, asked, begun>>
<1>a. ASSUME HandlersOK, LogOK, HistoryOK, UNCHANGED <<transactions>>,
             docs' \in [Doc -> Version], disk' \in [Doc -> Version],
             writes' \in Nat, overlap' \in BOOLEAN
      PROVE  TypeOK'
  BY <1>a, SoundHandlers DEF TypeOK
<1>1. ASSUME NEW w \in Writer, Begins(w) PROVE TypeOK'
  BY <1>1, BeginsIs, SoundHandlers DEF TypeOK, log, process
<1>2. ASSUME NEW w \in Writer, Apply(w) PROVE TypeOK'
  <2>1. LogOK /\ HistoryOK /\ UNCHANGED <<transactions, disk>>
    BY <1>2 DEF Apply, log, process
  <2> QED
    BY <1>2, <1>a, <2>1, AppliedIs DEF TypeOK
<1>3. ASSUME NEW w \in Writer, NEW d \in Doc, ReadDoc(w, d) PROVE TypeOK'
  <2>1. LogOK /\ HistoryOK /\ UNCHANGED <<transactions, docs, disk, writes, overlap>>
    BY <1>3 DEF ReadDoc, log, process
  <2> QED
    BY <1>3, <1>a, <2>1, ReadIs DEF TypeOK
<1>4. ASSUME NEW w \in Writer, Truncate(w) PROVE TypeOK'
  <2>1. LogOK /\ HistoryOK /\ UNCHANGED <<transactions, docs, writes, overlap>>
    BY <1>4 DEF Truncate, log, process
  <2> QED
    BY <1>4, <1>a, <2>1, TruncateIs DEF TypeOK
<1>5. ASSUME NEW w \in Writer, Fill(w) PROVE TypeOK'
  <2>1. LogOK /\ HistoryOK /\ UNCHANGED <<transactions, docs, writes, overlap>>
    BY <1>5 DEF Fill, log, process
  <2>2. NoDocs \in [Doc -> Version]
    BY DEF NoDocs, Version, Absent
  <2>3. writer[w].copy \in [Doc -> Version]
    <3>1. /\ writer[w].copy \in [Doc -> Version \cup {Unread}]
          /\ \A e \in Doc : writer[w].copy[e] # Unread
      BY <1>5, HandlersSound DEF Fill, Handler, Sound, AllRead
    <3> QED
      BY <3>1
  <2>4. disk' \in [Doc -> Version]
    BY <1>5, <2>2, <2>3 DEF Fill
  <2> QED
    BY <1>5, <1>a, <2>1, <2>4, FilledIs DEF TypeOK
<1>6. ASSUME NEW w \in Writer, Number(w) PROVE TypeOK'
  <2>1. UNCHANGED <<docs, disk, transactions, changeLog, logStart, logLen, appends, inOrder,
                    up, exits, begun, asked, writes, overlap>>
    BY <1>6 DEF Number, process
  <2> QED
    BY <1>6, <2>1, NumberIs, SoundHandlers DEF TypeOK
<1>7. ASSUME NEW w \in Writer, AppendEvent(w) PROVE TypeOK'
  <2>1. UNCHANGED <<docs, disk, transactions, seq, up, exits, begun, asked, writes, overlap>>
    BY <1>7 DEF AppendEvent, process
  <2>2. logStart \in Slot /\ logLen \in 0..LogSize
    BY DEF TypeOK
  <2>3. changeLog' \in [Slot -> Event \cup {NoEvent}]
    BY <1>7, AppendIs DEF AppendEvent, TypeOK
  <2>4. logLen' \in 0..LogSize
    BY <1>7, <2>2, BoundsAssumption DEF AppendEvent, LenAfter
  <2>5. logStart' \in Slot
    BY <1>7, <2>2, BoundsAssumption, OverwrittenSlot DEF AppendEvent, StartAfter, Slot
  <2>6. appends' \in Nat /\ inOrder' \in BOOLEAN
    BY <1>7 DEF AppendEvent, TypeOK
  <2>7. HandlersOK
    BY <1>7, AppendIs
  <2> QED
    BY <2>1, <2>2, <2>3, <2>4, <2>5, <2>6, <2>7, SoundHandlers DEF TypeOK
<1>8. ASSUME Transacts PROVE TypeOK'
  <2>1. /\ UNCHANGED <<docs, disk, writer, writes, overlap, asked, up, exits>> /\ LogOK
        /\ begun' \in 0..MaxTx /\ transactions' \in SUBSET (1..MaxTx)
    <3>1. begun \in 0..MaxTx /\ transactions \in SUBSET (1..MaxTx)
      BY DEF TypeOK
    <3>2. CASE BeginTransaction
      <4>1. begun + 1 \in 1..MaxTx
        BY <3>1, <3>2, BoundsAssumption DEF BeginTransaction
      <4> QED
        BY <3>1, <3>2, <4>1 DEF BeginTransaction, log, process
    <3>3. CASE \E tx \in 1..MaxTx : Rollback(tx)
      BY <3>1, <3>3 DEF Rollback, log, process
    <3> QED
      BY <1>8, <3>2, <3>3 DEF Transacts
  <2>2. HandlersOK
    BY <2>1, HandlersSound
  <2> QED
    BY <2>1, <2>2, SoundHandlers DEF TypeOK
<1>9. ASSUME Exit PROVE TypeOK'
  <2>1. NoDocs \in [Doc -> Version]
    BY DEF NoDocs, Version, Absent
  <2>2. NoWriter \in Handler /\ NoWriter.pc = "idle"
    BY DEF NoWriter, Handler, Step, NoDocs, Version, Absent
  <2>3. HandlersOK
    BY <1>9, <2>2 DEF Exit, Sound
  <2>4. changeLog' \in [Slot -> Event \cup {NoEvent}] /\ logStart' \in Slot /\ logLen' \in 0..LogSize
    BY <1>9, BoundsAssumption DEF Exit, Slot
  <2>5. exits' \in 0..MaxExits
    BY <1>9, BoundsAssumption DEF Exit, TypeOK
  <2> QED
    BY <1>9, <2>1, <2>3, <2>4, <2>5, SoundHandlers DEF Exit, TypeOK
<1>10. ASSUME Restart PROVE TypeOK'
  <2>1. /\ LogOK /\ UNCHANGED <<disk, transactions, writer, exits, begun, asked, writes, overlap>>
        /\ docs' = disk /\ up' = TRUE
    BY <1>10 DEF Restart, log
  <2>2. HandlersOK
    BY <2>1, HandlersSound
  <2> QED
    BY <2>1, <2>2, SoundHandlers DEF TypeOK
<1>11. ASSUME UNCHANGED vars PROVE TypeOK'
  <2>1. /\ LogOK /\ HistoryOK
        /\ UNCHANGED <<docs, disk, transactions, writer, writes, overlap, begun>>
    BY <1>11 DEF vars, log, process
  <2>2. HandlersOK
    BY <2>1, HandlersSound
  <2> QED
    BY <1>a, <2>1, <2>2 DEF TypeOK
<1> QED
  BY <1>1, <1>2, <1>3, <1>4, <1>5, <1>6, <1>7, <1>8, <1>9, <1>10, <1>11
     DEF Next, Requests, Begins, Transacts, Applies, Persists, Process

(* TypeOK: every reachable state of the store, its log, its file and its
   handlers is of the declared types, a handler that is saving or notifying
   has a document, and a file is only ever filled with a complete copy. *)
THEOREM StoreTypeCorrect == Spec => []TypeOK
  BY TypeInit, TypeStep, PTL DEF Spec

-----------------------------------------------------------------------------
(* The log.                                                                *)

LogInv == LogIsRecent /\ NumbersKept

LEMMA LogInit == Init => LogInv
<1> SUFFICES ASSUME Init PROVE LogInv
  OBVIOUS
<1>1. seq = 0 /\ logLen = 0 /\ appends = 0 /\ inOrder
  BY DEF Init
<1> QED
  BY <1>1, BoundsAssumption DEF LogInv, LogIsRecent, NumbersKept

(* A step that leaves the log and every handler in flight alone. *)
LEMMA LogKept ==
    ASSUME LogInv, UNCHANGED <<seq, changeLog, logStart, logLen, appends, inOrder>>,
           \A w \in Writer : writer[w].pc = "append" => writer'[w] = writer[w]
    PROVE  LogInv'
<1>1. \A i : Entry(i)' = Entry(i)
  BY DEF Entry
<1>2. LogIsRecent'
  BY <1>1 DEF LogInv, LogIsRecent
<1>3. NumbersKept'
  <2> SUFFICES ASSUME inOrder
               PROVE  /\ \A i \in 0..logLen - 1 : Entry(i)'.seq = Entry(i)'.pos
                      /\ \A n \in appends + 1..seq :
                            \E w \in Writer : writer'[w].pc = "append" /\ writer'[w].seq = n
    BY DEF NumbersKept, InFlight
  <2>1. \A i \in 0..logLen - 1 : Entry(i).seq = Entry(i).pos
    BY DEF LogInv, NumbersKept
  <2>2. ASSUME NEW n \in appends + 1..seq
        PROVE  \E w \in Writer : writer'[w].pc = "append" /\ writer'[w].seq = n
    <3>1. PICK w \in Writer : writer[w].pc = "append" /\ writer[w].seq = n
      BY DEF LogInv, NumbersKept, InFlight
    <3> QED
      BY <3>1
  <2> QED
    BY <1>1, <2>1, <2>2
<1> QED
  BY <1>2, <1>3 DEF LogInv

(* The entries after an event has been appended. *)
LEMMA EntriesAfter ==
    ASSUME TypeOK, NEW w \in Writer, AppendEvent(w)
    PROVE  /\ logLen < LogSize =>
                /\ logLen' = logLen + 1
                /\ \A i \in 0..logLen - 1 : Entry(i)' = Entry(i)
                /\ \A i \in {logLen} : Entry(i)' = EventOf(w)
           /\ logLen = LogSize =>
                /\ logLen' = LogSize /\ Entry(LogSize - 1)' = EventOf(w)
                /\ \A i \in 0..LogSize - 2 : Entry(i)' = Entry(i + 1)
<1>1. /\ LogSize \in Nat \ {0} /\ logStart \in 0..LogSize - 1 /\ logLen \in 0..LogSize
      /\ DOMAIN changeLog = 0..LogSize - 1
  BY BoundsAssumption DEF TypeOK, Slot
<1> DEFINE p == (logStart + logLen) % LogSize
           v == EventOf(w)
<1>2. changeLog' = [changeLog EXCEPT ![p] = v] /\ logLen' = LenAfter /\ logStart' = StartAfter
  BY DEF AppendEvent
<1>3. ASSUME p \in 0..LogSize - 1
      PROVE  changeLog'[p] = v /\ \A q \in 0..LogSize - 1 : q # p => changeLog'[q] = changeLog[q]
  <2> HIDE DEF p, v
  <2> QED
    BY <1>1, <1>2, <1>3
<1>4. ASSUME NEW i \in 0..LogSize - 1 PROVE (logStart + i) % LogSize \in 0..LogSize - 1
  BY <1>1, AddedSlot
<1>5. CASE logLen < LogSize
  <2>1. logLen' = logLen + 1 /\ logStart' = logStart
    BY <1>2, <1>5 DEF LenAfter, StartAfter
  <2>2. logLen \in 0..LogSize - 1
    BY <1>1, <1>5
  <2>3. p \in 0..LogSize - 1 /\ \A i \in 0..logLen - 1 : (logStart + i) % LogSize # p
    BY <1>1, <2>2, AddedSlot
  <2>4. \A i \in 0..logLen - 1 : (logStart + i) % LogSize \in 0..LogSize - 1
    BY <1>1, <1>4, <2>2
  <2>5. \A i : Entry(i)' = changeLog'[(logStart + i) % LogSize]
    BY <2>1 DEF Entry
  <2>6. ASSUME NEW i \in {logLen} PROVE Entry(i)' = v
    <3>1. (logStart + i) % LogSize = p
      OBVIOUS
    <3> HIDE DEF p, v
    <3> QED
      BY <1>3, <2>3, <2>5, <3>1
  <2> HIDE DEF p, v
  <2>7. \A i \in 0..logLen - 1 : Entry(i)' = Entry(i)
    BY <1>3, <2>3, <2>4, <2>5 DEF Entry
  <2> QED
    BY <1>1, <1>5, <2>1, <2>6, <2>7 DEF v
<1>6. CASE logLen = LogSize
  <2>1. logLen' = LogSize /\ logStart' = (logStart + 1) % LogSize
    BY <1>1, <1>2, <1>6 DEF LenAfter, StartAfter
  <2>2. /\ p = logStart
        /\ (((logStart + 1) % LogSize) + (LogSize - 1)) % LogSize = logStart
        /\ \A i \in 0..LogSize - 2 :
              /\ (((logStart + 1) % LogSize) + i) % LogSize = (logStart + (i + 1)) % LogSize
              /\ (logStart + (i + 1)) % LogSize # logStart
    BY <1>1, <1>6, OverwrittenSlot
  <2>3. \A i : Entry(i)' = changeLog'[(((logStart + 1) % LogSize) + i) % LogSize]
    BY <2>1 DEF Entry
  <2>4. \A i \in 0..LogSize - 2 : (logStart + (i + 1)) % LogSize \in 0..LogSize - 1
    <3> TAKE i \in 0..LogSize - 2
    <3>1. i + 1 \in 0..LogSize - 1
      BY <1>1
    <3> QED
      BY <1>4, <3>1
  <2>5. changeLog'[logStart] = v /\ \A q \in 0..LogSize - 1 : q # logStart => changeLog'[q] = changeLog[q]
    BY <1>1, <1>3, <2>2
  <2> HIDE DEF p, v
  <2>6. Entry(LogSize - 1)' = v
    BY <2>2, <2>3, <2>5
  <2>7. \A i \in 0..LogSize - 2 : Entry(i)' = Entry(i + 1)
    BY <2>2, <2>3, <2>4, <2>5 DEF Entry
  <2> QED
    BY <1>1, <1>6, <2>1, <2>6, <2>7 DEF v
<1> QED
  BY <1>5, <1>6

(* An appended event takes the place behind the last. *)
LEMMA LogAppend == ASSUME TypeOK, LogInv, NEW w \in Writer, AppendEvent(w) PROVE LogInv'
<1>1. /\ LogSize \in Nat \ {0} /\ logLen \in 0..LogSize /\ appends \in Nat /\ seq \in Nat
      /\ logLen = IF appends < LogSize THEN appends ELSE LogSize
      /\ \A i \in 0..logLen - 1 : Entry(i).pos = appends - logLen + i + 1
  BY BoundsAssumption DEF TypeOK, LogInv, LogIsRecent
<1>2. appends' = appends + 1 /\ seq' = seq /\ inOrder' = (inOrder /\ writer[w].seq = appends + 1)
  BY DEF AppendEvent
<1>3. EventOf(w).pos = appends + 1 /\ EventOf(w).seq = writer[w].seq
  BY DEF EventOf
<1>4. /\ writer[w].pc = "append"
      /\ \A x \in Writer : x # w => writer'[x] = writer[x]
  BY AppendIs
<1>5. /\ logLen' = IF appends' < LogSize THEN appends' ELSE LogSize
      /\ \A i \in 0..logLen' - 1 : Entry(i)'.pos = appends' - logLen' + i + 1
  <2>1. CASE logLen < LogSize
    <3>1. /\ logLen' = logLen + 1
          /\ \A i \in 0..logLen - 1 : Entry(i)' = Entry(i)
          /\ \A i \in {logLen} : Entry(i)' = EventOf(w)
      BY <2>1, EntriesAfter
    <3>2. appends = logLen
      BY <1>1, <2>1
    <3>3. ASSUME NEW i \in 0..logLen' - 1 PROVE Entry(i)'.pos = appends' - logLen' + i + 1
      <4>1. i \in 0..logLen - 1 \/ i \in {logLen}
        BY <1>1, <3>1
      <4> QED
        BY <1>1, <1>2, <1>3, <3>1, <3>2, <4>1
    <3> QED
      BY <1>1, <1>2, <2>1, <3>1, <3>2, <3>3
  <2>2. CASE logLen = LogSize
    <3>1. /\ logLen' = LogSize /\ Entry(LogSize - 1)' = EventOf(w)
          /\ \A i \in 0..LogSize - 2 : Entry(i)' = Entry(i + 1)
      BY <2>2, EntriesAfter
    <3>2. appends >= LogSize
      BY <1>1, <2>2
    <3>3. ASSUME NEW i \in 0..logLen' - 1 PROVE Entry(i)'.pos = appends' - logLen' + i + 1
      <4>1. CASE i = LogSize - 1
        BY <1>1, <1>2, <1>3, <3>1, <4>1
      <4>2. CASE i \in 0..LogSize - 2
        <5>1. i + 1 \in 0..logLen - 1 /\ Entry(i)' = Entry(i + 1)
          BY <1>1, <2>2, <3>1, <4>2
        <5>2. Entry(i + 1).pos = appends - logLen + (i + 1) + 1
          BY <1>1, <5>1
        <5> QED
          BY <1>1, <1>2, <2>2, <3>1, <4>2, <5>1, <5>2
      <4> QED
        BY <1>1, <3>1, <4>1, <4>2
    <3> QED
      BY <1>1, <1>2, <3>1, <3>2, <3>3
  <2> QED
    BY <1>1, <2>1, <2>2
<1>6. ASSUME inOrder, writer[w].seq = appends + 1
      PROVE  /\ \A i \in 0..logLen' - 1 : Entry(i)'.seq = Entry(i)'.pos
             /\ \A n \in appends' + 1..seq' :
                   \E x \in Writer : writer'[x].pc = "append" /\ writer'[x].seq = n
  <2>1. \A i \in 0..logLen - 1 : Entry(i).seq = Entry(i).pos
    BY <1>6 DEF LogInv, NumbersKept
  <2>2. EventOf(w).seq = EventOf(w).pos
    BY <1>3, <1>6
  <2>3. \A i \in 0..logLen' - 1 : Entry(i)'.seq = Entry(i)'.pos
    <3>1. CASE logLen < LogSize
      <4>1. /\ logLen' = logLen + 1
            /\ \A i \in 0..logLen - 1 : Entry(i)' = Entry(i)
            /\ \A i \in {logLen} : Entry(i)' = EventOf(w)
        BY <3>1, EntriesAfter
      <4>2. ASSUME NEW i \in 0..logLen' - 1 PROVE i \in 0..logLen - 1 \/ i \in {logLen}
        BY <1>1, <4>1
      <4> QED
        BY <2>1, <2>2, <4>1, <4>2
    <3>2. CASE logLen = LogSize
      <4>1. /\ logLen' = LogSize /\ Entry(LogSize - 1)' = EventOf(w)
            /\ \A i \in 0..LogSize - 2 : Entry(i)' = Entry(i + 1)
        BY <3>2, EntriesAfter
      <4>2. ASSUME NEW i \in 0..logLen' - 1
            PROVE  i = LogSize - 1 \/ (i \in 0..LogSize - 2 /\ i + 1 \in 0..logLen - 1)
        BY <1>1, <3>2, <4>1
      <4> QED
        BY <2>1, <2>2, <4>1, <4>2
    <3> QED
      BY <1>1, <3>1, <3>2
  <2>4. ASSUME NEW n \in appends' + 1..seq'
        PROVE  \E x \in Writer : writer'[x].pc = "append" /\ writer'[x].seq = n
    <3>1. n \in appends + 1..seq /\ n # appends + 1
      BY <1>1, <1>2
    <3>2. PICK x \in Writer : writer[x].pc = "append" /\ writer[x].seq = n
      BY <1>6, <3>1 DEF LogInv, NumbersKept, InFlight
    <3>3. x # w
      BY <1>6, <3>1, <3>2
    <3> QED
      BY <1>4, <3>2, <3>3
  <2> QED
    BY <2>3, <2>4
<1>7. NumbersKept'
  BY <1>2, <1>6 DEF NumbersKept, InFlight
<1> QED
  BY <1>5, <1>7 DEF LogInv, LogIsRecent

(* Every step keeps the log in order. *)
LEMMA LogStep == TypeOK /\ LogInv /\ [Next]_vars => LogInv'
<1> SUFFICES ASSUME TypeOK, LogInv, [Next]_vars PROVE LogInv'
  OBVIOUS
<1>1. ASSUME NEW w \in Writer, Begins(w) PROVE LogInv'
  <2>1. UNCHANGED log
    BY <1>1, BeginsIs
  <2>2. ASSUME NEW x \in Writer, writer[x].pc = "append" PROVE writer'[x] = writer[x]
    BY <1>1, <2>2, BeginsIs
  <2> QED
    BY <2>1, <2>2, LogKept DEF log
<1>2. ASSUME NEW w \in Writer, Apply(w) PROVE LogInv'
  <2>1. UNCHANGED log /\ writer[w].pc = "apply"
    BY <1>2 DEF Apply
  <2>2. ASSUME NEW x \in Writer, writer[x].pc = "append" PROVE writer'[x] = writer[x]
    BY <1>2, <2>1, <2>2, AppliedIs
  <2> QED
    BY <2>1, <2>2, LogKept DEF log
<1>3. ASSUME NEW w \in Writer, NEW d \in Doc, ReadDoc(w, d) PROVE LogInv'
  <2>1. UNCHANGED log
    BY <1>3 DEF ReadDoc
  <2>2. ASSUME NEW x \in Writer, writer[x].pc = "append" PROVE writer'[x] = writer[x]
    BY <1>3, <2>2, ReadIs
  <2> QED
    BY <2>1, <2>2, LogKept DEF log
<1>4. ASSUME NEW w \in Writer, Truncate(w) PROVE LogInv'
  <2>1. UNCHANGED log
    BY <1>4 DEF Truncate
  <2>2. ASSUME NEW x \in Writer, writer[x].pc = "append" PROVE writer'[x] = writer[x]
    BY <1>4, <2>2, TruncateIs
  <2> QED
    BY <2>1, <2>2, LogKept DEF log
<1>5. ASSUME NEW w \in Writer, Fill(w) PROVE LogInv'
  <2>1. UNCHANGED log /\ writer[w].pc # "append"
    BY <1>5 DEF Fill
  <2>2. ASSUME NEW x \in Writer, writer[x].pc = "append" PROVE writer'[x] = writer[x]
    BY <1>5, <2>1, <2>2, FilledIs DEF Saving
  <2> QED
    BY <2>1, <2>2, LogKept DEF log
<1>6. ASSUME NEW w \in Writer, Number(w) PROVE LogInv'
  <2>1. /\ seq' = seq + 1 /\ writer[w].pc = "number"
        /\ writer'[w].pc = "append" /\ writer'[w].seq = seq + 1
        /\ \A x \in Writer : x # w => writer'[x] = writer[x]
    BY <1>6, NumberIs
  <2>2. UNCHANGED <<changeLog, logStart, logLen, appends, inOrder>>
    BY <1>6 DEF Number
  <2>3. \A i : Entry(i)' = Entry(i)
    BY <2>2 DEF Entry
  <2>4. LogIsRecent'
    BY <2>2, <2>3 DEF LogInv, LogIsRecent
  <2>5. seq \in Nat /\ appends \in Nat
    BY DEF TypeOK
  <2>6. ASSUME inOrder, NEW n \in appends + 1..seq + 1
        PROVE  \E x \in Writer : writer'[x].pc = "append" /\ writer'[x].seq = n
    <3>1. CASE n = seq + 1
      BY <2>1, <3>1
    <3>2. CASE n \in appends + 1..seq
      <4>1. PICK x \in Writer : writer[x].pc = "append" /\ writer[x].seq = n
        BY <2>6, <3>2 DEF LogInv, NumbersKept, InFlight
      <4> QED
        BY <2>1, <4>1
    <3> QED
      BY <2>5, <3>1, <3>2
  <2>7. NumbersKept'
    BY <2>1, <2>2, <2>3, <2>6 DEF LogInv, NumbersKept, InFlight
  <2> QED
    BY <2>4, <2>7 DEF LogInv
<1>7. ASSUME NEW w \in Writer, AppendEvent(w) PROVE LogInv'
  BY <1>7, LogAppend
<1>8. ASSUME Transacts \/ Restart \/ UNCHANGED vars PROVE LogInv'
  <2>1. UNCHANGED log /\ UNCHANGED writer
    BY <1>8 DEF Transacts, BeginTransaction, Rollback, Restart, vars
  <2> QED
    BY <2>1, LogKept DEF log
<1>9. ASSUME Exit PROVE LogInv'
  <2>1. seq' = 0 /\ logLen' = 0 /\ appends' = 0
    BY <1>9 DEF Exit
  <2> QED
    BY <2>1, BoundsAssumption DEF LogInv, LogIsRecent, NumbersKept
<1> QED
  BY <1>1, <1>2, <1>3, <1>4, <1>5, <1>6, <1>7, <1>8, <1>9
     DEF Next, Requests, Begins, Transacts, Applies, Persists, Process

LEMMA ResumeFromLog == TypeOK /\ LogInv => ResumeComplete
<1> SUFFICES ASSUME TypeOK, LogInv, inOrder, NEW after \in 0..seq, Resumable(after),
                    NEW n \in after + 1..seq
             PROVE  \/ \E i \in Since(after) : Entry(i).seq = n
                    \/ \E w \in InFlight : writer[w].seq = n
  BY DEF ResumeComplete
<1>1. /\ LogSize \in Nat \ {0} /\ logLen \in 0..LogSize /\ appends \in Nat /\ seq \in Nat
      /\ logLen = IF appends < LogSize THEN appends ELSE LogSize
      /\ \A i \in 0..logLen - 1 : Entry(i).pos = appends - logLen + i + 1
      /\ \A i \in 0..logLen - 1 : Entry(i).seq = Entry(i).pos
      /\ \A m \in appends + 1..seq : \E w \in InFlight : writer[w].seq = m
  BY BoundsAssumption DEF TypeOK, LogInv, LogIsRecent, NumbersKept
<1>2. CASE n > appends
  <2>1. n \in appends + 1..seq
    BY <1>1, <1>2
  <2> QED
    BY <1>1, <2>1
<1>3. CASE n <= appends
  <2>1. appends > 0 /\ logLen > 0 /\ 0 \in 0..logLen - 1
    BY <1>1, <1>3
  <2>2. Entry(0).seq <= after + 1
    BY <2>1 DEF Resumable
  <2>3. Entry(0).seq = appends - logLen + 0 + 1
    BY <1>1, <2>1
  <2> DEFINE k == n - (appends - logLen + 1)
  <2>4. k \in 0..logLen - 1
    BY <1>1, <1>3, <2>2, <2>3
  <2>5. Entry(k).seq = appends - logLen + k + 1
    <3> HIDE DEF k
    <3> QED
      BY <1>1, <2>4
  <2>6. Entry(k).seq = n
    BY <1>1, <2>5
  <2>7. k \in Since(after)
    <3> HIDE DEF k
    <3> QED
      BY <1>1, <2>4, <2>6 DEF Since
  <2> QED
    BY <2>6, <2>7
<1> QED
  BY <1>1, <1>2, <1>3

LEMMA LogCorrect == Spec => [](TypeOK /\ LogInv)
<1>1. Init => TypeOK /\ LogInv
  BY TypeInit, LogInit
<1>2. (TypeOK /\ LogInv) /\ [Next]_vars => (TypeOK /\ LogInv)'
  BY TypeStep, LogStep
<1> QED
  BY <1>1, <1>2, PTL DEF Spec

(* LogIsRecent: whatever the handlers do at the same time, the ring of
   changes holds the latest events appended, without gaps, oldest first. *)
THEOREM LogHoldsTheLatest == Spec => []LogIsRecent
<1>1. TypeOK /\ LogInv => LogIsRecent
  BY DEF LogInv
<1> QED
  BY <1>1, LogCorrect, PTL

(* ResumeComplete: as long as events were appended in the order of their
   numbers, ChangesSince either says that changes are missing or answers
   every later change that is not still to be appended. *)
THEOREM ResumptionComplete == Spec => []ResumeComplete
  BY ResumeFromLog, LogCorrect, PTL

-----------------------------------------------------------------------------
(* The file.                                                               *)

FileInv == SoleSaver /\ CopiesCurrent /\ FileCurrent /\ NobodyWhenDown

LEMMA FileInit == Init => FileInv
<1> SUFFICES ASSUME Init PROVE FileInv
  OBVIOUS
<1>1. /\ \A w \in Writer : writer[w].pc = "idle"
      /\ up /\ disk = docs
  BY DEF Init, NoWriter
<1> QED
  BY <1>1 DEF FileInv, SoleSaver, CopiesCurrent, FileCurrent, NobodyWhenDown, Saving

(* A step that leaves the documents, the file and those who save alone. *)
LEMMA FileKept ==
    ASSUME FileInv, up, up', UNCHANGED <<docs, disk, overlap>>,
           \A w \in Writer : \/ writer'[w] = writer[w]
                             \/ ~Saving(w) /\ writer'[w].pc \in {"idle", "apply", "append"}
    PROVE  FileInv'
<1>1. \A w \in Writer : (writer'[w].pc \in {"read", "truncate", "fill", "spoil"}) => writer'[w] = writer[w]
  BY DEF Saving
<1>2. \A w \in Writer : Saving(w)' <=> Saving(w)
  BY DEF Saving
<1>3. SoleSaver'
  BY <1>2 DEF FileInv, SoleSaver
<1>4. CopiesCurrent'
  BY <1>1 DEF FileInv, CopiesCurrent
<1>5. FileCurrent'
  BY <1>2 DEF FileInv, FileCurrent
<1> QED
  BY <1>3, <1>4, <1>5 DEF FileInv, NobodyWhenDown

(* A step of the only handler that saves. *)
LEMMA SaverSteps ==
    ASSUME FileInv, up, up', UNCHANGED <<docs, overlap>>, NEW w \in Writer, Saving(w),
           \A x \in Writer : x # w /\ ~Saving(x) => writer'[x] = writer[x],
           ~overlap =>
              /\ writer'[w].pc = "read" => \A d \in Doc : writer'[w].copy[d] \in {Unread, docs[d]}
              /\ writer'[w].pc \in {"truncate", "fill"} => \A d \in Doc : writer'[w].copy[d] = docs[d]
              /\ writer'[w].pc # "spoil"
              /\ DataDir /\ ~Saving(w)' => disk' = docs
    PROVE  FileInv'
<1>1. ASSUME ~overlap, NEW x \in Writer, x # w PROVE writer'[x] = writer[x] /\ ~Saving(x) /\ ~Saving(x)'
  <2>1. ~Saving(x) /\ writer'[x] = writer[x]
    BY <1>1 DEF FileInv, SoleSaver
  <2> QED
    BY <2>1 DEF Saving
<1>2. SoleSaver'
  BY <1>1 DEF SoleSaver
<1>3. CopiesCurrent'
  <2> SUFFICES ASSUME ~overlap, NEW x \in Writer
               PROVE  /\ writer'[x].pc = "read" => \A d \in Doc : writer'[x].copy[d] \in {Unread, docs[d]}
                      /\ writer'[x].pc \in {"truncate", "fill"} => \A d \in Doc : writer'[x].copy[d] = docs[d]
                      /\ writer'[x].pc # "spoil"
    BY DEF CopiesCurrent
  <2>1. CASE x = w
    BY <2>1
  <2>2. CASE x # w
    BY <1>1, <2>2 DEF Saving
  <2> QED
    BY <2>1, <2>2
<1>4. FileCurrent'
  BY DEF FileCurrent
<1> QED
  BY <1>2, <1>3, <1>4 DEF FileInv, NobodyWhenDown

LEMMA FileStep == TypeOK /\ FileInv /\ [Next]_vars => FileInv'
<1> SUFFICES ASSUME TypeOK, FileInv, [Next]_vars PROVE FileInv'
  OBVIOUS
<1>1. ASSUME NEW w \in Writer, Begins(w) PROVE FileInv'
  <2>1. up /\ UNCHANGED <<docs, disk, overlap, up>>
    BY <1>1, BeginsIs DEF process
  <2>2. ASSUME NEW x \in Writer
        PROVE  writer'[x] = writer[x] \/ (~Saving(x) /\ writer'[x].pc \in {"idle", "apply", "append"})
    BY <1>1, BeginsIs DEF Saving
  <2> QED
    BY <2>1, <2>2, FileKept
<1>2. ASSUME NEW w \in Writer, Apply(w) PROVE FileInv'
  <2>1. /\ up /\ up' = up /\ disk' = disk /\ (overlap' = \E x \in Writer \ {w} : Saving(x))
    BY <1>2 DEF Apply, process
  <2>2. /\ writer'[w].pc = (IF DataDir THEN "read" ELSE "number")
        /\ \A d \in Doc : writer'[w].copy[d] = Unread
        /\ \A x \in Writer : x # w => writer'[x] = writer[x]
    BY <1>2, AppliedIs
  <2>3. ASSUME ~overlap', NEW x \in Writer, x # w
        PROVE  ~Saving(x)' /\ writer'[x].pc \notin {"read", "truncate", "fill", "spoil"}
    BY <2>1, <2>2, <2>3 DEF Saving
  <2>4. SoleSaver'
    BY <2>3 DEF SoleSaver
  <2>5. CopiesCurrent'
    <3> SUFFICES ASSUME ~overlap', NEW x \in Writer
                 PROVE  /\ writer'[x].pc = "read" => \A d \in Doc : writer'[x].copy[d] \in {Unread, docs'[d]}
                        /\ writer'[x].pc \in {"truncate", "fill"} => \A d \in Doc : writer'[x].copy[d] = docs'[d]
                        /\ writer'[x].pc # "spoil"
      BY DEF CopiesCurrent
    <3>1. CASE x = w
      BY <2>2, <3>1
    <3>2. CASE x # w
      BY <2>3, <3>2
    <3> QED
      BY <3>1, <3>2
  <2>6. FileCurrent'
    BY <2>2 DEF FileCurrent, Saving
  <2> QED
    BY <2>1, <2>4, <2>5, <2>6 DEF FileInv, NobodyWhenDown
<1>3. ASSUME NEW w \in Writer, NEW d \in Doc, ReadDoc(w, d) PROVE FileInv'
  <2>1. up /\ UNCHANGED <<docs, disk, overlap, up>>
    BY <1>3 DEF ReadDoc, process
  <2>2. /\ writer[w].pc = "read" /\ writer'[w].pc \in {"read", "truncate"}
        /\ \A e \in Doc : writer'[w].copy[e] = IF e = d THEN docs[d] ELSE writer[w].copy[e]
        /\ writer'[w].pc = "truncate" => \A e \in Doc : writer'[w].copy[e] # Unread
        /\ \A x \in Writer : x # w => writer'[x] = writer[x]
    BY <1>3, ReadIs
  <2>3. Saving(w) /\ Saving(w)'
    BY <2>2 DEF Saving
  <2>4. ASSUME ~overlap, NEW e \in Doc PROVE writer'[w].copy[e] \in {Unread, docs[e]}
    BY <2>1, <2>2, <2>4 DEF FileInv, CopiesCurrent
  <2> QED
    BY <2>1, <2>2, <2>3, <2>4, SaverSteps
<1>4. ASSUME NEW w \in Writer, Truncate(w) PROVE FileInv'
  <2>1. up /\ UNCHANGED <<docs, overlap, up>>
    BY <1>4 DEF Truncate, process
  <2>2. /\ writer[w].pc = "truncate" /\ writer'[w].pc = "fill"
        /\ writer'[w].copy = writer[w].copy
        /\ \A x \in Writer : x # w => writer'[x] = writer[x]
    BY <1>4, TruncateIs
  <2>3. Saving(w) /\ Saving(w)'
    BY <2>2 DEF Saving
  <2>4. ASSUME ~overlap, NEW e \in Doc PROVE writer'[w].copy[e] = docs[e]
    BY <2>1, <2>2, <2>4 DEF FileInv, CopiesCurrent
  <2> QED
    BY <2>1, <2>2, <2>3, <2>4, SaverSteps
<1>5. ASSUME NEW w \in Writer, Fill(w) PROVE FileInv'
  <2>1. up /\ UNCHANGED <<docs, overlap, up>>
    BY <1>5 DEF Fill, process
  <2>2. /\ writer'[w].pc = "number"
        /\ \A x \in Writer : x # w /\ ~Saving(x) => writer'[x] = writer[x]
    BY <1>5, FilledIs
  <2>3. Saving(w)
    BY <1>5 DEF Fill, Saving
  <2>4. ASSUME ~overlap PROVE disk' = docs
    <3>1. writer[w].pc = "fill" /\ \A d \in Doc : writer[w].copy[d] = docs[d]
      BY <1>5, <2>1, <2>4 DEF Fill, FileInv, CopiesCurrent
    <3>2. disk' = writer[w].copy
      BY <1>5, <3>1 DEF Fill
    <3>3. docs \in [Doc -> Version] /\ writer[w].copy \in [Doc -> Version \cup {Unread}]
      BY HandlersSound DEF TypeOK, Handler
    <3> QED
      BY <3>1, <3>2, <3>3
  <2> QED
    BY <2>1, <2>2, <2>3, <2>4, SaverSteps
<1>6. ASSUME NEW w \in Writer, Number(w) PROVE FileInv'
  <2>1. up /\ UNCHANGED <<docs, disk, overlap, up>>
    BY <1>6 DEF Number, process
  <2>2. ASSUME NEW x \in Writer
        PROVE  writer'[x] = writer[x] \/ (~Saving(x) /\ writer'[x].pc \in {"idle", "apply", "append"})
    BY <1>6, NumberIs DEF Saving
  <2> QED
    BY <2>1, <2>2, FileKept
<1>7. ASSUME NEW w \in Writer, AppendEvent(w) PROVE FileInv'
  <2>1. up /\ UNCHANGED <<docs, disk, overlap, up>>
    BY <1>7 DEF AppendEvent, process
  <2>2. ASSUME NEW x \in Writer
        PROVE  writer'[x] = writer[x] \/ (~Saving(x) /\ writer'[x].pc \in {"idle", "apply", "append"})
    BY <1>7, AppendIs DEF Saving
  <2> QED
    BY <2>1, <2>2, FileKept
<1>8. ASSUME Transacts PROVE FileInv'
  <2>1. up /\ UNCHANGED <<docs, disk, writer, overlap, up>>
    BY <1>8 DEF Transacts, BeginTransaction, Rollback, process
  <2> QED
    BY <2>1, FileKept
<1>9. ASSUME Exit PROVE FileInv'
  <2>1. ~up' /\ \A w \in Writer : writer'[w].pc = "idle"
    BY <1>9 DEF Exit, NoWriter
  <2> QED
    BY <2>1 DEF FileInv, SoleSaver, CopiesCurrent, FileCurrent, NobodyWhenDown, Saving, Idle
<1>10. ASSUME Restart PROVE FileInv'
  <2>1. up' /\ docs' = disk /\ disk' = disk /\ writer' = writer /\ \A w \in Writer : writer[w].pc = "idle"
    BY <1>10 DEF Restart, FileInv, NobodyWhenDown, Idle
  <2> QED
    BY <2>1 DEF FileInv, SoleSaver, CopiesCurrent, FileCurrent, NobodyWhenDown, Saving
<1>11. ASSUME UNCHANGED vars PROVE FileInv'
  <2>1. UNCHANGED <<docs, disk, writer, overlap, up>>
    BY <1>11 DEF vars, process
  <2> QED
    BY <2>1 DEF FileInv, SoleSaver, CopiesCurrent, FileCurrent, NobodyWhenDown, Saving, Idle
<1> QED
  BY <1>1, <1>2, <1>3, <1>4, <1>5, <1>6, <1>7, <1>8, <1>9, <1>10, <1>11
     DEF Next, Requests, Begins, Transacts, Applies, Persists, Process

LEMMA FileCorrect == Spec => [](TypeOK /\ FileInv)
<1>1. Init => TypeOK /\ FileInv
  BY TypeInit, FileInit
<1>2. (TypeOK /\ FileInv) /\ [Next]_vars => (TypeOK /\ FileInv)'
  BY TypeStep, FileStep
<1> QED
  BY <1>1, <1>2, PTL DEF Spec

(* FileCurrent: unless two handlers were writing the file at once since the
   last change, it holds what is in memory whenever nobody writes it. *)
THEOREM FileMatches == Spec => []FileCurrent
<1>1. TypeOK /\ FileInv => FileCurrent
  BY DEF FileInv
<1> QED
  BY <1>1, FileCorrect, PTL
=============================================================================
