--------------------------- MODULE FirestoreStore ----------------------------
(***************************************************************************)
(* The Firestore emulator's document store (internal/firestore/store.go)   *)
(* with the handlers that write to it (internal/firestore/service.go): the *)
(* documents, the state file, the sequence counter, the bounded log of     *)
(* recent changes, transactions, and the exit and restart of the process.  *)
(*                                                                         *)
(* A write changes the documents under the mutex, and then, without it,    *)
(* collects the documents for the file, writes the file, draws a sequence  *)
(* number and appends to the log.  Each of these is an action.             *)
(***************************************************************************)
EXTENDS Integers, Sequences, FiniteSets

CONSTANTS
    Doc,        \* document names
    Writer,     \* handlers that may run at the same time
    Batch,      \* what they may be asked to write: non-empty sequences of writes
    LogSize,    \* changeLogSize
    MaxWrites,  \* bound: writes asked for
    MaxTx,      \* bound: transactions begun
    MaxExits,   \* bound: exits of the process
    DataDir     \* TRUE if the server was started with a data directory

Write == [doc : Doc, op : {"create", "set", "delete"}]

ASSUME BoundsAssumption ==
    /\ LogSize \in Nat \ {0}
    /\ MaxWrites \in Nat /\ MaxTx \in Nat /\ MaxExits \in Nat
    /\ DataDir \in BOOLEAN
ASSUME BatchAssumption == Batch \subseteq Seq(Write) /\ <<>> \notin Batch

VARIABLES
    docs,           \* Store.docs: the number of the change that made the document
    disk,           \* firestore/state.json, as load would read it
    transactions,   \* Service.transactions
    writer,         \* the handlers
    seq,            \* Store.seq
    changeLog,      \* Store.changeLog, a ring
    logStart,       \* Store.logStart
    logLen,         \* Store.logLen
    up,             \* TRUE while there is a process
    exits,          \* how often the process has exited
    begun,          \* history: transactions begun
    asked,          \* history: writes asked for
    writes,         \* history: changes of documents
    appends,        \* history: events this process has appended to the log
    inOrder,        \* history: they were appended in the order of their numbers
    overlap         \* history: two of the present and latest handlers were writing at once

log == <<seq, changeLog, logStart, logLen, appends, inOrder>>
process == <<up, exits>>
vars == <<docs, disk, transactions, writer, log, process, begun, asked, writes, overlap>>

-----------------------------------------------------------------------------

Absent == 0
Unread == -1
NoDocs == [d \in Doc |-> Absent]

Version == Nat
Slot == 0..LogSize - 1

(* A change, in the log at position pos; a removal has version Absent.     *)
NoEvent == [doc |-> "none", ver |-> Absent, seq |-> 0, pos |-> 0]
Event == [doc : Doc, ver : Version, seq : Nat, pos : Nat]

(* The steps of a handler: "apply" the next write; "read" the documents    *)
(* for the file one by one, "truncate" and "fill" the file ("spoil" if     *)
(* another handler has filled it in between); "number" and "append" the    *)
(* event.                                                                  *)
Step == {"idle", "apply", "read", "truncate", "fill", "spoil", "number", "append"}
Handler == [pc : Step, todo : Seq(Write), doc : Doc \cup {"none"}, ver : Version,
            seq : Nat, copy : [Doc -> Version \cup {Unread}]]
NoWriter == [pc |-> "idle", todo |-> <<>>, doc |-> "none", ver |-> Absent,
             seq |-> 0, copy |-> NoDocs]

Idle(w) == writer[w].pc = "idle"
Saving(w) == writer[w].pc \in {"read", "truncate", "fill", "spoil"}
Notifying(w) == writer[w].pc \in {"number", "append"}

At(h, pc) == [h EXCEPT !.pc = pc]
Becomes(w, h) == writer' = [writer EXCEPT ![w] = h]

(* A handler that has these writes left to do.                             *)
Rest(todo) == [NoWriter EXCEPT !.pc = IF todo = <<>> THEN "idle" ELSE "apply",
                               !.todo = todo]

-----------------------------------------------------------------------------
(* Handlers.                                                               *)

(* CreateDocument, UpdateDocument, DeleteDocument, or a Commit without a   *)
(* transaction.                                                            *)
Call(w, b) ==
    /\ up /\ Idle(w)
    /\ asked + Len(b) <= MaxWrites
    /\ asked' = asked + Len(b)
    /\ Becomes(w, Rest(b))
    /\ UNCHANGED <<docs, disk, transactions, log, process, begun, writes, overlap>>

BeginTransaction ==
    /\ up
    /\ begun < MaxTx
    /\ begun' = begun + 1
    /\ transactions' = transactions \cup {begun + 1}
    /\ UNCHANGED <<docs, disk, writer, log, process, asked, writes, overlap>>

CommitTransaction(w, tx, b) ==
    /\ up /\ Idle(w)
    /\ tx \in transactions
    /\ asked + Len(b) <= MaxWrites
    /\ asked' = asked + Len(b)
    /\ transactions' = transactions \ {tx}
    /\ Becomes(w, Rest(b))
    /\ UNCHANGED <<docs, disk, log, process, begun, writes, overlap>>

Rollback(tx) ==
    /\ up
    /\ tx \in transactions
    /\ transactions' = transactions \ {tx}
    /\ UNCHANGED <<docs, disk, writer, log, process, begun, asked, writes, overlap>>

(* A create of a document that exists and a delete of one that does not    *)
(* have no effect; an update creates what does not exist.                  *)
Refused(write) ==
    \/ write.op = "create" /\ docs[write.doc] # Absent
    \/ write.op = "delete" /\ docs[write.doc] = Absent

ApplyRefused(w) ==
    /\ up /\ writer[w].pc = "apply"
    /\ Refused(Head(writer[w].todo))
    /\ Becomes(w, Rest(Tail(writer[w].todo)))
    /\ UNCHANGED <<docs, disk, transactions, log, process, begun, asked, writes, overlap>>

Changed(write) == IF write.op = "delete" THEN Absent ELSE writes + 1

(* Mistaken variant: a removal is not written to the file.                 *)
AfterSetOnly(write) == IF DataDir /\ write.op # "delete" THEN "read" ELSE "number"

AfterChange(write) == IF DataDir THEN "read" ELSE "number"

(* The change under the mutex, and its copy for the event.                 *)
Apply(w) ==
    LET write == Head(writer[w].todo)
    IN  /\ up /\ writer[w].pc = "apply"
        /\ ~Refused(write)
        /\ writes' = writes + 1
        /\ docs' = [docs EXCEPT ![write.doc] = Changed(write)]
        /\ Becomes(w, [pc |-> AfterChange(write), todo |-> Tail(writer[w].todo),
                       doc |-> write.doc, ver |-> Changed(write), seq |-> 0,
                       copy |-> [d \in Doc |-> Unread]])
        /\ overlap' = \E x \in Writer \ {w} : Saving(x)
        /\ UNCHANGED <<disk, transactions, log, process, begun, asked>>

-----------------------------------------------------------------------------
(* persist, which holds no lock.                                           *)

WithCopy(h, d) == [h EXCEPT !.copy = [e \in Doc |-> IF e = d THEN docs[d] ELSE h.copy[e]]]
AllRead(h) == \A e \in Doc : h.copy[e] # Unread

ReadDoc(w, d) ==
    LET read == WithCopy(writer[w], d)
    IN  /\ up /\ writer[w].pc = "read"
        /\ writer[w].copy[d] = Unread
        /\ Becomes(w, IF AllRead(read) THEN At(read, "truncate") ELSE read)
        /\ UNCHANGED <<docs, disk, transactions, log, process, begun, asked, writes, overlap>>

(* os.WriteFile truncates and then fills.  A truncated file does not parse *)
(* and load starts with no documents.                                      *)
Truncate(w) ==
    /\ up /\ writer[w].pc = "truncate"
    /\ disk' = NoDocs
    /\ Becomes(w, At(writer[w], "fill"))
    /\ UNCHANGED <<docs, transactions, log, process, begun, asked, writes, overlap>>

(* If another handler has filled the file since this one truncated it, the *)
(* rest of a longer content stays behind, and the file may not parse.      *)
Fill(w) ==
    /\ up /\ writer[w].pc \in {"fill", "spoil"}
    /\ \/ disk' = writer[w].copy
       \/ writer[w].pc = "spoil" /\ disk' = NoDocs
    /\ writer' = [x \in Writer |->
                    IF x = w THEN At(writer[x], "number")
                    ELSE IF writer[x].pc = "fill" THEN At(writer[x], "spoil")
                    ELSE writer[x]]
    /\ UNCHANGED <<docs, transactions, log, process, begun, asked, writes, overlap>>

-----------------------------------------------------------------------------
(* notifyWatchers: the number is drawn before the lock on the log is held. *)

Numbered(h, n) == [h EXCEPT !.seq = n, !.pc = "append"]

Number(w) ==
    /\ up /\ writer[w].pc = "number"
    /\ seq' = seq + 1
    /\ Becomes(w, Numbered(writer[w], seq + 1))
    /\ UNCHANGED <<docs, disk, transactions, changeLog, logStart, logLen, appends, inOrder,
                   process, begun, asked, writes, overlap>>

EventOf(w) == [doc |-> writer[w].doc, ver |-> writer[w].ver,
               seq |-> writer[w].seq, pos |-> appends + 1]

(* Mistaken variant: the length is not kept within the ring.               *)
LenUnbounded == logLen + 1

LenAfter == IF logLen < LogSize THEN logLen + 1 ELSE logLen

(* Mistaken variant: the start does not move when the ring is full.        *)
StartFixed == logStart

StartAfter == IF logLen < LogSize THEN logStart ELSE (logStart + 1) % LogSize

AppendEvent(w) ==
    /\ up /\ writer[w].pc = "append"
    /\ changeLog' = [changeLog EXCEPT ![(logStart + logLen) % LogSize] = EventOf(w)]
    /\ logLen' = LenAfter /\ logStart' = StartAfter
    /\ appends' = appends + 1
    /\ inOrder' = (inOrder /\ writer[w].seq = appends + 1)
    /\ Becomes(w, Rest(writer[w].todo))
    /\ UNCHANGED <<docs, disk, transactions, seq, process, begun, asked, writes, overlap>>

-----------------------------------------------------------------------------
(* ChangesSince, for a reconnecting listener.                              *)

Entry(i) == changeLog[(logStart + i) % LogSize]

(* Mistaken variant: one change too many may be missing.                   *)
ResumableLate(after) == logLen = 0 \/ Entry(0).seq <= after + 2

(* The log has not forgotten anything after the number; an empty log says  *)
(* so of every number.                                                     *)
Resumable(after) == logLen = 0 \/ Entry(0).seq <= after + 1

(* The changes it answers, as positions in the log.                        *)
Since(after) == {i \in 0..logLen - 1 : Entry(i).seq > after}

-----------------------------------------------------------------------------
(* The life of the process.                                                *)

Exit ==
    /\ up
    /\ exits < MaxExits
    /\ up' = FALSE /\ exits' = exits + 1
    /\ docs' = NoDocs /\ transactions' = {}
    /\ writer' = [w \in Writer |-> NoWriter]
    /\ seq' = 0 /\ logStart' = 0 /\ logLen' = 0
    /\ changeLog' = [i \in Slot |-> NoEvent]
    /\ appends' = 0 /\ inOrder' = TRUE /\ overlap' = FALSE
    /\ UNCHANGED <<disk, begun, asked, writes>>

(* NewStore and load.                                                      *)
Restart ==
    /\ ~up
    /\ up' = TRUE
    /\ docs' = disk
    /\ UNCHANGED <<disk, transactions, writer, log, exits, begun, asked, writes, overlap>>

-----------------------------------------------------------------------------

Init ==
    /\ docs = NoDocs /\ disk = NoDocs /\ transactions = {}
    /\ writer = [w \in Writer |-> NoWriter]
    /\ seq = 0 /\ logStart = 0 /\ logLen = 0
    /\ changeLog = [i \in Slot |-> NoEvent]
    /\ up = TRUE /\ exits = 0
    /\ begun = 0 /\ asked = 0 /\ writes = 0 /\ appends = 0 /\ inOrder = TRUE /\ overlap = FALSE

Requests ==
    \/ \E w \in Writer, b \in Batch : Call(w, b)
    \/ BeginTransaction
    \/ \E w \in Writer, b \in Batch, tx \in 1..MaxTx : CommitTransaction(w, tx, b)
    \/ \E tx \in 1..MaxTx : Rollback(tx)

Applies(w) == Apply(w) \/ ApplyRefused(w)
Persists(w) == Truncate(w) \/ Fill(w) \/ \E d \in Doc : ReadDoc(w, d)
Process == Exit \/ Restart

Next ==
    \/ Requests
    \/ \E w \in Writer : Applies(w) \/ Persists(w) \/ Number(w) \/ AppendEvent(w)
    \/ Process

Spec == Init /\ [][Next]_vars

-----------------------------------------------------------------------------
(* Properties.                                                             *)

(* Every variable is of its type, and a handler has what its step is about.*)
TypeOK ==
    /\ docs \in [Doc -> Version] /\ disk \in [Doc -> Version]
    /\ transactions \in SUBSET (1..MaxTx)
    /\ writer \in [Writer -> Handler]
    /\ \A w \in Writer : Saving(w) \/ Notifying(w) => writer[w].doc \in Doc
    /\ \A w \in Writer : writer[w].pc = "apply" => writer[w].todo # <<>>
    /\ \A w \in Writer : writer[w].pc \in {"truncate", "fill", "spoil"} => AllRead(writer[w])
    /\ seq \in Nat /\ appends \in Nat
    /\ changeLog \in [Slot -> Event \cup {NoEvent}]
    /\ logStart \in Slot /\ logLen \in 0..LogSize
    /\ up \in BOOLEAN /\ exits \in 0..MaxExits
    /\ begun \in 0..MaxTx /\ asked \in 0..MaxWrites /\ writes \in Nat
    /\ inOrder \in BOOLEAN /\ overlap \in BOOLEAN

(* The ring holds the last events appended, as many as fit, oldest first.  *)
LogIsRecent ==
    /\ logLen = IF appends < LogSize THEN appends ELSE LogSize
    /\ \A i \in 0..logLen - 1 : Entry(i).pos = appends - logLen + i + 1

InFlight == {w \in Writer : writer[w].pc = "append"}

(* As long as events were appended in the order of their numbers, a        *)
(* listener that is told it can resume is given every later change, or     *)
(* will be when the handler that holds it appends it.                      *)
ResumeComplete ==
    inOrder => \A after \in 0..seq : Resumable(after) =>
        \A n \in after + 1..seq :
            \/ \E i \in Since(after) : Entry(i).seq = n
            \/ \E w \in InFlight : writer[w].seq = n

(* While nobody is writing the file it holds what is in memory, if no two  *)
(* handlers were writing it at once since the last change.                 *)
FileCurrent ==
    up /\ DataDir /\ ~overlap /\ (\A w \in Writer : ~Saving(w)) => disk = docs

(* "flushed on every write": when every call has returned, the file holds  *)
(* what is in memory.                                                      *)
FlushedOnEveryWrite ==
    up /\ DataDir /\ (\A w \in Writer : Idle(w)) => disk = docs
=============================================================================
