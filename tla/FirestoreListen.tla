--------------------------- MODULE FirestoreListen ---------------------------
(***************************************************************************)
(* Real-time listeners (Listen in internal/firestore/service.go, watchers  *)
(* in internal/firestore/store.go) over the document store.                *)
(*                                                                         *)
(* A listener registers a watcher under its target id, is sent the         *)
(* documents or, if it brings a resume token, the changes since, and then  *)
(* the events its watcher's channel receives: a goroutine per channel      *)
(* moves them to one channel of the stream, which the handler reads when   *)
(* it is not busy with a request.  A target id may be used again at any    *)
(* time; the goroutine of its last use goes on with what its channel has.  *)
(***************************************************************************)
EXTENDS FirestoreStore

CONSTANTS
    Client,     \* clients that listen, each on one stream at a time
    Target,     \* target ids
    Filter,     \* what a target may ask for: sets of documents
    Capacity,   \* of a watcher's channel
    Merged,     \* of a stream's channel
    MaxOpens,   \* bound: targets added
    NoClient    \* no watcher has this target id

ASSUME ListenAssumption ==
    /\ Filter \subseteq SUBSET Doc
    /\ Capacity \in Nat \ {0} /\ Merged \in Nat \ {0} /\ MaxOpens \in Nat
    /\ NoClient \notin Client

VARIABLES
    watchers,   \* Store.watchers: whose channel is registered, and for which documents
    stream,     \* the Listen handlers
    events,     \* their channels "events"
    sub,        \* the targets of each client: goroutine's channel and client's state
    left,       \* the channels of targets whose id the stream has used again
    opens,      \* history: targets added
    contested   \* history: documents whose latest changes overlapped

listenVars == <<watchers, stream, events, sub, left, opens, contested>>
allVars == <<vars, listenVars>>

-----------------------------------------------------------------------------

NoToken == -1
NoTarget == "none"

Watcher == [client : Client \cup {NoClient}, filter : SUBSET Doc]
NoWatcher == [client |-> NoClient, filter |-> {}]

(* Where a handler is: answering an added target, reading its channels, or *)
(* unregistering its targets.                                              *)
Stream == [pc : {"closed", "resume", "snapshot", "current", "open", "closing"},
           target : Target \cup {NoTarget}, after : Nat \cup {NoToken}]
NoStream == [pc |-> "closed", target |-> NoTarget, after |-> NoToken]

(* pipe is the channel of the watcher the client registered last; view and *)
(* token are what the client was told and keeps when the stream ends.      *)
(* History: fresh, that the target was added without a token; doubtful are *)
(* the documents of which the client may be told less than the last        *)
(* change, because its event found the channel full, or because an older   *)
(* one of another channel follows it or was on the stream before.          *)
Sub == [active : BOOLEAN, filter : SUBSET Doc, pipe : Seq(Event), doubtful : SUBSET Doc,
        view : [Doc -> Version], token : Nat \cup {NoToken}, fresh : BOOLEAN]
NoSub == [active |-> FALSE, filter |-> {}, pipe |-> <<>>, doubtful |-> {},
          view |-> NoDocs, token |-> NoToken, fresh |-> TRUE]

Open(c) == stream[c].pc # "closed"
Active(c) == {t \in Target : sub[c][t].active}
Registered(c, t) == sub[c][t].active /\ watchers[t].client = c
Mentions(s, d) == \E i \in DOMAIN s : s[i].doc = d

-----------------------------------------------------------------------------
(* Adding a target, in the steps of the handler.                           *)

(* AddWatcher replaces a watcher with the same id, also another stream's,  *)
(* and leaves its channel as it is, closed or not.  A token of 0 is a      *)
(* token for the client and none for the server.                           *)
AddTarget(c, t, f, after) ==
    /\ up
    /\ stream[c].pc \in {"closed", "open"}
    /\ opens < MaxOpens /\ opens' = opens + 1
    /\ watchers' = [watchers EXCEPT ![t] = [client |-> c, filter |-> f]]
    /\ stream' = [stream EXCEPT ![c] =
                    [pc |-> IF after > 0 THEN "resume" ELSE "snapshot",
                     target |-> t, after |-> after]]
    /\ sub' = [sub EXCEPT ![c][t] =
                    [active |-> TRUE, filter |-> f, pipe |-> <<>>,
                     doubtful |-> {events[c][i].doc : i \in DOMAIN events[c]},
                     view |-> IF after = NoToken THEN NoDocs ELSE sub[c][t].view,
                     token |-> after, fresh |-> after = NoToken]]
    /\ left' = [left EXCEPT ![c] = IF sub[c][t].pipe = <<>> THEN left[c]
                                   ELSE Append(left[c], sub[c][t].pipe)]
    /\ UNCHANGED <<vars, events, contested>>

AddFresh(c, t, f) == AddTarget(c, t, f, NoToken)

AddAgain(c, t) ==
    /\ sub[c][t].token # NoToken
    /\ AddTarget(c, t, sub[c][t].filter, sub[c][t].token)

Told(c, t, v) == sub' = [sub EXCEPT ![c][t].view = v]

(* What replaying the log's changes makes of a view.                       *)
Replayed(v, after, f) ==
    [d \in Doc |->
        LET changes == {i \in Since(after) : Entry(i).doc = d}
        IN  IF d \in f /\ changes # {}
            THEN Entry(CHOOSE i \in changes : \A j \in changes : j <= i).ver
            ELSE v[d]]

Resume(c) ==
    LET t == stream[c].target  after == stream[c].after
    IN  /\ up /\ stream[c].pc = "resume"
        /\ Resumable(after)
        /\ Told(c, t, Replayed(sub[c][t].view, after, sub[c][t].filter))
        /\ stream' = [stream EXCEPT ![c].pc = "current"]
        /\ UNCHANGED <<vars, watchers, events, left, opens, contested>>

Fallback(c) ==
    /\ up /\ stream[c].pc = "resume"
    /\ ~Resumable(stream[c].after)
    /\ stream' = [stream EXCEPT ![c].pc = "snapshot"]
    /\ UNCHANGED <<vars, watchers, events, sub, left, opens, contested>>

(* The snapshot names the documents there are; of the others the client    *)
(* hears nothing.                                                          *)
Snapshot(c) ==
    LET t == stream[c].target
    IN  /\ up /\ stream[c].pc = "snapshot"
        /\ Told(c, t, [d \in Doc |-> IF d \in sub[c][t].filter /\ docs[d] # Absent
                                     THEN docs[d] ELSE sub[c][t].view[d]])
        /\ stream' = [stream EXCEPT ![c].pc = "current"]
        /\ UNCHANGED <<vars, watchers, events, left, opens, contested>>

(* Mistaken variant: the handler does not go back to its channel.          *)
CurrentOnly(c) ==
    /\ up /\ stream[c].pc = "current"
    /\ sub' = [sub EXCEPT ![c][stream[c].target].token = seq]
    /\ UNCHANGED <<vars, watchers, stream, events, left, opens, contested>>

(* CURRENT, with the sequence number there is now as the token.            *)
Current(c) ==
    /\ up /\ stream[c].pc = "current"
    /\ sub' = [sub EXCEPT ![c][stream[c].target].token = seq]
    /\ stream' = [stream EXCEPT ![c] = [NoStream EXCEPT !.pc = "open"]]
    /\ UNCHANGED <<vars, watchers, events, left, opens, contested>>

-----------------------------------------------------------------------------
(* Events.                                                                 *)

(* Mistaken variant: a full channel grows.                                 *)
OfferedUnbounded(s, e) == [s EXCEPT !.pipe = Append(s.pipe, e)]

(* Mistaken variant: removals are not sent.                                *)
OfferedSetsOnly(s, e) ==
    IF Len(s.pipe) < Capacity
    THEN [s EXCEPT !.pipe = IF e.ver = Absent THEN s.pipe ELSE Append(s.pipe, e),
                   !.doubtful = s.doubtful \ {e.doc}]
    ELSE [s EXCEPT !.doubtful = s.doubtful \cup {e.doc}]

Offered(s, e) ==
    IF Len(s.pipe) < Capacity
    THEN [s EXCEPT !.pipe = Append(s.pipe, e), !.doubtful = s.doubtful \ {e.doc}]
    ELSE [s EXCEPT !.doubtful = s.doubtful \cup {e.doc}]

(* notifyWatchers: the log and the channels, under one lock.               *)
Notify(w) ==
    /\ AppendEvent(w)
    /\ sub' = [c \in Client |-> [t \in Target |->
                IF watchers[t].client = c /\ writer[w].doc \in watchers[t].filter
                THEN Offered(sub[c][t], EventOf(w))
                ELSE sub[c][t]]]
    /\ UNCHANGED <<watchers, stream, events, left, opens, contested>>

(* An event that is out of date, with nothing behind it in these channels  *)
(* that corrects it.  The channel of a watcher that is registered and has  *)
(* missed nothing is sure to.                                              *)
Late(e, sure, pipes, rest) ==
    /\ e.ver # docs[e.doc] /\ ~sure
    /\ \A t \in Target : ~Mentions(pipes[t], e.doc)
    /\ \A i \in DOMAIN rest : ~Mentions(rest[i], e.doc)

(* A goroutine moves an event to the stream, which puts every active       *)
(* target in doubt if it is late, and leaves these channels.               *)
Move(c, e, sure, pipes, rest) ==
    LET Doubted(s) == IF Late(e, sure, pipes, rest) /\ s.active
                      THEN s.doubtful \cup {e.doc} ELSE s.doubtful
    IN  /\ up /\ Open(c)
        /\ Len(events[c]) < Merged
        /\ events' = [events EXCEPT ![c] = Append(events[c], e)]
        /\ sub' = [sub EXCEPT ![c] = [t \in Target |->
                    [sub[c][t] EXCEPT !.pipe = pipes[t], !.doubtful = Doubted(sub[c][t])]]]
        /\ left' = [left EXCEPT ![c] = rest]
        /\ UNCHANGED <<vars, watchers, stream, opens, contested>>

Pipes(c) == [t \in Target |-> sub[c][t].pipe]
Sure(c, t) == Registered(c, t) /\ Head(sub[c][t].pipe).doc \notin sub[c][t].doubtful

(* The goroutine of a target, and of an earlier use of an id.              *)
Forward(c, t) ==
    LET s == sub[c][t].pipe
    IN  s # <<>> /\ Move(c, Head(s), Sure(c, t), [Pipes(c) EXCEPT ![t] = Tail(s)], left[c])

ForwardLeft(c, i) ==
    /\ i \in DOMAIN left[c] /\ left[c][i] # <<>>
    /\ Move(c, Head(left[c][i]), FALSE, Pipes(c), [left[c] EXCEPT ![i] = Tail(left[c][i])])

(* The event is sent as a change of every active target of the stream.     *)
Deliver(c) ==
    /\ up /\ stream[c].pc = "open"
    /\ events[c] # <<>>
    /\ LET e == Head(events[c])
       IN  sub' = [sub EXCEPT ![c] = [t \in Target |->
                    IF sub[c][t].active THEN [sub[c][t] EXCEPT !.view[e.doc] = e.ver]
                    ELSE sub[c][t]]]
    /\ events' = [events EXCEPT ![c] = Tail(events[c])]
    /\ UNCHANGED <<vars, watchers, stream, left, opens, contested>>

-----------------------------------------------------------------------------
(* Removing a target, and the end of a stream.                             *)

(* RemoveWatcher closes and removes the watcher of that id, whoever's.     *)
Unregister(t) == watchers' = [watchers EXCEPT ![t] = NoWatcher]

(* Mistaken variant: the watcher stays.                                    *)
RemoveTargetOnly(c, t) ==
    /\ up /\ stream[c].pc = "open"
    /\ sub' = [sub EXCEPT ![c][t].active = FALSE]
    /\ UNCHANGED <<vars, watchers, stream, events, left, opens, contested>>

RemoveTarget(c, t) ==
    /\ up /\ stream[c].pc = "open"
    /\ Unregister(t)
    /\ sub' = [sub EXCEPT ![c][t].active = FALSE]
    /\ UNCHANGED <<vars, stream, events, left, opens, contested>>

(* The client goes, or a send fails; the handler unregisters its targets.  *)
Disconnect(c) ==
    /\ up /\ Open(c) /\ stream[c].pc # "closing"
    /\ stream' = [stream EXCEPT ![c] = [NoStream EXCEPT !.pc = "closing"]]
    /\ UNCHANGED <<vars, watchers, events, sub, left, opens, contested>>

CloseTarget(c, t) ==
    /\ up /\ stream[c].pc = "closing"
    /\ sub[c][t].active
    /\ Unregister(t)
    /\ sub' = [sub EXCEPT ![c][t].active = FALSE]
    /\ UNCHANGED <<vars, stream, events, left, opens, contested>>

CloseStream(c) ==
    /\ up /\ stream[c].pc = "closing"
    /\ Active(c) = {}
    /\ stream' = [stream EXCEPT ![c] = NoStream]
    /\ events' = [events EXCEPT ![c] = <<>>]
    /\ sub' = [sub EXCEPT ![c] = [t \in Target |-> [sub[c][t] EXCEPT !.pipe = <<>>]]]
    /\ left' = [left EXCEPT ![c] = <<>>]
    /\ UNCHANGED <<vars, watchers, opens, contested>>

ExitAll ==
    /\ Exit
    /\ watchers' = [t \in Target |-> NoWatcher]
    /\ stream' = [c \in Client |-> NoStream]
    /\ events' = [c \in Client |-> <<>>]
    /\ sub' = [c \in Client |-> [t \in Target |->
                    [sub[c][t] EXCEPT !.active = FALSE, !.pipe = <<>>]]]
    /\ left' = [c \in Client |-> <<>>]
    /\ contested' = {}
    /\ UNCHANGED opens

-----------------------------------------------------------------------------

(* A change is contested if another handler has not yet appended its own   *)
(* change of the same document.                                            *)
ApplyMarked(w) ==
    LET d == Head(writer[w].todo).doc
    IN  /\ Apply(w)
        /\ contested' = IF \E x \in Writer \ {w} :
                              (Saving(x) \/ Notifying(x)) /\ writer[x].doc = d
                        THEN contested \cup {d} ELSE contested \ {d}
        /\ UNCHANGED <<watchers, stream, events, sub, left, opens>>

ListenInit ==
    /\ Init
    /\ watchers = [t \in Target |-> NoWatcher]
    /\ stream = [c \in Client |-> NoStream]
    /\ events = [c \in Client |-> <<>>]
    /\ sub = [c \in Client |-> [t \in Target |-> NoSub]]
    /\ left = [c \in Client |-> <<>>]
    /\ opens = 0 /\ contested = {}

WriterStep(w) ==
    \/ (ApplyRefused(w) \/ Persists(w) \/ Number(w)) /\ UNCHANGED listenVars
    \/ ApplyMarked(w)
    \/ Notify(w)

Answers(c) == Resume(c) \/ Fallback(c) \/ Snapshot(c) \/ Current(c)
Closes(c) == CloseStream(c) \/ \E t \in Target : CloseTarget(c, t)

ListenNext ==
    \/ (Requests \/ Restart) /\ UNCHANGED listenVars
    \/ \E w \in Writer : WriterStep(w)
    \/ ExitAll
    \/ \E c \in Client :
        \/ \E t \in Target, f \in Filter : AddFresh(c, t, f)
        \/ \E t \in Target : AddAgain(c, t) \/ RemoveTarget(c, t) \/ Forward(c, t)
        \/ \E i \in 1..MaxOpens : ForwardLeft(c, i)
        \/ Answers(c) \/ Deliver(c) \/ Disconnect(c) \/ Closes(c)

ListenSpec == ListenInit /\ [][ListenNext]_allVars

(* Every goroutine is scheduled, and a stream's sends return.  Nothing is  *)
(* asked of clients.                                                       *)
ListenFairness ==
    /\ \A w \in Writer : WF_allVars(WriterStep(w))
    /\ \A c \in Client : WF_allVars(Answers(c)) /\ WF_allVars(Deliver(c)) /\ WF_allVars(Closes(c))
    /\ \A c \in Client, t \in Target : WF_allVars(Forward(c, t))
    /\ \A c \in Client, i \in 1..MaxOpens : WF_allVars(ForwardLeft(c, i))

ListenLiveSpec == ListenSpec /\ ListenFairness

-----------------------------------------------------------------------------
(* Properties.                                                             *)

(* The listeners' variables are of their types, and no channel holds more  *)
(* than it can.                                                            *)
ListenTypeOK ==
    /\ watchers \in [Target -> Watcher]
    /\ stream \in [Client -> Stream]
    /\ events \in [Client -> Seq(Event)]
    /\ sub \in [Client -> [Target -> Sub]]
    /\ left \in [Client -> Seq(Seq(Event))]
    /\ \A c \in Client :
        /\ stream[c].pc \in {"resume", "snapshot", "current"} => stream[c].target \in Target
        /\ stream[c].pc = "resume" => stream[c].after # NoToken
    /\ \A c \in Client : Len(events[c]) <= Merged
    /\ \A c \in Client, t \in Target : Len(sub[c][t].pipe) <= Capacity
    /\ \A c \in Client : \A i \in DOMAIN left[c] : Len(left[c][i]) <= Capacity
    /\ opens \in 0..MaxOpens /\ contested \in SUBSET Doc

(* A registered watcher is one of a stream that is open and has the target *)
(* active: no way out of a handler leaves a watcher behind.                *)
NoWatcherLeaks ==
    \A t \in Target : LET c == watchers[t].client
                      IN  c # NoClient => Open(c) /\ sub[c][t].active

(* The stream is current and nothing is under way to it.                   *)
Quiet(c) ==
    /\ stream[c].pc = "open" /\ events[c] = <<>>
    /\ \A t \in Target : sub[c][t].pipe = <<>>
    /\ \A i \in DOMAIN left[c] : left[c][i] = <<>>
    /\ \A w \in Writer : ~Saving(w) /\ ~Notifying(w)

(* The client of a target knows its documents, but for those in doubt and  *)
(* those whose last changes overlapped, as the events of these may come in *)
(* either order.                                                           *)
UpToDate(c, t) ==
    \A d \in sub[c][t].filter \ (contested \cup sub[c][t].doubtful) :
        sub[c][t].view[d] = docs[d]

(* Once everything is sent, a listener that started from a snapshot and    *)
(* whose watcher is still registered knows the documents.                  *)
Listening(c, t) == Registered(c, t) /\ sub[c][t].fresh
Converged ==
    \A c \in Client : Quiet(c) => \A t \in Target : Listening(c, t) => UpToDate(c, t)

(* The same of a listener that brought a resume token.                     *)
ResumedConverged ==
    \A c \in Client : Quiet(c) => \A t \in Target : Registered(c, t) => UpToDate(c, t)

(* What the documentation says: changes are pushed to listeners.  So one   *)
(* that started from a snapshot has all of them when everything is sent,   *)
(* those of which the model has a doubt included.                          *)
PushedToListeners ==
    \A c \in Client : Quiet(c) => \A t \in Target : Listening(c, t) =>
        \A d \in sub[c][t].filter \ contested : sub[c][t].view[d] = docs[d]

(* What a listener was told is corrected as long as it listens, unless     *)
(* there is a doubt about the document.                                    *)
CatchesUp ==
    \A c \in Client, t \in Target, d \in Doc :
        Listening(c, t) /\ d \in sub[c][t].filter /\ sub[c][t].view[d] # docs[d]
            ~> \/ ~Listening(c, t) \/ d \notin sub[c][t].filter
               \/ sub[c][t].view[d] = docs[d]
               \/ d \in sub[c][t].doubtful \cup contested
=============================================================================
