--------------------------- MODULE FirestoreQuery ---------------------------
(***************************************************************************)
(* Structured queries of the Firestore emulator (internal/firestore/       *)
(* query.go, RunQuery in service.go) against documents that change while   *)
(* a query runs.                                                           *)
(*                                                                         *)
(* Only the collection of the documents holds the store's lock, and what   *)
(* it collects are references: a document's map of fields is shared with   *)
(* the store.  An update with a mask writes to that map; one without puts  *)
(* another in its place.  So the filters, the sort and the replies may     *)
(* each see other fields of one document.                                  *)
(*                                                                         *)
(* Documents are numbered in the order of their names.  A field stands for *)
(* a path, and a value for its type's rank and a number that is ordered as *)
(* values of the type are; arrays have their elements.                     *)
(***************************************************************************)
EXTENDS Integers, SequencesExt

CONSTANTS
    Doc,            \* names of documents, a set of numbers
    Collection,
    Members,        \* the names in each collection
    Field,
    FieldsOf,       \* the maps of fields clients write
    Loaded,         \* the documents load may have read: fields, or NoFields
    NoFields,
    Query,          \* what is asked: see QueryType
    Reader,         \* the RunQuery handlers
    MaxMaps         \* bound: maps of fields in a run

Missing == [type |-> -1, n |-> 0, elems |-> {}]
Array == 8
NoLimit == -1
NoMap == 0

Scalar == [type : -1..10, n : Int, elems : {{}}]
Value == [type : -1..10, n : Int, elems : SUBSET Scalar]

(* No field filter and one are an AND of none and of one.  A document is   *)
(* in one collection, its direct parent, and no client asks for a          *)
(* collection twice (the client libraries name one).                       *)
QueryType == [from : Seq(Collection) \ {<<>>}, compose : {"AND", "OR"},
              filters : Seq([field : Field, op : STRING, value : Value]),
              order : Seq([field : Field \cup {"__name__"}, desc : BOOLEAN]),
              offset : Nat, limit : Nat \cup {NoLimit}]

ASSUME QueryAssumption ==
    /\ MaxMaps \in Nat /\ Doc \subseteq Nat /\ IsFiniteSet(Doc)
    /\ Query \subseteq QueryType
    /\ \A q \in Query : IsInjective(q.from) /\ (q.compose = "OR" => q.filters # <<>>)
    /\ Members \in [Collection -> SUBSET Doc]
    /\ \A c, e \in Collection : c # e => Members[c] \cap Members[e] = {}
    /\ FieldsOf \subseteq [Field -> Value] /\ NoFields \notin FieldsOf
    /\ Loaded \subseteq [Doc -> FieldsOf \cup {NoFields}]

VARIABLES
    docs,       \* Store.docs: where the document's map of fields is, or NoMap
    maps,       \* the maps that have been made
    readers     \* the handlers

queryVars == <<docs, maps, readers>>

(* The elements of a set, in the order in which they come before others.   *)
Ordered(S, before(_, _)) ==
    CHOOSE s \in SetToSeqs(S) : \A i, j \in DOMAIN s : i < j => before(s[i], s[j])

NoQuery == [pc |-> "idle", read |-> <<>>]
Idle(h) == readers[h].pc = "idle"

-----------------------------------------------------------------------------
(* Values.                                                                 *)

Sign(n) == IF n < 0 THEN -1 ELSE IF n > 0 THEN 1 ELSE 0

(* Null, geo points, arrays and maps are each all the same.                *)
compareValues(a, b) ==
    IF a.type # b.type THEN Sign(a.type - b.type)
    ELSE IF a.type \in 1..6 THEN Sign(a.n - b.n) ELSE 0

Among(v, elems) == \E e \in elems : compareValues(v, e) = 0

matchesOp(v, target, op) ==
    LET c == compareValues(v, target)
        in == target.type = Array /\ Among(v, target.elems) IN
    CASE op = "==" -> c = 0    [] op = "!=" -> c # 0
      [] op = "<"  -> c < 0    [] op = "<=" -> c <= 0
      [] op = ">"  -> c > 0    [] op = ">=" -> c >= 0
      [] op = "in" -> in       [] op = "not-in" -> ~in
      [] op = "array-contains" -> v.type = Array /\ Among(target, v.elems)
      [] op = "array-contains-any" ->
            v.type = Array /\ target.type = Array /\ \E e \in v.elems : Among(e, target.elems)
      [] OTHER -> FALSE

-----------------------------------------------------------------------------
(* The store's methods that change documents.                              *)

(* The handlers learn nothing of it, but some have a map that is written.  *)
MapWritten(m) ==
    [h \in Reader |->
        IF \E i \in DOMAIN readers[h].read : readers[h].read[i].map = m
        THEN [readers[h] EXCEPT !.written = @ \cup {m}, !.moved = @ \/ readers[h].pc = "sort"]
        ELSE readers[h]]

(* Mistaken variant: the map that is there is emptied and filled again.    *)
PutInPlace(d, fields) ==
    IF docs[d] # NoMap
    THEN maps' = [maps EXCEPT ![docs[d]] = fields] /\ UNCHANGED <<docs, readers>>
    ELSE /\ Len(maps) < MaxMaps
         /\ maps' = Append(maps, fields)
         /\ docs' = [docs EXCEPT ![d] = Len(maps) + 1]
         /\ UNCHANGED readers

(* CreateDocument, and UpdateDocument without a mask or of a document that *)
(* does not exist.                                                         *)
PutDocument(d, fields) ==
    /\ Len(maps) < MaxMaps
    /\ maps' = Append(maps, fields)
    /\ docs' = [docs EXCEPT ![d] = Len(maps) + 1]
    /\ UNCHANGED readers

(* UpdateDocument with a mask.                                             *)
UpdateFields(d, fields, mask) ==
    /\ docs[d] # NoMap
    /\ maps' = [maps EXCEPT ![docs[d]] = [f \in Field |-> IF f \in mask THEN fields[f] ELSE @[f]]]
    /\ readers' = MapWritten(docs[d])
    /\ UNCHANGED docs

DeleteDocument(d) ==
    /\ docs[d] # NoMap
    /\ docs' = [docs EXCEPT ![d] = NoMap]
    /\ UNCHANGED <<maps, readers>>

-----------------------------------------------------------------------------
(* executeQuery.                                                           *)

(* written, moved and read are history: the maps that were written since   *)
(* the query began, whether one was during the sort, and the documents as  *)
(* they were collected.                                                    *)
RunQuery(h, q) ==
    /\ Idle(h)
    /\ readers' = [readers EXCEPT ![h] =
          [pc |-> "collect", query |-> q, source |-> 1, docs |-> <<>>, filter |-> 1,
           todo |-> <<>>, kept |-> <<>>, sent |-> <<>>,
           read |-> <<>>, written |-> {}, moved |-> FALSE]]
    /\ UNCHANGED <<docs, maps>>

At(h, pc) == readers[h].pc = pc /\ UNCHANGED <<docs, maps>>
Becomes(h, r) == readers' = [readers EXCEPT ![h] = r]

(* CollectionDocuments of the next source, under the lock, by name.        *)
CollectionDocuments(c) ==
    LET names == Ordered({d \in Members[c] : docs[d] # NoMap}, <)
    IN  [i \in DOMAIN names |-> [name |-> names[i], map |-> docs[names[i]], fields |-> maps[docs[names[i]]]]]

Collect(h) ==
    LET r == readers[h]
        found == CollectionDocuments(r.query.from[r.source])
        all == r.docs \o [i \in DOMAIN found |-> [name |-> found[i].name, map |-> found[i].map]]
    IN  /\ At(h, "collect")
        /\ Becomes(h, [r EXCEPT !.docs = all, !.todo = all, !.source = @ + 1, !.read = @ \o found,
                                !.pc = IF r.source < Len(r.query.from) THEN "collect"
                                       ELSE IF r.query.filters = <<>> THEN "order" ELSE "filter"])

(* One document after the other, and one filter after the other: the next  *)
(* filter of an AND gets what the last one has kept, that of an OR all.    *)
Keeps(r, doc) ==
    LET f == r.query.filters[r.filter] IN
    /\ matchesOp(maps[doc.map][f.field], f.value, f.op)
    /\ r.query.compose = "OR" => \A i \in DOMAIN r.kept : r.kept[i].name # doc.name

FilterDoc(h) ==
    LET r == readers[h] IN
    /\ At(h, "filter") /\ r.todo # <<>>
    /\ Becomes(h, [r EXCEPT !.todo = Tail(@),
                            !.kept = IF Keeps(r, Head(r.todo)) THEN Append(@, Head(r.todo)) ELSE @])

NextFilter(h) ==
    LET r == readers[h]  and == r.query.compose = "AND" IN
    /\ At(h, "filter") /\ r.todo = <<>>
    /\ Becomes(h, IF r.filter = Len(r.query.filters)
                  THEN [r EXCEPT !.pc = "order", !.docs = r.kept, !.kept = <<>>]
                  ELSE [r EXCEPT !.filter = @ + 1,
                                 !.todo = IF and THEN r.kept ELSE r.docs,
                                 !.kept = IF and THEN <<>> ELSE @])

-----------------------------------------------------------------------------
(* ORDER BY, OFFSET and LIMIT, and the replies.                            *)

SortKey(o, doc) ==
    IF o.field = "__name__" THEN [type |-> 4, n |-> doc.name, elems |-> {}]
    ELSE maps[doc.map][o.field]

Less(orders, a, b) ==
    LET Cmp(k) == compareValues(SortKey(orders[k], a), SortKey(orders[k], b)) IN
    \E k \in DOMAIN orders :
        /\ \A j \in 1..(k - 1) : Cmp(j) = 0
        /\ IF orders[k].desc THEN Cmp(k) > 0 ELSE Cmp(k) < 0

(* sort.SliceStable; with keys that change meanwhile, it gives the         *)
(* documents in some order.                                                *)
Sorted(ds, orders) ==
    LET before(i, j) == Less(orders, ds[i], ds[j]) \/ (~Less(orders, ds[j], ds[i]) /\ i < j)
        at == Ordered(DOMAIN ds, before)
    IN  [k \in DOMAIN ds |-> ds[at[k]]]

Shuffled(ds) == {[k \in DOMAIN ds |-> ds[at[k]]] : at \in SetToSeqs(DOMAIN ds)}

Page(ds, q) ==
    LET rest == IF q.offset >= Len(ds) THEN <<>> ELSE SubSeq(ds, q.offset + 1, Len(ds))
    IN  IF q.limit # NoLimit /\ q.limit < Len(rest) THEN SubSeq(rest, 1, q.limit) ELSE rest

BeginSort(h) == At(h, "order") /\ Becomes(h, [readers[h] EXCEPT !.pc = "sort"])

EndSort(h) ==
    LET r == readers[h] IN
    /\ At(h, "sort")
    /\ \E ds \in IF r.moved /\ r.query.order # <<>> THEN Shuffled(r.docs)
                 ELSE {Sorted(r.docs, r.query.order)} :
          Becomes(h, [r EXCEPT !.pc = "send", !.docs = Page(ds, r.query)])

(* The reply is made from the map as it is now.                            *)
Send(h) ==
    LET r == readers[h]  doc == Head(r.docs) IN
    /\ At(h, "send") /\ r.docs # <<>>
    /\ Becomes(h, [r EXCEPT !.docs = Tail(@),
                            !.sent = Append(@, [name |-> doc.name, fields |-> maps[doc.map]])])

(* All is sent, or the client is gone.                                     *)
EndQuery(h) == At(h, "send") /\ Becomes(h, NoQuery)

-----------------------------------------------------------------------------

QueriesInit ==
    \E loaded \in Loaded :
        LET there == Ordered({d \in Doc : loaded[d] # NoFields}, <) IN
        /\ maps = [i \in DOMAIN there |-> loaded[there[i]]]
        /\ docs = [d \in Doc |-> IF loaded[d] = NoFields THEN NoMap
                                 ELSE CHOOSE i \in DOMAIN there : there[i] = d]
        /\ readers = [h \in Reader |-> NoQuery]

QueriesApi ==
    \/ \E d \in Doc, fields \in FieldsOf :
          PutDocument(d, fields) \/ \E mask \in SUBSET Field \ {{}} : UpdateFields(d, fields, mask)
    \/ \E d \in Doc : DeleteDocument(d)
    \/ \E h \in Reader, q \in Query : RunQuery(h, q)

QueriesStep ==
    \E h \in Reader :
        \/ Collect(h) \/ FilterDoc(h) \/ NextFilter(h) \/ BeginSort(h) \/ EndSort(h)
        \/ Send(h) \/ EndQuery(h)

QueriesSpec == QueriesInit /\ [][QueriesApi \/ QueriesStep]_queryVars

-----------------------------------------------------------------------------
(* Properties.                                                             *)

(* Documents refer to maps that were made, no two to one, and handlers to  *)
(* documents they have collected.                                          *)
QueriesTypeOK ==
    /\ docs \in [Doc -> 0..Len(maps)]
    /\ \A d, e \in Doc : docs[d] = docs[e] /\ docs[d] # NoMap => d = e
    /\ \A h \in Reader : readers[h] # NoQuery =>
          LET r == readers[h]  refs == {[name |-> r.read[i].name, map |-> r.read[i].map] : i \in DOMAIN r.read} IN
          /\ r.pc \in {"collect", "filter", "order", "sort", "send"}
          /\ ToSet(r.docs) \cup ToSet(r.todo) \cup ToSet(r.kept) \subseteq refs
          /\ r.written \subseteq 1..Len(maps)

(* What a query means, for documents as they were collected: those that    *)
(* match, each at the place that the number of those before it gives it.   *)
Matches(q, fields) ==
    LET holds == {i \in DOMAIN q.filters :
                     matchesOp(fields[q.filters[i].field], q.filters[i].value, q.filters[i].op)}
    IN  IF q.compose = "AND" THEN holds = DOMAIN q.filters ELSE holds # {}

FirstMatch(q, fields) ==
    IF q.compose = "AND" THEN 0
    ELSE CHOOSE i \in DOMAIN q.filters :
            /\ Matches([q EXCEPT !.filters = <<q.filters[i]>>], fields)
            /\ \A j \in 1..(i - 1) : ~Matches([q EXCEPT !.filters = <<q.filters[j]>>], fields)

Below(v, w) == v.type < w.type \/ (v.type = w.type /\ v.type \in 1..6 /\ v.n < w.n)

Precedes(q, read, i, j) ==
    LET SortValue(o, k) == IF o.field = "__name__" THEN [type |-> 4, n |-> read[k].name] ELSE read[k].fields[o.field]
        Way(k) == IF q.order[k].desc THEN Below(SortValue(q.order[k], j), SortValue(q.order[k], i))
                  ELSE Below(SortValue(q.order[k], i), SortValue(q.order[k], j))
        Apart(k) == Below(SortValue(q.order[k], i), SortValue(q.order[k], j)) \/ Below(SortValue(q.order[k], j), SortValue(q.order[k], i))
        apart == {k \in DOMAIN q.order : Apart(k)}
        fi == FirstMatch(q, read[i].fields)
        fj == FirstMatch(q, read[j].fields)
    IN  IF apart # {} THEN Way(CHOOSE k \in apart : \A l \in apart : k <= l)
        ELSE fi < fj \/ (fi = fj /\ i < j)

AnswerTo(q, read) ==
    LET found == {i \in DOMAIN read : Matches(q, read[i].fields)}
        Place(i) == Cardinality({j \in found : Precedes(q, read, j, i)})
        page == {i \in found : /\ Place(i) >= q.offset
                               /\ q.limit # NoLimit => Place(i) < q.offset + q.limit}
    IN  {[place |-> Place(i) - q.offset + 1, name |-> read[i].name, fields |-> read[i].fields] : i \in page}

(* A query answers exactly what it collected under the lock, in the order  *)
(* and the page it asks for, though it filters, sorts and sends without    *)
(* it, and whatever is created, replaced or deleted meanwhile: only an     *)
(* update with a mask can change the answer, and then only of its own      *)
(* document.                                                               *)
AnswersAsCollected ==
    \A h \in Reader : readers[h].pc = "send" =>
        LET r == readers[h] IN
        /\ r.docs = <<>> /\ r.written = {} =>
              AnswerTo(r.query, r.read) =
                  {[place |-> k, name |-> r.sent[k].name, fields |-> r.sent[k].fields] : k \in DOMAIN r.sent}
        /\ \A k \in DOMAIN r.sent :
              /\ \A j \in 1..(k - 1) : r.sent[j].name # r.sent[k].name
              /\ \E i \in DOMAIN r.read :
                    /\ r.read[i].name = r.sent[k].name
                    /\ r.read[i].map \notin r.written =>
                          r.sent[k].fields = r.read[i].fields /\ Matches(r.query, r.sent[k].fields)
=============================================================================
