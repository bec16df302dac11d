------------------------- MODULE CloudStorage_proofs -------------------------
(***************************************************************************)
(* Theorems about CloudStorage, for any number of buckets, clients and     *)
(* handlers, and with or without a data directory.                         *)
(*                                                                         *)
(* The invariant has three parts: what relates objects, buckets, the file  *)
(* and the history (ObjectsInv), what relates sessions and the handlers    *)
(* that write to them (SessionsInv), and what an object's buffer may still *)
(* see of its session (SharedInv).                                         *)
(***************************************************************************)
EXTENDS CloudStorage, TLAPS

Object == [data : Bodies, buf : Id \cup {NoId}]
Blobs == [buckets : SUBSET Bucket, data : [Bucket -> [ObjName -> Bodies]]]
Whose == Uploader \cup {Nobody, Mixed}

ObjectsTypes ==
    /\ buckets \in SUBSET Bucket
    /\ objects \in [Bucket -> [ObjName -> Object]]
    /\ blobs \in Blobs
    /\ sent \in [Bucket -> [ObjName -> Whose]]

(* There is a sender exactly of the objects there are, and of those in the *)
(* file.                                                                   *)
SendersOK ==
    \A b \in Bucket, n \in ObjName :
        /\ up => (sent[b][n] = Nobody <=> objects[b][n].data = <<>>)
        /\ blobs.data[b][n] # <<>> => sent[b][n] # Nobody

ObjectsInv ==
    /\ ObjectsTypes
    /\ Housed
    /\ Intact
    /\ BlobsCurrent
    /\ SendersOK
    /\ ~DataDir => blobs = EmptyBlobs

-----------------------------------------------------------------------------
(* The operators that change one object, and the file.                     *)

LEMMA SenderFacts ==
    /\ \A c \in Uploader : c # Nobody /\ c # Mixed
    /\ Nobody # Mixed
    /\ \A c : <<c>> # <<>> /\ Len(<<c>>) = 1
  BY StorageAssumption

LEMMA NothingTypes ==
    /\ <<>> \in Bodies /\ NoObject \in Object /\ NoObject.data = <<>> /\ NoObject.buf = NoId
    /\ NoObjects \in [Bucket -> [ObjName -> Object]]
    /\ \A b \in Bucket, n \in ObjName : NoObjects[b][n] = NoObject
    /\ EmptyBlobs \in Blobs /\ EmptyBlobs.buckets = {}
    /\ \A b \in Bucket, n \in ObjName : EmptyBlobs.data[b][n] = <<>>
  BY DEF Bodies, NoObject, NoObjects, Object, NoId, EmptyBlobs, Blobs

LEMMA SetObjectIs ==
    ASSUME objects \in [Bucket -> [ObjName -> Object]],
           NEW b \in Bucket, NEW n \in ObjName, NEW o \in Object
    PROVE  /\ SetObject(b, n, o) \in [Bucket -> [ObjName -> Object]]
           /\ \A a \in Bucket, m \in ObjName :
                 SetObject(b, n, o)[a][m] = IF a = b /\ m = n THEN o ELSE objects[a][m]
<1> DEFINE f == [k \in ObjName |-> IF k = n THEN o ELSE objects[b][k]]
<1>1. SetObject(b, n, o) = [objects EXCEPT ![b] = f]
  BY DEF SetObject
<1>2. f \in [ObjName -> Object] /\ \A m \in ObjName : f[m] = IF m = n THEN o ELSE objects[b][m]
  OBVIOUS
<1> HIDE DEF f
<1> QED
  BY <1>1, <1>2

LEMMA SetSentIs ==
    ASSUME sent \in [Bucket -> [ObjName -> Whose]],
           NEW b \in Bucket, NEW n \in ObjName, NEW w \in Whose
    PROVE  /\ SetSent(b, n, w) \in [Bucket -> [ObjName -> Whose]]
           /\ \A a \in Bucket, m \in ObjName :
                 SetSent(b, n, w)[a][m] = IF a = b /\ m = n THEN w ELSE sent[a][m]
<1> DEFINE f == [k \in ObjName |-> IF k = n THEN w ELSE sent[b][k]]
<1>1. SetSent(b, n, w) = [sent EXCEPT ![b] = f]
  BY DEF SetSent
<1>2. f \in [ObjName -> Whose] /\ \A m \in ObjName : f[m] = IF m = n THEN w ELSE sent[b][m]
  OBVIOUS
<1> HIDE DEF f
<1> QED
  BY <1>1, <1>2

LEMMA PersistIs ==
    ASSUME blobs \in Blobs, buckets' \in SUBSET Bucket,
           objects' \in [Bucket -> [ObjName -> Object]], PersistBlobs
    PROVE  /\ blobs' \in Blobs
           /\ ~DataDir => blobs' = blobs
           /\ DataDir => /\ blobs'.buckets = buckets'
                         /\ \A b \in Bucket, n \in ObjName : blobs'.data[b][n] = objects'[b][n].data
<1> DEFINE d == Contents(objects')
<1>1. d \in [Bucket -> [ObjName -> Bodies]]
      /\ \A b \in Bucket, n \in ObjName : d[b][n] = objects'[b][n].data
  BY DEF Contents, Object
<1>2. blobs' = IF DataDir THEN [buckets |-> buckets', data |-> d] ELSE blobs
  BY DEF PersistBlobs
<1> HIDE DEF d
<1> QED
  BY <1>1, <1>2 DEF Blobs

(* What is right in memory is right in the file that is written then.      *)
LEMMA PersistedInv ==
    ASSUME ObjectsInv, up', PersistBlobs,
           buckets' \in SUBSET Bucket,
           objects' \in [Bucket -> [ObjName -> Object]],
           sent' \in [Bucket -> [ObjName -> Whose]],
           \A b \in Bucket, n \in ObjName :
               /\ sent'[b][n] = Nobody <=> objects'[b][n].data = <<>>
               /\ objects'[b][n].data # <<>> => b \in buckets'
               /\ sent'[b][n] \in Uploader => objects'[b][n].data = <<sent'[b][n]>>
    PROVE  ObjectsInv'
<1>1. blobs \in Blobs /\ (~DataDir => blobs = EmptyBlobs)
  BY DEF ObjectsInv, ObjectsTypes
<1>2. /\ blobs' \in Blobs
      /\ ~DataDir => blobs' = EmptyBlobs
      /\ DataDir => /\ blobs'.buckets = buckets'
                    /\ \A b \in Bucket, n \in ObjName : blobs'.data[b][n] = objects'[b][n].data
  BY <1>1, PersistIs
<1>3. ObjectsTypes'
  BY <1>2 DEF ObjectsTypes
<1>4. ASSUME NEW b \in Bucket, NEW n \in ObjName
      PROVE  /\ blobs'.data[b][n] # <<>> => b \in blobs'.buckets /\ sent'[b][n] # Nobody
             /\ DataDir => blobs'.data[b][n] = objects'[b][n].data
  <2>1. CASE DataDir
    BY <1>2, <2>1
  <2>2. CASE ~DataDir
    BY <1>2, <2>2, NothingTypes
  <2> QED
    BY <2>1, <2>2
<1>5. Housed'
  BY <1>4 DEF Housed
<1>6. Intact'
  BY <1>4 DEF Intact
<1>7. BlobsCurrent'
  BY <1>2, <1>4 DEF BlobsCurrent
<1>8. SendersOK'
  BY <1>4 DEF SendersOK
<1> QED
  BY <1>2, <1>3, <1>5, <1>6, <1>7, <1>8 DEF ObjectsInv

(* A method that stores one object, or removes it.                         *)
LEMMA ChangedObject ==
    ASSUME ObjectsInv, up, up',
           NEW b \in Bucket, NEW n \in ObjName, NEW o \in Object, NEW w \in Whose,
           w = Nobody <=> o.data = <<>>,
           o.data # <<>> => b \in buckets,
           w \in Uploader => o.data = <<w>>,
           objects' = SetObject(b, n, o), sent' = SetSent(b, n, w), UNCHANGED buckets, PersistBlobs
    PROVE  ObjectsInv'
<1>1. /\ objects' \in [Bucket -> [ObjName -> Object]]
      /\ \A a \in Bucket, m \in ObjName :
            objects'[a][m] = IF a = b /\ m = n THEN o ELSE objects[a][m]
  BY SetObjectIs DEF ObjectsInv, ObjectsTypes
<1>2. /\ sent' \in [Bucket -> [ObjName -> Whose]]
      /\ \A a \in Bucket, m \in ObjName :
            sent'[a][m] = IF a = b /\ m = n THEN w ELSE sent[a][m]
  BY SetSentIs DEF ObjectsInv, ObjectsTypes
<1>3. buckets' \in SUBSET Bucket
  BY DEF ObjectsInv, ObjectsTypes
<1>4. ASSUME NEW a \in Bucket, NEW m \in ObjName
      PROVE  /\ sent'[a][m] = Nobody <=> objects'[a][m].data = <<>>
             /\ objects'[a][m].data # <<>> => a \in buckets'
             /\ sent'[a][m] \in Uploader => objects'[a][m].data = <<sent'[a][m]>>
  <2>1. CASE a = b /\ m = n
    BY <1>1, <1>2, <2>1
  <2>2. CASE ~(a = b /\ m = n)
    BY <1>1, <1>2, <2>2 DEF ObjectsInv, SendersOK, Housed, Intact
  <2> QED
    BY <2>1, <2>2
<1> QED
  BY <1>1, <1>2, <1>3, <1>4, PersistedInv

LEMMA BucketsInv ==
    ASSUME ObjectsInv, NEW b \in Bucket, CreateBucket(b) \/ DeleteBucket(b)
    PROVE  ObjectsInv'
<1>1. up /\ up' /\ PersistBlobs /\ UNCHANGED sent
  BY DEF CreateBucket, DeleteBucket, process
<1>2. buckets \in SUBSET Bucket /\ sent \in [Bucket -> [ObjName -> Whose]]
      /\ objects \in [Bucket -> [ObjName -> Object]]
  BY DEF ObjectsInv, ObjectsTypes
<1>3. \A a \in Bucket, m \in ObjName :
          /\ sent[a][m] = Nobody <=> objects[a][m].data = <<>>
          /\ objects[a][m].data # <<>> => a \in buckets
          /\ sent[a][m] \in Uploader => objects[a][m].data = <<sent[a][m]>>
  BY <1>1 DEF ObjectsInv, SendersOK, Housed, Intact
<1>4. CASE CreateBucket(b)
  <2>1. b \notin buckets /\ buckets' = buckets \cup {b}
        /\ objects' = [objects EXCEPT ![b] = NoObjects[b]]
    BY <1>4 DEF CreateBucket, NoObjects
  <2>2. objects' \in [Bucket -> [ObjName -> Object]]
    BY <1>2, <2>1, NothingTypes
  <2>3. ASSUME NEW a \in Bucket, NEW m \in ObjName PROVE objects'[a][m].data = objects[a][m].data
    <3>1. CASE a = b
      <4>1. objects[b][m].data = <<>>
        BY <1>3, <2>1
      <4>2. objects'[b][m] = NoObject
        BY <1>2, <2>1, NothingTypes
      <4> QED
        BY <3>1, <4>1, <4>2, NothingTypes
    <3>2. CASE a # b
      BY <1>2, <2>1, <3>2
    <3> QED
      BY <3>1, <3>2
  <2>4. buckets' \in SUBSET Bucket
    BY <1>2, <2>1
  <2> QED
    BY <1>1, <1>2, <1>3, <2>1, <2>2, <2>3, <2>4, PersistedInv
<1>5. CASE DeleteBucket(b)
  <2>1. objects[b] = NoObjects[b] /\ buckets' = buckets \ {b} /\ UNCHANGED objects
    BY <1>5 DEF DeleteBucket
  <2>2. \A m \in ObjName : objects[b][m].data = <<>>
    BY <2>1, NothingTypes
  <2>3. buckets' \in SUBSET Bucket
    BY <1>2, <2>1
  <2> QED
    BY <1>1, <1>2, <1>3, <2>1, <2>2, <2>3, PersistedInv
<1> QED
  BY <1>4, <1>5

LEMMA DeleteObjectInv ==
    ASSUME ObjectsInv, NEW b \in Bucket, NEW n \in ObjName, DeleteObject(b, n)
    PROVE  ObjectsInv'
<1>1. Nobody \in Whose /\ Nobody \notin Uploader
  BY StorageAssumption DEF Whose
<1> QED
  BY <1>1, NothingTypes, ChangedObject DEF DeleteObject, process

LEMMA CopyObjectInv ==
    ASSUME ObjectsInv, NEW b \in Bucket, NEW n \in ObjName, NEW b2 \in Bucket, NEW n2 \in ObjName,
           CopyObject(b, n, b2, n2)
    PROVE  ObjectsInv'
<1> DEFINE o == [data |-> objects[b][n].data, buf |-> NoId]
<1>1. objects[b][n] \in Object /\ sent[b][n] \in Whose
  BY DEF ObjectsInv, ObjectsTypes
<1>2. o \in Object /\ o.data = objects[b][n].data
  BY <1>1 DEF Object
<1>3. up /\ up' /\ b2 \in buckets /\ UNCHANGED buckets /\ PersistBlobs
      /\ objects' = SetObject(b2, n2, o) /\ sent' = SetSent(b2, n2, sent[b][n])
  BY DEF CopyObject, process
<1>4. /\ sent[b][n] = Nobody <=> o.data = <<>>
      /\ sent[b][n] \in Uploader => o.data = <<sent[b][n]>>
  BY <1>2, <1>3 DEF ObjectsInv, SendersOK, Intact
<1> HIDE DEF o
<1> QED
  BY <1>1, <1>2, <1>3, <1>4, ChangedObject

(* PutObject, given the whole of its contents.                             *)
LEMMA PutObjectInv ==
    ASSUME ObjectsInv, up, up', NEW c \in Uploader, NEW data \in Bodies, NEW buf \in Id \cup {NoId},
           NEW who \in Uploader \cup {Mixed},
           data # <<>>, who \in Uploader => data = <<who>>,
           PutObject(c, data, buf, who)
    PROVE  ObjectsInv'
<1> DEFINE o == [data |-> data, buf |-> buf]
           b == Target[c].bucket
           n == Target[c].name
<1>1. b \in Bucket /\ n \in ObjName
  BY StorageAssumption
<1>2. o \in Object /\ o.data = data /\ who \in Whose /\ who # Nobody
  BY SenderFacts DEF Object, Whose
<1>3. CASE b \in buckets
  <2>1. objects' = SetObject(b, n, o) /\ sent' = SetSent(b, n, who) /\ UNCHANGED buckets /\ PersistBlobs
    BY <1>3 DEF PutObject
  <2> HIDE DEF o, b, n
  <2> QED
    BY <1>1, <1>2, <1>3, <2>1, ChangedObject
<1>4. CASE b \notin buckets
  BY <1>4 DEF PutObject, ObjectsInv, ObjectsTypes, Housed, Intact, BlobsCurrent, SendersOK
<1> QED
  BY <1>3, <1>4

LEMMA ObjectsExit ==
    ASSUME ObjectsInv, Stops, StorageExit \/ StorageExitInWrite
    PROVE  ObjectsInv'
<1>1. ~up' /\ buckets' = {} /\ objects' = NoObjects /\ UNCHANGED sent
      /\ (blobs' = blobs \/ blobs' = EmptyBlobs)
  BY DEF Stops, StorageExit, StorageExitInWrite, StorageLost
<1>2. ObjectsTypes'
  BY <1>1, NothingTypes DEF ObjectsInv, ObjectsTypes
<1>3. \A b \in Bucket, n \in ObjName :
          /\ objects'[b][n].data = <<>>
          /\ blobs'.data[b][n] = blobs.data[b][n] \/ blobs'.data[b][n] = <<>>
          /\ blobs'.data[b][n] # <<>> => blobs' = blobs
  BY <1>1, NothingTypes
<1>4. Housed'
  BY <1>3 DEF ObjectsInv, Housed
<1>5. Intact'
  BY <1>1, <1>3 DEF ObjectsInv, Intact
<1>6. BlobsCurrent' /\ (~DataDir => blobs' = EmptyBlobs)
  BY <1>1 DEF ObjectsInv, BlobsCurrent
<1>7. SendersOK'
  BY <1>1, <1>3 DEF ObjectsInv, SendersOK
<1> QED
  BY <1>2, <1>4, <1>5, <1>6, <1>7 DEF ObjectsInv

LEMMA ObjectsLoad ==
    ASSUME ObjectsInv, Starts, StorageLoad
    PROVE  ObjectsInv'
<1>1. up' /\ buckets' = blobs.buckets /\ UNCHANGED blobs
  BY DEF Starts, StorageLoad
<1>2. blobs \in Blobs /\ sent \in [Bucket -> [ObjName -> Whose]]
  BY DEF ObjectsInv, ObjectsTypes
<1>3. /\ objects' \in [Bucket -> [ObjName -> Object]]
      /\ \A b \in Bucket, n \in ObjName : objects'[b][n].data = blobs.data[b][n]
  BY <1>2 DEF StorageLoad, Object, Blobs, NoId
<1>4. /\ sent' \in [Bucket -> [ObjName -> Whose]]
      /\ \A b \in Bucket, n \in ObjName :
            sent'[b][n] = IF blobs.data[b][n] = <<>> THEN Nobody ELSE sent[b][n]
  BY <1>2 DEF StorageLoad, Whose
<1>5. ObjectsTypes'
  BY <1>1, <1>2, <1>3, <1>4 DEF ObjectsTypes, Blobs
<1>6. Housed'
  BY <1>1, <1>3 DEF ObjectsInv, Housed
<1>7. Intact'
  <2> SUFFICES ASSUME NEW b \in Bucket, NEW n \in ObjName, sent'[b][n] \in Uploader
               PROVE  objects'[b][n].data = <<sent'[b][n]>> /\ blobs'.data[b][n] = objects'[b][n].data
    BY DEF Intact
  <2>1. blobs.data[b][n] # <<>> /\ sent'[b][n] = sent[b][n]
    BY <1>4, SenderFacts
  <2>2. DataDir
    BY <2>1, NothingTypes DEF ObjectsInv
  <2> QED
    BY <1>1, <1>3, <2>1, <2>2 DEF ObjectsInv, Intact
<1>8. BlobsCurrent'
  BY <1>1, <1>3 DEF BlobsCurrent
<1>9. SendersOK'
  BY <1>1, <1>3, <1>4 DEF ObjectsInv, SendersOK
<1> QED
  BY <1>1, <1>5, <1>6, <1>7, <1>8, <1>9 DEF ObjectsInv

-----------------------------------------------------------------------------
(* Sessions and the handlers that write to them.                           *)

Session == [open : BOOLEAN, owner : Uploader \cup {Nobody}, data : Bodies, puts : Seq(Uploader)]
UploadData == [pc : {"idle", "media", "chunk", "write", "put", "close"},
               client : Uploader \cup {Nobody}, id : Id \cup {NoId}, at : Nat]
Writing == {"write", "put", "close"}

SessionsTypes ==
    /\ etags \in 0..MaxId
    /\ sessions \in [Id -> Session]
    /\ uploads \in [Handler -> UploadData]
    /\ uploadId \in [Uploader -> Id \cup {NoId}]

(* The counter is ahead of every session that is open or referred to.      *)
NumbersOK ==
    /\ \A i \in Id : sessions[i].open => i <= etags /\ sessions[i].owner \in Uploader
    /\ \A h \in Handler : uploads[h].id <= etags /\ Refers(h)

(* A session that was written to once has had one writer, and holds that   *)
(* client's body as soon as it is written.                                 *)
SessionOK(i) ==
    /\ sessions[i].puts = <<>> => sessions[i].data = <<>>
    /\ \A h \in Handler : uploads[h].pc \in Writing /\ uploads[h].id = i =>
          /\ Len(sessions[i].puts) >= 1
          /\ \A g \in Handler : uploads[g].pc \in Writing /\ uploads[g].id = i /\ g # h =>
                Len(sessions[i].puts) >= 2
          /\ Len(sessions[i].puts) = 1 =>
                /\ uploads[h].at = 0 /\ uploads[h].client = sessions[i].puts[1]
                /\ uploads[h].pc # "write" => sessions[i].data = <<sessions[i].puts[1]>>
    /\ Len(sessions[i].puts) = 1 => Len(sessions[i].data) = 1

SessionsInv == SessionsTypes /\ NumbersOK /\ \A i \in Id : SessionOK(i)

LEMMA SessionFacts ==
    ASSUME SessionsInv, NEW i \in Id
    PROVE  /\ sessions[i] \in Session /\ sessions[i].data \in Bodies /\ sessions[i].puts \in Seq(Uploader)
           /\ sessions[i].owner \in Uploader \cup {Nobody}
           /\ Len(sessions[i].data) \in Nat /\ Len(sessions[i].puts) \in Nat
  BY DEF SessionsInv, SessionsTypes, Session, Bodies

LEMMA UploadFacts ==
    ASSUME SessionsInv, NEW h \in Handler
    PROVE  /\ uploads[h] \in UploadData
           /\ uploads[h].at \in Nat /\ uploads[h].id \in Id \cup {NoId}
           /\ uploads[h].pc \in Writing =>
                 uploads[h].id \in Id /\ uploads[h].client \in Uploader
                 /\ sessions[uploads[h].id].owner \in Uploader
  BY DEF SessionsInv, SessionsTypes, UploadData, NumbersOK, Refers, Writing

(* Steps that write to no session: nobody starts to write, and what a      *)
(* writer has done stays.                                                  *)
LEMMA SessionsKept ==
    ASSUME SessionsInv, SessionsTypes', etags <= etags',
           \A i \in Id : /\ sessions'[i].data = sessions[i].data /\ sessions'[i].puts = sessions[i].puts
                         /\ sessions'[i].owner = sessions[i].owner
                         /\ sessions'[i].open => sessions[i].open,
           \A h \in Handler : uploads'[h].pc \in Writing =>
               /\ uploads[h].pc \in Writing /\ (uploads'[h].pc # "write" => uploads[h].pc # "write")
               /\ uploads'[h].id = uploads[h].id /\ uploads'[h].at = uploads[h].at
               /\ uploads'[h].client = uploads[h].client,
           \A h \in Handler : uploads'[h].id <= etags' /\ Refers(h)'
    PROVE  SessionsInv'
<1>1. NumbersOK'
  BY DEF SessionsInv, SessionsTypes, NumbersOK, Id
<1>2. ASSUME NEW i \in Id PROVE SessionOK(i)'
  <2>1. SessionOK(i)
    BY DEF SessionsInv
  <2> QED
    BY <2>1 DEF SessionOK
<1> QED
  BY <1>1, <1>2 DEF SessionsInv

LEMMA UploadIs ==
    /\ IdleUpload \in UploadData /\ IdleUpload.pc = "idle" /\ IdleUpload.id = 0
    /\ \A pc \in {"media", "chunk"}, c \in Uploader, i \in Id \cup {NoId} :
          /\ Upload(pc, c, i) \in UploadData
          /\ Upload(pc, c, i).pc = pc /\ Upload(pc, c, i).client = c /\ Upload(pc, c, i).id = i
  BY DEF IdleUpload, Upload, UploadData, NoId

(* A handler that does not write to a session, or no longer.               *)
LEMMA QuietUpload ==
    ASSUME SessionsInv, NEW h \in Handler, NEW u \in UploadData,
           uploads' = [uploads EXCEPT ![h] = u], UNCHANGED <<etags, sessions, uploadId>>,
           u.pc \in {"idle", "media", "chunk"}, u.id <= etags,
           u.pc # "idle" => u.client \in Uploader,
           u.pc = "chunk" => u.id \in Id /\ sessions[u.id].owner \in Uploader
    PROVE  SessionsInv'
<1>1. /\ uploads' \in [Handler -> UploadData]
      /\ \A g \in Handler : uploads'[g] = IF g = h THEN u ELSE uploads[g]
  BY DEF SessionsInv, SessionsTypes
<1>2. SessionsTypes'
  BY <1>1 DEF SessionsInv, SessionsTypes
<1>3. \A g \in Handler : uploads'[g].pc \in Writing => uploads'[g] = uploads[g]
  BY <1>1 DEF Writing
<1>4. ASSUME NEW g \in Handler PROVE uploads'[g].id <= etags' /\ Refers(g)'
  <2>1. CASE g = h
    BY <1>1, <2>1 DEF Refers
  <2>2. CASE g # h
    <3>1. uploads'[g] = uploads[g] /\ uploads[g].id <= etags /\ Refers(g)
      BY <1>1, <2>2 DEF SessionsInv, NumbersOK
    <3> QED
      BY <3>1 DEF Refers
  <2> QED
    BY <2>1, <2>2
<1>5. etags \in Nat
  BY StorageAssumption DEF SessionsInv, SessionsTypes
<1> QED
  BY <1>2, <1>3, <1>4, <1>5, SessionsKept

LEMMA IdleSessions ==
    ASSUME SessionsInv, NEW h \in Handler,
           uploads' = [uploads EXCEPT ![h] = IdleUpload], UNCHANGED <<etags, sessions, uploadId>>
    PROVE  SessionsInv'
<1>1. 0 <= etags
  BY StorageAssumption DEF SessionsInv, SessionsTypes
<1> DEFINE u == IdleUpload
<1>2. u \in UploadData /\ u.pc = "idle" /\ u.id <= etags
  BY <1>1, UploadIs
<1>3. uploads' = [uploads EXCEPT ![h] = u]
  OBVIOUS
<1> HIDE DEF u
<1> QED
  BY <1>2, <1>3, QuietUpload

LEMMA RequestSessions ==
    ASSUME SessionsInv, NEW h \in Handler, NEW c \in Uploader, BeginUpload(h, c) \/ BeginChunk(h, c)
    PROVE  SessionsInv'
<1>0. NoId \in Id \cup {NoId} /\ NoId <= etags
  BY StorageAssumption DEF NoId, SessionsInv, SessionsTypes
<1>1. PICK pc \in {"media", "chunk"}, i \in Id \cup {NoId} :
          /\ uploads' = [uploads EXCEPT ![h] = Upload(pc, c, i)]
          /\ i <= etags
          /\ pc = "chunk" => i \in Id /\ sessions[i].owner \in Uploader
  <2>1. CASE BeginUpload(h, c)
    BY <1>0, <2>1 DEF BeginUpload
  <2>2. CASE BeginChunk(h, c)
    <3>1. uploadId[c] \in Id
      BY <2>2 DEF BeginChunk, SessionsInv, SessionsTypes
    <3>2. uploadId[c] <= etags /\ sessions[uploadId[c]].owner \in Uploader
      BY <2>2, <3>1 DEF BeginChunk, SessionsInv, NumbersOK
    <3>3. uploads' = [uploads EXCEPT ![h] = Upload("chunk", c, uploadId[c])]
      BY <2>2 DEF BeginChunk
    <3> QED
      BY <3>1, <3>2, <3>3
  <2> QED
    BY <2>1, <2>2
<1>2. UNCHANGED <<etags, sessions, uploadId>>
  BY DEF BeginUpload, BeginChunk
<1> DEFINE u == Upload(pc, c, i)
<1>3. u \in UploadData /\ u.pc = pc /\ u.client = c /\ u.id = i
  BY UploadIs
<1>4. uploads' = [uploads EXCEPT ![h] = u]
  BY <1>1
<1> HIDE DEF u
<1> QED
  BY <1>1, <1>2, <1>3, <1>4, QuietUpload

LEMMA EndSessions ==
    ASSUME SessionsInv, NEW h \in Handler, BodyLost(h) \/ PutMedia(h)
    PROVE  SessionsInv'
  BY IdleSessions DEF BodyLost, PutMedia

(* A handler goes on to its next place, with the same session.             *)
LEMMA NextPlace ==
    ASSUME SessionsInv, NEW h \in Handler, NEW pc \in Writing
    PROVE  LET u == [uploads[h] EXCEPT !.pc = pc]
           IN  /\ u \in UploadData /\ u.pc = pc
               /\ u.id = uploads[h].id /\ u.at = uploads[h].at /\ u.client = uploads[h].client
  BY UploadFacts DEF UploadData, Writing

LEMMA PutChunkSessions ==
    ASSUME SessionsInv, NEW h \in Handler, PutChunk(h)
    PROVE  SessionsInv'
<1> DEFINE u == [uploads[h] EXCEPT !.pc = "close"]
<1>1. uploads[h].pc = "put" /\ UNCHANGED <<etags, sessions, uploadId>>
  BY DEF PutChunk, Written
<1>2. uploads' = [uploads EXCEPT ![h] = u] \/ uploads' = [uploads EXCEPT ![h] = IdleUpload]
  BY DEF PutChunk
<1>3. etags \in Nat
  BY StorageAssumption DEF SessionsInv, SessionsTypes
<1>4. CASE uploads' = [uploads EXCEPT ![h] = IdleUpload]
  BY <1>1, <1>4, IdleSessions
<1>5. CASE uploads' = [uploads EXCEPT ![h] = u]
  <2>1. /\ u \in UploadData /\ u.pc = "close"
        /\ u.id = uploads[h].id /\ u.at = uploads[h].at /\ u.client = uploads[h].client
    BY NextPlace DEF Writing
  <2> HIDE DEF u
  <2>2. \A g \in Handler : uploads'[g] = IF g = h THEN u ELSE uploads[g]
    BY <1>5 DEF SessionsInv, SessionsTypes
  <2>3. SessionsTypes'
    BY <1>1, <1>5, <2>1 DEF SessionsInv, SessionsTypes
  <2>4. ASSUME NEW g \in Handler PROVE uploads'[g].id <= etags' /\ Refers(g)'
    <3>1. uploads[g].id <= etags /\ Refers(g)
      BY DEF SessionsInv, NumbersOK
    <3> QED
      BY <1>1, <2>1, <2>2, <3>1 DEF Refers
  <2>5. ASSUME NEW g \in Handler, uploads'[g].pc \in Writing
        PROVE  /\ uploads[g].pc \in Writing /\ (uploads'[g].pc # "write" => uploads[g].pc # "write")
               /\ uploads'[g].id = uploads[g].id /\ uploads'[g].at = uploads[g].at
               /\ uploads'[g].client = uploads[g].client
    BY <1>1, <2>1, <2>2, <2>5 DEF Writing
  <2> QED
    BY <1>1, <1>3, <2>3, <2>4, <2>5, SessionsKept
<1> QED
  BY <1>2, <1>4, <1>5

LEMMA CloseSessions ==
    ASSUME SessionsInv, NEW h \in Handler, CloseSession(h)
    PROVE  SessionsInv'
<1> DEFINE i == uploads[h].id
           s == [sessions[i] EXCEPT !.open = FALSE]
<1>1. uploads[h].pc = "close" /\ UNCHANGED <<etags, uploadId>>
      /\ sessions' = [sessions EXCEPT ![i] = s] /\ uploads' = [uploads EXCEPT ![h] = IdleUpload]
  BY DEF CloseSession
<1>2. i \in Id /\ sessions[i] \in Session
  BY <1>1, UploadFacts, SessionFacts DEF Writing
<1>3. /\ s.data = sessions[i].data /\ s.puts = sessions[i].puts /\ s.owner = sessions[i].owner
      /\ s.open = FALSE
  BY <1>2 DEF Session
<1>4. s \in Session
  BY <1>2 DEF Session
<1> HIDE DEF i, s
<1>5. sessions \in [Id -> Session] /\ uploads \in [Handler -> UploadData] /\ etags \in Nat
  BY StorageAssumption DEF SessionsInv, SessionsTypes
<1>6. \A k \in Id : sessions'[k] = IF k = i THEN s ELSE sessions[k]
  BY <1>1, <1>5
<1>7. \A g \in Handler : uploads'[g] = IF g = h THEN IdleUpload ELSE uploads[g]
  BY <1>1, <1>5
<1>8. SessionsTypes'
  BY <1>1, <1>4, <1>5, UploadIs DEF SessionsInv, SessionsTypes
<1>9. ASSUME NEW k \in Id
      PROVE  /\ sessions'[k].data = sessions[k].data /\ sessions'[k].puts = sessions[k].puts
             /\ sessions'[k].owner = sessions[k].owner
             /\ sessions'[k].open => sessions[k].open
  <2>1. CASE k = i
    <3>1. ~sessions'[k].open
      BY <1>3, <1>6, <2>1
    <3>2. /\ sessions'[k].data = sessions[k].data /\ sessions'[k].puts = sessions[k].puts
          /\ sessions'[k].owner = sessions[k].owner
      BY <1>3, <1>6, <2>1
    <3> QED
      BY <3>1, <3>2
  <2>2. CASE k # i
    BY <1>6, <2>2
  <2> QED
    BY <2>1, <2>2
<1>10. ASSUME NEW g \in Handler PROVE uploads'[g].id <= etags' /\ Refers(g)'
  <2>1. uploads[g].id <= etags /\ Refers(g)
    BY DEF SessionsInv, NumbersOK
  <2>2. CASE g = h
    BY <1>1, <1>5, <1>7, <2>2, UploadIs DEF Refers
  <2>3. CASE g # h
    BY <1>1, <1>7, <1>9, <2>1, <2>3 DEF Refers
  <2> QED
    BY <2>2, <2>3
<1>11. \A g \in Handler : uploads'[g].pc \in Writing => uploads'[g] = uploads[g]
  BY <1>7, UploadIs DEF Writing
<1> QED
  BY <1>1, <1>5, <1>8, <1>9, <1>10, <1>11, SessionsKept

LEMMA StartSessions ==
    ASSUME SessionsInv, NEW c \in Uploader, StartSession(c)
    PROVE  SessionsInv'
<1> DEFINE s == [open |-> TRUE, owner |-> c, data |-> <<>>, puts |-> <<>>]
           i == etags + 1
<1>1. etags < MaxId /\ etags' = i /\ UNCHANGED uploads
      /\ sessions' = [sessions EXCEPT ![i] = s] /\ uploadId' = [uploadId EXCEPT ![c] = i]
  BY DEF StartSession
<1>2. etags \in 0..MaxId /\ MaxId \in Nat
  BY StorageAssumption DEF SessionsInv, SessionsTypes
<1>3. i \in Id /\ i \in 0..MaxId /\ i \in Nat /\ etags < i
  BY <1>1, <1>2 DEF Id
<1>4. s \in Session /\ s.data = <<>> /\ s.puts = <<>> /\ s.owner = c
  BY DEF Session, Bodies
<1> HIDE DEF i, s
<1>5. sessions \in [Id -> Session] /\ uploadId \in [Uploader -> Id \cup {NoId}]
  BY DEF SessionsInv, SessionsTypes
<1>6. \A k \in Id : sessions'[k] = IF k = i THEN s ELSE sessions[k]
  BY <1>1, <1>5
<1>7. SessionsTypes'
  BY <1>1, <1>3, <1>4, <1>5 DEF SessionsInv, SessionsTypes
<1>8. \A h \in Handler : uploads[h].id \in Id \cup {NoId} /\ uploads[h].id <= etags /\ uploads[h].id # i
  BY <1>2, <1>3, UploadFacts DEF SessionsInv, NumbersOK, Id, NoId
<1>9. NumbersOK'
  <2>1. ASSUME NEW k \in Id, sessions'[k].open PROVE k <= etags' /\ sessions'[k].owner \in Uploader
    <3>1. CASE k = i
      BY <1>1, <1>3, <1>4, <1>6, <3>1
    <3>2. CASE k # i
      <4>1. k <= etags /\ sessions[k].owner \in Uploader
        BY <1>6, <2>1, <3>2 DEF SessionsInv, NumbersOK
      <4> QED
        BY <1>1, <1>2, <1>3, <1>6, <3>2, <4>1 DEF Id
    <3> QED
      BY <3>1, <3>2
  <2>2. ASSUME NEW h \in Handler PROVE uploads'[h].id <= etags' /\ Refers(h)'
    <3>1. uploads[h].id <= etags /\ Refers(h)
      BY DEF SessionsInv, NumbersOK
    <3>2. uploads[h].id <= etags'
      BY <1>1, <1>2, <1>3, <1>8, <3>1 DEF Id, NoId
    <3>3. Refers(h)'
      BY <1>1, <1>6, <1>8, <3>1 DEF Refers
    <3> QED
      BY <1>1, <3>2, <3>3
  <2> QED
    BY <2>1, <2>2 DEF NumbersOK
<1>10. ASSUME NEW k \in Id PROVE SessionOK(k)'
  <2>1. CASE k = i
    BY <1>1, <1>4, <1>6, <1>8, <2>1 DEF SessionOK
  <2>2. CASE k # i
    BY <1>1, <1>6, <2>2 DEF SessionsInv, SessionOK
  <2> QED
    BY <2>1, <2>2
<1> QED
  BY <1>7, <1>9, <1>10 DEF SessionsInv

LEMMA OverwriteIs ==
    ASSUME NEW d \in Bodies, NEW at \in Nat, NEW c \in Uploader
    PROVE  /\ Overwrite(d, at, c) \in Bodies
           /\ Len(Overwrite(d, at, c)) = Len(d)
           /\ Overwrite(d, at, c) = <<>> <=> d = <<>>
           /\ Len(d) = 1 /\ at = 0 => Overwrite(d, at, c) = <<c>>
           /\ Len(d) = 1 /\ at # 0 => Overwrite(d, at, c) = d
  BY DEF Overwrite, Bodies

(* What WriteBegin and WriteEnd make of the session and the handler.       *)
LEMMA WriteBeginIs ==
    ASSUME SessionsInv, NEW h \in Handler, WriteBegin(h)
    PROVE  LET i == uploads[h].id  c == uploads[h].client  s == sessions[i] IN
           /\ uploads[h].pc = "chunk" /\ i \in Id /\ c \in Uploader
           /\ \E at \in Nat, d \in Bodies, t \in Session, u \in UploadData :
                 /\ sessions' = [sessions EXCEPT ![i] = t] /\ uploads' = [uploads EXCEPT ![h] = u]
                 /\ t.data = d /\ t.puts = Append(s.puts, c) /\ t.owner = s.owner /\ t.open = s.open
                 /\ u.pc = "write" /\ u.at = at /\ u.id = i /\ u.client = c
                 /\ at < Len(d) /\ Len(s.data) <= Len(d)
                 /\ \/ at = Len(s.data) /\ Len(d) = Len(s.data) + 1
                    \/ /\ d = s.data
                       /\ \E g \in Handler :
                             uploads[g].pc = "write" /\ uploads[g].id = i /\ uploads[g].at = at
<1> DEFINE i == uploads[h].id
           c == uploads[h].client
           s == sessions[i]
<1>1. uploads[h].pc = "chunk"
  BY DEF WriteBegin
<1>2. i \in Id /\ c \in Uploader /\ uploads[h] \in UploadData
  BY <1>1, UploadFacts DEF SessionsInv, NumbersOK, Refers
<1>3. s \in Session /\ s.data \in Bodies /\ s.puts \in Seq(Uploader) /\ Len(s.data) \in Nat
  BY <1>2, SessionFacts
<1>4. PICK at \in Offsets(i) :
          /\ sessions' = [sessions EXCEPT ![i] =
                [s EXCEPT !.data = IF at = Len(s.data) THEN Append(s.data, Torn) ELSE s.data,
                          !.puts = Append(s.puts, c)]]
          /\ uploads' = [uploads EXCEPT ![h] = [uploads[h] EXCEPT !.pc = "write", !.at = at]]
  BY DEF WriteBegin
<1> DEFINE d == IF at = Len(s.data) THEN Append(s.data, Torn) ELSE s.data
           t == [s EXCEPT !.data = d, !.puts = Append(s.puts, c)]
           u == [uploads[h] EXCEPT !.pc = "write", !.at = at]
<1>5. \/ at = Len(s.data)
      \/ \E g \in Handler : /\ uploads[g].pc = "write" /\ uploads[g].id = i /\ uploads[g].at = at
                            /\ at < Len(s.data)
  BY DEF Offsets, SessionsInv, NumbersOK, Refers
<1>6. at \in Nat
  BY <1>3, <1>5, UploadFacts
<1>7. d \in Bodies /\ at < Len(d) /\ Len(s.data) <= Len(d)
      /\ (at = Len(s.data) => Len(d) = Len(s.data) + 1) /\ (at # Len(s.data) => d = s.data)
  <2>1. CASE at = Len(s.data)
    <3>1. d = Append(s.data, Torn)
      BY <2>1
    <3>2. Append(s.data, Torn) \in Bodies /\ Len(Append(s.data, Torn)) = Len(s.data) + 1
      BY <1>3 DEF Bodies
    <3>3. d \in Bodies /\ Len(d) = Len(s.data) + 1
      BY <3>1, <3>2, Zenon
    <3> HIDE DEF d
    <3> QED
      BY <1>3, <2>1, <3>3
  <2>2. CASE at # Len(s.data)
    <3>1. d = s.data
      BY <2>2
    <3> HIDE DEF d
    <3> QED
      BY <1>3, <1>5, <2>2, <3>1
  <2> QED
    BY <2>1, <2>2
<1>8. Append(s.puts, c) \in Seq(Uploader)
  BY <1>2, <1>3
<1> HIDE DEF d
<1>9. t \in Session /\ t.data = d /\ t.puts = Append(s.puts, c) /\ t.owner = s.owner /\ t.open = s.open
  BY <1>3, <1>7, <1>8 DEF Session
<1>10. u \in UploadData /\ u.pc = "write" /\ u.at = at /\ u.id = i /\ u.client = c
  BY <1>2, <1>6 DEF UploadData
<1>11. sessions' = [sessions EXCEPT ![i] = t] /\ uploads' = [uploads EXCEPT ![h] = u]
  BY <1>4 DEF d
<1> HIDE DEF t, u, s, c
<1>12. \E at0 \in Nat, d0 \in Bodies, t0 \in Session, u0 \in UploadData :
          /\ sessions' = [sessions EXCEPT ![i] = t0] /\ uploads' = [uploads EXCEPT ![h] = u0]
          /\ t0.data = d0 /\ t0.puts = Append(s.puts, c) /\ t0.owner = s.owner /\ t0.open = s.open
          /\ u0.pc = "write" /\ u0.at = at0 /\ u0.id = i /\ u0.client = c
          /\ at0 < Len(d0) /\ Len(s.data) <= Len(d0)
          /\ \/ at0 = Len(s.data) /\ Len(d0) = Len(s.data) + 1
             \/ /\ d0 = s.data
                /\ \E g \in Handler :
                      uploads[g].pc = "write" /\ uploads[g].id = i /\ uploads[g].at = at0
  <2> HIDE DEF i
  <2> USE <1>6, <1>7, <1>9, <1>10
  <2> WITNESS at \in Nat, d \in Bodies, t \in Session, u \in UploadData
  <2>1. \/ at = Len(s.data) /\ Len(d) = Len(s.data) + 1
        \/ /\ d = s.data
           /\ \E g \in Handler :
                 uploads[g].pc = "write" /\ uploads[g].id = i /\ uploads[g].at = at
    BY <1>5
  <2> QED
    BY <1>11, <2>1
<1> QED
  BY <1>1, <1>2, <1>12 DEF s, c

LEMMA WriteBeginSessions ==
    ASSUME SessionsInv, NEW h \in Handler, WriteBegin(h)
    PROVE  SessionsInv'
<1> DEFINE i == uploads[h].id
           c == uploads[h].client
           s == sessions[i]
<1>1. uploads[h].pc = "chunk" /\ i \in Id /\ c \in Uploader
  BY WriteBeginIs
<1>2. PICK at \in Nat, d \in Bodies, t \in Session, u \in UploadData :
          /\ sessions' = [sessions EXCEPT ![i] = t] /\ uploads' = [uploads EXCEPT ![h] = u]
          /\ t.data = d /\ t.puts = Append(s.puts, c) /\ t.owner = s.owner /\ t.open = s.open
          /\ u.pc = "write" /\ u.at = at /\ u.id = i /\ u.client = c
          /\ at < Len(d) /\ Len(s.data) <= Len(d)
          /\ \/ at = Len(s.data) /\ Len(d) = Len(s.data) + 1
             \/ /\ d = s.data
                /\ \E g \in Handler : uploads[g].pc = "write" /\ uploads[g].id = i /\ uploads[g].at = at
  BY WriteBeginIs
<1>3. UNCHANGED <<etags, uploadId>>
  BY DEF WriteBegin
<1>4. sessions \in [Id -> Session] /\ uploads \in [Handler -> UploadData]
  BY DEF SessionsInv, SessionsTypes
<1>5. s.data \in Bodies /\ s.puts \in Seq(Uploader) /\ Len(s.data) \in Nat /\ Len(s.puts) \in Nat
  BY <1>1, SessionFacts
<1>6. /\ \A k \in Id : sessions'[k] = IF k = i THEN t ELSE sessions[k]
      /\ \A g \in Handler : uploads'[g] = IF g = h THEN u ELSE uploads[g]
  BY <1>2, <1>4
<1>7. SessionsTypes'
  BY <1>2, <1>3, <1>4 DEF SessionsInv, SessionsTypes
<1>8. /\ Len(t.puts) = Len(s.puts) + 1 /\ t.puts # <<>>
      /\ Len(t.puts) = 1 => Len(s.puts) = 0
      /\ Len(s.puts) = 0 => t.puts[1] = c
      /\ Len(s.puts) = 0 <=> s.puts = <<>>
      /\ Len(s.data) = 0 <=> s.data = <<>>
  <2>1. t.puts = Append(s.puts, c) /\ s.puts \in Seq(Uploader) /\ c \in Uploader
    BY <1>1, <1>2, <1>5
  <2>2. s.data \in Seq(Uploader \cup {Torn})
    BY <1>5 DEF Bodies
  <2> HIDE DEF s, c
  <2>3. Len(t.puts) = Len(s.puts) + 1 /\ t.puts # <<>> /\ (Len(s.puts) = 0 => t.puts[1] = c)
    BY <2>1
  <2>4. (Len(s.puts) = 0 <=> s.puts = <<>>) /\ (Len(s.data) = 0 <=> s.data = <<>>)
    BY <2>1, <2>2
  <2>5. Len(t.puts) = 1 => Len(s.puts) = 0
    BY <2>1, <2>3
  <2> QED
    BY <2>3, <2>4, <2>5
<1>9. ASSUME NEW g \in Handler PROVE uploads[g].id <= etags /\ Refers(g)
  BY DEF SessionsInv, NumbersOK
<1>10. SessionOK(i) /\ \A k \in Id : sessions[k].open => k <= etags /\ sessions[k].owner \in Uploader
  BY <1>1 DEF SessionsInv, NumbersOK
<1>11. s.owner \in Uploader
  BY <1>1, <1>9 DEF Refers
<1> HIDE DEF i, s, c
<1>12. NumbersOK'
  <2>1. ASSUME NEW g \in Handler PROVE Refers(g)'
    <3>1. CASE g = h
      BY <1>1, <1>2, <1>6, <1>11, <3>1 DEF Refers
    <3>2. CASE g # h
      <4>1. uploads'[g] = uploads[g] /\ Refers(g)
        BY <1>6, <1>9, <3>2
      <4>2. CASE uploads[g].id = i
        <5>1. sessions[uploads[g].id] = s /\ sessions'[uploads[g].id] = t
          BY <1>1, <1>6, <4>2 DEF s
        <5>2. uploads[g].pc \in {"write", "put"} => uploads[g].at < Len(t.data)
          BY <1>2, <1>5, <4>1, <5>1, UploadFacts DEF Refers, Bodies
        <5> QED
          BY <1>2, <4>1, <5>1, <5>2 DEF Refers
      <4>3. CASE uploads[g].id # i
        BY <1>6, <4>1, <4>3 DEF Refers
      <4> QED
        BY <4>2, <4>3
    <3> QED
      BY <3>1, <3>2
  <2>2. ASSUME NEW g \in Handler PROVE uploads'[g].id <= etags'
    BY <1>2, <1>3, <1>6, <1>9 DEF i
  <2>3. ASSUME NEW k \in Id, sessions'[k].open PROVE k <= etags' /\ sessions'[k].owner \in Uploader
    BY <1>2, <1>3, <1>6, <1>10, <2>3 DEF s
  <2> QED
    BY <2>1, <2>2, <2>3 DEF NumbersOK
<1>13. ASSUME NEW k \in Id PROVE SessionOK(k)'
  <2>1. CASE k # i
    <3>1. \A g \in Handler : uploads'[g].id = k => uploads'[g] = uploads[g]
      BY <1>2, <1>6, <2>1
    <3>2. sessions'[k] = sessions[k] /\ SessionOK(k)
      BY <1>6, <2>1 DEF SessionsInv
    <3> QED
      BY <3>1, <3>2 DEF SessionOK
  <2>2. CASE k = i
    <3>1. sessions'[k] = t /\ Len(t.puts) >= 1
      BY <1>5, <1>6, <1>8, <2>2
    <3>2. ASSUME NEW g \in Handler, g # h, uploads[g].pc \in Writing, uploads[g].id = i
          PROVE  Len(s.puts) >= 1 /\ Len(t.puts) >= 2
      BY <1>5, <1>8, <1>10, <3>2 DEF SessionOK, s
    <3>3. ASSUME Len(t.puts) = 1
          PROVE  /\ s.puts = <<>> /\ s.data = <<>> /\ t.puts[1] = c
                 /\ at = 0 /\ Len(t.data) = 1
      <4>1. s.puts = <<>> /\ t.puts[1] = c
        <5>1. Len(s.puts) = 0
          BY <1>8, <3>3, Zenon
        <5> QED
          BY <1>8, <5>1, Zenon
      <4>2. s.data = <<>>
        BY <1>10, <4>1 DEF SessionOK, s
      <4>3. Len(d) = 1 /\ at = 0
        BY <1>2, <1>5, <1>8, <4>2 DEF Bodies
      <4> QED
        BY <1>2, <4>1, <4>2, <4>3
    <3>4. ASSUME NEW g \in Handler, uploads'[g].pc \in Writing, uploads'[g].id = k
          PROVE  /\ Len(t.puts) >= 1
                 /\ \A f \in Handler : uploads'[f].pc \in Writing /\ uploads'[f].id = k /\ f # g =>
                       Len(t.puts) >= 2
                 /\ Len(t.puts) = 1 =>
                       /\ uploads'[g].at = 0 /\ uploads'[g].client = t.puts[1]
                       /\ uploads'[g].pc = "write"
      <4>1. \A f \in Handler : uploads'[f].pc \in Writing /\ uploads'[f].id = k /\ f # g => Len(t.puts) >= 2
        BY <1>6, <2>2, <3>2, <3>4
      <4>2. Len(t.puts) = 1 => g = h
        BY <1>6, <2>2, <3>2, <3>4
      <4> QED
        BY <1>2, <1>6, <3>1, <3>3, <4>1, <4>2
    <3> QED
      BY <1>8, <3>1, <3>3, <3>4 DEF SessionOK
  <2> QED
    BY <2>1, <2>2
<1> QED
  BY <1>7, <1>12, <1>13 DEF SessionsInv
LEMMA WriteEndIs ==
    ASSUME SessionsInv, NEW h \in Handler, WriteEnd(h)
    PROVE  LET i == uploads[h].id  at == uploads[h].at  c == uploads[h].client  s == sessions[i] IN
           /\ uploads[h].pc = "write" /\ i \in Id /\ c \in Uploader /\ at \in Nat
           /\ \E t \in Session, u \in UploadData :
                 /\ sessions' = [sessions EXCEPT ![i] = t] /\ uploads' = [uploads EXCEPT ![h] = u]
                 /\ t.data = Overwrite(s.data, at, c)
                 /\ t.puts = s.puts /\ t.owner = s.owner /\ t.open = s.open
                 /\ u.pc = "put" /\ u.at = at /\ u.id = i /\ u.client = c
<1> DEFINE i == uploads[h].id
           at == uploads[h].at
           c == uploads[h].client
           s == sessions[i]
           d == Overwrite(s.data, at, c)
           t == [s EXCEPT !.data = d]
           u == [uploads[h] EXCEPT !.pc = "put"]
<1>1. uploads[h].pc = "write"
  BY DEF WriteEnd
<1>2. i \in Id /\ c \in Uploader /\ at \in Nat
  BY <1>1, UploadFacts DEF Writing
<1>3. s \in Session /\ s.data \in Bodies
  BY <1>2, SessionFacts
<1>4. d \in Bodies
  BY <1>2, <1>3, OverwriteIs
<1>5. sessions' = [sessions EXCEPT ![i] = t] /\ uploads' = [uploads EXCEPT ![h] = u]
  BY Zenon DEF WriteEnd
<1> HIDE DEF d
<1>6. t \in Session /\ t.data = d /\ t.puts = s.puts /\ t.owner = s.owner /\ t.open = s.open
  BY <1>3, <1>4 DEF Session
<1>7. u \in UploadData /\ u.pc = "put" /\ u.at = at /\ u.id = i /\ u.client = c
  BY NextPlace DEF Writing
<1> HIDE DEF t, u, s, c
<1>8. \E t0 \in Session, u0 \in UploadData :
          /\ sessions' = [sessions EXCEPT ![i] = t0] /\ uploads' = [uploads EXCEPT ![h] = u0]
          /\ t0.data = d
          /\ t0.puts = s.puts /\ t0.owner = s.owner /\ t0.open = s.open
          /\ u0.pc = "put" /\ u0.at = at /\ u0.id = i /\ u0.client = c
  BY <1>5, <1>6, <1>7
<1> QED
  BY <1>1, <1>2, <1>8 DEF s, c, d

LEMMA WriteEndSessions ==
    ASSUME SessionsInv, NEW h \in Handler, WriteEnd(h)
    PROVE  SessionsInv'
<1> DEFINE i == uploads[h].id
           at == uploads[h].at
           c == uploads[h].client
           s == sessions[i]
<1>1. uploads[h].pc = "write" /\ i \in Id /\ c \in Uploader /\ at \in Nat
  BY WriteEndIs
<1>2. PICK t \in Session, u \in UploadData :
          /\ sessions' = [sessions EXCEPT ![i] = t] /\ uploads' = [uploads EXCEPT ![h] = u]
          /\ t.data = Overwrite(s.data, at, c)
          /\ t.puts = s.puts /\ t.owner = s.owner /\ t.open = s.open
          /\ u.pc = "put" /\ u.at = at /\ u.id = i /\ u.client = c
  BY WriteEndIs
<1>3. UNCHANGED <<etags, uploadId>>
  BY DEF WriteEnd
<1>4. sessions \in [Id -> Session] /\ uploads \in [Handler -> UploadData]
  BY DEF SessionsInv, SessionsTypes
<1>5. s.data \in Bodies /\ s.puts \in Seq(Uploader) /\ Len(s.data) \in Nat /\ Len(s.puts) \in Nat
  BY <1>1, SessionFacts
<1>6. /\ \A k \in Id : sessions'[k] = IF k = i THEN t ELSE sessions[k]
      /\ \A g \in Handler : uploads'[g] = IF g = h THEN u ELSE uploads[g]
  BY <1>2, <1>4
<1>7. SessionsTypes'
  BY <1>2, <1>3, <1>4 DEF SessionsInv, SessionsTypes
<1>8. /\ Len(t.data) = Len(s.data) /\ (t.data = <<>> <=> s.data = <<>>)
      /\ Len(s.data) = 1 /\ at = 0 => t.data = <<c>>
  <2>1. s.data \in Bodies /\ at \in Nat /\ c \in Uploader /\ t.data = Overwrite(s.data, at, c)
    BY <1>1, <1>2, <1>5
  <2> HIDE DEF s, at, c
  <2> QED
    BY <2>1, OverwriteIs
<1>9. ASSUME NEW g \in Handler PROVE uploads[g].id <= etags /\ Refers(g)
  BY DEF SessionsInv, NumbersOK
<1>10. SessionOK(i) /\ \A k \in Id : sessions[k].open => k <= etags /\ sessions[k].owner \in Uploader
  BY <1>1 DEF SessionsInv, NumbersOK
<1>11. \A g \in Handler : /\ uploads'[g].id = uploads[g].id /\ uploads'[g].at = uploads[g].at
                          /\ uploads'[g].client = uploads[g].client
                          /\ uploads'[g].pc = IF g = h THEN "put" ELSE uploads[g].pc
  BY <1>2, <1>6
<1>12. \A k \in Id : /\ Len(sessions'[k].data) = Len(sessions[k].data)
                     /\ sessions'[k].puts = sessions[k].puts
                     /\ sessions'[k].owner = sessions[k].owner
                     /\ sessions'[k].open = sessions[k].open
                     /\ sessions'[k].data = <<>> <=> sessions[k].data = <<>>
                     /\ k # i => sessions'[k].data = sessions[k].data
  BY <1>2, <1>6, <1>8
<1>13. Len(s.puts) = 1 => at = 0 /\ c = s.puts[1] /\ t.data = <<s.puts[1]>>
  BY <1>1, <1>8, <1>10 DEF SessionOK, Writing
<1> HIDE DEF i, s, c, at
<1>14. NumbersOK'
  <2>1. ASSUME NEW g \in Handler PROVE Refers(g)'
    <3>1. Refers(g)
      BY <1>9
    <3>2. uploads[g].pc \in {"chunk", "write", "put", "close"} => uploads[g].id \in Id
      BY <3>1 DEF Refers
    <3>3. CASE g = h
      BY <1>1, <1>11, <1>12, <3>1, <3>2, <3>3 DEF Refers
    <3>4. CASE g # h
      BY <1>11, <1>12, <3>1, <3>2, <3>4 DEF Refers
    <3> QED
      BY <3>3, <3>4
  <2>2. ASSUME NEW g \in Handler PROVE uploads'[g].id <= etags'
    BY <1>3, <1>9, <1>11
  <2>3. ASSUME NEW k \in Id, sessions'[k].open PROVE k <= etags' /\ sessions'[k].owner \in Uploader
    BY <1>3, <1>10, <1>12, <2>3
  <2> QED
    BY <2>1, <2>2, <2>3 DEF NumbersOK
<1>15. ASSUME NEW k \in Id PROVE SessionOK(k)'
  <2>1. CASE k # i
    <3>1. \A g \in Handler : uploads'[g].id = k => uploads'[g] = uploads[g]
      BY <1>2, <1>6, <2>1
    <3>2. sessions'[k] = sessions[k] /\ SessionOK(k)
      BY <1>6, <2>1 DEF SessionsInv
    <3> QED
      BY <3>1, <3>2 DEF SessionOK
  <2>2. CASE k = i
    <3>1. \A g \in Handler : uploads'[g].pc \in Writing => uploads[g].pc \in Writing
      BY <1>1, <1>11 DEF Writing
    <3>2. sessions'[k].puts = s.puts /\ sessions'[k].data = t.data
      BY <1>2, <1>6, <2>2
    <3>3. SessionOK(i)
      BY <1>10
    <3> QED
      BY <1>8, <1>11, <1>13, <2>2, <3>1, <3>2, <3>3 DEF SessionOK, s
  <2> QED
    BY <2>1, <2>2
<1> QED
  BY <1>7, <1>14, <1>15 DEF SessionsInv

-----------------------------------------------------------------------------
(* Objects that share the buffer of their session.                         *)

(* Nobody will write to the part of the buffer that an object shares which *)
(* is known to be its sender's.                                            *)
SharedInv ==
    \A b \in Bucket, n \in ObjName :
        /\ objects[b][n].buf <= etags
        /\ objects[b][n].buf # NoId /\ sent[b][n] \in Uploader =>
              /\ Len(sessions[objects[b][n].buf].data) >= 1
              /\ \A h \in Handler : uploads[h].pc = "write" /\ uploads[h].id = objects[b][n].buf =>
                    uploads[h].at # 0

LEMMA BufferFacts ==
    ASSUME ObjectsTypes, NEW b \in Bucket, NEW n \in ObjName
    PROVE  /\ objects[b][n] \in Object /\ objects[b][n].data \in Bodies
           /\ objects[b][n].buf \in Id \cup {NoId} /\ objects[b][n].buf \in Nat
           /\ sent[b][n] \in Whose
  BY StorageAssumption DEF ObjectsTypes, Object, Id, NoId

(* Steps that write to no buffer and hand none to an object.               *)
LEMMA SharedKept ==
    ASSUME SharedInv, SessionsInv, ObjectsTypes, etags <= etags', etags' \in Nat,
           \A i \in Id : i <= etags =>
               Len(sessions'[i].data) \in Nat /\ Len(sessions[i].data) <= Len(sessions'[i].data),
           \A h \in Handler : uploads'[h].pc = "write" /\ uploads'[h].at = 0 =>
               uploads[h].pc = "write" /\ uploads[h].at = 0 /\ uploads'[h].id = uploads[h].id,
           \A b \in Bucket, n \in ObjName :
               \/ objects'[b][n].buf = NoId
               \/ /\ objects'[b][n].buf = objects[b][n].buf
                  /\ sent'[b][n] \in Uploader => sent[b][n] \in Uploader
    PROVE  SharedInv'
<1> SUFFICES ASSUME NEW b \in Bucket, NEW n \in ObjName
             PROVE  /\ objects'[b][n].buf <= etags'
                    /\ objects'[b][n].buf # NoId /\ sent'[b][n] \in Uploader =>
                          /\ Len(sessions'[objects'[b][n].buf].data) >= 1
                          /\ \A h \in Handler :
                                uploads'[h].pc = "write" /\ uploads'[h].id = objects'[b][n].buf =>
                                    uploads'[h].at # 0
  BY DEF SharedInv
<1>1. etags \in Nat
  BY StorageAssumption DEF SessionsInv, SessionsTypes
<1>2. CASE objects'[b][n].buf = NoId
  BY <1>1, <1>2 DEF NoId
<1>3. CASE /\ objects'[b][n].buf = objects[b][n].buf
           /\ sent'[b][n] \in Uploader => sent[b][n] \in Uploader
  <2> DEFINE i == objects[b][n].buf
  <2>1. i \in Nat /\ i <= etags /\ i \in Id \cup {NoId}
    BY BufferFacts DEF SharedInv
  <2>2. i <= etags'
    BY <1>1, <2>1
  <2>3. CASE i # NoId /\ sent'[b][n] \in Uploader
    <3>1. i \in Id /\ Len(sessions[i].data) >= 1 /\ Len(sessions[i].data) \in Nat
      BY <1>3, <2>1, <2>3, SessionFacts DEF SharedInv
    <3>2. Len(sessions'[i].data) >= 1
      BY <2>1, <3>1
    <3>3. \A h \in Handler : uploads[h].pc = "write" /\ uploads[h].id = i => uploads[h].at # 0
      BY <1>3, <2>3 DEF SharedInv
    <3> QED
      BY <1>3, <2>2, <3>2, <3>3
  <2> QED
    BY <1>3, <2>2, <2>3
<1> QED
  BY <1>2, <1>3

LEMMA WriteBeginShared ==
    ASSUME ObjectsTypes, SessionsInv, SharedInv, NEW h \in Handler, WriteBegin(h)
    PROVE  SharedInv'
<1> DEFINE i == uploads[h].id
           s == sessions[i]
<1>1. i \in Id
  BY WriteBeginIs
<1>2. PICK at \in Nat, d \in Bodies, t \in Session, u \in UploadData :
          /\ sessions' = [sessions EXCEPT ![i] = t] /\ uploads' = [uploads EXCEPT ![h] = u]
          /\ t.data = d
          /\ u.pc = "write" /\ u.at = at /\ u.id = i
          /\ at < Len(d) /\ Len(s.data) <= Len(d)
          /\ \/ at = Len(s.data) /\ Len(d) = Len(s.data) + 1
             \/ /\ d = s.data
                /\ \E g \in Handler : uploads[g].pc = "write" /\ uploads[g].id = i /\ uploads[g].at = at
  BY WriteBeginIs
<1>3. UNCHANGED <<objects, sent, etags>>
  BY DEF WriteBegin
<1>4. /\ \A k \in Id : sessions'[k] = IF k = i THEN t ELSE sessions[k]
      /\ \A g \in Handler : uploads'[g] = IF g = h THEN u ELSE uploads[g]
  BY <1>2 DEF SessionsInv, SessionsTypes
<1>5. Len(s.data) \in Nat /\ Len(d) \in Nat
  BY <1>1, SessionFacts DEF Bodies
<1> SUFFICES ASSUME NEW b \in Bucket, NEW n \in ObjName,
                    objects[b][n].buf # NoId, sent[b][n] \in Uploader
             PROVE  /\ Len(sessions'[objects[b][n].buf].data) >= 1
                    /\ \A g \in Handler :
                          uploads'[g].pc = "write" /\ uploads'[g].id = objects[b][n].buf => uploads'[g].at # 0
  BY <1>3 DEF SharedInv
<1> DEFINE k == objects[b][n].buf
<1>6. k \in Id
  BY BufferFacts
<1>7. /\ Len(sessions[k].data) >= 1
      /\ \A g \in Handler : uploads[g].pc = "write" /\ uploads[g].id = k => uploads[g].at # 0
  BY DEF SharedInv
<1> HIDE DEF i, s, k
<1>8. CASE k # i
  BY <1>2, <1>4, <1>6, <1>7, <1>8 DEF k
<1>9. CASE k = i
  <2>1. Len(s.data) >= 1
    BY <1>7, <1>9 DEF s
  <2>2. at # 0
    BY <1>2, <1>5, <1>7, <1>9, <2>1
  <2>3. Len(sessions'[k].data) >= 1
    BY <1>1, <1>2, <1>4, <1>5, <1>9, <2>1
  <2>4. \A g \in Handler : uploads'[g].pc = "write" /\ uploads'[g].id = k => uploads'[g].at # 0
    BY <1>2, <1>4, <1>7, <2>2
  <2> QED
    BY <2>3, <2>4 DEF k
<1> QED
  BY <1>8, <1>9

LEMMA WriteEndShared ==
    ASSUME ObjectsInv, SessionsInv, SharedInv, NEW h \in Handler, WriteEnd(h)
    PROVE  ObjectsInv' /\ SharedInv'
<1> DEFINE i == uploads[h].id
           at == uploads[h].at
           c == uploads[h].client
           s == sessions[i]
<1>1. uploads[h].pc = "write" /\ i \in Id /\ c \in Uploader /\ at \in Nat
  BY WriteEndIs
<1>2. PICK t \in Session, u \in UploadData :
          /\ sessions' = [sessions EXCEPT ![i] = t] /\ uploads' = [uploads EXCEPT ![h] = u]
          /\ t.data = Overwrite(s.data, at, c)
          /\ u.pc = "put"
  BY WriteEndIs
<1>3. UNCHANGED <<process, buckets, blobs, sent, etags>>
      /\ objects' = [b \in Bucket |-> [n \in ObjName |->
            IF objects[b][n].buf = i
            THEN [objects[b][n] EXCEPT !.data = Overwrite(objects[b][n].data, at, c)] ELSE objects[b][n]]]
  BY DEF WriteEnd
<1>4. /\ \A k \in Id : sessions'[k] = IF k = i THEN t ELSE sessions[k]
      /\ \A g \in Handler : uploads'[g] = IF g = h THEN u ELSE uploads[g]
  BY <1>2 DEF SessionsInv, SessionsTypes
<1>5. s.data \in Bodies /\ Len(s.data) \in Nat
  BY <1>1, SessionFacts
<1>6. ObjectsTypes
  BY DEF ObjectsInv
<1> HIDE DEF i, s, c, at
<1>7. Len(t.data) = Len(s.data)
  <2>1. Len(Overwrite(s.data, at, c)) = Len(s.data)
    BY <1>1, <1>5, OverwriteIs
  <2> QED
    BY <1>2, <2>1
<1>8. ASSUME NEW b \in Bucket, NEW n \in ObjName
      PROVE  /\ objects'[b][n] \in Object /\ objects'[b][n].buf = objects[b][n].buf
             /\ objects'[b][n].data = <<>> <=> objects[b][n].data = <<>>
             /\ up /\ sent[b][n] # Mixed => objects'[b][n].data = objects[b][n].data
  <2> DEFINE o == objects[b][n]
             d == Overwrite(o.data, at, c)
  <2>1. o \in Object /\ o.data \in Bodies /\ sent[b][n] \in Whose
    BY <1>6, BufferFacts
  <2>2. CASE o.buf = i
    <3>1. objects'[b][n] = [o EXCEPT !.data = d]
      BY <1>3, <2>2
    <3>2. d \in Bodies /\ (d = <<>> <=> o.data = <<>>)
          /\ (Len(o.data) = 1 /\ at # 0 => d = o.data)
      BY <1>1, <2>1, OverwriteIs
    <3>3. objects'[b][n] \in Object /\ objects'[b][n].buf = o.buf /\ objects'[b][n].data = d
      BY <2>1, <3>1, <3>2 DEF Object
    <3>4. ASSUME up, sent[b][n] \in Uploader PROVE d = o.data
      <4>1. Len(o.data) = 1
        BY <3>4, SenderFacts DEF ObjectsInv, Intact
      <4>2. i # NoId
        BY <1>1 DEF Id, NoId
      <4>3. at # 0
        BY <1>1, <2>2, <3>4, <4>2 DEF SharedInv, i, at
      <4> QED
        BY <3>2, <4>1, <4>3
    <3>5. ASSUME up, sent[b][n] = Nobody PROVE d = o.data
      BY <3>2, <3>5 DEF ObjectsInv, SendersOK
    <3> QED
      BY <2>1, <3>2, <3>3, <3>4, <3>5 DEF Whose
  <2>3. CASE o.buf # i
    BY <1>3, <2>1, <2>3
  <2> QED
    BY <2>2, <2>3
<1>9. ObjectsInv'
  <2>1. ObjectsTypes'
    <3>1. objects' \in [Bucket -> [ObjName -> Object]]
      <4>1. objects' = [b \in Bucket |-> [n \in ObjName |-> objects'[b][n]]]
        BY <1>3
      <4> QED
        BY <1>8, <4>1
    <3> QED
      BY <1>3, <1>6, <3>1 DEF ObjectsTypes
  <2>2. up' = up
    BY <1>3 DEF process
  <2>3. Housed'
    BY <1>3, <1>8 DEF ObjectsInv, Housed
  <2>4. Intact'
    BY <1>3, <1>8, <2>2, SenderFacts DEF ObjectsInv, Intact
  <2>5. BlobsCurrent'
    BY <1>3, <1>8, <2>2 DEF ObjectsInv, BlobsCurrent
  <2>6. SendersOK'
    BY <1>3, <1>8, <2>2 DEF ObjectsInv, SendersOK
  <2> QED
    BY <1>3, <2>1, <2>3, <2>4, <2>5, <2>6 DEF ObjectsInv
<1>10. SharedInv'
  <2>1. etags \in Nat /\ etags' = etags
    BY <1>3, StorageAssumption DEF SessionsInv, SessionsTypes
  <2>2. \A k \in Id : Len(sessions'[k].data) \in Nat /\ Len(sessions[k].data) <= Len(sessions'[k].data)
    BY <1>4, <1>5, <1>7, SessionFacts DEF s
  <2>3. \A g \in Handler : uploads'[g].pc = "write" => uploads'[g] = uploads[g]
    BY <1>2, <1>4
  <2> QED
    BY <1>3, <1>6, <1>8, <2>1, <2>2, <2>3, SharedKept
<1> QED
  BY <1>9, <1>10
(* The object of a session that was written to once, by its owner, is that *)
(* client's body, and nobody writes to its buffer any more.                *)
LEMMA OnceWritten ==
    ASSUME SessionsInv, NEW h \in Handler, uploads[h].pc = "put",
           sessions[uploads[h].id].puts = <<sessions[uploads[h].id].owner>>
    PROVE  LET i == uploads[h].id  s == sessions[i] IN
           /\ s.data = <<s.owner>> /\ uploads[h].at = 0
           /\ \A g \in Handler : g # h => ~(uploads[g].pc = "write" /\ uploads[g].id = i)
<1> DEFINE i == uploads[h].id
           s == sessions[i]
<1>1. i \in Id /\ uploads[h].pc \in Writing /\ uploads[h].pc # "write"
  BY UploadFacts DEF Writing
<1>2. Len(s.puts) = 1 /\ s.puts[1] = s.owner
  OBVIOUS
<1>3. SessionOK(i)
  BY <1>1 DEF SessionsInv
<1>4. s.data = <<s.owner>> /\ uploads[h].at = 0
  BY <1>1, <1>2, <1>3 DEF SessionOK
<1>5. ASSUME NEW g \in Handler, g # h, uploads[g].pc = "write", uploads[g].id = i PROVE FALSE
  <2>1. uploads[g].pc \in Writing
    BY <1>5 DEF Writing
  <2>2. Len(s.puts) >= 2
    BY <1>1, <1>3, <1>5, <2>1 DEF SessionOK
  <2> QED
    BY <1>2, <2>2
<1> QED
  BY <1>4, <1>5

LEMMA OneBody == \A c : SubSeq(<<c>>, 1, 1) = <<c>>
<1> TAKE c
<1> DEFINE d == SubSeq(<<c>>, 1, 1)
<1>1. <<c>> \in Seq({c}) /\ Len(<<c>>) = 1 /\ <<c>>[1] = c
  OBVIOUS
<1>2. d \in Seq({c}) /\ Len(d) = 1 /\ d[1] = c
  BY <1>1
<1> HIDE DEF d
<1>3. d = [k \in 1..1 |-> d[k]] /\ <<c>> = [k \in 1..1 |-> c]
  BY <1>1, <1>2
<1>4. \A k \in 1..1 : d[k] = c
  BY <1>2
<1>5. d = <<c>>
  BY <1>3, <1>4
<1> QED
  BY <1>5 DEF d

LEMMA PutChunkInv ==
    ASSUME ObjectsInv, SessionsInv, SharedInv, NEW h \in Handler, PutChunk(h)
    PROVE  ObjectsInv' /\ SharedInv'
<1> DEFINE i == uploads[h].id
           s == sessions[i]
           who == IF s.puts = <<s.owner>> THEN s.owner ELSE Mixed
<1>1. up /\ up' /\ uploads[h].pc = "put" /\ UNCHANGED <<etags, sessions>>
  BY DEF PutChunk, Written, process
<1>2. i \in Id /\ s.owner \in Uploader /\ uploads[h].at \in Nat /\ uploads[h].at < Len(s.data)
  BY <1>1, UploadFacts DEF Writing, SessionsInv, NumbersOK, Refers
<1>3. s.data \in Bodies /\ Len(s.data) \in Nat
  BY <1>2, SessionFacts
<1>4. PICK k \in (uploads[h].at + 1)..Len(s.data), buf \in {i, NoId} :
          PutObject(s.owner, SubSeq(s.data, 1, k), buf, who)
  BY DEF PutChunk
<1> DEFINE data == SubSeq(s.data, 1, k)
<1>5. k \in 1..Len(s.data)
  BY <1>2, <1>3
<1>6. data \in Bodies /\ Len(data) = k /\ data # <<>>
  BY <1>3, <1>5 DEF Bodies
<1>7. buf \in Id \cup {NoId} /\ who \in Uploader \cup {Mixed}
  BY <1>2
<1>8. ASSUME who \in Uploader
      PROVE  /\ s.puts = <<s.owner>> /\ who = s.owner /\ s.data = <<s.owner>>
             /\ \A g \in Handler : g # h => ~(uploads[g].pc = "write" /\ uploads[g].id = i)
  <2>1. s.puts = <<s.owner>> /\ who = s.owner
    BY <1>8, SenderFacts
  <2> QED
    BY <1>1, <2>1, OnceWritten
<1>9. who \in Uploader => data = <<who>>
  <2> SUFFICES ASSUME who \in Uploader PROVE data = <<who>>
    OBVIOUS
  <2>1. s.data = <<s.owner>> /\ who = s.owner
    BY <1>8
  <2>2. k = 1
    BY <1>5, <2>1
  <2>3. SubSeq(<<s.owner>>, 1, 1) = <<s.owner>>
    BY OneBody
  <2> QED
    BY <2>1, <2>2, <2>3
<1>10. PutObject(s.owner, data, buf, who)
  BY <1>4
<1>11. ObjectsTypes /\ etags \in Nat /\ i <= etags
  BY StorageAssumption DEF ObjectsInv, SessionsInv, SessionsTypes, NumbersOK
<1>12. \A g \in Handler : uploads'[g].pc = "write" => uploads'[g] = uploads[g] /\ g # h
  <2>1. \/ uploads' = [uploads EXCEPT ![h] = [uploads[h] EXCEPT !.pc = "close"]]
        \/ uploads' = [uploads EXCEPT ![h] = IdleUpload]
    BY DEF PutChunk
  <2>2. PICK u \in UploadData : uploads' = [uploads EXCEPT ![h] = u] /\ u.pc # "write"
    BY <2>1, UploadIs, NextPlace DEF Writing
  <2> QED
    BY <2>2 DEF SessionsInv, SessionsTypes
<1> HIDE DEF data, who
<1>13. ObjectsInv'
  BY <1>1, <1>2, <1>6, <1>7, <1>9, <1>10, PutObjectInv
<1>14. SharedInv'
  <2> DEFINE B == Target[s.owner].bucket
             N == Target[s.owner].name
  <2>1. CASE B \notin buckets
    <3>1. UNCHANGED <<objects, sent>>
      BY <1>10, <2>1 DEF PutObject
    <3> QED
      BY <1>1, <1>11, <1>12, <3>1, SessionFacts, SharedKept
  <2>2. CASE B \in buckets
    <3>1. B \in Bucket /\ N \in ObjName
      BY <1>2, StorageAssumption
    <3> DEFINE o == [data |-> data, buf |-> buf]
    <3>2. objects' = SetObject(B, N, o) /\ sent' = SetSent(B, N, who)
      BY <1>10, <2>2 DEF PutObject
    <3>3. o \in Object /\ o.buf = buf /\ who \in Whose
      BY <1>6, <1>7 DEF Object, Whose
    <3> HIDE DEF o, B, N
    <3>7. objects \in [Bucket -> [ObjName -> Object]] /\ sent \in [Bucket -> [ObjName -> Whose]]
      BY <1>11 DEF ObjectsTypes
    <3>8. \A a \in Bucket, m \in ObjName :
              objects'[a][m] = IF a = B /\ m = N THEN o ELSE objects[a][m]
      BY <3>1, <3>2, <3>3, <3>7, SetObjectIs
    <3>9. \A a \in Bucket, m \in ObjName :
              sent'[a][m] = IF a = B /\ m = N THEN who ELSE sent[a][m]
      BY <3>1, <3>2, <3>3, <3>7, SetSentIs
    <3>4. \A a \in Bucket, m \in ObjName :
              /\ objects'[a][m] = IF a = B /\ m = N THEN o ELSE objects[a][m]
              /\ sent'[a][m] = IF a = B /\ m = N THEN who ELSE sent[a][m]
      BY <3>8, <3>9
    <3> SUFFICES ASSUME NEW a \in Bucket, NEW m \in ObjName
                 PROVE  /\ objects'[a][m].buf <= etags'
                        /\ objects'[a][m].buf # NoId /\ sent'[a][m] \in Uploader =>
                              /\ Len(sessions'[objects'[a][m].buf].data) >= 1
                              /\ \A g \in Handler :
                                    uploads'[g].pc = "write" /\ uploads'[g].id = objects'[a][m].buf =>
                                        uploads'[g].at # 0
      BY DEF SharedInv
    <3>5. CASE a = B /\ m = N
      <4>1. objects'[a][m].buf = buf /\ sent'[a][m] = who
        BY <3>3, <3>4, <3>5
      <4>2. buf <= etags' /\ (buf # NoId => buf = i)
        BY <1>1, <1>11 DEF NoId
      <4>3. Len(s.data) >= 1
        BY <1>2, <1>3
      <4>4. ASSUME who \in Uploader, buf = i
            PROVE  \A g \in Handler : uploads'[g].pc = "write" /\ uploads'[g].id = buf => uploads'[g].at # 0
        BY <1>8, <1>12, <4>4
      <4> QED
        BY <1>1, <4>1, <4>2, <4>3, <4>4
    <3>6. CASE ~(a = B /\ m = N)
      BY <1>1, <1>12, <3>4, <3>6 DEF SharedInv
    <3> QED
      BY <3>5, <3>6
  <2> QED
    BY <2>1, <2>2
<1> QED
  BY <1>13, <1>14

-----------------------------------------------------------------------------
(* The other steps, which leave the buffers alone.                         *)

StInv == ObjectsInv /\ SessionsInv /\ SharedInv

LEMMA StFacts ==
    ASSUME StInv
    PROVE  /\ ObjectsInv /\ SessionsInv /\ SharedInv /\ ObjectsTypes
           /\ etags \in Nat /\ etags <= etags
           /\ \A i \in Id : /\ Len(sessions[i].data) \in Nat
                            /\ Len(sessions[i].data) <= Len(sessions[i].data)
<1>1. ObjectsInv /\ SessionsInv /\ SharedInv /\ ObjectsTypes /\ etags \in Nat
  BY StorageAssumption DEF StInv, ObjectsInv, SessionsInv, SessionsTypes
<1> QED
  BY <1>1, SessionFacts

LEMMA ObjectsSame ==
    ASSUME ObjectsInv, UNCHANGED <<process, buckets, objects, blobs, sent>>
    PROVE  ObjectsInv'
  BY DEF process, ObjectsInv, ObjectsTypes, Housed, Intact, BlobsCurrent, SendersOK

LEMMA SessionsSame ==
    ASSUME SessionsInv, UNCHANGED <<etags, sessions, uploads, uploadId>>
    PROVE  SessionsInv'
<1>1. SessionsTypes'
  BY DEF SessionsInv, SessionsTypes
<1>2. NumbersOK'
  BY DEF SessionsInv, NumbersOK, Refers
<1>3. \A i \in Id : SessionOK(i)'
  BY DEF SessionsInv, SessionOK
<1> QED
  BY <1>1, <1>2, <1>3 DEF SessionsInv

(* An object with bytes of its own is stored, or removed.                  *)
LEMMA OwnBytes ==
    ASSUME StInv, NEW b \in Bucket, NEW n \in ObjName, NEW o \in Object, NEW w \in Whose,
           o.buf = NoId, objects' = SetObject(b, n, o), sent' = SetSent(b, n, w)
    PROVE  \A a \in Bucket, m \in ObjName :
               objects'[a][m].buf = NoId \/ (objects'[a][m].buf = objects[a][m].buf /\ sent'[a][m] = sent[a][m])
<1>1. objects \in [Bucket -> [ObjName -> Object]] /\ sent \in [Bucket -> [ObjName -> Whose]]
  BY StFacts DEF ObjectsTypes
<1>2. \A a \in Bucket, m \in ObjName :
          objects'[a][m] = IF a = b /\ m = n THEN o ELSE objects[a][m]
  BY <1>1, SetObjectIs
<1>3. \A a \in Bucket, m \in ObjName :
          sent'[a][m] = IF a = b /\ m = n THEN w ELSE sent[a][m]
  BY <1>1, SetSentIs
<1> QED
  BY <1>2, <1>3

(* Methods of the store.                                                   *)
LEMMA CreateBucketInv ==
    ASSUME StInv, NEW b \in Bucket, CreateBucket(b)
    PROVE  StInv'
<1>1. ObjectsInv'
  BY BucketsInv, StFacts
<1>2. /\ etags' = etags + 1 /\ etags < MaxId /\ UNCHANGED <<sessions, uploads, uploadId, sent>>
      /\ objects' = [objects EXCEPT ![b] = NoObjects[b]]
  BY DEF CreateBucket, NoObjects
<1>3. etags' \in 0..MaxId /\ etags <= etags' /\ etags' \in Nat
  BY <1>2, StFacts, StorageAssumption
<1>4. SessionsInv'
  <2>1. SessionsTypes'
    BY <1>2, <1>3, StFacts DEF SessionsInv, SessionsTypes
  <2>2. \A h \in Handler : uploads'[h].id <= etags' /\ Refers(h)'
    <3> SUFFICES ASSUME NEW h \in Handler PROVE uploads'[h].id <= etags' /\ Refers(h)'
      OBVIOUS
    <3>1. uploads[h].id <= etags /\ Refers(h)
      BY StFacts DEF SessionsInv, NumbersOK
    <3>2. uploads[h].id \in Nat
      BY StFacts, UploadFacts, StorageAssumption DEF Id, NoId
    <3>3. uploads'[h].id <= etags'
      BY <1>2, <3>1, <3>2, StFacts
    <3> QED
      BY <1>2, <3>1, <3>3 DEF Refers
  <2> QED
    BY <1>2, <1>3, <2>1, <2>2, StFacts, SessionsKept
<1>5. SharedInv'
  <2>1. ASSUME NEW a \in Bucket, NEW n \in ObjName
        PROVE  objects'[a][n].buf = NoId \/ objects'[a][n].buf = objects[a][n].buf
    BY <1>2, StFacts, NothingTypes DEF ObjectsTypes
  <2> QED
    BY <1>2, <1>3, <2>1, StFacts, SharedKept
<1> QED
  BY <1>1, <1>4, <1>5 DEF StInv

LEMMA DeleteBucketInv ==
    ASSUME StInv, NEW b \in Bucket, DeleteBucket(b)
    PROVE  StInv'
<1>1. ObjectsInv'
  BY BucketsInv, StFacts
<1>2. UNCHANGED <<objects, etags, sessions, uploads, uploadId, sent>>
  BY DEF DeleteBucket
<1>3. SessionsInv'
  BY <1>2, StFacts, SessionsSame
<1>4. SharedInv'
  BY <1>2, StFacts DEF SharedInv
<1> QED
  BY <1>1, <1>3, <1>4 DEF StInv

LEMMA StoreInv ==
    ASSUME StInv, NEW b \in Bucket, NEW n \in ObjName, NEW b2 \in Bucket, NEW n2 \in ObjName,
           DeleteObject(b, n) \/ CopyObject(b, n, b2, n2)
    PROVE  StInv'
<1>1. ObjectsInv'
  BY DeleteObjectInv, CopyObjectInv, StFacts
<1>2. UNCHANGED <<etags, sessions, uploads, uploadId>>
  BY DEF DeleteObject, CopyObject
<1>3. SessionsInv'
  BY <1>2, StFacts, SessionsSame
<1>4. \A a \in Bucket, m \in ObjName :
          objects'[a][m].buf = NoId \/ (objects'[a][m].buf = objects[a][m].buf /\ sent'[a][m] = sent[a][m])
  <2>1. objects[b][n] \in Object /\ sent[b][n] \in Whose /\ Nobody \in Whose
    BY StFacts DEF ObjectsTypes, Whose
  <2>3. CASE DeleteObject(b, n)
    BY <2>1, <2>3, NothingTypes, OwnBytes DEF DeleteObject
  <2>4. CASE CopyObject(b, n, b2, n2)
    <3> DEFINE o == [data |-> objects[b][n].data, buf |-> NoId]
    <3>1. objects' = SetObject(b2, n2, o) /\ sent' = SetSent(b2, n2, sent[b][n])
      BY <2>4 DEF CopyObject
    <3>2. o \in Object /\ o.buf = NoId
      BY <2>1 DEF Object
    <3> HIDE DEF o
    <3> QED
      BY <2>1, <3>1, <3>2, OwnBytes
  <2> QED
    BY <2>3, <2>4
<1>5. SharedInv'
  BY <1>2, <1>4, StFacts, SharedKept
<1> QED
  BY <1>1, <1>3, <1>5 DEF StInv

(* Requests that start an upload, and the ends of uploads.                 *)
LEMMA StartSessionInv ==
    ASSUME StInv, NEW c \in Uploader, StartSession(c)
    PROVE  StInv'
<1> DEFINE s == [open |-> TRUE, owner |-> c, data |-> <<>>, puts |-> <<>>]
<1>1. /\ UNCHANGED <<process, buckets, objects, blobs, uploads, sent>>
      /\ etags < MaxId /\ etags' = etags + 1
      /\ sessions' = [sessions EXCEPT ![etags + 1] = s]
  BY DEF StartSession
<1>2. ObjectsInv'
  BY <1>1, StFacts, ObjectsSame
<1>3. SessionsInv'
  BY StFacts, StartSessions
<1>4. \A i \in Id : i <= etags => sessions'[i] = sessions[i]
  <2> HIDE DEF s
  <2>1. sessions \in [Id -> Session]
    BY StFacts DEF SessionsInv, SessionsTypes
  <2> QED
    BY <1>1, <2>1, StFacts DEF Id
<1>5. SharedInv'
  BY <1>1, <1>4, StFacts, SharedKept
<1> QED
  BY <1>2, <1>3, <1>5 DEF StInv

LEMMA RequestInv ==
    ASSUME StInv, NEW h \in Handler, NEW c \in Uploader, BeginUpload(h, c) \/ BeginChunk(h, c)
    PROVE  StInv'
<1>1. UNCHANGED <<process, buckets, objects, blobs, etags, sessions, uploadId, sent>>
  BY DEF BeginUpload, BeginChunk
<1>2. ObjectsInv'
  BY <1>1, StFacts, ObjectsSame
<1>3. SessionsInv'
  BY StFacts, RequestSessions
<1>4. PICK u \in UploadData : uploads' = [uploads EXCEPT ![h] = u] /\ u.pc # "write"
  <2>1. CASE BeginUpload(h, c)
    <3> DEFINE u == Upload("media", c, NoId)
    <3>1. NoId \in Id \cup {NoId}
      OBVIOUS
    <3>2. u \in UploadData /\ u.pc = "media"
      BY <3>1, UploadIs
    <3>3. uploads' = [uploads EXCEPT ![h] = u]
      BY <2>1 DEF BeginUpload
    <3> HIDE DEF u
    <3> QED
      BY <3>2, <3>3
  <2>2. CASE BeginChunk(h, c)
    <3>1. uploadId[c] \in Id \cup {NoId}
      BY StFacts DEF SessionsInv, SessionsTypes
    <3> DEFINE u == Upload("chunk", c, uploadId[c])
    <3>2. u \in UploadData /\ u.pc = "chunk"
      BY <3>1, UploadIs
    <3>3. uploads' = [uploads EXCEPT ![h] = u]
      BY <2>2 DEF BeginChunk
    <3> HIDE DEF u
    <3> QED
      BY <3>2, <3>3
  <2> QED
    BY <2>1, <2>2
<1>5. \A g \in Handler : uploads'[g].pc = "write" => uploads'[g] = uploads[g]
  BY <1>4, StFacts DEF SessionsInv, SessionsTypes
<1>6. SharedInv'
  BY <1>1, <1>5, StFacts, SharedKept
<1> QED
  BY <1>2, <1>3, <1>6 DEF StInv

LEMMA LostInv ==
    ASSUME StInv, NEW h \in Handler, BodyLost(h)
    PROVE  StInv'
<1>1. UNCHANGED <<process, buckets, objects, blobs, etags, sessions, uploadId, sent>>
      /\ uploads' = [uploads EXCEPT ![h] = IdleUpload]
  BY DEF BodyLost
<1>2. ObjectsInv'
  BY <1>1, StFacts, ObjectsSame
<1>3. SessionsInv'
  BY StFacts, EndSessions
<1>4. \A g \in Handler : uploads'[g].pc = "write" => uploads'[g] = uploads[g]
  BY <1>1, StFacts, UploadIs DEF SessionsInv, SessionsTypes
<1>5. SharedInv'
  BY <1>1, <1>4, StFacts, SharedKept
<1> QED
  BY <1>2, <1>3, <1>5 DEF StInv

LEMMA CloseSessionInv ==
    ASSUME StInv, NEW h \in Handler, CloseSession(h)
    PROVE  StInv'
<1> DEFINE i == uploads[h].id
           s == [sessions[i] EXCEPT !.open = FALSE]
<1>1. UNCHANGED <<process, buckets, objects, blobs, etags, uploadId, sent>>
      /\ uploads' = [uploads EXCEPT ![h] = IdleUpload]
      /\ sessions' = [sessions EXCEPT ![i] = s] /\ uploads[h].pc = "close"
  BY DEF CloseSession
<1>2. ObjectsInv'
  BY <1>1, StFacts, ObjectsSame
<1>3. SessionsInv'
  BY StFacts, CloseSessions
<1>4. \A g \in Handler : uploads'[g].pc = "write" => uploads'[g] = uploads[g]
  BY <1>1, StFacts, UploadIs DEF SessionsInv, SessionsTypes
<1>5. \A k \in Id : sessions'[k].data = sessions[k].data
  <2>1. i \in Id /\ sessions[i] \in Session /\ sessions \in [Id -> Session]
    BY <1>1, StFacts, UploadFacts DEF SessionsInv, SessionsTypes, Writing
  <2>2. s.data = sessions[i].data
    BY <2>1 DEF Session
  <2> HIDE DEF s, i
  <2> QED
    BY <1>1, <2>1, <2>2
<1>6. SharedInv'
  BY <1>1, <1>4, <1>5, StFacts, SharedKept
<1> QED
  BY <1>2, <1>3, <1>6 DEF StInv

LEMMA PutMediaInv ==
    ASSUME StInv, NEW h \in Handler, PutMedia(h)
    PROVE  StInv'
<1> DEFINE c == uploads[h].client
           o == [data |-> <<c>>, buf |-> NoId]
           b == Target[c].bucket
           n == Target[c].name
<1>1. up /\ up' /\ uploads[h].pc = "media" /\ PutObject(c, <<c>>, NoId, c)
      /\ UNCHANGED <<etags, sessions, uploadId>>
      /\ uploads' = [uploads EXCEPT ![h] = IdleUpload]
  BY DEF PutMedia, process
<1>2. Refers(h) /\ c \in Uploader
  BY <1>1, StFacts DEF SessionsInv, NumbersOK, Refers
<1>3. <<c>> \in Bodies /\ <<c>> # <<>> /\ NoId \in Id \cup {NoId}
  BY <1>2 DEF Bodies
<1>4. ObjectsInv'
  <2> HIDE DEF c
  <2> QED
    BY <1>1, <1>2, <1>3, StFacts, PutObjectInv
<1>5. SessionsInv'
  BY StFacts, EndSessions
<1>6. \A g \in Handler : uploads'[g].pc = "write" => uploads'[g] = uploads[g]
  BY <1>1, StFacts, UploadIs DEF SessionsInv, SessionsTypes
<1>7. \A a \in Bucket, m \in ObjName :
          objects'[a][m].buf = NoId \/ (objects'[a][m].buf = objects[a][m].buf /\ sent'[a][m] = sent[a][m])
  <2>1. CASE b \notin buckets
    BY <1>1, <2>1 DEF PutObject
  <2>2. CASE b \in buckets
    <3>1. objects' = SetObject(b, n, o) /\ sent' = SetSent(b, n, c)
      BY <1>1, <2>2 DEF PutObject
    <3>2. b \in Bucket /\ n \in ObjName /\ o \in Object /\ o.buf = NoId /\ c \in Whose
      BY <1>2, <1>3, StorageAssumption DEF Object, Whose
    <3> HIDE DEF b, n, o, c
    <3> QED
      BY <3>1, <3>2, OwnBytes
  <2> QED
    BY <2>1, <2>2
<1>8. SharedInv'
  BY <1>1, <1>6, <1>7, StFacts, SharedKept
<1> QED
  BY <1>4, <1>5, <1>8 DEF StInv

(* The process ends, and starts again.                                     *)
NothingGoesOn ==
    /\ etags = 0 /\ sessions = NoSessions /\ uploads = NoUploads
    /\ uploadId \in [Uploader -> Id \cup {NoId}]

LEMMA NothingInv == NothingGoesOn => SessionsInv
<1> SUFFICES ASSUME NothingGoesOn PROVE SessionsInv
  OBVIOUS
<1> USE DEF NothingGoesOn
<1>1. NoSession \in Session /\ NoSession.data = <<>> /\ NoSession.puts = <<>> /\ ~NoSession.open
  BY DEF NoSession, Session, Bodies
<1>2. IdleUpload \in UploadData /\ IdleUpload.pc = "idle" /\ IdleUpload.id = 0
  BY UploadIs
<1>3. sessions \in [Id -> Session] /\ \A i \in Id : sessions[i] = NoSession
  BY <1>1 DEF NoSessions
<1>4. uploads \in [Handler -> UploadData] /\ \A h \in Handler : uploads[h] = IdleUpload
  BY <1>2 DEF NoUploads
<1>5. SessionsTypes
  BY <1>3, <1>4, StorageAssumption DEF SessionsTypes
<1>6. NumbersOK
  BY <1>1, <1>2, <1>3, <1>4 DEF NumbersOK, Refers
<1>7. ASSUME NEW i \in Id PROVE SessionOK(i)
  <2>1. Len(sessions[i].puts) = 0 /\ sessions[i].data = <<>>
    BY <1>1, <1>3
  <2>2. \A h \in Handler : uploads[h].pc \notin Writing
    BY <1>2, <1>4 DEF Writing
  <2> QED
    BY <2>1, <2>2 DEF SessionOK
<1> QED
  BY <1>5, <1>6, <1>7 DEF SessionsInv

LEMMA ExitInv ==
    ASSUME StInv, Stops, StorageExit \/ StorageExitInWrite
    PROVE  StInv'
<1>1. /\ objects' = NoObjects /\ etags' = 0 /\ sessions' = NoSessions /\ uploads' = NoUploads
      /\ UNCHANGED uploadId
  BY DEF StorageExit, StorageExitInWrite, StorageLost
<1>2. ObjectsInv'
  BY StFacts, ObjectsExit
<1>3. NothingGoesOn'
  BY <1>1, StFacts DEF NothingGoesOn, SessionsInv, SessionsTypes
<1>4. SessionsInv'
  BY <1>3, NothingInv, PTL
<1>5. SharedInv'
  BY <1>1, NothingTypes DEF SharedInv, NoId
<1> QED
  BY <1>2, <1>4, <1>5 DEF StInv

LEMMA LoadInv ==
    ASSUME StInv, Starts, StorageLoad
    PROVE  StInv'
<1>1. UNCHANGED <<etags, sessions, uploads, uploadId>>
      /\ \A b \in Bucket, n \in ObjName : objects'[b][n].buf = NoId
  BY DEF StorageLoad
<1>2. ObjectsInv'
  BY StFacts, ObjectsLoad
<1>3. SessionsInv'
  BY <1>1, StFacts, SessionsSame
<1>4. SharedInv'
  BY <1>1, StFacts DEF SharedInv, NoId
<1> QED
  BY <1>2, <1>3, <1>4 DEF StInv

-----------------------------------------------------------------------------
(* The invariant of the specification.                                     *)

LEMMA InitStInv == ProcessInit /\ StorageInit => StInv
<1> SUFFICES ASSUME ProcessInit, StorageInit PROVE StInv
  OBVIOUS
<1>1. /\ buckets = {} /\ objects = NoObjects /\ blobs = EmptyBlobs
      /\ etags = 0 /\ sessions = NoSessions /\ uploads = NoUploads
      /\ uploadId = [c \in Uploader |-> NoId]
      /\ sent = [b \in Bucket |-> [n \in ObjName |-> Nobody]]
  BY DEF StorageInit
<1>2. ObjectsTypes
  BY <1>1, NothingTypes DEF ObjectsTypes, Whose
<1>3. \A b \in Bucket, n \in ObjName :
          objects[b][n].data = <<>> /\ blobs.data[b][n] = <<>> /\ sent[b][n] = Nobody
  BY <1>1, NothingTypes
<1>4. blobs.buckets = buckets
  BY <1>1, NothingTypes
<1>5. ObjectsInv
  BY <1>1, <1>2, <1>3, <1>4, SenderFacts
  DEF ObjectsInv, Housed, Intact, BlobsCurrent, SendersOK
<1>6. SessionsInv
  BY <1>1, NothingInv DEF NothingGoesOn
<1>7. SharedInv
  BY <1>1, NothingTypes DEF SharedInv, NoId
<1> QED
  BY <1>5, <1>6, <1>7 DEF StInv

LEMMA ApiInv ==
    ASSUME StInv, StorageApi
    PROVE  StInv'
<1>1. ASSUME NEW b \in Bucket, CreateBucket(b) \/ DeleteBucket(b) PROVE StInv'
  BY <1>1, CreateBucketInv, DeleteBucketInv
<1>2. ASSUME NEW b \in Bucket, NEW n \in ObjName, DeleteObject(b, n) PROVE StInv'
  BY <1>2, StoreInv
<1>3. ASSUME NEW b \in Bucket, NEW b2 \in Bucket, NEW n \in ObjName, NEW n2 \in ObjName,
             CopyObject(b, n, b2, n2)
      PROVE  StInv'
  BY <1>3, StoreInv
<1> QED
  BY <1>1, <1>2, <1>3 DEF StorageApi

LEMMA UploadInv ==
    ASSUME StInv, UploadRequest \/ UploadStep
    PROVE  StInv'
<1>1. ASSUME NEW c \in Uploader, StartSession(c) PROVE StInv'
  BY <1>1, StartSessionInv
<1>2. ASSUME NEW h \in Handler, NEW c \in Uploader, BeginUpload(h, c) \/ BeginChunk(h, c) PROVE StInv'
  BY <1>2, RequestInv
<1>3. ASSUME NEW h \in Handler, BodyLost(h) PROVE StInv'
  BY <1>3, LostInv
<1>4. ASSUME NEW h \in Handler, PutMedia(h) PROVE StInv'
  BY <1>4, PutMediaInv
<1>5. ASSUME NEW h \in Handler, WriteBegin(h) PROVE StInv'
  <2>1. UNCHANGED <<process, buckets, objects, blobs, sent>>
    BY <1>5 DEF WriteBegin
  <2> QED
    BY <1>5, <2>1, StFacts, ObjectsSame, WriteBeginSessions, WriteBeginShared DEF StInv
<1>6. ASSUME NEW h \in Handler, WriteEnd(h) PROVE StInv'
  BY <1>6, StFacts, WriteEndSessions, WriteEndShared DEF StInv
<1>7. ASSUME NEW h \in Handler, PutChunk(h) PROVE StInv'
  BY <1>7, StFacts, PutChunkSessions, PutChunkInv DEF StInv
<1>8. ASSUME NEW h \in Handler, CloseSession(h) PROVE StInv'
  BY <1>8, CloseSessionInv
<1> QED
  BY <1>1, <1>2, <1>3, <1>4, <1>5, <1>6, <1>7, <1>8 DEF UploadRequest, UploadStep

LEMMA NextStInv == StInv /\ [StorageNext]_<<process, storage>> => StInv'
<1> SUFFICES ASSUME StInv, [StorageNext]_<<process, storage>> PROVE StInv'
  OBVIOUS
<1>1. CASE StorageStep
  BY <1>1, ApiInv, UploadInv DEF StorageStep
<1>2. CASE Stops /\ (StorageExit \/ StorageExitInWrite)
  BY <1>2, ExitInv
<1>3. CASE Starts /\ StorageLoad
  BY <1>3, LoadInv
<1>4. CASE UNCHANGED <<process, storage>>
  <2>1. UNCHANGED <<process, buckets, objects, blobs, sent>>
        /\ UNCHANGED <<etags, sessions, uploads, uploadId>>
    BY <1>4 DEF storage
  <2>2. SharedInv'
    BY <2>1, StFacts DEF SharedInv
  <2> QED
    BY <2>1, <2>2, StFacts, ObjectsSame, SessionsSame DEF StInv
<1> QED
  BY <1>1, <1>2, <1>3, <1>4 DEF StorageNext

LEMMA StorageInvariant == StorageSpec => []StInv
  BY InitStInv, NextStInv, PTL DEF StorageSpec

(* No object is in a bucket that is not there: each method that stores an  *)
(* object looks for the bucket under the lock it stores the object under,  *)
(* and a bucket is deleted only when it is empty.                          *)
THEOREM ObjectsHaveBuckets == StorageSpec => []Housed
<1>1. StInv => Housed
  BY DEF StInv, ObjectsInv
<1> QED
  BY <1>1, StorageInvariant, PTL

(* An object uploaded once is the body that was uploaded, whatever other   *)
(* requests append to other sessions or to closed ones.                    *)
THEOREM UploadsAreIntact == StorageSpec => []Intact
<1>1. StInv => Intact
  BY DEF StInv, ObjectsInv
<1> QED
  BY <1>1, StorageInvariant, PTL

(* When the process runs, the file has the buckets and objects of memory.  *)
THEOREM FileIsCurrent == StorageSpec => []BlobsCurrent
<1>1. StInv => BlobsCurrent
  BY DEF StInv, ObjectsInv
<1> QED
  BY <1>1, StorageInvariant, PTL
=============================================================================
