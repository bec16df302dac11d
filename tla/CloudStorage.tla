---------------------------- MODULE CloudStorage ----------------------------
(***************************************************************************)
(* The Cloud Storage emulator: buckets and objects under the store's mutex *)
(* (internal/gcs/store.go), the upload handlers with their resumable       *)
(* sessions (internal/gcs/service.go), the state file, exit and restart.   *)
(*                                                                         *)
(* A store method is one action.  An upload is several: the handler looks  *)
(* at the bucket, reads the body, and only then stores it.  Two handlers   *)
(* of one session append to the same bytes.Buffer without a lock, which is *)
(* a data race: an append is two steps here, and the second of two that    *)
(* overlap may start where the first did.                                  *)
(*                                                                         *)
(* A client uploads one body, which it is identified with.  The contents   *)
(* of an object are the bodies they consist of.                            *)
(***************************************************************************)
EXTENDS Integers, Sequences, ServerProcess

CONSTANTS
    Bucket, ObjName,
    Uploader,   \* clients that upload, each one body to one object
    Target,     \* where: [bucket |-> , name |-> ] of each of them
    Handler,    \* the goroutines that serve uploads
    Torn,       \* bytes of a buffer that has grown and is not yet written
    Nobody,     \* there is no object
    Mixed,      \* the session was written otherwise than once by its owner
    MaxId       \* bound: values of the process's etag counter

ASSUME StorageAssumption ==
    /\ MaxId \in Nat
    /\ Target \in [Uploader -> [bucket : Bucket, name : ObjName]]
    /\ Torn \notin Uploader /\ Nobody \notin Uploader /\ Mixed \notin Uploader
    /\ Nobody # Mixed

VARIABLES
    buckets,    \* Store.buckets
    objects,    \* Store.objects: contents, and the session whose buffer they share
    blobs,      \* gcs/state.json
    etags,      \* etagCounter, which numbers buckets and sessions alike
    sessions,   \* Service.resumables, and closed ones a handler still refers to
    uploads,    \* the upload handlers
    uploadId,   \* the session each client was given last
    sent        \* history: whose body an object is, when that is beyond doubt

storage == <<buckets, objects, blobs, etags, sessions, uploads, uploadId, sent>>

Id == 1..MaxId
NoId == 0
NoObject == [data |-> <<>>, buf |-> NoId]
NoObjects == [b \in Bucket |-> [n \in ObjName |-> NoObject]]
EmptyBlobs == [buckets |-> {}, data |-> [b \in Bucket |-> [n \in ObjName |-> <<>>]]]
NoSession == [open |-> FALSE, owner |-> Nobody, data |-> <<>>, puts |-> <<>>]
NoSessions == [i \in Id |-> NoSession]
IdleUpload == [pc |-> "idle", client |-> Nobody, id |-> NoId, at |-> 0]
NoUploads == [h \in Handler |-> IdleUpload]

Contents(all) == [b \in Bucket |-> [n \in ObjName |-> all[b][n].data]]

SetObject(b, n, o) == [objects EXCEPT ![b] = [k \in ObjName |-> IF k = n THEN o ELSE @[k]]]
SetSent(b, n, c) == [sent EXCEPT ![b] = [k \in ObjName |-> IF k = n THEN c ELSE @[k]]]

PersistBlobs ==
    blobs' = IF DataDir THEN [buckets |-> buckets', data |-> Contents(objects')] ELSE blobs

-----------------------------------------------------------------------------
(* Buckets and objects.                                                    *)

CreateBucket(b) ==
    /\ up /\ b \notin buckets
    /\ etags < MaxId
    /\ etags' = etags + 1
    /\ buckets' = buckets \cup {b}
    /\ objects' = [objects EXCEPT ![b] = [n \in ObjName |-> NoObject]]
    /\ PersistBlobs
    /\ UNCHANGED <<process, sessions, uploads, uploadId, sent>>

(* Mistaken variant: a bucket need not be empty, and its objects stay.     *)
DeleteBucketFull(b) ==
    /\ up /\ b \in buckets
    /\ buckets' = buckets \ {b}
    /\ UNCHANGED objects
    /\ PersistBlobs
    /\ UNCHANGED <<process, etags, sessions, uploads, uploadId, sent>>

DeleteBucket(b) ==
    /\ up /\ b \in buckets
    /\ objects[b] = NoObjects[b]
    /\ buckets' = buckets \ {b}
    /\ UNCHANGED objects
    /\ PersistBlobs
    /\ UNCHANGED <<process, etags, sessions, uploads, uploadId, sent>>

(* Mistaken variant: the deletion is not written.                          *)
DeleteObjectUnwritten(b, n) ==
    /\ up /\ objects[b][n] # NoObject
    /\ objects' = SetObject(b, n, NoObject)
    /\ sent' = SetSent(b, n, Nobody)
    /\ UNCHANGED <<process, buckets, blobs, etags, sessions, uploads, uploadId>>

DeleteObject(b, n) ==
    /\ up /\ objects[b][n] # NoObject
    /\ objects' = SetObject(b, n, NoObject)
    /\ sent' = SetSent(b, n, Nobody)
    /\ UNCHANGED buckets
    /\ PersistBlobs
    /\ UNCHANGED <<process, etags, sessions, uploads, uploadId>>

(* The copy has bytes of its own.                                          *)
CopyObject(b, n, b2, n2) ==
    /\ up /\ b2 \in buckets
    /\ objects[b][n] # NoObject
    /\ objects' = SetObject(b2, n2, [data |-> objects[b][n].data, buf |-> NoId])
    /\ sent' = SetSent(b2, n2, sent[b][n])
    /\ UNCHANGED buckets
    /\ PersistBlobs
    /\ UNCHANGED <<process, etags, sessions, uploads, uploadId>>

-----------------------------------------------------------------------------
(* Uploads in one request (media and multipart).                           *)

Upload(pc, c, i) == [pc |-> pc, client |-> c, id |-> i, at |-> 0]

(* The URL names the bucket, and handleUpload looks whether it is there.   *)
BeginUpload(h, c) ==
    /\ up /\ uploads[h].pc = "idle"
    /\ Target[c].bucket \in buckets
    /\ uploads' = [uploads EXCEPT ![h] = Upload("media", c, NoId)]
    /\ UNCHANGED <<process, buckets, objects, blobs, etags, sessions, uploadId, sent>>

(* The connection breaks while the body is read.                           *)
BodyLost(h) ==
    /\ up /\ uploads[h].pc \in {"media", "chunk"}
    /\ uploads' = [uploads EXCEPT ![h] = IdleUpload]
    /\ UNCHANGED <<process, buckets, objects, blobs, etags, sessions, uploadId, sent>>

(* PutObject, if the bucket is still there; otherwise the client gets an   *)
(* error and nothing changes.                                              *)
PutObject(c, data, buf, who) ==
    IF Target[c].bucket \in buckets
    THEN /\ objects' = SetObject(Target[c].bucket, Target[c].name, [data |-> data, buf |-> buf])
         /\ sent' = SetSent(Target[c].bucket, Target[c].name, who)
         /\ UNCHANGED buckets
         /\ PersistBlobs
    ELSE UNCHANGED <<buckets, objects, blobs, sent>>

PutMedia(h) ==
    /\ up /\ uploads[h].pc = "media"
    /\ PutObject(uploads[h].client, <<uploads[h].client>>, NoId, uploads[h].client)
    /\ uploads' = [uploads EXCEPT ![h] = IdleUpload]
    /\ UNCHANGED <<process, etags, sessions, uploadId>>

-----------------------------------------------------------------------------
(* Resumable uploads.                                                      *)

(* The session is numbered by the counter that also makes etags.           *)
StartSession(c) ==
    /\ up
    /\ Target[c].bucket \in buckets
    /\ etags < MaxId
    /\ etags' = etags + 1
    /\ sessions' = [sessions EXCEPT ![etags + 1] =
                        [open |-> TRUE, owner |-> c, data |-> <<>>, puts |-> <<>>]]
    /\ uploadId' = [uploadId EXCEPT ![c] = etags + 1]
    /\ UNCHANGED <<process, buckets, objects, blobs, uploads, sent>>

(* A PUT to a session: the first one, one that repeats another that was    *)
(* not answered, or one with an id from before the restart, which may by   *)
(* now be the id of somebody else's session.                               *)
BeginChunk(h, c) ==
    /\ up /\ uploads[h].pc = "idle"
    /\ Target[c].bucket \in buckets
    /\ uploadId[c] # NoId /\ sessions[uploadId[c]].open
    /\ uploads' = [uploads EXCEPT ![h] = Upload("chunk", c, uploadId[c])]
    /\ UNCHANGED <<process, buckets, objects, blobs, etags, sessions, uploadId, sent>>

(* ru.Data.Write has made room for the body ...                            *)
Offsets(i) == {Len(sessions[i].data)} \cup
              {uploads[g].at : g \in {k \in Handler : uploads[k].pc = "write" /\ uploads[k].id = i}}

WriteBegin(h) ==
    LET i == uploads[h].id  s == sessions[i] IN
    /\ up /\ uploads[h].pc = "chunk"
    /\ \E at \in Offsets(i) :
        /\ sessions' = [sessions EXCEPT ![i] =
              [s EXCEPT !.data = IF at = Len(s.data) THEN Append(s.data, Torn) ELSE s.data,
                        !.puts = Append(s.puts, uploads[h].client)]]
        /\ uploads' = [uploads EXCEPT ![h] = [@ EXCEPT !.pc = "write", !.at = at]]
    /\ UNCHANGED <<process, buckets, objects, blobs, etags, uploadId, sent>>

(* ... and has copied it, into every object that shares the buffer as well.*)
Overwrite(data, at, c) == IF Len(data) > at THEN [data EXCEPT ![at + 1] = c] ELSE data

WriteEnd(h) ==
    LET i == uploads[h].id  at == uploads[h].at  c == uploads[h].client  s == sessions[i] IN
    /\ up /\ uploads[h].pc = "write"
    /\ sessions' = [sessions EXCEPT ![i] = [s EXCEPT !.data = Overwrite(s.data, at, c)]]
    /\ objects' = [b \in Bucket |-> [n \in ObjName |->
          IF objects[b][n].buf = i
          THEN [objects[b][n] EXCEPT !.data = Overwrite(@, at, c)] ELSE objects[b][n]]]
    /\ uploads' = [uploads EXCEPT ![h] = [@ EXCEPT !.pc = "put"]]
    /\ UNCHANGED <<process, buckets, blobs, etags, uploadId, sent>>

(* Mistaken variant: the object is stored before the body is copied.       *)
WrittenEarly(h) == uploads[h].pc \in {"write", "put"}

Written(h) == uploads[h].pc = "put"

(* All there is in the buffer becomes the object the session was opened    *)
(* for, in the buffer's array unless that has been outgrown meanwhile.  If *)
(* the bucket is gone the session stays, with what has been written.       *)
PutChunk(h) ==
    LET i == uploads[h].id  s == sessions[i] IN
    /\ up /\ Written(h)
    /\ \E k \in (uploads[h].at + 1)..Len(s.data), buf \in {i, NoId} :
          PutObject(s.owner, SubSeq(s.data, 1, k), buf, IF s.puts = <<s.owner>> THEN s.owner ELSE Mixed)
    /\ uploads' = [uploads EXCEPT ![h] =
          IF Target[s.owner].bucket \in buckets THEN [@ EXCEPT !.pc = "close"] ELSE IdleUpload]
    /\ UNCHANGED <<process, etags, sessions, uploadId>>

CloseSession(h) ==
    /\ up /\ uploads[h].pc = "close"
    /\ sessions' = [sessions EXCEPT ![uploads[h].id] = [@ EXCEPT !.open = FALSE]]
    /\ uploads' = [uploads EXCEPT ![h] = IdleUpload]
    /\ UNCHANGED <<process, buckets, objects, blobs, etags, uploadId, sent>>

-----------------------------------------------------------------------------
(* What the exit and the start of the process do to the service.           *)

StorageLost ==
    /\ buckets' = {} /\ objects' = NoObjects
    /\ etags' = 0 /\ sessions' = NoSessions /\ uploads' = NoUploads
    /\ UNCHANGED <<uploadId, sent>>

StorageExit == StorageLost /\ UNCHANGED blobs

(* The process goes away while it writes: what is left does not parse.     *)
StorageExitInWrite == DataDir /\ StorageLost /\ blobs' = EmptyBlobs

StorageLoad ==
    /\ buckets' = blobs.buckets
    /\ objects' = [b \in Bucket |-> [n \in ObjName |-> [data |-> blobs.data[b][n], buf |-> NoId]]]
    /\ sent' = [b \in Bucket |-> [n \in ObjName |->
                    IF blobs.data[b][n] = <<>> THEN Nobody ELSE sent[b][n]]]
    /\ UNCHANGED <<blobs, etags, sessions, uploads, uploadId>>

-----------------------------------------------------------------------------

StorageInit ==
    /\ buckets = {} /\ objects = NoObjects /\ blobs = EmptyBlobs
    /\ etags = 0 /\ sessions = NoSessions
    /\ uploads = NoUploads
    /\ uploadId = [c \in Uploader |-> NoId]
    /\ sent = [b \in Bucket |-> [n \in ObjName |-> Nobody]]

StorageApi ==
    \/ \E b \in Bucket : CreateBucket(b) \/ DeleteBucket(b)
    \/ \E b \in Bucket, n \in ObjName : DeleteObject(b, n)
    \/ \E b, b2 \in Bucket, n, n2 \in ObjName : CopyObject(b, n, b2, n2)

UploadRequest ==
    \/ \E c \in Uploader : StartSession(c)
    \/ \E h \in Handler, c \in Uploader : BeginUpload(h, c) \/ BeginChunk(h, c)

UploadStep ==
    \E h \in Handler : \/ BodyLost(h) \/ PutMedia(h)
                       \/ WriteBegin(h) \/ WriteEnd(h) \/ PutChunk(h) \/ CloseSession(h)

StorageStep == StorageApi \/ UploadRequest \/ UploadStep

StorageNext ==
    \/ StorageStep
    \/ Stops /\ (StorageExit \/ StorageExitInWrite)
    \/ Starts /\ StorageLoad

StorageSpec == ProcessInit /\ StorageInit /\ [][StorageNext]_<<process, storage>>

-----------------------------------------------------------------------------
(* Properties.                                                             *)

Bodies == Seq(Uploader \cup {Torn})

(* The session an upload refers to, which others may have closed, is there *)
(* with the bytes the upload has appended.                                 *)
Refers(h) ==
    /\ uploads[h].pc # "idle" => uploads[h].client \in Uploader
    /\ uploads[h].pc \in {"chunk", "write", "put", "close"} =>
          uploads[h].id \in Id /\ sessions[uploads[h].id].owner \in Uploader
    /\ uploads[h].pc \in {"write", "put"} => uploads[h].at < Len(sessions[uploads[h].id].data)

(* Every variable is of its type, and no upload refers to a session that   *)
(* has been cleared under it.                                              *)
StorageTypeOK ==
    /\ ProcessTypeOK
    /\ buckets \in SUBSET Bucket
    /\ objects \in [Bucket -> [ObjName -> [data : Bodies, buf : Id \cup {NoId}]]]
    /\ blobs \in [buckets : SUBSET Bucket, data : [Bucket -> [ObjName -> Bodies]]]
    /\ etags \in 0..MaxId
    /\ sessions \in [Id -> [open : BOOLEAN, owner : Uploader \cup {Nobody},
                            data : Bodies, puts : Seq(Uploader)]]
    /\ uploads \in [Handler -> [pc : {"idle", "media", "chunk", "write", "put", "close"},
                                client : Uploader \cup {Nobody}, id : Id \cup {NoId}, at : Nat]]
    /\ \A h \in Handler : Refers(h)
    /\ uploadId \in [Uploader -> Id \cup {NoId}]
    /\ sent \in [Bucket -> [ObjName -> Uploader \cup {Nobody, Mixed}]]

(* An upload looks at its bucket twice, with the body in between: whoever  *)
(* deletes the bucket meanwhile, no object is ever in a bucket that is not *)
(* there, in memory or in the file.                                        *)
Housed ==
    \A b \in Bucket, n \in ObjName :
        /\ objects[b][n].data # <<>> => b \in buckets
        /\ blobs.data[b][n] # <<>> => b \in blobs.buckets

(* An object that was uploaded in one request, or by a session its owner   *)
(* wrote to once, holds that body and nothing else, whatever other uploads *)
(* go on, in memory and in the file.                                       *)
Intact ==
    \A b \in Bucket, n \in ObjName : sent[b][n] \in Uploader =>
        /\ up => objects[b][n].data = <<sent[b][n]>>
        /\ DataDir => blobs.data[b][n] \in {<<sent[b][n]>>, <<>>}

(* The file has every bucket and every object as memory does.  Only the    *)
(* contents that a second PUT is still writing to may differ.              *)
BlobsCurrent ==
    up /\ DataDir =>
        /\ blobs.buckets = buckets
        /\ \A b \in Bucket, n \in ObjName :
              /\ blobs.data[b][n] = <<>> <=> objects[b][n].data = <<>>
              /\ sent[b][n] # Mixed => blobs.data[b][n] = objects[b][n].data
=============================================================================
