------------------------------- MODULE Photos -------------------------------
(***************************************************************************)
(* The photo queue of a device: photographs wait in IndexedDB with a count *)
(* of refusals and go up one at a time, under the id each was taken with.  *)
(* Every change of the queue starts another drain, and nothing keeps one   *)
(* drain from another.                                                     *)
(*                                                                         *)
(* As in OfflineSync the server answers first and commits after: between   *)
(* the two the row of a photo is promised, and may still come to nothing.  *)
(***************************************************************************)
EXTENDS Integers

CONSTANTS
  MaxPhotos,
  MaxDrains,     \* drains under way at a time
  Limit,         \* refusals after which a photo is left alone; 5 in the code
  Bad,           \* photos the server does not take: empty, too large, not an image
  Folders,       \* what a device may file them under; "progress" in the code
  MediaFolders,  \* what the server knows
  MaxPhotoFaults  \* lost connections, server errors, closed pages, lost sessions

\* Photos are known by the order they were taken in (captured_at).
Photos == 1 .. MaxPhotos
Drains == 1 .. MaxDrains
NoPhoto == 0

ASSUME PhotosAssumption ==
  /\ MaxPhotos \in Nat /\ MaxDrains \in Nat /\ MaxPhotoFaults \in Nat
  /\ Limit \in Nat \ {0}
  /\ Bad \subseteq Photos

VARIABLES
  folder,     \* what this device files them under
  taken,      \* how many photos were taken
  kept,       \* PHOTO_STORE: the photos on the device
  attempts,   \* and their counts of refusals
  drain,      \* the drains of this page
  upload,     \* the request of each drain, between device and server
  rows,       \* media_files by client_op_id
  inserted,   \* photos whose row is written and answered for, and still to be committed
  broken,     \* photos whose row was answered for and came to nothing, nor has come since
  photoFaults, \* how many faults there were
  discarded   \* history: photos somebody discarded

photoVars == <<folder, taken, kept, attempts, drain, upload, rows, inserted, broken, photoFaults, discarded>>
fileVars  == <<rows, inserted, broken>>

Drain  == [pc : {"idle", "next", "sent", "stored", "refused", "noting"},
           todo : SUBSET Photos, photo : Photos \cup {NoPhoto}, copy : Nat]
Upload == [at : {"none", "sent", "checked", "ok", "refused", "error"},
           photo : Photos \cup {NoPhoto}]

Idle   == [pc |-> "idle", todo |-> {}, photo |-> NoPhoto, copy |-> 0]
Nobody == [at |-> "none", photo |-> NoPhoto]

PhotoTypeOK ==
  /\ folder \in Folders
  /\ taken \in 0 .. MaxPhotos
  /\ kept \subseteq Photos
  /\ attempts \in [Photos -> Nat]
  /\ drain \in [Drains -> Drain]
  /\ upload \in [Drains -> Upload]
  /\ \A d \in Drains : /\ upload[d].at # "none" => upload[d].photo \in Photos
                       /\ drain[d].pc \in {"stored", "refused", "noting"} => drain[d].photo \in Photos
  /\ rows \in [Photos -> Nat]
  /\ inserted \subseteq Photos /\ broken \subseteq Photos
  /\ photoFaults \in Nat
  /\ discarded \subseteq Photos

PhotoInit ==
  /\ folder \in Folders
  /\ taken = 0
  /\ kept = {}
  /\ attempts = [p \in Photos |-> 0]
  /\ drain = [d \in Drains |-> Idle]
  /\ upload = [d \in Drains |-> Nobody]
  /\ rows = [p \in Photos |-> 0]
  /\ inserted = {} /\ broken = {}
  /\ photoFaults = 0
  /\ discarded = {}

-----------------------------------------------------------------------------
(* The device *)

At(d, pc, todo, photo, copy) ==
  drain' = [drain EXCEPT ![d] = [pc |-> pc, todo |-> todo, photo |-> photo, copy |-> copy]]

\* enqueuePhoto().
Take ==
  /\ taken < MaxPhotos
  /\ taken' = taken + 1
  /\ kept' = kept \cup {taken + 1}
  /\ attempts' = [attempts EXCEPT ![taken + 1] = 0]
  /\ UNCHANGED <<folder, drain, upload, fileVars, photoFaults, discarded>>

\* The photos of allPhotos() that were not refused too often.
Queued == {p \in kept : attempts[p] < Limit}

\* drainPhotos() begins: the timer, the connection, a button or any change of a queue.
StartDrain(d) ==
  /\ drain[d].pc = "idle" /\ upload[d].at = "none"
  /\ Queued # {}
  /\ At(d, "next", Queued, NoPhoto, 0)
  /\ UNCHANGED <<folder, taken, kept, attempts, upload, fileVars, photoFaults, discarded>>

\* The oldest of those left goes up.
Post(d, p) ==
  /\ drain[d].pc = "next"
  /\ p \in drain[d].todo /\ \A q \in drain[d].todo : p <= q
  /\ At(d, "sent", drain[d].todo \ {p}, p, 0)
  /\ upload' = [upload EXCEPT ![d] = [at |-> "sent", photo |-> p]]
  /\ UNCHANGED <<folder, taken, kept, attempts, fileVars, photoFaults, discarded>>

Finish(d) ==
  /\ drain[d].pc = "next" /\ drain[d].todo = {}
  /\ drain' = [drain EXCEPT ![d] = Idle]
  /\ UNCHANGED <<folder, taken, kept, attempts, upload, fileVars, photoFaults, discarded>>

\* The answer: taken, refused, or nothing that counts, which ends the drain.
Answered(d) ==
  /\ upload[d].at \in {"ok", "refused", "error"}
  /\ upload' = [upload EXCEPT ![d] = Nobody]
  /\ \/ drain[d].pc = "sent" /\ upload[d].at = "ok"
        /\ At(d, "stored", drain[d].todo, upload[d].photo, 0)
     \/ drain[d].pc = "sent" /\ upload[d].at = "refused"
        /\ At(d, "refused", drain[d].todo, upload[d].photo, 0)
     \/ drain[d].pc = "sent" /\ upload[d].at = "error"
        /\ drain' = [drain EXCEPT ![d] = Idle]
     \/ drain[d].pc # "sent" /\ UNCHANGED drain
  /\ UNCHANGED <<folder, taken, kept, attempts, fileVars, photoFaults, discarded>>

\* Mutant: what was stored is kept.
LeavePhoto(d) == kept' = kept

\* Mutant: the store is emptied.
EmptyStore(d) == kept' = {}

\* removePhoto().
RemovePhoto(d) == kept' = kept \ {drain[d].photo}

Stored(d) ==
  /\ drain[d].pc = "stored"
  /\ RemovePhoto(d)
  /\ At(d, "next", drain[d].todo, NoPhoto, 0)
  /\ UNCHANGED <<folder, taken, attempts, upload, fileVars, photoFaults, discarded>>

\* Mutant: a refusal is not counted.
NotCounted(copy) == copy

Counted(copy) == copy + 1

\* notePhotoFailure() reads the photo in one transaction,
NoteRead(d) ==
  LET p == drain[d].photo IN
  /\ drain[d].pc = "refused"
  /\ IF p \in kept THEN At(d, "noting", {}, p, attempts[p]) ELSE drain' = [drain EXCEPT ![d] = Idle]
  /\ UNCHANGED <<folder, taken, kept, attempts, upload, fileVars, photoFaults, discarded>>

\* and puts it back in another, whatever became of it in between.
NoteWrite(d) ==
  LET p == drain[d].photo IN
  /\ drain[d].pc = "noting"
  /\ kept' = kept \cup {p}
  /\ attempts' = [attempts EXCEPT ![p] = Counted(drain[d].copy)]
  /\ drain' = [drain EXCEPT ![d] = Idle]
  /\ UNCHANGED <<folder, taken, upload, fileVars, photoFaults, discarded>>

\* The button of the queue on a photo that was refused too often.
Discard(p) ==
  /\ p \in kept /\ attempts[p] >= Limit
  /\ kept' = kept \ {p}
  /\ discarded' = discarded \cup {p}
  /\ UNCHANGED <<folder, taken, attempts, drain, upload, fileVars, photoFaults>>

-----------------------------------------------------------------------------
(* The server: upload_media *)

Becomes(d, at) == upload' = [upload EXCEPT ![d] = [at |-> at, photo |-> upload[d].photo]]

\* The form is read: the folder has to be one of MediaFolder.
FormRefused(d) ==
  /\ upload[d].at = "sent"
  /\ folder \notin MediaFolders
  /\ Becomes(d, "refused")
  /\ UNCHANGED <<folder, taken, kept, attempts, drain, fileVars, photoFaults, discarded>>

\* A photo of this id is there already, or is not yet.
Lookup(d) ==
  /\ upload[d].at = "sent"
  /\ folder \in MediaFolders
  /\ Becomes(d, IF rows[upload[d].photo] > 0 THEN "ok" ELSE "checked")
  /\ UNCHANGED <<folder, taken, kept, attempts, drain, fileVars, photoFaults, discarded>>

\* Mutant: no unique index on client_op_id.
NeverTaken(p) == FALSE

\* ux_media_files_client_op.
IdTaken(p) == rows[p] > 0

\* save_media(): the file is looked at and stored, its row written and answered
\* for.  The unique index turns away the second of two, which waits to know
\* whether the first is committed.
SaveMedia(d) ==
  LET p == upload[d].photo IN
  /\ upload[d].at = "checked"
  /\ \/ p \in Bad /\ Becomes(d, "refused") /\ UNCHANGED inserted
     \/ p \notin Bad /\ p \notin inserted /\ IdTaken(p) /\ Becomes(d, "error") /\ UNCHANGED inserted
     \/ p \notin Bad /\ p \notin inserted /\ ~IdTaken(p) /\ Becomes(d, "ok")
        /\ inserted' = inserted \cup {p}
  /\ UNCHANGED <<folder, taken, kept, attempts, drain, rows, broken, photoFaults, discarded>>

\* get_db's commit, behind the answer.
CommitMedia(p) ==
  /\ p \in inserted
  /\ inserted' = inserted \ {p}
  /\ broken' = broken \ {p}
  /\ rows' = [rows EXCEPT ![p] = @ + 1]
  /\ UNCHANGED <<folder, taken, kept, attempts, drain, upload, photoFaults, discarded>>

-----------------------------------------------------------------------------
(* What goes wrong *)

PhotoFault == photoFaults < MaxPhotoFaults /\ photoFaults' = photoFaults + 1

\* A request or an answer is lost, the server fails, or the session is over.
Lost(d) ==
  /\ PhotoFault
  /\ upload[d].at # "none"
  /\ \/ Becomes(d, "error")
     \/ upload[d].at = "sent" /\ Becomes(d, "refused")
  /\ UNCHANGED <<folder, taken, kept, attempts, drain, fileVars, discarded>>

\* The connection is lost: the drain ends, and the request runs on.
HangUp(d) ==
  /\ PhotoFault
  /\ drain[d].pc = "sent"
  /\ drain' = [drain EXCEPT ![d] = Idle]
  /\ UNCHANGED <<folder, taken, kept, attempts, upload, fileVars, discarded>>

\* The worker dies, or the database, between the answer and the commit.
CommitFails(p) ==
  /\ PhotoFault
  /\ p \in inserted
  /\ inserted' = inserted \ {p}
  /\ broken' = broken \cup {p}
  /\ UNCHANGED <<folder, taken, kept, attempts, drain, upload, rows, discarded>>

\* The page is closed: the drains are gone, the queue and the requests are not.
Close ==
  /\ PhotoFault
  /\ \E d \in Drains : drain[d] # Idle
  /\ drain' = [d \in Drains |-> Idle]
  /\ UNCHANGED <<folder, taken, kept, attempts, upload, fileVars, discarded>>

-----------------------------------------------------------------------------
Device(d) ==
  (\E p \in Photos : Post(d, p)) \/ Finish(d) \/ Answered(d) \/ Stored(d) \/ NoteRead(d) \/ NoteWrite(d)
UploadMedia(d) == FormRefused(d) \/ Lookup(d) \/ SaveMedia(d)

PhotoNext ==
  \/ Take \/ Close
  \/ \E p \in Photos : Discard(p) \/ CommitMedia(p) \/ CommitFails(p)
  \/ \E d \in Drains : StartDrain(d) \/ Device(d) \/ UploadMedia(d) \/ Lost(d) \/ HangUp(d)

PhotoSpec == PhotoInit /\ [][PhotoNext]_photoVars

\* The timer of startSyncLoop comes again; a drain and the server go on.
PhotoFairness ==
  /\ \A d \in Drains : WF_photoVars(StartDrain(d)) /\ WF_photoVars(Device(d)) /\ WF_photoVars(UploadMedia(d))
  /\ \A p \in Photos : WF_photoVars(CommitMedia(p))

FairPhotoSpec == PhotoSpec /\ PhotoFairness

-----------------------------------------------------------------------------
(* What must hold *)

\* However many drains send a photo, it is filed once: upload_media looks first
\* and the index decides between two that looked at the same time.
FiledOnce == \A p \in Photos : rows[p] <= 1

\* A photo that was taken is on the device, on the server, or was discarded by
\* the person who took it, unless the server answered for a row it is still to
\* commit or did not: the device itself loses none (sync.ts drainPhotos,
\* outbox.ts removePhoto).
NothingLost ==
  \A p \in 1 .. taken :
    p \in kept \/ rows[p] > 0 \/ p \in discarded \/ p \in inserted \/ p \in broken

\* A photo leaves the device or is left alone, and a bad one that was taken
\* first does not keep the ones behind it waiting (attempts, sync.ts).
PhotosLeave ==
  \A p \in Photos : p \in kept ~> (p \notin kept \/ attempts[p] >= Limit)

\* A photo the server keeps refusing is not sent for ever, although drains
\* overwrite each other's counts.
RefusedLeftAlone ==
  \A p \in Bad : <>[](\A d \in Drains : upload[d].photo # p)

\* What sync.ts says of the count: a refusal is about the photo.
RefusalIsAboutThePhoto ==
  \A p \in kept : attempts[p] >= Limit => p \in Bad

=============================================================================
