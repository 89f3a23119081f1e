----------------------------- MODULE FilingProofs -----------------------------
(* What is sent to be filed and under which number: no photo of a device's    *)
(* queue is lost or filed twice, for any number of photos and drains; a       *)
(* document of the AI inbox is posted once, for any number of documents,      *)
(* requests and reviewers; and the next number of a document is free          *)
(* (DocNumbers), for any number of requests and any width the numbers stay    *)
(* within.                                                                    *)
EXTENDS Photos, Ingestion, DocNumbers, FiniteData

-----------------------------------------------------------------------------
(* The photo queue *)

\* What the server has answered for: it is there, about to be, or was promised.
AnsweredFor(p) == rows[p] > 0 \/ p \in inserted \/ p \in broken
Answers == \A d \in Drains : upload[d].at = "ok" => AnsweredFor(upload[d].photo)
Removes == \A d \in Drains : drain[d].pc = "stored" => AnsweredFor(drain[d].photo)
\* The index lets no second row be written beside a committed one.
OneRow == \A p \in inserted : rows[p] = 0
PhotosInv == PhotoTypeOK /\ FiledOnce /\ OneRow /\ NothingLost /\ Answers /\ Removes

LEMMA PhotoStart == PhotoInit => PhotosInv
<1> SUFFICES ASSUME PhotoInit PROVE PhotosInv
  OBVIOUS
<1>1. PhotoTypeOK
  BY PhotosAssumption DEF PhotoInit, PhotoTypeOK, Drain, Upload, Idle, Nobody
<1>2. FiledOnce /\ OneRow /\ NothingLost /\ Answers /\ Removes
  BY PhotosAssumption DEF PhotoInit, FiledOnce, OneRow, NothingLost, Answers, Removes, AnsweredFor, fileVars, Idle, Nobody
<1> QED
  BY <1>1, <1>2 DEF PhotosInv

\* A drain that is put in its place, and a request.
LEMMA AtType ==
  ASSUME PhotoTypeOK, NEW d \in Drains, NEW pc \in {"idle", "next", "sent", "stored", "refused", "noting"},
         NEW todo \in SUBSET Photos, NEW p \in Photos \cup {NoPhoto}, NEW k \in Nat,
         At(d, pc, todo, p, k), pc \in {"stored", "refused", "noting"} => p \in Photos
  PROVE  /\ drain' \in [Drains -> Drain]
         /\ drain'[d].pc = pc /\ drain'[d].photo = p
         /\ \A e \in Drains \ {d} : drain'[e] = drain[e]
         /\ \A e \in Drains : drain'[e].pc \in {"stored", "refused", "noting"} => drain'[e].photo \in Photos
<1> DEFINE new == [pc |-> pc, todo |-> todo, photo |-> p, copy |-> k]
<1>1. new \in Drain
  BY DEF Drain
<1>2. drain' = [drain EXCEPT ![d] = new] /\ drain \in [Drains -> Drain]
  BY DEF At, PhotoTypeOK
<1>3. new.pc = pc /\ new.photo = p
  OBVIOUS
<1> HIDE DEF new
<1>4. drain' \in [Drains -> Drain] /\ drain'[d] = new /\ \A e \in Drains \ {d} : drain'[e] = drain[e]
  BY <1>1, <1>2
<1>5. \A e \in Drains : drain'[e].pc \in {"stored", "refused", "noting"} => drain'[e].photo \in Photos
  BY <1>3, <1>4 DEF PhotoTypeOK
<1> QED
  BY <1>3, <1>4, <1>5

LEMMA IdleType ==
  ASSUME PhotoTypeOK, NEW d \in Drains, drain' = [drain EXCEPT ![d] = Idle]
  PROVE  /\ drain' \in [Drains -> Drain] /\ drain'[d] = Idle
         /\ \A e \in Drains \ {d} : drain'[e] = drain[e]
         /\ \A e \in Drains : drain'[e].pc \in {"stored", "refused", "noting"} => drain'[e].photo \in Photos
<1>1. Idle \in Drain /\ Idle.pc = "idle"
  BY DEF Idle, Drain
<1>2. drain' \in [Drains -> Drain] /\ drain'[d] = Idle /\ \A e \in Drains \ {d} : drain'[e] = drain[e]
  BY <1>1 DEF PhotoTypeOK
<1> QED
  BY <1>1, <1>2 DEF PhotoTypeOK

LEMMA UploadType ==
  ASSUME PhotoTypeOK, NEW d \in Drains, NEW u \in Upload, upload' = [upload EXCEPT ![d] = u],
         u.at # "none" => u.photo \in Photos
  PROVE  /\ upload' \in [Drains -> Upload] /\ upload'[d] = u
         /\ \A e \in Drains \ {d} : upload'[e] = upload[e]
         /\ \A e \in Drains : upload'[e].at # "none" => upload'[e].photo \in Photos
<1>1. upload' \in [Drains -> Upload] /\ upload'[d] = u /\ \A e \in Drains \ {d} : upload'[e] = upload[e]
  BY DEF PhotoTypeOK
<1> QED
  BY <1>1 DEF PhotoTypeOK

LEMMA BecomesType ==
  ASSUME PhotoTypeOK, NEW d \in Drains, upload[d].at # "none",
         NEW at \in {"sent", "checked", "ok", "refused", "error"}, Becomes(d, at)
  PROVE  /\ upload' \in [Drains -> Upload]
         /\ upload'[d].at = at /\ upload'[d].photo = upload[d].photo /\ upload[d].photo \in Photos
         /\ \A e \in Drains \ {d} : upload'[e] = upload[e]
         /\ \A e \in Drains : upload'[e].at # "none" => upload'[e].photo \in Photos
<1>1. PICK u : u = [at |-> at, photo |-> upload[d].photo]
  OBVIOUS
<1>2. upload[d].photo \in Photos /\ u.at = at /\ u.photo = upload[d].photo
  BY <1>1 DEF PhotoTypeOK
<1>3. u \in Upload
  BY <1>1, <1>2 DEF Upload
<1> QED
  BY <1>1, <1>2, <1>3, UploadType DEF Becomes

LEMMA PhotoStep == PhotosInv /\ [PhotoNext]_photoVars => PhotosInv'
<1> SUFFICES ASSUME PhotosInv, [PhotoNext]_photoVars PROVE PhotosInv'
  OBVIOUS
<1> USE DEF PhotosInv
<1>u. ASSUME UNCHANGED photoVars PROVE PhotosInv'
  BY <1>u DEF photoVars, PhotoTypeOK, FiledOnce, OneRow, NothingLost, Answers, Removes, AnsweredFor, fileVars
<1>1. ASSUME Take PROVE PhotosInv'
  <2>1. taken + 1 \in Photos /\ taken \in Nat /\ taken' = taken + 1 /\ kept' = kept \cup {taken + 1}
    BY <1>1, PhotosAssumption DEF Take, PhotoTypeOK, Photos
  <2>2. UNCHANGED <<drain, upload, fileVars, discarded>>
    BY <1>1 DEF Take
  <2>3. PhotoTypeOK'
    BY <1>1, <2>1 DEF Take, PhotoTypeOK, Photos, fileVars
  <2>4. NothingLost'
    <3> SUFFICES ASSUME NEW p \in 1 .. taken + 1 PROVE p \in kept' \/ AnsweredFor(p) \/ p \in discarded
      BY <2>1, <2>2 DEF NothingLost, AnsweredFor, fileVars
    <3>1. p \in 1 .. taken \/ p = taken + 1
      BY <2>1
    <3> QED
      BY <2>1, <3>1 DEF NothingLost, AnsweredFor
  <2> QED
    BY <2>2, <2>3, <2>4 DEF FiledOnce, OneRow, Answers, Removes, AnsweredFor, fileVars
<1>2. ASSUME NEW d \in Drains, StartDrain(d) PROVE PhotosInv'
  <2>1. At(d, "next", Queued, NoPhoto, 0) /\ Queued \in SUBSET Photos
    BY <1>2 DEF StartDrain, Queued, PhotoTypeOK
  <2>2. UNCHANGED <<folder, taken, kept, attempts, upload, fileVars, photoFaults, discarded>>
    BY <1>2 DEF StartDrain
  <2>3. /\ drain' \in [Drains -> Drain] /\ drain'[d].pc = "next" /\ \A e \in Drains \ {d} : drain'[e] = drain[e]
        /\ \A e \in Drains : drain'[e].pc \in {"stored", "refused", "noting"} => drain'[e].photo \in Photos
    BY <2>1, AtType
  <2> QED
    BY <2>2, <2>3 DEF PhotoTypeOK, FiledOnce, OneRow, NothingLost, Answers, Removes, AnsweredFor, fileVars
<1>3. ASSUME NEW d \in Drains, NEW p \in Photos, Post(d, p) PROVE PhotosInv'
  <2>1. At(d, "sent", drain[d].todo \ {p}, p, 0) /\ drain[d].todo \ {p} \in SUBSET Photos
    BY <1>3 DEF Post, PhotoTypeOK, Drain
  <2>2. UNCHANGED <<folder, taken, kept, attempts, fileVars, photoFaults, discarded>>
    BY <1>3 DEF Post
  <2>3. /\ drain' \in [Drains -> Drain] /\ drain'[d].pc = "sent" /\ \A e \in Drains \ {d} : drain'[e] = drain[e]
        /\ \A e \in Drains : drain'[e].pc \in {"stored", "refused", "noting"} => drain'[e].photo \in Photos
    BY <2>1, AtType
  <2>4. PICK u \in Upload : u = [at |-> "sent", photo |-> p]
    BY DEF Upload
  <2>5. /\ upload' \in [Drains -> Upload] /\ upload'[d].at = "sent" /\ \A e \in Drains \ {d} : upload'[e] = upload[e]
        /\ \A e \in Drains : upload'[e].at # "none" => upload'[e].photo \in Photos
    BY <1>3, <2>4, UploadType DEF Post
  <2> QED
    BY <2>2, <2>3, <2>5 DEF PhotoTypeOK, FiledOnce, OneRow, NothingLost, Answers, Removes, AnsweredFor, fileVars
<1>4. ASSUME NEW d \in Drains, Finish(d) PROVE PhotosInv'
  <2>1. /\ drain' \in [Drains -> Drain] /\ drain'[d].pc = "idle" /\ \A e \in Drains \ {d} : drain'[e] = drain[e]
        /\ \A e \in Drains : drain'[e].pc \in {"stored", "refused", "noting"} => drain'[e].photo \in Photos
    BY <1>4, IdleType DEF Finish, Idle
  <2> QED
    BY <1>4, <2>1 DEF Finish, PhotoTypeOK, FiledOnce, OneRow, NothingLost, Answers, Removes, AnsweredFor, fileVars
<1>5. ASSUME NEW d \in Drains, Answered(d) PROVE PhotosInv'
  <2>1. UNCHANGED <<folder, taken, kept, attempts, fileVars, photoFaults, discarded>>
    BY <1>5 DEF Answered
  <2>2. upload[d].photo \in Photos /\ drain[d].todo \in SUBSET Photos
    BY <1>5 DEF Answered, PhotoTypeOK, Drain
  <2>3. Nobody \in Upload /\ Nobody.at = "none"
    BY DEF Nobody, Upload
  <2>4. /\ upload' \in [Drains -> Upload] /\ upload'[d].at = "none" /\ \A e \in Drains \ {d} : upload'[e] = upload[e]
        /\ \A e \in Drains : upload'[e].at # "none" => upload'[e].photo \in Photos
    BY <1>5, <2>3, UploadType DEF Answered
  <2>5. /\ drain' \in [Drains -> Drain] /\ \A e \in Drains \ {d} : drain'[e] = drain[e]
        /\ \A e \in Drains : drain'[e].pc \in {"stored", "refused", "noting"} => drain'[e].photo \in Photos
        /\ drain'[d].pc = "stored" => AnsweredFor(drain'[d].photo)
    <3>1. CASE upload[d].at = "ok" /\ At(d, "stored", drain[d].todo, upload[d].photo, 0)
      <4>1. AnsweredFor(upload[d].photo)
        BY <3>1 DEF Answers
      <4> QED
        BY <2>2, <3>1, <4>1, AtType
    <3>2. CASE At(d, "refused", drain[d].todo, upload[d].photo, 0)
      BY <2>2, <3>2, AtType
    <3>3. CASE drain' = [drain EXCEPT ![d] = Idle]
      BY <3>3, IdleType DEF Idle
    <3>4. CASE UNCHANGED drain
      BY <3>4 DEF PhotoTypeOK, Removes
    <3> QED
      BY <1>5, <3>1, <3>2, <3>3, <3>4 DEF Answered
  <2> QED
    BY <2>1, <2>4, <2>5 DEF PhotoTypeOK, FiledOnce, OneRow, NothingLost, Answers, Removes, AnsweredFor, fileVars
<1>6. ASSUME NEW d \in Drains, Stored(d) PROVE PhotosInv'
  <2>1. At(d, "next", drain[d].todo, NoPhoto, 0) /\ drain[d].todo \in SUBSET Photos
    BY <1>6 DEF Stored, PhotoTypeOK, Drain
  <2>2. /\ drain' \in [Drains -> Drain] /\ drain'[d].pc = "next" /\ \A e \in Drains \ {d} : drain'[e] = drain[e]
        /\ \A e \in Drains : drain'[e].pc \in {"stored", "refused", "noting"} => drain'[e].photo \in Photos
    BY <2>1, AtType
  <2>3. UNCHANGED <<folder, taken, attempts, upload, fileVars, photoFaults, discarded>> /\ kept' = kept \ {drain[d].photo}
    BY <1>6 DEF Stored, RemovePhoto
  <2>4. AnsweredFor(drain[d].photo)
    BY <1>6 DEF Stored, Removes
  <2>5. NothingLost'
    BY <2>3, <2>4 DEF NothingLost, AnsweredFor, fileVars
  <2> QED
    BY <2>2, <2>3, <2>5 DEF PhotoTypeOK, FiledOnce, OneRow, Answers, Removes, AnsweredFor, fileVars
<1>7. ASSUME NEW d \in Drains, NoteRead(d) PROVE PhotosInv'
  <2>1. UNCHANGED <<folder, taken, kept, attempts, upload, fileVars, photoFaults, discarded>>
    BY <1>7 DEF NoteRead
  <2>2. drain[d].photo \in Photos
    BY <1>7 DEF NoteRead, PhotoTypeOK
  <2>3. /\ drain' \in [Drains -> Drain] /\ drain'[d].pc # "stored" /\ \A e \in Drains \ {d} : drain'[e] = drain[e]
        /\ \A e \in Drains : drain'[e].pc \in {"stored", "refused", "noting"} => drain'[e].photo \in Photos
    <3>1. CASE At(d, "noting", {}, drain[d].photo, attempts[drain[d].photo])
      <4>1. attempts[drain[d].photo] \in Nat /\ {} \in SUBSET Photos
        BY <2>2 DEF PhotoTypeOK
      <4>2. PICK k \in Nat : k = attempts[drain[d].photo]
        BY <4>1
      <4>3. PICK p \in Photos : p = drain[d].photo
        BY <2>2
      <4> QED
        BY <3>1, <4>1, <4>2, <4>3, AtType, ZenonT(30)
    <3>2. CASE drain' = [drain EXCEPT ![d] = Idle]
      BY <3>2, IdleType DEF Idle
    <3> QED
      BY <1>7, <3>1, <3>2 DEF NoteRead
  <2> QED
    BY <2>1, <2>3 DEF PhotoTypeOK, FiledOnce, OneRow, NothingLost, Answers, Removes, AnsweredFor, fileVars
<1>8. ASSUME NEW d \in Drains, NoteWrite(d) PROVE PhotosInv'
  <2>1. /\ UNCHANGED <<folder, taken, upload, fileVars, photoFaults, discarded>>
        /\ drain[d].photo \in Photos /\ drain[d].copy + 1 \in Nat
        /\ kept' = kept \cup {drain[d].photo}
        /\ attempts' = [attempts EXCEPT ![drain[d].photo] = drain[d].copy + 1]
    BY <1>8 DEF NoteWrite, Counted, PhotoTypeOK, Drain
  <2>2. /\ drain' \in [Drains -> Drain] /\ drain'[d].pc = "idle" /\ \A e \in Drains \ {d} : drain'[e] = drain[e]
        /\ \A e \in Drains : drain'[e].pc \in {"stored", "refused", "noting"} => drain'[e].photo \in Photos
    BY <1>8, IdleType DEF NoteWrite, Idle
  <2>3. attempts' \in [Photos -> Nat] /\ kept' \subseteq Photos
    BY <2>1 DEF PhotoTypeOK
  <2> QED
    BY <2>1, <2>2, <2>3 DEF PhotoTypeOK, FiledOnce, OneRow, NothingLost, Answers, Removes, AnsweredFor, fileVars
<1>9. ASSUME NEW p \in Photos, Discard(p) PROVE PhotosInv'
  BY <1>9 DEF Discard, PhotoTypeOK, FiledOnce, OneRow, NothingLost, Answers, Removes, AnsweredFor, fileVars
<1>10. ASSUME NEW d \in Drains, FormRefused(d) \/ Lookup(d) \/ SaveMedia(d) \/ Lost(d) PROVE PhotosInv'
  <2>1. UNCHANGED <<folder, taken, kept, attempts, drain, rows, broken, discarded>> /\ photoFaults' \in Nat
    BY <1>10, PhotosAssumption DEF FormRefused, Lookup, SaveMedia, Lost, PhotoFault, PhotoTypeOK, fileVars
  <2>2. upload[d].at # "none" /\ upload[d].photo \in Photos
    BY <1>10 DEF FormRefused, Lookup, SaveMedia, Lost, PhotoTypeOK
  <2>3. PICK at \in {"checked", "ok", "refused", "error"} : Becomes(d, at)
    BY <1>10 DEF FormRefused, Lookup, SaveMedia, Lost
  <2>4. /\ upload' \in [Drains -> Upload]
        /\ upload'[d].at = at /\ upload'[d].photo = upload[d].photo
        /\ \A e \in Drains \ {d} : upload'[e] = upload[e]
        /\ \A e \in Drains : upload'[e].at # "none" => upload'[e].photo \in Photos
    BY <2>2, <2>3, BecomesType
  <2>5. /\ inserted \subseteq inserted' /\ inserted' \subseteq Photos
        /\ \A p \in inserted' : rows[p] = 0
        /\ upload'[d].at = "ok" => rows[upload[d].photo] > 0 \/ upload[d].photo \in inserted'
    <3>1. CASE SaveMedia(d) /\ ~IdTaken(upload[d].photo) /\ inserted' = inserted \cup {upload[d].photo}
      <4>1. rows[upload[d].photo] = 0
        BY <2>2, <3>1 DEF IdTaken, PhotoTypeOK
      <4> QED
        BY <2>2, <3>1, <4>1 DEF PhotoTypeOK, OneRow
    <3>2. ASSUME UNCHANGED inserted, upload'[d].at = "ok" => rows[upload[d].photo] > 0
          PROVE  /\ inserted \subseteq inserted' /\ inserted' \subseteq Photos
                 /\ \A p \in inserted' : rows[p] = 0
                 /\ upload'[d].at = "ok" => rows[upload[d].photo] > 0 \/ upload[d].photo \in inserted'
      BY <3>2 DEF PhotoTypeOK, OneRow
    <3>3. CASE FormRefused(d) \/ Lost(d)
      <4>1. UNCHANGED inserted /\ upload'[d].at # "ok"
        BY <3>3, <2>2, BecomesType DEF FormRefused, Lost, fileVars
      <4> QED
        BY <3>2, <4>1
    <3>4. CASE Lookup(d)
      <4>1. UNCHANGED inserted /\ (upload'[d].at = "ok" => rows[upload[d].photo] > 0)
        BY <3>4, <2>2, BecomesType DEF Lookup, fileVars
      <4> QED
        BY <3>2, <4>1
    <3>5. CASE SaveMedia(d) /\ ~(~IdTaken(upload[d].photo) /\ inserted' = inserted \cup {upload[d].photo})
      <4>1. UNCHANGED inserted /\ upload'[d].at # "ok"
        BY <3>5, <2>2, BecomesType DEF SaveMedia
      <4> QED
        BY <3>2, <4>1
    <3> QED
      BY <1>10, <3>1, <3>3, <3>4, <3>5
  <2>6. NothingLost'
    BY <2>1, <2>5 DEF NothingLost
  <2> QED
    BY <2>1, <2>4, <2>5, <2>6 DEF PhotoTypeOK, FiledOnce, OneRow, Answers, Removes, AnsweredFor
<1>11. ASSUME Close PROVE PhotosInv'
  <2>1. Idle \in Drain /\ Idle.pc = "idle"
    BY DEF Idle, Drain
  <2>2. drain' \in [Drains -> Drain] /\ \A d \in Drains : drain'[d].pc = "idle"
    BY <1>11, <2>1 DEF Close
  <2>3. photoFaults' \in Nat
    BY <1>11 DEF Close, PhotoFault, PhotoTypeOK
  <2> QED
    BY <1>11, <2>2, <2>3 DEF Close, PhotoTypeOK, FiledOnce, OneRow, NothingLost, Answers, Removes, AnsweredFor, fileVars
<1>12. ASSUME NEW d \in Drains, HangUp(d) PROVE PhotosInv'
  <2>1. /\ drain' \in [Drains -> Drain] /\ drain'[d].pc = "idle" /\ \A e \in Drains \ {d} : drain'[e] = drain[e]
        /\ \A e \in Drains : drain'[e].pc \in {"stored", "refused", "noting"} => drain'[e].photo \in Photos
    BY <1>12, IdleType DEF HangUp, Idle
  <2>2. photoFaults' \in Nat
    BY <1>12 DEF HangUp, PhotoFault, PhotoTypeOK
  <2> QED
    BY <1>12, <2>1, <2>2
       DEF HangUp, PhotoTypeOK, FiledOnce, OneRow, NothingLost, Answers, Removes, AnsweredFor, fileVars
<1>13. ASSUME NEW p \in Photos, CommitMedia(p) PROVE PhotosInv'
  <2>1. /\ UNCHANGED <<folder, taken, kept, attempts, drain, upload, photoFaults, discarded>>
        /\ inserted' = inserted \ {p} /\ broken' = broken \ {p} /\ rows' = [rows EXCEPT ![p] = 1]
    <3>1. rows[p] + 1 = 1
      BY <1>13 DEF CommitMedia, OneRow
    <3> QED
      BY <1>13, <3>1 DEF CommitMedia
  <2>2. \A q \in Photos : AnsweredFor(q) => AnsweredFor(q)'
    BY <2>1 DEF AnsweredFor, PhotoTypeOK
  <2>3. \A q \in 1 .. taken : q \in Photos
    BY PhotosAssumption DEF PhotoTypeOK, Photos
  <2>4. NothingLost'
    BY <2>1, <2>2, <2>3 DEF NothingLost, AnsweredFor
  <2>5. PhotoTypeOK' /\ FiledOnce' /\ OneRow'
    BY <2>1 DEF PhotoTypeOK, FiledOnce, OneRow
  <2>6. Answers' /\ Removes'
    BY <2>1, <2>2 DEF Answers, Removes, PhotoTypeOK
  <2> QED
    BY <2>4, <2>5, <2>6
<1>14. ASSUME NEW p \in Photos, CommitFails(p) PROVE PhotosInv'
  <2>1. /\ UNCHANGED <<folder, taken, kept, attempts, drain, upload, rows, discarded>>
        /\ inserted' = inserted \ {p} /\ broken' = broken \cup {p}
        /\ photoFaults' \in Nat
    BY <1>14 DEF CommitFails, PhotoFault, PhotoTypeOK
  <2> QED
    BY <2>1 DEF PhotoTypeOK, FiledOnce, OneRow, NothingLost, Answers, Removes, AnsweredFor
<1> QED
  BY <1>u, <1>1, <1>2, <1>3, <1>4, <1>5, <1>6, <1>7, <1>8, <1>9, <1>10, <1>11, <1>12, <1>13, <1>14 DEF PhotoNext, Device, UploadMedia

\* The store of a device, its drains, their requests and the rows of
\* media_files stay what outbox.ts, sync.ts and upload_media say they are.
THEOREM TypeCorrect == PhotoSpec => []PhotoTypeOK
<1>1. PhotosInv => PhotoTypeOK
  BY DEF PhotosInv
<1> QED
  BY PhotoStart, PhotoStep, <1>1, PTL DEF PhotoSpec

\* Drains that overlap, answers that are lost and pages that are closed do not
\* file a photo twice: upload_media looks and the index decides.
THEOREM PhotoFiledOnce == PhotoSpec => []FiledOnce
<1>1. PhotosInv => FiledOnce
  BY DEF PhotosInv
<1> QED
  BY PhotoStart, PhotoStep, <1>1, PTL DEF PhotoSpec

\* Nor does the device lose one: drainPhotos removes only what the server has
\* answered for, which is filed unless the commit behind the answer fails.
THEOREM NoPhotoLost == PhotoSpec => []NothingLost
<1>1. PhotosInv => NothingLost
  BY DEF PhotosInv
<1> QED
  BY PhotoStart, PhotoStep, <1>1, PTL DEF PhotoSpec

-----------------------------------------------------------------------------
(* The AI inbox *)

\* What the server and its requests are made of.
Shape ==
  /\ status \in [Docs -> Statuses]
  /\ posted \in [Docs -> Nat]
  /\ call \in [Docs -> [Tries -> Call]]
  /\ review \in [Reviewers -> Review]
  /\ \A r \in Reviewers : review[r] # NoReview => review[r].on \in Docs
  /\ crossed \subseteq Docs

\* The requests that have read a document read what it still is, as long as none
\* has written it.
Fresh ==
  \A d \in Docs \ crossed :
    /\ \A k \in Tries : call[d][k].pc = "reading" => call[d][k].saw = status[d] /\ Processable(status[d])
    /\ \A r \in Reviewers : review[r].on = d => review[r].saw = status[d] /\ May(review[r].op, status[d])

IInv == Shape /\ Fresh /\ PostedOnce

-----------------------------------------------------------------------------
(* What a change of the calls may do *)

\* The calls change in such a way that none begins to read.
NoneBegins(new) ==
  /\ new \in [Docs -> [Tries -> Call]]
  /\ \A d \in Docs, k \in Tries : new[d][k].pc = "reading" => call[d][k].pc = "reading" /\ new[d][k].saw = call[d][k].saw

\* Nothing is read and nothing written.
LEMMA StillFresh ==
  ASSUME IInv, NoneBegins(call'), UNCHANGED <<status, posted, review, crossed>>
  PROVE  IInv'
<1>1. Shape'
  BY DEF IInv, Shape, NoneBegins
<1>2. Fresh'
  BY DEF IInv, Fresh, NoneBegins
<1>3. PostedOnce'
  BY DEF IInv, PostedOnce
<1> QED
  BY <1>1, <1>2, <1>3 DEF IInv

LEMMA PutCall ==
  ASSUME Shape, NEW d \in Docs, NEW k \in Tries, NEW c \in Call, c.pc # "reading"
  PROVE  NoneBegins([call EXCEPT ![d][k] = c])
<1> DEFINE new == [call EXCEPT ![d][k] = c]
<1>1. new \in [Docs -> [Tries -> Call]]
  BY DEF Shape
<1>2. \A e \in Docs, j \in Tries : new[e][j] = IF e = d /\ j = k THEN c ELSE call[e][j]
  BY DEF Shape
<1> QED
  BY <1>1, <1>2 DEF NoneBegins

LEMMA PumpBeginsNone ==
  ASSUME Shape, NEW cards, NEW waiting, NEW n, NEW calls, NoneBegins(calls), Pump(cards, waiting, n, calls)
  PROVE  NoneBegins(call')
<1> DEFINE sent == [pc |-> "sent", saw |-> "none", awaited |-> TRUE]
<1>1. sent \in Call /\ sent.pc # "reading"
  BY DEF Call, Statuses
<1>2. PICK next : call' = [d \in Docs |-> IF d \in next THEN [calls[d] EXCEPT ![tries[d] + 1] = sent] ELSE calls[d]]
  BY DEF Pump
<1>3. \A d \in Docs : calls[d] \in [Tries -> Call]
  BY DEF NoneBegins
<1> HIDE DEF sent
<1>4. ASSUME NEW d \in Docs
      PROVE  /\ call'[d] \in [Tries -> Call]
             /\ \A k \in Tries : call'[d][k] = calls[d][k] \/ call'[d][k] = sent
  <2>1. [calls[d] EXCEPT ![tries[d] + 1] = sent] \in [Tries -> Call]
    BY <1>1, <1>3
  <2>2. \A k \in Tries : [calls[d] EXCEPT ![tries[d] + 1] = sent][k] \in {calls[d][k], sent}
    BY <1>3
  <2> QED
    BY <1>2, <1>3, <2>1, <2>2
<1>5. call' \in [Docs -> [Tries -> Call]]
  BY <1>2, <1>4
<1> QED
  BY <1>1, <1>4, <1>5 DEF NoneBegins

LEMMA AnswerType ==
  ASSUME NEW c \in Call, NEW pc \in {"answered", "refused"}, NEW s \in Statuses
  PROVE  Answer(c, pc, s) \in Call /\ Answer(c, pc, s).pc # "reading"
  BY DEF Answer, NoCall, Call, Statuses

LEMMA NoCallType == NoCall \in Call /\ NoCall.pc # "reading"
  BY DEF NoCall, Call, Statuses

\* None is no document.
LEMMA NoReviewType == NoReview \in Review /\ NoReview.on \notin Docs
  BY IngestionAssumption DEF NoReview, Review, Statuses

-----------------------------------------------------------------------------
(* The steps *)

LEMMA Start == Init => IInv
<1> SUFFICES ASSUME Init PROVE IInv
  OBVIOUS
<1>1. Shape
  BY NoCallType, NoReviewType DEF Init, Shape, Statuses
<1>2. Fresh
  BY NoCallType, NoReviewType DEF Init, Fresh
<1>3. PostedOnce
  BY DEF Init, PostedOnce
<1> QED
  BY <1>1, <1>2, <1>3 DEF IInv

\* The steps of the page read and write nothing on the server.
LEMMA PageStep ==
  ASSUME IInv, NEW d \in Docs,
         AddFile(d) \/ Uploaded(d) \/ Retry(d) \/ \E k \in Tries : Heard(d, k)
  PROVE  IInv'
<1>1. NoneBegins(call)
  BY DEF IInv, Shape, NoneBegins
<1>2. CASE AddFile(d)
  BY <1>1, <1>2, StillFresh DEF AddFile, server
<1>3. CASE Uploaded(d)
  <2>1. NoneBegins(call')
    BY <1>1, <1>3, PumpBeginsNone DEF Uploaded, IInv
  <2> QED
    BY <1>3, <2>1, StillFresh DEF Uploaded, server
<1>4. CASE Retry(d)
  <2>1. NoneBegins(call')
    BY <1>1, <1>4, PumpBeginsNone DEF Retry, IInv
  <2> QED
    BY <1>4, <2>1, StillFresh DEF Retry, server
<1>5. CASE \E k \in Tries : Heard(d, k)
  <2>1. PICK k \in Tries : Heard(d, k)
    BY <1>5
  <2>2. NoneBegins([call EXCEPT ![d][k] = NoCall])
    BY PutCall, NoCallType DEF IInv
  <2>3. NoneBegins(call')
    BY <2>1, <2>2, PumpBeginsNone DEF Heard, IInv
  <2> QED
    BY <2>1, <2>3, StillFresh DEF Heard, server
<1> QED
  BY <1>2, <1>3, <1>4, <1>5

\* A document whose file arrives has no readers yet.
LEMMA Arrives ==
  ASSUME IInv, NEW d \in Docs, status[d] = "none", status' = [status EXCEPT ![d] = "received"],
         UNCHANGED <<posted, call, review, crossed>>
  PROVE  IInv'
<1>1. Shape'
  BY DEF IInv, Shape, Statuses
<1>2. ~Processable("none") /\ \A op : ~May(op, "none")
  BY DEF Processable, May
<1>3. \A e \in Docs : status'[e] = IF e = d THEN "received" ELSE status[e]
  BY DEF IInv, Shape
<1>4. Fresh'
  BY <1>2, <1>3 DEF IInv, Fresh
<1>5. PostedOnce'
  BY <1>3 DEF IInv, PostedOnce
<1> QED
  BY <1>1, <1>4, <1>5 DEF IInv

LEMMA BeginReadingStep ==
  ASSUME IInv, NEW d \in Docs, NEW k \in Tries, BeginReading(d, k)
  PROVE  IInv'
<1> DEFINE c == call[d][k]
<1>1. c \in Call /\ status[d] \in Statuses
  BY DEF IInv, Shape
<1>2. CASE Processable(status[d])
  <2> DEFINE new == [pc |-> "reading", saw |-> status[d], awaited |-> c.awaited]
  <2>1. new \in Call
    BY <1>1 DEF Call
  <2>2. call' = [call EXCEPT ![d][k] = new]
    BY <1>2 DEF BeginReading
  <2>3. call' \in [Docs -> [Tries -> Call]]
    BY <2>1, <2>2 DEF IInv, Shape
  <2>4. \A e \in Docs, j \in Tries : call'[e][j] = IF e = d /\ j = k THEN new ELSE call[e][j]
    BY <2>2 DEF IInv, Shape
  <2>5. UNCHANGED <<status, posted, review, crossed>>
    BY DEF BeginReading, server
  <2>6. Shape' /\ PostedOnce'
    BY <2>3, <2>5 DEF IInv, Shape, PostedOnce
  <2>7. Fresh'
    BY <1>2, <2>4, <2>5 DEF IInv, Fresh
  <2> QED
    BY <2>6, <2>7 DEF IInv
<1>3. CASE ~Processable(status[d])
  <2>1. Answer(c, "refused", "none") \in Call /\ Answer(c, "refused", "none").pc # "reading"
    BY <1>1, AnswerType DEF Statuses
  <2>2. call' = [call EXCEPT ![d][k] = Answer(c, "refused", "none")]
    BY <1>3 DEF BeginReading
  <2>3. NoneBegins(call')
    BY <2>1, <2>2, PutCall DEF IInv
  <2> QED
    BY <2>3, StillFresh DEF BeginReading, server
<1> QED
  BY <1>2, <1>3

LEMMA EndReadingStep ==
  ASSUME IInv, NEW d \in Docs, NEW k \in Tries, NEW new \in {"failed", "needs_info", "drafted"},
         EndReading(d, k, new)
  PROVE  IInv'
<1> DEFINE c == Answer(call[d][k], "answered", new)
           alone == Reading(d) = {k} /\ Reviewing(d) = {}
<1>1. call[d][k] \in Call /\ new \in Statuses
  BY DEF IInv, Shape, Statuses
<1>2. c \in Call /\ c.pc # "reading"
  BY <1>1, AnswerType
<1>3. call' = [call EXCEPT ![d][k] = c] /\ UNCHANGED <<posted, review>>
  BY DEF EndReading
<1> HIDE DEF c
<1>4. NoneBegins(call') /\ \A e \in Docs, j \in Tries : call'[e][j] = IF e = d /\ j = k THEN c ELSE call[e][j]
  BY <1>2, <1>3, PutCall DEF IInv, Shape
<1>5. status' \in [Docs -> Statuses] /\ \A e \in Docs : e # d => status'[e] = status[e]
  BY <1>1 DEF EndReading, Writes, IInv, Shape
<1>6. crossed' = IF alone THEN crossed ELSE crossed \cup {d}
  BY DEF EndReading, Writes
<1>7. Shape'
  BY <1>3, <1>4, <1>5, <1>6 DEF IInv, Shape, NoneBegins
<1>8. \A e \in Docs \ crossed' : e \notin crossed /\ (e = d => alone)
  BY <1>6
<1>9. Fresh'
  <2> SUFFICES ASSUME NEW e \in Docs \ crossed'
               PROVE  /\ \A j \in Tries : call'[e][j].pc = "reading"
                           => call'[e][j].saw = status'[e] /\ Processable(status'[e])
                      /\ \A r \in Reviewers : review'[r].on = e
                           => review'[r].saw = status'[e] /\ May(review'[r].op, status'[e])
    BY DEF Fresh
  <2>1. CASE e = d
    <3>1. \A j \in Tries : call[d][j].pc = "reading" => j = k
      BY <1>8, <2>1 DEF Reading
    <3>2. \A r \in Reviewers : review[r].on # d
      BY <1>8, <2>1 DEF Reviewing
    <3> QED
      BY <1>2, <1>3, <1>4, <2>1, <3>1, <3>2
  <2>2. CASE e # d
    BY <1>3, <1>4, <1>5, <1>8, <2>2 DEF IInv, Fresh
  <2> QED
    BY <2>1, <2>2
<1>10. PostedOnce'
  <2> SUFFICES ASSUME NEW e \in Docs \ crossed'
               PROVE  posted'[e] = IF status'[e] = "posted" THEN 1 ELSE 0
    BY DEF PostedOnce
  <2>1. CASE e = d
    <3>1. Processable(status[d])
      BY <1>8, <2>1 DEF IInv, Fresh, EndReading
    <3>2. posted[d] = 0
      BY <1>8, <2>1, <3>1 DEF IInv, PostedOnce, Processable
    <3>3. status'[d] # "posted"
      BY <3>1 DEF EndReading, Writes, IInv, Shape, Processable
    <3> QED
      BY <1>3, <2>1, <3>2, <3>3
  <2>2. CASE e # d
    BY <1>3, <1>5, <1>8, <2>2 DEF IInv, PostedOnce
  <2> QED
    BY <2>1, <2>2
<1> QED
  BY <1>7, <1>9, <1>10 DEF IInv

LEMMA BeginReviewStep ==
  ASSUME IInv, NEW r \in Reviewers, NEW op \in {"approve", "reject", "redraft"}, NEW d \in Docs,
         BeginReview(r, op, d)
  PROVE  IInv'
<1> DEFINE new == [op |-> op, on |-> d, saw |-> status[d]]
<1>1. new \in Review
  BY DEF Review, IInv, Shape
<1>2. review' = [review EXCEPT ![r] = new] /\ May(op, status[d]) /\ UNCHANGED <<status, posted, call, crossed>>
  BY DEF BeginReview, server
<1>3. review' \in [Reviewers -> Review] /\ \A q \in Reviewers : review'[q] = IF q = r THEN new ELSE review[q]
  BY <1>1, <1>2 DEF IInv, Shape
<1>4. Shape' /\ PostedOnce'
  BY <1>2, <1>3 DEF IInv, Shape, PostedOnce
<1>5. Fresh'
  BY <1>2, <1>3 DEF IInv, Fresh
<1> QED
  BY <1>4, <1>5 DEF IInv

LEMMA EndReviewStep ==
  ASSUME IInv, NEW r \in Reviewers, NEW new \in Statuses, EndReview(r, new)
  PROVE  IInv'
<1> DEFINE d == review[r].on
           op == review[r].op
           alone == Reading(d) = {} /\ Reviewing(d) = {r}
<1>1. review' = [review EXCEPT ![r] = NoReview] /\ UNCHANGED call
  BY DEF EndReview
<1>2. review' \in [Reviewers -> Review] /\ \A q \in Reviewers : review'[q] = IF q = r THEN NoReview ELSE review[q]
  BY <1>1, NoReviewType DEF IInv, Shape
<1>3. status' \in [Docs -> Statuses] /\ \A e \in Docs : e # d => status'[e] = status[e]
  BY DEF EndReview, Writes, IInv, Shape
<1>4. crossed' = IF alone THEN crossed ELSE crossed \cup {d}
  BY DEF EndReview, Writes
<1>5. posted' = IF op = "approve" THEN [posted EXCEPT ![d] = @ + 1] ELSE posted
  BY DEF EndReview
<1>6. d \in Docs
  BY DEF EndReview, IInv, Shape
<1>7. posted' \in [Docs -> Nat] /\ \A e \in Docs : e # d => posted'[e] = posted[e]
  <2>1. CASE op = "approve"
    <3>1. posted \in [Docs -> Nat] /\ posted' = [posted EXCEPT ![d] = posted[d] + 1]
      BY <1>5, <2>1 DEF IInv, Shape
    <3>2. \A e \in Docs : posted[e] + 1 \in Nat
      BY <3>1
    <3> HIDE DEF d
    <3> QED
      BY <1>6, <3>1, <3>2
  <2>2. CASE op # "approve"
    BY <1>5, <2>2 DEF IInv, Shape
  <2> QED
    BY <2>1, <2>2
<1>9. \A e \in Docs \ crossed' : e \notin crossed /\ (e = d => alone)
  BY <1>4
<1>10. Fresh'
  <2> SUFFICES ASSUME NEW e \in Docs \ crossed'
               PROVE  /\ \A j \in Tries : call'[e][j].pc = "reading"
                           => call'[e][j].saw = status'[e] /\ Processable(status'[e])
                      /\ \A q \in Reviewers : review'[q].on = e
                           => review'[q].saw = status'[e] /\ May(review'[q].op, status'[e])
    BY DEF Fresh
  <2>1. CASE e = d
    <3>1. \A j \in Tries : call[d][j].pc # "reading"
      BY <1>9, <2>1 DEF Reading
    <3>2. \A q \in Reviewers : review[q].on = d => q = r
      BY <1>9, <2>1 DEF Reviewing
    <3> QED
      BY <1>1, <1>2, <2>1, <3>1, <3>2, NoReviewType
  <2>2. CASE e # d
    BY <1>1, <1>2, <1>3, <1>9, <2>2, NoReviewType DEF IInv, Fresh
  <2> QED
    BY <2>1, <2>2
<1>11. PostedOnce'
  <2> SUFFICES ASSUME NEW e \in Docs \ crossed'
               PROVE  posted'[e] = IF status'[e] = "posted" THEN 1 ELSE 0
    BY DEF PostedOnce
  <2>1. CASE e = d
    <3>1. e \notin crossed /\ review[r].saw = status[d] /\ May(op, status[d])
      BY <1>9, <2>1 DEF IInv, Fresh
    <3>2. posted[d] = 0
      BY <3>1, <2>1 DEF IInv, PostedOnce, May
    <3>3. status'[d] = new
      BY <2>1, <3>1 DEF EndReview, Writes, IInv, Shape
    <3>4. new \in Outcomes(op)
      BY DEF EndReview
    <3>5. CASE op = "approve"
      BY <1>5, <2>1, <3>2, <3>3, <3>4, <3>5 DEF Outcomes, IInv, Shape
    <3>6. CASE op = "reject"
      BY <1>5, <2>1, <3>2, <3>3, <3>4, <3>6 DEF Outcomes
    <3>7. CASE op = "redraft"
      BY <1>5, <2>1, <3>2, <3>3, <3>4, <3>7 DEF Outcomes
    <3> QED
      BY <3>1, <3>5, <3>6, <3>7 DEF May
  <2>2. CASE e # d
    BY <1>3, <1>7, <1>9, <2>2 DEF IInv, PostedOnce
  <2> QED
    BY <2>1, <2>2
<1>12. Shape'
  <2>1. crossed' \subseteq Docs
    BY <1>4, <1>6 DEF IInv, Shape
  <2> QED
    BY <1>1, <1>2, <1>3, <1>7, <2>1 DEF IInv, Shape
<1> QED
  BY <1>10, <1>11, <1>12 DEF IInv

LEMMA FaultStep ==
  ASSUME IInv, NEW d \in Docs,
         UploadFails(d) \/ \E k \in Tries : AnswerLost(d, k) \/ ReadingFails(d, k)
  PROVE  IInv'
<1>1. CASE UploadFails(d)
  <2>1. CASE UNCHANGED status
    <3>1. NoneBegins(call')
      BY <1>1 DEF UploadFails, IInv, Shape, NoneBegins
    <3> QED
      BY <1>1, <2>1, <3>1, StillFresh DEF UploadFails
  <2>2. CASE status[d] = "none" /\ status' = [status EXCEPT ![d] = "received"]
    BY <1>1, <2>2, Arrives DEF UploadFails
  <2> QED
    BY <1>1, <2>1, <2>2 DEF UploadFails
<1>2. CASE \E k \in Tries : AnswerLost(d, k)
  <2>1. PICK k \in Tries : AnswerLost(d, k)
    BY <1>2
  <2> DEFINE c == call[d][k]
             left == IF c.pc \in {"sent", "reading"} THEN [pc |-> c.pc, saw |-> c.saw, awaited |-> FALSE] ELSE NoCall
             calls == [call EXCEPT ![d][k] = left]
  <2>2. c \in Call /\ left \in Call /\ (left.pc = "reading" => c.pc = "reading" /\ left.saw = c.saw)
    BY NoCallType DEF IInv, Shape, Call
  <2>3. calls \in [Docs -> [Tries -> Call]]
    BY <2>2 DEF IInv, Shape
  <2>4. \A e \in Docs, j \in Tries : calls[e][j] = IF e = d /\ j = k THEN left ELSE call[e][j]
    BY DEF IInv, Shape
  <2>5. NoneBegins(calls)
    BY <2>2, <2>3, <2>4 DEF NoneBegins
  <2>6. Pump([phase EXCEPT ![d] = "error"], queue, Freed(inFlight), calls)
    BY <2>1 DEF AnswerLost
  <2>7. NoneBegins(call')
    BY <2>5, <2>6, PumpBeginsNone DEF IInv
  <2> QED
    BY <2>1, <2>7, StillFresh DEF AnswerLost, server
<1>3. CASE \E k \in Tries : ReadingFails(d, k)
  <2>1. PICK k \in Tries : ReadingFails(d, k)
    BY <1>3
  <2>2. Answer(call[d][k], "refused", "none") \in Call /\ Answer(call[d][k], "refused", "none").pc # "reading"
    BY AnswerType DEF IInv, Shape, Statuses
  <2>3. call' = [call EXCEPT ![d][k] = Answer(call[d][k], "refused", "none")]
    BY <2>1 DEF ReadingFails
  <2>4. NoneBegins(call')
    BY <2>2, <2>3, PutCall DEF IInv
  <2> QED
    BY <2>1, <2>4, StillFresh DEF ReadingFails, server
<1> QED
  BY <1>1, <1>2, <1>3

LEMMA LeaveStep == ASSUME IInv, Leave PROVE IInv'
<1> DEFINE left(d, k) == IF call[d][k].pc \in {"sent", "reading"}
                         THEN [pc |-> call[d][k].pc, saw |-> call[d][k].saw, awaited |-> FALSE] ELSE NoCall
<1>1. call' = [d \in Docs |-> [k \in Tries |-> left(d, k)]]
  BY DEF Leave
<1>2. \A d \in Docs, k \in Tries :
        left(d, k) \in Call /\ (left(d, k).pc = "reading" => call[d][k].pc = "reading" /\ left(d, k).saw = call[d][k].saw)
  BY NoCallType DEF IInv, Shape, Call
<1> HIDE DEF left
<1>3. NoneBegins(call')
  BY <1>1, <1>2 DEF NoneBegins
<1> QED
  BY <1>3, StillFresh DEF Leave, server

LEMMA ServerStep == ASSUME IInv, NEW d \in Docs, Server(d) PROVE IInv'
<1>1. CASE Save(d)
  BY <1>1, Arrives DEF Save
<1>2. ASSUME NEW k \in Tries, BeginReading(d, k) PROVE IInv'
  BY <1>2, BeginReadingStep
<1>3. ASSUME NEW k \in Tries, NEW new \in {"failed", "needs_info", "drafted"}, EndReading(d, k, new) PROVE IInv'
  BY <1>3, EndReadingStep
<1> QED
  BY <1>1, <1>2, <1>3 DEF Server

LEMMA Inductive == IInv /\ [Next]_vars => IInv'
<1> SUFFICES ASSUME IInv, [Next]_vars PROVE IInv'
  OBVIOUS
<1>1. CASE UNCHANGED vars
  BY <1>1 DEF vars, IInv, Shape, Fresh, PostedOnce
<1>2. ASSUME NEW d \in Docs, AddFile(d) \/ Uploaded(d) \/ Retry(d) \/ \E k \in Tries : Heard(d, k) PROVE IInv'
  BY <1>2, PageStep
<1>3. ASSUME NEW d \in Docs, Server(d) PROVE IInv'
  BY <1>3, ServerStep
<1>4. ASSUME NEW d \in Docs, UploadFails(d) \/ \E k \in Tries : AnswerLost(d, k) \/ ReadingFails(d, k) PROVE IInv'
  BY <1>4, FaultStep
<1>5. ASSUME NEW d \in Docs, NEW r \in Reviewers, NEW op \in {"approve", "reject", "redraft"}, BeginReview(r, op, d)
      PROVE  IInv'
  BY <1>5, BeginReviewStep
<1>6. ASSUME NEW r \in Reviewers, NEW new \in Statuses, EndReview(r, new) PROVE IInv'
  BY <1>6, EndReviewStep
<1>7. CASE Leave
  BY <1>7, LeaveStep
<1> QED
  BY <1>1, <1>2, <1>3, <1>4, <1>5, <1>6, <1>7 DEF Next

\* A document is posted once when it is posted and not otherwise, unless two
\* requests had read it at the same time (approve_item, process_item).
THEOREM DocumentPostedOnce == Spec => []PostedOnce
<1>1. IInv => PostedOnce
  BY DEF IInv
<1> QED
  BY <1>1, Start, Inductive, PTL DEF Spec

-----------------------------------------------------------------------------
(* The numbers of documents: the powers of ten *)

\* The functions that are the powers of ten up to n.
Powers(n) ==
  {h \in [0 .. n -> Nat] : h[0] = 1 /\ \A i \in 1 .. n : h[i] = 10 * h[i - 1]}

LEMMA PowersAre ==
  ASSUME NEW n \in Nat
  PROVE  Powers(n) # {}
<1> DEFINE bad == {k \in Nat : Powers(k) = {}}
<1> SUFFICES ASSUME bad # {} PROVE FALSE
  OBVIOUS
<1>1. PICK k \in bad : \A y \in bad : k <= y
  BY LeastOf
<1>2. CASE k = 0
  <2>1. [i \in 0 .. 0 |-> 1] \in Powers(0)
    BY DEF Powers
  <2> QED
    BY <1>1, <1>2, <2>1
<1>3. CASE k # 0
  <2>1. k - 1 \in Nat /\ k - 1 \notin bad
    BY <1>1, <1>3
  <2>2. PICK h : h \in Powers(k - 1)
    BY <2>1
  <2> DEFINE g == [i \in 0 .. k |-> IF i = k THEN 10 * h[k - 1] ELSE h[i]]
  <2>3. /\ h \in [0 .. (k - 1) -> Nat]
        /\ h[0] = 1
        /\ \A i \in 1 .. (k - 1) : h[i] = 10 * h[i - 1]
    BY <2>2 DEF Powers
  <2>4. g \in [0 .. k -> Nat]
    BY <1>1, <1>3, <2>3
  <2>5. g[0] = 1 /\ \A i \in 1 .. k : g[i] = 10 * g[i - 1]
    BY <1>1, <1>3, <2>3
  <2> HIDE DEF g
  <2>6. g \in Powers(k)
    BY <2>4, <2>5 DEF Powers
  <2> QED
    BY <1>1, <2>6
<1> QED
  BY <1>2, <1>3

LEMMA PowersAgree ==
  ASSUME NEW m \in Nat, NEW n \in Nat, NEW h \in Powers(m), NEW g \in Powers(n), NEW i \in 0 .. m, i <= n
  PROVE  h[i] = g[i]
<1> DEFINE bad == {k \in Nat : k <= m /\ k <= n /\ h[k] # g[k]}
<1> SUFFICES ASSUME bad # {} PROVE FALSE
  OBVIOUS
<1>1. PICK k \in bad : \A y \in bad : k <= y
  BY LeastOf
<1>2. /\ h[0] = 1 /\ g[0] = 1
      /\ \A j \in 1 .. m : h[j] = 10 * h[j - 1]
      /\ \A j \in 1 .. n : g[j] = 10 * g[j - 1]
  BY DEF Powers
<1>3. k # 0
  BY <1>1, <1>2
<1>4. k - 1 \in Nat /\ k - 1 \notin bad /\ k \in 1 .. m /\ k \in 1 .. n
  BY <1>1, <1>3
<1>5. h[k - 1] = g[k - 1]
  BY <1>4
<1> QED
  BY <1>1, <1>2, <1>4, <1>5

\* Power is what its definition says.
LEMMA PowerIs ==
  /\ Power \in [Nat -> Nat]
  /\ Power[0] = 1
  /\ \A k \in Nat : Power[k + 1] = 10 * Power[k]
<1> DEFINE g == [n \in Nat |-> (CHOOSE h : h \in Powers(n))[n]]
<1>1. ASSUME NEW n \in Nat
      PROVE  \E h \in Powers(n) : g[n] = h[n]
  BY PowersAre
<1>0. g = [n \in Nat |-> g[n]]
  OBVIOUS
<1> HIDE DEF g
<1>2. g[0] = 1
  BY <1>1 DEF Powers
<1>3. ASSUME NEW n \in Nat \ {0}
      PROVE  g[n] = 10 * g[n - 1] /\ g[n] \in Nat
  <2>1. PICK h \in Powers(n) : g[n] = h[n]
    BY <1>1
  <2>2. PICK k \in Powers(n - 1) : g[n - 1] = k[n - 1]
    BY <1>1
  <2>3. h[n - 1] = k[n - 1]
    BY PowersAgree
  <2> QED
    BY <2>1, <2>2, <2>3 DEF Powers
<1>4. g = [k \in Nat |-> IF k = 0 THEN 1 ELSE 10 * g[k - 1]]
  <2>1. \A k \in Nat : g[k] = IF k = 0 THEN 1 ELSE 10 * g[k - 1]
    BY <1>2, <1>3
  <2>2. g = [k \in Nat |-> g[k]]
    BY <1>0
  <2> QED
    BY <2>1, <2>2
<1>5. Power = [k \in Nat |-> IF k = 0 THEN 1 ELSE 10 * Power[k - 1]]
  BY <1>4 DEF Power
<1> DEFINE bad == {k \in Nat : Power[k] \notin Nat}
<1>6. bad = {}
  <2> SUFFICES ASSUME bad # {} PROVE FALSE
    OBVIOUS
  <2>1. PICK k \in bad : \A y \in bad : k <= y
    BY LeastOf
  <2>2. k # 0
    BY <1>5, <2>1
  <2>3. k - 1 \in Nat /\ k - 1 \notin bad
    BY <2>1, <2>2
  <2>4. Power[k] = 10 * Power[k - 1]
    BY <1>5, <2>2
  <2> QED
    BY <2>1, <2>3, <2>4
<1>7. \A k \in Nat : Power[k] \in Nat
  BY <1>6
<1>8. Power \in [Nat -> Nat]
  BY <1>5, <1>7
<1>9. ASSUME NEW k \in Nat
      PROVE  Power[k + 1] = 10 * Power[k]
  BY <1>5
<1> QED
  BY <1>5, <1>8, <1>9

LEMMA PowerPositive ==
  ASSUME NEW k \in Nat
  PROVE  Power[k] \in Nat \ {0}
<1> DEFINE bad == {n \in Nat : Power[n] = 0}
<1> SUFFICES ASSUME bad # {} PROVE FALSE
  BY PowerIs
<1>1. PICK n \in bad : \A y \in bad : n <= y
  BY LeastOf
<1>2. n # 0
  BY <1>1, PowerIs
<1>3. n - 1 \in Nat /\ n - 1 \notin bad
  BY <1>1, <1>2
<1>4. Power[(n - 1) + 1] = 10 * Power[n - 1] /\ (n - 1) + 1 = n /\ Power[n - 1] \in Nat
  BY <1>1, <1>3, PowerIs
<1> QED
  BY <1>1, <1>3, <1>4

LEMMA PowerGrows ==
  ASSUME NEW j \in Nat, NEW k \in Nat, j <= k
  PROVE  Power[j] <= Power[k]
<1> DEFINE bad == {n \in Nat : j <= n /\ ~ (Power[j] <= Power[n])}
<1> SUFFICES ASSUME bad # {} PROVE FALSE
  OBVIOUS
<1>1. PICK n \in bad : \A y \in bad : n <= y
  BY LeastOf
<1>2. n # j
  BY <1>1, PowerIs
<1>3. n - 1 \in Nat /\ j <= n - 1 /\ n - 1 \notin bad
  BY <1>1, <1>2
<1>4. Power[(n - 1) + 1] = 10 * Power[n - 1] /\ (n - 1) + 1 = n /\ Power[n - 1] \in Nat /\ Power[j] \in Nat
  BY <1>1, <1>3, PowerIs
<1> QED
  BY <1>1, <1>3, <1>4

-----------------------------------------------------------------------------
(* Digits. *)

LEMMA Div ==
  ASSUME NEW a \in Nat, NEW p \in Nat \ {0}
  PROVE  /\ a \div p \in Nat
         /\ p * (a \div p) <= a
         /\ a < p * ((a \div p) + 1)
  OBVIOUS

LEMMA DivUnique ==
  ASSUME NEW a \in Nat, NEW p \in Nat \ {0}, NEW q \in Nat, p * q <= a, a < p * (q + 1)
  PROVE  a \div p = q
  BY Div

LEMMA DivGrows ==
  ASSUME NEW a \in Nat, NEW b \in Nat, NEW p \in Nat \ {0}, a <= b
  PROVE  a \div p <= b \div p
<1> DEFINE x == a \div p
           y == b \div p
<1>1. x \in Nat /\ y \in Nat /\ p * x <= a /\ b < p * (y + 1)
  BY Div
<1> HIDE DEF x, y
<1>2. p * x < p * (y + 1)
  BY <1>1
<1>3. x < y + 1
  BY <1>1, <1>2
<1> QED
  BY <1>1, <1>3 DEF x, y

LEMMA Mod ==
  ASSUME NEW a \in Nat
  PROVE  a % 10 = a - 10 * (a \div 10) /\ a % 10 \in 0 .. 9
  OBVIOUS

\* Cutting off one digit more.
LEMMA DivTwice ==
  ASSUME NEW a \in Nat, NEW p \in Nat \ {0}
  PROVE  a \div (10 * p) = (a \div p) \div 10
<1> DEFINE x == a \div p
           y == x \div 10
<1>1. x \in Nat /\ p * x <= a /\ a < p * (x + 1)
  BY Div
<1>2. y \in Nat /\ 10 * y <= x /\ x + 1 <= 10 * (y + 1)
  BY <1>1
<1> HIDE DEF x, y
<1>3. p * (10 * y) <= p * x /\ p * (x + 1) <= p * (10 * (y + 1))
  BY <1>1, <1>2
<1>4. (10 * p) * y <= a /\ a < (10 * p) * (y + 1) /\ 10 * p \in Nat \ {0}
  BY <1>1, <1>2, <1>3
<1> QED
  BY <1>2, <1>4, DivUnique DEF x, y

\* The number whose digits are the first i of the Width digits of n.
Leading(n, i) == n \div Power[Width - i]

LEMMA LeadingIs ==
  ASSUME NEW n \in Nat, n < Power[Width]
  PROVE  /\ \A i \in 0 .. Width : Leading(n, i) \in Nat
         /\ Leading(n, 0) = 0
         /\ Leading(n, Width) = n
         /\ \A i \in 1 .. Width : Leading(n, i - 1) = Leading(n, i) \div 10
<1>0. Width \in Nat \ {0}
  BY DocNumbersAssumption
<1>1. ASSUME NEW i \in 0 .. Width
      PROVE  Leading(n, i) \in Nat
  <2>1. Width - i \in Nat
    BY <1>0
  <2> QED
    BY <2>1, PowerPositive, Div DEF Leading
<1>2. Leading(n, 0) = 0
  <2>1. Width - 0 = Width /\ Power[Width] \in Nat \ {0}
    BY <1>0, PowerPositive
  <2>2. n \div Power[Width] = 0
    BY <2>1, DivUnique
  <2> QED
    BY <2>1, <2>2 DEF Leading
<1>3. Leading(n, Width) = n
  <2>1. Width - Width = 0 /\ Power[0] = 1
    BY <1>0, PowerIs
  <2>2. n \div 1 = n
    OBVIOUS
  <2> QED
    BY <2>1, <2>2 DEF Leading
<1>4. ASSUME NEW i \in 1 .. Width
      PROVE  Leading(n, i - 1) = Leading(n, i) \div 10
  <2>1. Width - i \in Nat /\ Width - (i - 1) = (Width - i) + 1
    BY <1>0
  <2>2. Power[Width - (i - 1)] = 10 * Power[Width - i]
    BY <2>1, PowerIs
  <2> QED
    BY <2>1, <2>2, PowerPositive, DivTwice DEF Leading
<1> QED
  BY <1>1, <1>2, <1>3, <1>4

\* A number below the power of ten has Width characters.
LEMMA DigitsAre ==
  ASSUME NEW n \in Nat, n < Power[Width]
  PROVE  Digits(n, Width) = [i \in 1 .. Width |-> Leading(n, i) % 10]
<1>0. Width \in Nat \ {0}
  BY DocNumbersAssumption
<1> DEFINE fits(k) == n < Power[k] /\ (k = Width \/ n >= Power[k - 1])
<1>1. Width \in Width .. Width + n /\ fits(Width)
  BY <1>0
<1>2. ASSUME NEW k \in Width .. Width + n, fits(k)
      PROVE  k = Width
  <2> SUFFICES ASSUME k # Width PROVE FALSE
    OBVIOUS
  <2>1. k - 1 \in Nat /\ Width <= k - 1
    BY <1>0
  <2>2. Power[Width] <= Power[k - 1] /\ Power[Width] \in Nat /\ Power[k - 1] \in Nat
    BY <1>0, <2>1, PowerGrows, PowerIs
  <2> QED
    BY <1>2, <2>2
<1> DEFINE len == CHOOSE k \in Width .. Width + n : fits(k)
<1>3. len = Width
  BY <1>1, <1>2
<1>4. Digits(n, Width) = [i \in 1 .. len |-> (n \div Power[len - i]) % 10]
  BY DEF Digits
<1> HIDE DEF len
<1> QED
  BY <1>3, <1>4 DEF Leading

\* The text of a document without a suffix.
LEMMA TextIs ==
  ASSUME NEW n \in Nat, n < Power[Width]
  PROVE  Text(Doc(n, 0)) = [i \in 1 .. Width |-> Leading(n, i) % 10]
<1>1. Doc(n, 0).num = n /\ Doc(n, 0).lot = 0
  BY DEF Doc
<1> DEFINE s == [i \in 1 .. Width |-> Leading(n, i) % 10]
<1>2. s \in Seq(Nat)
  <2>1. \A i \in 1 .. Width : Leading(n, i) % 10 \in Nat
    BY LeadingIs, Mod
  <2> QED
    BY <2>1, DocNumbersAssumption
<1> HIDE DEF s
<1>3. s \o << >> = s
  BY <1>2
<1>4. Text(Doc(n, 0)) = Digits(n, Width) \o << >>
  BY <1>1 DEF Text
<1> QED
  BY <1>3, <1>4, DigitsAre DEF s

\* Texts of the same length come one before the other at the first character in
\* which they differ.
LEMMA BeforeIs ==
  ASSUME NEW w \in Nat, NEW s \in [1 .. w -> Nat], NEW t \in [1 .. w -> Nat]
  PROVE  Before(s, t) <=>
           \E i \in 1 .. w : s[i] < t[i] /\ \A j \in 1 .. i - 1 : s[j] = t[j]
<1>1. /\ s \in Seq(Nat) /\ t \in Seq(Nat)
      /\ Len(s) = w /\ Len(t) = w
  OBVIOUS
<1>2. ASSUME NEW i \in 1 .. w
      PROVE  SubSeq(s, 1, i - 1) = SubSeq(t, 1, i - 1) <=> \A j \in 1 .. i - 1 : s[j] = t[j]
  <2>1. SubSeq(s, 1, i - 1) = [j \in 1 .. i - 1 |-> s[j]] /\ SubSeq(t, 1, i - 1) = [j \in 1 .. i - 1 |-> t[j]]
    BY <1>1
  <2> QED
    BY <2>1
<1>3. (1 .. Len(s)) \cap (1 .. Len(t)) = 1 .. w
  BY <1>1
<1>4. Before(s, t) <=> \E i \in 1 .. w : s[i] < t[i] /\ SubSeq(s, 1, i - 1) = SubSeq(t, 1, i - 1)
  <2>1. ~ (Len(s) < Len(t))
    BY <1>1
  <2> QED
    BY <1>3, <2>1 DEF Before
<1> QED
  BY <1>2, <1>4

\* Below the power of ten the texts are in the order of the numbers.
LEMMA TextsInOrder ==
  ASSUME NEW n \in Nat, NEW m \in Nat, m < Power[Width], n < Power[Width]
  PROVE  Before(Text(Doc(n, 0)), Text(Doc(m, 0))) <=> n < m
<1> DEFINE s == Text(Doc(n, 0))
           t == Text(Doc(m, 0))
<1>0. Width \in Nat \ {0}
  BY DocNumbersAssumption
<1>1. /\ s = [i \in 1 .. Width |-> Leading(n, i) % 10]
      /\ t = [i \in 1 .. Width |-> Leading(m, i) % 10]
  BY TextIs
<1>2. /\ s \in [1 .. Width -> Nat]
      /\ t \in [1 .. Width -> Nat]
  <2>1. \A i \in 1 .. Width : Leading(n, i) % 10 \in Nat /\ Leading(m, i) % 10 \in Nat
    BY LeadingIs, Mod
  <2> QED
    BY <1>1, <2>1
<1> HIDE DEF s, t
<1>3. /\ \A i \in 0 .. Width : Leading(n, i) \in Nat /\ Leading(m, i) \in Nat
      /\ Leading(n, 0) = Leading(m, 0)
      /\ Leading(n, Width) = n /\ Leading(m, Width) = m
      /\ \A i \in 1 .. Width : /\ Leading(n, i - 1) = Leading(n, i) \div 10
                               /\ Leading(m, i - 1) = Leading(m, i) \div 10
  BY LeadingIs
<1>4. \A i \in 1 .. Width : s[i] = Leading(n, i) % 10 /\ t[i] = Leading(m, i) % 10
  BY <1>1
<1>5. CASE n = m
  <2>1. s = t
    BY <1>1, <1>5
  <2>2. ~ Before(s, t)
    BY <1>0, <1>2, <2>1, BeforeIs
  <2> QED
    BY <1>5, <2>2 DEF s, t
<1>6. CASE n # m
  <2> DEFINE apart == {i \in 0 .. Width : Leading(n, i) # Leading(m, i)}
  <2>1. PICK i \in apart : \A j \in apart : i <= j
    <3>1. Width \in apart /\ apart \in SUBSET Nat
      BY <1>0, <1>3, <1>6
    <3> QED
      BY <3>1, LeastOf
  <2>2. i \in 1 .. Width /\ \A j \in 0 .. i - 1 : Leading(n, j) = Leading(m, j)
    <3>1. i # 0
      BY <1>3, <2>1
    <3>2. i \in 1 .. Width
      BY <1>0, <3>1
    <3>3. ASSUME NEW j \in 0 .. i - 1
          PROVE  Leading(n, j) = Leading(m, j)
      <4>1. j \in 0 .. Width /\ ~ (i <= j)
        BY <1>0, <3>2
      <4> QED
        BY <2>1, <4>1
    <3> QED
      BY <3>2, <3>3
  <2>3. \A j \in 1 .. i - 1 : s[j] = t[j]
    <3>1. \A j \in 1 .. i - 1 : j \in 1 .. Width /\ j \in 0 .. i - 1
      BY <1>0, <2>2
    <3> QED
      BY <1>4, <2>2, <3>1
  <2>4. s[i] < t[i] <=> Leading(n, i) < Leading(m, i)
    <3> DEFINE x == Leading(n, i)
               y == Leading(m, i)
    <3>1. x \in Nat /\ y \in Nat /\ x \div 10 = y \div 10
      BY <1>3, <2>2
    <3>2. s[i] = x % 10 /\ t[i] = y % 10
      BY <1>4, <2>2
    <3> HIDE DEF x, y
    <3> QED
      BY <3>1, <3>2, Mod DEF x, y
  <2>5. s[i] # t[i]
    <3> DEFINE x == Leading(n, i)
               y == Leading(m, i)
    <3>1. x \in Nat /\ y \in Nat /\ x \div 10 = y \div 10 /\ x # y
      BY <1>3, <2>1, <2>2
    <3>2. s[i] = x % 10 /\ t[i] = y % 10
      BY <1>4, <2>2
    <3> HIDE DEF x, y
    <3> QED
      BY <3>1, <3>2, Mod
  <2>6. Leading(n, i) < Leading(m, i) <=> n < m
    <3>1. Width - i \in Nat /\ Power[Width - i] \in Nat \ {0}
      BY <1>0, <2>2, PowerPositive
    <3>2. n <= m => Leading(n, i) <= Leading(m, i)
      BY <3>1, DivGrows DEF Leading
    <3>3. m <= n => Leading(m, i) <= Leading(n, i)
      BY <3>1, DivGrows DEF Leading
    <3>4. Leading(n, i) \in Nat /\ Leading(m, i) \in Nat /\ Leading(n, i) # Leading(m, i)
      BY <1>3, <2>1, <2>2
    <3> QED
      BY <1>6, <3>2, <3>3, <3>4
  <2>7. ASSUME NEW k \in 1 .. Width, s[k] < t[k] \/ t[k] < s[k], \A j \in 1 .. k - 1 : s[j] = t[j]
        PROVE  k = i
    BY <1>2, <2>2, <2>3, <2>5, <2>7
  <2>8. Before(s, t) <=> s[i] < t[i]
    <3>1. Before(s, t) <=> \E k \in 1 .. Width : s[k] < t[k] /\ \A j \in 1 .. k - 1 : s[j] = t[j]
      BY <1>0, <1>2, BeforeIs
    <3> QED
      BY <2>2, <2>3, <2>7, <3>1
  <2> QED
    BY <2>4, <2>6, <2>8 DEF s, t
<1> QED
  BY <1>5, <1>6 DEF s, t

\* Documents without a suffix whose numbers fit the padding.
Slips == {Doc(n, 0) : n \in 1 .. MaxDocs}

Padded == Lots = 1 /\ MaxDocs < Power[Width]

LEMMA SlipIs ==
  ASSUME Padded, NEW d \in Slips
  PROVE  /\ d.num \in 1 .. MaxDocs
         /\ d.num < Power[Width]
         /\ d.lot = 0
         /\ d = Doc(d.num, 0)
<1>1. PICK n \in 1 .. MaxDocs : d = Doc(n, 0)
  BY DEF Slips
<1>2. d.num = n /\ d.lot = 0
  BY <1>1 DEF Doc
<1>3. MaxDocs \in Nat /\ Power[Width] \in Nat
  BY DocNumbersAssumption, PowerIs
<1> QED
  BY <1>1, <1>2, <1>3 DEF Padded

\* The last text is that of the greatest number, and the next number is above
\* all there are.
LEMMA FollowingIs ==
  ASSUME Padded, NEW found \in SUBSET Slips
  PROVE  /\ Following(found) \in Nat \ {0}
         /\ \A d \in found : d.num < Following(found)
         /\ Following(found) = 1 \/ \E d \in found : Following(found) = d.num + 1
         /\ found # {} => Latest(found) \in found
<1>0. MaxDocs \in Nat
  BY DocNumbersAssumption
<1>1. CASE found = {}
  BY <1>1 DEF Following
<1>2. CASE found # {}
  <2>0. \A d \in found : /\ d.num \in 1 .. MaxDocs
                        /\ d.num < Power[Width]
                        /\ d.lot = 0
                        /\ d = Doc(d.num, 0)
    BY SlipIs
  <2>1. \A d, e \in found : Before(Text(e), Text(d)) <=> e.num < d.num
    <3> SUFFICES ASSUME NEW d \in found, NEW e \in found
                 PROVE  Before(Text(e), Text(d)) <=> e.num < d.num
      OBVIOUS
    <3>1. Before(Text(Doc(e.num, 0)), Text(Doc(d.num, 0))) <=> e.num < d.num
      BY <2>0, TextsInOrder
    <3> QED
      BY <2>0, <3>1
  <2>2. PICK d \in found : \A e \in found : e.num <= d.num
    <3> DEFINE room == {MaxDocs - e.num : e \in found}
    <3>1. room \in SUBSET Nat /\ room # {}
      BY <1>0, <1>2, <2>0
    <3>2. PICK x \in room : \A y \in room : x <= y
      BY <3>1, LeastOf
    <3>3. PICK d \in found : x = MaxDocs - d.num
      BY <3>2
    <3>4. ASSUME NEW e \in found
          PROVE  e.num <= d.num
      <4>1. x <= MaxDocs - e.num
        BY <3>2
      <4> QED
        BY <1>0, <2>0, <3>3, <4>1
    <3> QED
      BY <3>4
  <2>3. \A e \in found \ {d} : Before(Text(e), Text(d))
    <3> SUFFICES ASSUME NEW e \in found \ {d} PROVE e.num < d.num
      BY <2>1
    <3>1. e.num # d.num /\ e.num \in Nat /\ d.num \in Nat /\ e.num <= d.num
      BY <2>0, <2>2
    <3> QED
      BY <3>1
  <2>4. /\ Latest(found) \in found
        /\ \A e \in found \ {Latest(found)} : Before(Text(e), Text(Latest(found)))
    BY <2>3 DEF Latest
  <2>5. Latest(found) = d
    <3> SUFFICES ASSUME Latest(found) # d PROVE FALSE
      OBVIOUS
    <3>1. d.num < Latest(found).num
      BY <2>1, <2>4
    <3>2. Latest(found).num <= d.num /\ d.num \in Nat /\ Latest(found).num \in Nat
      BY <2>0, <2>2, <2>4
    <3> QED
      BY <3>1, <3>2
  <2>6. Following(found) = d.num + 1
    BY <1>2, <2>0, <2>5 DEF Following
  <2> QED
    BY <2>0, <2>2, <2>5, <2>6
<1> QED
  BY <1>1, <1>2

-----------------------------------------------------------------------------
(* The inductive invariant: no number is ever skipped, so that as many       *)
(* documents as there are bound the numbers they have.                       *)

Filed == docs \cup trash

\* Every number before this one is that of a document.
Reached(n) == \A k \in 1 .. n - 1 : Doc(k, 0) \in Filed

Worker ==
  [pc : {"idle", "locking", "inserting", "committing"}, sees : SUBSET Slips,
   held : SUBSET Slips, adds : SUBSET Slips, num : 0 .. MaxDocs]

WorkerOK(w) ==
  /\ worker[w].pc # "idle" => MaxDocs > 0
  /\ \A d \in worker[w].sees : d \in Filed /\ d.num < MaxDocs
  /\ worker[w].pc \in {"inserting", "committing"} => worker[w].num > 0 /\ Reached(worker[w].num)
  /\ worker[w].adds \subseteq {Doc(worker[w].num, 0)}
  /\ worker[w].pc # "committing" => worker[w].adds = {}

Numbered ==
  /\ docs \subseteq Slips
  /\ trash \subseteq Slips
  /\ worker \in [Workers -> Worker]
  /\ \A d \in Filed : Reached(d.num)
  /\ \A w \in Workers : WorkerOK(w)

\* There are as many documents as the greatest number says.
LEMMA NumbersCount ==
  ASSUME Padded, Numbered, NEW d \in docs
  PROVE  d.num <= Cardinality(Filed) /\ IsFiniteSet(Filed) /\ Cardinality(Filed) \in Nat
<1>0. MaxDocs \in Nat /\ Filed \subseteq Slips /\ d \in Slips
  BY DocNumbersAssumption DEF Numbered, Filed
<1>1. IsFiniteSet(Slips)
  <2> DEFINE f == [n \in 1 .. MaxDocs |-> Doc(n, 0)]
  <2>1. f \in Surjection(1 .. MaxDocs, Slips)
    BY DEF Surjection, Slips
  <2> QED
    BY <1>0, <2>1, FS_Interval, FS_Surjection
<1>2. IsFiniteSet(Filed) /\ Cardinality(Filed) \in Nat
  BY <1>0, <1>1, FS_Subset, FS_CardinalityType
<1>3. d.num \in Nat /\ d = Doc(d.num, 0) /\ d.num >= 1
  BY <1>0, SlipIs
<1> DEFINE n == d.num
           g == [k \in 1 .. n |-> Doc(k, 0)]
<1>4. \A k \in 1 .. n : Doc(k, 0) \in Filed
  BY <1>3 DEF Numbered, Reached, Filed
<1>5. g \in Injection(1 .. n, Filed)
  <2>1. \A i, j \in 1 .. n : Doc(i, 0) = Doc(j, 0) => i = j
    BY DEF Doc
  <2> QED
    BY <1>4, <2>1 DEF Injection, IsInjective
<1>6. Cardinality(1 .. n) <= Cardinality(Filed)
  BY <1>2, <1>5, FS_Injection
<1>7. Cardinality(1 .. n) = n
  BY <1>3, FS_Interval
<1> QED
  BY <1>2, <1>6, <1>7

\* What a worker knows of what is filed stays so while nothing leaves the files.
LEMMA OthersNumbered ==
  ASSUME Numbered, Filed \subseteq Filed', NEW w \in Workers, worker'[w] = worker[w]
  PROVE  WorkerOK(w)'
  BY DEF Numbered, WorkerOK, Reached

\* One worker moves on, and the files only grow by what it adds.
LEMMA WorkerMoves ==
  ASSUME Numbered, NEW w \in Workers, NEW u \in Worker,
         worker' = [worker EXCEPT ![w] = u],
         docs' \subseteq Slips, UNCHANGED trash, docs \subseteq docs',
         \A d \in docs' \ docs : Reached(d.num),
         WorkerOK(w)'
  PROVE  Numbered'
<1>1. Filed \subseteq Filed'
  BY DEF Filed
<1>2. worker' \in [Workers -> Worker] /\ \A v \in Workers \ {w} : worker'[v] = worker[v]
  BY DEF Numbered
<1>3. \A v \in Workers : WorkerOK(v)'
  BY <1>1, <1>2, OthersNumbered
<1>4. \A d \in Filed' : Reached(d.num)'
  <2>1. ASSUME NEW d \in Filed'
        PROVE  Reached(d.num)
    BY <2>1 DEF Filed, Numbered
  <2> QED
    BY <1>1, <2>1 DEF Reached
<1>5. trash' \subseteq Slips
  BY DEF Numbered
<1> QED
  BY <1>2, <1>3, <1>4, <1>5 DEF Numbered

LEMMA NoRequestType ==
  /\ NoRequest \in Worker
  /\ NoRequest.pc = "idle" /\ NoRequest.sees = {} /\ NoRequest.adds = {} /\ NoRequest.num = 0
  BY DocNumbersAssumption DEF NoRequest, Worker

LEMMA FindNumbered ==
  ASSUME Padded, Numbered, NEW w \in Workers, Find(w)
  PROVE  Numbered'
<1> DEFINE u == [NoRequest EXCEPT !.pc = "locking", !.sees = docs]
<1>0. MaxDocs \in Nat
  BY DocNumbersAssumption
<1>1. /\ u \in Worker
      /\ u.pc = "locking" /\ u.sees = docs /\ u.adds = {}
  BY NoRequestType DEF Worker, Numbered
<1>2. worker' = [worker EXCEPT ![w] = u] /\ UNCHANGED <<docs, trash>>
  BY DEF Find
<1>3. ASSUME NEW d \in docs
      PROVE  d.num < MaxDocs
  <2>1. Cardinality(Filed) < MaxDocs
    BY DEF Find, Filed
  <2>2. d.num \in Nat
    BY SlipIs DEF Numbered
  <2> QED
    BY <1>0, <2>1, <2>2, NumbersCount
<1>4. MaxDocs > 0
  <2>1. Cardinality(Filed) < MaxDocs
    BY DEF Find, Filed
  <2>2. CASE docs = {} /\ trash = {}
    <3>1. Cardinality(Filed) = 0
      BY <2>2, FS_EmptySet DEF Filed
    <3> QED
      BY <2>1, <3>1
  <2>3. CASE ~ (docs = {} /\ trash = {})
    <3>1. PICK d \in Slips : TRUE
      BY <2>3 DEF Numbered
    <3> QED
      BY <1>0, <3>1, SlipIs
  <2> QED
    BY <2>2, <2>3
<1> HIDE DEF u
<1>5. worker'[w] = u
  BY <1>2 DEF Numbered
<1>6. WorkerOK(w)'
  BY <1>1, <1>2, <1>3, <1>4, <1>5 DEF WorkerOK, Filed
<1> QED
  BY <1>1, <1>2, <1>6, WorkerMoves DEF Numbered

LEMMA LockNumbered ==
  ASSUME Padded, Numbered, NEW w \in Workers, Lock(w)
  PROVE  Numbered'
<1> DEFINE found == worker[w].sees \cap docs
           row == IF found = {} THEN {} ELSE {Latest(found)}
           n == Following(found)
           u == [worker[w] EXCEPT !.pc = "inserting", !.held = row, !.sees = {}, !.num = n]
<1>0. /\ MaxDocs \in Nat
      /\ worker[w] \in Worker
      /\ found \in SUBSET Slips
      /\ WorkerOK(w)
      /\ worker[w].pc = "locking"
  BY DocNumbersAssumption DEF Numbered, Lock
<1>1. row \in SUBSET Slips
  BY <1>0, FollowingIs
<1>2. \/ n = 1
      \/ \E d \in worker[w].sees : d \in docs /\ n = d.num + 1
  BY <1>0, FollowingIs
<1>3. worker' = [worker EXCEPT ![w] = u] /\ UNCHANGED <<docs, trash>>
  BY <1>0 DEF Lock, Numbered
<1> HIDE DEF row, n
<1>4. n \in 1 .. MaxDocs /\ Reached(n)
  <2>1. CASE n = 1
    BY <1>0, <2>1 DEF WorkerOK, Reached
  <2>2. CASE \E d \in worker[w].sees : d \in docs /\ n = d.num + 1
    <3>1. PICK d \in worker[w].sees : d \in docs /\ n = d.num + 1
      BY <2>2
    <3>2. d.num \in 1 .. MaxDocs /\ d.num < MaxDocs /\ d = Doc(d.num, 0)
      BY <1>0, <3>1, SlipIs DEF WorkerOK
    <3>3. Reached(d.num) /\ d \in Filed
      BY <3>1 DEF Numbered, Filed
    <3>4. ASSUME NEW k \in 1 .. d.num
          PROVE  Doc(k, 0) \in Filed
      BY <3>2, <3>3, <3>4 DEF Reached
    <3>5. n - 1 = d.num /\ n \in 1 .. MaxDocs
      BY <1>0, <3>1, <3>2
    <3> QED
      BY <3>4, <3>5 DEF Reached
  <2> QED
    BY <1>2, <2>1, <2>2
<1>5. /\ u \in Worker
      /\ u.pc = "inserting" /\ u.sees = {} /\ u.num = n
      /\ u.adds = worker[w].adds
  <2>1. PICK t \in Worker : t = worker[w]
    BY <1>0
  <2>2. [t EXCEPT !.pc = "inserting"] \in Worker
    BY DEF Worker
  <2>3. PICK v \in Worker : v = [t EXCEPT !.pc = "inserting"]
    BY <2>2
  <2>4. u = [v EXCEPT !.held = row, !.sees = {}, !.num = n]
    BY <2>1, <2>3
  <2>5. n \in 0 .. MaxDocs /\ {} \in SUBSET Slips
    BY <1>0, <1>4
  <2>6. v.pc = "inserting" /\ v.adds = t.adds
    BY <2>3 DEF Worker
  <2> HIDE DEF u
  <2>7. u \in Worker
    BY <1>1, <2>4, <2>5 DEF Worker
  <2>8. u.pc = v.pc /\ u.sees = {} /\ u.num = n /\ u.adds = v.adds
    BY <2>4 DEF Worker
  <2> QED
    BY <2>1, <2>6, <2>7, <2>8
<1> HIDE DEF u
<1>6. worker'[w] = u /\ worker[w].adds = {}
  BY <1>0, <1>3 DEF Numbered, WorkerOK
<1>7. WorkerOK(w)'
  <2>1. PICK m : m = n /\ Reached(m)
    BY <1>4
  <2>2. Reached(m)'
    BY <1>3, <2>1 DEF Reached, Filed
  <2>3. worker'[w].num = m /\ m > 0 /\ MaxDocs > 0
    BY <1>0, <1>4, <1>5, <1>6, <2>1
  <2> QED
    BY <1>5, <1>6, <2>2, <2>3 DEF WorkerOK
<1> QED
  BY <1>3, <1>5, <1>7, WorkerMoves DEF Numbered

LEMMA InsertNumbered ==
  ASSUME Padded, Numbered, NEW w \in Workers, NEW lots \in 1 .. Lots, Insert(w, lots)
  PROVE  Numbered'
<1> DEFINE new == Named(worker[w].num, lots)
           u == [worker[w] EXCEPT !.pc = "committing", !.adds = new]
<1>0. /\ MaxDocs \in Nat
      /\ worker[w] \in Worker
      /\ WorkerOK(w)
      /\ worker[w].pc = "inserting"
      /\ worker[w].num \in 1 .. MaxDocs
  BY DocNumbersAssumption DEF Numbered, Insert, WorkerOK, Worker
<1>1. new = {Doc(worker[w].num, 0)} /\ new \in SUBSET Slips
  BY <1>0 DEF Named, Padded, Slips
<1>2. worker' = [worker EXCEPT ![w] = u] /\ UNCHANGED <<docs, trash>>
  BY <1>0 DEF Insert, Numbered
<1> HIDE DEF new
<1>3. /\ u \in Worker
      /\ u.pc = "committing" /\ u.sees = worker[w].sees /\ u.num = worker[w].num /\ u.adds = new
  BY <1>0, <1>1 DEF Worker
<1> HIDE DEF u
<1>4. worker'[w] = u
  BY <1>2 DEF Numbered
<1>5. WorkerOK(w)'
  BY <1>0, <1>1, <1>2, <1>3, <1>4 DEF WorkerOK, Reached, Filed
<1> QED
  BY <1>2, <1>3, <1>5, WorkerMoves DEF Numbered

\* A request that ends leaves nothing behind it but what it has committed.
LEMMA EndNumbered ==
  ASSUME Numbered, NEW w \in Workers,
         worker' = [worker EXCEPT ![w] = NoRequest], UNCHANGED trash,
         docs' = docs \/ (worker[w].pc = "committing" /\ docs' = docs \cup worker[w].adds)
  PROVE  Numbered'
<1>0. MaxDocs \in Nat
  BY DocNumbersAssumption
<1>1. NoRequest \in Worker
  BY <1>0 DEF NoRequest, Worker
<1>2. WorkerOK(w)'
  <2>1. worker'[w] = NoRequest
    BY DEF Numbered
  <2> QED
    BY <2>1 DEF NoRequest, WorkerOK
<1>3. /\ docs' \subseteq Slips /\ docs \subseteq docs'
      /\ \A d \in docs' \ docs : Reached(d.num)
  <2>1. WorkerOK(w) /\ worker[w].adds \in SUBSET Slips /\ docs \subseteq Slips
    BY DEF Numbered, Worker
  <2>2. \A d \in worker[w].adds : d.num = worker[w].num
    BY <2>1 DEF WorkerOK, Doc
  <2> QED
    BY <2>1, <2>2 DEF WorkerOK
<1> QED
  BY <1>1, <1>2, <1>3, WorkerMoves

\* The trash is among the files.
LEMMA TrashNumbered ==
  ASSUME Numbered, docs' \subseteq Slips, trash' \subseteq Slips,
         docs' \cup trash' = docs \cup trash, UNCHANGED worker
  PROVE  Numbered'
<1>1. Filed' = Filed
  BY DEF Filed
<1>2. \A w \in Workers : WorkerOK(w)'
  BY <1>1, OthersNumbered
<1>3. \A d \in Filed' : Reached(d.num)'
  BY <1>1 DEF Numbered, Reached
<1> QED
  BY <1>2, <1>3 DEF Numbered

LEMMA NumberedNext == Padded /\ Numbered /\ [NumberNext]_numberVars => Numbered'
<1> SUFFICES ASSUME Padded, Numbered, [NumberNext]_numberVars PROVE Numbered'
  OBVIOUS
<1>1. CASE UNCHANGED numberVars
  BY <1>1, TrashNumbered DEF numberVars, Numbered
<1>2. ASSUME NEW w \in Workers, Commit(w) \/ Fail(w)
      PROVE  Numbered'
  BY <1>2, EndNumbered DEF Commit, Fail
<1>3. ASSUME NEW d \in docs, Delete(d)
      PROVE  Numbered'
  <2>1. docs' \cup trash' = docs \cup trash /\ docs' \subseteq Slips /\ trash' \subseteq Slips
    BY <1>3 DEF Delete, Numbered
  <2> QED
    BY <1>3, <2>1, TrashNumbered DEF Delete
<1>4. ASSUME NEW d \in trash, Restore(d)
      PROVE  Numbered'
  <2>1. docs' \cup trash' = docs \cup trash /\ docs' \subseteq Slips /\ trash' \subseteq Slips
    BY <1>4 DEF Restore, Numbered
  <2> QED
    BY <1>4, <2>1, TrashNumbered DEF Restore
<1> QED
  BY <1>1, <1>2, <1>3, <1>4, FindNumbered, LockNumbered, InsertNumbered DEF NumberNext, Serve

\* For documents without lots, and as long as their number fits the padding
\* (next_doc_number), the number a request works out when it is alone is free,
\* whatever was deleted, restored, refused or made at the same time before.
THEOREM NextNumberIsFree == Padded => (NumberSpec => []NextIsFree)
<1> SUFFICES ASSUME Padded PROVE NumberSpec => []NextIsFree
  OBVIOUS
<1>1. NumberInit => Numbered
  <2> SUFFICES ASSUME NumberInit PROVE Numbered
    OBVIOUS
  <2>1. MaxDocs \in Nat
    BY DocNumbersAssumption
  <2> QED
    BY <2>1 DEF NumberInit, Numbered, NoRequest, Worker, WorkerOK, Filed
<1>2. Numbered => NextIsFree
  <2> SUFFICES ASSUME Numbered, Doc(Following(docs), 0) \in docs PROVE FALSE
    BY DEF NextIsFree
  <2>1. Doc(Following(docs), 0).num < Following(docs) /\ Following(docs) \in Nat
    BY FollowingIs DEF Numbered
  <2>2. Doc(Following(docs), 0).num = Following(docs)
    BY DEF Doc
  <2> QED
    BY <2>1, <2>2
<1> QED
  BY <1>1, <1>2, NumberedNext, PTL DEF NumberSpec

===============================================================================
