------------------------------- MODULE Upload -------------------------------
(***************************************************************************)
(* The upload protocol of SyncDriveServer.  A client announces a file      *)
(* (ProcessUploadFile) and is told the number of a slide to send, or -1    *)
(* for "nothing to send"; it sends slides (ProcessUploadData) and is told  *)
(* the next one each time.  A transmission document stands for a slide     *)
(* that is still owed; when the last one is removed the filemd5 document   *)
(* gets state 1.  ProcessDeleteFile takes a file away again.               *)
(*                                                                         *)
(* The handlers run on the reactor threads, one request at a time each.    *)
(* They share the database, where every call of the driver is atomic and   *)
(* nothing larger is; the disk; and on_transmission_slides, under          *)
(* on_transmission_mutex.  The process may be killed at any moment: the    *)
(* database and the disk survive, the memory does not.                     *)
(*                                                                         *)
(* Every DAO is bound to the same collection (dao.cc), so a search by md5  *)
(* finds file documents as well as filemd5 documents, whichever was        *)
(* inserted first.  A document is decoded only if it has all the fields    *)
(* of its kind, and the documents AddFile and AddFileMD5 insert lack some: *)
(* complete ones come from outside the program, as Seeds.                  *)
(***************************************************************************)
EXTENDS Integers, FiniteSets

CONSTANTS
    Workers,      \* the reactor threads that run handlers
    Names,        \* a file's name together with its directory
    Md5s,         \* the contents files may have
    SlideNum,     \* slide_num: the slides of a file
    Seeds,        \* what the database and the disk may hold at the start
    Ops,          \* the requests that clients send
    OnlyTold,     \* TRUE: clients send only slides the server asked for
    Faults,       \* what may fail: calls of the database driver, writes to the disk
    MaxDocs,      \* bound: documents ever inserted
    MaxRequests,  \* bound: requests served
    MaxCrashes    \* bound: kills of the process

DriverFaults == "driver" \in Faults
DiskFaults   == "disk" \in Faults

ASSUME SlideNumAssumption == SlideNum \in Nat \ {0}
ASSUME BoundsAssumption ==
    MaxDocs \in Nat /\ MaxRequests \in Nat /\ MaxCrashes \in Nat

NoState == -1     \* the document has no field "state"
NoSlide == -1     \* the slide number that means "finishing uploading"

Ids    == 1..MaxDocs
Slides == 0..(SlideNum - 1)

Document ==
    [id    : Ids,
     kind  : {"file", "filemd5"},
     md5   : Md5s,
     name  : Names \cup {""},
     state : {NoState, 0, 1},
     refs  : Int]

CompleteOf(D) == {d \in D : d.kind = "filemd5" /\ d.state # NoState}

(* What the administrator loads is consistent: the driver's ids are unique *)
(* and increasing, and nothing is taken for received that is not there.    *)
Consistent(x) ==
    /\ x.docs \subseteq Document
    /\ x.nextId \in 1..(MaxDocs + 1)
    /\ x.pending \in [Ids -> [Slides -> Nat]]
    /\ x.disk \subseteq Md5s
    /\ x.received \subseteq Md5s \X Slides
    /\ \A d \in x.docs : d.id < x.nextId
    /\ \A d, e \in x.docs : d.id = e.id => d = e
    /\ \A d \in CompleteOf(x.docs), s \in Slides :
          x.pending[d.id][s] = 0 \/ d.state = 1 => <<d.md5, s>> \in x.received

ASSUME SeedsAssumption == \A x \in Seeds : Consistent(x)

VARIABLES
    docs,       \* the file and filemd5 documents
    nextId,     \* the next _id: natural order is the order of insertion
    pending,    \* pending[id][s]: transmission documents of slide s of id
    disk,       \* the md5s that have a folder with slide files
    intact,     \* <<md5, slide>>: the file of the slide holds its data
    received,   \* history: <<md5, slide>> was written to its end once
    onTrans,    \* on_transmission_slides
    lock,       \* the worker inside on_transmission_mutex, or ""
    pc,         \* where each worker is; "dead" once its loop has ended
    job,        \* the locals of each worker's handler
    told,       \* the <<md5, slide>> that clients were asked to send
    requests,
    crashes

database == <<docs, nextId, pending>>
files    == <<disk, intact, received>>
memory   == <<onTrans, lock>>
env      == <<told, requests, crashes>>
vars     == <<database, files, memory, pc, job, env>>

NoJob == [name |-> "", md5 |-> "", slide |-> NoSlide, id |-> 0, num |-> 0]

Job ==
    [name : Names \cup {""}, md5 : Md5s \cup {""}, slide : Slides \cup {NoSlide},
     id : Ids \cup {0}, num : Int]

Labels ==
    {"idle", "dead", "GetFile", "AddFile", "GetByMD5", "AddFileMD5", "GetAdded",
     "AddAll", "GetForSlide", "AddNext", "Reply",
     "OpenSlide", "FillSlide", "GetForData", "RemoveSlideNo", "RemoveTransmission",
     "GetNext", "HasTransmission", "UpdateState",
     "GetMd5ById", "RemoveFile", "GetId", "GetReferenceNum", "UpdateReferenceNum"}

TypeOK ==
    /\ docs \subseteq Document
    /\ nextId \in 1..(MaxDocs + 1)
    /\ pending \in [Ids -> [Slides -> Nat]]
    /\ disk \subseteq Md5s
    /\ intact \subseteq Md5s \X Slides
    /\ received \subseteq Md5s \X Slides
    /\ onTrans \in [Ids -> SUBSET Slides]
    /\ lock \in Workers \cup {""}
    /\ pc \in [Workers -> Labels]
    /\ job \in [Workers -> Job]
    /\ told \subseteq Md5s \X Slides
    /\ requests \in 0..MaxRequests
    /\ crashes \in 0..MaxCrashes

-----------------------------------------------------------------------------
(* What the DAOs find.  find_one returns the first match in natural order; *)
(* a match that cannot be decoded is reported as no match, and so is an    *)
(* exception of the driver.                                                *)

Having(m) == {d \in docs : d.md5 = m}

OrNothing(found) == IF DriverFaults THEN {found, {}} ELSE {found}

FirstOf(S) == {d \in S : \A e \in S : d.id <= e.id}

GetFile(f, m) ==
    {d \in FirstOf({e \in Having(m) : e.kind = "file" /\ e.name = f}) : d.state # NoState}

GetByMD5(m) ==
    {d \in FirstOf(Having(m)) : d.kind = "filemd5" /\ d.state # NoState}

GetTransmission(id, s) == s \in Slides /\ pending[id][s] > 0

HasTransmission(id) == \E s \in Slides : pending[id][s] > 0

(* The biggest slide number on transmission, plus one.                     *)
MaxPlusOne(id) ==
    IF onTrans[id] = {} THEN 0
    ELSE 1 + CHOOSE s \in onTrans[id] : \A t \in onTrans[id] : t <= s

(* CreateFileMD5InDisk gives up when the folder is not there, and mkdir    *)
(* fails when it is.                                                       *)
Mkdir(m) == IF m \in disk THEN disk ELSE disk \cup {m}

CreateFileMD5InDisk(m) == IF m \notin disk THEN disk ELSE Mkdir(m)

-----------------------------------------------------------------------------
Init ==
    /\ \E x \in Seeds :
          /\ docs = x.docs
          /\ nextId = x.nextId
          /\ pending = x.pending
          /\ disk = x.disk
          /\ intact = x.received
          /\ received = x.received
    /\ onTrans = [id \in Ids |-> {}]
    /\ lock = ""
    /\ pc = [w \in Workers |-> "idle"]
    /\ job = [w \in Workers |-> NoJob]
    /\ told = {}
    /\ requests = 0
    /\ crashes = 0

At(w, label) == pc[w] = label

Goto(w, label) == pc' = [pc EXCEPT ![w] = label]

(* Go on with a field of the locals changed.                               *)
GotoWith(w, label, j) == Goto(w, label) /\ job' = [job EXCEPT ![w] = j]

(* The handler returns to the reactor, or its exception ends the reactor.  *)
Leave(w, label) == GotoWith(w, label, NoJob)

Start(w, op, label, j) ==
    /\ op \in Ops
    /\ At(w, "idle")
    /\ requests < MaxRequests
    /\ requests' = requests + 1
    /\ GotoWith(w, label, j)
    /\ UNCHANGED <<database, files, memory, told, crashes>>

-----------------------------------------------------------------------------
(* ProcessUploadFile                                                       *)

UploadFile(w, f, m) ==
    Start(w, "UploadFile", "GetFile", [NoJob EXCEPT !.name = f, !.md5 = m])

FindFile(w) ==
    \E found \in OrNothing(GetFile(job[w].name, job[w].md5)) :
    /\ At(w, "GetFile")
    /\ \/ \E d \in found : d.state = 1 /\ Goto(w, "Reply")
       \/ \E d \in found : d.state = 0 /\ Goto(w, "GetForSlide")
       \/ found = {} /\ Goto(w, "AddFile")
    /\ UNCHANGED <<database, files, memory, job, env>>

(* The new file document has no state.                                     *)
AddFile(w) ==
    /\ At(w, "AddFile")
    /\ nextId <= MaxDocs
    /\ docs' = docs \cup {[id |-> nextId, kind |-> "file", md5 |-> job[w].md5,
                           name |-> job[w].name, state |-> NoState, refs |-> 0]}
    /\ nextId' = nextId + 1
    /\ Goto(w, "GetByMD5")
    /\ UNCHANGED <<pending, files, memory, job, env>>

FindFileMD5(w) ==
    \E found \in OrNothing(GetByMD5(job[w].md5)) :
    /\ At(w, "GetByMD5")
    /\ \/ \E d \in found : d.state = 1 /\ Goto(w, "Reply")
       \/ \E d \in found : d.state # 1 /\ Goto(w, "GetForSlide")
       \/ found = {} /\ Goto(w, "AddFileMD5")
    /\ UNCHANGED <<database, files, memory, job, env>>

(* The new filemd5 document has neither a reference_num nor a state.       *)
AddFileMD5(w) ==
    /\ At(w, "AddFileMD5")
    /\ nextId <= MaxDocs
    /\ docs' = docs \cup {[id |-> nextId, kind |-> "filemd5", md5 |-> job[w].md5,
                           name |-> "", state |-> NoState, refs |-> 0]}
    /\ nextId' = nextId + 1
    /\ disk' = CreateFileMD5InDisk(job[w].md5)
    /\ Goto(w, "GetAdded")
    /\ UNCHANGED <<pending, intact, received, memory, job, env>>

(* "get the newly added filemd5's id": it is looked up by md5.             *)
FindAdded(w) ==
    \E found \in OrNothing(GetByMD5(job[w].md5)) :
    /\ At(w, "GetAdded")
    /\ \/ \E d \in found : GotoWith(w, "AddAll", [job[w] EXCEPT !.id = d.id])
       \/ found = {} /\ Leave(w, "idle")
    /\ UNCHANGED <<database, files, memory, env>>

(* One transmission document at a time.  The function ends without a       *)
(* return statement: the caller goes on or gives up.                       *)
AddTransmission(w) ==
    LET j == job[w] IN
    /\ At(w, "AddAll")
    /\ j.num \in Slides
    /\ pending' = [pending EXCEPT ![j.id][j.num] = @ + 1]
    /\ job' = [job EXCEPT ![w].num = j.num + 1]
    /\ UNCHANGED <<docs, nextId, files, memory, pc, env>>

AddAllEnds(w) ==
    /\ At(w, "AddAll")
    /\ job[w].num \notin Slides
    /\ \/ Goto(w, "GetForSlide") /\ UNCHANGED job
       \/ Leave(w, "idle")
    /\ UNCHANGED <<database, files, memory, env>>

(* A write to the database that throws is reported as a failure, and the   *)
(* handler returns without a reply, whatever it has written before.        *)
InsertFails(w) ==
    /\ DriverFaults
    /\ pc[w] \in {"AddFile", "AddFileMD5", "AddAll"}
    /\ Leave(w, "idle")
    /\ UNCHANGED <<database, files, memory, env>>

(* filemd5.value() of an empty optional throws, which ends the reactor.    *)
FindForSlide(w) ==
    \E found \in OrNothing(GetByMD5(job[w].md5)) :
    /\ At(w, "GetForSlide")
    /\ \/ \E d \in found : GotoWith(w, "AddNext", [job[w] EXCEPT !.id = d.id])
       \/ found = {} /\ Leave(w, "dead")
    /\ UNCHANGED <<database, files, memory, env>>

(* AddNextSlideNoInTransmission, under the mutex.                          *)
AddNextSlideNo(w) ==
    LET id   == job[w].id
        next == MaxPlusOne(id)
    IN
    /\ At(w, "AddNext")
    /\ lock = ""
    /\ \/ /\ GetTransmission(id, next)
          /\ onTrans' = [onTrans EXCEPT ![id] = @ \cup {next}]
          /\ GotoWith(w, "Reply", [job[w] EXCEPT !.slide = next])
       \/ /\ ~GetTransmission(id, next) \/ DriverFaults
          /\ GotoWith(w, "Reply", [job[w] EXCEPT !.slide = NoSlide])
          /\ UNCHANGED onTrans
    /\ UNCHANGED <<database, files, lock, env>>

(* The reply tells the client the slide number in job[w].slide.            *)
Reply(w) ==
    LET j == job[w] IN
    /\ At(w, "Reply")
    /\ told' = IF j.slide = NoSlide THEN told ELSE told \cup {<<j.md5, j.slide>>}
    /\ Leave(w, "idle")
    /\ UNCHANGED <<database, files, memory, requests, crashes>>

-----------------------------------------------------------------------------
(* ProcessUploadData                                                       *)

UploadData(w, m, s) ==
    /\ OnlyTold => <<m, s>> \in told
    /\ Start(w, "UploadData", "OpenSlide", [NoJob EXCEPT !.md5 = m, !.slide = s])

(* WriteData opens an existing file only, and empties it: std::ofstream.   *)
OpenSlide_Unchecked(w) ==
    LET j == job[w] IN
    /\ At(w, "OpenSlide")
    /\ intact' = intact \ {<<j.md5, j.slide>>}
    /\ Goto(w, IF j.md5 \in disk THEN "FillSlide" ELSE "GetForData")
    /\ UNCHANGED <<database, disk, received, memory, job, env>>

OpenSlide_ChecksLate(w) ==
    LET j == job[w] IN
    /\ At(w, "OpenSlide")
    /\ j.md5 \in disk
    /\ intact' = intact \ {<<j.md5, j.slide>>}
    /\ \/ Goto(w, "FillSlide") /\ UNCHANGED job
       \/ Leave(w, "idle")
    /\ UNCHANGED <<database, disk, received, memory, env>>

OpenSlide(w) ==
    LET j == job[w] IN
    /\ At(w, "OpenSlide")
    /\ \/ /\ j.md5 \in disk
          /\ intact' = intact \ {<<j.md5, j.slide>>}
          /\ Goto(w, "FillSlide") /\ UNCHANGED job
       \/ /\ j.md5 \notin disk
          /\ Leave(w, "idle") /\ UNCHANGED intact
    /\ UNCHANGED <<database, disk, received, memory, env>>

(* Nobody looks at the state of the stream after the write.                *)
FillSlide(w) ==
    LET slide == <<job[w].md5, job[w].slide>> IN
    /\ At(w, "FillSlide")
    /\ \/ intact' = intact \cup {slide} /\ received' = received \cup {slide}
       \/ DiskFaults /\ UNCHANGED <<intact, received>>
    /\ Goto(w, "GetForData")
    /\ UNCHANGED <<database, disk, memory, job, env>>

FindForData(w) ==
    \E found \in OrNothing(GetByMD5(job[w].md5)) :
    /\ At(w, "GetForData")
    /\ \/ \E d \in found : GotoWith(w, "RemoveSlideNo", [job[w] EXCEPT !.id = d.id])
       \/ found = {} /\ Leave(w, "idle")
    /\ UNCHANGED <<database, files, memory, env>>

(* RemoveSlideNoInTransmission, under the mutex.                           *)
RemoveSlideNo(w) ==
    /\ At(w, "RemoveSlideNo")
    /\ lock = ""
    /\ onTrans' = [onTrans EXCEPT ![job[w].id] = @ \ {job[w].slide}]
    /\ Goto(w, "RemoveTransmission")
    /\ UNCHANGED <<database, files, lock, job, env>>

(* One of the slide's transmission documents, if there is one.             *)
RemoveTransmission_Blind(w) ==
    LET j == job[w] IN
    /\ At(w, "RemoveTransmission")
    /\ pending' = [pending EXCEPT ![j.id][j.slide] = @ - 1]
    /\ Goto(w, "GetNext")
    /\ UNCHANGED <<docs, nextId, files, memory, job, env>>

RemoveTransmission(w) ==
    LET j == job[w] IN
    /\ At(w, "RemoveTransmission")
    /\ \/ /\ GetTransmission(j.id, j.slide)
          /\ pending' = [pending EXCEPT ![j.id][j.slide] = @ - 1]
          /\ Goto(w, "GetNext") /\ UNCHANGED job
       \/ /\ ~GetTransmission(j.id, j.slide) \/ DriverFaults
          /\ Leave(w, "idle") /\ UNCHANGED pending
    /\ UNCHANGED <<docs, nextId, files, memory, env>>

(* GetNextSlideNoInTransmission, under the mutex: the number it returns is *)
(* not inserted in on_transmission_slides.                                 *)
GetNextSlideNo_NoCheck(w) ==
    LET next == MaxPlusOne(job[w].id) IN
    /\ At(w, "GetNext")
    /\ lock = ""
    /\ GotoWith(w, "Reply", [job[w] EXCEPT !.slide =
                 IF GetTransmission(job[w].id, next) THEN next ELSE NoSlide])
    /\ UNCHANGED <<database, files, memory, env>>

GetNextSlideNo(w) ==
    LET id   == job[w].id
        next == MaxPlusOne(id)
    IN
    /\ At(w, "GetNext")
    /\ lock = ""
    /\ \/ /\ GetTransmission(id, next)
          /\ GotoWith(w, "Reply", [job[w] EXCEPT !.slide = next])
       \/ /\ ~GetTransmission(id, next) \/ DriverFaults
          /\ GotoWith(w, "HasTransmission", [job[w] EXCEPT !.slide = NoSlide])
    /\ UNCHANGED <<database, files, memory, env>>

(* "all are received": the mutex is held from here to UpdateState, but the *)
(* transmission documents are not under it.                                *)
CheckAllReceived_Never(w) ==
    /\ At(w, "HasTransmission")
    /\ lock = ""
    /\ Goto(w, "UpdateState") /\ lock' = w
    /\ UNCHANGED <<database, files, onTrans, job, env>>

CheckAllReceived_KeepsLock(w) ==
    /\ At(w, "HasTransmission")
    /\ lock = ""
    /\ lock' = w
    /\ Goto(w, IF HasTransmission(job[w].id) THEN "Reply" ELSE "UpdateState")
    /\ UNCHANGED <<database, files, onTrans, job, env>>

CheckAllReceived(w) ==
    /\ At(w, "HasTransmission")
    /\ lock = ""
    /\ \/ /\ HasTransmission(job[w].id)
          /\ Goto(w, "Reply") /\ UNCHANGED lock
       \/ /\ ~HasTransmission(job[w].id) \/ DriverFaults
          /\ Goto(w, "UpdateState") /\ lock' = w
    /\ UNCHANGED <<database, files, onTrans, job, env>>

(* UpdateState, whose result is not looked at, and UpdateAllFileState: the *)
(* latter filters on filemd5_id, which no file document has.               *)
UpdateState(w) ==
    LET SetState(d) == IF d.id = job[w].id THEN [d EXCEPT !.state = 1] ELSE d IN
    /\ At(w, "UpdateState")
    /\ \/ docs' = {SetState(d) : d \in docs}
       \/ DriverFaults /\ UNCHANGED docs
    /\ lock' = ""
    /\ Goto(w, "Reply")
    /\ UNCHANGED <<nextId, pending, files, onTrans, job, env>>

-----------------------------------------------------------------------------
(* ProcessDeleteFile.  The client's file_id is looked up in the one        *)
(* collection there is, and any document that has an md5 is found: the     *)
(* _id of a filemd5 removes that.  Its transmission documents stay.  0 is  *)
(* a file_id that no document has ever had.                                *)

DeleteFile(w, id) == Start(w, "DeleteFile", "GetMd5ById", [NoJob EXCEPT !.id = id])

FindMd5ById(w) ==
    \E found \in OrNothing({d \in docs : d.id = job[w].id}) :
    /\ At(w, "GetMd5ById")
    /\ \/ \E d \in found : GotoWith(w, "RemoveFile", [job[w] EXCEPT !.md5 = d.md5])
       \/ found = {} /\ Leave(w, "idle")
    /\ UNCHANGED <<database, files, memory, env>>

RemoveFile_Blind(w) ==
    LET gone == {d \in docs : d.id = job[w].id} IN
    /\ At(w, "RemoveFile")
    /\ docs' = docs \ gone /\ Goto(w, "GetId")
    /\ UNCHANGED <<nextId, pending, files, memory, job, env>>

RemoveFile(w) ==
    LET gone == {d \in docs : d.id = job[w].id} IN
    /\ At(w, "RemoveFile")
    /\ \/ gone # {} /\ docs' = docs \ gone /\ Goto(w, "GetId") /\ UNCHANGED job
       \/ (gone = {} \/ DriverFaults) /\ Leave(w, "idle") /\ UNCHANGED docs
    /\ UNCHANGED <<nextId, pending, files, memory, env>>

(* FileMD5Service::GetId: the first document with the md5, decoded or not. *)
FindId(w) ==
    \E found \in OrNothing(FirstOf(Having(job[w].md5))) :
    /\ At(w, "GetId")
    /\ \/ \E d \in found : GotoWith(w, "GetReferenceNum", [job[w] EXCEPT !.id = d.id])
       \/ found = {} /\ Leave(w, "idle")
    /\ UNCHANGED <<database, files, memory, env>>

(* RemoveOne reads the number ...                                          *)
ReadReferenceNum(w) ==
    \E found \in OrNothing({d \in docs : /\ d.id = job[w].id
                                        /\ d.kind = "filemd5" /\ d.state # NoState}) :
    /\ At(w, "GetReferenceNum")
    /\ \/ \E d \in found : GotoWith(w, "UpdateReferenceNum", [job[w] EXCEPT !.num = d.refs])
       \/ found = {} /\ Leave(w, "idle")
    /\ UNCHANGED <<database, files, memory, env>>

(* ... and writes the number less one.  The client is answered only if     *)
(* that modified the document.                                             *)
UpdateReferenceNum(w) ==
    LET j == job[w]
        SetRefs(d) == IF d.id = j.id THEN [d EXCEPT !.refs = j.num - 1] ELSE d
    IN
    /\ At(w, "UpdateReferenceNum")
    /\ docs' = {SetRefs(d) : d \in docs} \/ (DriverFaults /\ docs' = docs)
    /\ Leave(w, "idle")
    /\ UNCHANGED <<nextId, pending, files, memory, env>>

-----------------------------------------------------------------------------
(* The process is killed and started again: the database and the disk are  *)
(* what they were, the memory is new, and so are the threads.              *)
Crash ==
    /\ crashes < MaxCrashes
    /\ crashes' = crashes + 1
    /\ onTrans' = [id \in Ids |-> {}]
    /\ lock' = ""
    /\ pc' = [w \in Workers |-> "idle"]
    /\ job' = [w \in Workers |-> NoJob]
    /\ UNCHANGED <<database, files, told, requests>>

Handler(w) ==
    \/ FindFile(w) \/ AddFile(w) \/ FindFileMD5(w) \/ AddFileMD5(w) \/ FindAdded(w)
    \/ AddTransmission(w) \/ AddAllEnds(w) \/ InsertFails(w)
    \/ FindForSlide(w) \/ AddNextSlideNo(w) \/ Reply(w)
    \/ OpenSlide(w) \/ FillSlide(w) \/ FindForData(w) \/ RemoveSlideNo(w)
    \/ RemoveTransmission(w) \/ GetNextSlideNo(w) \/ CheckAllReceived(w) \/ UpdateState(w)
    \/ FindMd5ById(w) \/ RemoveFile(w) \/ FindId(w)
    \/ ReadReferenceNum(w) \/ UpdateReferenceNum(w)

Request(w) ==
    \/ \E f \in Names, m \in Md5s : UploadFile(w, f, m)
    \/ \E m \in Md5s, s \in Slides : UploadData(w, m, s)
    \/ \E id \in 0..(nextId - 1) : DeleteFile(w, id)

Next == Crash \/ \E w \in Workers : Request(w) \/ Handler(w)

Spec == Init /\ [][Next]_vars

(* Each reactor thread keeps running: a handler that can go on does.       *)
FairSpec == Spec /\ \A w \in Workers : WF_vars(Handler(w))

-----------------------------------------------------------------------------
(* What holds: as long as the disk works and, from FinishedIsReceived on,  *)
(* the driver does not throw.  HandlerEnds holds in any case.              *)

Complete == CompleteOf(docs)

Whole(m) == \A s \in Slides : <<m, s>> \in received

(* A slide that is not owed any more has been written: ProcessUploadData   *)
(* removes the transmission document only after WriteData, and neither a   *)
(* restart between the two nor a second worker changes that.               *)
PendingOrReceived ==
    \A d \in Complete : \A s \in Slides :
        pending[d.id][s] = 0 => <<d.md5, s>> \in received

(* A slide file that has had its data loses it only while another upload   *)
(* of the same slide is between emptying and writing it, or for good if    *)
(* the process is killed there.                                            *)
TornOnlyByCrash ==
    \A slide \in received \ intact :
        \/ crashes > 0
        \/ \E w \in Workers :
              At(w, "FillSlide") /\ slide = <<job[w].md5, job[w].slide>>

(* A filemd5 has state 1 only if every slide has been written, although    *)
(* the check that no transmission is left and the update are two calls and *)
(* the removals of the transmissions are not under the mutex.              *)
FinishedIsReceived == \A d \in Complete : d.state = 1 => Whole(d.md5)

(* A deletion takes a reference away only if it removed a document, and    *)
(* one, whatever others read and write between its two calls: the number   *)
(* of a filemd5 never falls by more than the documents that were removed.  *)
(* It may fall by less, when two deletions read it before either writes    *)
(* (filemd5_service.cc:80-86); and that it counts the files in use is not  *)
(* said, as nothing raises it when a second file of the content is added   *)
(* (sync_drive_server.cc:219-237).                                         *)
Removed == {id \in 1..(nextId - 1) : \A d \in docs : d.id # id}

RefsFallWithRemovals ==
    \A d \in Complete :
        \E x \in Seeds : \E e \in CompleteOf(x.docs) :
            e.id = d.id /\ e.refs <= d.refs + Cardinality(Removed)

(* Upload implements the ledger.  The accounts are the complete filemd5s,  *)
(* and what a removed one still has among the transmission documents is    *)
(* owed to nobody: no search by md5 finds its id any more.                 *)
IsOpen(id) == \E d \in Complete : d.id = id

Ledger == INSTANCE SlideLedger WITH
              Entries  <- Ids,
              accounts <- {[id |-> d.id, md5 |-> d.md5] : d \in Complete},
              owed     <- [id \in Ids |-> {s \in Slides : IsOpen(id) /\ pending[id][s] > 0}],
              finished <- {d.id : d \in {e \in Complete : e.state = 1}}

ImplementsLedger == Ledger!Spec

(* A handler never waits for ever, for the mutex or otherwise: it returns, *)
(* or its reactor ends.                                                    *)
HandlerEnds ==
    \A w \in Workers :
        pc[w] \notin {"idle", "dead"} ~> pc[w] \in {"idle", "dead"}

(* Whichever worker removes the last transmission document, and however    *)
(* the others interleave, some worker then sets state 1, unless the        *)
(* process is killed first or the filemd5 itself is deleted.               *)
Owed(id) == \E s \in Slides : pending[id][s] > 0

Finished(id) == \E d \in Complete : d.id = id /\ d.state = 1

AllReceivedFinishes ==
    \A id \in Ids :
        (IsOpen(id) /\ ~Owed(id) /\ crashes = 0)
            ~> (Finished(id) \/ Owed(id) \/ crashes > 0 \/ ~IsOpen(id))

(* The invariant behind PendingOrReceived, FinishedIsReceived and the      *)
(* ledger: what a handler at a label, with the locals j, relies on, in the *)
(* documents D, the next id n and the slides R that were written.  It      *)
(* stays true while others run: the document that was found may be gone,   *)
(* but then for good, as no id is used twice, and what is left is what was *)
(* found; a written slide stays written; and if nothing was pending for a  *)
(* document then everything had been written, whatever is inserted later.  *)
(* The mutex plays no part in it.                                          *)
HoldsDocument ==
    {"AddAll", "AddNext", "RemoveSlideNo", "RemoveTransmission", "GetNext",
     "HasTransmission", "UpdateState"}

Relies(label, j, D, n, R) ==
    /\ label \notin {"idle", "dead", "GetMd5ById"} => j.md5 \in Md5s
    /\ label \in {"OpenSlide", "FillSlide", "GetForData", "RemoveSlideNo",
                 "RemoveTransmission"} => j.slide \in Slides
    /\ label \in HoldsDocument =>
          /\ j.id \in 1..(n - 1)
          /\ \A d \in D : d.id = j.id => d \in CompleteOf(D) /\ d.md5 = j.md5
    /\ label = "RemoveFile" => j.id < n
    /\ label \in {"GetForData", "RemoveSlideNo", "RemoveTransmission"} =>
          DiskFaults \/ <<j.md5, j.slide>> \in R
    /\ label = "UpdateState" =>
          \/ DiskFaults \/ DriverFaults
          \/ \A d \in D : d.id # j.id
          \/ \A s \in Slides : <<j.md5, s>> \in R

IdsUnique ==
    /\ \A d \in docs : d.id < nextId
    /\ \A d, e \in docs : d.id = e.id => d = e

UploadInv ==
    /\ TypeOK /\ IdsUnique
    /\ \A w \in Workers : Relies(pc[w], job[w], docs, nextId, received)
    /\ DiskFaults \/ PendingOrReceived
    /\ DiskFaults \/ DriverFaults \/ FinishedIsReceived

-----------------------------------------------------------------------------
(* What comments of the code say and the code does not do.                 *)

(* "default set as -1, i.e. finishing uploading" (sync_drive_server.cc:    *)
(* 204): a client that is told -1 has nothing left to send.                *)
DoneMeansReceived ==
    \A w \in Workers :
        At(w, "Reply") /\ job[w].slide = NoSlide /\ job[w].id # 0 => ~Owed(job[w].id)
=============================================================================
