---------------------------- MODULE UploadProofs ----------------------------
(* Proofs about Upload: its type invariant and its safety invariants hold, *)
(* and it implements SlideLedger, for any number of reactor threads, files *)
(* contents, slides, requests and kills.                                   *)
EXTENDS Upload, FiniteSetTheorems, TLAPS

(* From one database and one set of written slides to the next: ids are    *)
(* not used again, a document that is still there has the same md5 and is  *)
(* complete if it was, and written slides stay written.                    *)
Persists(D, n, R, D2, n2, R2) ==
    /\ n <= n2
    /\ R \subseteq R2
    /\ \A e \in D2 : e.id < n =>
          \E d \in D : /\ d.id = e.id /\ d.md5 = e.md5
                       /\ d \in CompleteOf(D) => e \in CompleteOf(D2)

(* What a worker relies on survives such a step of another worker.         *)
LEMMA ReliesIsStable ==
    ASSUME NEW label, NEW j, NEW D, NEW n \in Nat, NEW R, NEW D2, NEW n2 \in Nat, NEW R2,
           j.id \in Nat,
           Persists(D, n, R, D2, n2, R2),
           Relies(label, j, D, n, R)
    PROVE  Relies(label, j, D2, n2, R2)
<1>1. label \in HoldsDocument =>
          /\ j.id \in 1..(n2 - 1)
          /\ \A e \in D2 : e.id = j.id => e \in CompleteOf(D2) /\ e.md5 = j.md5
  <2> SUFFICES ASSUME label \in HoldsDocument
               PROVE  /\ j.id \in 1..(n2 - 1)
                      /\ \A e \in D2 : e.id = j.id => e \in CompleteOf(D2) /\ e.md5 = j.md5
    OBVIOUS
  <2>1. /\ j.id \in 1..(n - 1)
        /\ \A d \in D : d.id = j.id => d \in CompleteOf(D) /\ d.md5 = j.md5
    BY DEF Relies
  <2>2. j.id < n /\ j.id \in 1..(n2 - 1)
    BY <2>1 DEF Persists
  <2> QED BY <2>1, <2>2 DEF Persists
<1>2. label = "RemoveFile" => j.id < n2
  BY DEF Relies, Persists
<1>3. label \in {"GetForData", "RemoveSlideNo", "RemoveTransmission"} =>
          DiskFaults \/ <<j.md5, j.slide>> \in R2
  BY Zenon DEF Relies, Persists
<1>4. label = "UpdateState" =>
          \/ DiskFaults \/ DriverFaults
          \/ \A e \in D2 : e.id # j.id
          \/ \A s \in Slides : <<j.md5, s>> \in R2
  <2>1. label = "UpdateState" => j.id < n
    <3>1. label = "UpdateState" => j.id \in 1..(n - 1)
      BY DEF Relies, HoldsDocument
    <3> QED BY <3>1
  <2>2. j.id < n /\ (\A d \in D : d.id # j.id) => \A e \in D2 : e.id # j.id
    BY DEF Persists
  <2>3. R \subseteq R2
    BY DEF Persists
  <2> QED BY <2>1, <2>2, <2>3, Zenon DEF Relies
<1> QED
  BY <1>1, <1>2, <1>3, <1>4, Zenon DEF Relies

(* A step of one worker keeps what every worker relies on.                 *)
Locals ==
    /\ pc \in [Workers -> Labels]
    /\ job \in [Workers -> Job]
    /\ \A w \in Workers : Relies(pc[w], job[w], docs, nextId, received)

StepOf(w, label) ==
    /\ pc' = [pc EXCEPT ![w] = label]
    /\ job' = [job EXCEPT ![w] = job'[w]]
    /\ job'[w] \in Job

LEMMA WorkerStep ==
    ASSUME Locals, NEW w \in Workers, NEW label \in Labels, StepOf(w, label),
           nextId \in Nat, nextId' \in Nat,
           Persists(docs, nextId, received, docs', nextId', received'),
           Relies(label, job'[w], docs', nextId', received')
    PROVE  Locals'
<1>1. pc' \in [Workers -> Labels] /\ job' \in [Workers -> Job]
  BY DEF Locals, StepOf
<1>2. ASSUME NEW u \in Workers
      PROVE  Relies(pc'[u], job'[u], docs', nextId', received')
  <2>1. CASE u = w
    <3>1. pc'[u] = label /\ job'[u] = job'[w]
      BY <2>1 DEF Locals, StepOf
    <3> QED BY <3>1
  <2>2. CASE u # w
    <3>1. pc'[u] = pc[u] /\ job'[u] = job[u]
      BY <2>2 DEF Locals, StepOf
    <3>2. Relies(pc[u], job[u], docs, nextId, received)
      BY DEF Locals
    <3>3. job[u].id \in Nat
      <4>1. job[u] \in Job
        BY DEF Locals
      <4>2. job[u].id \in Ids \cup {0}
        BY <4>1 DEF Job
      <4> QED BY <4>2, BoundsAssumption DEF Ids
    <3>4. Relies(pc[u], job[u], docs', nextId', received')
      BY <3>2, <3>3, ReliesIsStable
    <3> QED BY <3>1, <3>4
  <2> QED BY <2>1, <2>2
<1> QED BY <1>1, <1>2 DEF Locals

-----------------------------------------------------------------------------
(* The rest of the state has its type.                                     *)
DatabaseOK ==
    /\ docs \subseteq Document
    /\ nextId \in 1..(MaxDocs + 1)
    /\ pending \in [Ids -> [Slides -> Nat]]

FilesOK ==
    /\ disk \subseteq Md5s
    /\ intact \subseteq Md5s \X Slides
    /\ received \subseteq Md5s \X Slides

RestOK ==
    /\ onTrans \in [Ids -> SUBSET Slides]
    /\ lock \in Workers \cup {""}
    /\ told \subseteq Md5s \X Slides
    /\ requests \in 0..MaxRequests
    /\ crashes \in 0..MaxCrashes

(* The part of the invariant that is about the database and the files.     *)
Accounts ==
    /\ DatabaseOK /\ FilesOK /\ IdsUnique
    /\ DiskFaults \/ PendingOrReceived
    /\ DiskFaults \/ DriverFaults \/ FinishedIsReceived

LEMMA InvParts == UploadInv <=> Accounts /\ Locals /\ RestOK
BY Zenon DEF UploadInv, TypeOK, Accounts, Locals, DatabaseOK, FilesOK, RestOK

LEMMA InvPartsNext == UploadInv' <=> Accounts' /\ Locals' /\ RestOK'
<1>1. UploadInv <=> Accounts /\ Locals /\ RestOK
  BY InvParts
<1> QED BY <1>1, PTL

LEMMA IdsAreNat == Ids \subseteq Nat /\ (nextId \in 1..(MaxDocs + 1) => nextId \in Nat)
BY BoundsAssumption DEF Ids

(* A step that does not touch the database and forgets no slide keeps the  *)
(* accounts.                                                               *)
LEMMA QuietAccounts ==
    ASSUME Accounts, UNCHANGED database, FilesOK', received \subseteq received'
    PROVE  Accounts'
<1> USE DEF Accounts, database
<1>1. DatabaseOK' /\ IdsUnique'
  BY DEF DatabaseOK, IdsUnique
<1>2. DiskFaults \/ PendingOrReceived'
  BY DEF PendingOrReceived, Complete
<1>3. DiskFaults \/ DriverFaults \/ FinishedIsReceived'
  BY DEF FinishedIsReceived, Complete, Whole
<1> QED BY <1>1, <1>2, <1>3, Zenon DEF DiskFaults, DriverFaults

(* ... and if it is a step of one worker then the rest is a matter of what *)
(* this worker relies on now.                                              *)
LEMMA QuietStep ==
    ASSUME UploadInv, NEW w \in Workers, NEW label \in Labels, StepOf(w, label),
           UNCHANGED database, FilesOK', received \subseteq received', RestOK',
           Relies(label, job'[w], docs, nextId, received')
    PROVE  UploadInv'
<1>1. Accounts /\ Locals /\ RestOK
  BY InvParts
<1>2. Accounts'
  BY <1>1, QuietAccounts
<1>3. docs' = docs /\ nextId' = nextId /\ nextId \in Nat
  BY <1>1, IdsAreNat DEF database, Accounts, DatabaseOK
<1>4. Persists(docs, nextId, received, docs', nextId', received')
  BY <1>3 DEF Persists, CompleteOf
<1>5. Locals'
  BY <1>1, <1>3, <1>4, WorkerStep
<1> QED BY <1>2, <1>5, InvPartsNext

(* What FileMD5Service::GetByMD5 finds is complete and has the md5.        *)
LEMMA FoundByMD5 ==
    ASSUME NEW m, NEW found \in OrNothing(GetByMD5(m)), NEW d \in found
    PROVE  d \in CompleteOf(docs) /\ d.md5 = m
BY DEF OrNothing, GetByMD5, FirstOf, Having, CompleteOf

(* Outside the database, the files and the memory nothing has changed.     *)
LEMMA Kept ==
    ASSUME UploadInv
    PROVE  /\ UNCHANGED files => FilesOK' /\ received' = received
           /\ UNCHANGED <<memory, env>> => RestOK'
<1>1. FilesOK /\ RestOK
  BY InvParts DEF Accounts
<1>2. UNCHANGED files => FilesOK' /\ received' = received
  BY <1>1 DEF files, FilesOK
<1>3. UNCHANGED <<memory, env>> => RestOK'
  BY <1>1 DEF memory, env, RestOK
<1> QED BY <1>2, <1>3

(* The three ways in which a handler goes on.                              *)
LEMMA GotoStep ==
    ASSUME Locals, NEW w \in Workers, NEW label, Goto(w, label), UNCHANGED job
    PROVE  StepOf(w, label) /\ job'[w] = job[w]
BY DEF Locals, Goto, StepOf

LEMMA GotoWithStep ==
    ASSUME Locals, NEW w \in Workers, NEW label, NEW j \in Job, GotoWith(w, label, j)
    PROVE  StepOf(w, label) /\ job'[w] = j
BY DEF Locals, GotoWith, Goto, StepOf

LEMMA NoJobIsJob == NoJob \in Job
BY DEF NoJob, Job

LEMMA LeaveStep ==
    ASSUME Locals, NEW w \in Workers, NEW label \in {"idle", "dead"}, Leave(w, label),
           NEW D, NEW n, NEW R
    PROVE  /\ StepOf(w, label)
           /\ Relies(label, job'[w], D, n, R)
<1>1. StepOf(w, label)
  BY NoJobIsJob, GotoWithStep DEF Leave
<1>2. Relies(label, job'[w], D, n, R)
  BY DEF Relies, HoldsDocument
<1> QED BY <1>1, <1>2

(* Steps of a handler that change nothing but where it is and its locals.  *)
LEMMA QuietGoto ==
    ASSUME UploadInv, NEW w \in Workers, NEW label \in Labels, Goto(w, label),
           UNCHANGED <<database, files, memory, job, env>>,
           Relies(label, job[w], docs, nextId, received)
    PROVE  UploadInv'
<1>1. UNCHANGED database /\ FilesOK' /\ received' = received /\ RestOK'
  BY Kept
<1>2. StepOf(w, label) /\ job'[w] = job[w]
  BY InvParts, GotoStep
<1> QED BY <1>1, <1>2, QuietStep

LEMMA QuietGotoWith ==
    ASSUME UploadInv, NEW w \in Workers, NEW label \in Labels, NEW j \in Job,
           GotoWith(w, label, j),
           UNCHANGED <<database, files, memory, env>>,
           Relies(label, j, docs, nextId, received)
    PROVE  UploadInv'
<1>1. UNCHANGED database /\ FilesOK' /\ received' = received /\ RestOK'
  BY Kept
<1>2. StepOf(w, label) /\ job'[w] = j
  BY InvParts, GotoWithStep
<1> QED BY <1>1, <1>2, QuietStep

LEMMA QuietLeave ==
    ASSUME UploadInv, NEW w \in Workers, NEW label \in {"idle", "dead"}, Leave(w, label),
           UNCHANGED <<database, files, memory, env>>
    PROVE  UploadInv'
<1>1. UNCHANGED database /\ FilesOK' /\ received' = received /\ RestOK'
  BY Kept
<1>2. StepOf(w, label) /\ Relies(label, job'[w], docs, nextId, received)
  BY InvParts, LeaveStep
<1>3. label \in Labels
  BY DEF Labels
<1> QED BY <1>1, <1>2, <1>3, QuietStep

(* What the worker itself relies on.                                       *)
LEMMA Own ==
    ASSUME UploadInv, NEW w \in Workers
    PROVE  /\ job[w] \in Job
           /\ Relies(pc[w], job[w], docs, nextId, received)
           /\ docs \subseteq Document
BY InvParts DEF Locals, Accounts, DatabaseOK

-----------------------------------------------------------------------------
(* A request starts.                                                       *)
LEMMA StartStep ==
    ASSUME UploadInv, NEW w \in Workers, NEW op, NEW label \in Labels, NEW j \in Job,
           Start(w, op, label, j),
           Relies(label, j, docs, nextId, received)
    PROVE  UploadInv'
<1>1. UNCHANGED database /\ FilesOK' /\ received' = received
  BY Kept DEF Start
<1>2. RestOK'
  <2>1. RestOK
    BY InvParts
  <2>2. requests' \in 0..MaxRequests
    <3>1. requests \in 0..MaxRequests
      BY <2>1 DEF RestOK
    <3>2. requests < MaxRequests /\ requests' = requests + 1
      BY DEF Start
    <3> QED BY <3>1, <3>2, BoundsAssumption
  <2>3. UNCHANGED <<onTrans, lock, told, crashes>>
    BY DEF Start, memory
  <2> QED BY <2>1, <2>2, <2>3 DEF RestOK
<1>3. StepOf(w, label) /\ job'[w] = j
  BY InvParts, GotoWithStep DEF Start
<1> QED BY <1>1, <1>2, <1>3, QuietStep

LEMMA UploadFileStep ==
    ASSUME UploadInv, NEW w \in Workers, NEW f \in Names, NEW m \in Md5s, UploadFile(w, f, m)
    PROVE  UploadInv'
<1>0. PICK j : j = [NoJob EXCEPT !.name = f, !.md5 = m]
  OBVIOUS
<1>1. j \in Job /\ j.md5 = m
  BY <1>0, NoJobIsJob DEF Job
<1>2. Relies("GetFile", j, docs, nextId, received)
  BY <1>1 DEF Relies, HoldsDocument
<1>3. Start(w, "UploadFile", "GetFile", j) /\ "GetFile" \in Labels
  BY <1>0 DEF UploadFile, Labels
<1> QED BY <1>1, <1>2, <1>3, StartStep

LEMMA UploadDataStep ==
    ASSUME UploadInv, NEW w \in Workers, NEW m \in Md5s, NEW s \in Slides, UploadData(w, m, s)
    PROVE  UploadInv'
<1>0. PICK j : j = [NoJob EXCEPT !.md5 = m, !.slide = s]
  OBVIOUS
<1>1. j \in Job /\ j.md5 = m /\ j.slide = s
  BY <1>0, NoJobIsJob DEF Job
<1>2. Relies("OpenSlide", j, docs, nextId, received)
  BY <1>1 DEF Relies, HoldsDocument
<1>3. Start(w, "UploadData", "OpenSlide", j) /\ "OpenSlide" \in Labels
  BY <1>0 DEF UploadData, Labels
<1> QED BY <1>1, <1>2, <1>3, StartStep

LEMMA DeleteFileStep ==
    ASSUME UploadInv, NEW w \in Workers, NEW id \in 0..(nextId - 1), DeleteFile(w, id)
    PROVE  UploadInv'
<1>0. PICK j : j = [NoJob EXCEPT !.id = id]
  OBVIOUS
<1>1. nextId \in 1..(MaxDocs + 1)
  BY InvParts DEF Accounts, DatabaseOK
<1>2. id \in Ids \cup {0}
  BY <1>1, BoundsAssumption DEF Ids
<1>3. j \in Job
  BY <1>0, <1>2, NoJobIsJob DEF Job
<1>4. Relies("GetMd5ById", j, docs, nextId, received)
  BY DEF Relies, HoldsDocument
<1>5. Start(w, "DeleteFile", "GetMd5ById", j) /\ "GetMd5ById" \in Labels
  BY <1>0 DEF DeleteFile, Labels
<1> QED BY <1>3, <1>4, <1>5, StartStep

(* ProcessUploadFile: the steps that look something up.                    *)
LEMMA FindFileStep ==
    ASSUME UploadInv, NEW w \in Workers, FindFile(w)
    PROVE  UploadInv'
<1>1. \E label \in {"Reply", "GetForSlide", "AddFile"} : Goto(w, label)
  BY DEF FindFile
<1>2. ASSUME NEW label \in {"Reply", "GetForSlide", "AddFile"}
      PROVE  label \in Labels /\ Relies(label, job[w], docs, nextId, received)
  BY Own DEF FindFile, At, Labels, Relies, HoldsDocument
<1> QED BY <1>1, <1>2, QuietGoto DEF FindFile

LEMMA FindFileMD5Step ==
    ASSUME UploadInv, NEW w \in Workers, FindFileMD5(w)
    PROVE  UploadInv'
<1>1. \E label \in {"Reply", "GetForSlide", "AddFileMD5"} : Goto(w, label)
  BY DEF FindFileMD5
<1>2. ASSUME NEW label \in {"Reply", "GetForSlide", "AddFileMD5"}
      PROVE  label \in Labels /\ Relies(label, job[w], docs, nextId, received)
  BY Own DEF FindFileMD5, At, Labels, Relies, HoldsDocument
<1> QED BY <1>1, <1>2, QuietGoto DEF FindFileMD5

(* A handler that found a filemd5 document goes on with its id: as long as *)
(* there is a document with this id it is the one that was found.          *)
Holds(id, m) ==
    /\ id \in 1..(nextId - 1)
    /\ \A e \in docs : e.id = id => e \in CompleteOf(docs) /\ e.md5 = m

LEMMA FoundHasId ==
    ASSUME UploadInv, NEW w \in Workers, NEW found \in OrNothing(GetByMD5(job[w].md5)),
           NEW d \in found
    PROVE  /\ Holds(d.id, job[w].md5)
           /\ [job[w] EXCEPT !.id = d.id] \in Job
<1>1. d \in CompleteOf(docs) /\ d.md5 = job[w].md5
  BY FoundByMD5
<1>2. d.id \in Ids /\ d \in docs
  BY <1>1, Own DEF CompleteOf, Document
<1>3. IdsUnique /\ nextId \in 1..(MaxDocs + 1)
  BY InvParts DEF Accounts, DatabaseOK
<1>4. d.id \in 1..(nextId - 1)
  <2>1. d.id < nextId
    BY <1>2, <1>3 DEF IdsUnique
  <2> QED BY <1>2, <1>3, <2>1, BoundsAssumption DEF Ids
<1>5. \A e \in docs : e.id = d.id => e = d
  BY <1>2, <1>3 DEF IdsUnique
<1>6. job[w] \in Job
  BY Own
<1>7. [job[w] EXCEPT !.id = d.id] \in Job
  BY <1>2, <1>6 DEF Job
<1> QED BY <1>1, <1>4, <1>5, <1>7 DEF Holds

LEMMA FindAddedStep ==
    ASSUME UploadInv, NEW w \in Workers, FindAdded(w)
    PROVE  UploadInv'
<1>1. PICK found \in OrNothing(GetByMD5(job[w].md5)) :
          \/ \E d \in found : GotoWith(w, "AddAll", [job[w] EXCEPT !.id = d.id])
          \/ Leave(w, "idle")
  BY DEF FindAdded
<1>2. UNCHANGED <<database, files, memory, env>> /\ pc[w] = "GetAdded"
  BY DEF FindAdded, At
<1>3. ASSUME NEW d \in found, GotoWith(w, "AddAll", [job[w] EXCEPT !.id = d.id])
      PROVE  UploadInv'
  <2>1. PICK j \in Job : j = [job[w] EXCEPT !.id = d.id]
    BY FoundHasId
  <2>2. j.id = d.id /\ j.md5 = job[w].md5
    BY <2>1, Own DEF Job
  <2>3. Holds(d.id, job[w].md5)
    BY FoundHasId
  <2>4. Relies("AddAll", j, docs, nextId, received) /\ "AddAll" \in Labels
    BY <1>2, <2>2, <2>3, Own DEF Relies, Labels, Holds
  <2> QED BY <1>2, <1>3, <2>1, <2>4, QuietGotoWith
<1> QED BY <1>1, <1>2, <1>3, QuietLeave

LEMMA FindForSlideStep ==
    ASSUME UploadInv, NEW w \in Workers, FindForSlide(w)
    PROVE  UploadInv'
<1>1. PICK found \in OrNothing(GetByMD5(job[w].md5)) :
          \/ \E d \in found : GotoWith(w, "AddNext", [job[w] EXCEPT !.id = d.id])
          \/ Leave(w, "dead")
  BY DEF FindForSlide
<1>2. UNCHANGED <<database, files, memory, env>> /\ pc[w] = "GetForSlide"
  BY DEF FindForSlide, At
<1>3. ASSUME NEW d \in found, GotoWith(w, "AddNext", [job[w] EXCEPT !.id = d.id])
      PROVE  UploadInv'
  <2>1. PICK j \in Job : j = [job[w] EXCEPT !.id = d.id]
    BY FoundHasId
  <2>2. j.id = d.id /\ j.md5 = job[w].md5
    BY <2>1, Own DEF Job
  <2>3. Holds(d.id, job[w].md5)
    BY FoundHasId
  <2>4. Relies("AddNext", j, docs, nextId, received) /\ "AddNext" \in Labels
    BY <1>2, <2>2, <2>3, Own DEF Relies, Labels, Holds
  <2> QED BY <1>2, <1>3, <2>1, <2>4, QuietGotoWith
<1> QED BY <1>1, <1>2, <1>3, QuietLeave

LEMMA FindForDataStep ==
    ASSUME UploadInv, NEW w \in Workers, FindForData(w)
    PROVE  UploadInv'
<1>1. PICK found \in OrNothing(GetByMD5(job[w].md5)) :
          \/ \E d \in found : GotoWith(w, "RemoveSlideNo", [job[w] EXCEPT !.id = d.id])
          \/ Leave(w, "idle")
  BY DEF FindForData
<1>2. UNCHANGED <<database, files, memory, env>> /\ pc[w] = "GetForData"
  BY DEF FindForData, At
<1>3. ASSUME NEW d \in found, GotoWith(w, "RemoveSlideNo", [job[w] EXCEPT !.id = d.id])
      PROVE  UploadInv'
  <2>1. PICK j \in Job : j = [job[w] EXCEPT !.id = d.id]
    BY FoundHasId
  <2>2. j.id = d.id /\ j.md5 = job[w].md5 /\ j.slide = job[w].slide
    BY <2>1, Own DEF Job
  <2>3. Holds(d.id, job[w].md5)
    BY FoundHasId
  <2>4. Relies("RemoveSlideNo", j, docs, nextId, received) /\ "RemoveSlideNo" \in Labels
    BY <1>2, <2>2, <2>3, Own DEF Relies, Labels, Holds
  <2> QED BY <1>2, <1>3, <2>1, <2>4, QuietGotoWith
<1> QED BY <1>1, <1>2, <1>3, QuietLeave

LEMMA AddAllEndsStep ==
    ASSUME UploadInv, NEW w \in Workers, AddAllEnds(w)
    PROVE  UploadInv'
<1>1. /\ UNCHANGED <<database, files, memory, env>> /\ pc[w] = "AddAll"
      /\ (Goto(w, "GetForSlide") /\ UNCHANGED job) \/ Leave(w, "idle")
  BY DEF AddAllEnds, At
<1>2. Relies("GetForSlide", job[w], docs, nextId, received) /\ "GetForSlide" \in Labels
  BY <1>1, Own DEF Relies, HoldsDocument, Labels
<1> QED BY <1>1, <1>2, QuietGoto, QuietLeave

LEMMA InsertFailsStep ==
    ASSUME UploadInv, NEW w \in Workers, InsertFails(w)
    PROVE  UploadInv'
BY QuietLeave DEF InsertFails

(* AddNextSlideNoInTransmission and GetNextSlideNoInTransmission: a next   *)
(* slide that has a transmission document is a slide.                      *)
LEMMA NextIsASlide ==
    ASSUME UploadInv, NEW w \in Workers, NEW next, GetTransmission(job[w].id, next)
    PROVE  next \in Slides /\ [job[w] EXCEPT !.slide = next] \in Job
<1>1. next \in Slides
  BY DEF GetTransmission
<1> QED BY <1>1, Own DEF Job

LEMMA NoSlideIsKept ==
    ASSUME UploadInv, NEW w \in Workers
    PROVE  [job[w] EXCEPT !.slide = NoSlide] \in Job
BY Own DEF Job

LEMMA AddNextSlideNoStep ==
    ASSUME UploadInv, NEW w \in Workers, AddNextSlideNo(w)
    PROVE  UploadInv'
<1> DEFINE next == MaxPlusOne(job[w].id)
<1>1. /\ pc[w] = "AddNext" /\ "Reply" \in Labels
      /\ UNCHANGED <<database, files, lock, env>>
      /\ \/ /\ GetTransmission(job[w].id, next)
            /\ onTrans' = [onTrans EXCEPT ![job[w].id] = @ \cup {next}]
            /\ GotoWith(w, "Reply", [job[w] EXCEPT !.slide = next])
         \/ /\ UNCHANGED onTrans
            /\ GotoWith(w, "Reply", [job[w] EXCEPT !.slide = NoSlide])
  BY DEF AddNextSlideNo, At, Labels
<1> HIDE DEF next
<1>2. PICK j \in Job : GotoWith(w, "Reply", j) /\ j.md5 = job[w].md5
  <2>1. ASSUME NEW s, [job[w] EXCEPT !.slide = s] \in Job
        PROVE  [job[w] EXCEPT !.slide = s].md5 = job[w].md5
    BY Own DEF Job
  <2> QED BY <1>1, <2>1, NextIsASlide, NoSlideIsKept
<1>3. UNCHANGED database /\ FilesOK' /\ received' = received
  BY <1>1, Kept DEF files
<1>4. RestOK'
  <2>1. RestOK
    BY InvParts
  <2>2. onTrans' \in [Ids -> SUBSET Slides]
    BY <1>1, <2>1, NextIsASlide DEF RestOK
  <2> QED BY <1>1, <2>1, <2>2 DEF RestOK, env
<1>5. Relies("Reply", j, docs, nextId, received)
  BY <1>1, <1>2, Own DEF Relies, HoldsDocument
<1>6. StepOf(w, "Reply") /\ job'[w] = j
  BY <1>2, InvParts, GotoWithStep
<1> QED BY <1>1, <1>3, <1>4, <1>5, <1>6, QuietStep

LEMMA ReplyStep ==
    ASSUME UploadInv, NEW w \in Workers, Reply(w)
    PROVE  UploadInv'
<1>1. UNCHANGED database /\ FilesOK' /\ received' = received
  BY Kept DEF Reply
<1>2. RestOK'
  <2>1. RestOK /\ job[w] \in Job /\ job[w].md5 \in Md5s
    BY InvParts, Own DEF Reply, At, Relies
  <2>2. job[w].slide # NoSlide => job[w].slide \in Slides
    BY <2>1 DEF Job
  <2>3. told' \subseteq Md5s \X Slides
    <3>1. told \subseteq Md5s \X Slides
      BY <2>1 DEF RestOK
    <3>2. \/ told' = told
          \/ job[w].slide # NoSlide /\ told' = told \cup {<<job[w].md5, job[w].slide>>}
      BY DEF Reply
    <3> QED BY <2>1, <2>2, <3>1, <3>2
  <2> QED BY <2>1, <2>3 DEF Reply, memory, RestOK
<1>3. StepOf(w, "idle") /\ Relies("idle", job'[w], docs, nextId, received)
  BY InvParts, LeaveStep DEF Reply
<1> QED BY <1>1, <1>2, <1>3, QuietStep DEF Labels

(* ProcessUploadData: the disk and the mutex.                              *)
LEMMA OpenSlideStep ==
    ASSUME UploadInv, NEW w \in Workers, OpenSlide(w)
    PROVE  UploadInv'
<1>1. /\ pc[w] = "OpenSlide" /\ {"FillSlide", "idle"} \subseteq Labels
      /\ UNCHANGED <<database, disk, received, memory, env>>
      /\ intact' \subseteq intact
      /\ (Goto(w, "FillSlide") /\ UNCHANGED job) \/ Leave(w, "idle")
  BY DEF OpenSlide, At, Labels
<1>2. UNCHANGED database /\ received' = received /\ FilesOK' /\ RestOK'
  BY <1>1, Kept, InvParts DEF FilesOK, Accounts
<1>3. CASE Goto(w, "FillSlide") /\ UNCHANGED job
  <2>1. StepOf(w, "FillSlide") /\ job'[w] = job[w]
    BY <1>3, InvParts, GotoStep
  <2>2. Relies("FillSlide", job[w], docs, nextId, received)
    BY <1>1, Own DEF Relies, HoldsDocument
  <2> QED BY <1>1, <1>2, <2>1, <2>2, QuietStep
<1>4. CASE Leave(w, "idle")
  <2>1. StepOf(w, "idle") /\ Relies("idle", job'[w], docs, nextId, received)
    BY <1>4, InvParts, LeaveStep
  <2> QED BY <1>1, <1>2, <2>1, QuietStep
<1> QED BY <1>1, <1>3, <1>4

LEMMA FillSlideStep ==
    ASSUME UploadInv, NEW w \in Workers, FillSlide(w)
    PROVE  UploadInv'
<1> DEFINE slide == <<job[w].md5, job[w].slide>>
<1>1. /\ pc[w] = "FillSlide" /\ "GetForData" \in Labels
      /\ UNCHANGED <<database, disk, memory, job, env>>
      /\ Goto(w, "GetForData")
      /\ \/ intact' = intact \cup {slide} /\ received' = received \cup {slide}
         \/ DiskFaults /\ UNCHANGED <<intact, received>>
  BY DEF FillSlide, At, Labels
<1>2. job[w].md5 \in Md5s /\ job[w].slide \in Slides
  BY <1>1, Own DEF Relies
<1>3. slide \in Md5s \X Slides
  BY <1>2
<1>4. Relies("GetForData", job[w], docs, nextId, received')
  <2>1. DiskFaults \/ slide \in received'
    BY <1>1
  <2> QED BY <1>2, <2>1, Zenon DEF Relies, HoldsDocument
<1> HIDE DEF slide
<1>5. received \subseteq received' /\ UNCHANGED database /\ FilesOK' /\ RestOK'
  <2>1. FilesOK
    BY InvParts DEF Accounts
  <2> QED BY <1>1, <1>3, <2>1, Kept DEF FilesOK
<1>6. StepOf(w, "GetForData") /\ job'[w] = job[w]
  BY <1>1, InvParts, GotoStep
<1> QED BY <1>1, <1>4, <1>5, <1>6, QuietStep

LEMMA RemoveSlideNoStep ==
    ASSUME UploadInv, NEW w \in Workers, RemoveSlideNo(w)
    PROVE  UploadInv'
<1>1. /\ pc[w] = "RemoveSlideNo" /\ "RemoveTransmission" \in Labels
      /\ UNCHANGED <<database, files, lock, job, env>>
      /\ onTrans' = [onTrans EXCEPT ![job[w].id] = @ \ {job[w].slide}]
      /\ Goto(w, "RemoveTransmission")
  BY DEF RemoveSlideNo, At, Labels
<1>2. UNCHANGED database /\ FilesOK' /\ received' = received
  BY <1>1, Kept
<1>3. RestOK'
  <2>1. RestOK
    BY InvParts
  <2> QED BY <1>1, <2>1 DEF RestOK, env
<1>4. StepOf(w, "RemoveTransmission") /\ job'[w] = job[w]
  BY <1>1, InvParts, GotoStep
<1>5. Relies("RemoveTransmission", job[w], docs, nextId, received)
  BY <1>1, Own DEF Relies, HoldsDocument
<1> QED BY <1>1, <1>2, <1>3, <1>4, <1>5, QuietStep

LEMMA GetNextSlideNoStep ==
    ASSUME UploadInv, NEW w \in Workers, GetNextSlideNo(w)
    PROVE  UploadInv'
<1> DEFINE next == MaxPlusOne(job[w].id)
<1>1. /\ pc[w] = "GetNext"
      /\ UNCHANGED <<database, files, memory, env>>
      /\ \/ /\ GetTransmission(job[w].id, next)
            /\ GotoWith(w, "Reply", [job[w] EXCEPT !.slide = next])
         \/ GotoWith(w, "HasTransmission", [job[w] EXCEPT !.slide = NoSlide])
  BY DEF GetNextSlideNo, At
<1> HIDE DEF next
<1>2. PICK j \in Job, label \in {"Reply", "HasTransmission"} :
          GotoWith(w, label, j) /\ j.md5 = job[w].md5 /\ j.id = job[w].id
  <2>1. ASSUME NEW s, [job[w] EXCEPT !.slide = s] \in Job
        PROVE  /\ [job[w] EXCEPT !.slide = s].md5 = job[w].md5
               /\ [job[w] EXCEPT !.slide = s].id = job[w].id
    BY Own DEF Job
  <2> QED BY <1>1, <2>1, NextIsASlide, NoSlideIsKept
<1>3. Relies(label, j, docs, nextId, received) /\ label \in Labels
  BY <1>1, <1>2, Own DEF Relies, HoldsDocument, Labels
<1> QED BY <1>1, <1>2, <1>3, QuietGotoWith

(* No document pending means that every slide was written, which is where  *)
(* PendingOrReceived is needed.                                            *)
LEMMA NothingPending ==
    ASSUME UploadInv, NEW d \in CompleteOf(docs), ~HasTransmission(d.id)
    PROVE  DiskFaults \/ \A s \in Slides : <<d.md5, s>> \in received
<1> SUFFICES ASSUME ~DiskFaults, NEW s \in Slides
             PROVE  <<d.md5, s>> \in received
  BY Zenon
<1>1. PendingOrReceived /\ DatabaseOK
  BY InvParts, Zenon DEF Accounts
<1>2. d.id \in Ids
  BY <1>1 DEF DatabaseOK, CompleteOf, Document
<1>3. pending[d.id][s] \in Nat
  BY <1>1, <1>2 DEF DatabaseOK
<1>4. pending[d.id][s] = 0
  BY <1>3 DEF HasTransmission
<1> QED BY <1>1, <1>4 DEF PendingOrReceived, Complete

LEMMA CheckAllReceivedStep ==
    ASSUME UploadInv, NEW w \in Workers, CheckAllReceived(w)
    PROVE  UploadInv'
<1>1. /\ pc[w] = "HasTransmission"
      /\ UNCHANGED <<database, files, onTrans, job, env>>
      /\ \/ Goto(w, "Reply") /\ UNCHANGED lock
         \/ /\ ~HasTransmission(job[w].id) \/ DriverFaults
            /\ Goto(w, "UpdateState") /\ lock' = w
  BY DEF CheckAllReceived, At
<1>2. UNCHANGED database /\ FilesOK' /\ received' = received
  BY <1>1, Kept
<1>3. RestOK'
  <2>1. RestOK
    BY InvParts
  <2> QED BY <1>1, <2>1 DEF RestOK, env
<1>4. CASE Goto(w, "Reply")
  <2>1. StepOf(w, "Reply") /\ job'[w] = job[w]
    BY <1>1, <1>4, InvParts, GotoStep
  <2>2. Relies("Reply", job[w], docs, nextId, received) /\ "Reply" \in Labels
    BY <1>1, Own DEF Relies, HoldsDocument, Labels
  <2> QED BY <1>2, <1>3, <2>1, <2>2, QuietStep
<1>5. CASE Goto(w, "UpdateState") /\ (~HasTransmission(job[w].id) \/ DriverFaults)
  <2>1. StepOf(w, "UpdateState") /\ job'[w] = job[w]
    BY <1>1, <1>5, InvParts, GotoStep
  <2>2. /\ job[w].id \in 1..(nextId - 1)
        /\ \A d \in docs : d.id = job[w].id => d \in CompleteOf(docs) /\ d.md5 = job[w].md5
    BY <1>1, Own DEF Relies, HoldsDocument
  <2>3. \/ DiskFaults \/ DriverFaults
        \/ \A d \in docs : d.id # job[w].id
        \/ \A s \in Slides : <<job[w].md5, s>> \in received
    BY <1>5, <2>2, NothingPending
  <2>4. job[w].md5 \in Md5s
    BY <1>1, Own DEF Relies
  <2>5. Relies("UpdateState", job[w], docs, nextId, received)
    BY <2>2, <2>3, <2>4 DEF Relies, HoldsDocument
  <2> QED BY <1>2, <1>3, <2>1, <2>5, QuietStep DEF Labels
<1> QED BY <1>1, <1>4, <1>5

(* ProcessDeleteFile: the steps that look something up.                    *)
LEMMA FindMd5ByIdStep ==
    ASSUME UploadInv, NEW w \in Workers, FindMd5ById(w)
    PROVE  UploadInv'
<1>1. /\ pc[w] = "GetMd5ById" /\ "RemoveFile" \in Labels
      /\ UNCHANGED <<database, files, memory, env>>
      /\ \/ \E d \in docs : /\ d.id = job[w].id
                            /\ GotoWith(w, "RemoveFile", [job[w] EXCEPT !.md5 = d.md5])
         \/ Leave(w, "idle")
  BY DEF FindMd5ById, At, Labels, OrNothing
<1>2. ASSUME NEW d \in docs, d.id = job[w].id,
             GotoWith(w, "RemoveFile", [job[w] EXCEPT !.md5 = d.md5])
      PROVE  UploadInv'
  <2>1. IdsUnique /\ d.md5 \in Md5s
    BY InvParts, Own DEF Accounts, Document
  <2>2. [job[w] EXCEPT !.md5 = d.md5] \in Job
    BY <2>1, Own DEF Job
  <2>3. PICK j \in Job : j = [job[w] EXCEPT !.md5 = d.md5]
    BY <2>2
  <2>4. j.md5 = d.md5 /\ j.id = d.id /\ d.id < nextId
    BY <1>2, <2>1, <2>3, Own DEF Job, IdsUnique
  <2>5. Relies("RemoveFile", j, docs, nextId, received)
    BY <2>1, <2>4 DEF Relies, HoldsDocument
  <2> QED BY <1>1, <1>2, <2>3, <2>5, QuietGotoWith
<1> QED BY <1>1, <1>2, QuietLeave

LEMMA FindIdStep ==
    ASSUME UploadInv, NEW w \in Workers, FindId(w)
    PROVE  UploadInv'
<1>1. /\ pc[w] = "GetId" /\ "GetReferenceNum" \in Labels
      /\ UNCHANGED <<database, files, memory, env>>
      /\ \/ \E d \in docs : GotoWith(w, "GetReferenceNum", [job[w] EXCEPT !.id = d.id])
         \/ Leave(w, "idle")
  BY DEF FindId, At, Labels, OrNothing, FirstOf, Having
<1>2. ASSUME NEW d \in docs, GotoWith(w, "GetReferenceNum", [job[w] EXCEPT !.id = d.id])
      PROVE  UploadInv'
  <2>1. d.id \in Ids
    BY Own DEF Document
  <2>2. [job[w] EXCEPT !.id = d.id] \in Job
    BY <2>1, Own DEF Job
  <2>3. PICK j \in Job : j = [job[w] EXCEPT !.id = d.id]
    BY <2>2
  <2>4. j.md5 = job[w].md5
    BY <2>3, Own DEF Job
  <2>5. Relies("GetReferenceNum", j, docs, nextId, received)
    BY <1>1, <2>4, Own DEF Relies, HoldsDocument
  <2> QED BY <1>1, <1>2, <2>3, <2>5, QuietGotoWith
<1> QED BY <1>1, <1>2, QuietLeave

LEMMA ReadReferenceNumStep ==
    ASSUME UploadInv, NEW w \in Workers, ReadReferenceNum(w)
    PROVE  UploadInv'
<1>1. /\ pc[w] = "GetReferenceNum" /\ "UpdateReferenceNum" \in Labels
      /\ UNCHANGED <<database, files, memory, env>>
      /\ \/ \E d \in docs : GotoWith(w, "UpdateReferenceNum", [job[w] EXCEPT !.num = d.refs])
         \/ Leave(w, "idle")
  BY DEF ReadReferenceNum, At, Labels, OrNothing
<1>2. ASSUME NEW d \in docs, GotoWith(w, "UpdateReferenceNum", [job[w] EXCEPT !.num = d.refs])
      PROVE  UploadInv'
  <2>1. d.refs \in Int
    BY Own DEF Document
  <2>2. [job[w] EXCEPT !.num = d.refs] \in Job
    BY <2>1, Own DEF Job
  <2>3. PICK j \in Job : j = [job[w] EXCEPT !.num = d.refs]
    BY <2>2
  <2>4. j.md5 = job[w].md5
    BY <2>3, Own DEF Job
  <2>5. Relies("UpdateReferenceNum", j, docs, nextId, received)
    BY <1>1, <2>4, Own DEF Relies, HoldsDocument
  <2> QED BY <1>1, <1>2, <2>3, <2>5, QuietGotoWith
<1> QED BY <1>1, <1>2, QuietLeave

-----------------------------------------------------------------------------
(* The steps that change the database.                                     *)
LEMMA DatabaseStep ==
    ASSUME UploadInv, NEW w \in Workers, NEW label \in Labels, StepOf(w, label),
           Accounts', RestOK',
           Persists(docs, nextId, received, docs', nextId', received'),
           Relies(label, job'[w], docs', nextId', received')
    PROVE  UploadInv'
<1>1. Accounts /\ Locals
  BY InvParts
<1>2. nextId \in Nat /\ nextId' \in Nat
  BY <1>1, BoundsAssumption DEF Accounts, DatabaseOK
<1>3. Locals'
  BY <1>1, <1>2, WorkerStep
<1> QED BY <1>3, InvPartsNext

(* An insertion: the new document has the next id and is not complete.     *)
Insertion(new) ==
    /\ new \in Document /\ new.id = nextId /\ new.state = NoState
    /\ nextId <= MaxDocs
    /\ docs' = docs \cup {new}
    /\ nextId' = nextId + 1
    /\ UNCHANGED <<pending, received>>

LEMMA InsertStep ==
    ASSUME UploadInv, NEW w \in Workers, NEW label \in Labels, StepOf(w, label),
           NEW new, Insertion(new), FilesOK', RestOK',
           Relies(label, job'[w], docs', nextId', received')
    PROVE  UploadInv'
<1>1. Accounts /\ DatabaseOK /\ IdsUnique
  BY InvParts DEF Accounts
<1>2. nextId \in Nat /\ nextId' \in 1..(MaxDocs + 1)
  BY <1>1, BoundsAssumption DEF DatabaseOK, Insertion
<1>3. DatabaseOK'
  BY <1>1, <1>2 DEF DatabaseOK, Insertion
<1>4. CompleteOf(docs') = CompleteOf(docs)
  BY DEF CompleteOf, Insertion
<1>5. \A d \in docs : d.id \in Nat /\ d.id < nextId
  <2>1. \A d \in docs : d.id \in Ids
    BY <1>1 DEF DatabaseOK, Document
  <2> QED BY <1>1, <2>1, IdsAreNat DEF IdsUnique
<1>6. IdsUnique'
  BY <1>1, <1>2, <1>5 DEF IdsUnique, Insertion
<1>7. /\ DiskFaults \/ PendingOrReceived'
      /\ DiskFaults \/ DriverFaults \/ FinishedIsReceived'
  <2>1. PendingOrReceived => PendingOrReceived'
    BY <1>4 DEF PendingOrReceived, Complete, Insertion
  <2>2. FinishedIsReceived => FinishedIsReceived'
    BY <1>4 DEF FinishedIsReceived, Complete, Whole, Insertion
  <2> QED BY <1>1, <2>1, <2>2, Zenon DEF Accounts
<1>8. Accounts'
  BY <1>3, <1>6, <1>7, Zenon DEF Accounts, DiskFaults, DriverFaults
<1>9. Persists(docs, nextId, received, docs', nextId', received')
  <2>1. nextId <= nextId' /\ received \subseteq received'
    BY <1>2 DEF Insertion
  <2>2. \A e \in docs' : e.id < nextId => e \in docs
    BY <1>2 DEF Insertion
  <2> QED BY <1>4, <2>1, <2>2 DEF Persists
<1> QED BY <1>8, <1>9, DatabaseStep

LEMMA ZeroIsInt == 0 \in Int
OBVIOUS

LEMMA NewDocument ==
    ASSUME NEW id \in Ids, NEW kind \in {"file", "filemd5"}, NEW m \in Md5s,
           NEW name \in Names \cup {""}, NEW new,
           new = [id |-> id, kind |-> kind, md5 |-> m, name |-> name,
                  state |-> NoState, refs |-> 0]
    PROVE  new \in Document
<1>1. ASSUME NEW refs \in Int
      PROVE  [id |-> id, kind |-> kind, md5 |-> m, name |-> name,
              state |-> NoState, refs |-> refs] \in Document
  BY Zenon DEF Document
<1> QED BY <1>1, ZeroIsInt, Zenon

LEMMA AddFileStep ==
    ASSUME UploadInv, NEW w \in Workers, AddFile(w)
    PROVE  UploadInv'
<1>1. PICK new : new = [id |-> nextId, kind |-> "file", md5 |-> job[w].md5,
                        name |-> job[w].name, state |-> NoState, refs |-> 0]
  OBVIOUS
<1>2. pc[w] = "AddFile" /\ nextId \in Ids /\ job[w].md5 \in Md5s /\ job[w] \in Job
  <2>1. DatabaseOK
    BY InvParts DEF Accounts
  <2>2. nextId \in Ids
    <3>1. nextId \in 1..(MaxDocs + 1) /\ nextId <= MaxDocs
      BY <2>1 DEF DatabaseOK, AddFile
    <3> QED BY <3>1, BoundsAssumption DEF Ids
  <2>3. pc[w] = "AddFile"
    BY DEF AddFile, At
  <2> QED BY <2>2, <2>3, Own DEF Relies
<1>3. Insertion(new)
  <2>1. new \in Document
    <3>1. job[w].name \in Names \cup {""}
      BY <1>2 DEF Job
    <3>2. "file" \in {"file", "filemd5"}
      OBVIOUS
    <3> QED BY <1>1, <1>2, <3>1, <3>2, NewDocument, Zenon
  <2> QED BY <1>1, <2>1 DEF Insertion, AddFile, files
<1>4. FilesOK' /\ RestOK'
  BY Kept DEF AddFile
<1>5. StepOf(w, "GetByMD5") /\ job'[w] = job[w] /\ "GetByMD5" \in Labels
  BY InvParts, GotoStep DEF AddFile, Labels
<1>6. Relies("GetByMD5", job[w], docs', nextId', received')
  BY <1>2 DEF Relies, HoldsDocument
<1> QED BY <1>3, <1>4, <1>5, <1>6, InsertStep

LEMMA AddFileMD5Step ==
    ASSUME UploadInv, NEW w \in Workers, AddFileMD5(w)
    PROVE  UploadInv'
<1>1. PICK new : new = [id |-> nextId, kind |-> "filemd5", md5 |-> job[w].md5,
                        name |-> "", state |-> NoState, refs |-> 0]
  OBVIOUS
<1>2. pc[w] = "AddFileMD5" /\ nextId \in Ids /\ job[w].md5 \in Md5s /\ FilesOK
  <2>1. DatabaseOK /\ FilesOK
    BY InvParts DEF Accounts
  <2>2. nextId \in Ids
    <3>1. nextId \in 1..(MaxDocs + 1) /\ nextId <= MaxDocs
      BY <2>1 DEF DatabaseOK, AddFileMD5
    <3> QED BY <3>1, BoundsAssumption DEF Ids
  <2>3. pc[w] = "AddFileMD5"
    BY DEF AddFileMD5, At
  <2> QED BY <2>1, <2>2, <2>3, Own DEF Relies
<1>3. Insertion(new)
  <2>1. new \in Document
    <3>1. "" \in Names \cup {""} /\ "filemd5" \in {"file", "filemd5"}
      OBVIOUS
    <3> QED BY <1>1, <1>2, <3>1, NewDocument, Zenon
  <2> QED BY <1>1, <2>1 DEF Insertion, AddFileMD5
<1>4. FilesOK'
  BY <1>2 DEF AddFileMD5, CreateFileMD5InDisk, Mkdir, FilesOK
<1>5. RestOK'
  BY Kept DEF AddFileMD5
<1>6. StepOf(w, "GetAdded") /\ job'[w] = job[w] /\ "GetAdded" \in Labels
  BY InvParts, GotoStep DEF AddFileMD5, Labels
<1>7. Relies("GetAdded", job[w], docs', nextId', received')
  BY <1>2 DEF Relies, HoldsDocument
<1> QED BY <1>3, <1>4, <1>5, <1>6, <1>7, InsertStep

(* The transmission documents of one slide change: they may become more,   *)
(* and fewer once the slide has been written.                              *)
LEMMA PendingStep ==
    ASSUME UploadInv, NEW w \in Workers, NEW label \in Labels, StepOf(w, label),
           NEW id, NEW s, NEW n \in Nat,
           pending' = [pending EXCEPT ![id][s] = n],
           UNCHANGED <<docs, nextId>>, UNCHANGED files, RestOK',
           n > 0 \/ DiskFaults \/ \A d \in Complete : d.id = id => <<d.md5, s>> \in received,
           Relies(label, job'[w], docs, nextId, received)
    PROVE  UploadInv'
<1>1. Accounts /\ DatabaseOK
  BY InvParts DEF Accounts
<1>2. UNCHANGED <<docs, nextId, received>> /\ FilesOK'
  BY Kept DEF files
<1>3. DatabaseOK' /\ IdsUnique'
  BY <1>1, <1>2 DEF DatabaseOK, Accounts, IdsUnique
<1>4. DiskFaults \/ PendingOrReceived'
  <2> SUFFICES ASSUME ~DiskFaults, NEW d \in Complete', NEW t \in Slides, pending'[d.id][t] = 0
               PROVE  <<d.md5, t>> \in received'
    BY Zenon DEF PendingOrReceived
  <2>1. d \in Complete /\ PendingOrReceived
    BY <1>1, <1>2 DEF Complete, CompleteOf, Accounts
  <2>2. CASE d.id = id /\ t = s
    <3>1. d.id \in Ids
      BY <1>1, <2>1 DEF DatabaseOK, Complete, CompleteOf, Document
    <3>2. pending'[d.id][t] = n
      BY <1>1, <2>2, <3>1 DEF DatabaseOK
    <3> QED BY <1>2, <2>1, <2>2, <3>2
  <2>3. CASE ~(d.id = id /\ t = s)
    <3>1. d.id \in Ids
      BY <1>1, <2>1 DEF DatabaseOK, Complete, CompleteOf, Document
    <3>2. pending'[d.id][t] = pending[d.id][t]
      BY <1>1, <2>3, <3>1 DEF DatabaseOK
    <3> QED BY <1>2, <2>1, <3>2 DEF PendingOrReceived
  <2> QED BY <2>2, <2>3
<1>5. DiskFaults \/ DriverFaults \/ FinishedIsReceived'
  <2>1. FinishedIsReceived => FinishedIsReceived'
    BY <1>2 DEF FinishedIsReceived, Complete, Whole
  <2> QED BY <1>1, <2>1, Zenon DEF Accounts
<1>6. Accounts'
  BY <1>2, <1>3, <1>4, <1>5, Zenon DEF Accounts, DiskFaults, DriverFaults
<1>7. nextId \in Nat
  BY <1>1, IdsAreNat DEF DatabaseOK
<1>8. Persists(docs, nextId, received, docs', nextId', received')
  BY <1>2, <1>7 DEF Persists, CompleteOf
<1> QED BY <1>2, <1>6, <1>8, DatabaseStep

(* A handler that holds a filemd5's id holds an id.                        *)
LEMMA HeldId ==
    ASSUME UploadInv, NEW w \in Workers, pc[w] \in HoldsDocument
    PROVE  job[w].id \in Ids
<1>1. job[w].id \in 1..(nextId - 1) /\ nextId \in 1..(MaxDocs + 1)
  BY Own, InvParts DEF Relies, Accounts, DatabaseOK
<1> QED BY <1>1, BoundsAssumption DEF Ids

LEMMA AddTransmissionStep ==
    ASSUME UploadInv, NEW w \in Workers, AddTransmission(w)
    PROVE  UploadInv'
<1> DEFINE n == pending[job[w].id][job[w].num] + 1
<1>1. /\ pc[w] = "AddAll" /\ job[w].num \in Slides
      /\ pending' = [pending EXCEPT ![job[w].id][job[w].num] = n]
      /\ job' = [job EXCEPT ![w].num = job[w].num + 1]
      /\ UNCHANGED <<docs, nextId, files, memory, pc, env>>
  BY DEF AddTransmission, At
<1>3. job[w].id \in Ids
  BY <1>1, HeldId DEF HoldsDocument
<1>4. n \in Nat /\ n > 0
  <2>1. pending \in [Ids -> [Slides -> Nat]]
    BY InvParts DEF Accounts, DatabaseOK
  <2>2. pending[job[w].id][job[w].num] \in Nat
    BY <1>1, <1>3, <2>1
  <2> QED BY <2>2
<1> HIDE DEF n
<1>5. /\ StepOf(w, "AddAll") /\ "AddAll" \in Labels
      /\ job'[w].md5 = job[w].md5 /\ job'[w].id = job[w].id
  <2>1. job[w].num + 1 \in Int
    BY <1>1 DEF Slides
  <2>2. pc \in [Workers -> Labels] /\ job \in [Workers -> Job]
    BY InvParts DEF Locals
  <2>3. job'[w] = [job[w] EXCEPT !.num = job[w].num + 1]
    BY <1>1, <2>2
  <2>4. job'[w] \in Job /\ job'[w].md5 = job[w].md5 /\ job'[w].id = job[w].id
    BY <2>1, <2>2, <2>3 DEF Job
  <2>5. job' = [job EXCEPT ![w] = job'[w]]
    BY <1>1, <2>2, <2>3
  <2> QED BY <1>1, <2>2, <2>4, <2>5 DEF StepOf, Labels
<1>6. Relies("AddAll", job'[w], docs, nextId, received)
  BY <1>1, <1>5, Own DEF Relies
<1>7. RestOK'
  BY <1>1, Kept
<1> QED BY <1>1, <1>4, <1>5, <1>6, <1>7, PendingStep

LEMMA RemoveTransmissionStep ==
    ASSUME UploadInv, NEW w \in Workers, RemoveTransmission(w)
    PROVE  UploadInv'
<1> DEFINE n == pending[job[w].id][job[w].slide] - 1
<1>1. /\ pc[w] = "RemoveTransmission" /\ "GetNext" \in Labels
      /\ UNCHANGED <<docs, nextId, files, memory, env>>
      /\ \/ /\ GetTransmission(job[w].id, job[w].slide)
            /\ pending' = [pending EXCEPT ![job[w].id][job[w].slide] = n]
            /\ Goto(w, "GetNext") /\ UNCHANGED job
         \/ Leave(w, "idle") /\ UNCHANGED pending
  BY DEF RemoveTransmission, At, Labels
<1>2. CASE Leave(w, "idle") /\ UNCHANGED pending
  BY <1>1, <1>2, QuietLeave DEF database
<1>3. CASE /\ GetTransmission(job[w].id, job[w].slide)
           /\ pending' = [pending EXCEPT ![job[w].id][job[w].slide] = n]
           /\ Goto(w, "GetNext") /\ UNCHANGED job
  <2>2. job[w].id \in Ids
    BY <1>1, HeldId DEF HoldsDocument
  <2>3. n \in Nat
    <3>1. pending \in [Ids -> [Slides -> Nat]]
      BY InvParts DEF Accounts, DatabaseOK
    <3>2. job[w].slide \in Slides /\ pending[job[w].id][job[w].slide] > 0
      BY <1>3 DEF GetTransmission
    <3>3. pending[job[w].id][job[w].slide] \in Nat
      BY <2>2, <3>1, <3>2
    <3> QED BY <3>2, <3>3
  <2> HIDE DEF n
  <2>4. DiskFaults \/ \A e \in Complete : e.id = job[w].id => <<e.md5, job[w].slide>> \in received
    <3>2. \A e \in Complete : e.id = job[w].id => e.md5 = job[w].md5
      BY <1>1, Own DEF Relies, HoldsDocument, Complete, CompleteOf
    <3>3. DiskFaults \/ <<job[w].md5, job[w].slide>> \in received
      BY <1>1, Own DEF Relies
    <3> QED BY <3>2, <3>3
  <2>5. StepOf(w, "GetNext") /\ job'[w] = job[w]
    BY <1>3, InvParts, GotoStep
  <2>6. Relies("GetNext", job[w], docs, nextId, received)
    BY <1>1, Own DEF Relies, HoldsDocument
  <2>7. RestOK'
    BY <1>1, Kept
  <2> QED BY <1>1, <1>3, <2>3, <2>4, <2>5, <2>6, <2>7, PendingStep
<1> QED BY <1>1, <1>2, <1>3

(* Documents are updated or removed: every document that is there after    *)
(* was there before, and a new state is a 1 that is justified.             *)
Justified(d, e) ==
    \/ e.state = d.state
    \/ d \in Complete /\ e.state = 1 /\ (DiskFaults \/ DriverFaults \/ Whole(d.md5))

Revision ==
    /\ \A e \in docs' :
          /\ e \in Document
          /\ \E d \in docs : /\ e.id = d.id /\ e.kind = d.kind /\ e.md5 = d.md5
                            /\ Justified(d, e)
    /\ \A e, f \in docs' : e.id = f.id => e = f
    /\ UNCHANGED <<nextId, pending, received>>

LEMMA RevisionStep ==
    ASSUME UploadInv, NEW w \in Workers, NEW label \in Labels, StepOf(w, label),
           Revision, FilesOK', RestOK',
           Relies(label, job'[w], docs', nextId', received')
    PROVE  UploadInv'
<1>1. Accounts /\ DatabaseOK /\ IdsUnique /\ nextId \in Nat
  BY InvParts, IdsAreNat DEF Accounts, DatabaseOK
<1>2. DatabaseOK'
  BY <1>1 DEF DatabaseOK, Revision
<1>3. IdsUnique'
  <2>1. \A e \in docs' : e.id < nextId'
    BY <1>1 DEF IdsUnique, Revision
  <2> QED BY <2>1, Zenon DEF IdsUnique, Revision
<1>4. ASSUME NEW e \in Complete'
      PROVE  \E d \in Complete : e.id = d.id /\ e.md5 = d.md5 /\ Justified(d, e)
  <2>1. e \in docs' /\ e.kind = "filemd5" /\ e.state # NoState
    BY DEF Complete, CompleteOf
  <2>2. PICK d \in docs : /\ e.id = d.id /\ e.kind = d.kind /\ e.md5 = d.md5
                         /\ Justified(d, e)
    BY <2>1, Zenon DEF Revision
  <2>3. d \in Complete
    BY <2>1, <2>2, Zenon DEF Justified, Complete, CompleteOf
  <2> QED BY <2>2, <2>3
<1>5. PendingOrReceived => PendingOrReceived'
  BY <1>4 DEF PendingOrReceived, Revision
<1>6. FinishedIsReceived => DiskFaults \/ DriverFaults \/ FinishedIsReceived'
  <2> SUFFICES ASSUME FinishedIsReceived, ~DiskFaults, ~DriverFaults,
                      NEW e \in Complete', e.state = 1
               PROVE  Whole(e.md5)'
    BY Zenon DEF FinishedIsReceived
  <2>1. PICK d \in Complete : e.md5 = d.md5 /\ Justified(d, e)
    BY <1>4
  <2>2. Whole(d.md5)
    BY <2>1, Zenon DEF Justified, FinishedIsReceived
  <2> QED BY <2>1, <2>2 DEF Whole, Revision
<1>7. Accounts'
  BY <1>1, <1>2, <1>3, <1>5, <1>6, Zenon DEF Accounts, DiskFaults, DriverFaults
<1>8. Persists(docs, nextId, received, docs', nextId', received')
  <2>1. nextId <= nextId' /\ received \subseteq received'
    BY <1>1 DEF Revision
  <2>2. ASSUME NEW e \in docs'
        PROVE  \E d \in docs : /\ d.id = e.id /\ d.md5 = e.md5
                               /\ d \in CompleteOf(docs) => e \in CompleteOf(docs')
    <3>1. PICK d \in docs : /\ e.id = d.id /\ e.kind = d.kind /\ e.md5 = d.md5
                           /\ Justified(d, e)
      BY Zenon DEF Revision
    <3>2. e.state = d.state \/ e.state = 1
      BY <3>1, Zenon DEF Justified
    <3> QED BY <3>1, <3>2 DEF CompleteOf, NoState
  <2> QED BY <2>1, <2>2, Zenon DEF Persists
<1> QED BY <1>7, <1>8, DatabaseStep

LEMMA RemoveFileStep ==
    ASSUME UploadInv, NEW w \in Workers, RemoveFile(w)
    PROVE  UploadInv'
<1>1. /\ pc[w] = "RemoveFile" /\ "GetId" \in Labels
      /\ UNCHANGED <<nextId, pending, files, memory, env>>
      /\ \/ /\ docs' = docs \ {d \in docs : d.id = job[w].id}
            /\ Goto(w, "GetId") /\ UNCHANGED job
         \/ Leave(w, "idle") /\ UNCHANGED docs
  BY DEF RemoveFile, At, Labels
<1>2. CASE Leave(w, "idle") /\ UNCHANGED docs
  BY <1>1, <1>2, QuietLeave DEF database
<1>3. CASE /\ docs' = docs \ {d \in docs : d.id = job[w].id}
           /\ Goto(w, "GetId") /\ UNCHANGED job
  <2>1. IdsUnique /\ docs \subseteq Document
    BY InvParts, Own DEF Accounts
  <2>4. Revision
    BY <1>1, <1>3, <2>1 DEF Revision, Justified, IdsUnique, files
  <2>5. StepOf(w, "GetId") /\ job'[w] = job[w]
    BY <1>3, InvParts, GotoStep
  <2>6. Relies("GetId", job[w], docs', nextId', received')
    BY <1>1, Own DEF Relies, HoldsDocument
  <2>7. FilesOK' /\ RestOK'
    BY <1>1, Kept
  <2> QED BY <1>1, <2>4, <2>5, <2>6, <2>7, RevisionStep
<1> QED BY <1>1, <1>2, <1>3

LEMMA UpdateReferenceNumStep ==
    ASSUME UploadInv, NEW w \in Workers, UpdateReferenceNum(w)
    PROVE  UploadInv'
<1> DEFINE SetRefs(d) == IF d.id = job[w].id THEN [d EXCEPT !.refs = job[w].num - 1] ELSE d
<1>1. /\ docs' = {SetRefs(d) : d \in docs} \/ docs' = docs
      /\ Leave(w, "idle") /\ "idle" \in Labels
      /\ UNCHANGED <<nextId, pending, files, memory, env>>
  BY DEF UpdateReferenceNum, Labels
<1>2. IdsUnique /\ docs \subseteq Document
  BY InvParts, Own DEF Accounts
<1>3. job[w].num - 1 \in Int
  <2>1. job[w].num \in Int
    BY Own DEF Job
  <2> QED BY <2>1
<1>4. ASSUME NEW d \in docs
      PROVE  /\ SetRefs(d) \in Document
             /\ SetRefs(d).id = d.id /\ SetRefs(d).kind = d.kind
             /\ SetRefs(d).md5 = d.md5 /\ SetRefs(d).state = d.state
  BY <1>2, <1>3 DEF Document
<1> HIDE DEF SetRefs
<1>5. Revision
  <2>1. CASE docs' = docs
    BY <1>1, <1>2, <2>1 DEF Revision, Justified, IdsUnique, files, Complete
  <2>2. CASE docs' = {SetRefs(d) : d \in docs}
    <3>1. \A e \in docs' :
              /\ e \in Document
              /\ \E d \in docs : /\ e.id = d.id /\ e.kind = d.kind /\ e.md5 = d.md5
                                /\ Justified(d, e)
      BY <1>4, <2>2 DEF Justified
    <3>3. \A e, f \in docs' : e.id = f.id => e = f
      BY <1>2, <1>4, <2>2 DEF IdsUnique
    <3> QED BY <1>1, <3>1, <3>3, Zenon DEF Revision, files
  <2> QED BY <1>1, <2>1, <2>2
<1>6. StepOf(w, "idle") /\ Relies("idle", job'[w], docs', nextId', received')
  BY <1>1, InvParts, LeaveStep
<1>7. FilesOK' /\ RestOK'
  BY <1>1, Kept
<1> QED BY <1>1, <1>5, <1>6, <1>7, RevisionStep

LEMMA UpdateStateStep ==
    ASSUME UploadInv, NEW w \in Workers, UpdateState(w)
    PROVE  UploadInv'
<1> DEFINE SetState(d) == IF d.id = job[w].id THEN [d EXCEPT !.state = 1] ELSE d
<1>1. /\ pc[w] = "UpdateState" /\ "Reply" \in Labels
      /\ docs' = {SetState(d) : d \in docs} \/ docs' = docs
      /\ lock' = "" /\ Goto(w, "Reply")
      /\ UNCHANGED <<nextId, pending, files, onTrans, job, env>>
  BY DEF UpdateState, At, Labels
<1>2. IdsUnique /\ docs \subseteq Document
  BY InvParts, Own DEF Accounts
<1>3. ASSUME NEW d \in docs
      PROVE  /\ SetState(d) \in Document
             /\ SetState(d).id = d.id /\ SetState(d).kind = d.kind
             /\ SetState(d).md5 = d.md5
             /\ \/ SetState(d).state = d.state
                \/ d.id = job[w].id /\ SetState(d).state = 1
  BY <1>2 DEF Document
<1> HIDE DEF SetState
<1>4. ASSUME NEW d \in docs, d.id = job[w].id
      PROVE  d \in Complete /\ (DiskFaults \/ DriverFaults \/ Whole(d.md5))
  <2>1. d \in CompleteOf(docs) /\ d.md5 = job[w].md5
    BY <1>1, <1>4, Own DEF Relies, HoldsDocument
  <2>2. DiskFaults \/ DriverFaults \/ \A s \in Slides : <<job[w].md5, s>> \in received
    BY <1>1, <1>4, Own, Zenon DEF Relies
  <2> QED BY <2>1, <2>2, Zenon DEF Complete, Whole
<1>5. Revision
  <2>1. CASE docs' = docs
    BY <1>1, <1>2, <2>1 DEF Revision, Justified, IdsUnique, files, Complete
  <2>2. CASE docs' = {SetState(d) : d \in docs}
    <3>1. \A e \in docs' :
              /\ e \in Document
              /\ \E d \in docs : /\ e.id = d.id /\ e.kind = d.kind /\ e.md5 = d.md5
                                /\ Justified(d, e)
      <4> SUFFICES ASSUME NEW d \in docs
                   PROVE  Justified(d, SetState(d))
        BY <1>3, <2>2
      <4> QED BY <1>3, <1>4, Zenon DEF Justified
    <3>3. \A e, f \in docs' : e.id = f.id => e = f
      BY <1>2, <1>3, <2>2 DEF IdsUnique
    <3> QED BY <1>1, <3>1, <3>3, Zenon DEF Revision, files
  <2> QED BY <1>1, <2>1, <2>2
<1>6. StepOf(w, "Reply") /\ job'[w] = job[w]
  BY <1>1, InvParts, GotoStep
<1>7. Relies("Reply", job[w], docs', nextId', received')
  BY <1>1, Own DEF Relies, HoldsDocument
<1>8. FilesOK' /\ RestOK'
  <2>1. RestOK
    BY InvParts
  <2>2. RestOK'
    BY <1>1, <2>1 DEF RestOK, env
  <2> QED BY <1>1, <2>2, Kept
<1> QED BY <1>1, <1>5, <1>6, <1>7, <1>8, RevisionStep

(* A kill ends every handler.                                              *)
LEMMA CrashStep ==
    ASSUME UploadInv, Crash
    PROVE  UploadInv'
<1>1. Accounts /\ RestOK
  BY InvParts
<1>2. UNCHANGED database /\ FilesOK' /\ received' = received
  BY Kept DEF Crash
<1>3. Accounts'
  BY <1>1, <1>2, QuietAccounts
<1>4. RestOK'
  <2>1. crashes' \in 0..MaxCrashes
    <3>1. crashes \in 0..MaxCrashes
      BY <1>1 DEF RestOK
    <3>2. crashes < MaxCrashes /\ crashes' = crashes + 1
      BY DEF Crash
    <3> QED BY <3>1, <3>2, BoundsAssumption
  <2> QED BY <1>1, <2>1 DEF RestOK, Crash
<1>5. Locals'
  <2>1. "idle" \in Labels
    BY DEF Labels
  <2>2. ASSUME NEW w \in Workers
        PROVE  Relies(pc'[w], job'[w], docs', nextId', received')
    <3>1. pc'[w] = "idle"
      BY DEF Crash
    <3> QED BY <3>1 DEF Relies, HoldsDocument
  <2> QED BY <2>1, <2>2, NoJobIsJob DEF Locals, Crash
<1> QED BY <1>3, <1>4, <1>5, InvPartsNext

LEMMA InitInv == Init => UploadInv
<1> SUFFICES ASSUME Init
             PROVE  UploadInv
  OBVIOUS
<1>1. PICK x \in Seeds :
          /\ docs = x.docs /\ nextId = x.nextId /\ pending = x.pending
          /\ disk = x.disk /\ intact = x.received /\ received = x.received
  BY DEF Init
<1>2. Consistent(x)
  BY SeedsAssumption
<1>3. DatabaseOK /\ FilesOK /\ IdsUnique
  BY <1>1, <1>2 DEF Consistent, DatabaseOK, FilesOK, IdsUnique
<1>4. PendingOrReceived /\ FinishedIsReceived
  BY <1>1, <1>2 DEF Consistent, PendingOrReceived, FinishedIsReceived, Complete, Whole
<1>5. Accounts
  BY <1>3, <1>4, Zenon DEF Accounts
<1>6. RestOK
  <2>1. requests \in 0..MaxRequests /\ crashes \in 0..MaxCrashes
    <3>1. requests = 0 /\ crashes = 0
      BY DEF Init
    <3> QED BY <3>1, BoundsAssumption
  <2> QED BY <2>1 DEF Init, RestOK
<1>7. Locals
  <2>1. "idle" \in Labels
    BY DEF Labels
  <2>2. ASSUME NEW w \in Workers
        PROVE  Relies(pc[w], job[w], docs, nextId, received)
    <3>1. pc[w] = "idle"
      BY DEF Init
    <3> QED BY <3>1 DEF Relies, HoldsDocument
  <2> QED BY <2>1, <2>2, NoJobIsJob DEF Locals, Init
<1> QED BY <1>5, <1>6, <1>7, InvParts

LEMMA NextInv == UploadInv /\ [Next]_vars => UploadInv'
<1> SUFFICES ASSUME UploadInv, [Next]_vars
             PROVE  UploadInv'
  OBVIOUS
<1>1. CASE Crash
  BY <1>1, CrashStep
<1>2. ASSUME NEW w \in Workers, Request(w)
      PROVE  UploadInv'
  BY <1>2, UploadFileStep, UploadDataStep, DeleteFileStep DEF Request
<1>3. ASSUME NEW w \in Workers, Handler(w)
      PROVE  UploadInv'
  <2>1. CASE \/ FindFile(w) \/ AddFile(w) \/ FindFileMD5(w) \/ AddFileMD5(w)
             \/ FindAdded(w) \/ AddTransmission(w) \/ AddAllEnds(w) \/ InsertFails(w)
             \/ FindForSlide(w) \/ AddNextSlideNo(w) \/ Reply(w)
    BY <2>1, FindFileStep, AddFileStep, FindFileMD5Step, AddFileMD5Step, FindAddedStep,
       AddTransmissionStep, AddAllEndsStep, InsertFailsStep, FindForSlideStep,
       AddNextSlideNoStep, ReplyStep, Zenon
  <2>2. CASE \/ OpenSlide(w) \/ FillSlide(w) \/ FindForData(w) \/ RemoveSlideNo(w)
             \/ RemoveTransmission(w) \/ GetNextSlideNo(w) \/ CheckAllReceived(w)
             \/ UpdateState(w)
    BY <2>2, OpenSlideStep, FillSlideStep, FindForDataStep, RemoveSlideNoStep,
       RemoveTransmissionStep, GetNextSlideNoStep, CheckAllReceivedStep, UpdateStateStep,
       Zenon
  <2>3. CASE \/ FindMd5ById(w) \/ RemoveFile(w) \/ FindId(w)
             \/ ReadReferenceNum(w) \/ UpdateReferenceNum(w)
    BY <2>3, FindMd5ByIdStep, RemoveFileStep, FindIdStep, ReadReferenceNumStep,
       UpdateReferenceNumStep, Zenon
  <2> QED BY <1>3, <2>1, <2>2, <2>3, Zenon DEF Handler
<1>4. CASE UNCHANGED vars
  <2>1. UNCHANGED <<docs, nextId, pending, disk, intact, received, onTrans, lock, pc, job,
                    told, requests, crashes>>
    BY <1>4 DEF vars, database, files, memory, env
  <2>2. UploadInv' <=> UploadInv
    BY <2>1 DEF UploadInv, TypeOK, IdsUnique, PendingOrReceived, FinishedIsReceived,
                Complete, Whole
  <2> QED BY <2>2
<1> QED BY <1>1, <1>2, <1>3, <1>4 DEF Next

(* The invariant holds, whatever fails: all that a handler relies on while *)
(* others run, and what the accounts of the slides promise.                *)
THEOREM UploadSafe == Spec => []UploadInv
BY InitInv, NextInv, PTL DEF Spec

(* The types, for the record.                                              *)
THEOREM TypeCorrect == Spec => []TypeOK
<1>1. UploadInv => TypeOK
  BY DEF UploadInv
<1> QED BY <1>1, UploadSafe, PTL

(* A slide is no longer owed only if it has been written, whichever calls  *)
(* of the driver throw and whenever the process is killed.                 *)
THEOREM SlidesAreOwedUntilWritten ==
    ASSUME ~DiskFaults
    PROVE  Spec => []PendingOrReceived
<1>1. UploadInv => PendingOrReceived
  BY DEF UploadInv
<1> QED BY <1>1, UploadSafe, PTL

(* A filemd5 has state 1 only if all its slides have been written, for any *)
(* number of workers, although nothing makes the check of "all are         *)
(* received" and the update one step.                                      *)
THEOREM FinishedIsWritten ==
    ASSUME ~DiskFaults, ~DriverFaults
    PROVE  Spec => []FinishedIsReceived
<1>1. UploadInv => FinishedIsReceived
  BY DEF UploadInv
<1> QED BY <1>1, UploadSafe, PTL

-----------------------------------------------------------------------------
(* The ledger.  Most steps leave its four variables alone.                 *)
Opened == {[id |-> d.id, md5 |-> d.md5] : d \in Complete}

OwedSlides == [id \in Ids |-> {s \in Slides : IsOpen(id) /\ pending[id][s] > 0}]

FinishedIds == {d.id : d \in {e \in Complete : e.state = 1}}

LEMMA LedgerVars == Ledger!vars = <<Opened, OwedSlides, received, FinishedIds>>
BY Zenon DEF Ledger!vars, Opened, OwedSlides, FinishedIds

LEMMA LedgerSilent ==
    ASSUME UNCHANGED <<pending, received>>, Complete' = Complete
    PROVE  UNCHANGED Ledger!vars
<1>1. Opened' = Opened /\ OwedSlides' = OwedSlides /\ FinishedIds' = FinishedIds
  BY DEF Opened, OwedSlides, FinishedIds, IsOpen
<1> QED BY <1>1 DEF Ledger!vars, Opened, OwedSlides, FinishedIds

LEMMA QuietHandler ==
    ASSUME NEW w \in Workers,
           \/ FindFile(w) \/ FindFileMD5(w) \/ FindAdded(w) \/ AddAllEnds(w)
           \/ InsertFails(w) \/ FindForSlide(w) \/ AddNextSlideNo(w) \/ Reply(w)
           \/ OpenSlide(w) \/ FindForData(w) \/ RemoveSlideNo(w) \/ GetNextSlideNo(w)
           \/ CheckAllReceived(w) \/ FindMd5ById(w) \/ FindId(w) \/ ReadReferenceNum(w)
    PROVE  UNCHANGED Ledger!vars
<1>1. UNCHANGED <<docs, pending, received>>
  BY DEF FindFile, FindFileMD5, FindAdded, AddAllEnds, InsertFails, FindForSlide,
         AddNextSlideNo, Reply, OpenSlide, FindForData, RemoveSlideNo, GetNextSlideNo,
         CheckAllReceived, FindMd5ById, FindId, ReadReferenceNum, database, files
<1> QED BY <1>1, LedgerSilent DEF Complete

LEMMA InsertIsSilent ==
    ASSUME UploadInv, NEW w \in Workers, AddFile(w) \/ AddFileMD5(w)
    PROVE  UNCHANGED Ledger!vars
<1>1. UNCHANGED <<pending, received>>
  BY DEF AddFile, AddFileMD5, files
<1>2. PICK new : new.state = NoState /\ docs' = docs \cup {new}
  BY DEF AddFile, AddFileMD5
<1>3. Complete' = Complete
  BY <1>2 DEF Complete, CompleteOf
<1> QED BY <1>1, <1>3, LedgerSilent

LEMMA FillSlideReceives ==
    ASSUME UploadInv, NEW w \in Workers, FillSlide(w)
    PROVE  Ledger!Receive \/ UNCHANGED Ledger!vars
<1>1. UNCHANGED <<docs, pending>> /\ pc[w] = "FillSlide"
  BY DEF FillSlide, At, database
<1>2. Opened' = Opened /\ OwedSlides' = OwedSlides /\ FinishedIds' = FinishedIds
  BY <1>1 DEF Opened, OwedSlides, FinishedIds, Complete, IsOpen
<1>3. \/ received' = received \cup {<<job[w].md5, job[w].slide>>}
      \/ received' = received
  BY DEF FillSlide
<1>4. job[w].md5 \in Md5s /\ job[w].slide \in Slides
  BY <1>1, Own DEF Relies
<1>5. (\E m \in Md5s, s \in Slides : received' = received \cup {<<m, s>>}) \/ received' = received
  BY <1>3, <1>4
<1> QED BY <1>2, <1>5, Zenon DEF Ledger!Receive, Ledger!vars, Opened, OwedSlides, FinishedIds

LEMMA AddTransmissionOwes ==
    ASSUME UploadInv, NEW w \in Workers, AddTransmission(w)
    PROVE  Ledger!Owe \/ UNCHANGED Ledger!vars
<1>1. /\ pc[w] = "AddAll" /\ job[w].num \in Slides
      /\ pending' = [pending EXCEPT ![job[w].id][job[w].num] = @ + 1]
      /\ UNCHANGED <<docs, received>>
  BY DEF AddTransmission, At, files
<1>2. Complete' = Complete /\ Opened' = Opened /\ FinishedIds' = FinishedIds
  BY <1>1 DEF Opened, FinishedIds, Complete
<1>3. job[w].id \in Ids /\ pending \in [Ids -> [Slides -> Nat]]
  BY <1>1, HeldId, InvParts DEF HoldsDocument, Accounts, DatabaseOK
<1>4. pending'[job[w].id][job[w].num] > 0
  <2>1. pending[job[w].id][job[w].num] \in Nat
    BY <1>1, <1>3
  <2>2. pending'[job[w].id][job[w].num] = pending[job[w].id][job[w].num] + 1
    BY <1>1, <1>3
  <2> QED BY <2>1, <2>2
<1>5. \A id \in Ids, s \in Slides :
          id # job[w].id \/ s # job[w].num => pending'[id][s] = pending[id][s]
  BY <1>1, <1>3
<1>6. CASE ~IsOpen(job[w].id)
  <2>1. OwedSlides' = OwedSlides
    BY <1>2, <1>5, <1>6 DEF OwedSlides, IsOpen
  <2> QED BY <1>1, <1>2, <2>1 DEF Ledger!vars, Opened, OwedSlides, FinishedIds
<1>7. CASE IsOpen(job[w].id)
  <2>1. PICK d \in Complete : d.id = job[w].id
    BY <1>7 DEF IsOpen
  <2>2. OwedSlides' = [OwedSlides EXCEPT ![job[w].id] = @ \cup {job[w].num}]
    <3>1. \A id \in Ids : id # job[w].id => OwedSlides'[id] = OwedSlides[id]
      BY <1>2, <1>5 DEF OwedSlides, IsOpen
    <3>2. OwedSlides'[job[w].id] = OwedSlides[job[w].id] \cup {job[w].num}
      BY <1>1, <1>2, <1>3, <1>4, <1>5, <2>1 DEF OwedSlides, IsOpen
    <3> QED BY <1>3, <3>1, <3>2 DEF OwedSlides
  <2>3. \E a \in Opened, s \in Slides : OwedSlides' = [OwedSlides EXCEPT ![a.id] = @ \cup {s}]
    <3>1. PICK a : a = [id |-> d.id, md5 |-> d.md5]
      OBVIOUS
    <3>2. a \in Opened /\ a.id = job[w].id
      BY <2>1, <3>1 DEF Opened
    <3> QED BY <1>1, <2>2, <3>2
  <2> QED BY <1>1, <1>2, <2>3, Zenon DEF Ledger!Owe, Opened, OwedSlides, FinishedIds
<1> QED BY <1>6, <1>7

LEMMA RemoveTransmissionStrikes ==
    ASSUME UploadInv, ~DiskFaults, NEW w \in Workers, RemoveTransmission(w)
    PROVE  Ledger!Strike \/ UNCHANGED Ledger!vars
<1>1. /\ pc[w] = "RemoveTransmission"
      /\ UNCHANGED <<docs, received>>
      /\ \/ /\ GetTransmission(job[w].id, job[w].slide)
            /\ pending' = [pending EXCEPT ![job[w].id][job[w].slide] = @ - 1]
         \/ UNCHANGED pending
  BY DEF RemoveTransmission, At, files
<1>2. CASE UNCHANGED pending
  BY <1>1, <1>2, LedgerSilent DEF Complete
<1>3. CASE /\ GetTransmission(job[w].id, job[w].slide)
           /\ pending' = [pending EXCEPT ![job[w].id][job[w].slide] = @ - 1]
  <2>1. Complete' = Complete /\ Opened' = Opened /\ FinishedIds' = FinishedIds
    BY <1>1 DEF Opened, FinishedIds, Complete
  <2>2. /\ job[w].id \in Ids /\ pending \in [Ids -> [Slides -> Nat]]
        /\ job[w].slide \in Slides /\ <<job[w].md5, job[w].slide>> \in received
    BY <1>1, HeldId, Own, InvParts DEF HoldsDocument, Accounts, DatabaseOK, Relies
  <2>3. \A id \in Ids, s \in Slides :
            id # job[w].id \/ s # job[w].slide => pending'[id][s] = pending[id][s]
    BY <1>3, <2>2
  <2>4. CASE pending'[job[w].id][job[w].slide] > 0 \/ ~IsOpen(job[w].id)
    <3>1. pending[job[w].id][job[w].slide] > 0
      BY <1>3 DEF GetTransmission
    <3>2. OwedSlides' = OwedSlides
      BY <2>1, <2>2, <2>3, <2>4, <3>1 DEF OwedSlides, IsOpen
    <3> QED BY <1>1, <2>1, <3>2 DEF Ledger!vars, Opened, OwedSlides, FinishedIds
  <2>5. CASE ~(pending'[job[w].id][job[w].slide] > 0) /\ IsOpen(job[w].id)
    <3>1. PICK d \in Complete : d.id = job[w].id
      BY <2>5 DEF IsOpen
    <3>2. d.md5 = job[w].md5
      BY <1>1, <3>1, Own DEF Relies, HoldsDocument, Complete, CompleteOf
    <3>3. OwedSlides' = [OwedSlides EXCEPT ![job[w].id] = @ \ {job[w].slide}]
      <4>1. \A id \in Ids : id # job[w].id => OwedSlides'[id] = OwedSlides[id]
        BY <2>1, <2>3 DEF OwedSlides, IsOpen
      <4>2. OwedSlides'[job[w].id] = OwedSlides[job[w].id] \ {job[w].slide}
        BY <2>1, <2>2, <2>3, <2>5 DEF OwedSlides, IsOpen
      <4> QED BY <2>2, <4>1, <4>2 DEF OwedSlides
    <3>4. PICK a : a = [id |-> d.id, md5 |-> d.md5]
      OBVIOUS
    <3>5. a \in Opened /\ a.id = job[w].id /\ a.md5 = job[w].md5
      BY <3>1, <3>2, <3>4 DEF Opened
    <3>6. \E b \in Opened, s \in Slides :
              /\ <<b.md5, s>> \in received
              /\ OwedSlides' = [OwedSlides EXCEPT ![b.id] = @ \ {s}]
      BY <2>2, <3>3, <3>5
    <3> QED BY <1>1, <2>1, <3>6, Zenon DEF Ledger!Strike, Opened, OwedSlides, FinishedIds
  <2> QED BY <2>4, <2>5
<1> QED BY <1>1, <1>2, <1>3

(* The removal of a file document is no business of the ledger's, and that *)
(* of a complete filemd5 closes its account.                               *)
LEMMA RemoveFileCloses ==
    ASSUME UploadInv, NEW w \in Workers, RemoveFile(w)
    PROVE  Ledger!Close \/ UNCHANGED Ledger!vars
<1>1. /\ UNCHANGED <<pending, received>>
      /\ docs' = docs \ {d \in docs : d.id = job[w].id} \/ docs' = docs
  BY DEF RemoveFile, files
<1>2. CASE docs' = docs \/ \A d \in Complete : d.id # job[w].id
  <2>1. Complete' = Complete
    BY <1>1, <1>2 DEF Complete, CompleteOf
  <2> QED BY <1>1, <2>1, LedgerSilent
<1>3. ASSUME NEW d \in Complete, d.id = job[w].id,
             docs' = docs \ {e \in docs : e.id = job[w].id}
      PROVE  Ledger!Close
  <2>1. IdsUnique /\ d \in docs /\ Complete \subseteq docs /\ d.id \in Ids
    BY InvParts, Own DEF Accounts, Complete, CompleteOf, Document
  <2>2. Complete' = Complete \ {d} /\ \A e \in Complete : e.id = d.id => e = d
    BY <1>3, <2>1 DEF Complete, CompleteOf, IdsUnique
  <2>3. PICK a : a = [id |-> d.id, md5 |-> d.md5]
    OBVIOUS
  <2>4. a \in Opened /\ a.id = d.id
    BY <2>3 DEF Opened
  <2>5. Opened' = Opened \ {a}
    BY <2>2, <2>3 DEF Opened
  <2>6. FinishedIds' = FinishedIds \ {a.id}
    BY <2>2, <2>4 DEF FinishedIds
  <2>7. OwedSlides' = [OwedSlides EXCEPT ![a.id] = {}]
    <3>1. \A id \in Ids : id # d.id => OwedSlides'[id] = OwedSlides[id]
      BY <1>1, <2>2 DEF OwedSlides, IsOpen
    <3>2. OwedSlides'[d.id] = {}
      BY <2>1, <2>2 DEF OwedSlides, IsOpen
    <3> QED BY <2>1, <2>4, <3>1, <3>2 DEF OwedSlides
  <2> QED BY <1>1, <2>4, <2>5, <2>6, <2>7, Zenon
          DEF Ledger!Close, Opened, OwedSlides, FinishedIds
<1> QED BY <1>1, <1>2, <1>3

LEMMA UpdateReferenceNumIsSilent ==
    ASSUME UploadInv, NEW w \in Workers, UpdateReferenceNum(w)
    PROVE  UNCHANGED Ledger!vars
<1> DEFINE SetRefs(d) == IF d.id = job[w].id THEN [d EXCEPT !.refs = job[w].num - 1] ELSE d
<1>1. /\ docs' = {SetRefs(d) : d \in docs} \/ docs' = docs
      /\ UNCHANGED <<pending, received>>
  BY DEF UpdateReferenceNum, files
<1>2. CASE docs' = docs
  BY <1>1, <1>2, LedgerSilent DEF Complete
<1>3. CASE docs' = {SetRefs(d) : d \in docs}
  <2>1. ASSUME NEW d \in docs
        PROVE  /\ SetRefs(d).id = d.id /\ SetRefs(d).kind = d.kind
               /\ SetRefs(d).md5 = d.md5 /\ SetRefs(d).state = d.state
    BY Own DEF Document
  <2> HIDE DEF SetRefs
  <2>2. Complete' = {SetRefs(d) : d \in Complete}
    BY <1>3, <2>1 DEF Complete, CompleteOf
  <2>3. Complete \subseteq docs
    BY DEF Complete, CompleteOf
  <2>4. Opened' = Opened
    BY <2>1, <2>2, <2>3 DEF Opened
  <2>5. FinishedIds' = FinishedIds
    BY <2>1, <2>2, <2>3 DEF FinishedIds
  <2>6. OwedSlides' = OwedSlides
    <3>1. \A id \in Ids : IsOpen(id)' <=> IsOpen(id)
      BY <2>1, <2>2, <2>3 DEF IsOpen
    <3> QED BY <1>1, <3>1 DEF OwedSlides
  <2> QED BY <1>1, <2>4, <2>5, <2>6 DEF Ledger!vars, Opened, OwedSlides, FinishedIds
<1> QED BY <1>1, <1>2, <1>3

LEMMA UpdateStateFinishes ==
    ASSUME UploadInv, ~DiskFaults, ~DriverFaults, NEW w \in Workers, UpdateState(w)
    PROVE  Ledger!Finish \/ UNCHANGED Ledger!vars
<1> DEFINE SetState(d) == IF d.id = job[w].id THEN [d EXCEPT !.state = 1] ELSE d
<1>1. /\ pc[w] = "UpdateState"
      /\ docs' = {SetState(d) : d \in docs}
      /\ UNCHANGED <<pending, received>>
  BY DEF UpdateState, At, files
<1>3. IdsUnique /\ docs \subseteq Document /\ Complete \subseteq docs
  BY InvParts, Own DEF Accounts, Complete, CompleteOf
<1> SUFFICES ASSUME NEW c \in docs, c.id = job[w].id
             PROVE  Ledger!Finish
  <2> SUFFICES ASSUME \A d \in docs : d.id # job[w].id
               PROVE  UNCHANGED Ledger!vars
    OBVIOUS
  <2>1. docs' = docs
    BY <1>1
  <2> QED BY <1>1, <2>1, LedgerSilent DEF Complete
<1>2. c \in Complete /\ c.md5 = job[w].md5
  BY <1>1, Own DEF Relies, HoldsDocument, Complete
<1>4. ASSUME NEW d \in docs
      PROVE  /\ SetState(d).id = d.id /\ SetState(d).kind = d.kind
             /\ SetState(d).md5 = d.md5
             /\ SetState(d).state = IF d = c THEN 1 ELSE d.state
  BY <1>2, <1>3 DEF Document, IdsUnique
<1> HIDE DEF SetState
<1>5. Complete' = {SetState(d) : d \in Complete}
  <2>1. 1 # NoState
    BY DEF NoState
  <2>2. \A d \in docs : SetState(d).state # NoState <=> d.state # NoState
    BY <1>2, <1>4, <2>1 DEF Complete, CompleteOf
  <2> QED BY <1>1, <1>4, <2>2 DEF Complete, CompleteOf
<1>6. Opened' = Opened
  BY <1>3, <1>4, <1>5 DEF Opened
<1>7. FinishedIds' = FinishedIds \cup {c.id}
  BY <1>2, <1>3, <1>4, <1>5 DEF FinishedIds
<1>8. Ledger!Whole(c.md5)
  BY <1>1, <1>2, Own, Zenon DEF Relies, Ledger!Whole
<1>9. \E a \in Opened : Ledger!Whole(a.md5) /\ FinishedIds' = FinishedIds \cup {a.id}
  <2>1. PICK a : a = [id |-> c.id, md5 |-> c.md5]
    OBVIOUS
  <2>2. a \in Opened /\ a.id = c.id /\ a.md5 = c.md5
    BY <1>2, <2>1 DEF Opened
  <2> QED BY <1>7, <1>8, <2>2
<1>10. OwedSlides' = OwedSlides
  <2>1. \A id \in Ids : IsOpen(id)' <=> IsOpen(id)
    BY <1>3, <1>4, <1>5 DEF IsOpen
  <2> QED BY <1>1, <2>1 DEF OwedSlides
<1> QED BY <1>1, <1>6, <1>9, <1>10, Zenon DEF Ledger!Finish, Opened, OwedSlides, FinishedIds

LEMMA LedgerInit ==
    ASSUME Init, ~DiskFaults, ~DriverFaults
    PROVE  Ledger!Init
<1>1. UploadInv
  BY InitInv
<1>2. PendingOrReceived /\ FinishedIsReceived /\ DatabaseOK /\ FilesOK
  BY <1>1, InvParts, Zenon DEF Accounts
<1>3. Opened \subseteq [id : Ids, md5 : Md5s]
  <2>1. \A d \in Complete : d.id \in Ids /\ d.md5 \in Md5s
    BY <1>2 DEF Complete, CompleteOf, DatabaseOK, Document
  <2> QED BY <2>1 DEF Opened
<1>4. OwedSlides \in [Ids -> SUBSET Slides]
  BY DEF OwedSlides
<1>5. FinishedIds \subseteq {a.id : a \in Opened}
  <2> SUFFICES ASSUME NEW d \in Complete
               PROVE  \E a \in Opened : a.id = d.id
    BY DEF FinishedIds
  <2>1. PICK a : a = [id |-> d.id, md5 |-> d.md5]
    OBVIOUS
  <2>2. a \in Opened /\ a.id = d.id
    BY <2>1 DEF Opened
  <2> QED BY <2>2
<1>6. ASSUME NEW a \in Opened
      PROVE  /\ \A s \in Slides : s \in OwedSlides[a.id] \/ <<a.md5, s>> \in received
             /\ a.id \in FinishedIds => Ledger!Whole(a.md5)
  <2>1. PICK d \in Complete : a = [id |-> d.id, md5 |-> d.md5]
    BY DEF Opened
  <2>2. a.id = d.id /\ a.md5 = d.md5 /\ d.id \in Ids /\ d \in docs
    BY <1>2, <2>1 DEF Complete, CompleteOf, DatabaseOK, Document
  <2>3. ASSUME NEW s \in Slides
        PROVE  s \in OwedSlides[a.id] \/ <<a.md5, s>> \in received
    <3>1. pending[d.id][s] \in Nat
      BY <1>2, <2>2 DEF DatabaseOK
    <3>2. pending[d.id][s] > 0 => s \in OwedSlides[a.id]
      BY <2>2 DEF OwedSlides, IsOpen
    <3>3. pending[d.id][s] = 0 => <<a.md5, s>> \in received
      BY <1>2, <2>2 DEF PendingOrReceived
    <3> QED BY <3>1, <3>2, <3>3
  <2>4. ASSUME a.id \in FinishedIds
        PROVE  Ledger!Whole(a.md5)
    <3>1. PICK e \in Complete : e.state = 1 /\ e.id = a.id
      BY <2>4 DEF FinishedIds
    <3>2. e = d
      BY <1>1, <2>2, <3>1, InvParts DEF Accounts, IdsUnique, Complete, CompleteOf
    <3>3. Whole(d.md5)
      BY <1>2, <3>1, <3>2 DEF FinishedIsReceived
    <3> QED BY <2>2, <3>3 DEF Whole, Ledger!Whole
  <2> QED BY <2>3, <2>4
<1>7. ASSUME NEW id \in Ids, OwedSlides[id] # {}
      PROVE  \E a \in Opened : a.id = id
  <2>1. PICK d \in Complete : d.id = id
    BY <1>7 DEF OwedSlides, IsOpen
  <2>2. PICK a : a = [id |-> d.id, md5 |-> d.md5]
    OBVIOUS
  <2>3. a \in Opened /\ a.id = id
    BY <2>1, <2>2 DEF Opened
  <2> QED BY <2>3
<1> QED BY <1>2, <1>3, <1>4, <1>5, <1>6, <1>7, Zenon
        DEF Ledger!Init, Opened, OwedSlides, FinishedIds, FilesOK

LEMMA LedgerNext ==
    ASSUME UploadInv, [Next]_vars, ~DiskFaults, ~DriverFaults
    PROVE  [Ledger!Next]_(Ledger!vars)
<1>1. CASE Crash
  BY <1>1, LedgerSilent DEF Crash, database, files, Complete
<1>2. ASSUME NEW w \in Workers, Request(w)
      PROVE  UNCHANGED Ledger!vars
  <2>1. UNCHANGED <<docs, pending, received>>
    BY <1>2 DEF Request, UploadFile, UploadData, DeleteFile, Start, database, files
  <2> QED BY <2>1, LedgerSilent DEF Complete
<1>3. ASSUME NEW w \in Workers, Handler(w)
      PROVE  Ledger!Next \/ UNCHANGED Ledger!vars
  <2>1. \/ FindFile(w) \/ FindFileMD5(w) \/ FindAdded(w) \/ AddAllEnds(w)
        \/ InsertFails(w) \/ FindForSlide(w) \/ AddNextSlideNo(w) \/ Reply(w)
        \/ OpenSlide(w) \/ FindForData(w) \/ RemoveSlideNo(w) \/ GetNextSlideNo(w)
        \/ CheckAllReceived(w) \/ FindMd5ById(w) \/ FindId(w) \/ ReadReferenceNum(w)
        \/ AddFile(w) \/ AddFileMD5(w) \/ FillSlide(w) \/ AddTransmission(w)
        \/ RemoveTransmission(w) \/ RemoveFile(w) \/ UpdateReferenceNum(w)
        \/ UpdateState(w)
    BY <1>3, Zenon DEF Handler
  <2> QED BY <2>1, QuietHandler, InsertIsSilent, FillSlideReceives, AddTransmissionOwes,
             RemoveTransmissionStrikes, RemoveFileCloses, UpdateReferenceNumIsSilent,
             UpdateStateFinishes, Zenon DEF Ledger!Next
<1>4. CASE UNCHANGED vars
  BY <1>4, LedgerSilent DEF vars, database, files, Complete
<1> QED BY <1>1, <1>2, <1>3, <1>4, Zenon DEF Next

(* The handlers, on any number of threads and through any number of kills, *)
(* keep the ledger: a slide is struck off only once it was written, a file *)
(* is finished only once all its slides were, neither is taken back, and   *)
(* an account that a deletion has closed is never opened again.            *)
THEOREM UploadImplementsLedger ==
    ASSUME ~DiskFaults, ~DriverFaults
    PROVE  Spec => ImplementsLedger
<1>1. Init => Ledger!Init
  BY LedgerInit
<1>2. UploadInv /\ [Next]_vars => [Ledger!Next]_(Ledger!vars)
  BY LedgerNext
<1> QED BY <1>1, <1>2, UploadSafe, PTL DEF Spec, ImplementsLedger, Ledger!Spec

-----------------------------------------------------------------------------
(* The slide files.  A step of one worker leaves the others where they are.*)
Others(w) == \A u \in Workers \ {w} : pc'[u] = pc[u] /\ job'[u] = job[u]

LEMMA OneWorker ==
    ASSUME Locals, NEW w \in Workers, NEW label, NEW j,
           pc' = [pc EXCEPT ![w] = label], job' = [job EXCEPT ![w] = j]
    PROVE  Others(w) /\ pc'[w] = label /\ job'[w] = j
BY DEF Locals, Others

LEMMA OneWorkerGoto ==
    ASSUME Locals, NEW w \in Workers, NEW label, Goto(w, label), UNCHANGED job
    PROVE  Others(w) /\ pc'[w] = label /\ job'[w] = job[w]
BY DEF Locals, Others, Goto

LEMMA OneWorkerGotoWith ==
    ASSUME Locals, NEW w \in Workers, NEW label, NEW j, GotoWith(w, label, j)
    PROVE  Others(w)
BY OneWorker DEF GotoWith, Goto

(* The steps that have nothing to do with slide files.                     *)
LEMMA TornQuiet ==
    ASSUME TornOnlyByCrash, NEW w \in Workers, pc[w] # "FillSlide", Others(w),
           UNCHANGED <<intact, received, crashes>>
    PROVE  TornOnlyByCrash'
<1> SUFFICES ASSUME NEW slide \in received \ intact, ~(crashes > 0)
             PROVE  \E u \in Workers :
                       pc'[u] = "FillSlide" /\ slide = <<job'[u].md5, job'[u].slide>>
  BY DEF TornOnlyByCrash, At
<1>1. PICK u \in Workers : pc[u] = "FillSlide" /\ slide = <<job[u].md5, job[u].slide>>
  BY DEF TornOnlyByCrash, At
<1>2. u # w
  BY <1>1
<1> QED BY <1>1, <1>2 DEF Others

LEMMA TornStart ==
    ASSUME UploadInv, TornOnlyByCrash, NEW w \in Workers, Request(w)
    PROVE  TornOnlyByCrash'
<1>1. \E op, label, j : Start(w, op, label, j)
  BY DEF Request, UploadFile, UploadData, DeleteFile
<1>2. PICK op, label, j : Start(w, op, label, j)
  BY <1>1
<1>3. Others(w) /\ pc[w] # "FillSlide" /\ UNCHANGED <<intact, received, crashes>>
  BY <1>2, InvParts, OneWorkerGotoWith DEF Start, At, files
<1> QED BY <1>3, TornQuiet

LEMMA TornOpenSlide ==
    ASSUME UploadInv, TornOnlyByCrash, NEW w \in Workers, OpenSlide(w)
    PROVE  TornOnlyByCrash'
<1>1. pc[w] = "OpenSlide" /\ UNCHANGED <<received, crashes>>
  BY DEF OpenSlide, At, env
<1>2. CASE Leave(w, "idle") /\ UNCHANGED intact
  <2>1. Others(w)
    BY <1>2, InvParts, OneWorkerGotoWith DEF Leave
  <2> QED BY <1>1, <1>2, <2>1, TornQuiet
<1>3. CASE /\ intact' = intact \ {<<job[w].md5, job[w].slide>>}
           /\ Goto(w, "FillSlide") /\ UNCHANGED job
  <2>1. Others(w) /\ pc'[w] = "FillSlide" /\ job'[w] = job[w]
    BY <1>3, InvParts, OneWorkerGoto
  <2> SUFFICES ASSUME NEW slide \in received \ intact', ~(crashes > 0)
               PROVE  \E u \in Workers :
                         pc'[u] = "FillSlide" /\ slide = <<job'[u].md5, job'[u].slide>>
    BY <1>1 DEF TornOnlyByCrash, At
  <2>2. CASE slide = <<job[w].md5, job[w].slide>>
    BY <2>1, <2>2
  <2>3. CASE slide # <<job[w].md5, job[w].slide>>
    <3>1. slide \in received \ intact
      BY <1>3, <2>3
    <3>2. PICK u \in Workers : pc[u] = "FillSlide" /\ slide = <<job[u].md5, job[u].slide>>
      BY <3>1 DEF TornOnlyByCrash, At
    <3> QED BY <1>1, <2>1, <3>2 DEF Others
  <2> QED BY <2>2, <2>3
<1> QED BY <1>2, <1>3 DEF OpenSlide

LEMMA TornFillSlide ==
    ASSUME UploadInv, ~DiskFaults, TornOnlyByCrash, NEW w \in Workers, FillSlide(w)
    PROVE  TornOnlyByCrash'
<1> DEFINE mine == <<job[w].md5, job[w].slide>>
<1>1. /\ intact' = intact \cup {mine} /\ received' = received \cup {mine}
      /\ Goto(w, "GetForData") /\ UNCHANGED <<job, crashes>>
  BY DEF FillSlide, env
<1>2. Others(w)
  BY <1>1, InvParts, OneWorkerGoto
<1> SUFFICES ASSUME NEW slide \in received' \ intact', ~(crashes > 0)
             PROVE  \E u \in Workers :
                       pc'[u] = "FillSlide" /\ slide = <<job'[u].md5, job'[u].slide>>
  BY <1>1 DEF TornOnlyByCrash, At
<1>3. slide \in received \ intact /\ slide # mine
  BY <1>1
<1>4. PICK u \in Workers : pc[u] = "FillSlide" /\ slide = <<job[u].md5, job[u].slide>>
  BY <1>3 DEF TornOnlyByCrash, At
<1>5. u # w
  BY <1>3, <1>4
<1> QED BY <1>2, <1>4, <1>5 DEF Others

Elsewhere(w) ==
    /\ pc[w] # "FillSlide"
    /\ UNCHANGED <<intact, received, crashes>>
    /\ \/ \E label : Goto(w, label) /\ UNCHANGED job
       \/ \E label, j : GotoWith(w, label, j)

LEMMA TornElsewhere ==
    ASSUME UploadInv, TornOnlyByCrash, NEW w \in Workers, Elsewhere(w)
    PROVE  TornOnlyByCrash'
<1>1. Others(w)
  BY InvParts, OneWorkerGoto, OneWorkerGotoWith DEF Elsewhere
<1> QED BY <1>1, TornQuiet DEF Elsewhere

LEMMA TornAddTransmission ==
    ASSUME UploadInv, TornOnlyByCrash, NEW w \in Workers, AddTransmission(w)
    PROVE  TornOnlyByCrash'
<1>1. /\ pc[w] # "FillSlide" /\ UNCHANGED <<intact, received, crashes>>
      /\ pc' = pc /\ job' = [job EXCEPT ![w].num = job[w].num + 1]
  BY DEF AddTransmission, At, files, env
<1>2. Others(w)
  BY <1>1, InvParts DEF Locals, Others
<1> QED BY <1>1, <1>2, TornQuiet

LEMMA TornHandler ==
    ASSUME UploadInv, ~DiskFaults, TornOnlyByCrash, NEW w \in Workers, Handler(w)
    PROVE  TornOnlyByCrash'
<1> USE DEF At, Leave, files, env, memory
<1>1. CASE \/ FindFile(w) \/ AddFile(w) \/ FindFileMD5(w) \/ FindAdded(w)
           \/ AddAllEnds(w) \/ InsertFails(w) \/ FindForSlide(w)
  <2>1. Elsewhere(w)
    BY <1>1 DEF Elsewhere, FindFile, AddFile, FindFileMD5, FindAdded, AddAllEnds,
                InsertFails, FindForSlide
  <2> QED BY <2>1, TornElsewhere
<1>2. CASE AddFileMD5(w) \/ AddNextSlideNo(w) \/ Reply(w) \/ FindForData(w)
  <2>1. Elsewhere(w)
    BY <1>2 DEF Elsewhere, AddFileMD5, AddNextSlideNo, Reply, FindForData
  <2> QED BY <2>1, TornElsewhere
<1>3. CASE \/ RemoveSlideNo(w) \/ RemoveTransmission(w) \/ GetNextSlideNo(w)
           \/ CheckAllReceived(w) \/ UpdateState(w)
  <2>1. Elsewhere(w)
    BY <1>3 DEF Elsewhere, RemoveSlideNo, RemoveTransmission, GetNextSlideNo,
                CheckAllReceived, UpdateState
  <2> QED BY <2>1, TornElsewhere
<1>4. CASE \/ FindMd5ById(w) \/ RemoveFile(w) \/ FindId(w)
           \/ ReadReferenceNum(w) \/ UpdateReferenceNum(w)
  <2>1. Elsewhere(w)
    BY <1>4 DEF Elsewhere, FindMd5ById, RemoveFile, FindId, ReadReferenceNum,
                UpdateReferenceNum
  <2> QED BY <2>1, TornElsewhere
<1> QED BY <1>1, <1>2, <1>3, <1>4, TornAddTransmission, TornOpenSlide, TornFillSlide, Zenon
        DEF Handler

(* Two uploads of one slide may empty the file under each other, but the   *)
(* one that writes last leaves it whole: for any number of workers, only a *)
(* kill between emptying and writing damages a slide file for good.        *)
THEOREM SlidesAreTornOnlyByCrashes ==
    ASSUME ~DiskFaults
    PROVE  Spec => []TornOnlyByCrash
<1>1. Init => TornOnlyByCrash
  BY DEF Init, TornOnlyByCrash
<1>2. UploadInv /\ TornOnlyByCrash /\ [Next]_vars => TornOnlyByCrash'
  <2> SUFFICES ASSUME UploadInv, TornOnlyByCrash, [Next]_vars
               PROVE  TornOnlyByCrash'
    OBVIOUS
  <2>1. CASE Crash
    <3>1. crashes \in 0..MaxCrashes
      BY InvParts DEF RestOK
    <3>2. crashes' = crashes + 1
      BY <2>1 DEF Crash
    <3>3. crashes' > 0
      BY <3>1, <3>2, BoundsAssumption
    <3> QED BY <3>3 DEF TornOnlyByCrash
  <2>2. CASE \E w \in Workers : Request(w) \/ Handler(w)
    BY <2>2, TornStart, TornHandler
  <2>3. CASE UNCHANGED vars
    BY <2>3 DEF vars, files, env, TornOnlyByCrash, At
  <2> QED BY <2>1, <2>2, <2>3 DEF Next
<1> QED BY <1>1, <1>2, UploadSafe, PTL DEF Spec

-----------------------------------------------------------------------------
(* RefsFallWithRemovals for any finite set of reactor threads.  A deletion *)
(* that removed a document is due to take one reference away; what has     *)
(* been taken away is no more than the removed documents for which no      *)
(* deletion is still due.                                                  *)

(* From the removal of the document to the end of the deletion.       *)
DueLabels == {"GetId", "GetReferenceNum", "UpdateReferenceNum"}

Due == {w \in Workers : pc[w] \in DueLabels}

Credit == Cardinality(Removed) - Cardinality(Due)

(* The document id had no more than n references at first.                 *)
AtFirst(id, n) ==
    \E x \in Seeds : \E e \in CompleteOf(x.docs) : e.id = id /\ e.refs <= n

(* The number that a worker has read counts as well: it is written back.   *)
RefsInv ==
    /\ \A d \in Complete : AtFirst(d.id, d.refs + Credit)
    /\ \A w \in Workers :
          pc[w] = "UpdateReferenceNum" => AtFirst(job[w].id, job[w].num + Credit)

-----------------------------------------------------------------------------
(* What is counted is finite, before a step and after it.                  *)
LEMMA Counted ==
    ASSUME IsFiniteSet(Workers), UploadInv
    PROVE  /\ IsFiniteSet(Removed) /\ Cardinality(Removed) \in Nat
           /\ IsFiniteSet(Due) /\ Cardinality(Due) \in Nat
           /\ Credit \in Int
<1>1. nextId \in Int
  BY InvParts, BoundsAssumption DEF Accounts, DatabaseOK
<1>2. IsFiniteSet(1..(nextId - 1))
  BY <1>1, FS_Interval
<1>3. IsFiniteSet(Removed)
  BY <1>2, FS_Subset DEF Removed
<1>4. IsFiniteSet(Due)
  BY FS_Subset DEF Due
<1>5. Cardinality(Removed) \in Nat /\ Cardinality(Due) \in Nat
  BY <1>3, <1>4, FS_CardinalityType
<1> QED
  BY <1>3, <1>4, <1>5 DEF Credit

LEMMA CountedNext ==
    ASSUME IsFiniteSet(Workers), UploadInv'
    PROVE  /\ IsFiniteSet(Removed') /\ Cardinality(Removed') \in Nat
           /\ IsFiniteSet(Due') /\ Cardinality(Due') \in Nat
           /\ Credit' \in Int
<1>1. nextId' \in Int
  BY InvPartsNext, BoundsAssumption DEF Accounts, DatabaseOK
<1>2. IsFiniteSet(1..(nextId' - 1))
  BY <1>1, FS_Interval
<1>3. IsFiniteSet(Removed')
  BY <1>2, FS_Subset DEF Removed
<1>4. IsFiniteSet(Due')
  BY FS_Subset DEF Due
<1>5. Cardinality(Removed') \in Nat /\ Cardinality(Due') \in Nat
  BY <1>3, <1>4, FS_CardinalityType
<1> QED
  BY <1>3, <1>4, <1>5 DEF Credit

(* The credit grows when documents are removed and deletions are over.     *)
LEMMA CreditGrows ==
    ASSUME IsFiniteSet(Workers), UploadInv, UploadInv',
           Removed \subseteq Removed', Due' \subseteq Due
    PROVE  Credit <= Credit'
<1>1. Cardinality(Removed) <= Cardinality(Removed')
  BY CountedNext, FS_Subset
<1>2. Cardinality(Due') <= Cardinality(Due)
  BY Counted, FS_Subset
<1> QED
  BY <1>1, <1>2, Counted, CountedNext DEF Credit

(* Numbers that are compared are integers.                                 *)
LEMMA SeededRefs ==
    ASSUME NEW x \in Seeds, NEW e \in CompleteOf(x.docs)
    PROVE  e.refs \in Int
BY SeedsAssumption DEF Consistent, CompleteOf, Document

LEMMA AtFirstGrows ==
    ASSUME NEW id, NEW n \in Int, NEW m \in Int, AtFirst(id, n), n <= m
    PROVE  AtFirst(id, m)
<1>1. PICK x \in Seeds : \E e \in CompleteOf(x.docs) : e.id = id /\ e.refs <= n
  BY DEF AtFirst
<1>2. PICK e \in CompleteOf(x.docs) : e.id = id /\ e.refs <= n
  BY <1>1
<1>3. e.refs <= m
  BY <1>2, SeededRefs
<1> QED
  BY <1>2, <1>3 DEF AtFirst

LEMMA Numbers ==
    ASSUME UploadInv
    PROVE  /\ \A d \in Complete : d \in docs /\ d.refs \in Int /\ d.id \in Ids
           /\ \A w \in Workers : job[w].num \in Int
BY DEF UploadInv, TypeOK, Complete, CompleteOf, Document, Job

(* A step after which the credit is no smaller, that changes no complete   *)
(* document's number and sends nobody to UpdateReferenceNum unprepared.    *)
LEMMA RefsKept ==
    ASSUME IsFiniteSet(Workers), UploadInv, UploadInv', RefsInv, Credit <= Credit',
           \A e \in Complete' : \E d \in Complete : d.id = e.id /\ d.refs = e.refs,
           \A u \in Workers : pc'[u] = "UpdateReferenceNum" =>
               job'[u].num \in Int /\ AtFirst(job'[u].id, job'[u].num + Credit)
    PROVE  RefsInv'
<1> DEFINE c == Credit
           k == Credit'
<1>1. c \in Int /\ k \in Int /\ c <= k
  BY Counted, CountedNext
<1>2. ASSUME NEW id, NEW num \in Int, AtFirst(id, num + c)
      PROVE  AtFirst(id, num + k)
  <2> HIDE DEF c, k
  <2>1. num + c \in Int /\ num + k \in Int /\ num + c <= num + k
    BY <1>1
  <2> QED
    BY <1>2, <2>1, AtFirstGrows
<1>3. ASSUME NEW e \in Complete'
      PROVE  AtFirst(e.id, e.refs + k)
  <2>1. PICK d \in Complete : d.id = e.id /\ d.refs = e.refs
    OBVIOUS
  <2>2. d.refs \in Int /\ AtFirst(d.id, d.refs + c)
    BY Numbers DEF RefsInv
  <2> QED
    BY <1>2, <2>1, <2>2
<1>4. ASSUME NEW u \in Workers, pc'[u] = "UpdateReferenceNum"
      PROVE  AtFirst(job'[u].id, job'[u].num + k)
  BY <1>2, <1>4
<1> QED
  BY <1>3, <1>4 DEF RefsInv

-----------------------------------------------------------------------------
(* A handler's step that changes no document and is not part of the work   *)
(* due to a removal, or gives it up.                                       *)
Aside(w) ==
    /\ UNCHANGED <<docs, nextId>>
    /\ \E label \in Labels \ DueLabels : pc' = [pc EXCEPT ![w] = label]
    /\ \A u \in Workers \ {w} : job'[u] = job[u]

(* Where the other workers are, and with which locals, when w steps.       *)
LEMMA OneMoves ==
    ASSUME UploadInv, NEW w \in Workers, NEW label \in Labels,
           pc' = [pc EXCEPT ![w] = label]
    PROVE  /\ \A u \in Workers : u # w => pc'[u] = pc[u]
           /\ pc'[w] = label
<1>1. pc \in [Workers -> Labels]
  BY InvParts DEF Locals
<1> QED
  BY <1>1

(* The premise of RefsKept about the workers, when w leaves for a label    *)
(* other than UpdateReferenceNum.                                          *)
LEMMA OthersCovered ==
    ASSUME UploadInv, RefsInv, NEW w \in Workers, NEW label \in Labels \ {"UpdateReferenceNum"},
           pc' = [pc EXCEPT ![w] = label],
           \A u \in Workers \ {w} : job'[u] = job[u]
    PROVE  \A u \in Workers : pc'[u] = "UpdateReferenceNum" =>
               job'[u].num \in Int /\ AtFirst(job'[u].id, job'[u].num + Credit)
<1> SUFFICES ASSUME NEW u \in Workers, pc'[u] = "UpdateReferenceNum"
             PROVE  job'[u].num \in Int /\ AtFirst(job'[u].id, job'[u].num + Credit)
  OBVIOUS
<1>1. u # w /\ pc[u] = "UpdateReferenceNum"
  BY OneMoves
<1>2. job'[u] = job[u]
  BY <1>1
<1> QED
  BY <1>1, <1>2, Numbers DEF RefsInv

LEMMA AsideStep ==
    ASSUME IsFiniteSet(Workers), UploadInv, UploadInv', RefsInv, NEW w \in Workers, Aside(w)
    PROVE  RefsInv'
<1>1. PICK label \in Labels \ DueLabels : pc' = [pc EXCEPT ![w] = label]
  BY DEF Aside
<1>2. Removed' = Removed /\ Complete' = Complete
  BY DEF Aside, Removed, Complete
<1>3. Due' \subseteq Due
  <2> SUFFICES ASSUME NEW u \in Workers, pc'[u] \in DueLabels
               PROVE  pc[u] \in DueLabels
    BY DEF Due
  <2> QED
    BY <1>1, OneMoves
<1>4. Credit <= Credit'
  BY <1>2, <1>3, CreditGrows
<1>5. label # "UpdateReferenceNum"
  BY DEF DueLabels
<1>6. \A u \in Workers : pc'[u] = "UpdateReferenceNum" =>
          job'[u].num \in Int /\ AtFirst(job'[u].id, job'[u].num + Credit)
  BY <1>1, <1>5, OthersCovered DEF Aside
<1> QED
  BY <1>2, <1>4, <1>6, RefsKept

(* Goto, GotoWith and Leave change the locals of w only.                   *)
LEMMA AsideGoto ==
    ASSUME UploadInv, NEW w \in Workers, NEW label \in Labels \ DueLabels,
           Goto(w, label), UNCHANGED <<docs, nextId>>,
           UNCHANGED job \/ \E j : job' = [job EXCEPT ![w] = j]
    PROVE  Aside(w)
<1>1. \A u \in Workers \ {w} : job'[u] = job[u]
  BY DEF UploadInv, TypeOK
<1> QED
  BY <1>1 DEF Aside, Goto

LEMMA AsideLeave ==
    ASSUME UploadInv, NEW w \in Workers, NEW label \in Labels \ DueLabels, NEW j,
           GotoWith(w, label, j), UNCHANGED <<docs, nextId>>
    PROVE  Aside(w)
BY AsideGoto DEF GotoWith

LEMMA NotDue ==
    Labels \ DueLabels =
        {"idle", "dead", "GetFile", "AddFile", "GetByMD5", "AddFileMD5", "GetAdded",
         "AddAll", "GetForSlide", "AddNext", "Reply",
         "OpenSlide", "FillSlide", "GetForData", "RemoveSlideNo", "RemoveTransmission",
         "GetNext", "HasTransmission", "UpdateState", "GetMd5ById", "RemoveFile"}
BY DEF Labels, DueLabels

(* The steps that only look, answer, or write something other than docs.   *)
Looks(w) ==
    \/ FindFile(w) \/ FindFileMD5(w) \/ FindAdded(w) \/ AddAllEnds(w) \/ InsertFails(w)
    \/ FindForSlide(w) \/ AddNextSlideNo(w) \/ Reply(w)
    \/ OpenSlide(w) \/ FillSlide(w) \/ FindForData(w) \/ RemoveSlideNo(w)
    \/ RemoveTransmission(w) \/ GetNextSlideNo(w) \/ CheckAllReceived(w) \/ FindMd5ById(w)

LEMMA LooksStep ==
    ASSUME UploadInv, NEW w \in Workers, Looks(w)
    PROVE  Aside(w)
<1> USE NotDue DEF database
<1>1. CASE FindFile(w)
  BY <1>1, AsideGoto DEF FindFile
<1>2. CASE FindFileMD5(w)
  BY <1>2, AsideGoto DEF FindFileMD5
<1>3. CASE FindAdded(w)
  BY <1>3, AsideLeave DEF FindAdded, Leave
<1>4. CASE AddAllEnds(w)
  BY <1>4, AsideGoto, AsideLeave DEF AddAllEnds, Leave
<1>5. CASE InsertFails(w)
  BY <1>5, AsideLeave DEF InsertFails, Leave
<1>6. CASE FindForSlide(w)
  BY <1>6, AsideLeave DEF FindForSlide, Leave
<1>7. CASE AddNextSlideNo(w)
  BY <1>7, AsideLeave DEF AddNextSlideNo
<1>8. CASE Reply(w)
  BY <1>8, AsideLeave DEF Reply, Leave
<1>9. CASE OpenSlide(w)
  BY <1>9, AsideGoto, AsideLeave DEF OpenSlide, Leave
<1>10. CASE FillSlide(w)
  BY <1>10, AsideGoto DEF FillSlide
<1>11. CASE FindForData(w)
  BY <1>11, AsideLeave DEF FindForData, Leave
<1>12. CASE RemoveSlideNo(w)
  BY <1>12, AsideGoto DEF RemoveSlideNo
<1>13. CASE RemoveTransmission(w)
  BY <1>13, AsideGoto, AsideLeave DEF RemoveTransmission, Leave
<1>14. CASE GetNextSlideNo(w)
  BY <1>14, AsideLeave DEF GetNextSlideNo
<1>15. CASE CheckAllReceived(w)
  BY <1>15, AsideGoto DEF CheckAllReceived
<1>16. CASE FindMd5ById(w)
  BY <1>16, AsideLeave DEF FindMd5ById, Leave
<1> QED
  BY <1>1, <1>2, <1>3, <1>4, <1>5, <1>6, <1>7, <1>8, <1>9, <1>10, <1>11, <1>12,
     <1>13, <1>14, <1>15, <1>16 DEF Looks

LEMMA AddTransmissionAside ==
    ASSUME UploadInv, NEW w \in Workers, AddTransmission(w)
    PROVE  Aside(w)
<1>1. pc' = [pc EXCEPT ![w] = "AddAll"]
  BY DEF UploadInv, TypeOK, AddTransmission, At
<1>2. \A u \in Workers \ {w} : job'[u] = job[u]
  BY DEF UploadInv, TypeOK, AddTransmission
<1> QED
  BY <1>1, <1>2, NotDue DEF Aside, AddTransmission

LEMMA RequestAside ==
    ASSUME UploadInv, NEW w \in Workers, Request(w)
    PROVE  Aside(w)
<1> USE NotDue DEF database, Start
<1>1. ASSUME NEW f \in Names, NEW m \in Md5s, UploadFile(w, f, m)
      PROVE  Aside(w)
  BY <1>1, AsideLeave DEF UploadFile
<1>2. ASSUME NEW m \in Md5s, NEW s \in Slides, UploadData(w, m, s)
      PROVE  Aside(w)
  BY <1>2, AsideLeave DEF UploadData
<1>3. ASSUME NEW id \in 0..(nextId - 1), DeleteFile(w, id)
      PROVE  Aside(w)
  BY <1>3, AsideLeave DEF DeleteFile
<1> QED
  BY <1>1, <1>2, <1>3 DEF Request

-----------------------------------------------------------------------------
(* The steps that change documents or carry a removal's work further.      *)

(* A worker on its way: the credit grows if it does not become due.        *)
LEMMA MoveGrows ==
    ASSUME IsFiniteSet(Workers), UploadInv, UploadInv', NEW w \in Workers,
           NEW label \in Labels, pc' = [pc EXCEPT ![w] = label],
           label \in DueLabels => pc[w] \in DueLabels,
           Removed \subseteq Removed'
    PROVE  Credit <= Credit'
<1>1. Due' \subseteq Due
  <2> SUFFICES ASSUME NEW u \in Workers, pc'[u] \in DueLabels
               PROVE  pc[u] \in DueLabels
    BY DEF Due
  <2> QED
    BY OneMoves
<1> QED
  BY <1>1, CreditGrows

(* An id stays removed: ids are not used again.                            *)
LEMMA RemovedStays ==
    ASSUME UploadInv, UploadInv', nextId <= nextId',
           \A e \in docs' : e.id < nextId => \E d \in docs : d.id = e.id
    PROVE  Removed \subseteq Removed'
<1> DEFINE n == nextId
           k == nextId'
<1>1. n \in Int /\ k \in Int /\ n <= k
  BY InvParts, InvPartsNext, BoundsAssumption DEF Accounts, DatabaseOK
<1> SUFFICES ASSUME NEW id \in 1..(n - 1), \A d \in docs : d.id # id
             PROVE  id \in 1..(k - 1) /\ \A e \in docs' : e.id # id
  BY DEF Removed
<1>2. id < n /\ id \in 1..(k - 1)
  <2> HIDE DEF n, k
  <2> QED
    BY <1>1
<1> QED
  BY <1>2

(* AddFile and AddFileMD5: the new document is not complete.               *)
LEMMA InsertRefs ==
    ASSUME IsFiniteSet(Workers), UploadInv, UploadInv', RefsInv, NEW w \in Workers,
           AddFile(w) \/ AddFileMD5(w)
    PROVE  RefsInv'
<1>1. PICK label \in Labels \ DueLabels : Goto(w, label)
  BY NotDue DEF AddFile, AddFileMD5
<1>2. job' = job /\ nextId' = nextId + 1
  BY DEF AddFile, AddFileMD5
<1>3. PICK new : docs' = docs \cup {new} /\ new.id = nextId /\ new.state = NoState
  <2>1. CASE AddFile(w)
    <3> DEFINE new == [id |-> nextId, kind |-> "file", md5 |-> job[w].md5,
                       name |-> job[w].name, state |-> NoState, refs |-> 0]
    <3>1. docs' = docs \cup {new} /\ new.id = nextId /\ new.state = NoState
      BY <2>1 DEF AddFile
    <3> QED
      BY <3>1
  <2>2. CASE AddFileMD5(w)
    <3> DEFINE new == [id |-> nextId, kind |-> "filemd5", md5 |-> job[w].md5,
                       name |-> "", state |-> NoState, refs |-> 0]
    <3>1. docs' = docs \cup {new} /\ new.id = nextId /\ new.state = NoState
      BY <2>2 DEF AddFileMD5
    <3> QED
      BY <3>1
  <2> QED
    BY <2>1, <2>2
<1>4. nextId \in Int
  BY InvParts, BoundsAssumption DEF Accounts, DatabaseOK
<1>5. Removed \subseteq Removed'
  BY <1>2, <1>3, <1>4, RemovedStays
<1>6. Complete' \subseteq Complete
  BY <1>3 DEF Complete, CompleteOf
<1>7. Credit <= Credit'
  BY <1>1, <1>5, MoveGrows DEF Goto
<1>8. label # "UpdateReferenceNum"
  BY DEF DueLabels
<1>9. \A u \in Workers : pc'[u] = "UpdateReferenceNum" =>
          job'[u].num \in Int /\ AtFirst(job'[u].id, job'[u].num + Credit)
  BY <1>1, <1>2, <1>8, OthersCovered DEF Goto
<1> QED
  BY <1>6, <1>7, <1>9, RefsKept

(* UpdateState: the document it changes was complete, and keeps its number.*)
LEMMA UpdateStateRefs ==
    ASSUME IsFiniteSet(Workers), UploadInv, UploadInv', RefsInv, NEW w \in Workers,
           UpdateState(w)
    PROVE  RefsInv'
<1> DEFINE SetState(d) == IF d.id = job[w].id THEN [d EXCEPT !.state = 1] ELSE d
<1>1. /\ Goto(w, "Reply") /\ UNCHANGED <<nextId, job>>
      /\ docs' = {SetState(d) : d \in docs} \/ docs' = docs
  BY DEF UpdateState
<1>2. \A h \in docs : h.id = job[w].id => h \in CompleteOf(docs)
  BY Own DEF UpdateState, At, Relies, HoldsDocument
<1>3. IdsUnique /\ docs \subseteq Document /\ nextId \in Int
  BY InvParts, BoundsAssumption DEF Accounts, DatabaseOK
<1>4. ASSUME NEW e \in docs'
      PROVE  \E d \in docs : /\ d.id = e.id /\ d.refs = e.refs
                             /\ e \in CompleteOf(docs') => d \in CompleteOf(docs)
  <2>1. CASE docs' = docs
    BY <2>1
  <2>2. CASE docs' = {SetState(d) : d \in docs}
    <3>1. PICK d \in docs : e = SetState(d)
      BY <2>2
    <3>2. CASE d.id = job[w].id
      <4>1. d \in CompleteOf(docs)
        BY <1>2, <3>2
      <4>2. e.id = d.id /\ e.refs = d.refs
        BY <1>3, <3>1, <3>2 DEF Document
      <4> QED
        BY <4>1, <4>2
    <3>3. CASE d.id # job[w].id
      BY <3>1, <3>3 DEF CompleteOf
    <3> QED
      BY <3>2, <3>3
  <2> QED
    BY <1>1, <2>1, <2>2
<1>5. Removed \subseteq Removed'
  BY <1>1, <1>3, <1>4, RemovedStays
<1>6. "Reply" \in Labels \ DueLabels /\ "Reply" # "UpdateReferenceNum"
  BY NotDue
<1>7. Credit <= Credit'
  BY <1>1, <1>5, <1>6, MoveGrows DEF Goto
<1>8. \A u \in Workers : pc'[u] = "UpdateReferenceNum" =>
          job'[u].num \in Int /\ AtFirst(job'[u].id, job'[u].num + Credit)
  BY <1>1, <1>6, OthersCovered DEF Goto
<1>9. \A e \in Complete' : \E d \in Complete : d.id = e.id /\ d.refs = e.refs
  BY <1>4 DEF Complete, CompleteOf
<1> QED
  BY <1>7, <1>8, <1>9, RefsKept

(* GetId: a deletion that is due goes on, or gives up.                     *)
LEMMA FindIdRefs ==
    ASSUME IsFiniteSet(Workers), UploadInv, UploadInv', RefsInv, NEW w \in Workers, FindId(w)
    PROVE  RefsInv'
<1>0. PICK label \in {"GetReferenceNum", "idle"} : \E j : GotoWith(w, label, j)
  BY DEF FindId, Leave
<1>1. PICK j : GotoWith(w, label, j)
  BY <1>0
<1>2. pc[w] \in DueLabels /\ label \in Labels /\ label # "UpdateReferenceNum"
  BY DEF FindId, At, DueLabels, Labels
<1>3. docs' = docs /\ nextId' = nextId
  BY DEF FindId, database
<1>4. \A u \in Workers \ {w} : job'[u] = job[u]
  BY <1>1, InvParts DEF Locals, GotoWith
<1>5. Removed' = Removed /\ Complete' = Complete
  BY <1>3 DEF Removed, Complete
<1>6. Credit <= Credit'
  BY <1>1, <1>2, <1>5, MoveGrows DEF GotoWith, Goto
<1>7. \A u \in Workers : pc'[u] = "UpdateReferenceNum" =>
          job'[u].num \in Int /\ AtFirst(job'[u].id, job'[u].num + Credit)
  BY <1>1, <1>2, <1>4, OthersCovered DEF GotoWith, Goto
<1> QED
  BY <1>5, <1>6, <1>7, RefsKept

(* GetReferenceNum: the number that is read is a complete document's.      *)
LEMMA ReadReferenceNumRefs ==
    ASSUME IsFiniteSet(Workers), UploadInv, UploadInv', RefsInv, NEW w \in Workers,
           ReadReferenceNum(w)
    PROVE  RefsInv'
<1>1. \/ \E d \in Complete : /\ d.id = job[w].id
                             /\ GotoWith(w, "UpdateReferenceNum", [job[w] EXCEPT !.num = d.refs])
      \/ GotoWith(w, "idle", NoJob)
  BY DEF ReadReferenceNum, Leave, OrNothing, Complete, CompleteOf
<1>2. pc[w] \in DueLabels /\ {"UpdateReferenceNum", "idle"} \subseteq Labels
  BY DEF ReadReferenceNum, At, DueLabels, Labels
<1>3. docs' = docs /\ nextId' = nextId
  BY DEF ReadReferenceNum, database
<1>4. Removed' = Removed /\ Complete' = Complete
  BY <1>3 DEF Removed, Complete
<1>5. Credit <= Credit'
  BY <1>1, <1>2, <1>4, MoveGrows DEF GotoWith, Goto
<1>6. ASSUME NEW u \in Workers, pc'[u] = "UpdateReferenceNum"
      PROVE  job'[u].num \in Int /\ AtFirst(job'[u].id, job'[u].num + Credit)
  <2>1. CASE GotoWith(w, "idle", NoJob)
    <3>1. \A v \in Workers \ {w} : job'[v] = job[v]
      BY <2>1, InvParts DEF Locals, GotoWith
    <3> QED
      BY <1>2, <1>6, <2>1, <3>1, OthersCovered DEF GotoWith, Goto
  <2>2. CASE u # w
    <3>1. pc'[u] = pc[u] /\ job'[u] = job[u]
      BY <1>1, <2>2, InvParts DEF Locals, GotoWith, Goto
    <3> QED
      BY <1>6, <3>1, Numbers DEF RefsInv
  <2>3. ASSUME u = w, NEW d \in Complete, d.id = job[w].id,
               GotoWith(w, "UpdateReferenceNum", [job[w] EXCEPT !.num = d.refs])
        PROVE  job'[u].num \in Int /\ AtFirst(job'[u].id, job'[u].num + Credit)
    <3>1. job'[w] = [job[w] EXCEPT !.num = d.refs] /\ job[w] \in Job
      BY <2>3, InvParts DEF Locals, GotoWith
    <3>2. job'[w].num = d.refs /\ job'[w].id = d.id
      BY <2>3, <3>1 DEF Job
    <3> QED
      BY <2>3, <3>2, Numbers DEF RefsInv
  <2> QED
    BY <1>1, <2>1, <2>2, <2>3
<1> QED
  BY <1>4, <1>5, <1>6, RefsKept

(* RemoveFile: one more removed document for the deletion that is now due. *)
LEMMA RemoveFileRefs ==
    ASSUME IsFiniteSet(Workers), UploadInv, UploadInv', RefsInv, NEW w \in Workers,
           RemoveFile(w)
    PROVE  RefsInv'
<1> DEFINE id   == job[w].id
           gone == {d \in docs : d.id = id}
<1>1. CASE Leave(w, "idle") /\ UNCHANGED docs
  <2>1. Aside(w)
    BY <1>1, NotDue, AsideLeave DEF Leave, RemoveFile
  <2> QED
    BY <2>1, AsideStep
<1>2. CASE gone # {} /\ docs' = docs \ gone /\ Goto(w, "GetId") /\ UNCHANGED job
  <2>1. nextId' = nextId /\ pc[w] \notin DueLabels
    BY DEF RemoveFile, At, DueLabels
  <2>2. id \in 1..(nextId - 1) /\ id \notin Removed
    <3>1. PICK d \in docs : d.id = id
      BY <1>2
    <3>2. DatabaseOK /\ IdsUnique
      BY InvParts DEF Accounts
    <3>3. d \in Document /\ nextId \in Int
      BY <3>2, BoundsAssumption DEF DatabaseOK
    <3>4. d.id \in Ids
      BY <3>3 DEF Document
    <3>5. d.id < nextId
      BY <3>2 DEF IdsUnique
    <3> QED
      BY <3>1, <3>3, <3>4, <3>5, BoundsAssumption DEF Ids, Removed
  <2>3. Removed \cup {id} \subseteq Removed'
    BY <1>2, <2>1, <2>2 DEF Removed
  <2>4. pc'[w] = "GetId" /\ \A u \in Workers : u # w => pc'[u] = pc[u]
    BY <1>2, InvParts DEF Locals, Goto
  <2>5. Due' = Due \cup {w} /\ w \notin Due
    BY <2>1, <2>4 DEF Due, DueLabels
  <2>6. Cardinality(Removed) + 1 <= Cardinality(Removed')
    <3>1. Cardinality(Removed \cup {id}) = Cardinality(Removed) + 1
      BY <2>2, Counted, FS_AddElement
    <3>2. Cardinality(Removed \cup {id}) <= Cardinality(Removed')
      BY <2>3, CountedNext, FS_Subset
    <3> QED
      BY <3>1, <3>2
  <2>7. Cardinality(Due') = Cardinality(Due) + 1
    BY <2>5, Counted, FS_AddElement
  <2>8. Credit <= Credit'
    BY <2>6, <2>7, Counted, CountedNext DEF Credit
  <2>9. Complete' \subseteq Complete
    BY <1>2 DEF Complete, CompleteOf
  <2>10. \A u \in Workers : pc'[u] = "UpdateReferenceNum" =>
            job'[u].num \in Int /\ AtFirst(job'[u].id, job'[u].num + Credit)
    BY <1>2, <2>4, Numbers DEF RefsInv
  <2> QED
    BY <2>8, <2>9, <2>10, RefsKept
<1> QED
  BY <1>1, <1>2 DEF RemoveFile

(* The worker that writes is no longer due: one more credit for one number *)
(* less.                                                                   *)
LEMMA UpdateReferenceNumRefs ==
    ASSUME IsFiniteSet(Workers), UploadInv, UploadInv', RefsInv, NEW w \in Workers,
           UpdateReferenceNum(w)
    PROVE  RefsInv'
<1> DEFINE j == job[w]
           SetRefs(d) == IF d.id = j.id THEN [d EXCEPT !.refs = j.num - 1] ELSE d
           c == Credit
           k == Credit'
<1>1. /\ pc[w] = "UpdateReferenceNum" /\ GotoWith(w, "idle", NoJob)
      /\ docs' = {SetRefs(d) : d \in docs} \/ docs' = docs
      /\ nextId' = nextId
  BY DEF UpdateReferenceNum, At, Leave
<1>2. docs \subseteq Document
  BY Own
<1>3. ASSUME NEW e \in docs'
      PROVE  \E d \in docs : /\ d.id = e.id
                             /\ d.refs = e.refs \/ (d.id = j.id /\ e.refs = j.num - 1)
                             /\ e \in CompleteOf(docs') => d \in CompleteOf(docs)
  <2>1. CASE docs' = docs
    BY <2>1
  <2>2. CASE docs' = {SetRefs(d) : d \in docs}
    <3>1. PICK d \in docs : e = SetRefs(d)
      BY <2>2
    <3>2. /\ e.id = d.id /\ e.kind = d.kind /\ e.state = d.state
          /\ d.refs = e.refs \/ (d.id = j.id /\ e.refs = j.num - 1)
      BY <1>2, <3>1 DEF Document
    <3> QED
      BY <3>1, <3>2 DEF CompleteOf
  <2> QED
    BY <1>1, <2>1, <2>2
<1>4. pc'[w] = "idle" /\ \A u \in Workers : u # w => pc'[u] = pc[u] /\ job'[u] = job[u]
  BY <1>1, InvParts DEF Locals, GotoWith, Goto
<1>5. Removed \subseteq Removed'
  BY <1>1, <1>3, RemovedStays, InvParts, BoundsAssumption DEF Accounts, DatabaseOK
<1>6. Due' = Due \ {w} /\ w \in Due
  BY <1>1, <1>4 DEF Due, DueLabels
<1>7. c \in Int /\ k \in Int /\ c + 1 <= k
  <2>1. Cardinality(Due') = Cardinality(Due) - 1
    BY <1>6, Counted, FS_RemoveElement
  <2>2. Cardinality(Removed) <= Cardinality(Removed')
    BY <1>5, CountedNext, FS_Subset
  <2> QED
    BY <2>1, <2>2, Counted, CountedNext DEF Credit
<1>8. ASSUME NEW x, NEW num \in Int, NEW less \in Int, AtFirst(x, num + c),
             num <= less \/ num = less + 1
      PROVE  AtFirst(x, less + k)
  <2> HIDE DEF c, k
  <2>1. num + c \in Int /\ less + k \in Int /\ num + c <= less + k
    BY <1>7, <1>8
  <2> QED
    BY <1>8, <2>1, AtFirstGrows
<1>9. ASSUME NEW e \in Complete'
      PROVE  AtFirst(e.id, e.refs + k)
  <2>1. PICK d \in Complete : /\ d.id = e.id
                              /\ d.refs = e.refs \/ (d.id = j.id /\ e.refs = j.num - 1)
    BY <1>3 DEF Complete, CompleteOf
  <2>2. d.refs \in Int /\ AtFirst(d.id, d.refs + c)
    BY Numbers DEF RefsInv
  <2>3. j.num \in Int /\ AtFirst(j.id, j.num + c)
    BY <1>1, Numbers DEF RefsInv
  <2>4. CASE d.refs = e.refs
    BY <1>8, <2>1, <2>2, <2>4
  <2>5. CASE d.id = j.id /\ e.refs = j.num - 1
    <3>1. e.refs \in Int /\ j.num = e.refs + 1 /\ e.id = j.id
      BY <2>1, <2>3, <2>5
    <3> QED
      BY <1>8, <2>3, <3>1
  <2> QED
    BY <2>1, <2>4, <2>5
<1>10. ASSUME NEW u \in Workers, pc'[u] = "UpdateReferenceNum"
       PROVE  AtFirst(job'[u].id, job'[u].num + k)
  <2>1. pc[u] = "UpdateReferenceNum" /\ job'[u] = job[u]
    BY <1>4, <1>10
  <2>2. job[u].num \in Int /\ AtFirst(job[u].id, job[u].num + c)
    BY <2>1, Numbers DEF RefsInv
  <2> QED
    BY <1>8, <2>1, <2>2
<1> QED
  BY <1>9, <1>10 DEF RefsInv

(* A restart ends the deletions that are due: no more than they could have *)
(* taken is lost.                                                          *)
LEMMA CrashRefs ==
    ASSUME IsFiniteSet(Workers), UploadInv, UploadInv', RefsInv, Crash
    PROVE  RefsInv'
<1>1. docs' = docs /\ nextId' = nextId /\ pc' = [w \in Workers |-> "idle"]
  BY DEF Crash, database
<1>2. Removed' = Removed /\ Complete' = Complete
  BY <1>1 DEF Removed, Complete
<1>3. Due' \subseteq Due
  BY <1>1 DEF Due, DueLabels
<1>4. Credit <= Credit'
  BY <1>2, <1>3, CreditGrows
<1>5. \A u \in Workers : pc'[u] # "UpdateReferenceNum"
  BY <1>1
<1> QED
  BY <1>2, <1>4, <1>5, RefsKept

LEMMA StutterRefs ==
    ASSUME RefsInv, UNCHANGED vars
    PROVE  RefsInv'
<1>1. docs' = docs /\ nextId' = nextId /\ pc' = pc /\ job' = job
  BY DEF vars, database
<1>2. Complete' = Complete /\ Credit' = Credit
  BY <1>1 DEF Complete, Credit, Removed, Due
<1> QED
  BY <1>1, <1>2 DEF RefsInv

LEMMA InitRefs ==
    ASSUME IsFiniteSet(Workers), Init, UploadInv
    PROVE  RefsInv
<1>1. Due = {}
  BY DEF Init, Due, DueLabels
<1>2. Credit \in Int /\ 0 <= Credit
  BY <1>1, Counted, FS_EmptySet DEF Credit
<1>3. PICK x \in Seeds : docs = x.docs
  BY DEF Init
<1>4. ASSUME NEW d \in Complete
      PROVE  AtFirst(d.id, d.refs + Credit)
  <2> DEFINE c == Credit
  <2>1. d \in CompleteOf(x.docs) /\ d.refs \in Int
    BY <1>3, Numbers DEF Complete
  <2>2. d.refs <= d.refs + c
    <3> HIDE DEF c
    <3>1. c \in Int /\ 0 <= c
      BY <1>2 DEF c
    <3> QED
      BY <2>1, <3>1
  <2> QED
    BY <2>1, <2>2 DEF AtFirst
<1>5. \A w \in Workers : pc[w] # "UpdateReferenceNum"
  BY DEF Init
<1> QED
  BY <1>4, <1>5 DEF RefsInv

LEMMA NextRefs ==
    ASSUME IsFiniteSet(Workers), UploadInv, UploadInv', RefsInv, [Next]_vars
    PROVE  RefsInv'
<1>1. CASE Crash
  BY <1>1, CrashRefs
<1>2. ASSUME NEW w \in Workers, Request(w)
      PROVE  RefsInv'
  BY <1>2, RequestAside, AsideStep
<1>3. ASSUME NEW w \in Workers, Handler(w)
      PROVE  RefsInv'
  <2>1. CASE Looks(w)
    BY <2>1, LooksStep, AsideStep
  <2>2. CASE AddTransmission(w)
    BY <2>2, AddTransmissionAside, AsideStep
  <2>3. CASE AddFile(w) \/ AddFileMD5(w)
    BY <2>3, InsertRefs
  <2>4. CASE UpdateState(w)
    BY <2>4, UpdateStateRefs
  <2>5. CASE RemoveFile(w)
    BY <2>5, RemoveFileRefs
  <2>6. CASE FindId(w)
    BY <2>6, FindIdRefs
  <2>7. CASE ReadReferenceNum(w)
    BY <2>7, ReadReferenceNumRefs
  <2>8. CASE UpdateReferenceNum(w)
    BY <2>8, UpdateReferenceNumRefs
  <2> QED
    BY <1>3, <2>1, <2>2, <2>3, <2>4, <2>5, <2>6, <2>7, <2>8 DEF Handler, Looks
<1>4. CASE UNCHANGED vars
  BY <1>4, StutterRefs
<1> QED
  BY <1>1, <1>2, <1>3, <1>4 DEF Next

(* What is due has not been taken yet.                                     *)
LEMMA RefsFollow ==
    ASSUME IsFiniteSet(Workers), UploadInv, RefsInv
    PROVE  RefsFallWithRemovals
<1> DEFINE c == Credit
           r == Cardinality(Removed)
<1>1. c \in Int /\ r \in Int /\ c <= r
  BY Counted DEF Credit
<1> SUFFICES ASSUME NEW d \in Complete
             PROVE  \E x \in Seeds : \E e \in CompleteOf(x.docs) :
                        e.id = d.id /\ e.refs <= d.refs + r
  BY DEF RefsFallWithRemovals
<1>2. d.refs \in Int /\ AtFirst(d.id, d.refs + c)
  BY Numbers DEF RefsInv
<1>3. d.refs + c \in Int /\ d.refs + r \in Int /\ d.refs + c <= d.refs + r
  <2> HIDE DEF c, r
  <2> QED
    BY <1>1, <1>2
<1>4. AtFirst(d.id, d.refs + r)
  BY <1>2, <1>3, AtFirstGrows
<1> QED
  BY <1>4 DEF AtFirst

(* Whatever fails, however often the process is killed and whichever way   *)
(* the deletions interleave, the number of references of a filemd5 falls   *)
(* by no more than the documents that were removed                         *)
(* (filemd5_service.cc:80-86, sync_drive_server.cc:344-368).               *)
THEOREM ReferencesAreNeverTooFew ==
    ASSUME IsFiniteSet(Workers)
    PROVE  Spec => []RefsFallWithRemovals
<1>1. Init /\ UploadInv => RefsInv
  BY InitRefs
<1>2. UploadInv /\ UploadInv' /\ RefsInv /\ [Next]_vars => RefsInv'
  BY NextRefs
<1>3. UploadInv /\ RefsInv => RefsFallWithRemovals
  BY RefsFollow
<1> QED
  BY <1>1, <1>2, <1>3, UploadSafe, PTL DEF Spec
=============================================================================
