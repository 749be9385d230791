------------------------------ MODULE MCUpload ------------------------------
(* Upload for one content and small databases: what an administrator may   *)
(* have loaded before the server starts.                                   *)
EXTENDS Upload

TheMd5 == CHOOSE m \in Md5s : TRUE

AFile(id, f, st) ==
    [id |-> id, kind |-> "file", md5 |-> TheMd5, name |-> f, state |-> st, refs |-> 0]

AFileMD5(id, st) ==
    [id |-> id, kind |-> "filemd5", md5 |-> TheMd5, name |-> "", state |-> st, refs |-> 2]

(* A database with the documents D, where the filemd5s with the ids owing  *)
(* owe all their slides.                                                   *)
Database(D, next, owing) ==
    [docs     |-> D,
     nextId   |-> next,
     pending  |-> [id \in Ids |-> [s \in Slides |-> IF id \in owing THEN 1 ELSE 0]],
     disk     |-> IF owing = {} THEN {} ELSE {TheMd5},
     received |-> {}]

EmptyDatabase == Database({}, 1, {})

(* A filemd5 that is complete, unfinished, and owes every slide.           *)
NewFile == Database({AFileMD5(1, 0)}, 2, {1})

(* The same, behind or in front of a file document of the same content.    *)
FileFirst(f) == Database({AFile(1, f, NoState), AFileMD5(2, 0)}, 3, {2})

FileLast(f) == Database({AFileMD5(1, 0), AFile(2, f, 0)}, 3, {1})

(* The database of one server with the disk of another.                    *)
NoFolder == [NewFile EXCEPT !.disk = {}]

(* Two files of one filemd5.                                               *)
TwoFiles(f, g) == Database({AFileMD5(1, 0), AFile(2, f, 0), AFile(3, g, 0)}, 4, {1})

(* Two filemd5s of one content: once the first is deleted the second is    *)
(* found.                                                                  *)
TwoContents == Database({AFileMD5(1, 0), AFileMD5(2, 0)}, 3, {1, 2})

SomeSeeds ==
    {EmptyDatabase, NewFile, NoFolder, TwoContents}
        \cup {FileFirst(f) : f \in Names} \cup {FileLast(f) : f \in Names}
        \cup {TwoFiles(f, g) : f \in Names, g \in Names}

NewFileOnly == {NewFile}
=============================================================================
