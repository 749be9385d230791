------------------------------ MODULE Accounts ------------------------------
(***************************************************************************)
(* Users and directories: UserService, DirectoryService, their DAOs, and   *)
(* the clients that ProcessLogin makes.  Every DAO is bound to the         *)
(* collection of users (dao.cc:3-5), so users and directories are          *)
(* documents of one collection, and a search by name finds either.         *)
(*                                                                         *)
(* The callers are reactor threads, each with one call at a time.  A step  *)
(* is one call of the database driver or one access to the client pool.    *)
(* A driver call that throws is reported as a search that found nothing,   *)
(* or as an insertion that failed, whether it took effect or not.          *)
(***************************************************************************)
EXTENDS Integers, Sequences

CONSTANTS
    Threads,
    Names, Passwords,
    Places,         \* pairs of a parent and a user that a directory is under
    Malformed,      \* a string that is no ObjectId
    None,
    DriverFaults,   \* whether driver calls may throw
    Seeds,          \* the collections that the server may start on
    MaxDocs         \* bound: documents ever inserted

(* A user that can be decoded has an int32 sync_directory_id; AddUser      *)
(* writes none.  seen is history: how many documents there were when the   *)
(* inserter searched last.                                                 *)
Document ==
    [kind : {"user", "directory"}, name : Names, password : Passwords \cup {None},
     place : Places \cup {None}, complete : BOOLEAN, live : BOOLEAN, seen : Nat]

ASSUME AccountsAssumption ==
    /\ DriverFaults \in BOOLEAN
    /\ MaxDocs \in Nat
    /\ None \notin Names \cup Passwords \cup Places
    /\ Malformed \notin Places
    /\ Seeds \subseteq Seq(Document)
    /\ \A D \in Seeds : \A i \in DOMAIN D : D[i].seen = 0

VARIABLES
    docs,           \* the documents in the order of insertion, which their ids are
    pc,             \* the next step of each thread's call
    call,           \* its arguments
    seen,           \* history: how many documents its last search went through
    checked,        \* the document whose password it compared
    user,           \* the id that GetId gave
    client,         \* the client it has a pointer to
    clients,        \* the current client of each user id, 0 if there is none
    fds,            \* the connections of the current client
    loggedIn,       \* history: the connections that have been told so
    overlapped      \* history: user ids for which two threads made a client at once

pool     == <<clients, fds, loggedIn, overlapped>>
locals   == <<call, seen, checked, user, client>>
vars     == <<docs, pc, call, seen, checked, user, client, clients, fds, loggedIn, overlapped>>

Ids == 1..MaxDocs

Labels ==
    {"idle", "dead",
     "RegisterHas", "AddUserHas", "AddUser",
     "Login", "GetUserId", "HasClient", "MakeClient", "AddConnection",
     "ChangePassword",
     "HasDirectory", "AddDirectory", "RemoveDirectory"}

Call ==
    [name : Names \cup {None}, password : Passwords \cup {None},
     place : Places \cup {None, Malformed}, id : Ids \cup {0}]

NoCall == [name |-> None, password |-> None, place |-> None, id |-> 0]

TypeOK ==
    /\ docs \in Seq(Document) /\ Len(docs) <= MaxDocs
    /\ pc \in [Threads -> Labels]
    /\ call \in [Threads -> Call]
    /\ seen \in [Threads -> Nat]
    /\ checked \in [Threads -> Ids \cup {0}]
    /\ user \in [Threads -> Ids \cup {0}]
    /\ client \in [Threads -> Nat]
    /\ clients \in [Ids -> Nat]
    /\ fds \in [Ids -> SUBSET Threads]
    /\ loggedIn \in [Ids -> SUBSET Threads]
    /\ overlapped \subseteq Ids

Init ==
    /\ docs \in {D \in Seeds : Len(D) <= MaxDocs}
    /\ pc = [t \in Threads |-> "idle"]
    /\ call = [t \in Threads |-> NoCall]
    /\ seen = [t \in Threads |-> 0]
    /\ checked = [t \in Threads |-> 0]
    /\ user = [t \in Threads |-> 0]
    /\ client = [t \in Threads |-> 0]
    /\ clients = [i \in Ids |-> 0]
    /\ fds = [i \in Ids |-> {}]
    /\ loggedIn = [i \in Ids |-> {}]
    /\ overlapped = {}

-----------------------------------------------------------------------------
(* The collection.  find_one gives the first of the documents that match.  *)
FirstOf_Newest(S) == {i \in S : \A j \in S : j <= i}

FirstOf(S) == {i \in S : \A j \in S : i <= j}

ByName_Decoded(n) == {i \in DOMAIN docs : docs[i].live /\ docs[i].name = n /\ docs[i].complete}

ByName(n) == {i \in DOMAIN docs : docs[i].live /\ docs[i].name = n}
ByPlace(n, q) == {i \in ByName(n) : docs[i].kind = "directory" /\ docs[i].place = q}

(* GetOne with GenerateUserFromView.                                       *)
Decoded_Lenient(S) == {i \in S : docs[i].kind = "user"}

Decoded(S) == {i \in S : docs[i].kind = "user" /\ docs[i].complete}

Works == IF DriverFaults THEN BOOLEAN ELSE {TRUE}

Goto(t, label) == pc' = [pc EXCEPT ![t] = label]

(* The call is over: its locals are gone.                                  *)
Leave(t, label) ==
    /\ pc' = [pc EXCEPT ![t] = label]
    /\ call' = [call EXCEPT ![t] = NoCall]
    /\ seen' = [seen EXCEPT ![t] = 0]
    /\ checked' = [checked EXCEPT ![t] = 0]
    /\ user' = [user EXCEPT ![t] = 0]
    /\ client' = [client EXCEPT ![t] = 0]

Begin(t, label, arguments) ==
    /\ pc[t] = "idle"
    /\ Goto(t, label)
    /\ call' = [call EXCEPT ![t] = arguments]
    /\ UNCHANGED <<docs, seen, checked, user, client, pool>>

(* A search of thread t, whose caller goes to label absent if it found     *)
(* nothing, and gives up otherwise.                                        *)
Has(t, S, absent) ==
    \E works \in Works :
        \/ /\ works /\ S # {}
           /\ Leave(t, "idle")
        \/ /\ ~ works \/ S = {}
           /\ Goto(t, absent)
           /\ seen' = [seen EXCEPT ![t] = IF works THEN Len(docs) ELSE 0]
           /\ UNCHANGED <<call, checked, user, client>>

Insert(t, doc) ==
    /\ Len(docs) < MaxDocs
    /\ \/ docs' = Append(docs, doc)
       \/ DriverFaults /\ UNCHANGED docs
    /\ Leave(t, "idle")

-----------------------------------------------------------------------------
(* UserService::Register: the name is looked for twice.                    *)
Register(t, n, p) ==
    Begin(t, "RegisterHas", [NoCall EXCEPT !.name = n, !.password = p])

RegisterHas(t) ==
    /\ pc[t] = "RegisterHas"
    /\ Has(t, ByName(call[t].name), "AddUserHas")
    /\ UNCHANGED <<docs, pool>>

AddUserHas(t) ==
    /\ pc[t] = "AddUserHas"
    /\ Has(t, ByName(call[t].name), "AddUser")
    /\ UNCHANGED <<docs, pool>>

AddUser(t) ==
    /\ pc[t] = "AddUser"
    /\ Insert(t, [kind |-> "user", name |-> call[t].name, password |-> call[t].password,
                  place |-> None, complete |-> FALSE, live |-> TRUE, seen |-> seen[t]])
    /\ UNCHANGED pool

-----------------------------------------------------------------------------
(* ProcessLogin: the password of the first document of the name, then the  *)
(* id of the first document of the name, then the client of the id.        *)
StartLogin(t, n, p) ==
    Begin(t, "Login", [NoCall EXCEPT !.name = n, !.password = p])

Login(t) ==
    /\ pc[t] = "Login"
    /\ \E found \in IF DriverFaults THEN {Decoded(FirstOf(ByName(call[t].name))), {}}
                                    ELSE {Decoded(FirstOf(ByName(call[t].name)))} :
          \/ \E i \in found :
                /\ docs[i].password = call[t].password
                /\ checked' = [checked EXCEPT ![t] = i]
                /\ Goto(t, "GetUserId")
                /\ UNCHANGED <<call, seen, user, client>>
          \/ /\ \A i \in found : docs[i].password # call[t].password
             /\ Leave(t, "idle")
    /\ UNCHANGED <<docs, pool>>

GetUserId(t) ==
    /\ pc[t] = "GetUserId"
    /\ \/ \E i \in FirstOf(ByName(call[t].name)) :
             /\ user' = [user EXCEPT ![t] = i]
             /\ Goto(t, "HasClient")
             /\ UNCHANGED <<call, seen, checked, client>>
       \/ /\ DriverFaults \/ FirstOf(ByName(call[t].name)) = {}
          /\ Leave(t, "idle")
    /\ UNCHANGED <<docs, pool>>

(* A mistake: a client is made without a look at what there is.            *)
HasClient_Unchecked(t) ==
    /\ pc[t] = "HasClient"
    /\ Goto(t, "MakeClient")
    /\ UNCHANGED <<docs, call, seen, checked, user, client, pool>>

(* GetOrMakeClient, without a lock: the look-up, and the insertion that    *)
(* replaces a client that is there by now.                                 *)
HasClient(t) ==
    LET u == user[t] IN
    /\ pc[t] = "HasClient"
    /\ \/ /\ clients[u] # 0
          /\ client' = [client EXCEPT ![t] = clients[u]]
          /\ Goto(t, "AddConnection")
          /\ UNCHANGED overlapped
       \/ /\ clients[u] = 0
          /\ Goto(t, "MakeClient")
          /\ overlapped' = IF \E s \in Threads : pc[s] = "MakeClient" /\ user[s] = u
                           THEN overlapped \cup {u} ELSE overlapped
          /\ UNCHANGED client
    /\ UNCHANGED <<docs, call, seen, checked, user, clients, fds, loggedIn>>

MakeClient(t) ==
    LET u == user[t] IN
    /\ pc[t] = "MakeClient"
    /\ clients' = [clients EXCEPT ![u] = @ + 1]
    /\ fds' = [fds EXCEPT ![u] = {}]
    /\ client' = [client EXCEPT ![t] = clients[u] + 1]
    /\ Goto(t, "AddConnection")
    /\ UNCHANGED <<docs, call, seen, checked, user, loggedIn, overlapped>>

(* SyncDriveClient::AddConnection.  A client that has been replaced is     *)
(* gone, and what is written to it too.                                    *)
AddConnection(t) ==
    LET u == user[t] IN
    /\ pc[t] = "AddConnection"
    /\ fds' = IF client[t] = clients[u] THEN [fds EXCEPT ![u] = @ \cup {t}] ELSE fds
    /\ loggedIn' = [loggedIn EXCEPT ![u] = @ \cup {t}]
    /\ Leave(t, "idle")
    /\ UNCHANGED <<docs, clients, overlapped>>

-----------------------------------------------------------------------------
(* ProcessModifyUser: update_one by the id that a client has.              *)
StartChangePassword(t, u, p) ==
    /\ clients[u] # 0
    /\ Begin(t, "ChangePassword", [NoCall EXCEPT !.id = u, !.password = p])

ChangePassword(t) ==
    LET u == call[t].id IN
    /\ pc[t] = "ChangePassword"
    /\ \/ /\ u \in DOMAIN docs /\ docs[u].live
          /\ docs' = [docs EXCEPT ![u].password = call[t].password]
       \/ /\ DriverFaults \/ u \notin DOMAIN docs \/ ~ docs[u].live
          /\ UNCHANGED docs
    /\ Leave(t, "idle")
    /\ UNCHANGED pool

-----------------------------------------------------------------------------
(* DirectoryService.  The id of a directory is made from a string before   *)
(* anything is caught: of a malformed one the call throws, and the thread's *)
(* loop is over.  In Has it is caught, and counts as nothing found.        *)
StartAddDirectory(t, n, q) ==
    Begin(t, "HasDirectory", [NoCall EXCEPT !.name = n, !.place = q])

HasDirectory(t) ==
    /\ pc[t] = "HasDirectory"
    /\ Has(t, ByPlace(call[t].name, call[t].place), "AddDirectory")
    /\ UNCHANGED <<docs, pool>>

AddDirectory(t) ==
    /\ pc[t] = "AddDirectory"
    /\ \/ /\ call[t].place # Malformed
          /\ Insert(t, [kind |-> "directory", name |-> call[t].name, password |-> None,
                        place |-> call[t].place, complete |-> FALSE, live |-> TRUE,
                        seen |-> seen[t]])
       \/ /\ call[t].place = Malformed
          /\ Leave(t, "dead")
          /\ UNCHANGED docs
    /\ UNCHANGED pool

(* Whatever has the id is removed.                                         *)
StartRemoveDirectory(t, i) ==
    Begin(t, "RemoveDirectory", [NoCall EXCEPT !.id = i])

RemoveDirectory(t) ==
    LET i == call[t].id IN
    /\ pc[t] = "RemoveDirectory"
    /\ \/ /\ i \in DOMAIN docs
          /\ docs' = [docs EXCEPT ![i].live = FALSE]
          /\ Leave(t, "idle")
       \/ /\ DriverFaults \/ i \notin DOMAIN docs
          /\ UNCHANGED docs
          /\ Leave(t, IF i = 0 THEN "dead" ELSE "idle")
    /\ UNCHANGED pool
-----------------------------------------------------------------------------
(* The process is killed and started again: the collection is what stays.  *)
Restart ==
    /\ pc' = [t \in Threads |-> "idle"]
    /\ call' = [t \in Threads |-> NoCall]
    /\ seen' = [t \in Threads |-> 0]
    /\ checked' = [t \in Threads |-> 0]
    /\ user' = [t \in Threads |-> 0]
    /\ client' = [t \in Threads |-> 0]
    /\ clients' = [i \in Ids |-> 0]
    /\ fds' = [i \in Ids |-> {}]
    /\ loggedIn' = [i \in Ids |-> {}]
    /\ overlapped' = {}
    /\ UNCHANGED docs

Start(t) ==
    \/ \E n \in Names, p \in Passwords : Register(t, n, p) \/ StartLogin(t, n, p)
    \/ \E u \in Ids, p \in Passwords : StartChangePassword(t, u, p)
    \/ \E n \in Names, q \in Places \cup {Malformed} : StartAddDirectory(t, n, q)
    \/ \E i \in Ids \cup {0} : StartRemoveDirectory(t, i)

Step(t) ==
    \/ RegisterHas(t) \/ AddUserHas(t) \/ AddUser(t)
    \/ Login(t) \/ GetUserId(t) \/ HasClient(t) \/ MakeClient(t) \/ AddConnection(t)
    \/ ChangePassword(t)
    \/ HasDirectory(t) \/ AddDirectory(t) \/ RemoveDirectory(t)

Next == (\E t \in Threads : Start(t) \/ Step(t)) \/ Restart

Spec == Init /\ [][Next]_vars

-----------------------------------------------------------------------------
(* Two documents that the checks are to keep apart: of one name, if the    *)
(* later is a user, and under one place if it is a directory.              *)
Clash(i, j) ==
    /\ docs[i].live /\ docs[j].live /\ docs[i].name = docs[j].name
    /\ docs[j].kind = "directory" =>
          docs[i].kind = "directory" /\ docs[i].place = docs[j].place

(* Two such documents come about only if the last search of the later one's *)
(* inserter was over when the earlier was inserted, or threw: there is no   *)
(* other way past the checks (user_dao.cc:113, directory_dao.cc:150).      *)
DuplicateOnlyByRace ==
    \A i, j \in DOMAIN docs : i < j /\ Clash(i, j) => docs[j].seen < i

(* A login is for the user whose password was compared, although the id is *)
(* searched for again, by the name only: of several documents with one     *)
(* name both searches find the first.  It can be another only if the user  *)
(* has been removed in between (server.cc:169-174).                        *)
LoginIsOfCheckedUser ==
    \A t \in Threads :
        pc[t] \in {"HasClient", "MakeClient", "AddConnection"} =>
            \/ user[t] = checked[t]
            \/ ~ docs[checked[t]].live

(* Whoever logs in does so under the name of a user who can be decoded,    *)
(* and registering does not make one: AddUser leaves out the               *)
(* sync_directory_id that GenerateUserFromView requires.                   *)
RegisteredNeverLogIn ==
    \A u \in Ids : loggedIn[u] # {} =>
        /\ u \in DOMAIN docs
        /\ \E i \in DOMAIN docs :
              docs[i].complete /\ docs[i].kind = "user" /\ docs[i].name = docs[u].name

(* A connection that was told it is logged in is among the connections of  *)
(* its user's client, unless two logins made that client at once, each     *)
(* after it had found none (sync_drive_client_pool.cc:50-57).              *)
LoginIsKept ==
    \A u \in Ids \ overlapped : loggedIn[u] \subseteq fds[u]
=============================================================================
