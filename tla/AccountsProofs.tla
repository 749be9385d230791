--------------------------- MODULE AccountsProofs ---------------------------
(* Safety of users, directories and logins for every set of threads, names *)
(* and passwords, every collection to start on, and every number of        *)
(* documents.                                                              *)
EXTENDS Accounts, SequenceTheorems, TLAPS

-----------------------------------------------------------------------------
(* The inductive invariant, a part per matter.                             *)
Registering == {"RegisterHas", "AddUserHas", "AddUser"}
InDirectory == {"HasDirectory", "AddDirectory"}
HasUser     == {"HasClient", "MakeClient", "AddConnection"}
LoggingIn   == HasUser \cup {"GetUserId"}

(* What a call has for arguments.                                          *)
CallOK(t) ==
    /\ pc[t] \in Registering \cup InDirectory => call[t].name \in Names
    /\ pc[t] \in Registering \cup {"ChangePassword"} => call[t].password \in Passwords
    /\ pc[t] \in InDirectory => call[t].place \in Places \cup {Malformed}

(* A thread that is to insert has seen no document like the one to come    *)
(* among those there were when it searched.                                *)
SearchedOK(t) ==
    /\ seen[t] <= Len(docs)
    /\ pc[t] = "AddUser" => \A i \in ByName(call[t].name) : seen[t] < i
    /\ pc[t] = "AddDirectory" =>
          \A i \in ByPlace(call[t].name, call[t].place) : seen[t] < i

(* A thread that logs in has compared the password of a user, the first of *)
(* the name while nobody removes it.                                       *)
IsUserOf(i, n) ==
    i \in 1..Len(docs) /\ docs[i].name = n /\ docs[i].kind = "user" /\ docs[i].complete

LoginOK(t) ==
    /\ pc[t] \in LoggingIn => IsUserOf(checked[t], call[t].name)
    /\ pc[t] = "GetUserId" /\ docs[checked[t]].live =>
          \A i \in ByName(call[t].name) : checked[t] <= i
    /\ pc[t] \in HasUser =>
          /\ user[t] \in 1..Len(docs)
          /\ docs[user[t]].name = call[t].name
          /\ user[t] = checked[t] \/ ~ docs[checked[t]].live

(* Where no two threads have made a client at once, one makes it, and the  *)
(* others use that.                                                        *)
ClientOK(t) ==
    /\ pc[t] = "AddConnection" => clients[user[t]] # 0
    /\ user[t] \notin overlapped =>
          /\ pc[t] = "MakeClient" =>
                /\ clients[user[t]] = 0
                /\ \A s \in Threads : pc[s] = "MakeClient" /\ user[s] = user[t] => s = t
          /\ pc[t] = "AddConnection" => client[t] = clients[user[t]]

NoClientNoLogin == \A u \in Ids : clients[u] = 0 => loggedIn[u] = {}

AccountsInv ==
    /\ TypeOK
    /\ \A t \in Threads : CallOK(t) /\ SearchedOK(t) /\ LoginOK(t) /\ ClientOK(t)
    /\ DuplicateOnlyByRace /\ RegisteredNeverLogIn
    /\ NoClientNoLogin /\ LoginIsKept

-----------------------------------------------------------------------------
(* What a step does to the documents: those there are keep all but their   *)
(* passwords, the dead stay dead, and at most one is added.                *)
Kept ==
    /\ Len(docs) \in Nat /\ Len(docs') \in {Len(docs), Len(docs) + 1}
    /\ Len(docs') <= MaxDocs /\ docs' \in Seq(Document)
    /\ \A i \in 1..Len(docs) :
          /\ docs'[i].kind = docs[i].kind /\ docs'[i].name = docs[i].name
          /\ docs'[i].place = docs[i].place /\ docs'[i].complete = docs[i].complete
          /\ docs'[i].seen = docs[i].seen
          /\ docs'[i].live => docs[i].live

(* The document that a step adds, if it adds one.                          *)
Added(doc) == Len(docs') = Len(docs) + 1 => docs'[Len(docs) + 1] = doc

LEMMA Elements ==
    ASSUME TypeOK
    PROVE  /\ docs \in Seq(Document) /\ Len(docs) \in Nat
           /\ DOMAIN docs = 1..Len(docs)
           /\ \A i \in 1..Len(docs) : docs[i] \in Document
BY LenProperties, ElementOfSeq DEF TypeOK

LEMMA UnchangedDocs ==
    ASSUME TypeOK, docs' = docs
    PROVE  Kept /\ Len(docs') = Len(docs)
BY Elements DEF Kept, TypeOK

LEMMA AppendedDoc ==
    ASSUME TypeOK, NEW doc \in Document, Len(docs) < MaxDocs, docs' = Append(docs, doc)
    PROVE  /\ Kept /\ Len(docs') = Len(docs) + 1
           /\ docs'[Len(docs) + 1] = doc
<1>1. /\ Len(docs') = Len(docs) + 1 /\ docs' \in Seq(Document)
      /\ \A i \in 1..Len(docs) : docs'[i] = docs[i]
      /\ docs'[Len(docs) + 1] = doc
  BY AppendProperties, Elements
<1> QED
  BY <1>1, Elements, AccountsAssumption DEF Kept

LEMMA ChangedDoc ==
    ASSUME TypeOK, NEW u \in 1..Len(docs), NEW doc \in Document,
           doc.kind = docs[u].kind, doc.name = docs[u].name, doc.place = docs[u].place,
           doc.complete = docs[u].complete, doc.seen = docs[u].seen,
           doc.live \in {FALSE, docs[u].live},
           docs' = [docs EXCEPT ![u] = doc]
    PROVE  Kept /\ Len(docs') = Len(docs)
<1>1. docs' \in Seq(Document) /\ Len(docs') = Len(docs)
  BY ExceptSeq, Elements
<1>2. \A i \in 1..Len(docs) : docs'[i] = IF i = u THEN doc ELSE docs[i]
  BY Elements
<1> QED
  BY <1>1, <1>2, Elements DEF Kept, TypeOK

-----------------------------------------------------------------------------
(* Each action's effect on the documents.                                  *)
NewUser(t) ==
    [kind |-> "user", name |-> call[t].name, password |-> call[t].password,
     place |-> None, complete |-> FALSE, live |-> TRUE, seen |-> seen[t]]

NewDirectory(t) ==
    [kind |-> "directory", name |-> call[t].name, password |-> None,
     place |-> call[t].place, complete |-> FALSE, live |-> TRUE, seen |-> seen[t]]

LEMMA AddUserKeeps ==
    ASSUME TypeOK, NEW t \in Threads, CallOK(t), AddUser(t)
    PROVE  Kept /\ Added(NewUser(t))
<1>1. NewUser(t) \in Document
  BY DEF TypeOK, CallOK, Registering, AddUser, NewUser, Document
<1>2. CASE docs' = Append(docs, NewUser(t)) /\ Len(docs) < MaxDocs
  BY <1>1, <1>2, AppendedDoc DEF Added
<1>3. CASE docs' = docs
  <2>1. Len(docs) \in Nat /\ Len(docs') = Len(docs)
    BY <1>3, Elements
  <2> QED
    BY <1>3, <2>1, UnchangedDocs DEF Added
<1>4. \/ /\ docs' = Append(docs, NewUser(t)) /\ Len(docs) < MaxDocs
      \/ docs' = docs
  BY DEF AddUser, Insert, NewUser
<1> QED
  BY <1>2, <1>3, <1>4

LEMMA AddDirectoryKeeps ==
    ASSUME TypeOK, NEW t \in Threads, CallOK(t), AddDirectory(t)
    PROVE  Kept /\ Added(NewDirectory(t))
<1>2. CASE docs' = Append(docs, NewDirectory(t)) /\ Len(docs) < MaxDocs
           /\ call[t].place # Malformed
  <2>1. NewDirectory(t) \in Document
    BY <1>2 DEF TypeOK, CallOK, InDirectory, AddDirectory, NewDirectory, Document
  <2> QED
    BY <1>2, <2>1, AppendedDoc DEF Added
<1>3. CASE docs' = docs
  <2>1. Len(docs) \in Nat /\ Len(docs') = Len(docs)
    BY <1>3, Elements
  <2> QED
    BY <1>3, <2>1, UnchangedDocs DEF Added
<1>4. \/ /\ docs' = Append(docs, NewDirectory(t)) /\ Len(docs) < MaxDocs
         /\ call[t].place # Malformed
      \/ docs' = docs
  BY DEF AddDirectory, Insert, NewDirectory
<1> QED
  BY <1>2, <1>3, <1>4

LEMMA ChangePasswordKeeps ==
    ASSUME TypeOK, NEW t \in Threads, CallOK(t), ChangePassword(t)
    PROVE  Kept /\ Len(docs') = Len(docs)
<1>1. CASE /\ call[t].id \in DOMAIN docs
           /\ docs' = [docs EXCEPT ![call[t].id].password = call[t].password]
  <2> DEFINE u == call[t].id
             doc == [docs[u] EXCEPT !.password = call[t].password]
  <2>1. u \in 1..Len(docs) /\ docs[u] \in Document
    BY <1>1, Elements
  <2>2. call[t].password \in Passwords
    BY DEF CallOK, ChangePassword
  <2>3. /\ doc \in Document /\ doc.kind = docs[u].kind /\ doc.name = docs[u].name
        /\ doc.place = docs[u].place /\ doc.complete = docs[u].complete
        /\ doc.seen = docs[u].seen /\ doc.live \in {FALSE, docs[u].live}
    BY <2>1, <2>2 DEF Document
  <2>4. docs' = [docs EXCEPT ![u] = doc]
    BY <1>1
  <2> HIDE DEF doc, u
  <2> QED
    BY <2>1, <2>3, <2>4, ChangedDoc
<1>2. CASE docs' = docs
  BY <1>2, UnchangedDocs
<1> QED
  BY <1>1, <1>2 DEF ChangePassword

LEMMA RemoveDirectoryKeeps ==
    ASSUME TypeOK, NEW t \in Threads, RemoveDirectory(t)
    PROVE  Kept /\ Len(docs') = Len(docs)
<1>1. CASE /\ call[t].id \in DOMAIN docs
           /\ docs' = [docs EXCEPT ![call[t].id].live = FALSE]
  <2> DEFINE u == call[t].id
             doc == [docs[u] EXCEPT !.live = FALSE]
  <2>1. u \in 1..Len(docs) /\ docs[u] \in Document
    BY <1>1, Elements
  <2>3. /\ doc \in Document /\ doc.kind = docs[u].kind /\ doc.name = docs[u].name
        /\ doc.place = docs[u].place /\ doc.complete = docs[u].complete
        /\ doc.seen = docs[u].seen /\ doc.live \in {FALSE, docs[u].live}
    BY <2>1 DEF Document
  <2>4. docs' = [docs EXCEPT ![u] = doc]
    BY <1>1
  <2> HIDE DEF doc, u
  <2> QED
    BY <2>1, <2>3, <2>4, ChangedDoc
<1>2. CASE docs' = docs
  BY <1>2, UnchangedDocs
<1> QED
  BY <1>1, <1>2 DEF RemoveDirectory

LEMMA RestKeeps ==
    ASSUME TypeOK, NEW t \in Threads,
           \/ Start(t) \/ RegisterHas(t) \/ AddUserHas(t) \/ HasDirectory(t)
           \/ Login(t) \/ GetUserId(t) \/ HasClient(t) \/ MakeClient(t) \/ AddConnection(t)
    PROVE  Kept /\ Len(docs') = Len(docs)
<1>1. docs' = docs
  BY DEF Start, Register, StartLogin, StartChangePassword, StartAddDirectory,
     StartRemoveDirectory, Begin, RegisterHas, AddUserHas, HasDirectory, Login, GetUserId,
     HasClient, MakeClient, AddConnection
<1> QED
  BY <1>1, UnchangedDocs

LEMMA StepKeeps ==
    ASSUME TypeOK, \A t \in Threads : CallOK(t), [Next]_vars
    PROVE  Kept
<1>1. CASE docs' = docs
  BY <1>1, UnchangedDocs
<1>2. ASSUME NEW t \in Threads, Start(t) \/ Step(t) PROVE Kept
  BY <1>2, RestKeeps, AddUserKeeps, AddDirectoryKeeps, ChangePasswordKeeps,
     RemoveDirectoryKeeps DEF Step
<1> QED
  BY <1>1, <1>2 DEF Next, Restart, vars

(* The documents of a name, or of a place, were there before or are new.   *)
LEMMA StillNamed ==
    ASSUME TypeOK, Kept, NEW n, NEW q
    PROVE  /\ \A i \in ByName(n)' : i \in ByName(n) \/ i = Len(docs) + 1
           /\ \A i \in ByPlace(n, q)' : i \in ByPlace(n, q) \/ i = Len(docs) + 1
<1>1. DOMAIN docs = 1..Len(docs) /\ DOMAIN docs' = 1..Len(docs') /\ Len(docs) \in Nat
  BY Elements, LenProperties DEF Kept
<1>2. ASSUME NEW i \in 1..Len(docs')
      PROVE  i \in 1..Len(docs) \/ i = Len(docs) + 1
  <2>1. Len(docs') = Len(docs) \/ Len(docs') = Len(docs) + 1
    BY DEF Kept
  <2>2. Len(docs) \in Nat
    BY Elements
  <2> QED
    BY <2>1, <2>2
<1>3. ASSUME NEW i \in 1..Len(docs), i \in ByName(n)' PROVE i \in ByName(n)
  BY <1>1, <1>3 DEF Kept, ByName
<1>4. ASSUME NEW i \in 1..Len(docs), i \in ByPlace(n, q)' PROVE i \in ByPlace(n, q)
  BY <1>1, <1>4 DEF Kept, ByPlace, ByName
<1> QED
  BY <1>1, <1>2, <1>3, <1>4 DEF ByName, ByPlace

-----------------------------------------------------------------------------
(* A thread's locals.                                                      *)
Locals(s) == <<pc[s], call[s], seen[s], checked[s], user[s], client[s]>>

LEMMA OthersAlone ==
    ASSUME TypeOK, NEW t \in Threads, NEW s \in Threads, s # t, Start(t) \/ Step(t)
    PROVE  Locals(s)' = Locals(s)
<1> USE DEF TypeOK, Locals, Goto, Leave
<1>1. CASE Start(t)
  BY <1>1 DEF Start, Register, StartLogin, StartChangePassword, StartAddDirectory,
     StartRemoveDirectory, Begin
<1>2. CASE RegisterHas(t) \/ AddUserHas(t) \/ HasDirectory(t)
  BY <1>2 DEF RegisterHas, AddUserHas, HasDirectory, Has
<1>3. CASE AddUser(t) \/ AddDirectory(t)
  BY <1>3 DEF AddUser, AddDirectory, Insert
<1>4. CASE Login(t)
  BY <1>4 DEF Login
<1>5. CASE GetUserId(t)
  BY <1>5 DEF GetUserId
<1>6. CASE HasClient(t) \/ MakeClient(t) \/ AddConnection(t)
  BY <1>6 DEF HasClient, MakeClient, AddConnection
<1>7. CASE ChangePassword(t) \/ RemoveDirectory(t)
  BY <1>7 DEF ChangePassword, RemoveDirectory
<1> QED
  BY <1>1, <1>2, <1>3, <1>4, <1>5, <1>6, <1>7 DEF Step

(* A thread whose locals stay keeps what it knows of the documents.        *)
LEMMA AloneKnows ==
    ASSUME TypeOK, Kept, NEW s \in Threads, Locals(s)' = Locals(s),
           CallOK(s), SearchedOK(s), LoginOK(s)
    PROVE  CallOK(s)' /\ SearchedOK(s)' /\ LoginOK(s)'
<1> PICK n : n = call[s].name
  OBVIOUS
<1> PICK q : q = call[s].place
  OBVIOUS
<1>0. /\ Len(docs) \in Nat /\ Len(docs') \in Nat /\ Len(docs) <= Len(docs')
      /\ seen[s] \in Nat /\ checked[s] \in Nat
  BY AccountsAssumption DEF Kept, TypeOK, Ids
<1>1. /\ pc'[s] = pc[s] /\ call'[s] = call[s] /\ seen'[s] = seen[s]
      /\ checked'[s] = checked[s] /\ user'[s] = user[s]
  BY DEF Locals
<1>2. CallOK(s)'
  BY <1>1 DEF CallOK
<1>3. SearchedOK(s)'
  <2>1. pc[s] = "AddUser" => \A i \in ByName(n)' : seen[s] < i
    <3> SUFFICES ASSUME pc[s] = "AddUser", NEW i \in ByName(n)' PROVE seen[s] < i
      OBVIOUS
    <3>1. seen[s] <= Len(docs) /\ \A j \in ByName(n) : seen[s] < j
      BY DEF SearchedOK
    <3>2. i \in ByName(n) \/ i = Len(docs) + 1
      BY StillNamed
    <3> QED
      BY <1>0, <3>1, <3>2
  <2>2. pc[s] = "AddDirectory" => \A i \in ByPlace(n, q)' : seen[s] < i
    BY <1>0, StillNamed DEF SearchedOK
  <2>3. seen[s] <= Len(docs')
    BY <1>0 DEF SearchedOK
  <2> QED
    BY <1>1, <2>1, <2>2, <2>3 DEF SearchedOK, ByName, ByPlace
<1>4. LoginOK(s)'
  <2>1. ASSUME NEW c \in 1..Len(docs)
        PROVE  /\ c \in 1..Len(docs') /\ docs'[c].name = docs[c].name
               /\ docs'[c].kind = docs[c].kind /\ docs'[c].complete = docs[c].complete
               /\ docs'[c].live => docs[c].live
    BY <1>0 DEF Kept
  <2>2. pc[s] \in LoggingIn => IsUserOf(checked[s], n)'
    BY <1>1, <2>1 DEF LoginOK, IsUserOf
  <2>3. pc[s] = "GetUserId" /\ docs'[checked[s]].live =>
          \A i \in ByName(n)' : checked[s] <= i
    <3>1. pc[s] = "GetUserId" => checked[s] \in 1..Len(docs)
      BY DEF LoginOK, LoggingIn, IsUserOf
    <3> SUFFICES ASSUME pc[s] = "GetUserId", docs'[checked[s]].live,
                        NEW i \in ByName(n)'
                 PROVE  checked[s] <= i
      OBVIOUS
    <3>2. checked[s] \in 1..Len(docs) /\ docs[checked[s]].live
      BY <2>1, <3>1
    <3>3. \A j \in ByName(n) : checked[s] <= j
      BY <3>2 DEF LoginOK
    <3>4. i \in ByName(n) \/ i = Len(docs) + 1
      BY StillNamed
    <3> QED
      BY <1>0, <3>2, <3>3, <3>4
  <2>4. pc[s] \in HasUser =>
          /\ user[s] \in 1..Len(docs') /\ docs'[user[s]].name = n
          /\ user[s] = checked[s] \/ ~ docs'[checked[s]].live
    <3>1. pc[s] \in HasUser => checked[s] \in 1..Len(docs)
      BY DEF LoginOK, LoggingIn, IsUserOf
    <3> QED
      BY <2>1, <3>1 DEF LoginOK
  <2> QED
    BY <1>1, <2>2, <2>3, <2>4 DEF LoginOK, IsUserOf, ByName
<1> QED
  BY <1>2, <1>3, <1>4

(* A thread between two calls has nothing to know.                         *)
LEMMA LeftKnows ==
    ASSUME TypeOK, Kept, NEW t \in Threads, NEW l \in {"idle", "dead"}, Leave(t, l)
    PROVE  CallOK(t)' /\ SearchedOK(t)' /\ LoginOK(t)' /\ ClientOK(t)'
<1>1. pc'[t] = l /\ seen'[t] = 0
  BY DEF Leave, TypeOK
<1>2. 0 <= Len(docs')
  BY DEF Kept
<1> QED
  BY <1>1, <1>2 DEF CallOK, SearchedOK, LoginOK, ClientOK, Registering, InDirectory,
     LoggingIn, HasUser

(* The thread that acts.                                                   *)
LEMMA ActorKnows ==
    ASSUME TypeOK, Kept, NEW t \in Threads, Start(t) \/ Step(t),
           CallOK(t), SearchedOK(t), LoginOK(t)
    PROVE  CallOK(t)' /\ SearchedOK(t)' /\ LoginOK(t)'
<1> DEFINE Knows == CallOK(t)' /\ SearchedOK(t)' /\ LoginOK(t)'
<1>1. ASSUME Start(t) PROVE Knows
  <2>1. ASSUME NEW l \in {"RegisterHas", "Login", "ChangePassword", "HasDirectory",
                          "RemoveDirectory"},
               NEW c \in Call, Begin(t, l, c),
               l \in {"RegisterHas", "HasDirectory"} => c.name \in Names,
               l \in {"RegisterHas", "ChangePassword"} => c.password \in Passwords,
               l = "HasDirectory" => c.place \in Places \cup {Malformed}
        PROVE  Knows
    <3>1. pc'[t] = l /\ call'[t] = c /\ seen'[t] = seen[t] /\ docs' = docs
      BY <2>1 DEF Begin, Goto, TypeOK
    <3>2. CallOK(t)'
      BY <2>1, <3>1 DEF CallOK, Registering, InDirectory
    <3>3. SearchedOK(t)'
      BY <2>1, <3>1 DEF SearchedOK
    <3>4. LoginOK(t)'
      BY <2>1, <3>1 DEF LoginOK, LoggingIn, HasUser
    <3> QED
      BY <3>2, <3>3, <3>4
  <2>2. NoCall \in Call
    BY DEF NoCall, Call
  <2>3. ASSUME NEW n \in Names, NEW p \in Passwords, Register(t, n, p) PROVE Knows
    BY <2>1, <2>2, <2>3 DEF Register, Call
  <2>4. ASSUME NEW n \in Names, NEW p \in Passwords, StartLogin(t, n, p) PROVE Knows
    BY <2>1, <2>2, <2>4 DEF StartLogin, Call
  <2>5. ASSUME NEW u \in Ids, NEW p \in Passwords, StartChangePassword(t, u, p) PROVE Knows
    BY <2>1, <2>2, <2>5 DEF StartChangePassword, Call
  <2>6. ASSUME NEW n \in Names, NEW q \in Places \cup {Malformed}, StartAddDirectory(t, n, q)
        PROVE  Knows
    BY <2>1, <2>2, <2>6 DEF StartAddDirectory, Call
  <2>7. ASSUME NEW i \in Ids \cup {0}, StartRemoveDirectory(t, i) PROVE Knows
    BY <2>1, <2>2, <2>7 DEF StartRemoveDirectory, Call
  <2> QED
    BY <1>1, <2>3, <2>4, <2>5, <2>6, <2>7 DEF Start
<1>2. ASSUME Leave(t, "idle") \/ Leave(t, "dead") PROVE Knows
  BY <1>2, LeftKnows
<1>3. ASSUME RegisterHas(t) \/ AddUserHas(t) \/ HasDirectory(t) PROVE Knows
  <2>1. CASE Leave(t, "idle")
    BY <1>2, <2>1
  <2>2. CASE RegisterHas(t) /\ Goto(t, "AddUserHas")
    <3>1. /\ pc'[t] = "AddUserHas" /\ pc[t] = "RegisterHas"
          /\ call'[t] = call[t] /\ docs' = docs
          /\ seen'[t] \in {0, Len(docs)}
      BY <2>2 DEF RegisterHas, Has, Goto, Leave, TypeOK
    <3> QED
      BY <3>1, Elements DEF CallOK, SearchedOK, LoginOK, Registering, InDirectory,
         LoggingIn, HasUser
  <2>3. CASE AddUserHas(t) /\ Goto(t, "AddUser")
    <3>1. /\ pc'[t] = "AddUser" /\ pc[t] = "AddUserHas"
          /\ call'[t] = call[t] /\ docs' = docs
          /\ \/ seen'[t] = 0
             \/ ByName(call[t].name) = {} /\ seen'[t] = Len(docs)
      BY <2>3 DEF AddUserHas, Has, Goto, Leave, TypeOK
    <3>2. SearchedOK(t)'
      <4>1. ByName(call[t].name) \subseteq 1..Len(docs)
        BY Elements DEF ByName
      <4>2. seen'[t] <= Len(docs) /\ \A i \in ByName(call[t].name) : seen'[t] < i
        BY <3>1, <4>1, Elements
      <4> QED
        BY <3>1, <4>2 DEF SearchedOK, ByName
    <3> QED
      BY <3>1, <3>2 DEF CallOK, LoginOK, Registering, InDirectory, LoggingIn, HasUser
  <2>4. CASE HasDirectory(t) /\ Goto(t, "AddDirectory")
    <3>1. /\ pc'[t] = "AddDirectory" /\ pc[t] = "HasDirectory"
          /\ call'[t] = call[t] /\ docs' = docs
          /\ \/ seen'[t] = 0
             \/ ByPlace(call[t].name, call[t].place) = {} /\ seen'[t] = Len(docs)
      BY <2>4 DEF HasDirectory, Has, Goto, Leave, TypeOK
    <3>2. SearchedOK(t)'
      <4>1. ByPlace(call[t].name, call[t].place) \subseteq 1..Len(docs)
        BY Elements DEF ByName, ByPlace
      <4>2. /\ seen'[t] <= Len(docs)
            /\ \A i \in ByPlace(call[t].name, call[t].place) : seen'[t] < i
        BY <3>1, <4>1, Elements
      <4> QED
        BY <3>1, <4>2 DEF SearchedOK, ByName, ByPlace
    <3> QED
      BY <3>1, <3>2 DEF CallOK, LoginOK, Registering, InDirectory, LoggingIn, HasUser
  <2> QED
    BY <1>3, <2>1, <2>2, <2>3, <2>4 DEF RegisterHas, AddUserHas, HasDirectory, Has
<1>4. ASSUME Login(t) PROVE Knows
  <2>1. CASE Leave(t, "idle")
    BY <1>2, <2>1
  <2>2. ASSUME NEW i \in Decoded(FirstOf(ByName(call[t].name))),
               checked' = [checked EXCEPT ![t] = i], Goto(t, "GetUserId"),
               UNCHANGED <<docs, call, seen, user, client>>
        PROVE  Knows
    <3>1. /\ pc'[t] = "GetUserId" /\ checked'[t] = i
          /\ call'[t] = call[t] /\ seen'[t] = seen[t] /\ docs' = docs
      BY <2>2 DEF Goto, TypeOK
    <3>2. IsUserOf(i, call[t].name) /\ \A j \in ByName(call[t].name) : i <= j
      BY <2>2, Elements DEF Decoded, FirstOf, ByName, IsUserOf
    <3>3. LoginOK(t)'
      BY <3>1, <3>2 DEF LoginOK, LoggingIn, HasUser, IsUserOf, ByName
    <3> QED
      BY <3>1, <3>3 DEF CallOK, SearchedOK, Registering, InDirectory
  <2> QED
    BY <1>4, <2>1, <2>2 DEF Login
<1>5. ASSUME GetUserId(t) PROVE Knows
  <2>1. CASE Leave(t, "idle")
    BY <1>2, <2>1
  <2>2. ASSUME NEW i \in FirstOf(ByName(call[t].name)),
               user' = [user EXCEPT ![t] = i], Goto(t, "HasClient"),
               UNCHANGED <<docs, call, seen, checked, client>>
        PROVE  Knows
    <3>1. /\ pc[t] = "GetUserId" /\ pc'[t] = "HasClient" /\ user'[t] = i
          /\ call'[t] = call[t] /\ seen'[t] = seen[t] /\ checked'[t] = checked[t]
          /\ docs' = docs
      BY <1>5, <2>2 DEF GetUserId, Goto, TypeOK
    <3>2. /\ i \in 1..Len(docs) /\ docs[i].name = call[t].name
          /\ \A j \in ByName(call[t].name) : i <= j
          /\ i \in ByName(call[t].name)
      BY <2>2, Elements DEF FirstOf, ByName
    <3>3. IsUserOf(checked[t], call[t].name)
      BY <3>1 DEF LoginOK, LoggingIn
    <3>4. i = checked[t] \/ ~ docs[checked[t]].live
      <4> SUFFICES ASSUME docs[checked[t]].live PROVE i = checked[t]
        OBVIOUS
      <4>1. checked[t] \in ByName(call[t].name)
        BY <3>3, Elements DEF IsUserOf, ByName
      <4>2. checked[t] <= i
        BY <3>1, <3>2 DEF LoginOK
      <4>3. i <= checked[t] /\ i \in Nat /\ checked[t] \in Nat
        BY <3>2, <3>3, <4>1 DEF IsUserOf
      <4> QED
        BY <4>2, <4>3
    <3>5. LoginOK(t)'
      BY <3>1, <3>2, <3>3, <3>4 DEF LoginOK, LoggingIn, HasUser, IsUserOf
    <3> QED
      BY <3>1, <3>5 DEF CallOK, SearchedOK, Registering, InDirectory
  <2> QED
    BY <1>5, <2>1, <2>2 DEF GetUserId
<1>6. ASSUME HasClient(t) \/ MakeClient(t) PROVE Knows
  <2>1. /\ pc[t] \in HasUser /\ pc'[t] \in {"MakeClient", "AddConnection"}
        /\ call'[t] = call[t] /\ seen'[t] = seen[t] /\ checked'[t] = checked[t]
        /\ user'[t] = user[t] /\ docs' = docs
    BY <1>6 DEF HasClient, MakeClient, Goto, TypeOK, HasUser
  <2> QED
    BY <2>1 DEF CallOK, SearchedOK, LoginOK, Registering, InDirectory, LoggingIn, HasUser,
       IsUserOf
<1>7. ASSUME AddUser(t) \/ AddDirectory(t) \/ AddConnection(t) \/ ChangePassword(t)
             \/ RemoveDirectory(t)
      PROVE  Knows
  BY <1>2, <1>7 DEF AddUser, AddDirectory, Insert, AddConnection, ChangePassword,
     RemoveDirectory
<1> QED
  BY <1>1, <1>3, <1>4, <1>5, <1>6, <1>7 DEF Step

-----------------------------------------------------------------------------
(* The client pool.                                                        *)
PoolPart ==
    /\ \A s \in Threads : ClientOK(s)
    /\ NoClientNoLogin /\ LoginIsKept

LEMMA PoolAlone ==
    ASSUME TypeOK, PoolPart, NEW t \in Threads, Start(t) \/ Step(t), UNCHANGED pool,
           pc'[t] \notin {"MakeClient", "AddConnection"}
    PROVE  PoolPart'
<1>1. /\ clients' = clients /\ fds' = fds /\ loggedIn' = loggedIn
      /\ overlapped' = overlapped
  BY DEF pool
<1>2. \A s \in Threads : s # t => Locals(s)' = Locals(s)
  BY OthersAlone
<1>3. \A s \in Threads : s # t =>
         pc'[s] = pc[s] /\ user'[s] = user[s] /\ client'[s] = client[s]
  BY <1>2 DEF Locals
<1>4. \A s \in Threads : ClientOK(s)'
  BY <1>1, <1>3 DEF PoolPart, ClientOK
<1> QED
  BY <1>1, <1>4 DEF PoolPart, NoClientNoLogin, LoginIsKept

LEMMA PoolStep ==
    ASSUME TypeOK, PoolPart, NEW t \in Threads, LoginOK(t), Start(t) \/ Step(t)
    PROVE  PoolPart'
<1> DEFINE u == user[t]
<1>0. \A s \in Threads : s # t =>
         pc'[s] = pc[s] /\ user'[s] = user[s] /\ client'[s] = client[s]
  <2>1. \A s \in Threads : s # t => Locals(s)' = Locals(s)
    BY OthersAlone
  <2> QED
    BY <2>1 DEF Locals
<1>u. pc[t] \in HasUser => u \in Ids
  BY DEF LoginOK, TypeOK, HasUser, Ids
<1>1. ASSUME Start(t) PROVE PoolPart'
  <2>1. /\ UNCHANGED pool
        /\ \E l \in {"RegisterHas", "Login", "ChangePassword", "HasDirectory",
                     "RemoveDirectory"} : pc'[t] = l
    BY <1>1 DEF Start, Register, StartLogin, StartChangePassword, StartAddDirectory,
       StartRemoveDirectory, Begin, Goto, TypeOK
  <2> QED
    BY <2>1, PoolAlone
<1>2. ASSUME RegisterHas(t) \/ AddUserHas(t) \/ HasDirectory(t) \/ Login(t) \/ GetUserId(t)
      PROVE  PoolPart'
  <2>1. UNCHANGED pool
    BY <1>2 DEF RegisterHas, AddUserHas, HasDirectory, Login, GetUserId
  <2>2. pc'[t] \in {"idle", "AddUserHas", "AddUser", "AddDirectory", "GetUserId", "HasClient"}
    BY <1>2 DEF RegisterHas, AddUserHas, HasDirectory, Login, GetUserId, Has, Goto, Leave,
       TypeOK
  <2> QED
    BY <2>1, <2>2, PoolAlone
<1>3. ASSUME AddUser(t) \/ AddDirectory(t) \/ ChangePassword(t) \/ RemoveDirectory(t)
      PROVE  PoolPart'
  <2>1. UNCHANGED pool /\ pc'[t] \in {"idle", "dead"}
    BY <1>3 DEF AddUser, AddDirectory, ChangePassword, RemoveDirectory, Insert, Leave, TypeOK
  <2> QED
    BY <2>1, PoolAlone
<1>4. ASSUME HasClient(t) PROVE PoolPart'
  <2>0. /\ pc[t] = "HasClient" /\ clients' = clients /\ fds' = fds /\ loggedIn' = loggedIn
        /\ user' = user /\ overlapped \subseteq overlapped'
    BY <1>4 DEF HasClient
  <2>1. NoClientNoLogin' /\ LoginIsKept'
    BY <2>0 DEF PoolPart, NoClientNoLogin, LoginIsKept
  <2>2. CASE clients[u] # 0
    <3>1. pc'[t] = "AddConnection" /\ client'[t] = clients[u] /\ overlapped' = overlapped
      BY <1>4, <2>2 DEF HasClient, Goto, TypeOK
    <3>2. \A s \in Threads : ClientOK(s)'
      BY <1>0, <2>0, <2>2, <3>1 DEF PoolPart, ClientOK
    <3> QED
      BY <2>1, <3>2 DEF PoolPart
  <2>3. CASE clients[u] = 0
    <3>1. /\ pc'[t] = "MakeClient"
          /\ u \notin overlapped' => \A s \in Threads : pc[s] # "MakeClient" \/ user[s] # u
      BY <1>4, <2>3 DEF HasClient, Goto, TypeOK
    <3>2. ASSUME NEW s \in Threads, s # t PROVE ClientOK(s)'
      BY <1>0, <2>0, <3>1, <3>2 DEF PoolPart, ClientOK
    <3>3. ClientOK(t)'
      BY <1>0, <2>0, <2>3, <3>1 DEF ClientOK
    <3> QED
      BY <2>1, <3>2, <3>3 DEF PoolPart
  <2> QED
    BY <2>2, <2>3
<1>5. ASSUME MakeClient(t) PROVE PoolPart'
  <2>0. /\ pc[t] = "MakeClient" /\ pc'[t] = "AddConnection" /\ u \in Ids
        /\ loggedIn' = loggedIn /\ user' = user /\ overlapped' = overlapped
        /\ clients[u] \in Nat /\ clients' = [clients EXCEPT ![u] = clients[u] + 1]
        /\ clients'[u] = clients[u] + 1 /\ clients'[u] # 0
        /\ client'[t] = clients'[u] /\ fds' = [fds EXCEPT ![u] = {}]
        /\ \A v \in Ids : v # u => clients'[v] = clients[v] /\ fds'[v] = fds[v]
    BY <1>5, <1>u DEF MakeClient, Goto, TypeOK, HasUser
  <2>1. u \notin overlapped => clients[u] = 0 /\ loggedIn[u] = {}
    BY <2>0 DEF PoolPart, ClientOK, NoClientNoLogin
  <2>2. NoClientNoLogin'
    BY <2>0 DEF PoolPart, NoClientNoLogin
  <2>3. LoginIsKept'
    BY <2>0, <2>1 DEF PoolPart, LoginIsKept
  <2>4. ASSUME NEW s \in Threads, s # t PROVE ClientOK(s)'
    <3>1. CASE user[s] = u
      BY <1>0, <2>0, <2>1, <2>4, <3>1 DEF PoolPart, ClientOK
    <3>2. CASE user[s] # u
      <4>1. clients'[user[s]] = clients[user[s]]
        BY <2>0, <3>2 DEF TypeOK
      <4> QED
        BY <1>0, <2>0, <2>4, <3>2, <4>1 DEF PoolPart, ClientOK
    <3> QED
      BY <3>1, <3>2
  <2>5. ClientOK(t)'
    BY <2>0 DEF ClientOK
  <2> QED
    BY <2>2, <2>3, <2>4, <2>5 DEF PoolPart
<1>6. ASSUME AddConnection(t) PROVE PoolPart'
  <2>0. /\ pc[t] = "AddConnection" /\ pc'[t] = "idle" /\ u \in Ids
        /\ clients' = clients /\ overlapped' = overlapped
        /\ loggedIn' = [loggedIn EXCEPT ![u] = @ \cup {t}]
        /\ client[t] = clients[u] => fds' = [fds EXCEPT ![u] = @ \cup {t}]
        /\ client[t] # clients[u] => fds' = fds
    BY <1>6, <1>u DEF AddConnection, Leave, TypeOK, HasUser
  <2>1. clients[u] # 0 /\ (u \notin overlapped => client[t] = clients[u])
    BY <2>0 DEF PoolPart, ClientOK
  <2>2. \A s \in Threads : ClientOK(s)'
    BY <1>0, <2>0 DEF PoolPart, ClientOK
  <2>3. LoginIsKept'
    BY <2>0, <2>1 DEF PoolPart, LoginIsKept, TypeOK
  <2>4. NoClientNoLogin'
    BY <2>0, <2>1 DEF PoolPart, NoClientNoLogin, TypeOK
  <2> QED
    BY <2>2, <2>3, <2>4 DEF PoolPart
<1> QED
  BY <1>1, <1>2, <1>3, <1>4, <1>5, <1>6 DEF Step

-----------------------------------------------------------------------------
(* Types.                                                                  *)
LEMMA LeaveTypes ==
    ASSUME TypeOK, NEW t \in Threads, NEW l \in {"idle", "dead"}, Leave(t, l)
    PROVE  /\ pc' \in [Threads -> Labels] /\ call' \in [Threads -> Call]
           /\ seen' \in [Threads -> Nat] /\ checked' \in [Threads -> Ids \cup {0}]
           /\ user' \in [Threads -> Ids \cup {0}] /\ client' \in [Threads -> Nat]
<1>1. NoCall \in Call
  BY DEF NoCall, Call
<1> QED
  BY <1>1 DEF Leave, TypeOK, Labels

LEMMA TypeStep ==
    ASSUME TypeOK, Kept, NEW t \in Threads, LoginOK(t), Start(t) \/ Step(t)
    PROVE  TypeOK'
<1>0. docs' \in Seq(Document) /\ Len(docs') <= MaxDocs
  BY DEF Kept
<1>i. 1..Len(docs) \subseteq Ids
  BY Elements, AccountsAssumption DEF TypeOK, Ids
<1>1. ASSUME Leave(t, "idle") \/ Leave(t, "dead"), UNCHANGED pool PROVE TypeOK'
  BY <1>0, <1>1, LeaveTypes DEF TypeOK, pool
<1>2. CASE Start(t)
  <2>1. ASSUME NEW l \in Labels, NEW c \in Call, Begin(t, l, c) PROVE TypeOK'
    BY <1>0, <2>1 DEF Begin, Goto, TypeOK, pool
  <2>2. NoCall \in Call
    BY DEF NoCall, Call
  <2>3. ASSUME NEW n \in Names, NEW p \in Passwords, Register(t, n, p) PROVE TypeOK'
    BY <2>1, <2>2, <2>3 DEF Register, Call, Labels
  <2>4. ASSUME NEW n \in Names, NEW p \in Passwords, StartLogin(t, n, p) PROVE TypeOK'
    BY <2>1, <2>2, <2>4 DEF StartLogin, Call, Labels
  <2>5. ASSUME NEW u \in Ids, NEW p \in Passwords, StartChangePassword(t, u, p)
        PROVE  TypeOK'
    BY <2>1, <2>2, <2>5 DEF StartChangePassword, Call, Labels
  <2>6. ASSUME NEW n \in Names, NEW q \in Places \cup {Malformed}, StartAddDirectory(t, n, q)
        PROVE  TypeOK'
    BY <2>1, <2>2, <2>6 DEF StartAddDirectory, Call, Labels
  <2>7. ASSUME NEW i \in Ids \cup {0}, StartRemoveDirectory(t, i) PROVE TypeOK'
    BY <2>1, <2>2, <2>7 DEF StartRemoveDirectory, Call, Labels
  <2> QED
    BY <1>2, <2>3, <2>4, <2>5, <2>6, <2>7 DEF Start
<1>3. CASE RegisterHas(t) \/ AddUserHas(t) \/ HasDirectory(t)
  <2>1. UNCHANGED pool
    BY <1>3 DEF RegisterHas, AddUserHas, HasDirectory
  <2>2. \/ Leave(t, "idle")
        \/ /\ \E l \in {"AddUserHas", "AddUser", "AddDirectory"} : Goto(t, l)
           /\ \E k \in {0, Len(docs)} : seen' = [seen EXCEPT ![t] = k]
           /\ UNCHANGED <<call, checked, user, client>>
    BY <1>3 DEF RegisterHas, AddUserHas, HasDirectory, Has
  <2>3. Len(docs) \in Nat
    BY Elements
  <2>4. ASSUME NEW l \in {"AddUserHas", "AddUser", "AddDirectory"}, Goto(t, l),
               NEW k \in Nat, seen' = [seen EXCEPT ![t] = k],
               UNCHANGED <<call, checked, user, client>>
        PROVE  TypeOK'
    <3>1. pc' \in [Threads -> Labels]
      BY <2>4 DEF Goto, TypeOK, Labels
    <3> QED
      BY <1>0, <2>1, <2>4, <3>1 DEF TypeOK, pool
  <2> QED
    BY <1>1, <2>1, <2>2, <2>3, <2>4
<1>4. CASE Login(t)
  <2>1. UNCHANGED pool
    BY <1>4 DEF Login
  <2>2. ASSUME NEW i \in Decoded(FirstOf(ByName(call[t].name))),
               checked' = [checked EXCEPT ![t] = i], Goto(t, "GetUserId"),
               UNCHANGED <<call, seen, user, client>>
        PROVE  TypeOK'
    <3>1. i \in Ids
      BY <1>i, <2>2, Elements DEF Decoded, FirstOf, ByName
    <3> QED
      BY <1>0, <2>1, <2>2, <3>1 DEF Goto, TypeOK, Labels, pool
  <2> QED
    BY <1>1, <1>4, <2>1, <2>2 DEF Login
<1>5. CASE GetUserId(t)
  <2>1. UNCHANGED pool
    BY <1>5 DEF GetUserId
  <2>2. ASSUME NEW i \in FirstOf(ByName(call[t].name)),
               user' = [user EXCEPT ![t] = i], Goto(t, "HasClient"),
               UNCHANGED <<call, seen, checked, client>>
        PROVE  TypeOK'
    <3>1. i \in Ids
      BY <1>i, <2>2, Elements DEF FirstOf, ByName
    <3> QED
      BY <1>0, <2>1, <2>2, <3>1 DEF Goto, TypeOK, Labels, pool
  <2> QED
    BY <1>1, <1>5, <2>1, <2>2 DEF GetUserId
<1>6. ASSUME pc[t] \in HasUser PROVE user[t] \in Ids
  BY <1>6 DEF LoginOK, TypeOK, Ids
<1>7. CASE HasClient(t)
  <2>1. user[t] \in Ids
    BY <1>6, <1>7 DEF HasClient, HasUser
  <2>2. overlapped' \subseteq Ids
    BY <1>7, <2>1 DEF HasClient, TypeOK
  <2>3. clients[user[t]] \in Nat
    BY <2>1 DEF TypeOK
  <2>4. client' \in [Threads -> Nat] /\ pc' \in [Threads -> Labels]
    BY <1>7, <2>3 DEF HasClient, Goto, TypeOK, Labels
  <2> QED
    BY <1>0, <1>7, <2>2, <2>4 DEF HasClient, TypeOK
<1>8. CASE MakeClient(t)
  <2>1. user[t] \in Ids
    BY <1>6, <1>8 DEF MakeClient, HasUser
  <2>2. clients[user[t]] + 1 \in Nat
    BY <2>1 DEF TypeOK
  <2> QED
    BY <1>0, <1>8, <2>1, <2>2 DEF MakeClient, Goto, TypeOK, Labels
<1>9. CASE AddConnection(t)
  <2>1. user[t] \in Ids
    BY <1>6, <1>9 DEF AddConnection, HasUser
  <2>2. fds' \in [Ids -> SUBSET Threads] /\ loggedIn' \in [Ids -> SUBSET Threads]
    BY <1>9, <2>1 DEF AddConnection, TypeOK
  <2> QED
    BY <1>0, <1>9, <2>2, LeaveTypes DEF AddConnection, TypeOK
<1>10. CASE AddUser(t) \/ AddDirectory(t) \/ ChangePassword(t) \/ RemoveDirectory(t)
  <2>1. UNCHANGED pool /\ (Leave(t, "idle") \/ Leave(t, "dead"))
    BY <1>10 DEF AddUser, AddDirectory, ChangePassword, RemoveDirectory, Insert
  <2> QED
    BY <1>1, <2>1
<1> QED
  BY <1>2, <1>3, <1>4, <1>5, <1>7, <1>8, <1>9, <1>10 DEF Step

-----------------------------------------------------------------------------
(* The documents that clash, and who has logged in.                        *)
LEMMA OldClashes ==
    ASSUME TypeOK, Kept, DuplicateOnlyByRace,
           NEW i \in 1..Len(docs), NEW j \in 1..Len(docs), i < j, Clash(i, j)'
    PROVE  docs'[j].seen < i
<1>1. Clash(i, j)
  BY DEF Clash, Kept
<1>2. docs[j].seen < i
  BY <1>1, Elements DEF DuplicateOnlyByRace
<1> QED
  BY <1>2 DEF Kept

LEMMA DuplicateStep ==
    ASSUME TypeOK, Kept, DuplicateOnlyByRace, NEW t \in Threads, Start(t) \/ Step(t),
           CallOK(t), SearchedOK(t)
    PROVE  DuplicateOnlyByRace'
<1> SUFFICES ASSUME NEW i \in 1..Len(docs'), NEW j \in 1..Len(docs'), i < j, Clash(i, j)'
             PROVE  docs'[j].seen < i
  <2>1. DOMAIN docs' = 1..Len(docs')
    BY LenProperties DEF Kept
  <2> QED
    BY <2>1 DEF DuplicateOnlyByRace
<1>0. Len(docs) \in Nat /\ Len(docs') \in {Len(docs), Len(docs) + 1}
  BY DEF Kept
<1>1. CASE j \in 1..Len(docs)
  <2>1. i \in 1..Len(docs)
    BY <1>0, <1>1
  <2> QED
    BY <1>1, <2>1, OldClashes
<1>2. CASE j \notin 1..Len(docs)
  <2>0. /\ Len(docs') = Len(docs) + 1 /\ j = Len(docs) + 1 /\ i \in 1..Len(docs)
        /\ Len(docs') # Len(docs)
    BY <1>0, <1>2
  <2>1. AddUser(t) \/ AddDirectory(t)
    BY <2>0, RestKeeps, ChangePasswordKeeps, RemoveDirectoryKeeps DEF Step
  <2>2. docs'[i].live /\ docs'[i].name = docs'[j].name
    BY DEF Clash
  <2>3. /\ docs[i].live /\ docs[i].name = docs'[j].name
        /\ docs'[i].kind = docs[i].kind /\ docs'[i].place = docs[i].place
    BY <2>0, <2>2 DEF Kept
  <2>4. CASE AddUser(t)
    <3>1. docs'[j] = NewUser(t) /\ pc[t] = "AddUser"
      BY <2>0, <2>4, AddUserKeeps DEF Added, AddUser
    <3>2. docs'[j].name = call[t].name /\ docs'[j].seen = seen[t]
      BY <3>1 DEF NewUser
    <3>3. i \in ByName(call[t].name)
      BY <2>0, <2>3, <3>2, Elements DEF ByName
    <3> QED
      BY <3>1, <3>2, <3>3 DEF SearchedOK
  <2>5. CASE AddDirectory(t)
    <3>1. docs'[j] = NewDirectory(t) /\ pc[t] = "AddDirectory"
      BY <2>0, <2>5, AddDirectoryKeeps DEF Added, AddDirectory
    <3>2. /\ docs'[j].kind = "directory" /\ docs'[j].name = call[t].name
          /\ docs'[j].place = call[t].place /\ docs'[j].seen = seen[t]
      BY <3>1 DEF NewDirectory
    <3>3. docs'[i].kind = "directory" /\ docs'[i].place = docs'[j].place
      BY <3>2 DEF Clash
    <3>4. i \in ByPlace(call[t].name, call[t].place)
      BY <2>0, <2>3, <3>2, <3>3, Elements DEF ByPlace, ByName
    <3> QED
      BY <3>1, <3>2, <3>4 DEF SearchedOK
  <2> QED
    BY <2>1, <2>4, <2>5
<1> QED
  BY <1>1, <1>2

LEMMA RegisteredStep ==
    ASSUME TypeOK, Kept, RegisteredNeverLogIn, NEW t \in Threads, LoginOK(t),
           \/ loggedIn' = loggedIn
           \/ AddConnection(t)
    PROVE  RegisteredNeverLogIn'
<1> SUFFICES ASSUME NEW u \in Ids, loggedIn'[u] # {}
             PROVE  /\ u \in 1..Len(docs')
                    /\ \E i \in 1..Len(docs') :
                          /\ docs'[i].complete /\ docs'[i].kind = "user"
                          /\ docs'[i].name = docs'[u].name
  <2>1. DOMAIN docs' = 1..Len(docs')
    BY LenProperties DEF Kept
  <2> QED
    BY <2>1 DEF RegisteredNeverLogIn
<1>1. ASSUME u \in 1..Len(docs), NEW i \in 1..Len(docs), IsUserOf(i, docs[u].name)
      PROVE  /\ u \in 1..Len(docs') /\ i \in 1..Len(docs')
             /\ docs'[i].complete /\ docs'[i].kind = "user" /\ docs'[i].name = docs'[u].name
  BY <1>1 DEF Kept, IsUserOf
<1>2. CASE loggedIn[u] # {}
  <2>1. PICK i \in 1..Len(docs) : IsUserOf(i, docs[u].name)
    BY <1>2, Elements DEF RegisteredNeverLogIn, IsUserOf
  <2>2. u \in 1..Len(docs)
    BY <1>2, Elements DEF RegisteredNeverLogIn
  <2> QED
    BY <1>1, <2>1, <2>2
<1>3. CASE loggedIn[u] = {}
  <2>1. AddConnection(t) /\ u = user[t] /\ pc[t] = "AddConnection"
    BY <1>3 DEF AddConnection, TypeOK
  <2>2. /\ IsUserOf(checked[t], call[t].name) /\ user[t] \in 1..Len(docs)
        /\ docs[user[t]].name = call[t].name
    BY <2>1 DEF LoginOK, LoggingIn, HasUser
  <2>3. checked[t] \in 1..Len(docs)
    BY <2>2 DEF IsUserOf
  <2> QED
    BY <1>1, <2>1, <2>2, <2>3
<1> QED
  BY <1>2, <1>3

-----------------------------------------------------------------------------
LEMMA InvInit == Init => AccountsInv
<1> SUFFICES ASSUME Init PROVE AccountsInv
  OBVIOUS
<1>1. /\ docs \in Seq(Document) /\ Len(docs) <= MaxDocs /\ Len(docs) \in Nat
      /\ DOMAIN docs = 1..Len(docs) /\ \A i \in DOMAIN docs : docs[i].seen = 0
  BY AccountsAssumption, LenProperties DEF Init
<1>2. TypeOK
  <2>1. NoCall \in Call
    BY DEF NoCall, Call
  <2> QED
    BY <1>1, <2>1 DEF Init, TypeOK, Labels
<1>3. ASSUME NEW t \in Threads PROVE CallOK(t) /\ SearchedOK(t) /\ LoginOK(t) /\ ClientOK(t)
  <2>1. pc[t] = "idle" /\ seen[t] = 0
    BY DEF Init
  <2> QED
    BY <1>1, <2>1 DEF CallOK, SearchedOK, LoginOK, ClientOK, Registering, InDirectory,
       LoggingIn, HasUser
<1>4. DuplicateOnlyByRace
  BY <1>1 DEF DuplicateOnlyByRace
<1>5. RegisteredNeverLogIn /\ NoClientNoLogin /\ LoginIsKept
  BY DEF Init, RegisteredNeverLogIn, NoClientNoLogin, LoginIsKept
<1> QED
  BY <1>2, <1>3, <1>4, <1>5 DEF AccountsInv

LEMMA InvStep ==
    ASSUME AccountsInv, NEW t \in Threads, Start(t) \/ Step(t)
    PROVE  AccountsInv'
<1>0. TypeOK /\ \A s \in Threads : CallOK(s) /\ SearchedOK(s) /\ LoginOK(s) /\ ClientOK(s)
  BY DEF AccountsInv
<1>1. Kept
  BY <1>0, StepKeeps DEF Next
<1>2. TypeOK'
  BY <1>0, <1>1, TypeStep
<1>3. ASSUME NEW s \in Threads PROVE CallOK(s)' /\ SearchedOK(s)' /\ LoginOK(s)'
  <2>1. CASE s = t
    BY <1>0, <1>1, <2>1, ActorKnows
  <2>2. CASE s # t
    BY <1>0, <1>1, <2>2, OthersAlone, AloneKnows
  <2> QED
    BY <2>1, <2>2
<1>4. PoolPart'
  <2>1. PoolPart
    BY DEF AccountsInv, PoolPart
  <2> QED
    BY <1>0, <2>1, PoolStep
<1>5. DuplicateOnlyByRace'
  BY <1>0, <1>1, DuplicateStep DEF AccountsInv
<1>6. RegisteredNeverLogIn'
  <2>1. loggedIn' = loggedIn \/ AddConnection(t)
    BY DEF Start, Register, StartLogin, StartChangePassword, StartAddDirectory,
       StartRemoveDirectory, Begin, Step, RegisterHas, AddUserHas, AddUser, Login, GetUserId,
       HasClient, MakeClient, ChangePassword, HasDirectory, AddDirectory, RemoveDirectory,
       pool
  <2> QED
    BY <1>0, <1>1, <2>1, RegisteredStep DEF AccountsInv
<1> QED
  BY <1>2, <1>3, <1>4, <1>5, <1>6 DEF AccountsInv, PoolPart

LEMMA InvRestart == AccountsInv /\ Restart => AccountsInv'
<1> SUFFICES ASSUME AccountsInv, Restart PROVE AccountsInv'
  OBVIOUS
<1>1. TypeOK'
  <2>1. NoCall \in Call
    BY DEF NoCall, Call
  <2> QED
    BY <2>1 DEF AccountsInv, Restart, TypeOK, Labels
<1>2. ASSUME NEW t \in Threads
      PROVE  CallOK(t)' /\ SearchedOK(t)' /\ LoginOK(t)' /\ ClientOK(t)'
  <2>1. pc'[t] = "idle" /\ seen'[t] = 0 /\ 0 <= Len(docs')
    BY Elements DEF Restart, AccountsInv
  <2> QED
    BY <2>1 DEF CallOK, SearchedOK, LoginOK, ClientOK, Registering, InDirectory,
       LoggingIn, HasUser
<1>3. DuplicateOnlyByRace'
  BY DEF AccountsInv, Restart, DuplicateOnlyByRace, Clash
<1>4. RegisteredNeverLogIn' /\ NoClientNoLogin' /\ LoginIsKept'
  BY DEF Restart, RegisteredNeverLogIn, NoClientNoLogin, LoginIsKept
<1> QED
  BY <1>1, <1>2, <1>3, <1>4 DEF AccountsInv

LEMMA InvStutter == AccountsInv /\ UNCHANGED vars => AccountsInv'
BY DEF vars, AccountsInv, TypeOK, CallOK, SearchedOK, LoginOK, ClientOK, IsUserOf, ByName,
   ByPlace, DuplicateOnlyByRace, Clash, RegisteredNeverLogIn, NoClientNoLogin, LoginIsKept

(* The inductive invariant from which the others follow.                   *)
THEOREM AccountsInvariant == Spec => []AccountsInv
<1>1. AccountsInv /\ [Next]_vars => AccountsInv'
  BY InvStep, InvRestart, InvStutter DEF Next
<1> QED
  BY <1>1, InvInit, PTL DEF Spec

(* The variables of the accounts have their types.                         *)
THEOREM AccountTypes == Spec => []TypeOK
<1>1. AccountsInv => TypeOK
  BY DEF AccountsInv
<1> QED
  BY <1>1, AccountsInvariant, PTL

(* Only a race, or a search that threw, lets a duplicate past the checks.  *)
THEOREM DuplicatesAreRaces == Spec => []DuplicateOnlyByRace
<1>1. AccountsInv => DuplicateOnlyByRace
  BY DEF AccountsInv
<1> QED
  BY <1>1, AccountsInvariant, PTL

(* The two searches of a login find one user.                              *)
THEOREM LoginsAreOfCheckedUsers == Spec => []LoginIsOfCheckedUser
<1>1. AccountsInv => LoginIsOfCheckedUser
  BY DEF AccountsInv, LoginOK, HasUser, LoginIsOfCheckedUser
<1> QED
  BY <1>1, AccountsInvariant, PTL

(* Whoever registered through the server cannot log in.                    *)
THEOREM RegisteredStayOut == Spec => []RegisteredNeverLogIn
<1>1. AccountsInv => RegisteredNeverLogIn
  BY DEF AccountsInv
<1> QED
  BY <1>1, AccountsInvariant, PTL

(* Logins that do not overlap keep their connections.                      *)
THEOREM LoginsAreKept == Spec => []LoginIsKept
<1>1. AccountsInv => LoginIsKept
  BY DEF AccountsInv
<1> QED
  BY <1>1, AccountsInvariant, PTL
=============================================================================
