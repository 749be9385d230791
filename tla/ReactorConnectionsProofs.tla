---------------------- MODULE ReactorConnectionsProofs ----------------------
EXTENDS ReactorConnections, TLAPS, SequenceTheorems, FiniteSetTheorems

LEMMA Ranges ==
    /\ 0 \in Threads /\ Subs \subseteq Threads /\ 0 \notin Subs
    /\ MaxConns \in Nat /\ 0 \in 0..MaxConns /\ Conns \subseteq 0..MaxConns
    /\ 0 \notin Conns
  BY ReactorsAssumption, ConnBoundsAssumption DEF Threads, Subs, Conns

LEMMA AcceptedTyped ==
    ASSUME KernelOK
    PROVE  /\ Accepted \subseteq Conns
           /\ \A c \in Accepted : fdOf[c] \in Fds
  BY Ranges DEF KernelOK, Accepted, Conns

LEMMA KernelFrame == KernelOK /\ UNCHANGED kernel => KernelOK'
  BY DEF KernelOK, kernel

LEMMA ObjectsFrame == ObjectsOK /\ UNCHANGED objects => ObjectsOK'
  BY DEF ObjectsOK, objects

LEMMA TablesFrame == TablesOK /\ UNCHANGED tables => TablesOK'
  BY DEF TablesOK, tables

LEMMA ThreadsFrame == ThreadsOK /\ UNCHANGED threads => ThreadsOK'
  BY DEF ThreadsOK, threads

LEMMA GotoTyped ==
    ASSUME ThreadsOK, NEW t \in Threads, NEW l \in Labels, Goto(t, l)
    PROVE  pc' \in [Threads -> Labels]
  BY DEF ThreadsOK, Goto

LEMMA GotoKeeps ==
    ASSUME ThreadsOK, NEW t \in Threads, NEW l \in Labels, Goto(t, l),
           UNCHANGED <<at, load, slot, batch>>
    PROVE  ThreadsOK'
  BY GotoTyped DEF ThreadsOK

LEMMA LabelsAre ==
    /\ Accepting \subseteq Labels /\ Deleting \subseteq Labels /\ Looping \subseteq Labels
  BY DEF Labels

LEMMA MainTyped ==
    ASSUME TypeOK, MainInv, Main
    PROVE  KernelOK' /\ ObjectsOK' /\ TablesOK' /\ ThreadsOK'
<1> USE DEF TypeOK
<1>1. ASSUME NEW fd \in Fds, Accept(fd) PROVE KernelOK' /\ ObjectsOK' /\ TablesOK' /\ ThreadsOK'
  <2> DEFINE c == Len(fdOf) + 1
  <2>1. c \in Conns
    BY <1>1, Ranges, LenProperties DEF Accept, KernelOK, Conns
  <2>2. fdOf' \in Seq(Fds) /\ Len(fdOf') <= MaxConns
    BY <1>1, <2>1, AppendProperties DEF Accept, KernelOK, Conns
  <2>3. sock' \in [Fds -> 0..MaxConns]
    BY <1>1, <2>1, Ranges DEF Accept, KernelOK
  <2>4. KernelOK'
    BY <1>1, <2>2, <2>3 DEF Accept, KernelOK
  <2>5. pc' \in [Threads -> Labels]
    BY <1>1, Ranges, GotoTyped DEF Accept, Labels, Accepting
  <2>6. at' \in [Threads -> 0..MaxConns]
    BY <1>1, <2>1, Ranges DEF Accept, ThreadsOK
  <2>7. ThreadsOK'
    BY <1>1, <2>5, <2>6 DEF Accept, ThreadsOK
  <2> QED
    BY <1>1, <2>4, <2>7, ObjectsFrame, TablesFrame DEF Accept
<1>2. ASSUME pc[0] # "accept" PROVE Me \in Accepted /\ Me \in Conns /\ fdOf[Me] \in Fds
  BY <1>2, AcceptedTyped DEF MainInv
<1>3. CASE Bind
  <2>1. PICK r \in Subs : home' = [home EXCEPT ![Me] = r] /\ load' = [load EXCEPT ![0] = num[r]]
    BY <1>3 DEF Bind
  <2>2. ObjectsOK'
    BY <1>3, <2>1, Ranges DEF Bind, ObjectsOK
  <2>3. load' \in [Threads -> Int]
    BY <2>1, Ranges DEF ThreadsOK, TablesOK
  <2>4. pc' \in [Threads -> Labels]
    BY <1>3, Ranges, GotoTyped DEF Bind, Labels, Accepting
  <2>5. ThreadsOK'
    BY <1>3, <2>3, <2>4 DEF Bind, ThreadsOK
  <2> QED
    BY <1>3, <2>2, <2>5, KernelFrame, TablesFrame DEF Bind
<1>4. CASE IncreaseConnection
  <2>0. load[0] \in Int /\ load[0] + 1 \in Int
    BY Ranges DEF ThreadsOK
  <2>1. num' \in [Subs -> Int]
    BY <1>4, <2>0 DEF IncreaseConnection, TablesOK
  <2>2. TablesOK'
    BY <1>4, <2>1 DEF IncreaseConnection, TablesOK
  <2>3. ThreadsOK'
    BY <1>4, Ranges, GotoKeeps DEF IncreaseConnection, Labels, Accepting
  <2> QED
    BY <1>4, <2>2, <2>3, KernelFrame, ObjectsFrame DEF IncreaseConnection
<1>5. CASE StoreIndex
  <2>1. TablesOK'
    BY <1>2, <1>5 DEF StoreIndex, TablesOK, ObjectsOK
  <2>2. ThreadsOK'
    BY <1>5, Ranges, GotoKeeps DEF StoreIndex, Labels, Accepting
  <2> QED
    BY <1>5, <2>1, <2>2, KernelFrame, ObjectsFrame DEF StoreIndex
<1>6. ready' \in [Subs -> SUBSET Conns] /\ UNCHANGED <<fdOf, sock, input, hup>> => KernelOK'
  BY DEF KernelOK
<1>7. ASSUME pc[0] # "accept", Report(Me) PROVE ready' \in [Subs -> SUBSET Conns]
  BY <1>2, <1>7 DEF Report, KernelOK
<1>8. CASE Register
  <2>1. KernelOK'
    BY <1>6, <1>7, <1>8 DEF Register, KernelOK
  <2>2. ObjectsOK'
    BY <1>8 DEF Register, ObjectsOK
  <2>3. ThreadsOK'
    BY <1>8, Ranges, GotoKeeps DEF Register, Labels, Accepting
  <2> QED
    BY <1>8, <2>1, <2>2, <2>3, TablesFrame DEF Register
<1>9. CASE EnableET
  <2>1. KernelOK'
    BY <1>6, <1>7, <1>9 DEF EnableET, KernelOK
  <2>2. ThreadsOK'
    BY <1>9, Ranges, GotoKeeps DEF EnableET, Labels, Accepting
  <2> QED
    BY <1>9, <2>1, <2>2, TablesFrame, ObjectsFrame DEF EnableET
<1>10. CASE SetOnRecv
  <2>1. ObjectsOK'
    BY <1>2, <1>10 DEF SetOnRecv, ObjectsOK
  <2>2. ThreadsOK'
    BY <1>10, Ranges, GotoKeeps DEF SetOnRecv, Labels, Accepting
  <2> QED
    BY <1>10, <2>1, <2>2, TablesFrame, KernelFrame DEF SetOnRecv
<1>11. CASE Insert
  <2>1. KernelOK'
    BY <1>11, Ranges DEF Insert, Destroy, KernelOK
  <2>2. ObjectsOK'
    BY <1>11 DEF Insert, Destroy, ObjectsOK
  <2>3. TablesOK'
    BY <1>2, <1>11, Ranges DEF Insert, TablesOK
  <2>4. ThreadsOK'
    BY <1>11, Ranges, GotoKeeps DEF Insert, Labels, Accepting
  <2> QED
    BY <2>1, <2>2, <2>3, <2>4
<1>12. CASE Lookup
  <2>1. ThreadsOK'
    BY <1>12, Ranges, GotoKeeps DEF Lookup, Labels, Accepting
  <2> QED
    BY <1>12, <2>1, TablesFrame, KernelFrame, ObjectsFrame DEF Lookup
<1>13. CASE AddConnection
  <2>1. wrappers' \in [Fds -> 0..MaxConns]
    BY <1>2, <1>13, Ranges DEF AddConnection, TablesOK
  <2>2. TablesOK'
    BY <1>13, <2>1 DEF AddConnection, TablesOK
  <2>3. pc' \in [Threads -> Labels]
    BY <1>13, Ranges, GotoTyped DEF AddConnection, Labels, Accepting
  <2>4. at' \in [Threads -> 0..MaxConns]
    BY <1>13, Ranges DEF AddConnection, ThreadsOK
  <2>5. ThreadsOK'
    BY <1>13, <2>3, <2>4 DEF AddConnection, ThreadsOK
  <2> QED
    BY <1>13, <2>2, <2>5, KernelFrame, ObjectsFrame DEF AddConnection
<1> QED
  BY <1>1, <1>3, <1>4, <1>5, <1>8, <1>9, <1>10, <1>11, <1>12, <1>13 DEF Main

LEMMA SubTyped ==
    ASSUME TypeOK, PointerInv, NEW r \in Subs, SubReactor(r)
    PROVE  KernelOK' /\ ObjectsOK' /\ TablesOK' /\ ThreadsOK'
<1> USE DEF TypeOK
<1>1. r \in Threads
  BY Ranges
<1>2. ASSUME pc[r] \in Deleting \cup {"recv", "dispatch"}
      PROVE  at[r] \in Accepted /\ at[r] \in Conns /\ fdOf[at[r]] \in Fds
  BY <1>2, AcceptedTyped DEF PointerInv
<1>3. CASE Poll(r)
  <2>1. ready' \in [Subs -> SUBSET Conns] /\ batch' \in [Subs -> SUBSET Conns]
    BY <1>3 DEF Poll, KernelOK, ThreadsOK
  <2>2. KernelOK' /\ ThreadsOK'
    BY <1>3, <2>1 DEF Poll, KernelOK, ThreadsOK
  <2> QED
    BY <1>3, <2>2, ObjectsFrame, TablesFrame DEF Poll
<1>4. CASE HandleEvent(r)
  <2>1. PICK c \in batch[r] :
            /\ at' = [at EXCEPT ![r] = c]
            /\ batch' = [batch EXCEPT ![r] = @ \ {c}]
            /\ Goto(r, IF c \in callback THEN "recv" ELSE "dead")
    BY <1>4 DEF HandleEvent
  <2>2. c \in 0..MaxConns
    BY <2>1, Ranges DEF ThreadsOK
  <2>3. at' \in [Threads -> 0..MaxConns] /\ batch' \in [Subs -> SUBSET Conns]
    BY <1>1, <2>1, <2>2 DEF ThreadsOK
  <2>4. pc' \in [Threads -> Labels]
    BY <1>1, <2>1, GotoTyped DEF Labels, Looping
  <2>5. ThreadsOK'
    BY <1>4, <2>3, <2>4 DEF HandleEvent, ThreadsOK
  <2> QED
    BY <1>4, <2>5, KernelFrame, ObjectsFrame, TablesFrame DEF HandleEvent
<1>5. CASE RecvPart(r)
  <2>1. input' \in [Conns -> 0..MaxInput]
    <3>1. input[at[r]] \in 0..MaxInput /\ input[at[r]] > 0
      BY <1>2, <1>5 DEF RecvPart, KernelOK
    <3>2. input[at[r]] - 1 \in 0..MaxInput
      BY <3>1, ConnBoundsAssumption
    <3> QED
      BY <1>5, <3>2 DEF RecvPart, KernelOK
  <2>2. KernelOK'
    BY <1>5, <2>1 DEF RecvPart, KernelOK
  <2>3. ObjectsOK'
    BY <1>2, <1>5 DEF RecvPart, ObjectsOK
  <2>4. ThreadsOK'
    BY <1>1, <1>5, GotoKeeps DEF RecvPart, Labels, Looping
  <2> QED
    BY <1>5, <2>2, <2>3, <2>4, TablesFrame DEF RecvPart
<1>6. CASE RecvNothing(r)
  <2>1. ThreadsOK'
    BY <1>1, <1>6, GotoKeeps DEF RecvNothing, Labels, Looping
  <2> QED
    BY <1>6, <2>1, KernelFrame, ObjectsFrame, TablesFrame DEF RecvNothing
<1>7. CASE Close(r)
  <2>1. ObjectsOK'
    BY <1>2, <1>7 DEF Close, ObjectsOK
  <2>2. ThreadsOK'
    BY <1>1, <1>7, GotoKeeps DEF Close, Labels, Deleting
  <2> QED
    BY <1>7, <2>1, <2>2, KernelFrame, TablesFrame DEF Close
<1>8. CASE ProcessMessage(r)
  <2>1. ThreadsOK'
    BY <1>1, <1>8, GotoKeeps DEF ProcessMessage, Labels, Looping
  <2> QED
    BY <1>8, <2>1, KernelFrame, ObjectsFrame, TablesFrame DEF ProcessMessage
<1>9. CASE FindConnection(r)
  <2>1. ThreadsOK'
    BY <1>1, <1>9, GotoKeeps DEF FindConnection, Labels, Looping, Deleting
  <2> QED
    BY <1>9, <2>1, KernelFrame, ObjectsFrame, TablesFrame DEF FindConnection
<1>10. CASE EraseConnection(r)
  <2>1. KernelOK'
    BY <1>10, Ranges DEF EraseConnection, Destroy, KernelOK
  <2>2. ObjectsOK'
    BY <1>10 DEF EraseConnection, Destroy, ObjectsOK
  <2>3. TablesOK'
    BY <1>10, Ranges DEF EraseConnection, TablesOK
  <2>4. ThreadsOK'
    BY <1>1, <1>10, GotoKeeps DEF EraseConnection, Labels, Deleting
  <2> QED
    BY <2>1, <2>2, <2>3, <2>4
<1>11. CASE LoadNum(r)
  <2> DEFINE i == index[fdOf[at[r]]]
  <2>1. pc' \in [Threads -> Labels]
    BY <1>1, <1>11, GotoTyped DEF LoadNum, Labels, Looping, Deleting
  <2>2. load' \in [Threads -> Int] /\ slot' \in [Subs -> Threads]
    <3>1. CASE i = 0
      BY <1>11, <3>1 DEF LoadNum, ThreadsOK
    <3>2. CASE i # 0
      <4>1. i \in Threads /\ i \in Subs
        BY <1>2, <1>11, <3>2 DEF LoadNum, Deleting, TablesOK, Threads, Subs
      <4>2. num[i] \in Int
        BY <4>1 DEF TablesOK
      <4> QED
        BY <1>1, <1>11, <3>2, <4>1, <4>2 DEF LoadNum, ThreadsOK
    <3> QED
      BY <3>1, <3>2
  <2>3. ThreadsOK'
    BY <1>11, <2>1, <2>2 DEF LoadNum, ThreadsOK
  <2> QED
    BY <1>11, <2>3, KernelFrame, ObjectsFrame, TablesFrame DEF LoadNum
<1>12. CASE DecreaseConnection(r)
  <2>1. load[r] - 1 \in Int
    BY <1>1 DEF ThreadsOK
  <2>2. num' \in [Subs -> Int]
    BY <1>12, <2>1 DEF DecreaseConnection, TablesOK
  <2>3. TablesOK'
    BY <1>12, <2>2 DEF DecreaseConnection, TablesOK
  <2>4. ThreadsOK'
    BY <1>1, <1>12, GotoKeeps DEF DecreaseConnection, Labels, Deleting
  <2> QED
    BY <1>12, <2>3, <2>4, KernelFrame, ObjectsFrame DEF DecreaseConnection
<1>13. CASE EraseIndex(r)
  <2>1. TablesOK'
    BY <1>13, Ranges DEF EraseIndex, TablesOK
  <2>2. ThreadsOK'
    BY <1>1, <1>13, GotoKeeps DEF EraseIndex, Labels, Looping
  <2> QED
    BY <1>13, <2>1, <2>2, KernelFrame, ObjectsFrame DEF EraseIndex
<1>14. CASE Return(r)
  <2>1. ThreadsOK'
    BY <1>1, <1>14, GotoKeeps DEF Return, Labels, Looping
  <2> QED
    BY <1>14, <2>1, KernelFrame, ObjectsFrame, TablesFrame DEF Return
<1> QED
  BY <1>3, <1>4, <1>5, <1>6, <1>7, <1>8, <1>9, <1>10, <1>11, <1>12, <1>13, <1>14
     DEF SubReactor

(* What a client does reaches the ready list of the connection's reactor.  *)
LEMMA ClientTyped ==
    ASSUME TypeOK, NEW c \in Conns, Arrive(c) \/ HangUp(c)
    PROVE  KernelOK' /\ ObjectsOK' /\ TablesOK' /\ ThreadsOK'
<1> USE DEF TypeOK
<1>1. ready' \in [Subs -> SUBSET Conns]
  BY DEF Arrive, HangUp, Report, KernelOK
<1>2. CASE Arrive(c)
  <2>1. input[c] + 1 \in 0..MaxInput
    BY <1>2, ConnBoundsAssumption DEF Arrive, KernelOK
  <2>2. KernelOK'
    BY <1>1, <1>2, <2>1 DEF Arrive, KernelOK
  <2> QED
    BY <1>2, <2>2, ObjectsFrame, TablesFrame, ThreadsFrame DEF Arrive
<1>3. CASE HangUp(c)
  <2>1. KernelOK'
    BY <1>1, <1>3 DEF HangUp, KernelOK
  <2> QED
    BY <1>3, <2>1, ObjectsFrame, TablesFrame, ThreadsFrame DEF HangUp
<1> QED
  BY <1>2, <1>3

LEMMA FlagsTyped ==
    ASSUME TypeOK, Step, raced' = (raced \/ Overlap')
    PROVE  up' \in BOOLEAN /\ raced' \in BOOLEAN
<1>1. raced' \in BOOLEAN
  BY Zenon
<1>2. up' \in BOOLEAN
  BY DEF TypeOK, Step, Main, SubReactor, Accept, Bind, IncreaseConnection, StoreIndex, Register,
         EnableET, SetOnRecv, Insert, Lookup, AddConnection, Poll, HandleEvent, RecvPart,
         RecvNothing, Close, ProcessMessage, FindConnection, EraseConnection, LoadNum,
         DecreaseConnection, EraseIndex, Return, Arrive, HangUp, TableRace
<1> QED
  BY <1>1, <1>2

-----------------------------------------------------------------------------
LEMMA GotoAt ==
    ASSUME ThreadsOK, NEW t \in Threads, NEW l, Goto(t, l)
    PROVE  pc'[t] = l /\ \A s \in Threads : s # t => pc'[s] = pc[s]
  BY DEF ThreadsOK, Goto

(* Only the main reactor and EraseConnection touch what MainInv, LifeInv   *)
(* and TableInv are about.                                                 *)
Quiet == /\ UNCHANGED <<fdOf, sock, object, home, connections, wrappers>>
         /\ pc'[0] = pc[0] /\ at'[0] = at[0]

LEMMA QuietKeeps ==
    ASSUME MainInv, LifeInv, TableInv, Quiet
    PROVE  MainInv' /\ LifeInv' /\ TableInv'
<1>1. MainInv'
  BY DEF Quiet, MainInv, Me, Accepted
<1>2. LifeInv'
  BY DEF Quiet, LifeInv, Me, Accepted
<1>3. TableInv'
  BY DEF Quiet, TableInv, Me, Accepted
<1> QED
  BY <1>1, <1>2, <1>3

LEMMA SubIsQuiet ==
    ASSUME ThreadsOK, NEW r \in Subs, SubReactor(r), ~ EraseConnection(r)
    PROVE  Quiet
<1>1. r \in Threads /\ 0 \in Threads /\ r # 0
  BY Ranges
<1>2. \A l : Goto(r, l) => pc'[0] = pc[0]
  BY <1>1, GotoAt
<1>3. pc'[0] = pc[0]
  BY <1>2 DEF SubReactor, Poll, HandleEvent, RecvPart, RecvNothing, Close, ProcessMessage,
              FindConnection, LoadNum, DecreaseConnection, EraseIndex, Return
<1>4. at'[0] = at[0]
  BY <1>1 DEF ThreadsOK, SubReactor, Poll, HandleEvent, RecvPart, RecvNothing, Close,
              ProcessMessage, FindConnection, LoadNum, DecreaseConnection, EraseIndex, Return
<1>5. UNCHANGED <<fdOf, sock, object, home, connections, wrappers>>
  BY DEF kernel, objects, tables, SubReactor, Poll, HandleEvent, RecvPart, RecvNothing, Close,
         ProcessMessage, FindConnection, LoadNum, DecreaseConnection, EraseIndex, Return
<1> QED
  BY <1>3, <1>4, <1>5 DEF Quiet

LEMMA ClientIsQuiet ==
    ASSUME NEW c \in Conns, Arrive(c) \/ HangUp(c)
    PROVE  Quiet
  BY DEF Arrive, HangUp, objects, tables, threads, Quiet

(* The entry that is erased is the connection whose event is handled.      *)
LEMMA EraseFrees ==
    ASSUME TypeOK, PointerInv, TableInv, NEW r \in Subs, EraseConnection(r)
    PROVE  LET d == at[r] IN
           /\ d \in Accepted /\ d \in Conns /\ fdOf[d] \in Fds
           /\ object[d] = "alive" /\ home[d] = r /\ d \notin batch[r]
           /\ connections[fdOf[d]] = d
           /\ object' = [object EXCEPT ![d] = "freed"]
           /\ ready' = [s \in Subs |-> ready[s] \ {d}]
           /\ sock' = [sock EXCEPT ![fdOf[d]] = 0]
           /\ connections' = [connections EXCEPT ![fdOf[d]] = 0]
           /\ pc' = [pc EXCEPT ![r] = "load"]
           /\ UNCHANGED <<fdOf, home, wrappers, at, slot, batch>>
<1> DEFINE d == at[r]
<1>1. d \in Accepted /\ object[d] = "alive" /\ home[d] = r /\ d \notin batch[r]
      /\ connections[fdOf[d]] = d
  BY DEF EraseConnection, PointerInv, Deleting
<1>2. d \in Conns /\ fdOf[d] \in Fds /\ d # 0
  BY <1>1, AcceptedTyped, Ranges DEF TypeOK
<1>3. object' = [object EXCEPT ![d] = "freed"]
  BY <1>1 DEF EraseConnection, Destroy, TypeOK, ObjectsOK
<1>4. sock' = [sock EXCEPT ![fdOf[d]] = 0]
  BY <1>1, <1>2 DEF EraseConnection, Destroy, TypeOK, KernelOK
<1>5. ready' = [s \in Subs |-> ready[s] \ {d}]
  BY <1>1 DEF EraseConnection, Destroy
<1> QED
  BY <1>1, <1>2, <1>3, <1>4, <1>5 DEF EraseConnection, Goto

LEMMA EraseKeeps ==
    ASSUME ConnInv, NEW r \in Subs, EraseConnection(r)
    PROVE  MainInv' /\ LifeInv' /\ TableInv'
<1> DEFINE d == at[r]
<1> USE DEF ConnInv
<1>1. /\ d \in Accepted /\ d \in Conns /\ fdOf[d] \in Fds
      /\ object[d] = "alive" /\ home[d] = r
      /\ connections[fdOf[d]] = d
      /\ object' = [object EXCEPT ![d] = "freed"]
      /\ sock' = [sock EXCEPT ![fdOf[d]] = 0]
      /\ connections' = [connections EXCEPT ![fdOf[d]] = 0]
      /\ UNCHANGED <<fdOf, home, wrappers, at>>
  BY EraseFrees
<1>2. pc'[0] = pc[0] /\ at'[0] = at[0]
  BY <1>1, GotoAt, Ranges DEF EraseConnection, TypeOK
<1>3. \A c \in Conns : c # d => object'[c] = object[c]
  BY <1>1 DEF TypeOK, ObjectsOK
<1>4. object'[d] = "freed"
  BY <1>1 DEF TypeOK, ObjectsOK
<1>5. \A fd \in Fds : connections'[fd] = (IF fd = fdOf[d] THEN 0 ELSE connections[fd])
  BY <1>1 DEF TypeOK, TablesOK
<1>6. \A fd \in Fds : sock'[fd] = (IF fd = fdOf[d] THEN 0 ELSE sock[fd])
  BY <1>1 DEF TypeOK, KernelOK
<1>7. Accepted \subseteq Conns /\ \A c \in Accepted : fdOf[c] \in Fds /\ c # 0
  BY AcceptedTyped, Ranges DEF TypeOK
<1>8. \A c \in Accepted : object[c] = "alive" /\ fdOf[c] = fdOf[d] => c = d
  BY <1>1, <1>7 DEF LifeInv
<1>9. MainInv'
  BY <1>1, <1>2, <1>3, <1>4, <1>5, <1>7 DEF MainInv, Me, Accepted, Accepting
<1>10. LifeInv'
  BY <1>1, <1>2, <1>3, <1>4, <1>6, <1>7, <1>8 DEF LifeInv, Me, Accepted
<1>11. TableInv'
  BY <1>1, <1>2, <1>3, <1>4, <1>5, <1>7, <1>8 DEF TableInv, Me, Accepted
<1> QED
  BY <1>9, <1>10, <1>11

-----------------------------------------------------------------------------
(* The main reactor's steps on MainInv, LifeInv and TableInv.              *)
LEMMA AcceptKeeps ==
    ASSUME ConnInv, NEW fd \in Fds, Accept(fd)
    PROVE  MainInv' /\ LifeInv' /\ TableInv'
<1> DEFINE n == Len(fdOf) + 1
<1> USE DEF ConnInv
<1>1. n \in Conns /\ n \notin Accepted /\ n # 0 /\ Me = 0
  BY Ranges, LenProperties DEF Accept, TypeOK, KernelOK, MainInv, Conns, Accepted
<1>2. /\ Len(fdOf') = n /\ fdOf'[n] = fd
      /\ \A c \in Accepted : fdOf'[c] = fdOf[c] /\ c # n
  BY <1>1, AppendProperties DEF Accept, TypeOK, KernelOK, Accepted
<1>3. Accepted' = Accepted \cup {n}
  BY <1>1, <1>2 DEF Accepted, TypeOK, KernelOK
<1>4. pc'[0] = "bind" /\ pc[0] = "accept"
  BY Ranges, GotoAt DEF Accept, TypeOK
<1>5. Me' = n
  BY Ranges DEF Accept, Me, TypeOK, ThreadsOK
<1>6. \A g \in Fds : sock'[g] = (IF g = fd THEN n ELSE sock[g])
  BY DEF Accept, TypeOK, KernelOK
<1>7. sock[fd] = 0 /\ UNCHANGED <<object, home, connections, wrappers>>
  BY DEF Accept, objects, tables
<1>8. Accepted \subseteq Conns /\ \A c \in Accepted : fdOf[c] \in Fds /\ c # 0
  BY AcceptedTyped, Ranges DEF TypeOK
<1>9. \A c \in Accepted : fdOf[c] = fd => object[c] = "freed"
  BY <1>7, <1>8 DEF LifeInv
<1>10. connections[fd] = 0 /\ object[n] = "none"
  BY <1>1, <1>9 DEF TableInv, LifeInv
<1>11. \A c \in Accepted : home[c] # 0 /\ object[c] # "none"
  BY <1>4 DEF MainInv, LifeInv
<1>12. MainInv'
  BY <1>2, <1>3, <1>4, <1>5, <1>7, <1>9, <1>10, <1>11 DEF MainInv, Accepting
<1>13. LifeInv'
  BY <1>1, <1>2, <1>3, <1>4, <1>5, <1>6, <1>7, <1>8, <1>9, <1>10, <1>11 DEF LifeInv
<1>14. TableInv'
  BY <1>1, <1>2, <1>3, <1>4, <1>5, <1>7, <1>8, <1>10 DEF TableInv
<1> QED
  BY <1>12, <1>13, <1>14

(* Steps of NewConnection that change nothing the three parts look at but  *)
(* where the main reactor is.                                              *)
LEMMA MainMoves ==
    ASSUME ConnInv, Bind \/ IncreaseConnection \/ StoreIndex \/ EnableET \/ SetOnRecv \/ Lookup
    PROVE  MainInv' /\ LifeInv' /\ TableInv'
<1> USE DEF ConnInv
<1>1. UNCHANGED <<fdOf, sock, object, connections, wrappers>> /\ at'[0] = at[0]
  BY DEF kernel, objects, tables, Bind, IncreaseConnection, StoreIndex, EnableET, SetOnRecv, Lookup
<1>2. Me \in Accepted /\ Me \in Conns
  BY AcceptedTyped DEF MainInv, TypeOK, Bind, IncreaseConnection, StoreIndex, EnableET, SetOnRecv,
                       Lookup
<1>3. \/ pc[0] = "bind" /\ pc'[0] = "count"
      \/ pc[0] = "count" /\ pc'[0] = "index"
      \/ pc[0] = "index" /\ pc'[0] = "register"
      \/ pc[0] = "enableET" /\ pc'[0] = "setOnRecv"
      \/ pc[0] = "setOnRecv" /\ pc'[0] = "insert"
      \/ pc[0] = "lookup" /\ pc'[0] = "add"
  BY Ranges, GotoAt DEF TypeOK, Bind, IncreaseConnection, StoreIndex, EnableET, SetOnRecv, Lookup
<1>4. \A c \in Accepted : home'[c] # 0
  <2>1. CASE Bind
    <3>1. PICK r \in Subs : home' = [home EXCEPT ![Me] = r]
      BY <2>1 DEF Bind
    <3>2. \A c \in Accepted : c # Me => home[c] # 0
      BY DEF MainInv
    <3> QED
      BY <1>2, <3>1, <3>2, Ranges, AcceptedTyped DEF TypeOK, ObjectsOK
  <2>2. CASE ~ Bind
    <3>1. UNCHANGED home /\ pc[0] # "bind"
      BY <2>2 DEF objects, IncreaseConnection, StoreIndex, EnableET, SetOnRecv, Lookup
    <3> QED
      BY <3>1 DEF MainInv
  <2> QED
    BY <2>1, <2>2
<1>5. MainInv'
  BY <1>1, <1>2, <1>3, <1>4 DEF MainInv, Me, Accepted, Accepting
<1>6. LifeInv'
  BY <1>1, <1>3 DEF LifeInv, Me, Accepted
<1>7. TableInv'
  BY <1>1, <1>3 DEF TableInv, Me, Accepted
<1> QED
  BY <1>5, <1>6, <1>7

LEMMA RegisterKeeps ==
    ASSUME ConnInv, Register
    PROVE  MainInv' /\ LifeInv' /\ TableInv'
<1> USE DEF ConnInv
<1>1. UNCHANGED <<fdOf, sock, home, connections, wrappers>> /\ at'[0] = at[0]
  BY DEF tables, Register
<1>2. Me \in Accepted /\ Me \in Conns /\ object[Me] = "none"
  BY AcceptedTyped DEF MainInv, TypeOK, Register
<1>3. pc[0] = "register" /\ pc'[0] = "enableET"
  BY Ranges, GotoAt DEF TypeOK, Register
<1>4. \A c \in Conns : object'[c] = (IF c = Me THEN "alive" ELSE object[c])
  BY DEF Register, TypeOK, ObjectsOK
<1>5. Accepted \subseteq Conns
  BY AcceptedTyped DEF TypeOK
<1>6. MainInv'
  BY <1>1, <1>2, <1>3, <1>4, <1>5 DEF MainInv, Me, Accepted, Accepting
<1>7. LifeInv'
  BY <1>1, <1>2, <1>3, <1>4, <1>5 DEF LifeInv, Me, Accepted
<1>8. connections[fdOf[Me]] = 0
  BY <1>3 DEF MainInv, Accepting
<1>9. TableInv'
  BY <1>1, <1>2, <1>3, <1>4, <1>5, <1>8 DEF TableInv, Me, Accepted
<1> QED
  BY <1>6, <1>7, <1>9

(* Nothing is at the descriptor, so nothing is destroyed.                  *)
LEMMA InsertKeeps ==
    ASSUME ConnInv, Insert
    PROVE  /\ MainInv' /\ LifeInv' /\ TableInv'
           /\ UNCHANGED <<object, ready>>
<1> USE DEF ConnInv
<1>1. /\ Me \in Accepted /\ Me \in Conns /\ fdOf[Me] \in Fds
      /\ connections[fdOf[Me]] = 0 /\ object[Me] = "alive"
  BY AcceptedTyped DEF MainInv, TypeOK, Insert, Accepting
<1>2. UNCHANGED <<object, ready, sock>>
  BY <1>1, Ranges DEF Insert, Destroy, TypeOK, ObjectsOK, KernelOK
<1>3. UNCHANGED <<fdOf, home, wrappers>> /\ at'[0] = at[0]
  BY DEF Insert
<1>4. pc[0] = "insert" /\ pc'[0] = "lookup"
  BY Ranges, GotoAt DEF TypeOK, Insert
<1>5. \A fd \in Fds : connections'[fd] = (IF fd = fdOf[Me] THEN Me ELSE connections[fd])
  BY DEF Insert, TypeOK, TablesOK
<1>6. \A c \in Accepted : fdOf[c] \in Fds /\ c # 0
  BY AcceptedTyped, Ranges DEF TypeOK
<1>7. \A c \in Accepted \ {Me} : object[c] = "alive" => fdOf[c] # fdOf[Me]
  BY <1>4 DEF MainInv
<1>8. MainInv'
  BY <1>1, <1>2, <1>3, <1>4 DEF MainInv, Me, Accepted, Accepting
<1>9. LifeInv'
  BY <1>2, <1>3, <1>4 DEF LifeInv, Me, Accepted
<1>10. TableInv'
  BY <1>1, <1>2, <1>3, <1>4, <1>5, <1>6, <1>7 DEF TableInv, Me, Accepted
<1> QED
  BY <1>2, <1>8, <1>9, <1>10

LEMMA AddKeeps ==
    ASSUME ConnInv, AddConnection
    PROVE  MainInv' /\ LifeInv' /\ TableInv'
<1> USE DEF ConnInv
<1>1. UNCHANGED <<fdOf, sock, object, home, connections>>
  BY DEF AddConnection, kernel, objects
<1>2. pc[0] = "add" /\ pc'[0] = "accept"
  BY Ranges, GotoAt DEF TypeOK, AddConnection
<1>3. Me' = 0
  BY Ranges DEF AddConnection, Me, TypeOK, ThreadsOK
<1>4. Me \in Accepted /\ fdOf[Me] \in Fds /\ object[Me] # "none"
  BY <1>2, AcceptedTyped DEF MainInv, LifeInv, TypeOK
<1>5. \A c \in Accepted : fdOf[c] \in Fds /\ c # 0
  BY AcceptedTyped, Ranges DEF TypeOK
<1>6. \A c \in Accepted \ {Me} : object[c] = "alive" => fdOf[c] # fdOf[Me]
  BY <1>2 DEF MainInv
<1>7. /\ \A fd \in Fds : fd # fdOf[Me] => wrappers'[fd] = wrappers[fd]
      /\ object[Me] = "alive" => wrappers'[fdOf[Me]] = Me
  BY <1>4 DEF AddConnection, TypeOK, TablesOK
<1>8. MainInv'
  BY <1>1, <1>2, <1>3 DEF MainInv, Accepted, Accepting
<1>9. LifeInv'
  BY <1>1, <1>2, <1>3 DEF LifeInv, Accepted
<1>10. TableInv'
  BY <1>1, <1>2, <1>3, <1>4, <1>5, <1>6, <1>7 DEF TableInv, Accepted
<1> QED
  BY <1>8, <1>9, <1>10

-----------------------------------------------------------------------------
(* PointerInv: what the reactors hold.                                     *)
Holds(r) ==
    /\ \A c \in ready[r] \cup batch[r] : object[c] = "alive" /\ home[c] = r
    /\ pc[r] \in Deleting \cup Looping
    /\ pc[r] \in Deleting \cup {"recv", "dispatch"} => at[r] \in Accepted
    /\ pc[r] \in {"recv", "dispatch", "find", "erase"} =>
          object[at[r]] = "alive" /\ home[at[r]] = r /\ at[r] \notin batch[r]
    /\ pc[r] = "erase" => connections[fdOf[at[r]]] = at[r]
    /\ pc[r] = "store" => slot[r] # 0

LEMMA PointerIsHolds == PointerInv <=> \A r \in Subs : Holds(r)
  BY DEF PointerInv, Holds

LEMMA OthersPlaces ==
    ASSUME ThreadsOK, NEW t \in Threads, NEW l, Goto(t, l), UNCHANGED <<at, slot, batch>>
    PROVE  \A s \in Subs : s # t => UNCHANGED <<pc[s], at[s], slot[s], batch[s]>>
  BY GotoAt, Ranges

LEMMA MainHolds ==
    ASSUME ConnInv, Main
    PROVE  PointerInv'
<1> USE DEF ConnInv
<1>1. \A r \in Subs : pc'[r] = pc[r] /\ at'[r] = at[r]
  <2>1. 0 \in Threads /\ \A r \in Subs : r \in Threads /\ r # 0
    BY Ranges
  <2>2. \A l : Goto(0, l) => \A r \in Subs : pc'[r] = pc[r]
    BY <2>1, GotoAt DEF TypeOK
  <2>3. \A r \in Subs : pc'[r] = pc[r]
    BY <2>2 DEF Main, Accept, Bind, IncreaseConnection, StoreIndex, Register, EnableET, SetOnRecv,
                Insert, Lookup, AddConnection
  <2>4. \A r \in Subs : at'[r] = at[r]
    BY <2>1 DEF TypeOK, ThreadsOK, Main, Accept, Bind, IncreaseConnection, StoreIndex, Register,
                EnableET, SetOnRecv, Insert, Lookup, AddConnection
  <2> QED
    BY <2>3, <2>4
<1>2. UNCHANGED <<slot, batch>>
  BY DEF Main, Accept, Bind, IncreaseConnection, StoreIndex, Register, EnableET, SetOnRecv,
         Insert, Lookup, AddConnection
<1>3. /\ Accepted \subseteq Conns
      /\ \A c \in Accepted : fdOf[c] \in Fds /\ c # 0
      /\ \A r \in Subs : ready[r] \cup batch[r] \subseteq Conns
  BY AcceptedTyped, Ranges DEF TypeOK, KernelOK, ThreadsOK
<1>4. ASSUME NEW fd \in Fds, Accept(fd) PROVE PointerInv'
  <2>1. Len(fdOf') = Len(fdOf) + 1 /\ \A c \in Accepted : fdOf'[c] = fdOf[c]
    BY <1>4, AppendProperties DEF Accept, TypeOK, KernelOK, Accepted
  <2>2. Accepted \subseteq Accepted'
    BY <2>1, LenProperties DEF Accepted, TypeOK, KernelOK
  <2>3. UNCHANGED <<ready, object, home, connections>>
    BY <1>4 DEF Accept, objects, tables
  <2> QED
    BY <1>1, <1>2, <2>1, <2>2, <2>3 DEF PointerInv, Deleting
<1>5. ASSUME pc[0] # "accept" PROVE Me \in Accepted /\ Me \in Conns /\ fdOf[Me] \in Fds
  BY <1>3, <1>5 DEF MainInv
<1>6. CASE Bind
  <2>1. PICK r \in Subs : home' = [home EXCEPT ![Me] = r]
    BY <1>6 DEF Bind
  <2>2. object[Me] = "none"
    BY <1>6 DEF Bind, MainInv
  <2>3. \A c \in Conns : object[c] = "alive" => home'[c] = home[c]
    BY <2>1, <2>2 DEF TypeOK, ObjectsOK
  <2>4. UNCHANGED <<fdOf, ready, object, connections>>
    BY <1>6 DEF Bind, kernel, tables
  <2> QED
    BY <1>1, <1>2, <1>3, <2>3, <2>4 DEF PointerInv, Accepted, Deleting
<1>7. CASE IncreaseConnection \/ StoreIndex \/ SetOnRecv \/ Lookup \/ AddConnection
  <2>1. UNCHANGED <<fdOf, ready, object, home, connections>>
    BY <1>7 DEF kernel, objects, tables, IncreaseConnection, StoreIndex, SetOnRecv, Lookup,
                AddConnection
  <2> QED
    BY <1>1, <1>2, <2>1 DEF PointerInv, Accepted
<1>8. CASE Register \/ EnableET
  <2>1. UNCHANGED <<fdOf, home, connections>>
    BY <1>8 DEF Register, EnableET, objects, tables
  <2>2. object'[Me] = "alive" /\ \A c \in Conns : object[c] = "alive" => object'[c] = "alive"
    BY <1>5, <1>8 DEF Register, EnableET, objects, MainInv, TypeOK, ObjectsOK
  <2>3. \A r \in Subs : \A c \in ready'[r] : c \in ready[r] \/ (c = Me /\ home[Me] = r)
    BY <1>8 DEF Register, EnableET, Report, TypeOK, KernelOK
  <2> QED
    BY <1>1, <1>2, <1>3, <2>1, <2>2, <2>3 DEF PointerInv, Accepted, Deleting
<1>9. CASE Insert
  <2>1. UNCHANGED <<fdOf, home, object, ready>>
    BY <1>9, InsertKeeps DEF Insert
  <2>2. connections[fdOf[Me]] = 0
    BY <1>9 DEF Insert, MainInv, Accepting
  <2>3. \A fd \in Fds : fd # fdOf[Me] => connections'[fd] = connections[fd]
    BY <1>9 DEF Insert, TypeOK, TablesOK
  <2> QED
    BY <1>1, <1>2, <1>3, <2>1, <2>2, <2>3 DEF PointerInv, Accepted, Deleting
<1> QED
  BY <1>4, <1>6, <1>7, <1>8, <1>9 DEF Main

LEMMA ClientHolds ==
    ASSUME ConnInv, NEW c \in Conns, Arrive(c) \/ HangUp(c)
    PROVE  PointerInv'
<1>1. UNCHANGED <<fdOf, home, object, connections, pc, at, slot, batch>>
  BY DEF Arrive, HangUp, objects, tables, threads
<1>2. \A r \in Subs : \A d \in ready'[r] :
          d \in ready[r] \/ (d = c /\ object[c] = "alive" /\ home[c] = r)
  BY DEF Arrive, HangUp, Report, ConnInv, TypeOK, KernelOK
<1> QED
  BY <1>1, <1>2 DEF ConnInv, PointerInv, Accepted

(* A reactor's step leaves what the others hold alone ...                  *)
LEMMA OthersHold ==
    ASSUME ConnInv, NEW r \in Subs, SubReactor(r), NEW s \in Subs, s # r
    PROVE  Holds(s)'
<1> USE DEF ConnInv
<1>1. r \in Threads /\ s \in Threads
  BY Ranges
<1>2. UNCHANGED <<pc[s], at[s], slot[s], batch[s]>>
  <2>1. \A l : Goto(r, l) => pc'[s] = pc[s]
    BY <1>1, GotoAt DEF TypeOK
  <2>2. pc'[s] = pc[s]
    BY <2>1 DEF SubReactor, Poll, HandleEvent, RecvPart, RecvNothing, Close, ProcessMessage,
                FindConnection, EraseConnection, LoadNum, DecreaseConnection, EraseIndex, Return
  <2>3. at'[s] = at[s] /\ slot'[s] = slot[s] /\ batch'[s] = batch[s]
    BY <1>1 DEF TypeOK, ThreadsOK, SubReactor, Poll, HandleEvent, RecvPart, RecvNothing, Close,
                ProcessMessage, FindConnection, EraseConnection, LoadNum, DecreaseConnection,
                EraseIndex, Return
  <2> QED
    BY <2>2, <2>3
<1>3. CASE EraseConnection(r)
  <2> DEFINE d == at[r]
  <2>1. /\ d \in Accepted /\ d \in Conns /\ fdOf[d] \in Fds
        /\ object[d] = "alive" /\ home[d] = r /\ connections[fdOf[d]] = d
        /\ object' = [object EXCEPT ![d] = "freed"]
        /\ ready' = [q \in Subs |-> ready[q] \ {d}]
        /\ connections' = [connections EXCEPT ![fdOf[d]] = 0]
        /\ UNCHANGED <<fdOf, home>>
    BY <1>3, EraseFrees
  <2>2. \A c \in Conns : c # d => object'[c] = object[c]
    BY <2>1 DEF TypeOK, ObjectsOK
  <2>3. \A fd \in Fds : fd # fdOf[d] => connections'[fd] = connections[fd]
    BY <2>1 DEF TypeOK, TablesOK
  <2>4. ready[s] \cup batch[s] \subseteq Conns /\ ready'[s] \subseteq ready[s]
    BY <2>1 DEF TypeOK, KernelOK, ThreadsOK
  <2>5. Accepted \subseteq Conns /\ \A c \in Accepted : fdOf[c] \in Fds
    BY AcceptedTyped DEF TypeOK
  <2>6. pc[s] = "erase" => fdOf[at[s]] # fdOf[d]
    BY <2>1 DEF PointerInv
  <2>7. Holds(s)
    BY PointerIsHolds
  <2> QED
    BY <1>2, <2>1, <2>2, <2>3, <2>4, <2>5, <2>6, <2>7 DEF Holds, Accepted, Deleting
<1>4. CASE ~ EraseConnection(r)
  <2>1. UNCHANGED <<fdOf, object, home, connections>>
    BY <1>4, SubIsQuiet DEF Quiet, TypeOK
  <2>2. ready'[s] = ready[s]
    BY <1>4 DEF kernel, TypeOK, KernelOK, SubReactor, Poll, HandleEvent, RecvPart, RecvNothing,
                Close, ProcessMessage, FindConnection, LoadNum, DecreaseConnection, EraseIndex,
                Return
  <2>3. Holds(s)
    BY PointerIsHolds
  <2> QED
    BY <1>2, <2>1, <2>2, <2>3 DEF Holds, Accepted
<1> QED
  BY <1>3, <1>4

(* ... and its own hold is good again.                                     *)
LEMMA OwnHolds ==
    ASSUME ConnInv, NEW r \in Subs, SubReactor(r)
    PROVE  Holds(r)'
<1> USE DEF ConnInv
<1>1. r \in Threads
  BY Ranges
<1>2. Holds(r)
  BY PointerIsHolds
<1>3. ready[r] \cup batch[r] \subseteq Conns
  BY DEF TypeOK, KernelOK, ThreadsOK
<1>4. CASE EraseConnection(r)
  <2> DEFINE d == at[r]
  <2>1. /\ d \in Accepted /\ d \in Conns /\ d \notin batch[r]
        /\ object' = [object EXCEPT ![d] = "freed"]
        /\ ready' = [q \in Subs |-> ready[q] \ {d}]
        /\ UNCHANGED <<fdOf, home, at, slot, batch>>
    BY <1>4, EraseFrees
  <2>2. \A c \in Conns : c # d => object'[c] = object[c]
    BY <2>1 DEF TypeOK, ObjectsOK
  <2>3. pc'[r] = "load"
    BY <1>1, <1>4, GotoAt DEF EraseConnection, TypeOK
  <2> QED
    BY <1>2, <1>3, <2>1, <2>2, <2>3 DEF Holds, Accepted, Deleting, Looping
<1>5. ASSUME ~ EraseConnection(r) PROVE UNCHANGED <<fdOf, object, home, connections>>
  BY <1>5, SubIsQuiet DEF Quiet, TypeOK
<1>6. CASE Poll(r)
  <2>1. UNCHANGED <<fdOf, object, home, connections>>
    BY <1>6 DEF Poll, objects, tables
  <2>2. ready'[r] \subseteq ready[r] /\ batch'[r] \subseteq ready[r] /\ pc'[r] = "loop"
    BY <1>6 DEF Poll, TypeOK, KernelOK, ThreadsOK
  <2> QED
    BY <1>2, <2>1, <2>2 DEF Holds, Deleting, Looping
<1>7. CASE HandleEvent(r)
  <2>1. PICK c \in batch[r] :
            /\ at' = [at EXCEPT ![r] = c]
            /\ batch' = [batch EXCEPT ![r] = @ \ {c}]
            /\ Goto(r, IF c \in callback THEN "recv" ELSE "dead")
    BY <1>7 DEF HandleEvent
  <2>2. at'[r] = c /\ batch'[r] = batch[r] \ {c}
    BY <1>1, <2>1 DEF TypeOK, ThreadsOK
  <2>3. pc'[r] \in {"recv", "dead"}
    BY <1>1, <2>1, GotoAt DEF TypeOK
  <2>4. UNCHANGED <<fdOf, ready, object, home, connections>>
    BY <1>7 DEF HandleEvent, kernel, objects, tables
  <2>5. object[c] = "alive" /\ home[c] = r /\ c \in Conns
    BY <1>2, <1>3, <2>1 DEF Holds
  <2>6. c \in Accepted
    BY <2>5 DEF LifeInv
  <2> QED
    BY <1>2, <2>1, <2>2, <2>3, <2>4, <2>5, <2>6 DEF Holds, Accepted, Deleting, Looping
<1>8. CASE RecvPart(r) \/ RecvNothing(r) \/ Close(r)
  <2>1. UNCHANGED <<fdOf, ready, object, home, connections, at, slot, batch>>
    BY <1>8 DEF RecvPart, RecvNothing, Close, kernel, objects, tables
  <2>2. pc[r] = "recv" /\ pc'[r] \in {"dispatch", "loop", "find"}
    BY <1>1, <1>8, GotoAt DEF RecvPart, RecvNothing, Close, TypeOK
  <2> QED
    BY <1>2, <2>1, <2>2 DEF Holds, Accepted, Deleting, Looping
<1>9. CASE ProcessMessage(r) \/ DecreaseConnection(r) \/ EraseIndex(r) \/ Return(r)
  <2>1. UNCHANGED <<fdOf, ready, object, home, connections, at, slot, batch>>
    BY <1>9 DEF ProcessMessage, DecreaseConnection, EraseIndex, Return, kernel, objects, tables
  <2>2. \/ pc'[r] \in {"loop", "dead", "return"}
        \/ pc[r] = "store" /\ pc'[r] = "unindex"
    BY <1>1, <1>9, GotoAt DEF ProcessMessage, DecreaseConnection, EraseIndex, Return, TypeOK
  <2> QED
    BY <1>2, <2>1, <2>2 DEF Holds, Accepted, Deleting, Looping
<1>10. CASE FindConnection(r)
  <2> DEFINE d == connections[fdOf[at[r]]]
  <2>1. UNCHANGED <<fdOf, ready, object, home, connections, at, slot, batch>>
    BY <1>10 DEF FindConnection, kernel, objects, tables
  <2>2. pc[r] = "find" /\ pc'[r] = IF d = 0 THEN "loop" ELSE "erase"
    BY <1>1, <1>10, GotoAt DEF FindConnection, TypeOK
  <2>3. at[r] \in Accepted /\ fdOf[at[r]] \in Fds /\ object[at[r]] = "alive"
    BY <1>2, <2>2, AcceptedTyped DEF Holds, Deleting, TypeOK
  <2>4. d # 0 => d = at[r]
    BY <2>3 DEF TableInv, LifeInv
  <2> QED
    BY <1>2, <2>1, <2>2, <2>3, <2>4 DEF Holds, Accepted, Deleting, Looping
<1>11. CASE LoadNum(r)
  <2>1. UNCHANGED <<fdOf, ready, object, home, connections, at, batch>>
    BY <1>11 DEF LoadNum, kernel, objects, tables
  <2>2. pc[r] = "load" /\ (pc'[r] = "return" \/ (pc'[r] = "store" /\ slot'[r] # 0))
    BY <1>1, <1>11, GotoAt DEF LoadNum, TypeOK, ThreadsOK
  <2> QED
    BY <1>2, <2>1, <2>2 DEF Holds, Accepted, Deleting, Looping
<1> QED
  BY <1>4, <1>6, <1>7, <1>8, <1>9, <1>10, <1>11 DEF SubReactor

-----------------------------------------------------------------------------
LEMMA InitHolds == Init => ConnInv
<1> SUFFICES ASSUME Init PROVE ConnInv
  OBVIOUS
<1>1. KernelOK
  BY Ranges, ConnBoundsAssumption, EmptySeq DEF Init, KernelOK
<1>2. ObjectsOK /\ TablesOK
  BY Ranges DEF Init, ObjectsOK, TablesOK
<1>3. ThreadsOK
  BY Ranges DEF Init, ThreadsOK, Labels, Accepting, Looping
<1>4. TypeOK
  BY <1>1, <1>2, <1>3 DEF Init, TypeOK
<1>5. Accepted = {} /\ Len(fdOf) = 0 /\ pc[0] = "accept" /\ Me = 0
  BY Ranges, EmptySeq DEF Init, Accepted, Me
<1>6. MainInv /\ LifeInv /\ TableInv
  BY <1>5 DEF Init, MainInv, LifeInv, TableInv, Accepting
<1>7. PointerInv
  <2> SUFFICES ASSUME NEW r \in Subs PROVE Holds(r)
    BY PointerIsHolds
  <2>1. pc[r] = "loop" /\ ready[r] = {} /\ batch[r] = {}
    BY Ranges DEF Init
  <2> QED
    BY <2>1 DEF Holds, Deleting, Looping
<1> QED
  BY <1>4, <1>6, <1>7 DEF ConnInv

LEMMA StepHolds ==
    ASSUME ConnInv, Step, raced' = (raced \/ Overlap')
    PROVE  ConnInv'
<1> USE DEF ConnInv
<1>1. CASE Main
  <2>1. KernelOK' /\ ObjectsOK' /\ TablesOK' /\ ThreadsOK'
    BY <1>1, MainTyped
  <2>2. MainInv' /\ LifeInv' /\ TableInv'
    BY <1>1, AcceptKeeps, MainMoves, RegisterKeeps, InsertKeeps, AddKeeps DEF Main
  <2> QED
    BY <1>1, <2>1, <2>2, MainHolds, FlagsTyped DEF TypeOK
<1>2. ASSUME NEW r \in Subs, SubReactor(r) PROVE ConnInv'
  <2>1. KernelOK' /\ ObjectsOK' /\ TablesOK' /\ ThreadsOK'
    BY <1>2, SubTyped
  <2>2. MainInv' /\ LifeInv' /\ TableInv'
    BY <1>2, SubIsQuiet, QuietKeeps, EraseKeeps DEF TypeOK
  <2>3. PointerInv'
    <3>1. \A s \in Subs : Holds(s)'
      BY <1>2, OthersHold, OwnHolds
    <3> QED
      BY <3>1 DEF PointerInv, Holds
  <2> QED
    BY <2>1, <2>2, <2>3, FlagsTyped DEF TypeOK
<1>3. ASSUME NEW c \in Conns, Arrive(c) \/ HangUp(c) PROVE ConnInv'
  BY <1>3, ClientTyped, ClientIsQuiet, QuietKeeps, ClientHolds, FlagsTyped DEF TypeOK
<1>4. CASE TableRace
  <2>1. UNCHANGED <<kernel, objects, tables, threads>>
    BY <1>4 DEF TableRace
  <2>2. KernelOK' /\ ObjectsOK' /\ TablesOK' /\ ThreadsOK'
    BY <2>1, KernelFrame, ObjectsFrame, TablesFrame, ThreadsFrame DEF TypeOK
  <2>3. Quiet
    BY <2>1 DEF Quiet, kernel, objects, tables, threads
  <2>4. PointerInv'
    BY <2>1 DEF PointerInv, Accepted, kernel, objects, tables, threads
  <2> QED
    BY <2>2, <2>3, <2>4, QuietKeeps, FlagsTyped DEF TypeOK
<1> QED
  BY <1>1, <1>2, <1>3, <1>4 DEF Step

LEMMA StutterHolds == ConnInv /\ UNCHANGED vars => ConnInv'
<1> SUFFICES ASSUME ConnInv, UNCHANGED vars PROVE ConnInv'
  OBVIOUS
<1>1. UNCHANGED <<kernel, objects, tables, threads, up, raced>>
  BY DEF vars
<1>2. KernelOK' /\ ObjectsOK' /\ TablesOK' /\ ThreadsOK'
  BY <1>1, KernelFrame, ObjectsFrame, TablesFrame, ThreadsFrame DEF ConnInv, TypeOK
<1>3. Quiet
  BY <1>1 DEF Quiet, kernel, objects, tables, threads
<1>4. PointerInv'
  BY <1>1 DEF ConnInv, PointerInv, Accepted, kernel, objects, tables, threads
<1> QED
  BY <1>1, <1>2, <1>3, <1>4, QuietKeeps DEF ConnInv, TypeOK

(* ConnInv, the inductive invariant, holds of the connections throughout.  *)
THEOREM ConnSafe == Spec => []ConnInv
<1>1. ConnInv /\ [Next]_vars => ConnInv'
  BY StepHolds, StutterHolds DEF Next
<1> QED
  BY InitHolds, <1>1, PTL DEF Spec

(* Every variable keeps its type.                                          *)
THEOREM TypeCorrect == Spec => []TypeOK
<1>1. ConnInv => TypeOK
  BY DEF ConnInv
<1> QED
  BY <1>1, ConnSafe, PTL

(* The raw pointers of Poll's active channels, and the one an event is     *)
(* handled with, are those of live objects of the reactor that has them.   *)
THEOREM PointersAreAlive == Spec => []BatchAlive
<1>1. ConnInv => BatchAlive
  BY DEF ConnInv, PointerInv, BatchAlive
<1> QED
  BY <1>1, ConnSafe, PTL

(* TcpServer::connections, the kernel's descriptors and the objects agree. *)
THEOREM TableIsOfOpenSockets == Spec => []TableMatchesSockets
<1>1. ConnInv => TableMatchesSockets
  <2> SUFFICES ASSUME ConnInv, NEW fd \in Fds
               PROVE  /\ connections[fd] # 0 =>
                            connections[fd] = sock[fd] /\ object[sock[fd]] = "alive"
                      /\ sock[fd] \notin {0, Me} => connections[fd] = sock[fd]
    BY DEF TableMatchesSockets
  <2>1. connections[fd] # 0 => connections[fd] = sock[fd] /\ object[sock[fd]] = "alive"
    BY DEF ConnInv, TableInv, LifeInv
  <2>2. ASSUME sock[fd] \notin {0, Me} PROVE connections[fd] = sock[fd]
    <3>1. sock[fd] \in Accepted /\ fdOf[sock[fd]] = fd
      BY <2>2 DEF ConnInv, LifeInv
    <3>2. object[sock[fd]] = "alive"
      BY <2>2, <3>1, AcceptedTyped DEF ConnInv, LifeInv, TypeOK, ObjectsOK
    <3> QED
      BY <2>2, <3>1, <3>2 DEF ConnInv, TableInv
  <2> QED
    BY <2>1, <2>2
<1> QED
  BY <1>1, ConnSafe, PTL

(* A message of a connection that has been announced to the client pool    *)
(* finds that connection's wrapper, not a stale one of its descriptor.     *)
THEOREM WrapperIsFound == Spec => []MessageFindsItsWrapper
<1>1. ConnInv => MessageFindsItsWrapper
  BY DEF ConnInv, PointerInv, TableInv, MessageFindsItsWrapper, Deleting
<1> QED
  BY <1>1, ConnSafe, PTL

(* Only the reactor a connection is bound to destroys it, and only when it *)
(* handles an event of that connection.                                    *)
THEOREM OnlyOwnReactorFrees == Spec => OwnReactorFrees
<1> DEFINE Own == \A c \in Conns :
                      object[c] = "alive" /\ object'[c] = "freed" =>
                          pc[home[c]] = "erase" /\ at[home[c]] = c
<1>1. ASSUME ConnInv, Step PROVE Own
  <2> SUFFICES ASSUME NEW c \in Conns, object[c] = "alive", object'[c] = "freed"
               PROVE  pc[home[c]] = "erase" /\ at[home[c]] = c
    OBVIOUS
  <2>1. ~ Main
    <3>1. ASSUME Main PROVE UNCHANGED object \/ Register
      BY <3>1, InsertKeeps, <1>1 DEF Main, Accept, Bind, IncreaseConnection, StoreIndex,
            EnableET, SetOnRecv, Lookup, AddConnection, objects
    <3>2. Register => object'[c] = "alive"
      BY <1>1 DEF Register, ConnInv, TypeOK, ObjectsOK
    <3> QED
      BY <3>1, <3>2
  <2>2. ASSUME NEW d \in Conns, Arrive(d) \/ HangUp(d) PROVE FALSE
    BY <2>2 DEF Arrive, HangUp, objects
  <2>3. ~ TableRace
    BY DEF TableRace, objects
  <2>4. ASSUME NEW r \in Subs, SubReactor(r) PROVE pc[home[c]] = "erase" /\ at[home[c]] = c
    <3>1. EraseConnection(r)
      BY <1>1, <2>4, SubIsQuiet DEF Quiet, ConnInv, TypeOK
    <3>2. home[at[r]] = r /\ object' = [object EXCEPT ![at[r]] = "freed"]
      BY <1>1, <3>1, EraseFrees DEF ConnInv
    <3>3. c = at[r]
      BY <1>1, <3>2 DEF ConnInv, TypeOK, ObjectsOK
    <3> QED
      BY <3>1, <3>2, <3>3 DEF EraseConnection
  <2> QED
    BY <1>1, <2>1, <2>2, <2>3, <2>4 DEF Step
<1>2. ConnInv /\ [Next]_vars => [Own]_vars
  BY <1>1 DEF Next
<1> QED
  BY <1>2, ConnSafe, PTL DEF Spec, OwnReactorFrees

-----------------------------------------------------------------------------
(* LoadCountsBound.                                                        *)
LEMMA CountedFinite ==
    ASSUME KernelOK, NEW r \in Subs
    PROVE  IsFiniteSet(Counted(r)) /\ Counted(r) \subseteq Accepted
<1>1. Counted(r) \subseteq 1..Len(fdOf)
  BY DEF Counted
<1>2. Len(fdOf) \in Nat
  BY LenProperties DEF KernelOK
<1>3. IsFiniteSet(1..Len(fdOf))
  BY <1>2, FS_Interval
<1> QED
  BY <1>1, <1>3, FS_Subset DEF Accepted

(* Counted looks at nothing else.                                          *)
LEMMA CountedSame ==
    ASSUME NEW r \in Subs, UNCHANGED <<fdOf, home>>,
           \A c \in Accepted : object'[c] = "freed" <=> object[c] = "freed",
           \A c \in Accepted : (c = Me /\ pc[0] \in {"bind", "count"}) <=>
                               (c = Me' /\ pc'[0] \in {"bind", "count"}),
           \/ pc[r] \notin {"load", "store"} /\ pc'[r] \notin {"load", "store"}
           \/ pc[r] \in {"load", "store"} /\ pc'[r] \in {"load", "store"} /\ at'[r] = at[r]
    PROVE  Counted(r)' = Counted(r)
  BY DEF Counted, Accepted

(* While a connection is being accepted, and nothing raced, no reactor is  *)
(* taking a binding away.                                                  *)
LEMMA MainAlone ==
    ASSUME ConnInv, ~ Overlap, ~ Overlap', Main
    PROVE  /\ \A r \in Subs : ~ Unbinding(r) /\ ~ Unbinding(r)'
           /\ \A r \in Subs : pc'[r] = pc[r]
<1>1. \A r \in Subs : r \in Threads /\ r # 0
  BY Ranges
<1>2. 0 \in Threads /\ \A l : Goto(0, l) => pc'[0] = l /\ \A r \in Subs : pc'[r] = pc[r]
  BY <1>1, GotoAt, Ranges DEF ConnInv, TypeOK
<1>3. \A r \in Subs : pc'[r] = pc[r]
  BY <1>2 DEF Main, Accept, Bind, IncreaseConnection, StoreIndex, Register, EnableET, SetOnRecv,
              Insert, Lookup, AddConnection
<1>4. pc[0] # "accept" \/ pc'[0] # "accept"
  <2>1. ASSUME NEW fd \in Fds, Accept(fd) PROVE pc'[0] = "bind"
    BY <1>2, <2>1 DEF Accept
  <2> QED
    BY <2>1 DEF Main, Bind, IncreaseConnection, StoreIndex, Register, EnableET, SetOnRecv, Insert,
                Lookup, AddConnection
<1> QED
  BY <1>3, <1>4 DEF Overlap, Unbinding, Deleting

LEMMA AcceptBalances ==
    ASSUME ConnInv, LoadInv, ~ Overlap, ~ Overlap', NEW fd \in Fds, Accept(fd)
    PROVE  LoadInv'
<1> DEFINE n == Len(fdOf) + 1
<1> USE DEF ConnInv
<1>1. Main
  BY DEF Main
<1>2. /\ Len(fdOf') = n /\ Accepted' = Accepted \cup {n} /\ n \notin Accepted
      /\ \A c \in Accepted : fdOf'[c] = fdOf[c]
  BY AppendProperties, LenProperties DEF Accept, TypeOK, KernelOK, Accepted
<1>3. pc'[0] = "bind" /\ pc[0] = "accept" /\ Me' = n /\ Me = 0
  BY Ranges, GotoAt DEF Accept, TypeOK, ThreadsOK, Me, MainInv
<1>4. UNCHANGED <<object, home, index, num>>
  BY DEF Accept, objects, tables
<1>5. \A r \in Subs : pc'[r] = pc[r] /\ pc[r] \notin {"load", "store"}
  BY <1>1, MainAlone DEF Unbinding
<1>6. \A r \in Subs : Counted(r)' = Counted(r)
  BY <1>2, <1>3, <1>4, <1>5 DEF Counted, Accepted
<1>7. \A c \in Accepted : c # 0
  BY AcceptedTyped, Ranges DEF TypeOK
<1> QED
  BY <1>1, <1>2, <1>3, <1>4, <1>6, <1>7, MainAlone DEF LoadInv

LEMMA MainBalances ==
    ASSUME ConnInv, LoadInv, ~ Overlap, ~ Overlap', Main, \A fd \in Fds : ~ Accept(fd)
    PROVE  LoadInv'
<1> USE DEF ConnInv
<1>1. \A r \in Subs : /\ ~ Unbinding(r) /\ ~ Unbinding(r)'
                      /\ pc[r] \notin {"load", "store"} /\ pc'[r] \notin {"load", "store"}
  BY MainAlone DEF Unbinding
<1>2. pc[0] # "accept" /\ Me \in Accepted /\ Me \in Conns /\ fdOf[Me] \in Fds
  BY AcceptedTyped DEF Main, Bind, IncreaseConnection, StoreIndex, Register, EnableET, SetOnRecv,
                       Insert, Lookup, AddConnection, TypeOK, MainInv
<1>3. 0 \in Threads /\ \A l : Goto(0, l) => pc'[0] = l
  BY GotoAt, Ranges DEF TypeOK
<1>4. UNCHANGED fdOf
  BY DEF Main, Bind, IncreaseConnection, StoreIndex, Register, EnableET, SetOnRecv, Insert,
         Lookup, AddConnection, kernel
<1>5. Accepted \subseteq Conns /\ \A c \in Accepted : fdOf[c] \in Fds /\ c # 0
  BY AcceptedTyped, Ranges DEF TypeOK
<1>6. CASE Bind
  <2>1. PICK r \in Subs : home' = [home EXCEPT ![Me] = r] /\ load' = [load EXCEPT ![0] = num[r]]
    BY <1>6 DEF Bind
  <2>2. pc[0] = "bind" /\ pc'[0] = "count" /\ UNCHANGED <<object, index, num, at>>
    BY <1>3, <1>6 DEF Bind, tables
  <2>3. home'[Me] = r /\ \A c \in Accepted : c # Me => home'[c] = home[c]
    BY <1>2, <1>5, <2>1 DEF TypeOK, ObjectsOK
  <2>4. load'[0] = num[r]
    BY <1>3, <2>1 DEF TypeOK, ThreadsOK
  <2>5. \A s \in Subs : Counted(s)' = Counted(s)
    BY <1>1, <1>4, <2>2, <2>3 DEF Counted, Accepted, Me
  <2> QED
    BY <1>1, <1>4, <2>2, <2>3, <2>4, <2>5 DEF LoadInv, Accepted, Me
<1>7. CASE IncreaseConnection
  <2>1. pc[0] = "count" /\ pc'[0] = "index" /\ UNCHANGED <<object, home, index, at>>
    BY <1>3, <1>7 DEF IncreaseConnection, objects
  <2>2. PICK h \in Subs : h = home[Me]
    BY <1>2, <2>1 DEF MainInv, TypeOK, ObjectsOK, Threads, Subs
  <2>3. num'[h] = num[h] + 1 /\ \A s \in Subs : s # h => num'[s] = num[s]
    BY <1>7, <2>1, <2>2 DEF IncreaseConnection, LoadInv, TypeOK, TablesOK
  <2>4. object[Me] = "none"
    BY <2>1 DEF MainInv
  <2>5. Me \notin Counted(h) /\ Counted(h)' = Counted(h) \cup {Me}
    BY <1>1, <1>2, <1>4, <2>1, <2>2, <2>4 DEF Counted, Accepted, Me
  <2>6. \A s \in Subs : s # h => Counted(s)' = Counted(s)
    BY <1>1, <1>4, <2>1, <2>2 DEF Counted, Me
  <2>7. Cardinality(Counted(h)') = Cardinality(Counted(h)) + 1
    BY <2>2, <2>5, CountedFinite, FS_AddElement DEF TypeOK
  <2>8. \A s \in Subs : num'[s] = Cardinality(Counted(s)')
    <3> SUFFICES ASSUME NEW s \in Subs PROVE num'[s] = Cardinality(Counted(s)')
      OBVIOUS
    <3>1. num[s] = Cardinality(Counted(s)) /\ num[h] = Cardinality(Counted(h))
      BY DEF LoadInv
    <3>2. CASE s = h
      BY <2>3, <2>7, <3>1, <3>2
    <3>3. CASE s # h
      BY <2>3, <2>6, <3>1, <3>3
    <3> QED
      BY <3>2, <3>3
  <2> QED
    BY <1>1, <1>4, <2>1, <2>8 DEF LoadInv, Accepted, Me
<1>8. CASE StoreIndex
  <2>1. pc[0] = "index" /\ pc'[0] = "register" /\ UNCHANGED <<object, home, num, at>>
    BY <1>3, <1>8 DEF StoreIndex, objects
  <2>2. /\ index'[fdOf[Me]] = home[Me]
        /\ \A fd \in Fds : fd # fdOf[Me] => index'[fd] = index[fd]
    BY <1>2, <1>8 DEF StoreIndex, TypeOK, TablesOK
  <2>3. \A c \in Accepted \ {Me} : object[c] # "freed" => fdOf[c] # fdOf[Me]
    BY <1>2, <2>1, <1>5 DEF MainInv, LifeInv, TypeOK, ObjectsOK
  <2>4. \A s \in Subs : Counted(s)' = Counted(s)
    BY <1>1, <1>4, <2>1 DEF Counted, Me
  <2> QED
    BY <1>1, <1>4, <1>5, <2>1, <2>2, <2>3, <2>4 DEF LoadInv, Accepted, Me
<1>9. CASE Register \/ EnableET \/ SetOnRecv \/ Insert \/ Lookup
  <2>1. /\ pc[0] \notin {"bind", "count", "index"} /\ pc'[0] \notin {"bind", "count", "index"}
        /\ UNCHANGED <<home, index, num, at>>
    BY <1>3, <1>9 DEF Register, EnableET, SetOnRecv, Insert, Lookup, objects, tables
  <2>2. \A c \in Accepted : object'[c] = "freed" <=> object[c] = "freed"
    <3>1. CASE Register
      BY <1>5, <3>1 DEF Register, MainInv, TypeOK, ObjectsOK
    <3>2. CASE EnableET \/ SetOnRecv \/ Insert \/ Lookup
      BY <3>2, InsertKeeps DEF EnableET, SetOnRecv, Lookup, objects
    <3> QED
      BY <1>9, <3>1, <3>2
  <2>3. \A s \in Subs : Counted(s)' = Counted(s)
    BY <1>1, <1>4, <2>1, <2>2 DEF Counted, Accepted, Me
  <2> QED
    BY <1>1, <1>4, <2>1, <2>2, <2>3 DEF LoadInv, Accepted, Me
<1>10. CASE AddConnection
  <2>1. pc[0] = "add" /\ pc'[0] = "accept" /\ UNCHANGED <<object, home, index, num>>
    BY <1>3, <1>10 DEF AddConnection, objects
  <2>2. \A s \in Subs : Counted(s)' = Counted(s)
    BY <1>1, <1>4, <2>1 DEF Counted, Me
  <2> QED
    BY <1>1, <1>4, <2>1, <2>2 DEF LoadInv, Accepted, Me
<1> QED
  BY <1>6, <1>7, <1>8, <1>9, <1>10 DEF Main

(* A reactor's step leaves alone what the other threads have.              *)
LEMMA OthersSame ==
    ASSUME ThreadsOK, NEW r \in Subs, SubReactor(r), NEW t \in Threads, t # r
    PROVE  UNCHANGED <<pc[t], at[t], load[t]>> /\ (t \in Subs => slot'[t] = slot[t])
<1>1. r \in Threads
  BY Ranges
<1>2. \A l : Goto(r, l) => pc'[t] = pc[t]
  BY <1>1, GotoAt
<1>3. pc'[t] = pc[t]
  BY <1>2 DEF SubReactor, Poll, HandleEvent, RecvPart, RecvNothing, Close, ProcessMessage,
              FindConnection, EraseConnection, LoadNum, DecreaseConnection, EraseIndex, Return
<1>4. at'[t] = at[t]
  BY <1>1 DEF ThreadsOK, SubReactor, Poll, HandleEvent, RecvPart, RecvNothing, Close,
              ProcessMessage, FindConnection, EraseConnection, LoadNum, DecreaseConnection,
              EraseIndex, Return
<1>5. load'[t] = load[t]
  BY <1>1 DEF ThreadsOK, SubReactor, Poll, HandleEvent, RecvPart, RecvNothing, Close,
              ProcessMessage, FindConnection, EraseConnection, LoadNum, DecreaseConnection,
              EraseIndex, Return
<1>6. t \in Subs => slot'[t] = slot[t]
  BY <1>1 DEF ThreadsOK, SubReactor, Poll, HandleEvent, RecvPart, RecvNothing, Close,
              ProcessMessage, FindConnection, EraseConnection, LoadNum, DecreaseConnection,
              EraseIndex, Return
<1> QED
  BY <1>3, <1>4, <1>5, <1>6

(* The parts of LoadInv, named.                                            *)
CountRead == pc[0] = "count" => load[0] = num[home[Me]]

IndexIsHome ==
    \A c \in Accepted :
        object[c] # "freed" /\ ~ (c = Me /\ pc[0] \in {"bind", "count", "index"}) =>
            index[fdOf[c]] = home[c]

Unbinds(r) ==
    Unbinding(r) =>
        /\ object[at[r]] = "freed" /\ home[at[r]] = r
        /\ sock[fdOf[at[r]]] = 0
        /\ \A s \in Subs \ {r} : Unbinding(s) => fdOf[at[s]] # fdOf[at[r]]
        /\ pc[r] = "load" => index[fdOf[at[r]]] = r
        /\ pc[r] = "store" => slot[r] = r /\ load[r] = num[r]

Balanced == \A r \in Subs : num[r] = Cardinality(Counted(r))

LEMMA LoadInvParts ==
    LoadInv <=> CountRead /\ IndexIsHome /\ (\A r \in Subs : Unbinds(r)) /\ Balanced
  BY DEF LoadInv, CountRead, IndexIsHome, Unbinds, Balanced

LEMMA LoadInvPartsNext ==
    LoadInv' <=> CountRead' /\ IndexIsHome' /\ (\A r \in Subs : Unbinds(r)') /\ Balanced'
  BY DEF LoadInv, CountRead, IndexIsHome, Unbinds, Balanced

(* The other reactors' part, as long as the loads and indexes they are     *)
(* about stay.                                                             *)
LEMMA UnbindsStays ==
    ASSUME NEW s \in Subs, Unbinds(s), UNCHANGED <<fdOf, home, pc[s], at[s], load[s], slot[s]>>,
           Unbinding(s) => /\ object[at[s]] = "freed" => object'[at[s]] = "freed"
                           /\ sock[fdOf[at[s]]] = 0 => sock'[fdOf[at[s]]] = 0
                           /\ index'[fdOf[at[s]]] = index[fdOf[at[s]]]
                           /\ num'[s] = num[s]
                           /\ \A q \in Subs \ {s} : Unbinding(q)' =>
                                 fdOf[at'[q]] # fdOf[at[s]]
    PROVE  Unbinds(s)'
  BY DEF Unbinds, Unbinding

LEMMA LoopBalances ==
    ASSUME ConnInv, LoadInv, NEW r \in Subs,
           Poll(r) \/ HandleEvent(r) \/ RecvPart(r) \/ RecvNothing(r) \/ Close(r)
               \/ ProcessMessage(r) \/ FindConnection(r) \/ Return(r)
    PROVE  LoadInv'
<1> USE DEF ConnInv
<1>1. SubReactor(r) /\ ~ EraseConnection(r)
  <2>1. SubReactor(r)
    BY DEF SubReactor
  <2>2. pc[r] # "erase" \/ pc'[r] # "load"
    BY GotoAt, Ranges DEF Poll, HandleEvent, RecvPart, RecvNothing, Close, ProcessMessage,
                          FindConnection, Return, TypeOK
  <2>3. EraseConnection(r) => pc[r] = "erase" /\ pc'[r] = "load"
    BY GotoAt, Ranges DEF EraseConnection, TypeOK
  <2> QED
    BY <2>1, <2>2, <2>3
<1>2. Quiet
  BY <1>1, SubIsQuiet DEF TypeOK
<1>3. UNCHANGED <<index, num>>
  BY DEF Poll, HandleEvent, RecvPart, RecvNothing, Close, ProcessMessage, FindConnection, Return,
         tables
<1>4. ~ Unbinding(r) /\ ~ Unbinding(r)'
  <2>1. \A l : Goto(r, l) => pc'[r] = l
    BY GotoAt, Ranges DEF TypeOK
  <2> QED
    BY <2>1 DEF Unbinding, Poll, HandleEvent, RecvPart, RecvNothing, Close, ProcessMessage,
                FindConnection, Return
<1>5. \A t \in Threads : t # r =>
          UNCHANGED <<pc[t], at[t], load[t]>> /\ (t \in Subs => slot'[t] = slot[t])
  BY <1>1, OthersSame DEF TypeOK
<1>6. load'[0] = load[0]
  BY <1>5, Ranges
<1>7. \A s \in Subs : Counted(s)' = Counted(s)
  <2> SUFFICES ASSUME NEW s \in Subs PROVE Counted(s)' = Counted(s)
    OBVIOUS
  <2>1. s \in Threads
    BY Ranges
  <2>2. s # r => pc'[s] = pc[s] /\ at'[s] = at[s]
    BY <1>5, <2>1
  <2> QED
    BY <1>2, <1>4, <2>2 DEF Unbinding, Counted, Me, Quiet
<1>8. CountRead'
  BY <1>2, <1>3, <1>6, LoadInvParts DEF CountRead, Quiet, Me
<1>9. IndexIsHome'
  BY <1>2, <1>3, LoadInvParts DEF IndexIsHome, Quiet, Me, Accepted
<1>10. Balanced'
  BY <1>3, <1>7, LoadInvParts DEF Balanced
<1>11. ASSUME NEW s \in Subs PROVE Unbinds(s)'
  <2>1. CASE s = r
    BY <1>4, <2>1 DEF Unbinds
  <2>2. CASE s # r
    <3>1. UNCHANGED <<pc[s], at[s], load[s], slot[s]>>
      BY <1>5, <2>2, Ranges
    <3>2. ASSUME Unbinding(s), NEW q \in Subs \ {s}, Unbinding(q)'
          PROVE  fdOf[at'[q]] # fdOf[at[s]]
      <4>1. q # r
        BY <1>4, <3>2
      <4>2. pc'[q] = pc[q] /\ at'[q] = at[q]
        BY <1>5, <4>1, Ranges
      <4>3. Unbinding(q)
        BY <3>2, <4>2 DEF Unbinding
      <4> QED
        BY <3>2, <4>2, <4>3, LoadInvParts DEF Unbinds
    <3>3. Unbinds(s)
      BY LoadInvParts
    <3> QED
      BY <1>2, <1>3, <3>1, <3>2, <3>3, UnbindsStays DEF Quiet
  <2> QED
    BY <2>1, <2>2
<1> QED
  BY <1>8, <1>9, <1>10, <1>11, LoadInvPartsNext
(* A deletion, as long as it does not overlap an accept.                   *)
LEMMA Alone ==
    ASSUME ConnInv, ~ Overlap, NEW r \in Subs, pc[r] \in Deleting
    PROVE  /\ pc[0] = "accept" /\ Me = 0
           /\ at[r] \in Accepted /\ at[r] \in Conns /\ fdOf[at[r]] \in Fds
           /\ Accepted \subseteq Conns /\ \A c \in Accepted : fdOf[c] \in Fds /\ c # Me
<1>1. pc[0] = "accept" /\ Me = 0
  BY DEF Overlap, ConnInv, MainInv
<1>2. at[r] \in Accepted
  BY DEF ConnInv, PointerInv
<1> QED
  BY <1>1, <1>2, AcceptedTyped, Ranges DEF ConnInv, TypeOK

LEMMA EraseBalances ==
    ASSUME ConnInv, LoadInv, ~ Overlap, NEW r \in Subs, EraseConnection(r)
    PROVE  LoadInv'
<1> DEFINE d == at[r]
<1> USE DEF ConnInv
<1>1. /\ d \in Accepted /\ d \in Conns /\ fdOf[d] \in Fds
      /\ object[d] = "alive" /\ home[d] = r
      /\ object' = [object EXCEPT ![d] = "freed"]
      /\ sock' = [sock EXCEPT ![fdOf[d]] = 0]
      /\ UNCHANGED <<fdOf, home, at>>
  BY EraseFrees
<1>2. pc[r] = "erase" /\ UNCHANGED <<index, num, load, slot>>
  BY DEF EraseConnection
<1>3. pc[0] = "accept" /\ Me = 0 /\ \A c \in Accepted : c \in Conns /\ fdOf[c] \in Fds /\ c # Me
  BY <1>2, Alone DEF Deleting
<1>4. pc'[r] = "load" /\ pc'[0] = pc[0] /\ \A s \in Subs : s # r => pc'[s] = pc[s]
  BY GotoAt, Ranges DEF EraseConnection, TypeOK
<1>5. object'[d] = "freed" /\ \A c \in Conns : c # d => object'[c] = object[c]
  BY <1>1 DEF TypeOK, ObjectsOK
<1>6. \A fd \in Fds : sock'[fd] = IF fd = fdOf[d] THEN 0 ELSE sock[fd]
  BY <1>1 DEF TypeOK, KernelOK
<1>7. \A s \in Subs : Counted(s)' = Counted(s)
  <2> SUFFICES ASSUME NEW s \in Subs PROVE Counted(s)' = Counted(s)
    OBVIOUS
  <2>1. CASE s = r
    BY <1>1, <1>2, <1>3, <1>4, <1>5, <2>1 DEF Counted, Me, Accepted
  <2>2. CASE s # r
    <3>1. \A c \in Accepted : home[c] = s => object'[c] = object[c]
      BY <1>1, <1>3, <1>5, <2>2
    <3> QED
      BY <1>1, <1>4, <2>2, <3>1 DEF Counted, Me, Accepted
  <2> QED
    BY <2>1, <2>2
<1>8. index[fdOf[d]] = r
  BY <1>1, <1>3, LoadInvParts DEF IndexIsHome
<1>9. sock[fdOf[d]] = d /\ d # 0
  BY <1>1, <1>3 DEF LifeInv
<1>10. \A s \in Subs : Unbinding(s) => fdOf[at[s]] # fdOf[d]
  BY <1>9, LoadInvParts DEF Unbinds
<1>11. CountRead'
  BY <1>3, <1>4 DEF CountRead
<1>12. IndexIsHome'
  BY <1>1, <1>2, <1>3, <1>4, <1>5, LoadInvParts DEF IndexIsHome, Me, Accepted
<1>13. Balanced'
  BY <1>2, <1>7, LoadInvParts DEF Balanced
<1>14. Unbinds(r)'
  <2>1. sock'[fdOf[d]] = 0
    BY <1>1, <1>6
  <2>2. \A s \in Subs \ {r} : Unbinding(s)' => fdOf[at[s]] # fdOf[d]
    BY <1>4, <1>10 DEF Unbinding
  <2> QED
    BY <1>1, <1>2, <1>4, <1>5, <1>8, <2>1, <2>2 DEF Unbinds
<1>15. ASSUME NEW s \in Subs, s # r PROVE Unbinds(s)'
  <2>1. Unbinds(s)
    BY LoadInvParts
  <2>2. UNCHANGED <<pc[s], at[s], load[s], slot[s]>>
    BY <1>1, <1>2, <1>4, <1>15
  <2>3. ASSUME Unbinding(s)
        PROVE  /\ object[at[s]] = "freed" => object'[at[s]] = "freed"
               /\ sock[fdOf[at[s]]] = 0 => sock'[fdOf[at[s]]] = 0
    <3>1. at[s] \in Conns /\ fdOf[at[s]] \in Fds
      BY <2>3, Alone, <1>3 DEF Unbinding, Deleting, PointerInv
    <3> QED
      BY <1>5, <1>6, <3>1
  <2>4. ASSUME Unbinding(s), NEW q \in Subs \ {s}, Unbinding(q)'
        PROVE  fdOf[at'[q]] # fdOf[at[s]]
    <3>1. CASE q = r
      BY <1>1, <1>10, <2>4, <3>1
    <3>2. CASE q # r
      <4>1. Unbinding(q)
        BY <1>4, <2>4, <3>2 DEF Unbinding
      <4> QED
        BY <1>1, <2>1, <2>4, <4>1 DEF Unbinds
    <3> QED
      BY <3>1, <3>2
  <2> QED
    BY <1>1, <1>2, <2>1, <2>2, <2>3, <2>4, UnbindsStays
<1> QED
  BY <1>11, <1>12, <1>13, <1>14, <1>15, LoadInvPartsNext

(* The rest of a deletion, on the index table and the loads.               *)
LEMMA UnbindBalances ==
    ASSUME ConnInv, LoadInv, ~ Overlap, NEW r \in Subs,
           LoadNum(r) \/ DecreaseConnection(r) \/ EraseIndex(r)
    PROVE  LoadInv'
<1> DEFINE d == at[r]
<1> USE DEF ConnInv
<1>1. pc[r] \in {"load", "store", "unindex"} /\ Unbinding(r)
  BY DEF LoadNum, DecreaseConnection, EraseIndex, Unbinding
<1>2. /\ pc[0] = "accept" /\ Me = 0 /\ d \in Accepted /\ fdOf[d] \in Fds
      /\ \A c \in Accepted : c \in Conns /\ fdOf[c] \in Fds /\ c # Me
  BY <1>1, Alone DEF Deleting
<1>3. /\ object[d] = "freed" /\ home[d] = r /\ sock[fdOf[d]] = 0
      /\ \A s \in Subs \ {r} : Unbinding(s) => fdOf[at[s]] # fdOf[d]
  BY <1>1, LoadInvParts DEF Unbinds
<1>4. UNCHANGED <<fdOf, sock, object, home, at>>
  BY DEF LoadNum, DecreaseConnection, EraseIndex, kernel, objects
<1>5. r \in Threads /\ 0 \in Threads /\ r # 0
  BY Ranges
<1>6. \A l : Goto(r, l) => /\ pc'[r] = l /\ pc'[0] = pc[0]
                            /\ \A s \in Subs : s # r => pc'[s] = pc[s]
  BY <1>5, GotoAt, Ranges DEF TypeOK
<1>7. pc'[0] = pc[0] /\ \A s \in Subs : s # r => pc'[s] = pc[s]
  BY <1>6 DEF LoadNum, DecreaseConnection, EraseIndex
<1>8. \A s \in Subs : s # r => load'[s] = load[s] /\ slot'[s] = slot[s]
  BY <1>5, Ranges DEF LoadNum, DecreaseConnection, EraseIndex, TypeOK, ThreadsOK
<1>9. \A s \in Subs : s # r => Counted(s)' = Counted(s)
  BY <1>4, <1>7 DEF Counted, Me
<1>10. CountRead'
  BY <1>2, <1>7 DEF CountRead
<1>11. ASSUME NEW s \in Subs, s # r, num'[s] = num[s],
              Unbinding(s) => index'[fdOf[at[s]]] = index[fdOf[at[s]]]
       PROVE  Unbinds(s)'
  <2>1. Unbinds(s)
    BY LoadInvParts
  <2>2. ASSUME Unbinding(s), NEW q \in Subs \ {s}, Unbinding(q)'
        PROVE  fdOf[at'[q]] # fdOf[at[s]]
    <3>1. Unbinding(q)
      BY <1>1, <1>7, <2>2 DEF Unbinding
    <3> QED
      BY <1>4, <2>1, <2>2, <3>1 DEF Unbinds
  <2> QED
    BY <1>4, <1>7, <1>8, <1>11, <2>1, <2>2, UnbindsStays
<1>12. CASE LoadNum(r)
  <2>1. pc[r] = "load" /\ UNCHANGED <<index, num>>
    BY <1>12 DEF LoadNum, tables
  <2>2. index[fdOf[d]] = r
    BY <1>1, <2>1, LoadInvParts DEF Unbinds
  <2>3. pc'[r] = "store" /\ slot'[r] = r /\ load'[r] = num[r]
    BY <1>5, <1>6, <1>12, <2>2 DEF LoadNum, TypeOK, ThreadsOK
  <2>4. Counted(r)' = Counted(r)
    BY <1>2, <1>4, <1>7, <2>1, <2>3 DEF Counted, Me
  <2>5. Balanced'
    BY <1>9, <2>1, <2>4, LoadInvParts DEF Balanced
  <2>6. IndexIsHome'
    BY <1>4, <1>7, <2>1, LoadInvParts DEF IndexIsHome, Me, Accepted
  <2>7. Unbinds(r)'
    BY <1>3, <1>4, <1>7, <2>1, <2>3 DEF Unbinds, Unbinding
  <2> QED
    BY <1>10, <1>11, <2>1, <2>5, <2>6, <2>7, LoadInvPartsNext
<1>13. CASE DecreaseConnection(r)
  <2>1. pc[r] = "store" /\ pc'[r] = "unindex" /\ UNCHANGED index
    BY <1>6, <1>13 DEF DecreaseConnection
  <2>2. slot[r] = r /\ load[r] = num[r]
    BY <1>1, <2>1, LoadInvParts DEF Unbinds
  <2>3. num'[r] = num[r] - 1 /\ \A s \in Subs : s # r => num'[s] = num[s]
    BY <1>13, <2>2 DEF DecreaseConnection, TypeOK, TablesOK
  <2>4. d \in Counted(r) /\ Counted(r)' = Counted(r) \ {d}
    BY <1>2, <1>3, <1>4, <1>7, <2>1 DEF Counted, Me, Accepted
  <2>5. Cardinality(Counted(r)') = Cardinality(Counted(r)) - 1
    BY <2>4, CountedFinite, FS_RemoveElement DEF TypeOK
  <2>6. Balanced'
    <3> SUFFICES ASSUME NEW s \in Subs PROVE num'[s] = Cardinality(Counted(s)')
      BY DEF Balanced
    <3>1. num[s] = Cardinality(Counted(s)) /\ num[r] = Cardinality(Counted(r))
      BY LoadInvParts DEF Balanced
    <3>2. CASE s = r
      BY <2>3, <2>5, <3>1, <3>2
    <3>3. CASE s # r
      BY <1>9, <2>3, <3>1, <3>3
    <3> QED
      BY <3>2, <3>3
  <2>7. IndexIsHome'
    BY <1>4, <1>7, <2>1, LoadInvParts DEF IndexIsHome, Me, Accepted
  <2>8. Unbinds(r)'
    BY <1>3, <1>4, <1>7, <2>1 DEF Unbinds, Unbinding
  <2> QED
    BY <1>10, <1>11, <2>1, <2>3, <2>6, <2>7, <2>8, LoadInvPartsNext
<1>14. CASE EraseIndex(r)
  <2>1. pc[r] = "unindex" /\ pc'[r] = "return" /\ UNCHANGED num
    BY <1>6, <1>14 DEF EraseIndex
  <2>2. \A fd \in Fds : fd # fdOf[d] => index'[fd] = index[fd]
    BY <1>14 DEF EraseIndex, TypeOK, TablesOK
  <2>3. Counted(r)' = Counted(r)
    BY <1>4, <1>7, <2>1 DEF Counted, Me
  <2>4. Balanced'
    BY <1>9, <2>1, <2>3, LoadInvParts DEF Balanced
  <2>5. \A c \in Accepted : object[c] # "freed" => fdOf[c] # fdOf[d]
    <3>1. \A c \in Accepted : object[c] # "freed" => sock[fdOf[c]] = c /\ c # 0
      BY <1>2 DEF LifeInv
    <3> QED
      BY <1>3, <3>1
  <2>6. IndexIsHome'
    BY <1>2, <1>4, <1>7, <2>2, <2>5, LoadInvParts DEF IndexIsHome, Me, Accepted
  <2>7. Unbinds(r)'
    BY <2>1 DEF Unbinds, Unbinding
  <2>8. \A s \in Subs : s # r /\ Unbinding(s) => fdOf[at[s]] \in Fds /\ fdOf[at[s]] # fdOf[d]
    BY <1>2, <1>3 DEF Unbinding, Deleting, PointerInv
  <2> QED
    BY <1>10, <1>11, <2>1, <2>2, <2>4, <2>6, <2>7, <2>8, LoadInvPartsNext
<1> QED
  BY <1>12, <1>13, <1>14
LEMMA ElseBalances ==
    ASSUME LoadInv, UNCHANGED <<fdOf, sock, object, home, index, num, threads>>
    PROVE  LoadInv'
<1>1. UNCHANGED <<pc, at, load, slot>>
  BY DEF threads
<1>2. \A r \in Subs : Counted(r)' = Counted(r)
  BY <1>1 DEF Counted, Me
<1> QED
  BY <1>1, <1>2 DEF LoadInv, Unbinding, Me, Accepted

LEMMA StepBalances ==
    ASSUME ConnInv, BalanceInv, Step, raced' = (raced \/ Overlap')
    PROVE  BalanceInv'
<1> SUFFICES ASSUME ~ raced' PROVE LoadInv'
  BY DEF BalanceInv
<1>1. ~ Overlap /\ ~ Overlap' /\ LoadInv
  BY DEF BalanceInv
<1>2. CASE Main
  BY <1>1, <1>2, AcceptBalances, MainBalances
<1>3. ASSUME NEW r \in Subs, SubReactor(r) PROVE LoadInv'
  <2>1. CASE EraseConnection(r)
    BY <1>1, <2>1, EraseBalances
  <2>2. CASE LoadNum(r) \/ DecreaseConnection(r) \/ EraseIndex(r)
    BY <1>1, <2>2, UnbindBalances
  <2> QED
    BY <1>1, <1>3, <2>1, <2>2, LoopBalances DEF SubReactor
<1>4. ASSUME NEW c \in Conns, Arrive(c) \/ HangUp(c) PROVE LoadInv'
  BY <1>1, <1>4, ElseBalances DEF Arrive, HangUp, objects, tables
<1>5. CASE TableRace
  BY <1>1, <1>5, ElseBalances DEF TableRace, kernel, objects, tables
<1> QED
  BY <1>2, <1>3, <1>4, <1>5 DEF Step

(* As long as no deletion overlaps an accept, the load of every reactor is *)
(* the number of the connections that are bound to it.                     *)
THEOREM LoadsAreRight == Spec => []LoadCountsBound
<1>1. Init => BalanceInv
  <2> SUFFICES ASSUME Init PROVE BalanceInv
    OBVIOUS
  <2>1. Accepted = {} /\ Len(fdOf) = 0 /\ pc[0] = "accept"
    BY Ranges, EmptySeq DEF Init, Accepted
  <2>2. \A r \in Subs : pc[r] = "loop" /\ num[r] = 0 /\ Counted(r) = {}
    BY <2>1, Ranges DEF Init, Counted
  <2>3. \A r \in Subs : num[r] = Cardinality(Counted(r))
    BY <2>2, FS_EmptySet
  <2>4. \A r \in Subs : ~ Unbinding(r)
    BY <2>2 DEF Unbinding
  <2>5. LoadInv
    BY <2>1, <2>3, <2>4 DEF LoadInv
  <2> QED
    BY <2>1, <2>5 DEF BalanceInv, Overlap
<1>2. ConnInv /\ BalanceInv /\ [Next]_vars => BalanceInv'
  <2>1. ASSUME ConnInv, BalanceInv, Next PROVE BalanceInv'
    BY <2>1, StepBalances DEF Next
  <2>2. ASSUME BalanceInv, UNCHANGED vars PROVE BalanceInv'
    <3>1. UNCHANGED <<fdOf, sock, object, home, index, num, threads, raced>>
      BY <2>2 DEF vars, kernel, objects, tables
    <3>2. LoadInv => LoadInv'
      BY <3>1, ElseBalances
    <3>3. Overlap' = Overlap
      BY <3>1 DEF Overlap, threads
    <3> QED
      BY <2>2, <3>1, <3>2, <3>3 DEF BalanceInv
  <2> QED
    BY <2>1, <2>2
<1>3. BalanceInv => LoadCountsBound
  BY DEF BalanceInv, LoadInv, LoadCountsBound
<1> QED
  BY <1>1, <1>2, <1>3, ConnSafe, PTL DEF Spec
=============================================================================
