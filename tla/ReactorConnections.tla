------------------------ MODULE ReactorConnections ------------------------
(***************************************************************************)
(* Connections of TcpServer.  The main reactor (thread 0) accepts; every   *)
(* connection is bound to one sub-reactor (threads 1..Reactors), whose     *)
(* loop reads it and destroys it.  The tables of connections, of bindings  *)
(* and of wrappers in the client pool are shared by all threads and have   *)
(* no lock; the connection is in the epoll set of its reactor before it is *)
(* in any of them.                                                         *)
(*                                                                         *)
(* A step is one access to a shared table, one system call, or the code of *)
(* one callback between two such accesses.  Messages are counted in parts: *)
(* a part is what one call of ReadNonBlocking asks for, a header or a rest.*)
(***************************************************************************)
EXTENDS Integers, Sequences, FiniteSets

CONSTANTS
    Fds,        \* file descriptors the kernel hands out
    Reactors,   \* how many sub-reactors there are
    MaxConns,   \* bound: connections accepted
    MaxInput    \* bound: unread parts of one connection

ASSUME ReactorsAssumption == Reactors \in Nat \ {0}
ASSUME ConnBoundsAssumption == MaxConns \in Nat /\ MaxInput \in Nat

VARIABLES
    fdOf,         \* fdOf[c]: the descriptor connection c was accepted with
    sock,         \* sock[fd]: the connection whose socket fd is, 0 if closed
    input,        \* input[c]: unread parts in the socket's buffer
    hup,          \* the connections whose client has closed its end
    ready,        \* ready[r]: the ready list of the epoll instance of r
    object,       \* object[c]: the Connection with its Channel
    home,         \* home[c]: the reactor c is bound to, 0 before
    callback,     \* the connections whose read callback is set
    closed,       \* the connections whose state is State::Closed
    deaf,         \* the connections whose read_length has stuck at 0
    connections,  \* TcpServer::connections, by descriptor
    wrappers,     \* SyncDriveClientPool::connections, by descriptor
    index,        \* reactor_index_of_connection, 0 where absent
    num,          \* connection_num
    pc,           \* pc[t]: where thread t is
    at,           \* at[t]: the connection thread t is busy with
    load,         \* load[t]: the connection_num thread t has read
    slot,         \* slot[r]: the index r has read
    batch,        \* batch[r]: what is left of the active channels r loops over
    up,           \* FALSE once the process has crashed
    raced         \* history: a deletion has overlapped an accept

kernel  == <<fdOf, sock, input, hup, ready>>
objects == <<object, home, callback, closed, deaf>>
tables  == <<connections, wrappers, index, num>>
threads == <<pc, at, load, slot, batch>>
vars    == <<kernel, objects, tables, threads, up, raced>>

Conns   == 1..MaxConns
Subs    == 1..Reactors
Threads == 0..Reactors

Accepting == {"accept", "bind", "count", "index", "register", "enableET",
              "setOnRecv", "insert", "lookup", "add"}
Deleting  == {"find", "erase", "load", "store", "unindex"}
Looping   == {"loop", "recv", "dispatch", "return", "dead"}

Labels    == Accepting \cup Deleting \cup Looping

KernelOK ==
    /\ fdOf \in Seq(Fds) /\ Len(fdOf) <= MaxConns
    /\ sock \in [Fds -> 0..MaxConns]
    /\ input \in [Conns -> 0..MaxInput]
    /\ hup \subseteq Conns
    /\ ready \in [Subs -> SUBSET Conns]

ObjectsOK ==
    /\ object \in [Conns -> {"none", "alive", "freed"}]
    /\ home \in [Conns -> Threads]
    /\ callback \subseteq Conns /\ closed \subseteq Conns /\ deaf \subseteq Conns

TablesOK ==
    /\ connections \in [Fds -> 0..MaxConns]
    /\ wrappers \in [Fds -> 0..MaxConns]
    /\ index \in [Fds -> Threads]
    /\ num \in [Subs -> Int]

ThreadsOK ==
    /\ pc \in [Threads -> Labels]
    /\ at \in [Threads -> 0..MaxConns]
    /\ load \in [Threads -> Int]
    /\ slot \in [Subs -> Threads]
    /\ batch \in [Subs -> SUBSET Conns]

TypeOK ==
    /\ KernelOK /\ ObjectsOK /\ TablesOK /\ ThreadsOK
    /\ up \in BOOLEAN /\ raced \in BOOLEAN

-----------------------------------------------------------------------------
(* The constructors of TcpServer and ReactorPool, and Start: every thread  *)
(* runs its loop.                                                          *)
Init ==
    /\ fdOf = <<>>
    /\ sock = [fd \in Fds |-> 0]
    /\ input = [c \in Conns |-> 0]
    /\ hup = {}
    /\ ready = [r \in Subs |-> {}]
    /\ object = [c \in Conns |-> "none"]
    /\ home = [c \in Conns |-> 0]
    /\ callback = {} /\ closed = {} /\ deaf = {}
    /\ connections = [fd \in Fds |-> 0]
    /\ wrappers = [fd \in Fds |-> 0]
    /\ index = [fd \in Fds |-> 0]
    /\ num = [r \in Subs |-> 0]
    /\ pc = [t \in Threads |-> IF t = 0 THEN "accept" ELSE "loop"]
    /\ at = [t \in Threads |-> 0]
    /\ load = [t \in Threads |-> 0]
    /\ slot = [r \in Subs |-> 0]
    /\ batch = [r \in Subs |-> {}]
    /\ up = TRUE
    /\ raced = FALSE

Goto(t, label) == pc' = [pc EXCEPT ![t] = label]

Readable(c) == input[c] > 0 \/ c \in hup

(* epoll_ctl(ADD or MOD), and the arrival of data: c gets on the ready     *)
(* list of its reactor, where it may be already.                           *)
Report(c) == ready' = [ready EXCEPT ![home[c]] = @ \cup {c}]

(* Destroying the Connection d, if there is one: ~Channel takes it out of  *)
(* the epoll instance, ~Socket closes the descriptor.                      *)
Destroy(d) ==
    /\ object' = [c \in Conns |-> IF c = d THEN "freed" ELSE object[c]]
    /\ ready' = [r \in Subs |-> ready[r] \ {d}]
    /\ sock' = [fd \in Fds |-> IF d # 0 /\ fd = fdOf[d] THEN 0 ELSE sock[fd]]

(* As in ReplySender, an operator named X_How is X with a mistake.         *)

-----------------------------------------------------------------------------
(* The main reactor: AcceptConnection, NewConnection.                      *)
Me == at[0]

Accept(fd) ==
    /\ pc[0] = "accept"
    /\ sock[fd] = 0
    /\ Len(fdOf) < MaxConns
    /\ fdOf' = Append(fdOf, fd)
    /\ sock' = [sock EXCEPT ![fd] = Len(fdOf) + 1]
    /\ at' = [at EXCEPT ![0] = Len(fdOf) + 1]
    /\ Goto(0, "bind")
    /\ UNCHANGED <<input, hup, ready, objects, tables, load, slot, batch, up>>

(* GetIndexOfAvailabelReactor: the first of the least loaded.  The load is *)
(* what IncreaseConnection adds to.                                        *)
Available(r) == \A s \in Subs : num[r] <= num[s] /\ (s < r => num[r] < num[s])

Bind ==
    /\ pc[0] = "bind"
    /\ \E r \in Subs :
          /\ Available(r)
          /\ home' = [home EXCEPT ![Me] = r]
          /\ load' = [load EXCEPT ![0] = num[r]]
    /\ Goto(0, "count")
    /\ UNCHANGED <<kernel, object, callback, closed, deaf, tables, at, slot, batch, up>>

IncreaseConnection ==
    /\ pc[0] = "count"
    /\ num' = [num EXCEPT ![home[Me]] = load[0] + 1]
    /\ Goto(0, "index")
    /\ UNCHANGED <<kernel, objects, connections, wrappers, index, at, load, slot, batch, up>>

StoreIndex ==
    /\ pc[0] = "index"
    /\ index' = [index EXCEPT ![fdOf[Me]] = home[Me]]
    /\ Goto(0, "register")
    /\ UNCHANGED <<kernel, objects, connections, wrappers, num, at, load, slot, batch, up>>

(* The constructor of Connection: EnableRead registers the channel, level  *)
(* triggered, and EnableET makes it edge triggered, which reports once     *)
(* more what can be read at that time.                                     *)
Register ==
    /\ pc[0] = "register"
    /\ object' = [object EXCEPT ![Me] = "alive"]
    /\ IF Readable(Me) THEN Report(Me) ELSE UNCHANGED ready
    /\ Goto(0, "enableET")
    /\ UNCHANGED <<fdOf, sock, input, hup, home, callback, closed, deaf, tables,
                   at, load, slot, batch, up>>

EnableET ==
    /\ pc[0] = "enableET"
    /\ IF Readable(Me) THEN Report(Me) ELSE UNCHANGED ready
    /\ Goto(0, "setOnRecv")
    /\ UNCHANGED <<fdOf, sock, input, hup, objects, tables, at, load, slot, batch, up>>

(* SetOnRecv sets the read callback; SetOnSend follows, whose callback no  *)
(* handler gets to before the connection is in the client pool.            *)
SetOnRecv ==
    /\ pc[0] = "setOnRecv"
    /\ callback' = callback \cup {Me}
    /\ Goto(0, "insert")
    /\ UNCHANGED <<kernel, object, home, closed, deaf, tables, at, load, slot, batch, up>>

(* connections[fd] = std::move(conn) destroys what was there.              *)
Insert ==
    LET fd == fdOf[Me] IN
    /\ pc[0] = "insert"
    /\ Destroy(connections[fd])
    /\ connections' = [connections EXCEPT ![fd] = Me]
    /\ Goto(0, "lookup")
    /\ UNCHANGED <<fdOf, input, hup, home, callback, closed, deaf, wrappers, index, num,
                   at, load, slot, batch, up>>

(* on_connect(connections[fd].get()): where the reactor has erased the     *)
(* entry meanwhile, operator[] makes a null one, which on_connect follows. *)
Lookup ==
    /\ pc[0] = "lookup"
    /\ up' = (connections[fdOf[Me]] # 0)
    /\ Goto(0, "add")
    /\ UNCHANGED <<kernel, objects, tables, at, load, slot, batch>>

(* AddConnection asks the Connection for its descriptor.  The reactor may  *)
(* have freed it after the lookup: this crashes, or reads what it was, or  *)
(* reads a number that is no descriptor.                                   *)
AddConnection_KeepsOld ==
    /\ pc[0] = "add"
    /\ up' \in {TRUE, object[Me] = "alive"}
    /\ \/ wrappers[fdOf[Me]] = 0 /\ wrappers' = [wrappers EXCEPT ![fdOf[Me]] = Me]
       \/ wrappers[fdOf[Me]] # 0 /\ UNCHANGED wrappers
    /\ Goto(0, "accept")
    /\ at' = [at EXCEPT ![0] = 0]
    /\ UNCHANGED <<kernel, objects, connections, index, num, load, slot, batch>>

AddConnection ==
    /\ pc[0] = "add"
    /\ up' \in {TRUE, object[Me] = "alive"}
    /\ \/ wrappers' = [wrappers EXCEPT ![fdOf[Me]] = Me]
       \/ object[Me] = "freed" /\ UNCHANGED wrappers
    /\ Goto(0, "accept")
    /\ at' = [at EXCEPT ![0] = 0]
    /\ UNCHANGED <<kernel, objects, connections, index, num, load, slot, batch>>

Main ==
    \/ \E fd \in Fds : Accept(fd)
    \/ Bind \/ IncreaseConnection \/ StoreIndex
    \/ Register \/ EnableET \/ SetOnRecv
    \/ Insert \/ Lookup \/ AddConnection

-----------------------------------------------------------------------------
(* A sub-reactor r.                                                        *)

EdgeTriggered(c) == ~ (c = Me /\ pc[0] = "enableET")

(* epoll_wait reports what is ready; a channel that is level triggered     *)
(* stays on the list.                                                      *)
Poll(r) ==
    /\ pc[r] = "loop"
    /\ batch[r] = {}
    /\ ready[r] # {}
    /\ batch' = [batch EXCEPT ![r] = {c \in ready[r] : Readable(c)}]
    /\ ready' = [ready EXCEPT ![r] = {c \in @ : Readable(c) /\ ~ EdgeTriggered(c)}]
    /\ UNCHANGED <<fdOf, sock, input, hup, objects, tables, pc, at, load, slot, up>>

(* The next of the active channels, by raw pointer.  A callback that is    *)
(* not set throws, which ends the loop: the future of the pool's task has  *)
(* the exception, and nobody looks at it.                                  *)
HandleEvent_FirstOnly(r) ==
    /\ pc[r] = "loop"
    /\ \E c \in batch[r] :
          /\ at' = [at EXCEPT ![r] = c]
          /\ batch' = [batch EXCEPT ![r] = {}]
          /\ Goto(r, IF c \in callback THEN "recv" ELSE "dead")
    /\ UNCHANGED <<kernel, objects, tables, load, slot, up>>

HandleEvent_Twice(r) ==
    /\ pc[r] = "loop"
    /\ \E c \in batch[r] :
          /\ at' = [at EXCEPT ![r] = c]
          /\ batch' = [batch EXCEPT ![r] = IF at[r] = c THEN @ \ {c} ELSE @]
          /\ Goto(r, IF c \in callback THEN "recv" ELSE "dead")
    /\ UNCHANGED <<kernel, objects, tables, load, slot, up>>

HandleEvent(r) ==
    /\ pc[r] = "loop"
    /\ \E c \in batch[r] :
          /\ at' = [at EXCEPT ![r] = c]
          /\ batch' = [batch EXCEPT ![r] = @ \ {c}]
          /\ Goto(r, IF c \in callback THEN "recv" ELSE "dead")
    /\ UNCHANGED <<kernel, objects, tables, load, slot, up>>

(* Business on a part that is there.  Which of the three it is, is what    *)
(* the header and the lengths say: a message is complete; more is asked    *)
(* for, later; or more was received than the header says, and read_length  *)
(* stays 0.  Whatever else is in the socket is not looked at.              *)
RecvPart_Blind(r) ==
    /\ pc[r] = "recv"
    /\ at[r] \notin closed \cup deaf
    /\ input' = [input EXCEPT ![at[r]] = @ - 1]
    /\ Goto(r, "dispatch")
    /\ UNCHANGED <<fdOf, sock, hup, ready, objects, tables, at, load, slot, batch, up>>

RecvPart(r) ==
    /\ pc[r] = "recv"
    /\ at[r] \notin closed \cup deaf
    /\ input[at[r]] > 0
    /\ input' = [input EXCEPT ![at[r]] = @ - 1]
    /\ \/ Goto(r, "dispatch") /\ UNCHANGED deaf
       \/ Goto(r, "loop") /\ UNCHANGED deaf
       \/ Goto(r, "loop") /\ deaf' = deaf \cup {at[r]}
    /\ UNCHANGED <<fdOf, sock, hup, ready, object, home, callback, closed, tables,
                   at, load, slot, batch, up>>

(* Recv returns 0 without a read, or after a read that says EAGAIN.        *)
RecvNothing(r) ==
    /\ pc[r] = "recv"
    /\ at[r] \notin closed
    /\ at[r] \in deaf \/ ~ Readable(at[r])
    /\ Goto(r, "loop")
    /\ UNCHANGED <<kernel, objects, tables, at, load, slot, batch, up>>

(* EOF, or a connection that was closed before: Close sets the state and   *)
(* calls DeleteConnection.                                                 *)
Close_SocketFirst(r) ==
    LET c == at[r] IN
    /\ pc[r] = "recv"
    /\ c \in closed \/ (c \notin deaf /\ c \in hup /\ input[c] = 0)
    /\ closed' = closed \cup {c}
    /\ sock' = [sock EXCEPT ![fdOf[c]] = 0]
    /\ Goto(r, "find")
    /\ UNCHANGED <<fdOf, input, hup, ready, object, home, callback, deaf, tables,
                   at, load, slot, batch, up>>

Close(r) ==
    LET c == at[r] IN
    /\ pc[r] = "recv"
    /\ c \in closed \/ (c \notin deaf /\ c \in hup /\ input[c] = 0)
    /\ closed' = closed \cup {c}
    /\ Goto(r, "find")
    /\ UNCHANGED <<kernel, object, home, callback, deaf, tables, at, load, slot, batch, up>>

(* ProcessMessageCallback: the wrapper the client pool has for the         *)
(* descriptor.  Without one the handler follows a null pointer.  Through   *)
(* the right one it returns, or throws at a message shorter than a header, *)
(* which nobody catches and ends the loop.  Through one of a connection    *)
(* that is gone it follows a dangling pointer: it may crash, throw, or     *)
(* reply to nobody.                                                        *)
ProcessMessage(r) ==
    LET w == wrappers[fdOf[at[r]]] IN
    /\ pc[r] = "dispatch"
    /\ \/ w # 0 /\ Goto(r, "loop") /\ UNCHANGED up
       \/ w # at[r] /\ Goto(r, "dead") /\ up' = FALSE
       \/ w # 0 /\ Goto(r, "dead") /\ UNCHANGED up
    /\ UNCHANGED <<kernel, objects, tables, at, load, slot, batch>>

(* DeleteConnection.  on_delete does nothing: no descriptor has a client,  *)
(* because nothing ever writes fd_clients_map.                             *)
FindConnection(r) ==
    /\ pc[r] = "find"
    /\ Goto(r, IF connections[fdOf[at[r]]] = 0 THEN "loop" ELSE "erase")
    /\ UNCHANGED <<kernel, objects, tables, at, load, slot, batch, up>>

EraseConnection(r) ==
    LET fd == fdOf[at[r]] IN
    /\ pc[r] = "erase"
    /\ Destroy(connections[fd])
    /\ connections' = [connections EXCEPT ![fd] = 0]
    /\ Goto(r, "load")
    /\ UNCHANGED <<fdOf, input, hup, home, callback, closed, deaf, wrappers, index, num,
                   at, load, slot, batch, up>>

(* ReactorPool::RemoveConnection, by descriptor: by now the kernel may     *)
(* have handed it out again.                                               *)
LoadNum(r) ==
    LET i == index[fdOf[at[r]]] IN
    /\ pc[r] = "load"
    /\ \/ i = 0 /\ Goto(r, "return") /\ UNCHANGED <<load, slot>>
       \/ /\ i # 0
          /\ slot' = [slot EXCEPT ![r] = i]
          /\ load' = [load EXCEPT ![r] = num[i]]
          /\ Goto(r, "store")
    /\ UNCHANGED <<kernel, objects, tables, at, batch, up>>

DecreaseConnection_ByNo(r) ==
    /\ pc[r] = "store"
    /\ num' = [i \in Subs |-> IF i = slot[r] - 1 THEN load[r] - 1 ELSE num[i]]
    /\ Goto(r, "unindex")
    /\ UNCHANGED <<kernel, objects, connections, wrappers, index, at, load, slot, batch, up>>

DecreaseConnection(r) ==
    /\ pc[r] = "store"
    /\ num' = [num EXCEPT ![slot[r]] = load[r] - 1]
    /\ Goto(r, "unindex")
    /\ UNCHANGED <<kernel, objects, connections, wrappers, index, at, load, slot, batch, up>>

EraseIndex(r) ==
    /\ pc[r] = "unindex"
    /\ index' = [index EXCEPT ![fdOf[at[r]]] = 0]
    /\ Goto(r, "return")
    /\ UNCHANGED <<kernel, objects, connections, wrappers, num, at, load, slot, batch, up>>

(* Back in Channel::HandleEvent, which reads ready_events of the channel   *)
(* that has just been freed.                                               *)
Return(r) ==
    /\ pc[r] = "return"
    /\ up' \in BOOLEAN
    /\ Goto(r, "loop")
    /\ UNCHANGED <<kernel, objects, tables, at, load, slot, batch>>

SubReactor(r) ==
    \/ Poll(r) \/ HandleEvent(r)
    \/ RecvPart(r) \/ RecvNothing(r) \/ Close(r) \/ ProcessMessage(r)
    \/ FindConnection(r) \/ EraseConnection(r)
    \/ LoadNum(r) \/ DecreaseConnection(r) \/ EraseIndex(r) \/ Return(r)

-----------------------------------------------------------------------------
(* Clients and the kernel.                                                 *)
IsOpen(c) == c <= Len(fdOf) /\ sock[fdOf[c]] = c

Arrive(c) ==
    /\ IsOpen(c) /\ c \notin hup
    /\ input[c] < MaxInput
    /\ input' = [input EXCEPT ![c] = @ + 1]
    /\ IF object[c] = "alive" THEN Report(c) ELSE UNCHANGED ready
    /\ UNCHANGED <<fdOf, sock, hup, objects, tables, threads, up>>

HangUp(c) ==
    /\ IsOpen(c) /\ c \notin hup
    /\ hup' = hup \cup {c}
    /\ IF object[c] = "alive" THEN Report(c) ELSE UNCHANGED ready
    /\ UNCHANGED <<fdOf, sock, input, objects, tables, threads, up>>

(* The hash tables are accessed without a lock: two accesses to one table, *)
(* one of them a write, may do anything.  The models take it that either   *)
(* they happen one after the other or the process crashes.                 *)
Accesses(label) ==
    [table |-> CASE label \in {"insert", "lookup", "find", "erase"} -> "connections"
                 [] label \in {"index", "load", "unindex"} -> "index"
                 [] label \in {"add", "dispatch"} -> "wrappers"
                 [] OTHER -> "none",
     writes |-> label \in {"insert", "lookup", "erase", "index", "unindex", "add"}]

Conflict(a, b) == a.table = b.table /\ a.table # "none" /\ (a.writes \/ b.writes)

TableRace ==
    /\ \E s, t \in Threads : s # t /\ Conflict(Accesses(pc[s]), Accesses(pc[t]))
    /\ up' = FALSE
    /\ UNCHANGED <<kernel, objects, tables, threads>>

(* A deletion runs while a connection is being accepted.                   *)
Overlap == pc[0] # "accept" /\ \E r \in Subs : pc[r] \in Deleting

Step ==
    \/ Main
    \/ \E r \in Subs : SubReactor(r)
    \/ \E c \in Conns : Arrive(c) \/ HangUp(c)
    \/ TableRace

Next == up /\ Step /\ raced' = (raced \/ Overlap')

Spec == Init /\ [][Next]_vars

(* Threads keep being scheduled; clients need not do anything.             *)
FairSpec ==
    /\ Spec
    /\ WF_vars(up /\ Main /\ raced' = (raced \/ Overlap'))
    /\ \A r \in Subs : WF_vars(up /\ SubReactor(r) /\ raced' = (raced \/ Overlap'))

-----------------------------------------------------------------------------
(* The raw pointers a loop got from epoll are those of live channels until *)
(* it has used them: no callback that runs before one of them, and no      *)
(* other thread, frees it; and no channel is handled on a thread that is   *)
(* not its own (poller.cc:21-42, event_loop.cc:12-18).                     *)
BatchAlive ==
    \A r \in Subs :
        /\ \A c \in batch[r] : object[c] = "alive" /\ home[c] = r
        /\ pc[r] \in {"recv", "dispatch", "find", "erase"} => object[at[r]] = "alive"

(* The table, the kernel and the objects agree: an entry is the open       *)
(* connection of its descriptor, and once NewConnection is done every open *)
(* connection is in the table or was closed before it was put there        *)
(* (tcp_server.cc:24-55).                                                  *)
TableMatchesSockets ==
    /\ \A fd \in Fds : connections[fd] # 0 =>
          connections[fd] = sock[fd] /\ object[sock[fd]] = "alive"
    /\ \A fd \in Fds : sock[fd] \notin {0, Me} => connections[fd] = sock[fd]

(* Once on_connect is done, a message of a connection finds the wrapper of *)
(* that connection, although the pool never forgets the ones of earlier    *)
(* connections with the same descriptor (sync_drive_client_pool.cc:23-27). *)
MessageFindsItsWrapper ==
    \A r \in Subs : pc[r] = "dispatch" /\ at[r] # Me => wrappers[fdOf[at[r]]] = at[r]

(* Loads count the connections that are bound, as long as no deletion has  *)
(* overlapped an accept (reactor_pool.cc:28-51).                           *)
Counted(r) ==
    {c \in 1..Len(fdOf) :
        /\ home[c] = r
        /\ ~ (c = Me /\ pc[0] \in {"bind", "count"})
        /\ object[c] = "freed" => at[r] = c /\ pc[r] \in {"load", "store"}}

LoadCountsBound == ~ raced => \A r \in Subs : num[r] = Cardinality(Counted(r))

(* A connection is destroyed by the thread of its own reactor only, at the *)
(* end of its own event.                                                   *)
OwnReactorFrees ==
    [][\A c \in Conns :
          object[c] = "alive" /\ object'[c] = "freed" =>
              pc[home[c]] = "erase" /\ at[home[c]] = c]_vars

(* A connection whose EOF was reported when nothing else was left to read  *)
(* is released, if its reactor's loop goes on.                             *)
EofReported(c) ==
    /\ c \in hup \ (deaf \cup closed)
    /\ input[c] = 0
    /\ c # Me
    /\ home[c] # 0 /\ c \in ready[home[c]] \cup batch[home[c]]

HungUpReleased ==
    \A c \in Conns :
        EofReported(c) ~> (object[c] = "freed" \/ pc[home[c]] = "dead" \/ ~up)

(* The inductive invariant behind the safety properties: which connections *)
(* exist and where each is in its life; what the table has; where the      *)
(* reactors may have a pointer to one.                                     *)
Accepted == 1..Len(fdOf)

MainInv ==
    /\ Me = IF pc[0] = "accept" THEN 0 ELSE Len(fdOf)
    /\ pc[0] \in Accepting
    /\ pc[0] # "accept" => Me \in Accepted
    /\ \A c \in Accepted : home[c] = 0 => c = Me /\ pc[0] = "bind"
    /\ pc[0] \in {"bind", "count", "index", "register"} => object[Me] = "none"
    /\ pc[0] \in {"enableET", "setOnRecv", "insert"} => object[Me] = "alive"
    /\ pc[0] \in Accepting \ {"accept", "lookup", "add"} => connections[fdOf[Me]] = 0
    /\ pc[0] # "accept" =>
          \A c \in Accepted \ {Me} : object[c] = "alive" => fdOf[c] # fdOf[Me]

LifeInv ==
    /\ \A c \in Conns \ Accepted : object[c] = "none"
    /\ \A c \in Accepted :
          object[c] = "none" => c = Me /\ pc[0] \in {"bind", "count", "index", "register"}
    /\ \A c \in Accepted : sock[fdOf[c]] = c <=> object[c] # "freed"
    /\ \A fd \in Fds : sock[fd] # 0 => sock[fd] \in Accepted /\ fdOf[sock[fd]] = fd

TableInv ==
    /\ \A fd \in Fds : connections[fd] # 0 =>
          /\ connections[fd] \in Accepted
          /\ fdOf[connections[fd]] = fd
          /\ object[connections[fd]] = "alive"
    /\ \A c \in Accepted \ {Me} : object[c] = "alive" =>
          connections[fdOf[c]] = c /\ wrappers[fdOf[c]] = c
    /\ pc[0] \in {"lookup", "add"} /\ object[Me] = "alive" => connections[fdOf[Me]] = Me

PointerInv ==
    \A r \in Subs :
        /\ \A c \in ready[r] \cup batch[r] : object[c] = "alive" /\ home[c] = r
        /\ pc[r] \in Deleting \cup Looping
        /\ pc[r] \in Deleting \cup {"recv", "dispatch"} => at[r] \in Accepted
        /\ pc[r] \in {"recv", "dispatch", "find", "erase"} =>
              object[at[r]] = "alive" /\ home[at[r]] = r /\ at[r] \notin batch[r]
        /\ pc[r] = "erase" => connections[fdOf[at[r]]] = at[r]
        /\ pc[r] = "store" => slot[r] # 0

ConnInv == TypeOK /\ MainInv /\ LifeInv /\ TableInv /\ PointerInv

(* ... and the one behind LoadCountsBound.                                 *)
Unbinding(r) == pc[r] \in {"load", "store", "unindex"}

LoadInv ==
    /\ pc[0] = "count" => load[0] = num[home[Me]]
    /\ \A c \in Accepted :
          object[c] # "freed" /\ ~ (c = Me /\ pc[0] \in {"bind", "count", "index"}) =>
              index[fdOf[c]] = home[c]
    /\ \A r \in Subs : Unbinding(r) =>
          /\ object[at[r]] = "freed" /\ home[at[r]] = r
          /\ sock[fdOf[at[r]]] = 0
          /\ \A s \in Subs \ {r} : Unbinding(s) => fdOf[at[s]] # fdOf[at[r]]
          /\ pc[r] = "load" => index[fdOf[at[r]]] = r
          /\ pc[r] = "store" => slot[r] = r /\ load[r] = num[r]
    /\ \A r \in Subs : num[r] = Cardinality(Counted(r))

BalanceInv == (Overlap => raced) /\ (~ raced => LoadInv)
=============================================================================
