----------------------------- MODULE ReplySender -----------------------------
(***************************************************************************)
(* The reply path of SyncDriveServer.  A handler that has serialized a     *)
(* reply calls Connection::Send; SendMessageCallback copies it into a      *)
(* SendPackage, which names its client by file descriptor only, and pushes *)
(* it on sender_queue.  One thread, SenderStart, takes the package at the  *)
(* front by raw pointer, leaves the lock, writes to the descriptor until   *)
(* nothing is left, the socket is full or an error comes back, and locks   *)
(* again to pop.                                                           *)
(*                                                                         *)
(* Around it: the connections come and go on the reactor threads, the      *)
(* kernel hands a closed descriptor out again, and a peer may vanish.      *)
(***************************************************************************)
EXTENDS Naturals, Sequences

CONSTANTS
    Fds,          \* file descriptors the kernel hands out to connections
    Lens,         \* lengths of a serialized reply up to its first NUL byte
    MaxReplies,   \* bound: replies the handlers send
    MaxConns      \* bound: connections accepted

ASSUME LensAssumption == Lens \subseteq Nat
ASSUME BoundsAssumption == MaxReplies \in Nat /\ MaxConns \in Nat

VARIABLES
    sock,       \* sock[fd]: the connection whose socket fd is, 0 if closed
    accepted,   \* how many connections have been accepted
    gone,       \* the connections whose peer has vanished
    packages,   \* every SendPackage ever queued, in the order of the pushes
    queue,      \* sender_queue, as indices of packages
    package,    \* the sender's raw pointer, 0 before its first use
    fail,       \* the sender's local flag
    pc,         \* where the sender thread is
    stop,       \* sender_stop, which no constructor initialises
    up,         \* FALSE once a signal has killed the process
    wire,       \* history: the pieces the sender wrote
    dest,       \* history: dest[i] is the connection that got wire[i]
    lost        \* history: the packages popped after a failed write

conns   == <<sock, accepted, gone>>
sender  == <<queue, package, fail, pc>>
history == <<wire, dest, lost>>
vars    == <<conns, packages, sender, stop, up, history>>

Conns == 1..MaxConns

SendPackage == [fd : Fds, to : Conns, size : Lens, offset : Nat, left : Nat]

Piece == [reply : Nat, from : Nat, upto : Nat]

TypeOK ==
    /\ sock \in [Fds -> 0..MaxConns]
    /\ accepted \in 0..MaxConns
    /\ gone \subseteq Conns
    /\ packages \in Seq(SendPackage)
    /\ queue \in Seq(Nat)
    /\ package \in Nat
    /\ fail \in BOOLEAN
    /\ pc \in {"idle", "asleep", "writing", "popping", "returned"}
    /\ stop \in BOOLEAN
    /\ up \in BOOLEAN
    /\ wire \in Seq(Piece)
    /\ dest \in Seq(Conns)
    /\ lost \subseteq Nat

-----------------------------------------------------------------------------
(* The thread is started by the constructor, before anything accepts.      *)
(* std::atomic<bool> sender_stop has an indeterminate value (C++17).       *)
Init ==
    /\ sock = [fd \in Fds |-> 0]
    /\ accepted = 0
    /\ gone = {}
    /\ packages = <<>>
    /\ queue = <<>>
    /\ package = 0
    /\ fail = FALSE
    /\ pc = "idle"
    /\ stop \in BOOLEAN
    /\ up = TRUE
    /\ wire = <<>>
    /\ dest = <<>>
    /\ lost = {}

(* The main reactor accepts a connection; the kernel picks a free fd.      *)
Open(fd) ==
    /\ sock[fd] = 0
    /\ accepted < MaxConns
    /\ accepted' = accepted + 1
    /\ sock' = [sock EXCEPT ![fd] = accepted + 1]
    /\ UNCHANGED <<gone, packages, sender, stop, up, history>>

(* A reactor destroys the Connection, whose Socket closes the descriptor.  *)
(* Nothing is said to the sender.                                          *)
Close(fd) ==
    /\ sock[fd] # 0
    /\ sock' = [sock EXCEPT ![fd] = 0]
    /\ UNCHANGED <<accepted, gone, packages, sender, stop, up, history>>

(* The client of an open connection resets it.                             *)
PeerGone(c) ==
    /\ \E fd \in Fds : sock[fd] = c
    /\ c \notin gone
    /\ gone' = gone \cup {c}
    /\ UNCHANGED <<sock, accepted, packages, sender, stop, up, history>>

(* Connection::Send by a handler of the connection at fd, whose state is   *)
(* Connected, and SendMessageCallback.  sender_condition_variable is not   *)
(* notified.                                                               *)
SendMessage(fd) ==
    /\ sock[fd] # 0
    /\ Len(packages) < MaxReplies
    /\ \E n \in Lens :
          packages' = Append(packages, [fd |-> fd, to |-> sock[fd], size |-> n,
                                        offset |-> 0, left |-> n])
    /\ queue' = Append(queue, Len(packages) + 1)
    /\ UNCHANGED <<conns, package, fail, pc, stop, up, history>>

-----------------------------------------------------------------------------
(* An operator named X_How is X with a mistake, the one How hints at: the  *)
(* specification never uses it, and a property is worth checking if it     *)
(* fails once X_How takes the place of X.                                  *)
(*                                                                         *)
(* SenderStart, under sender_queue_mutex: the wait's predicate is tested   *)
(* before the thread blocks and after it is woken, so all three actions    *)
(* start from "idle".                                                      *)
SenderReturn ==
    /\ pc = "idle"
    /\ stop
    /\ pc' = "returned"
    /\ UNCHANGED <<conns, packages, queue, package, fail, stop, up, history>>

SenderSleep_Unchecked ==
    pc = "idle" /\ pc' = "asleep"
    /\ UNCHANGED <<conns, packages, queue, package, fail, stop, up, history>>

SenderSleep ==
    /\ pc = "idle"
    /\ ~stop
    /\ queue = <<>>
    /\ pc' = "asleep"
    /\ UNCHANGED <<conns, packages, queue, package, fail, stop, up, history>>

SenderTake_Pops ==
    /\ pc = "idle" /\ ~stop /\ queue # <<>>
    /\ package' = Head(queue) /\ queue' = Tail(queue)
    /\ fail' = FALSE /\ pc' = "writing"
    /\ UNCHANGED <<conns, packages, stop, up, history>>

SenderTake ==
    /\ pc = "idle"
    /\ ~stop
    /\ queue # <<>>
    /\ package' = Head(queue)
    /\ fail' = FALSE
    /\ pc' = "writing"
    /\ UNCHANGED <<conns, packages, queue, stop, up, history>>

(* wait() may return without a notification; no code ever notifies.        *)
SpuriousWake ==
    /\ pc = "asleep"
    /\ pc' = "idle"
    /\ UNCHANGED <<conns, packages, queue, package, fail, stop, up, history>>

(* What n written bytes do to the package's counters.                      *)
Wrote_NoOffset(p, n) == [p EXCEPT !.left = @ - n]

Wrote_CountsNul(p, n) == [p EXCEPT !.left = @ - (n + 1), !.offset = @ + n]

Wrote(p, n) == [p EXCEPT !.left = @ - n, !.offset = @ + n]

(* write() outside the lock: some of the bytes that are left go into the   *)
(* socket that the descriptor denotes NOW, whoever it was when the package *)
(* was queued.  A peer that has vanished does not stop the first write.    *)
Write ==
    LET p == packages[package] IN
    /\ pc = "writing"
    /\ p.left > 0
    /\ sock[p.fd] # 0
    /\ \E n \in 1..p.left :
          /\ packages' = [packages EXCEPT ![package] = Wrote(p, n)]
          /\ wire' = Append(wire, [reply |-> package, from |-> p.offset,
                                   upto |-> p.offset + n])
    /\ dest' = Append(dest, sock[p.fd])
    /\ UNCHANGED <<conns, sender, stop, up, lost>>

(* EAGAIN: the socket is full.  The package stays at the front, and the    *)
(* loop comes back to it, before any other.                                *)
WriteFull_Pops ==
    /\ pc = "writing" /\ packages[package].left > 0
    /\ sock[packages[package].fd] # 0
    /\ pc' = "popping"
    /\ UNCHANGED <<conns, packages, queue, package, fail, stop, up, history>>

WriteFull_Fails ==
    /\ pc = "writing" /\ packages[package].left > 0
    /\ sock[packages[package].fd] # 0
    /\ pc' = "popping" /\ fail' = TRUE
    /\ UNCHANGED <<conns, packages, queue, package, stop, up, history>>

WriteFull ==
    LET p == packages[package] IN
    /\ pc = "writing"
    /\ p.left > 0
    /\ sock[p.fd] # 0
    /\ pc' = "idle"
    /\ UNCHANGED <<conns, packages, queue, package, fail, stop, up, history>>

(* EBADF on a closed descriptor, ECONNRESET when the peer has vanished.    *)
WriteError_Retries ==
    /\ pc = "writing" /\ packages[package].left > 0
    /\ sock[packages[package].fd] \in gone \cup {0}
    /\ pc' = "idle"
    /\ UNCHANGED <<conns, packages, queue, package, fail, stop, up, history>>

WriteError ==
    LET p == packages[package] IN
    /\ pc = "writing"
    /\ p.left > 0
    /\ sock[p.fd] \in gone \cup {0}
    /\ fail' = TRUE
    /\ pc' = "popping"
    /\ UNCHANGED <<conns, packages, queue, package, stop, up, history>>

(* EPIPE comes with SIGPIPE, which nothing in the program handles.         *)
SigPipe ==
    LET p == packages[package] IN
    /\ pc = "writing"
    /\ p.left > 0
    /\ sock[p.fd] \in gone
    /\ up' = FALSE
    /\ UNCHANGED <<conns, packages, sender, stop, history>>

WriteEnd ==
    /\ pc = "writing"
    /\ packages[package].left = 0
    /\ pc' = "popping"
    /\ UNCHANGED <<conns, packages, queue, package, fail, stop, up, history>>

(* sender_queue.pop() under the lock: whatever is at the front goes.       *)
Pop ==
    /\ pc = "popping"
    /\ queue' = Tail(queue)
    /\ lost' = IF fail THEN lost \cup {package} ELSE lost
    /\ pc' = "idle"
    /\ UNCHANGED <<conns, packages, package, fail, stop, up, wire, dest>>

Sender ==
    \/ SenderReturn \/ SenderSleep \/ SenderTake
    \/ Write \/ WriteFull \/ WriteError \/ SigPipe \/ WriteEnd \/ Pop

Connections ==
    \/ \E fd \in Fds : Open(fd) \/ Close(fd) \/ SendMessage(fd)
    \/ \E c \in Conns : PeerGone(c)

Next == up /\ (Connections \/ Sender \/ SpuriousWake)

Spec == Init /\ [][Next]_vars

(* The sender is an ordinary thread: the scheduler keeps running it.       *)
FairSpec == Spec /\ WF_vars(up /\ Sender)

-----------------------------------------------------------------------------
Done == Len(packages) - Len(queue)

Log  == [i \in 1..Len(packages) |-> packages[i].size]
Pos  == IF queue = <<>> THEN 0 ELSE packages[Head(queue)].offset

Fifo == INSTANCE ReplyFifo WITH log <- Log, done <- Done, pos <- Pos

(* The sender implements the abstract FIFO: no interleaving of pushes with *)
(* its unlocked writes and its second lock makes it repeat, skip or        *)
(* reorder bytes, or pop another package than the one it worked on.        *)
ImplementsFifo == Fifo!Spec

(* On the wire every reply is contiguous and the replies are in order, and *)
(* one that was popped and not given up was written to its last byte.      *)
BytesInOrder == Fifo!Contiguous /\ Fifo!Complete

(* The raw pointer taken under the lock still is the front of the queue    *)
(* while the sender uses it without the lock, so the package is alive and  *)
(* pop() removes that package.                                             *)
FrontPinned ==
    pc \in {"writing", "popping"} => queue # <<>> /\ package = Head(queue)

IsOpen(c) == \E fd \in Fds : sock[fd] = c

(* A client that is still connected and whose peer is there lost nothing:  *)
(* none of its replies was given up, and none of their bytes went to       *)
(* another connection.                                                     *)
OpenClientServed ==
    \A r \in 1..Done :
        IsOpen(packages[r].to) /\ packages[r].to \notin gone =>
            /\ r \notin lost
            /\ \A i \in 1..Len(wire) : wire[i].reply = r => dest[i] = packages[r].to

(* A package for a descriptor that stays closed cannot block the queue:    *)
(* it leaves the front, if the sender is awake.                            *)
AtFront(r) == queue # <<>> /\ Head(queue) = r

DeadFrontDropped ==
    \A r \in 1..MaxReplies :
        (AtFront(r) /\ ~stop /\ pc # "asleep" /\ sock[packages[r].fd] = 0)
            ~> (~AtFront(r) \/ sock[packages[r].fd] # 0 \/ ~up)

(* As long as the sender is awake it does not go to sleep on a package: a  *)
(* reply that finds it awake is popped, if the clients keep reading, so    *)
(* that a socket that is open takes bytes again and again.                 *)
Queued(r) == \E i \in 1..Len(queue) : queue[i] = r

ClientsRead == SF_vars(up /\ Write)

AwakeSenderDrains ==
    ClientsRead =>
        \A r \in 1..MaxReplies :
            (Queued(r) /\ ~stop /\ pc # "asleep") ~> (~Queued(r) \/ ~up)

(* The inductive invariant behind the four safety properties: the queue is *)
(* the last part of the packages; what left the front of it is final; what *)
(* is behind the front has not been touched; the sender pops only what it  *)
(* has finished or failed on.                                              *)
QueueIsSuffix ==
    /\ Len(queue) <= Len(packages)
    /\ \A i \in 1..Len(queue) : queue[i] = Done + i

Counters ==
    \A r \in 1..Len(packages) :
        /\ packages[r].offset + packages[r].left = packages[r].size
        /\ r > Done + 1 => packages[r].offset = 0

PopsFinished ==
    /\ pc = "writing" => ~fail
    /\ pc = "popping" => fail \/ packages[package].left = 0

SenderInv == TypeOK /\ QueueIsSuffix /\ FrontPinned /\ Counters /\ PopsFinished

(* ... and the part about connections: one that is open still is at the    *)
(* descriptor its packages name.                                           *)
AtItsFd ==
    /\ \A fd \in Fds : sock[fd] <= accepted
    /\ \A fd, g \in Fds : sock[fd] = sock[g] /\ sock[fd] # 0 => fd = g
    /\ \A r \in 1..Len(packages) :
          /\ packages[r].to <= accepted
          /\ \A fd \in Fds : sock[fd] = packages[r].to => fd = packages[r].fd

Served == {c \in Conns : IsOpen(c) /\ c \notin gone}

ServedInv ==
    /\ pc = "popping" /\ fail => packages[package].to \notin Served
    /\ \A r \in lost : r \in 1..Len(packages) /\ packages[r].to \notin Served
    /\ Len(dest) = Len(wire)
    /\ \A i \in 1..Len(wire) :
          /\ wire[i].reply \in 1..Len(packages)
          /\ packages[wire[i].reply].to \in Served =>
                dest[i] = packages[wire[i].reply].to

-----------------------------------------------------------------------------
(* What comments of the code say and the code does not do.                 *)

(* "if empty, wait until there is a package" (sync_drive_server.cc:45).    *)
WaitsUntilPackage == (pc = "asleep" /\ queue # <<>>) ~> pc # "asleep"

(* "Send message to a client ... @param connection the client connection"  *)
(* (sync_drive_server.cc:123-126): the bytes go to the connection that was *)
(* passed.                                                                 *)
SentToItsClient ==
    \A i \in 1..Len(wire) : dest[i] = packages[wire[i].reply].to
=============================================================================
