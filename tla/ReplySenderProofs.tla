-------------------------- MODULE ReplySenderProofs --------------------------
(* Safety of the reply path for every number of descriptors, connections   *)
(* and replies and for every set of reply lengths, and its refinement of   *)
(* ReplyFifo, whose promises it inherits.                                  *)
EXTENDS ReplySender, SequenceTheorems, TLAPS

-----------------------------------------------------------------------------
(* What the sequences look like before and after the actions that change   *)
(* them, element by element.                                               *)

LEMMA PackageTypes ==
    ASSUME TypeOK
    PROVE  /\ Len(packages) \in Nat /\ Len(queue) \in Nat
           /\ \A r \in 1..Len(packages) :
                 /\ packages[r] \in SendPackage
                 /\ packages[r].fd \in Fds /\ packages[r].to \in Conns
                 /\ packages[r].size \in Lens /\ packages[r].size \in Nat
                 /\ packages[r].offset \in Nat /\ packages[r].left \in Nat
<1>1. Len(packages) \in Nat /\ Len(queue) \in Nat
  BY LenProperties DEF TypeOK
<1>2. ASSUME NEW r \in 1..Len(packages) PROVE packages[r] \in SendPackage
  BY ElementOfSeq DEF TypeOK
<1>3. ASSUME NEW p \in SendPackage
      PROVE  /\ p.fd \in Fds /\ p.to \in Conns /\ p.size \in Lens /\ p.size \in Nat
             /\ p.offset \in Nat /\ p.left \in Nat
  BY LensAssumption DEF SendPackage
<1> QED
  BY <1>1, <1>2, <1>3

(* The package the sender works on.                                        *)
LEMMA Front ==
    ASSUME TypeOK, QueueIsSuffix, queue # <<>>
    PROVE  /\ Head(queue) = Done + 1
           /\ Done \in Nat
           /\ Done + 1 \in 1..Len(packages)
           /\ Len(queue) > 0
<1>1. Len(queue) > 0
  BY EmptySeq, LenProperties DEF TypeOK
<1>2. Head(queue) = queue[1]
  BY <1>1 DEF TypeOK
<1> QED
  BY <1>1, <1>2, PackageTypes DEF QueueIsSuffix, Done

LEMMA FrontNext ==
    (SenderInv /\ queue # <<>>)' => (Head(queue) = Done + 1 /\ Done + 1 \in 1..Len(packages))'
<1>1. SenderInv /\ queue # <<>> => Head(queue) = Done + 1 /\ Done + 1 \in 1..Len(packages)
  BY Front DEF SenderInv
<1> QED
  BY <1>1, PTL

LEMMA AtWork ==
    ASSUME SenderInv, pc \in {"writing", "popping"}
    PROVE  /\ queue # <<>> /\ package = Done + 1 /\ package \in 1..Len(packages)
           /\ packages[package] \in SendPackage
BY Front, PackageTypes DEF SenderInv, FrontPinned

LEMMA SendEffect ==
    ASSUME TypeOK, NEW fd \in Fds, SendMessage(fd)
    PROVE  /\ packages' \in Seq(SendPackage)
           /\ Len(packages') = Len(packages) + 1
           /\ \A r \in 1..Len(packages) : packages'[r] = packages[r]
           /\ LET p == packages'[Len(packages) + 1] IN
              /\ p.fd = fd /\ p.to = sock[fd] /\ p.size \in Lens
              /\ p.offset = 0 /\ p.left = p.size
           /\ queue' \in Seq(Nat)
           /\ Len(queue') = Len(queue) + 1
           /\ \A i \in 1..Len(queue) : queue'[i] = queue[i]
           /\ queue'[Len(queue) + 1] = Len(packages) + 1
           /\ queue # <<>> => Head(queue') = Head(queue)
           /\ queue' # <<>>
<1>1. PICK n \in Lens :
         packages' = Append(packages, [fd |-> fd, to |-> sock[fd], size |-> n,
                                       offset |-> 0, left |-> n])
  BY DEF SendMessage
<1> DEFINE p == [fd |-> fd, to |-> sock[fd], size |-> n, offset |-> 0, left |-> n]
<1>2. sock[fd] \in Conns
  BY BoundsAssumption DEF TypeOK, SendMessage, Conns
<1>3. p \in SendPackage
  BY <1>2, LensAssumption DEF SendPackage
<1>4. /\ packages' \in Seq(SendPackage)
      /\ Len(packages') = Len(packages) + 1
      /\ \A r \in 1..Len(packages) : packages'[r] = packages[r]
      /\ packages'[Len(packages) + 1] = p
  BY <1>1, <1>3, AppendProperties DEF TypeOK
<1>5. queue' = Append(queue, Len(packages) + 1) /\ Len(packages) + 1 \in Nat
  BY PackageTypes DEF SendMessage
<1>6. /\ queue' \in Seq(Nat)
      /\ Len(queue') = Len(queue) + 1
      /\ \A i \in 1..Len(queue) : queue'[i] = queue[i]
      /\ queue'[Len(queue) + 1] = Len(packages) + 1
      /\ queue' # <<>>
  BY <1>5, AppendProperties DEF TypeOK
<1>7. queue # <<>> => Head(queue') = Head(queue)
  <2>1. queue # <<>> => Len(queue) \in Nat \ {0}
    BY EmptySeq DEF TypeOK
  <2> QED
    BY <1>6, <2>1 DEF TypeOK
<1> QED
  BY <1>4, <1>6, <1>7

LEMMA WroteEffect ==
    ASSUME NEW p \in SendPackage, NEW n \in 1..p.left
    PROVE  LET q == Wrote(p, n) IN
           /\ q \in SendPackage
           /\ q.fd = p.fd /\ q.to = p.to /\ q.size = p.size
           /\ q.left = p.left - n /\ q.offset = p.offset + n
<1>1. p.left \in Nat /\ p.offset \in Nat /\ n \in Nat
  BY DEF SendPackage
<1>2. p.left - n \in Nat /\ p.offset + n \in Nat
  BY <1>1
<1> QED
  BY <1>1, <1>2 DEF Wrote, SendPackage

LEMMA WriteEffect ==
    ASSUME SenderInv, Write
    PROVE  \E n \in 1..packages[package].left :
              LET p == packages[package]
                  q == packages'[package] IN
              /\ q.fd = p.fd /\ q.to = p.to /\ q.size = p.size
              /\ q.left = p.left - n /\ q.offset = p.offset + n
              /\ packages' \in Seq(SendPackage)
              /\ Len(packages') = Len(packages)
              /\ \A r \in 1..Len(packages) : r # package => packages'[r] = packages[r]
              /\ wire' = Append(wire, [reply |-> package, from |-> p.offset,
                                       upto |-> p.offset + n])
<1> DEFINE p == packages[package]
<1>1. PICK n \in 1..p.left :
         /\ packages' = [packages EXCEPT ![package] = Wrote(p, n)]
         /\ wire' = Append(wire, [reply |-> package, from |-> p.offset,
                                  upto |-> p.offset + n])
  BY DEF Write
<1>2. package \in 1..Len(packages) /\ p \in SendPackage
  BY AtWork DEF Write
<1>3. p.left \in Nat /\ p.offset \in Nat
  BY <1>2, PackageTypes DEF SenderInv
<1>5. /\ Wrote(p, n) \in SendPackage
      /\ Wrote(p, n).fd = p.fd /\ Wrote(p, n).to = p.to /\ Wrote(p, n).size = p.size
      /\ Wrote(p, n).left = p.left - n /\ Wrote(p, n).offset = p.offset + n
  BY <1>2, WroteEffect
<1>6. /\ packages' \in Seq(SendPackage)
      /\ Len(packages') = Len(packages)
      /\ \A r \in 1..Len(packages) :
            packages'[r] = IF r = package THEN Wrote(p, n) ELSE packages[r]
  BY <1>1, <1>2, <1>5, ExceptSeq DEF SenderInv, TypeOK
<1> HIDE DEF p
<1>7. packages'[package] = Wrote(p, n)
  BY <1>2, <1>6
<1> QED
  BY <1>1, <1>5, <1>6, <1>7 DEF p

LEMMA PopEffect ==
    ASSUME SenderInv, Pop
    PROVE  /\ queue' \in Seq(Nat)
           /\ Len(queue') = Len(queue) - 1
           /\ Len(queue) > 0
           /\ \A i \in 1..Len(queue') : queue'[i] = queue[i + 1]
           /\ Done' = Done + 1
<1>1. queue # <<>> /\ packages' = packages /\ queue' = Tail(queue)
  BY AtWork DEF Pop
<1>2. /\ queue' \in Seq(Nat)
      /\ Len(queue') = Len(queue) - 1
      /\ \A i \in 1..Len(queue') : queue'[i] = queue[i + 1]
  BY <1>1, HeadTailProperties DEF SenderInv, TypeOK
<1>3. Len(queue) > 0
  BY <1>1, Front DEF SenderInv
<1> QED
  BY <1>1, <1>2, <1>3, PackageTypes DEF SenderInv, Done
-----------------------------------------------------------------------------
(* SenderInv is inductive: one lemma for the push, one for the write, one  *)
(* for the pop, and one for the actions that leave both the queue and the  *)
(* packages alone.                                                         *)

LEMMA SenderInit == Init => SenderInv
<1> SUFFICES ASSUME Init PROVE SenderInv
  OBVIOUS
<1>1. Len(packages) = 0 /\ Len(queue) = 0
  BY DEF Init
<1>2. TypeOK
  <2>1. sock \in [Fds -> 0..MaxConns] /\ accepted \in 0..MaxConns
    BY BoundsAssumption DEF Init
  <2>2. fail \in BOOLEAN /\ stop \in BOOLEAN /\ up \in BOOLEAN
    BY DEF Init
  <2>3. /\ packages \in Seq(SendPackage) /\ queue \in Seq(Nat)
        /\ wire \in Seq(Piece) /\ dest \in Seq(Conns)
    BY EmptySeq DEF Init
  <2>4. /\ gone \subseteq Conns /\ lost \subseteq Nat /\ package \in Nat
        /\ pc \in {"idle", "asleep", "writing", "popping", "returned"}
    BY DEF Init
  <2> QED
    BY <2>1, <2>2, <2>3, <2>4 DEF TypeOK
<1>3. QueueIsSuffix /\ Counters
  BY <1>1 DEF QueueIsSuffix, Counters
<1>4. FrontPinned /\ PopsFinished
  BY DEF Init, FrontPinned, PopsFinished
<1> QED
  BY <1>2, <1>3, <1>4 DEF SenderInv

LEMMA SenderSend ==
    ASSUME SenderInv, NEW fd \in Fds, SendMessage(fd)
    PROVE  SenderInv'
<1> USE DEF SenderInv
<1>1. UNCHANGED <<conns, package, fail, pc, stop, up, history>>
  BY DEF SendMessage
<1>2. /\ Len(packages) \in Nat /\ Len(packages') = Len(packages) + 1
      /\ Len(queue) \in Nat /\ Len(queue') = Len(queue) + 1
      /\ Len(queue) <= Len(packages)
  BY SendEffect, PackageTypes DEF QueueIsSuffix
<1>3. Done' = Done /\ Done \in Nat /\ Done = Len(packages) - Len(queue)
  BY <1>2 DEF Done
<1>4. TypeOK'
  <2>1. packages' \in Seq(SendPackage) /\ queue' \in Seq(Nat)
    BY SendEffect
  <2>2. /\ sock' = sock /\ accepted' = accepted /\ gone' = gone /\ package' = package
        /\ fail' = fail /\ pc' = pc /\ stop' = stop /\ up' = up
        /\ wire' = wire /\ dest' = dest /\ lost' = lost
    BY <1>1 DEF conns, history
  <2> QED
    BY <2>1, <2>2 DEF TypeOK
<1>8. QueueIsSuffix'
  <2>1. ASSUME NEW i \in 1..Len(queue') PROVE queue'[i] = Done + i
    <3>1. CASE i \in 1..Len(queue)
      BY <3>1, SendEffect DEF QueueIsSuffix
    <3>2. CASE i = Len(queue) + 1
      BY <1>2, <1>3, <3>2, SendEffect
    <3> QED
      BY <1>2, <3>1, <3>2
  <2> QED
    BY <1>2, <1>3, <2>1 DEF QueueIsSuffix
<1>5. FrontPinned'
  BY <1>1, SendEffect DEF FrontPinned
<1>6. Counters'
  <2> SUFFICES ASSUME NEW r \in 1..Len(packages')
               PROVE  /\ packages'[r].offset + packages'[r].left = packages'[r].size
                      /\ r > Done + 1 => packages'[r].offset = 0
    BY <1>3 DEF Counters
  <2>1. CASE r \in 1..Len(packages)
    BY <2>1, SendEffect DEF Counters
  <2>2. CASE r = Len(packages) + 1
    <3>1. packages'[r].offset = 0 /\ packages'[r].left = packages'[r].size
      BY <2>2, SendEffect
    <3>2. packages'[r].size \in Nat
      BY <2>2, SendEffect, LensAssumption
    <3> QED
      BY <3>1, <3>2
  <2> QED
    BY <1>2, <2>1, <2>2
<1>7. PopsFinished'
  <2>1. CASE pc \in {"writing", "popping"}
    BY <1>1, <2>1, AtWork, SendEffect DEF PopsFinished
  <2>2. CASE pc \notin {"writing", "popping"}
    BY <1>1, <2>2 DEF PopsFinished
  <2> QED
    BY <2>1, <2>2
<1> QED
  BY <1>4, <1>5, <1>6, <1>7, <1>8

LEMMA SenderWrite ==
    ASSUME SenderInv, Write
    PROVE  SenderInv'
<1> DEFINE p == packages[package]
           q == packages'[package]
<1>1. PICK n \in 1..p.left :
         /\ q.fd = p.fd /\ q.to = p.to /\ q.size = p.size
         /\ q.left = p.left - n /\ q.offset = p.offset + n
         /\ packages' \in Seq(SendPackage)
         /\ Len(packages') = Len(packages)
         /\ \A r \in 1..Len(packages) : r # package => packages'[r] = packages[r]
         /\ wire' = Append(wire, [reply |-> package, from |-> p.offset,
                                  upto |-> p.offset + n])
  BY WriteEffect
<1>2. UNCHANGED <<conns, sender, stop, up, lost>> /\ dest' = Append(dest, sock[p.fd])
  BY DEF Write
<1>3. pc = "writing" /\ package \in 1..Len(packages) /\ package = Done + 1
  BY AtWork DEF Write
<1>4. p.fd \in Fds /\ p.left \in Nat /\ p.offset \in Nat /\ n \in Nat /\ package \in Nat
  BY <1>3, PackageTypes DEF SenderInv
<1>5. dest' \in Seq(Conns)
  <2>1. sock[p.fd] \in Conns
    BY <1>4, BoundsAssumption DEF Write, SenderInv, TypeOK, Conns
  <2> QED
    BY <1>2, <2>1, AppendProperties DEF SenderInv, TypeOK
<1>6. wire' \in Seq(Piece)
  <2>1. [reply |-> package, from |-> p.offset, upto |-> p.offset + n] \in Piece
    BY <1>4 DEF Piece
  <2> QED
    BY <1>1, <2>1, AppendProperties DEF SenderInv, TypeOK
<1>7. TypeOK'
  BY <1>1, <1>2, <1>5, <1>6 DEF SenderInv, TypeOK, conns, sender
<1>8. Done' = Done
  BY <1>1, <1>2 DEF Done, sender
<1>9. QueueIsSuffix' /\ FrontPinned'
  BY <1>1, <1>2, <1>8 DEF SenderInv, QueueIsSuffix, FrontPinned, sender
<1>10. Counters'
  <2> SUFFICES ASSUME NEW r \in 1..Len(packages)
               PROVE  /\ packages'[r].offset + packages'[r].left = packages'[r].size
                      /\ r > Done + 1 => packages'[r].offset = 0
    BY <1>1, <1>8 DEF Counters
  <2>1. CASE r = package
    <3>1. p.offset + p.left = p.size
      BY <1>3 DEF SenderInv, Counters
    <3>2. q.offset + q.left = q.size
      BY <1>1, <1>4, <3>1
    <3> QED
      BY <1>3, <2>1, <3>2, PackageTypes DEF SenderInv
  <2>2. CASE r # package
    BY <1>1, <2>2 DEF SenderInv, Counters
  <2> QED
    BY <2>1, <2>2
<1>11. PopsFinished'
  BY <1>2, <1>3 DEF SenderInv, PopsFinished, sender
<1> QED
  BY <1>7, <1>9, <1>10, <1>11 DEF SenderInv

LEMMA SenderPop ==
    ASSUME SenderInv, Pop
    PROVE  SenderInv'
<1>1. UNCHANGED <<conns, packages, package, fail, stop, up, wire, dest>> /\ pc' = "idle"
  BY DEF Pop
<1>2. TypeOK'
  BY <1>1, PopEffect DEF Pop, SenderInv, TypeOK, conns
<1>3. QueueIsSuffix'
  <2>1. Len(queue') <= Len(packages')
    BY <1>1, PopEffect, PackageTypes DEF SenderInv, QueueIsSuffix
  <2>2. ASSUME NEW i \in 1..Len(queue') PROVE queue'[i] = Done' + i
    <3>1. Len(queue) \in Nat /\ i \in Nat /\ i + 1 \in 1..Len(queue)
      BY PopEffect, PackageTypes DEF SenderInv
    <3>2. queue[i + 1] = Done + (i + 1)
      BY <3>1 DEF SenderInv, QueueIsSuffix
    <3> QED
      BY <3>1, <3>2, PopEffect, PackageTypes DEF SenderInv, Done
  <2> QED
    BY <2>1, <2>2 DEF QueueIsSuffix
<1>4. FrontPinned' /\ PopsFinished'
  BY <1>1 DEF FrontPinned, PopsFinished
<1>5. Counters'
  BY <1>1, PopEffect, PackageTypes DEF SenderInv, Counters, Done
<1> QED
  BY <1>2, <1>3, <1>4, <1>5 DEF SenderInv

(* Every other action leaves the packages, the queue and the wire alone.   *)
Quiet ==
    \/ \E fd \in Fds : Open(fd) \/ Close(fd)
    \/ \E c \in Conns : PeerGone(c)
    \/ SenderReturn \/ SenderSleep \/ SenderTake \/ SpuriousWake
    \/ WriteFull \/ WriteError \/ SigPipe \/ WriteEnd
    \/ UNCHANGED vars

LEMMA SenderQuiet ==
    ASSUME SenderInv, Quiet
    PROVE  SenderInv'
<1> USE DEF SenderInv
<1>1. UNCHANGED <<packages, queue, history>>
  BY DEF Quiet, Open, Close, PeerGone, SenderReturn, SenderSleep, SenderTake,
         SpuriousWake, WriteFull, WriteError, SigPipe, WriteEnd, vars, conns,
         sender, history
<1>2. TypeOK'
  <2>1. /\ sock' \in [Fds -> 0..MaxConns] /\ accepted' \in 0..MaxConns
        /\ gone' \subseteq Conns
    <3>1. ASSUME NEW fd \in Fds, Open(fd)
          PROVE  sock' \in [Fds -> 0..MaxConns] /\ accepted' \in 0..MaxConns /\ gone' = gone
      BY <3>1, BoundsAssumption DEF TypeOK, Open
    <3>2. ASSUME NEW fd \in Fds, Close(fd)
          PROVE  sock' \in [Fds -> 0..MaxConns] /\ accepted' = accepted /\ gone' = gone
      BY <3>2, BoundsAssumption DEF TypeOK, Close
    <3>3. ASSUME NEW c \in Conns, PeerGone(c)
          PROVE  sock' = sock /\ accepted' = accepted /\ gone' \subseteq Conns
      BY <3>3 DEF TypeOK, PeerGone
    <3>4. \/ \E fd \in Fds : Open(fd) \/ Close(fd)
          \/ \E c \in Conns : PeerGone(c)
          \/ UNCHANGED conns
      BY DEF Quiet, SenderReturn, SenderSleep, SenderTake, SpuriousWake,
             WriteFull, WriteError, SigPipe, WriteEnd, vars
    <3> QED
      BY <3>1, <3>2, <3>3, <3>4 DEF TypeOK, conns
  <2>2. package' \in Nat
    <3>1. CASE SenderTake
      BY <3>1, Front, PackageTypes DEF SenderTake
    <3>2. CASE ~SenderTake
      BY <3>2 DEF TypeOK, Quiet, Open, Close, PeerGone, SenderReturn, SenderSleep,
          SpuriousWake, WriteFull, WriteError, SigPipe, WriteEnd, vars, sender
    <3> QED
      BY <3>1, <3>2
  <2>3. pc' \in {"idle", "asleep", "writing", "popping", "returned"}
    BY DEF TypeOK, Quiet, Open, Close, PeerGone, SenderReturn, SenderSleep, SenderTake,
        SpuriousWake, WriteFull, WriteError, SigPipe, WriteEnd, vars, sender
  <2>4. /\ fail' = fail \/ fail' = FALSE \/ fail' = TRUE
        /\ stop' = stop
        /\ up' = up \/ up' = FALSE
    BY DEF Quiet, Open, Close, PeerGone, SenderReturn, SenderSleep, SenderTake,
        SpuriousWake, WriteFull, WriteError, SigPipe, WriteEnd, vars, sender
  <2>5. fail' \in BOOLEAN /\ stop' \in BOOLEAN /\ up' \in BOOLEAN
    BY <2>4 DEF TypeOK
  <2> QED
    BY <1>1, <2>1, <2>2, <2>3, <2>5 DEF TypeOK, history
<1>3. QueueIsSuffix' /\ Counters'
  BY <1>1 DEF QueueIsSuffix, Counters, Done
<1>4. FrontPinned'
  BY <1>1 DEF FrontPinned, Quiet, Open, Close, PeerGone, SenderReturn, SenderSleep,
        SenderTake, SpuriousWake, WriteFull, WriteError, SigPipe, WriteEnd, vars, sender
<1>5. PopsFinished'
  BY <1>1 DEF PopsFinished, Quiet, Open, Close, PeerGone, SenderReturn, SenderSleep,
        SenderTake, SpuriousWake, WriteFull, WriteError, SigPipe, WriteEnd, vars, sender
<1> QED
  BY <1>2, <1>3, <1>4, <1>5

(* A step is a push, a write, a pop or a quiet one.                        *)
LEMMA StepKinds ==
    ASSUME [Next]_vars
    PROVE  (\E fd \in Fds : SendMessage(fd)) \/ Write \/ Pop \/ Quiet
BY DEF Next, Connections, Sender, Quiet

(* The types, the shape of the queue and the front stay as they should     *)
(* while handlers push and the sender works without the lock.              *)
THEOREM SenderSafe == Spec => []SenderInv
<1>1. SenderInv /\ [Next]_vars => SenderInv'
  BY StepKinds, SenderSend, SenderWrite, SenderPop, SenderQuiet
<1> QED
  BY <1>1, SenderInit, PTL DEF Spec

(* Every variable keeps its type.                                          *)
THEOREM TypeCorrect == Spec => []TypeOK
<1>1. SenderInv => TypeOK
  BY DEF SenderInv
<1> QED
  BY <1>1, SenderSafe, PTL

(* The package the sender points to without the lock is the front of the   *)
(* queue: it is alive, and it is the one pop() removes.                    *)
THEOREM FrontStaysPinned == Spec => []FrontPinned
<1>1. SenderInv => FrontPinned
  BY DEF SenderInv
<1> QED
  BY <1>1, SenderSafe, PTL
-----------------------------------------------------------------------------
(* The refinement: a push is Accept, a write is Emit, a pop is Retire or   *)
(* GiveUp, and every other step stutters.                                  *)

LEMMA LogProperties ==
    ASSUME TypeOK
    PROVE  /\ Log \in Seq(Lens)
           /\ Len(Log) = Len(packages)
           /\ \A r \in 1..Len(packages) : Log[r] = packages[r].size
<1>1. Len(packages) \in Nat /\ \A r \in 1..Len(packages) : packages[r].size \in Lens
  BY PackageTypes
<1> QED
  BY <1>1 DEF Log

LEMMA LogPropertiesNext ==
    SenderInv' => (/\ Log \in Seq(Lens)
                   /\ Len(Log) = Len(packages)
                   /\ \A r \in 1..Len(packages) : Log[r] = packages[r].size)'
<1>1. SenderInv => /\ Log \in Seq(Lens)
                   /\ Len(Log) = Len(packages)
                   /\ \A r \in 1..Len(packages) : Log[r] = packages[r].size
  BY LogProperties DEF SenderInv
<1> QED
  BY <1>1, PTL

LEMMA SendIsAccept ==
    ASSUME SenderInv, NEW fd \in Fds, SendMessage(fd)
    PROVE  /\ \E n \in Lens : Log' = Append(Log, n)
           /\ UNCHANGED <<Done, Pos, wire, lost>>
<1>1. SenderInv'
  BY SenderSend
<1> DEFINE n == packages'[Len(packages) + 1].size
<1>2. n \in Lens
  BY SendEffect DEF SenderInv
<1>3. /\ Len(packages) \in Nat /\ Len(packages') = Len(packages) + 1
      /\ Len(queue) \in Nat /\ Len(queue') = Len(queue) + 1
  BY SendEffect, PackageTypes DEF SenderInv
<1>4. Log' = Append(Log, n)
  <2>1. Log' \in Seq(Lens) /\ Len(Log') = Len(packages')
        /\ \A r \in 1..Len(packages') : Log'[r] = packages'[r].size
    BY <1>1, LogPropertiesNext
  <2>2. Append(Log, n) \in Seq(Lens)
        /\ Len(Append(Log, n)) = Len(packages) + 1
        /\ \A r \in 1..Len(packages) : Append(Log, n)[r] = packages[r].size
        /\ Append(Log, n)[Len(packages) + 1] = n
    BY <1>2, LogProperties, AppendProperties DEF SenderInv
  <2>3. \A r \in 1..Len(packages) : packages'[r] = packages[r]
    BY SendEffect DEF SenderInv
  <2>4. ASSUME NEW r \in 1..Len(packages') PROVE Log'[r] = Append(Log, n)[r]
    BY <1>3, <2>1, <2>2, <2>3
  <2> HIDE DEF n
  <2> QED
    BY <1>3, <2>1, <2>2, <2>4, SeqEqual
<1>5. Done' = Done
  BY <1>3 DEF Done
<1>6. Pos' = Pos
  <2>1. CASE queue = <<>>
    <3>1. Len(queue) = 0 /\ Len(packages) = Done
      BY <1>3, <2>1, EmptySeq DEF Done
    <3>2. Head(queue') = Done' + 1 /\ queue' # <<>>
      BY <1>1, FrontNext, SendEffect DEF SenderInv
    <3>3. packages'[Len(packages) + 1].offset = 0
      BY SendEffect DEF SenderInv
    <3> QED
      BY <1>5, <2>1, <3>1, <3>2, <3>3 DEF Pos
  <2>2. CASE queue # <<>>
    BY <2>2, Front, SendEffect DEF SenderInv, Pos
  <2> QED
    BY <2>1, <2>2
<1> QED
  BY <1>2, <1>4, <1>5, <1>6 DEF SendMessage, history

LEMMA WriteIsEmit ==
    ASSUME SenderInv, Write
    PROVE  /\ Done < Len(Log)
           /\ \E upto \in (Pos + 1)..Log[Done + 1] :
                 /\ wire' = Append(wire, [reply |-> Done + 1, from |-> Pos, upto |-> upto])
                 /\ Pos' = upto
           /\ UNCHANGED <<Log, Done, lost>>
<1> DEFINE p == packages[package]
           q == packages'[package]
<1>1. PICK n \in 1..p.left :
         /\ q.fd = p.fd /\ q.to = p.to /\ q.size = p.size
         /\ q.left = p.left - n /\ q.offset = p.offset + n
         /\ packages' \in Seq(SendPackage)
         /\ Len(packages') = Len(packages)
         /\ \A r \in 1..Len(packages) : r # package => packages'[r] = packages[r]
         /\ wire' = Append(wire, [reply |-> package, from |-> p.offset,
                                  upto |-> p.offset + n])
  BY WriteEffect
<1>2. queue' = queue /\ lost' = lost
  BY DEF Write, sender
<1>3. queue # <<>> /\ package \in 1..Len(packages) /\ package = Done + 1
      /\ Head(queue) = package /\ Done \in Nat
  BY AtWork, Front DEF Write, SenderInv
<1>4. Pos = p.offset /\ Pos' = q.offset
  BY <1>2, <1>3 DEF Pos
<1>5. /\ p.left \in Nat /\ p.offset \in Nat /\ p.size \in Nat /\ p.offset + p.left = p.size
      /\ Len(packages) \in Nat
  BY <1>3, PackageTypes DEF SenderInv, Counters
<1>6. Log[Done + 1] = p.size /\ Len(Log) = Len(packages)
  BY <1>3, LogProperties DEF SenderInv
<1>7. Log' = Log
  <2>1. \A r \in 1..Len(packages) : packages'[r].size = packages[r].size
    BY <1>1
  <2> QED
    BY <1>1, <2>1 DEF Log
<1>8. p.offset + n \in (Pos + 1)..Log[Done + 1]
  BY <1>4, <1>5, <1>6
<1>9. Done' = Done
  BY <1>1, <1>2 DEF Done
<1>10. Done < Len(Log)
  BY <1>3, <1>5, <1>6
<1> QED
  BY <1>1, <1>2, <1>3, <1>4, <1>7, <1>8, <1>9, <1>10

LEMMA PopIsRetire ==
    ASSUME SenderInv, Pop
    PROVE  /\ Done < Len(Log)
           /\ Done' = Done + 1
           /\ Pos' = 0
           /\ UNCHANGED <<Log, wire>>
           /\ \/ Pos = Log[Done + 1] /\ lost' = lost
              \/ lost' = lost \cup {Done + 1}
<1>1. packages' = packages /\ wire' = wire /\ pc = "popping"
  BY DEF Pop
<1>2. queue # <<>> /\ package \in 1..Len(packages) /\ package = Done + 1
      /\ Head(queue) = package /\ Done \in Nat
  BY AtWork, Front DEF Pop, SenderInv
<1>3. Done' = Done + 1
  BY PopEffect
<1>4. Len(packages) \in Nat /\ Len(Log) = Len(packages)
      /\ Log[Done + 1] = packages[package].size
  BY <1>2, LogProperties, PackageTypes DEF SenderInv
<1>5. Pos' = 0
  <2>1. CASE queue' = <<>>
    BY <2>1 DEF Pos
  <2>2. CASE queue' # <<>>
    <3>1. SenderInv'
      BY SenderPop
    <3>2. Head(queue') = Done' + 1 /\ Done' + 1 \in 1..Len(packages')
      BY <2>2, <3>1, FrontNext
    <3>3. packages[Done + 2].offset = 0
      BY <1>1, <1>2, <1>3, <1>4, <3>2 DEF SenderInv, Counters
    <3> QED
      BY <1>1, <1>2, <1>3, <2>2, <3>2, <3>3 DEF Pos
  <2> QED
    BY <2>1, <2>2
<1>6. \/ Pos = Log[Done + 1] /\ lost' = lost
      \/ lost' = lost \cup {Done + 1}
  <2>1. CASE fail
    BY <1>2, <2>1 DEF Pop
  <2>2. CASE ~fail
    <3>1. packages[package].left = 0 /\ lost' = lost
      BY <1>1, <2>2 DEF Pop, SenderInv, PopsFinished
    <3>2. packages[package].offset = packages[package].size
      BY <1>2, <3>1, PackageTypes DEF SenderInv, Counters
    <3> QED
      BY <1>2, <1>4, <3>1, <3>2 DEF Pos
  <2> QED
    BY <2>1, <2>2
<1> QED
  BY <1>1, <1>2, <1>3, <1>4, <1>5, <1>6 DEF Log

LEMMA QuietIsStutter ==
    ASSUME SenderInv, Quiet
    PROVE  UNCHANGED <<Log, Done, Pos, wire, lost>>
<1>1. UNCHANGED <<packages, queue, history>>
  BY DEF Quiet, Open, Close, PeerGone, SenderReturn, SenderSleep, SenderTake,
         SpuriousWake, WriteFull, WriteError, SigPipe, WriteEnd, vars, conns,
         sender, history
<1> QED
  BY <1>1 DEF Log, Done, Pos, history

(* The reply path implements the FIFO: no byte of a reply is skipped,      *)
(* repeated or reordered, and replies leave in the order of the pushes.    *)
THEOREM SenderImplementsFifo == Spec => ImplementsFifo
<1> USE DEF Log, Pos
<1>1. Init => Fifo!Init
  <2> SUFFICES ASSUME Init PROVE Fifo!Init
    OBVIOUS
  <2>1. Log = <<>>
    BY DEF Init
  <2> QED
    BY <2>1 DEF Init, Fifo!Init, Done
<1>2. SenderInv /\ [Next]_vars => [Fifo!Next]_(Fifo!vars)
  <2> SUFFICES ASSUME SenderInv, [Next]_vars PROVE [Fifo!Next]_(Fifo!vars)
    OBVIOUS
  <2>1. ASSUME NEW fd \in Fds, SendMessage(fd) PROVE Fifo!Accept
    BY <2>1, SendIsAccept DEF Fifo!Accept
  <2>2. ASSUME Write PROVE Fifo!Emit
    BY <2>2, WriteIsEmit DEF Fifo!Emit
  <2>3. ASSUME Pop PROVE Fifo!Retire \/ Fifo!GiveUp
    BY <2>3, PopIsRetire DEF Fifo!Retire, Fifo!GiveUp
  <2>4. ASSUME Quiet PROVE UNCHANGED Fifo!vars
    BY <2>4, QuietIsStutter DEF Fifo!vars
  <2> QED
    BY <2>1, <2>2, <2>3, <2>4, StepKinds DEF Fifo!Next
<1> QED
  BY <1>1, <1>2, SenderSafe, PTL DEF Spec, ImplementsFifo, Fifo!Spec
-----------------------------------------------------------------------------
(* Who gets the bytes.  A connection that is served after a step was       *)
(* served before it, or has just been accepted.                            *)

ConnInv == SenderInv /\ AtItsFd /\ ServedInv

LEMMA ServedBefore ==
    ASSUME TypeOK, AtItsFd, Next, NEW c \in 1..accepted, c \in Served'
    PROVE  c \in Served
<1> USE DEF Served, IsOpen
<1>1. ASSUME NEW fd \in Fds, Open(fd) PROVE c \in Served
  BY <1>1 DEF Open, TypeOK
<1>2. ASSUME NEW fd \in Fds, Close(fd) PROVE c \in Served
  BY <1>2 DEF Close, TypeOK
<1>3. ASSUME NEW d \in Conns, PeerGone(d) PROVE c \in Served
  BY <1>3 DEF PeerGone
<1>4. ASSUME UNCHANGED conns PROVE c \in Served
  BY <1>4 DEF conns
<1>5. \/ \E fd \in Fds : Open(fd) \/ Close(fd)
      \/ \E d \in Conns : PeerGone(d)
      \/ UNCHANGED conns
  BY DEF Next, Connections, Sender, SendMessage, SenderReturn, SenderSleep, SenderTake,
         SpuriousWake, Write, WriteFull, WriteError, SigPipe, WriteEnd, Pop, conns
<1> QED
  BY <1>1, <1>2, <1>3, <1>4, <1>5

(* What any step does to the packages that are there before it.            *)
LEMMA PackagesKeepOwner ==
    ASSUME SenderInv, Next
    PROVE  /\ Len(packages') \in Nat /\ Len(packages) <= Len(packages')
           /\ \A r \in 1..Len(packages) :
                 packages'[r].to = packages[r].to /\ packages'[r].fd = packages[r].fd
<1>1. ASSUME NEW fd \in Fds, SendMessage(fd)
      PROVE  /\ Len(packages') = Len(packages) + 1
             /\ \A r \in 1..Len(packages) : packages'[r] = packages[r]
  BY <1>1, SendEffect DEF SenderInv
<1>2. ASSUME Write
      PROVE  /\ Len(packages') = Len(packages)
             /\ \A r \in 1..Len(packages) :
                   packages'[r].to = packages[r].to /\ packages'[r].fd = packages[r].fd
  BY <1>2, WriteEffect
<1>3. ASSUME Pop \/ Quiet PROVE packages' = packages
  BY <1>3 DEF Pop, Quiet, Open, Close, PeerGone, SenderReturn, SenderSleep, SenderTake,
              SpuriousWake, WriteFull, WriteError, SigPipe, WriteEnd, vars
<1> QED
  BY <1>1, <1>2, <1>3, StepKinds, PackageTypes DEF SenderInv

LEMMA AtItsFdStep ==
    ASSUME ConnInv, Next
    PROVE  AtItsFd'
<1> USE DEF ConnInv, SenderInv
<1>1. accepted \in Nat /\ accepted' \in Nat /\ accepted <= accepted'
  <2>1. accepted \in Nat
    BY BoundsAssumption DEF TypeOK
  <2>2. accepted' = accepted \/ accepted' = accepted + 1
    BY DEF Next, Connections, Sender, Open, Close, PeerGone, SendMessage, SenderReturn,
           SenderSleep, SenderTake, SpuriousWake, Write, WriteFull, WriteError, SigPipe,
           WriteEnd, Pop, conns
  <2> QED
    BY <2>1, <2>2
<1>2. ASSUME NEW fd \in Fds
      PROVE  \/ sock'[fd] = sock[fd]
             \/ sock'[fd] = 0
             \/ sock'[fd] = accepted + 1 /\ accepted' = accepted + 1
  BY DEF TypeOK, Next, Connections, Sender, Open, Close, PeerGone, SendMessage,
         SenderReturn, SenderSleep, SenderTake, SpuriousWake, Write, WriteFull,
         WriteError, SigPipe, WriteEnd, Pop, conns
<1>3. \A fd \in Fds : sock'[fd] <= accepted'
  <2>1. \A fd \in Fds : sock[fd] \in Nat
    BY BoundsAssumption DEF TypeOK
  <2> QED
    BY <1>1, <1>2, <2>1 DEF AtItsFd
<1>4. ASSUME NEW r \in 1..Len(packages')
      PROVE  /\ packages'[r].to <= accepted'
             /\ \A fd \in Fds : sock'[fd] = packages'[r].to => fd = packages'[r].fd
  <2>1. CASE r \in 1..Len(packages)
    <3>1. packages'[r].to = packages[r].to /\ packages'[r].fd = packages[r].fd
      BY <2>1, PackagesKeepOwner
    <3>2. packages[r].to \in Nat /\ packages[r].to > 0 /\ packages[r].to <= accepted
      BY <2>1, PackageTypes, BoundsAssumption DEF AtItsFd, Conns
    <3> QED
      BY <1>1, <1>2, <2>1, <3>1, <3>2 DEF AtItsFd
  <2>2. CASE r \notin 1..Len(packages)
    <3>1. PICK f \in Fds : SendMessage(f)
      <4>1. Write => Len(packages') = Len(packages)
        BY WriteEffect
      <4>2. Pop \/ Quiet => packages' = packages
        BY DEF Pop, Quiet, Open, Close, PeerGone, SenderReturn, SenderSleep, SenderTake,
               SpuriousWake, WriteFull, WriteError, SigPipe, WriteEnd, vars
      <4> QED
        BY <2>2, <4>1, <4>2, StepKinds
    <3>2. r = Len(packages) + 1
      BY <2>2, <3>1, SendEffect, PackageTypes
    <3>3. packages'[r].to = sock[f] /\ packages'[r].fd = f
      BY <3>1, <3>2, SendEffect
    <3>4. UNCHANGED conns /\ sock[f] # 0
      BY <3>1 DEF SendMessage
    <3>5. ASSUME NEW fd \in Fds, sock[fd] = sock[f] PROVE fd = f
      BY <3>4, <3>5 DEF AtItsFd
    <3> QED
      BY <1>3, <3>3, <3>4, <3>5 DEF conns
  <2> QED
    BY <2>1, <2>2
<1>5. ASSUME NEW fd \in Fds, NEW g \in Fds, sock'[fd] = sock'[g], sock'[fd] # 0
      PROVE  fd = g
  <2>1. CASE \E f \in Fds : Open(f)
    <3>1. PICK f \in Fds : Open(f)
      BY <2>1
    <3>2. \A h \in Fds : h # f => sock'[h] = sock[h]
      BY <3>1 DEF Open, TypeOK
    <3>3. sock'[f] = accepted + 1
      BY <3>1 DEF Open, TypeOK
    <3>4. \A h \in Fds : sock[h] \in Nat /\ sock[h] # accepted + 1
      BY <1>1, BoundsAssumption DEF TypeOK, AtItsFd
    <3> QED
      BY <1>5, <3>2, <3>3, <3>4 DEF AtItsFd
  <2>2. CASE ~ \E f \in Fds : Open(f)
    <3>1. \A h \in Fds : sock'[h] = sock[h] \/ sock'[h] = 0
      BY <2>2 DEF TypeOK, Next, Connections, Sender, Close, PeerGone, SendMessage,
           SenderReturn, SenderSleep, SenderTake, SpuriousWake, Write, WriteFull,
           WriteError, SigPipe, WriteEnd, Pop, conns
    <3> QED
      BY <1>5, <3>1 DEF AtItsFd
  <2> QED
    BY <2>1, <2>2
<1> QED
  BY <1>3, <1>4, <1>5 DEF AtItsFd

(* ServedInv: an error is met only on the descriptor of a client that is   *)
(* closed or gone, and a byte strays only after its client was closed.     *)
LEMMA ServedStep ==
    ASSUME ConnInv, Next
    PROVE  ServedInv'
<1> USE DEF ConnInv, SenderInv
<1>1. \A r \in 1..Len(packages) :
         /\ r \in 1..Len(packages')
         /\ packages'[r].to = packages[r].to
         /\ packages'[r].to \in Served' => packages[r].to \in Served
  <2>1. ASSUME NEW r \in 1..Len(packages) PROVE packages[r].to \in 1..accepted
    BY PackageTypes, BoundsAssumption DEF AtItsFd, Conns, TypeOK
  <2>2. ASSUME NEW r \in 1..Len(packages)
        PROVE r \in 1..Len(packages') /\ packages'[r].to = packages[r].to
    BY PackagesKeepOwner, PackageTypes
  <2>3. ASSUME NEW c \in 1..accepted PROVE c \in Served' => c \in Served
    BY ServedBefore
  <2> QED
    BY <2>1, <2>2, <2>3
<1>2. ASSUME NEW r \in 1..Len(packages), packages[r].to \in Served
      PROVE  sock[packages[r].fd] = packages[r].to /\ packages[r].to \notin gone
  BY <1>2 DEF Served, IsOpen, AtItsFd
<1>3. pc' = "popping" /\ fail' => packages'[package'].to \notin Served'
  <2> SUFFICES ASSUME pc' = "popping", fail' PROVE packages'[package'].to \notin Served'
    OBVIOUS
  <2>1. package' = package
    BY DEF Next, Connections, Sender, Open, Close, PeerGone, SendMessage, SenderReturn,
           SenderSleep, SenderTake, SpuriousWake, Write, WriteFull, WriteError, SigPipe,
           WriteEnd, Pop, sender
  <2>2. CASE pc = "popping" /\ fail
    <3>1. package \in 1..Len(packages) /\ packages[package].to \notin Served
      BY <2>2, AtWork DEF ServedInv
    <3> QED
      BY <1>1, <2>1, <3>1
  <2>3. CASE WriteError
    <3>1. package \in 1..Len(packages) /\ sock[packages[package].fd] \in gone \cup {0}
      BY <2>3, AtWork DEF WriteError
    <3>2. packages[package].to # 0
      BY <3>1, PackageTypes, BoundsAssumption DEF Conns
    <3>3. packages[package].to \notin Served
      BY <1>2, <3>1, <3>2
    <3> QED
      BY <1>1, <2>1, <3>1, <3>3
  <2>4. (pc = "popping" /\ fail) \/ WriteError
    <3>1. pc = "writing" => ~fail
      BY DEF PopsFinished
    <3> QED
      BY <3>1 DEF Next, Connections, Sender, Open, Close, PeerGone, SendMessage,
           SenderReturn, SenderSleep, SenderTake, SpuriousWake, Write, WriteFull, SigPipe,
           WriteEnd, Pop, sender
  <2> QED
    BY <2>2, <2>3, <2>4
<1>4. ASSUME NEW r \in lost'
      PROVE  r \in 1..Len(packages') /\ packages'[r].to \notin Served'
  <2>1. CASE r \in lost
    <3>1. r \in 1..Len(packages) /\ packages[r].to \notin Served
      BY <2>1 DEF ServedInv
    <3> QED
      BY <1>1, <3>1
  <2>2. CASE r \notin lost
    <3>1. Pop \/ lost' = lost
      BY DEF Next, Connections, Sender, Open, Close, PeerGone, SendMessage,
           SenderReturn, SenderSleep, SenderTake, SpuriousWake, Write, WriteFull,
           WriteError, SigPipe, WriteEnd, history
    <3>3. Pop /\ pc = "popping" /\ (fail => lost' = lost \cup {package})
          /\ (~fail => lost' = lost)
      BY <2>2, <3>1 DEF Pop
    <3>4. fail /\ r = package
      BY <2>2, <3>3
    <3>2. r \in 1..Len(packages) /\ packages[r].to \notin Served
      BY <3>3, <3>4, AtWork DEF ServedInv
    <3> QED
      BY <1>1, <3>2
  <2> QED
    BY <2>1, <2>2
<1>5. /\ Len(dest') = Len(wire')
      /\ \A i \in 1..Len(wire') :
            /\ wire'[i].reply \in 1..Len(packages')
            /\ packages'[wire'[i].reply].to \in Served' =>
                  dest'[i] = packages'[wire'[i].reply].to
  <2>1. CASE Write
    <3> DEFINE p == packages[package]
    <3>1. PICK n : wire' = Append(wire, [reply |-> package, from |-> p.offset,
                                        upto |-> p.offset + n])
      BY <2>1 DEF Write
    <3>2. dest' = Append(dest, sock[p.fd]) /\ sock[p.fd] # 0
      BY <2>1 DEF Write
    <3>3. package \in 1..Len(packages)
      BY <2>1, AtWork DEF Write
    <3>4. /\ Len(wire) \in Nat /\ Len(dest) = Len(wire)
          /\ Len(wire') = Len(wire) + 1 /\ Len(dest') = Len(wire) + 1
          /\ \A i \in 1..Len(wire) : wire'[i] = wire[i] /\ dest'[i] = dest[i]
          /\ wire'[Len(wire) + 1].reply = package
          /\ dest'[Len(wire) + 1] = sock[p.fd]
      BY <3>1, <3>2 DEF ServedInv, TypeOK
    <3>5. ASSUME NEW i \in 1..Len(wire')
          PROVE  /\ wire'[i].reply \in 1..Len(packages')
                 /\ packages'[wire'[i].reply].to \in Served' =>
                       dest'[i] = packages'[wire'[i].reply].to
      <4>1. CASE i \in 1..Len(wire)
        <5>1. wire[i].reply \in 1..Len(packages)
          BY <4>1 DEF ServedInv
        <5>2. packages[wire[i].reply].to \in Served => dest[i] = packages[wire[i].reply].to
          BY <4>1 DEF ServedInv
        <5>3. wire'[i] = wire[i] /\ dest'[i] = dest[i]
          BY <3>4, <4>1
        <5> QED
          BY <1>1, <5>1, <5>2, <5>3
      <4>2. CASE i = Len(wire) + 1
        <5>1. wire'[i].reply = package /\ dest'[i] = sock[p.fd]
          BY <3>4, <4>2
        <5>2. p.to \in Served => sock[p.fd] = p.to
          BY <1>2, <3>3
        <5> QED
          BY <1>1, <3>3, <5>1, <5>2
      <4> QED
        BY <3>4, <4>1, <4>2
    <3> QED
      BY <3>4, <3>5
  <2>2. CASE ~Write
    <3>1. wire' = wire /\ dest' = dest
      BY <2>2 DEF Next, Connections, Sender, Open, Close, PeerGone, SendMessage,
           SenderReturn, SenderSleep, SenderTake, SpuriousWake, WriteFull,
           WriteError, SigPipe, WriteEnd, Pop, history
    <3>2. ASSUME NEW i \in 1..Len(wire)
          PROVE  /\ wire[i].reply \in 1..Len(packages)
                 /\ packages[wire[i].reply].to \in Served =>
                       dest[i] = packages[wire[i].reply].to
      BY DEF ServedInv
    <3> QED
      BY <1>1, <3>1, <3>2 DEF ServedInv
  <2> QED
    BY <2>1, <2>2
<1> QED
  BY <1>3, <1>4, <1>5 DEF ServedInv

LEMMA ConnInit == Init => ConnInv
<1> SUFFICES ASSUME Init PROVE ConnInv
  OBVIOUS
<1>1. SenderInv
  BY SenderInit
<1>2. Len(packages) = 0 /\ Len(wire) = 0 /\ Len(dest) = 0
  BY DEF Init
<1>3. AtItsFd /\ ServedInv
  BY <1>2 DEF Init, AtItsFd, ServedInv
<1> QED
  BY <1>1, <1>3 DEF ConnInv

LEMMA ConnStep == ConnInv /\ [Next]_vars => ConnInv'
<1>1. ASSUME ConnInv, Next PROVE ConnInv'
  <2>1. SenderInv'
    BY <1>1, StepKinds, SenderSend, SenderWrite, SenderPop, SenderQuiet DEF ConnInv
  <2> QED
    BY <1>1, <2>1, AtItsFdStep, ServedStep DEF ConnInv
<1>2. ASSUME ConnInv, UNCHANGED vars PROVE ConnInv'
  <2>1. SenderInv'
    BY <1>2, StepKinds, SenderQuiet DEF ConnInv, Quiet
  <2>2. AtItsFd' /\ ServedInv'
    BY <1>2 DEF ConnInv, AtItsFd, ServedInv, Served, IsOpen, vars, conns, sender, history
  <2> QED
    BY <2>1, <2>2 DEF ConnInv
<1> QED
  BY <1>1, <1>2

(* A client whose connection is open and whose peer is there gets every    *)
(* byte of every reply that left the queue, and nobody else gets them.     *)
THEOREM OpenClientIsServed == Spec => []OpenClientServed
<1>1. Spec => []ConnInv
  BY ConnInit, ConnStep, PTL DEF Spec
<1>2. ConnInv => OpenClientServed
  <2> SUFFICES ASSUME ConnInv PROVE OpenClientServed
    OBVIOUS
  <2>1. \A r \in 1..Done : packages[r].to \in Conns
    BY PackageTypes DEF Done, ConnInv, SenderInv, QueueIsSuffix
  <2>2. ASSUME NEW r \in 1..Done, IsOpen(packages[r].to), packages[r].to \notin gone
        PROVE  /\ r \notin lost
               /\ \A i \in 1..Len(wire) :
                     wire[i].reply = r => dest[i] = packages[r].to
    <3>1. packages[r].to \in Served
      BY <2>1, <2>2 DEF Served
    <3> QED
      BY <3>1 DEF ConnInv, ServedInv
  <2> QED
    BY <2>2 DEF OpenClientServed
<1> QED
  BY <1>1, <1>2, PTL

-----------------------------------------------------------------------------
(* What ReplyFifo promises, for every set of reply lengths.                *)

(* The types of the parts, which TypeOK gives for the sequences as wholes. *)
LEMMA FifoTypes ==
    ASSUME Fifo!TypeOK
    PROVE  /\ Done \in Nat /\ Len(Log) \in Nat /\ Len(wire) \in Nat
           /\ \A r \in 1..Len(Log) : Log[r] \in Nat
           /\ \A i \in 1..Len(wire) :
                 /\ wire[i] \in Fifo!Piece
                 /\ wire[i].reply \in Nat /\ wire[i].from \in Nat /\ wire[i].upto \in Nat
<1>1. Done \in Nat /\ Len(Log) \in Nat /\ Len(wire) \in Nat
  BY DEF Fifo!TypeOK
<1>2. ASSUME NEW r \in 1..Len(Log) PROVE Log[r] \in Nat
  <2>1. Log[r] \in Lens
    BY DEF Fifo!TypeOK
  <2> QED
    BY <2>1, LensAssumption
<1>3. ASSUME NEW i \in 1..Len(wire) PROVE wire[i] \in Fifo!Piece
  BY DEF Fifo!TypeOK
<1>4. ASSUME NEW w \in Fifo!Piece
      PROVE  w.reply \in Nat /\ w.from \in Nat /\ w.upto \in Nat
  BY DEF Fifo!Piece
<1> QED
  BY <1>1, <1>2, <1>3, <1>4

(* Initially nothing has been handed over and nothing is on the wire.      *)
LEMMA FifoInit == Fifo!Init => Fifo!FifoInv
BY DEF Fifo!Init, Fifo!FifoInv, Fifo!TypeOK, Fifo!Contiguous, Fifo!Complete, Fifo!NextPiece, Fifo!Piece

(* A reply handed over does not touch the wire.                            *)
LEMMA FifoAccept ==
    Fifo!FifoInv /\ Fifo!Accept => Fifo!FifoInv'
<1> SUFFICES ASSUME Fifo!FifoInv, Fifo!Accept PROVE Fifo!FifoInv'
  OBVIOUS
<1> USE DEF Fifo!FifoInv
<1>1. PICK n \in Lens : Log' = Append(Log, n)
  BY DEF Fifo!Accept
<1>2. /\ Len(Log') = Len(Log) + 1
      /\ \A r \in 1..Len(Log) : Log'[r] = Log[r]
      /\ Log'[Len(Log) + 1] = n
      /\ Log' \in Seq(Lens)
  BY <1>1 DEF Fifo!TypeOK
<1>3. UNCHANGED <<Done, Pos, wire, lost>>
  BY DEF Fifo!Accept
<1>4. Fifo!TypeOK'
  BY <1>2, <1>3 DEF Fifo!TypeOK
<1>5. Fifo!Contiguous'
  BY <1>3 DEF Fifo!Contiguous
<1>6. Fifo!Complete'
  BY <1>2, <1>3 DEF Fifo!Complete, Fifo!TypeOK
<1>7. Fifo!NextPiece'
  <2>1. \A r \in 1..Len(Log) : Log[r] \in Nat
    BY FifoTypes
  <2>2. n \in Nat
    BY LensAssumption
  <2>3. Done' = Done /\ Pos' = Pos /\ wire' = wire /\ Done \in Nat /\ Len(Log) \in Nat
    BY <1>3, FifoTypes
  <2>4. ASSUME Done < Len(Log') PROVE Pos <= Log'[Done + 1]
    BY <1>2, <2>1, <2>2, <2>3, <2>4 DEF Fifo!NextPiece, Fifo!TypeOK
  <2>5. Done # Len(Log')
    BY <1>2, <2>3 DEF Fifo!TypeOK
  <2> QED
    BY <2>3, <2>4, <2>5 DEF Fifo!NextPiece
<1> QED
  BY <1>4, <1>5, <1>6, <1>7

(* A piece goes out where the last one stopped.                            *)
LEMMA FifoEmit ==
    Fifo!FifoInv /\ Fifo!Emit => Fifo!FifoInv'
<1> SUFFICES ASSUME Fifo!FifoInv, Fifo!Emit PROVE Fifo!FifoInv'
  OBVIOUS
<1> USE DEF Fifo!FifoInv
<1>1. PICK upto \in (Pos + 1)..Log[Done + 1] :
         /\ wire' = Append(wire, [reply |-> Done + 1, from |-> Pos, upto |-> upto])
         /\ Pos' = upto
  BY DEF Fifo!Emit
<1>2. UNCHANGED <<Log, Done, lost>> /\ Done < Len(Log)
  BY DEF Fifo!Emit
<1> DEFINE p == [reply |-> Done + 1, from |-> Pos, upto |-> upto]
<1>3. /\ Log[Done + 1] \in Nat
      /\ upto \in Nat /\ upto > 0 /\ upto <= Log[Done + 1]
      /\ p \in Fifo!Piece
  <2>1. Done + 1 \in 1..Len(Log) /\ Log[Done + 1] \in Lens
    <3>1. Done + 1 \in 1..Len(Log)
      BY <1>2, FifoTypes
    <3> QED
      BY <3>1 DEF Fifo!TypeOK
  <2>2. upto \in Nat /\ upto > 0 /\ upto <= Log[Done + 1]
    BY <2>1 DEF Fifo!TypeOK
  <2>3. Log[Done + 1] \in Nat
    BY <2>1, LensAssumption
  <2>4. p \in Fifo!Piece
    BY <2>2, FifoTypes DEF Fifo!Piece, Fifo!TypeOK
  <2> QED
    BY <2>2, <2>3, <2>4
<1>4. /\ Len(wire) \in Nat
      /\ Len(wire') = Len(wire) + 1
      /\ \A i \in 1..Len(wire) : wire'[i] = wire[i]
      /\ wire'[Len(wire) + 1] = p
      /\ wire' \in Seq(Fifo!Piece)
  BY <1>1, <1>3 DEF Fifo!TypeOK
<1>5. Fifo!TypeOK'
  BY <1>1, <1>2, <1>3, <1>4 DEF Fifo!TypeOK
<1>6. Fifo!Contiguous'
  <2> SUFFICES ASSUME NEW i \in 1..Len(wire')
               PROVE  \/ /\ wire'[i].from = 0
                         /\ i > 1 => wire'[i - 1].reply < wire'[i].reply
                      \/ /\ i > 1
                         /\ wire'[i - 1].reply = wire'[i].reply
                         /\ wire'[i - 1].upto = wire'[i].from
    BY DEF Fifo!Contiguous
  <2>1. CASE i <= Len(wire)
    <3>1. /\ i \in 1..Len(wire) /\ wire'[i] = wire[i]
          /\ i > 1 => wire'[i - 1] = wire[i - 1]
      BY <1>4, <2>1
    <3>2. \/ /\ wire[i].from = 0
             /\ i > 1 => wire[i - 1].reply < wire[i].reply
          \/ /\ i > 1
             /\ wire[i - 1].reply = wire[i].reply
             /\ wire[i - 1].upto = wire[i].from
      BY <3>1, Zenon DEF Fifo!Contiguous
    <3> QED
      BY <3>1, <3>2
  <2>2. CASE i = Len(wire) + 1 /\ Pos = 0
    <3>1. i > 1 => wire[i - 1] \in Fifo!Piece /\ wire[i - 1].reply <= Done
      BY <1>4, <2>2 DEF Fifo!NextPiece, Fifo!TypeOK
    <3>2. wire'[i] = p /\ p.from = 0 /\ p.reply = Done + 1
      BY <1>4, <2>2
    <3>3. ASSUME i > 1 PROVE wire'[i - 1] = wire[i - 1] /\ wire[i - 1].reply < Done + 1
      <4>1. i - 1 \in 1..Len(wire)
        BY <1>4, <2>2, <3>3
      <4>2. wire'[i - 1] = wire[i - 1]
        BY <1>4, <4>1
      <4>3. wire[i - 1].reply \in Nat /\ wire[i - 1].reply <= Done /\ Done \in Nat
        BY <3>1, <3>3 DEF Fifo!TypeOK, Fifo!Piece
      <4> QED
        BY <4>2, <4>3
    <3> QED
      BY <3>2, <3>3
  <2>3. CASE i = Len(wire) + 1 /\ Pos > 0
    BY <1>4, <2>3 DEF Fifo!NextPiece
  <2> QED
    BY <1>4, <2>1, <2>2, <2>3 DEF Fifo!TypeOK
<1>7. Fifo!Complete'
  BY <1>2, <1>4 DEF Fifo!Complete
<1>8. Fifo!NextPiece'
  BY <1>1, <1>2, <1>3, <1>4 DEF Fifo!NextPiece, Fifo!TypeOK
<1> QED
  BY <1>5, <1>6, <1>7, <1>8

(* A reply is retired when its last byte is out, or given up.              *)
LEMMA FifoRetire ==
    Fifo!FifoInv /\ (Fifo!Retire \/ Fifo!GiveUp) => Fifo!FifoInv'
<1> SUFFICES ASSUME Fifo!FifoInv, Fifo!Retire \/ Fifo!GiveUp PROVE Fifo!FifoInv'
  OBVIOUS
<1> USE DEF Fifo!FifoInv
<1>1. /\ Done < Len(Log) /\ Done' = Done + 1 /\ Pos' = 0
      /\ UNCHANGED <<Log, wire>>
      /\ lost \subseteq lost' /\ lost' \subseteq lost \cup {Done + 1}
  BY DEF Fifo!Retire, Fifo!GiveUp
<1>2. Done + 1 \in lost' \/ Pos = Log[Done + 1]
  BY DEF Fifo!Retire, Fifo!GiveUp
<1>3. Fifo!TypeOK'
  BY <1>1 DEF Fifo!TypeOK
<1>4. Fifo!Contiguous'
  BY <1>1 DEF Fifo!Contiguous
<1>5. Fifo!Complete'
  <2> SUFFICES ASSUME NEW r \in 1..Done'
               PROVE  \/ r \in lost'
                      \/ Log[r] = 0
                      \/ \E i \in 1..Len(wire) : wire[i].reply = r /\ wire[i].upto = Log[r]
    BY <1>1 DEF Fifo!Complete
  <2>1. CASE r \in 1..Done
    BY <1>1, <2>1 DEF Fifo!Complete
  <2>2. CASE r = Done + 1
    <3>1. CASE Pos > 0 /\ Pos = Log[Done + 1]
      <4>1. Len(wire) \in 1..Len(wire)
        BY <3>1 DEF Fifo!NextPiece, Fifo!TypeOK
      <4> QED
        BY <2>2, <3>1, <4>1 DEF Fifo!NextPiece
    <3> QED
      BY <1>2, <2>2, <3>1 DEF Fifo!TypeOK
  <2> QED
    BY <1>1, <2>1, <2>2 DEF Fifo!TypeOK
<1>6. Fifo!NextPiece'
  <2>1. Done \in Nat /\ Done' = Done + 1 /\ Pos' = 0 /\ Log' = Log /\ wire' = wire
    BY <1>1 DEF Fifo!TypeOK
  <2>2. \A i \in 1..Len(wire) : wire[i].reply \in Nat /\ wire[i].reply <= Done + 1
    BY FifoTypes DEF Fifo!NextPiece
  <2>3. Done' < Len(Log) => Log[Done' + 1] \in Nat
    <3>1. Done' < Len(Log) => Done' + 1 \in 1..Len(Log)
      BY <2>1, FifoTypes
    <3> QED
      BY <3>1, FifoTypes
  <2>4. \A i \in 1..Len(wire) : wire[i].reply <= Done' + 1
    BY <2>1, <2>2
  <2> QED
    BY <2>1, <2>2, <2>3, <2>4 DEF Fifo!NextPiece
<1> QED
  BY <1>3, <1>4, <1>5, <1>6

(* FifoInv holds throughout: the pieces on the wire are contiguous and in  *)
(* order, and a reply that was retired and not given up is complete.       *)
THEOREM FifoSafe ==
    Fifo!Spec => []Fifo!FifoInv
<1>1. Fifo!FifoInv /\ [Fifo!Next]_(Fifo!vars) => Fifo!FifoInv'
  <2> SUFFICES ASSUME Fifo!FifoInv, [Fifo!Next]_(Fifo!vars) PROVE Fifo!FifoInv'
    OBVIOUS
  <2>1. CASE UNCHANGED Fifo!vars
    BY <2>1 DEF Fifo!vars, Fifo!FifoInv, Fifo!TypeOK, Fifo!Contiguous, Fifo!Complete, Fifo!NextPiece
  <2> QED
    BY <2>1, FifoAccept, FifoEmit, FifoRetire DEF Fifo!Next
<1> QED
  BY <1>1, FifoInit, PTL DEF Fifo!Spec

(* On the wire the replies are in order, each in one piece, and whole      *)
(* unless it was given up: what the FIFO promises, through the refinement. *)
THEOREM WireIsInOrder == Spec => []BytesInOrder
<1>1. Fifo!FifoInv => BytesInOrder
  BY DEF Fifo!FifoInv, BytesInOrder
<1> QED
  BY <1>1, FifoSafe, SenderImplementsFifo, PTL DEF ImplementsFifo
=============================================================================
