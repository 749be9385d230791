--------------------------- MODULE MessageFraming ---------------------------
(***************************************************************************)
(* How the bytes of one connection become messages.  A message is a header *)
(* of two ints, its command and its length (the header's own included),    *)
(* and a body.  The connection is edge-triggered: an event says that       *)
(* something has arrived, not that something is there.  On an event        *)
(* Business reads at most read_length bytes, then looks at the first bytes *)
(* of the read buffer as a header, however many of them it has.            *)
(*                                                                         *)
(* The buffer is a std::string that bytes are pushed on one by one, up to  *)
(* the first NUL of each piece.  clear() and push_back write a NUL behind  *)
(* the text and leave alone what is beyond, and Business copies a header's *)
(* worth of bytes whether the text has them or not: memory is kept apart   *)
(* from the text.                                                          *)
(*                                                                         *)
(* An int has WordSize bytes of Base values, the lowest first, and is      *)
(* signed: a highest byte of the upper half of its values makes it         *)
(* negative.                                                               *)
(***************************************************************************)
EXTENDS ProtoWire
LOCAL INSTANCE SequencesExt
LOCAL INSTANCE FiniteSetsExt

CONSTANTS
    WordSize,    \* bytes of an int
    Base,        \* values of a byte
    ReadSize,    \* the most that one call of read asks for
    Messages,    \* what the client may send
    MaxMessages  \* bound: messages sent

Header == 2 * WordSize

Signed(x)  == IF 2 * x < Base THEN x ELSE x - Base
Word(b, i) ==
    FoldRight(LAMBDA x, v : x + Base * v,
              SubSeq(b, i, i + WordSize - 2), Signed(b[i + WordSize - 1]))
Cmd(b)     == Word(b, 1)
Length(b)  == Word(b, WordSize + 1)

(* The client says how long its messages are, and read_size is larger than *)
(* a header.                                                               *)
ASSUME FramingAssumption ==
    /\ WordSize \in Nat \ {0, 1} /\ Base \in Nat \ {0, 1}
    /\ ReadSize \in Nat /\ ReadSize >= Header
    /\ MaxMessages \in Nat
    /\ Messages \subseteq Seq(0..(Base - 1))
    /\ \A m \in Messages : Len(m) >= Header /\ Length(m) = Len(m)

NON_CLIENT_FUNCTION_NUM == 2

VARIABLES
    network,        \* bytes sent and not yet arrived
    hungUp,         \* the client has closed
    socket,         \* bytes arrived and not yet read
    eof,            \* the end of the stream has arrived
    event,          \* the channel is on epoll's ready list
    pc,             \* the reactor: "idle", "reading", "closed", "dead"
    readLength,
    receivedLength,
    text,           \* the contents of the read buffer
    memory,         \* the first bytes at its c_str()
    sent,           \* history: the messages sent
    dispatched,     \* history: what on_recv was called with
    whole           \* history: no NUL was sent and every header was read in one go

channel == <<network, hungUp, socket, eof, event>>
vars == <<channel, pc, readLength, receivedLength, text, memory, sent, dispatched, whole>>

Bytes == 0..(Base - 1)

TypeOK ==
    /\ network \in Seq(Bytes) /\ socket \in Seq(Bytes)
    /\ hungUp \in BOOLEAN /\ eof \in BOOLEAN /\ event \in BOOLEAN
    /\ pc \in {"idle", "reading", "closed", "dead"}
    /\ readLength \in Nat /\ receivedLength \in Nat
    /\ text \in Seq(Bytes \ {NUL}) /\ Len(text) <= receivedLength
    /\ memory \in [1..Header -> Bytes]
    /\ sent \in Seq(Messages)
    /\ dispatched \in Seq([cmd : Int, text : Seq(Bytes \ {NUL})])
    /\ whole \in BOOLEAN

(* make_unique<Buffer>() zeroes the object before it makes the string.     *)
Init ==
    /\ network = <<>> /\ hungUp = FALSE
    /\ socket = <<>> /\ eof = FALSE /\ event = FALSE
    /\ pc = "idle"
    /\ readLength = Header /\ receivedLength = 0
    /\ text = <<>> /\ memory = [i \in 1..Header |-> NUL]
    /\ sent = <<>> /\ dispatched = <<>>
    /\ whole = TRUE

-----------------------------------------------------------------------------
(* The client and the network.                                             *)
Send(m) ==
    /\ ~ hungUp
    /\ Len(sent) < MaxMessages
    /\ sent' = Append(sent, m)
    /\ network' = network \o m
    /\ whole' = (whole /\ NulFree(m))
    /\ UNCHANGED <<hungUp, socket, eof, event, pc, readLength, receivedLength, text, memory,
                   dispatched>>

HangUp ==
    /\ ~ hungUp
    /\ hungUp' = TRUE
    /\ UNCHANGED <<network, socket, eof, event, pc, readLength, receivedLength, text, memory,
                   sent, dispatched, whole>>

Arrive(k) ==
    /\ socket' = socket \o SubSeq(network, 1, k)
    /\ network' = SubSeq(network, k + 1, Len(network))
    /\ event' = TRUE
    /\ UNCHANGED <<hungUp, eof, pc, readLength, receivedLength, text, memory, sent, dispatched,
                   whole>>

ArriveEnd ==
    /\ hungUp /\ network = <<>> /\ ~ eof
    /\ eof' = TRUE
    /\ event' = TRUE
    /\ UNCHANGED <<network, hungUp, socket, pc, readLength, receivedLength, text, memory, sent,
                   dispatched, whole>>

-----------------------------------------------------------------------------
(* The reactor.  Poll takes the event, once.                               *)
Poll ==
    /\ pc = "idle" /\ event
    /\ pc' = "reading"
    /\ event' = FALSE
    /\ UNCHANGED <<network, hungUp, socket, eof, readLength, receivedLength, text, memory, sent,
                   dispatched, whole>>

(* What is at c_str() once the text is t.                                  *)
Written(t) ==
    [i \in 1..Header |->
        IF i <= Len(t) THEN t[i] ELSE IF i = Len(t) + 1 THEN NUL ELSE memory[i]]

AppendText_KeepsNul(b) == text' = text \o b /\ memory' = Written(text \o b)
AppendText(b) == text' = text \o Cut(b) /\ memory' = Written(text \o Cut(b))

Read ==
    /\ pc = "reading" /\ readLength > 0 /\ socket # <<>>
    /\ LET n == Min({ReadSize, readLength, Len(socket)}) IN
       /\ AppendText(SubSeq(socket, 1, n))
       /\ socket' = SubSeq(socket, n + 1, Len(socket))
       /\ readLength' = readLength - n
       /\ receivedLength' = receivedLength + n
    /\ UNCHANGED <<network, hungUp, eof, event, pc, sent, dispatched, whole>>

(* Mistakes: one read for an event; reading on until there is no more.     *)
Received_OneRead ==
    /\ pc = "reading"
    /\ whole' = (whole /\ receivedLength >= Header)

Received_WhenEmpty ==
    /\ pc = "reading"
    /\ socket = <<>> /\ ~ eof
    /\ whole' = (whole /\ receivedLength >= Header)

(* Recv is back: EAGAIN, or read_length bytes have been read.              *)
Received ==
    /\ pc = "reading"
    /\ readLength = 0 \/ (socket = <<>> /\ ~ eof)
    /\ whole' = (whole /\ receivedLength >= Header)

(* The handler of a command passes the gate of ProcessMessageCallback if   *)
(* the command is below NON_CLIENT_FUNCTION_NUM or a client is at the      *)
(* descriptor, which none ever is.  GetProtobufString of a text shorter    *)
(* than a header throws.  A command below 1 names no handler: what the     *)
(* call of one does is not defined, and here it returns or does not.       *)
Gate(cmd)        == cmd < NON_CLIENT_FUNCTION_NUM
Returns(cmd, t)  == Gate(cmd) /\ cmd >= 1 => Len(t) >= Header
LoopEnds(cmd, t) == Gate(cmd) /\ (cmd >= 1 => Len(t) < Header)

Reset_KeepsText ==
    readLength' = Header /\ receivedLength' = 0 /\ UNCHANGED <<text, memory>>

Reset ==
    /\ readLength' = Header /\ receivedLength' = 0
    /\ text' = <<>> /\ memory' = Written(<<>>)

Dispatch ==
    /\ Received
    /\ receivedLength = Length(memory)
    /\ dispatched' = Append(dispatched, [cmd |-> Cmd(memory), text |-> text])
    /\ \/ Returns(Cmd(memory), text) /\ pc' = "idle" /\ Reset
       \/ /\ LoopEnds(Cmd(memory), text)
          /\ pc' = "dead"
          /\ UNCHANGED <<readLength, receivedLength, text, memory>>
    /\ UNCHANGED <<channel, sent>>

AskForRest_Whole ==
    /\ Received
    /\ receivedLength < Length(memory)
    /\ readLength' = Length(memory)
    /\ pc' = "idle"
    /\ UNCHANGED <<channel, receivedLength, text, memory, sent, dispatched>>

AskForRest ==
    /\ Received
    /\ receivedLength < Length(memory)
    /\ readLength' = Length(memory) - receivedLength
    /\ pc' = "idle"
    /\ UNCHANGED <<channel, receivedLength, text, memory, sent, dispatched>>

SomethingWrong ==
    /\ Received
    /\ receivedLength > Length(memory)
    /\ pc' = "idle"
    /\ UNCHANGED <<channel, readLength, receivedLength, text, memory, sent, dispatched>>

Close ==
    /\ pc = "reading" /\ readLength > 0 /\ socket = <<>> /\ eof
    /\ pc' = "closed"
    /\ UNCHANGED <<channel, readLength, receivedLength, text, memory, sent, dispatched, whole>>

Reactor == Poll \/ Read \/ Dispatch \/ AskForRest \/ SomethingWrong \/ Close

Next ==
    \/ \E m \in Messages : Send(m)
    \/ HangUp
    \/ \E k \in 1..Len(network) : Arrive(k)
    \/ ArriveEnd
    \/ Reactor

Spec     == Init /\ [][Next]_vars
FairSpec == Spec /\ WF_vars(Reactor)

-----------------------------------------------------------------------------
Deaf ==
    /\ pc \in {"idle", "reading"}
    /\ readLength = 0 /\ receivedLength > Length(memory)

(* The message that is being received, and how much of it has been read.   *)
Current == Len(dispatched) + 1

(* As long as no NUL was sent and every header was read in one go, what is *)
(* dispatched is what was sent, each message once, whole and in order.     *)
FramesInOrder ==
    whole => /\ Len(dispatched) <= Len(sent)
             /\ \A i \in DOMAIN dispatched :
                    dispatched[i] = [cmd |-> Cmd(sent[i]), text |-> sent[i]]

Texts(d) == [i \in DOMAIN d |-> d[i].text]

(* Then, while the reactor runs, no byte of the next message is ever read  *)
(* into this one, and none is left out: what has been read and what is     *)
(* there is what was sent.                                                 *)
(* And Business is never in the branch of what is wrong, from which the    *)
(* connection does not come back: it resets nothing (connection.cc:116).   *)
NothingBeyond ==
    whole /\ pc # "dead" =>
        /\ ~ Deaf
        /\ FlattenSeq(sent) =
               FlattenSeq(Texts(dispatched)) \o text \o socket \o network
        /\ receivedLength = Len(text)
        /\ receivedLength > 0 =>
               receivedLength + readLength \in {Header, Length(sent[Current])}

(* Bytes that are there and not announced by an event are left over by a   *)
(* Business that had read all it asked for: it does not look whether there *)
(* is more, and the next part is what it would have read                   *)
(* (connection.cc:47, 112-115).                                            *)
StallsBetweenParts ==
    whole /\ pc = "idle" /\ ~ event /\ (socket # <<>> \/ eof) => receivedLength \in {0, Header}

(* The one command that the gate lets through and that has a handler has a *)
(* NUL among its bytes, and so the text it comes with has no whole header: *)
(* ProcessRegister never gets to parse a request.  A negative command may  *)
(* come with a whole header, and names no handler (server.cc:118-119).     *)
NothingIsServed ==
    \A i \in DOMAIN dispatched :
        dispatched[i].cmd \in 1..(NON_CLIENT_FUNCTION_NUM - 1) => Len(dispatched[i].text) < Header

(* The inductive invariant.  What is in memory is the text, as far as that *)
(* goes; as long as all is whole, nothing that is under way has a NUL, the *)
(* bytes of the stream are all accounted for, and the reactor is either in *)
(* a header or in the body of a message whose header it has read.          *)
TextInMemory == \A i \in 1..Header : i <= Len(text) => memory[i] = text[i]

NoNulUnderWay == whole => NulFree(socket) /\ NulFree(network)

Accounted ==
    whole /\ pc # "dead" =>
        /\ FlattenSeq(sent) =
               FlattenSeq(Texts(dispatched)) \o text \o socket \o network
        /\ receivedLength = Len(text)

InHeader == receivedLength + readLength = Header
InBody ==
    /\ Current <= Len(sent)
    /\ receivedLength >= Header
    /\ receivedLength + readLength = Length(sent[Current])

InPart ==
    whole /\ pc # "dead" =>
        /\ InHeader \/ InBody
        /\ pc = "idle" => receivedLength = 0 \/ InBody

FramingInv ==
    /\ TypeOK /\ TextInMemory /\ NoNulUnderWay
    /\ FramesInOrder /\ Accounted /\ InPart
    /\ StallsBetweenParts /\ NothingIsServed

(* A body that is there when an event is raised for it is dispatched.      *)
BodyThere(n) ==
    /\ whole /\ pc = "idle" /\ event
    /\ Len(dispatched) = n
    /\ receivedLength = Header /\ Len(socket) >= readLength

BodyIsDispatched ==
    \A n \in 0..(MaxMessages - 1) : BodyThere(n) ~> (Len(dispatched) > n)

(* What connection.cc:102 says: all the data that is needed is processed.  *)
(* Violated: when nothing is left to come and no event is pending, a       *)
(* message that has arrived whole may not have been dispatched.            *)
AllReceivedIsProcessed ==
    pc = "idle" /\ ~ event /\ network = <<>> => Len(dispatched) = Len(sent)
=============================================================================
