--------------------------- MODULE MessageExchange ---------------------------
(***************************************************************************)
(* Requests and replies of one connection as bytes.  A client serializes a *)
(* request; the server keeps what Buffer::Append lets through, parses it   *)
(* without looking at the result, runs the handler, and sends what         *)
(* Buffer::SetBuf lets through of the serialized reply.  Replies have no   *)
(* header: they stand one after the other in the stream the client reads.  *)
(*                                                                         *)
(* The handlers' decisions are left open (Accounts and Upload have them);  *)
(* what they copy from the request to the reply, to the disk and back is   *)
(* not.  Headers are left out (MessageFraming has them), and no other      *)
(* connection uploads.  A slide file is found by its folder, an md5, and   *)
(* its number; the server opens slide files and makes none.                *)
(***************************************************************************)
EXTENDS ClientMessages
LOCAL INSTANCE SequencesExt

CONSTANTS
    SlideNos,    \* the slide numbers the upload handlers answer with
    MaxReplies,  \* bound: replies the client has not read yet
    SLIDE_SIZE,  \* the most data of a slide
    FoundSlides, \* the slide files that are there, and what they hold at first
    Md5Of        \* the md5s of the files in the database, by their ids

ASSUME RepliesAssumption == SlideNos \subseteq Int32 /\ MaxReplies \in Nat

Slides == DOMAIN FoundSlides

ASSUME SlidesAssumption ==
    /\ SLIDE_SIZE \in Nat
    /\ Slides \subseteq Text \X Int32 /\ FoundSlides \in [Slides -> Text]
    /\ Md5Of \in [DOMAIN Md5Of -> Text]

Reply == INSTANCE ServerMessages WITH Numbers <- Numbers \cup SlideNos \cup {0, 1}

(* process_function_pool, in its order: the requests a handler parses.     *)
(* ProcessSync, the third, parses nothing.                                 *)
Request ==
    [CRegister        |-> CRegister,      CLogin       |-> CLogin,
     CUploadFile      |-> CUploadFile,    CDownLoad    |-> CDownLoad,
     CUploadData      |-> CUploadData,    CDeleteFile  |-> CDeleteFile,
     CAddDirectory    |-> CAddDirectory,  CDeleteDirectory |-> CDeleteDirectory,
     CModifyUser      |-> CModifyUser]

Layout ==
    [CRegister        |-> CRegisterLayout,      CLogin       |-> CLoginLayout,
     CUploadFile      |-> CUploadFileLayout,    CDownLoad    |-> CDownLoadLayout,
     CUploadData      |-> CUploadDataLayout,    CDeleteFile  |-> CDeleteFileLayout,
     CAddDirectory    |-> CAddDirectoryLayout,  CDeleteDirectory |-> CDeleteDirectoryLayout,
     CModifyUser      |-> CModifyUserLayout,
     SRegister        |-> Reply!SRegisterLayout,      SLogin      |-> Reply!SLoginLayout,
     SUploadFile      |-> Reply!SUploadFileLayout,    SDownload   |-> Reply!SDownloadLayout,
     SDeleteFile      |-> Reply!SDeleteFileLayout,
     SAddDirectory    |-> Reply!SAddDirectoryLayout,
     SDeleteDirectory |-> Reply!SDeleteDirectoryLayout,
     SModifyUser      |-> Reply!SModifyUserLayout]

Message(kind, fields) == [kind |-> kind, fields |-> fields]

Requests == UNION {{Message(kind, m) : m \in Request[kind]} : kind \in DOMAIN Request}

Nothing == Message("", <<>>)

VARIABLES
    request,    \* the request the server has received and not handled yet
    buffer,     \* its bytes in the read buffer, without the header
    disk,       \* what the slide files hold
    stream,     \* the bytes the client has to read
    replies,    \* history: the replies that are in the stream
    uploaded,   \* history: the data of each slide's last upload, if all of it was plain
    failed      \* history: the slides whose last write failed

vars == <<request, buffer, disk, stream, replies, uploaded, failed>>

OnDisk == <<disk, uploaded, failed>>

Unknown == <<NUL>>

Bytes(message) == Serialize(Layout[message.kind], message.fields)

(* Text that the parser and a C string take as it is, and plain text, that *)
(* operator>> does too.                                                    *)
Clean(s) == \A i \in DOMAIN s : s[i] \in 1..127
Plain(s) == \A i \in DOMAIN s : s[i] \in 33..127

Strings(message) ==
    LET layout == Layout[message.kind] IN
    {message.fields[layout[i].name] : i \in {j \in DOMAIN layout : layout[j].wire = LENGTH}}

AllClean(message) == \A s \in Strings(message) : Clean(s)
AllPlain(message) == \A s \in Strings(message) : Plain(s)

TypeOK ==
    /\ request \in Requests \cup {Nothing}
    /\ buffer \in Text
    /\ disk \in [Slides -> Text]
    /\ stream \in Seq(Byte)
    /\ Len(replies) <= MaxReplies
    /\ \A i \in DOMAIN replies : replies[i].kind \in DOMAIN Layout
    /\ uploaded \in [Slides -> Texts \cup {Unknown}]
    /\ failed \subseteq Slides

Init ==
    /\ request = Nothing
    /\ buffer = <<>>
    /\ disk = FoundSlides
    /\ stream = <<>>
    /\ replies = <<>>
    /\ uploaded = [slide \in Slides |-> Unknown]
    /\ failed = {}

-----------------------------------------------------------------------------
(* Receiving: Append keeps of each piece that read returns what stands     *)
(* before the first NUL.  The request may come in one piece or in two, and *)
(* is one that SerializeToString has written: no longer than an int says.  *)
Received_DropsLast(b) ==
    {Cut(SubSeq(b, 1, k)) \o Cut(SubSeq(b, k + 2, Len(b))) : k \in 0..Len(b)}

Received(b) ==
    {Cut(SubSeq(b, 1, k)) \o Cut(SubSeq(b, k + 1, Len(b))) : k \in 0..Len(b)}

Receive(message) ==
    /\ request = Nothing
    /\ Len(replies) < MaxReplies
    /\ Bytes(message) \in Text
    /\ request' = message
    /\ buffer' \in Received(Bytes(message))
    /\ UNCHANGED <<stream, replies, OnDisk>>

(* What a handler works with: the fields, however the parse ended.         *)
Seen == Parse(Layout[request.kind], buffer)

(* Connection::Send of the serialized reply; and a handler that returns    *)
(* without one.                                                            *)
Send(kind, fields) ==
    /\ replies' = Append(replies, Message(kind, fields))
    /\ stream' = stream \o Cut(Serialize(Layout[kind], fields))

Silent == UNCHANGED <<stream, replies>>

Handled(kind) ==
    /\ request.kind = kind
    /\ request' = Nothing
    /\ buffer' = <<>>

StateReply(kind, reply, states) ==
    /\ Handled(kind)
    /\ \E s \in states : Send(reply, [state |-> s])
    /\ UNCHANGED OnDisk

ProcessRegister   == StateReply("CRegister", "SRegister", {0, 1})
ProcessLogin      == StateReply("CLogin", "SLogin", {0, 1})
ProcessModifyUser == StateReply("CModifyUser", "SModifyUser", {0, 1})

StateReplyOrNone(kind, reply) ==
    \/ StateReply(kind, reply, {1})
    \/ Handled(kind) /\ Silent /\ UNCHANGED OnDisk

ProcessDeleteFile      == StateReplyOrNone("CDeleteFile", "SDeleteFile")
ProcessAddDirectory    == StateReplyOrNone("CAddDirectory", "SAddDirectory")
ProcessDeleteDirectory == StateReplyOrNone("CDeleteDirectory", "SDeleteDirectory")

SlideReply ==
    \/ \E s \in SlideNos : Send("SUploadFile", [no |-> Seen.no, slide_no |-> s])
    \/ Silent

ProcessUploadFile ==
    /\ Handled("CUploadFile")
    /\ SlideReply
    /\ UNCHANGED OnDisk

(* The files that DISK_DATA_PATH + md5 + "/" + slide_no may lead to: that   *)
(* slide, if md5 is the name of a folder; if it is empty, "." or "..", or  *)
(* has a '/', it may be any, and also a file that is no slide.             *)
FolderName(md5) ==
    /\ md5 \notin {<<>>, <<46>>, <<46, 46>>}
    /\ \A i \in DOMAIN md5 : md5[i] \notin {NUL, 47}

Reached_AnyNumber(md5, slide_no) == {slide \in Slides : slide[1] = md5}

Reached(md5, slide_no) ==
    IF FolderName(md5) THEN Slides \cap {<<md5, slide_no>>} ELSE Slides

(* What the stream has written is the data, or, with nobody looking        *)
(* whether it could, less.                                                 *)
Write(slide, data) ==
    \/ disk' = [disk EXCEPT ![slide] = data] /\ failed' = failed \ {slide}
    \/ \E n \in 0..(Len(data) - 1) :
           /\ disk' = [disk EXCEPT ![slide] = SubSeq(data, 1, n)]
           /\ failed' = failed \cup {slide}

(* What the client wanted to be where; unless its md5 and its data are     *)
(* plain, it is not known what is there now.                               *)
Note(slide) ==
    LET m == request.fields IN
    uploaded' = IF AllPlain(request) /\ FolderName(m.md5)
                THEN [uploaded EXCEPT ![<<m.md5, m.slide_no>>] = m.data]
                ELSE [uploaded EXCEPT ![slide] = Unknown]

(* WriteData returns true once it has opened the file, and false if there  *)
(* is none, it cannot be opened, or the data is too large.                 *)
ProcessUploadData ==
    /\ Handled("CUploadData")
    /\ \/ /\ Len(Seen.data) <= SLIDE_SIZE
          /\ \E slide \in Reached(Seen.md5, Seen.slide_no) :
                 Write(slide, Seen.data) /\ Note(slide)
          /\ SlideReply
       \/ ~ FolderName(Seen.md5) /\ SlideReply /\ UNCHANGED OnDisk
       \/ Silent /\ UNCHANGED OnDisk

(* ReadData: operator>> skips white space and stops at the next.           *)
IsSpace(x) == x \in 9..13 \cup {32}

Word_Short(s) == SubSeq(s, 1, Len(s) - 1)

Word(s) ==
    LET starts == {i \in DOMAIN s : ~ IsSpace(s[i])}
        first  == CHOOSE i \in starts : \A j \in starts : i <= j
        ends   == {i \in first..Len(s) : \A j \in first..i : ~ IsSpace(s[j])}
    IN  IF starts = {} THEN <<>> ELSE [k \in 1..Cardinality(ends) |-> s[first + k - 1]]

Contents(md5, slide_no) ==
    {disk[slide] : slide \in Reached(md5, slide_no)}
        \cup (IF FolderName(md5) THEN {} ELSE Texts)

ProcessDownLoad ==
    /\ Handled("CDownLoad")
    /\ \/ /\ Seen.file_id \in DOMAIN Md5Of
          /\ \E content \in Contents(Md5Of[Seen.file_id], Seen.slide_no) :
                 /\ Len(Word(content)) <= SLIDE_SIZE
                 /\ Send("SDownload",
                         [file_id |-> Seen.file_id, slide_no |-> Seen.slide_no,
                          data |-> Word(content)])
       \/ Silent
    /\ UNCHANGED OnDisk

(* The client takes what there is.                                         *)
ClientReads ==
    /\ replies # <<>>
    /\ stream' = <<>>
    /\ replies' = <<>>
    /\ UNCHANGED <<request, buffer, OnDisk>>

Process ==
    \/ ProcessRegister \/ ProcessLogin \/ ProcessUploadFile \/ ProcessDownLoad
    \/ ProcessUploadData \/ ProcessDeleteFile \/ ProcessAddDirectory
    \/ ProcessDeleteDirectory \/ ProcessModifyUser

Next ==
    \/ \E message \in Requests : Receive(message)
    \/ Process
    \/ ClientReads

Spec == Init /\ [][Next]_vars

-----------------------------------------------------------------------------
(* A request whose strings are clean text is seen by its handler as it was *)
(* sent, however it was cut into pieces: no tag, length or number of the   *)
(* format has a NUL, at which Append would stop (buffer.cc:20-27), and     *)
(* ByteSizeLong, which SerializeToString allocates by, counts them all.    *)
RequestIsSeen ==
    request # Nothing /\ AllClean(request) =>
        /\ Len(Bytes(request)) = ByteSizeLong(Layout[request.kind], request.fields)
        /\ ParseOK(Layout[request.kind], buffer)
        /\ Seen = request.fields

(* Replies of one kind that the client finds one after the other are read  *)
(* as one message, in which the later fields replace the earlier ones but  *)
(* for those that are 0: nothing says where a reply ends                   *)
(* (server.cc:155, 187, 259, 284, 339), and one whose fields all are 0, as *)
(* every refusal's are (set_state(0)), is not there at all.  What the      *)
(* client parses at once fits into the int that ParseFromString takes.     *)
OneKind ==
    \A i \in DOMAIN replies : replies[i].kind = replies[1].kind /\ AllClean(replies[i])

RepliesMerge ==
    replies # <<>> /\ OneKind /\ stream \in Text =>
        LET layout == Layout[replies[1].kind] IN
        Parse(layout, stream) = Merged(layout, replies)

(* What a download of a slide of a file brings, through two requests, the  *)
(* disk and a reply, is what was last uploaded in plain text as that slide *)
(* of its md5, and not as another, provided that this last write did not   *)
(* fail (filemd5_dao.cc:155-200).                                          *)
DownloadIsUpload ==
    [][Len(replies') > Len(replies) /\ request.kind = "CDownLoad"
       /\ AllPlain(request) /\ stream = <<>> /\ stream' \in Text =>
          LET m     == request.fields
              slide == <<Md5Of[m.file_id], m.slide_no>>
          IN  FolderName(slide[1]) /\ uploaded[slide] # Unknown /\ slide \notin failed =>
                 Parse(Layout["SDownload"], stream') =
                     [file_id |-> m.file_id, slide_no |-> m.slide_no,
                      data |-> uploaded[slide]]]_vars
=============================================================================
