--------------------------- MODULE ServerMessages ---------------------------
(***************************************************************************)
(* The messages of server_to_client.proto that the handlers send, as the   *)
(* generated classes have them.  SSync and the two messages inside it are  *)
(* left out: ProcessSync is empty and nothing makes one.                   *)
(***************************************************************************)
EXTENDS ProtoWire

CONSTANTS
    Texts,    \* the strings fields may have, as sequences of bytes
    Numbers   \* the int32s fields may have

SRegister == [state : Numbers]
SRegisterLayout == <<Int32Field("state", 1)>>

SLogin == [state : Numbers]
SLoginLayout == <<Int32Field("state", 1)>>

SUploadFile == [no : Numbers, slide_no : Numbers]
SUploadFileLayout == <<Int32Field("no", 1), Int32Field("slide_no", 2)>>

SDownload == [file_id : Texts, slide_no : Numbers, data : Texts]
SDownloadLayout ==
    <<StringField("file_id", 1), Int32Field("slide_no", 2), StringField("data", 3)>>

SDeleteFile == [state : Numbers]
SDeleteFileLayout == <<Int32Field("state", 1)>>

SAddDirectory == [state : Numbers]
SAddDirectoryLayout == <<Int32Field("state", 1)>>

SDeleteDirectory == [state : Numbers]
SDeleteDirectoryLayout == <<Int32Field("state", 1)>>

SModifyUser == [state : Numbers]
SModifyUserLayout == <<Int32Field("state", 1)>>
=============================================================================
