--------------------------- MODULE ClientMessages ---------------------------
(***************************************************************************)
(* The messages of client_to_server.proto, as the generated classes have   *)
(* them: the fields of each, and their layout on the wire.                 *)
(***************************************************************************)
EXTENDS ProtoWire

CONSTANTS
    Texts,    \* the strings fields may have, as sequences of bytes
    Numbers   \* the int32s fields may have

ASSUME ValuesAssumption == Texts \subseteq Text /\ Numbers \subseteq Int32

CRegister == [name : Texts, password_md5 : Texts]
CRegisterLayout == <<StringField("name", 1), StringField("password_md5", 2)>>

CLogin == [name : Texts, password_md5 : Texts]
CLoginLayout == <<StringField("name", 1), StringField("password_md5", 2)>>

CUploadFile ==
    [md5 : Texts, name : Texts, size : Numbers, parent_id : Texts, no : Numbers]
CUploadFileLayout ==
    <<StringField("md5", 1), StringField("name", 2), Int32Field("size", 3),
      StringField("parent_id", 4), Int32Field("no", 5)>>

CDownLoad == [file_id : Texts, slide_no : Numbers]
CDownLoadLayout == <<StringField("file_id", 1), Int32Field("slide_no", 2)>>

CUploadData == [md5 : Texts, slide_no : Numbers, data : Texts, no : Numbers]
CUploadDataLayout ==
    <<StringField("md5", 1), Int32Field("slide_no", 2), StringField("data", 3),
      Int32Field("no", 4)>>

CDeleteFile == [file_id : Texts]
CDeleteFileLayout == <<StringField("file_id", 1)>>

CAddDirectory == [parent_id : Texts, name : Texts]
CAddDirectoryLayout == <<StringField("parent_id", 1), StringField("name", 2)>>

CDeleteDirectory == [directory_id : Texts]
CDeleteDirectoryLayout == <<StringField("directory_id", 1)>>

CModifyUser == [type : Numbers, content : Texts]
CModifyUserLayout == <<Int32Field("type", 1), StringField("content", 2)>>
=============================================================================
