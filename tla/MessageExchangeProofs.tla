----------------------- MODULE MessageExchangeProofs -----------------------
(***************************************************************************)
(* What holds of requests and replies as bytes, whatever the texts and     *)
(* numbers in them are and however a request is cut into pieces.  The      *)
(* format's own facts are in ProtoWireProofs; here they are applied to the *)
(* seventeen messages, and carried through the steps of a connection.      *)
(***************************************************************************)
EXTENDS MessageExchange, ProtoWireProofs, FiniteSetTheorems
LOCAL INSTANCE SequencesExt

-----------------------------------------------------------------------------
(* The layouts: names and numbers are not used twice, and the records of a *)
(* message are records of its layout.                                      *)
(* The field of a layout with this name and number.                        *)
IsFieldOf(f, name, number) ==
    f \in [name : {name}, number : {number}, wire : {VARINT, LENGTH}]

LEMMA FieldsMade ==
    \A name, number : /\ IsFieldOf(StringField(name, number), name, number)
                      /\ IsFieldOf(Int32Field(name, number), name, number)
BY DEF IsFieldOf, StringField, Int32Field

LEMMA GoodOne ==
    ASSUME NEW x, NEW f, IsFieldOf(f, x, 1)
    PROVE  GoodLayout(<<f>>)
BY DEF GoodLayout, Names, IsFieldOf

LEMMA GoodTwo ==
    ASSUME NEW x, NEW y, x # y, NEW f, NEW g, IsFieldOf(f, x, 1), IsFieldOf(g, y, 2)
    PROVE  GoodLayout(<<f, g>>)
BY DEF GoodLayout, Names, IsFieldOf

LEMMA GoodThree ==
    ASSUME NEW x, NEW y, NEW z, x # y, x # z, y # z, NEW f, NEW g, NEW h,
           IsFieldOf(f, x, 1), IsFieldOf(g, y, 2), IsFieldOf(h, z, 3)
    PROVE  GoodLayout(<<f, g, h>>)
BY DEF GoodLayout, Names, IsFieldOf

LEMMA GoodFour ==
    ASSUME NEW f, NEW g, NEW h, NEW k,
           IsFieldOf(f, "md5", 1), IsFieldOf(g, "slide_no", 2),
           IsFieldOf(h, "data", 3), IsFieldOf(k, "no", 4)
    PROVE  GoodLayout(<<f, g, h, k>>)
BY DEF GoodLayout, Names, IsFieldOf

LEMMA GoodFive ==
    ASSUME NEW f, NEW g, NEW h, NEW k, NEW l,
           IsFieldOf(f, "md5", 1), IsFieldOf(g, "name", 2), IsFieldOf(h, "size", 3),
           IsFieldOf(k, "parent_id", 4), IsFieldOf(l, "no", 5)
    PROVE  GoodLayout(<<f, g, h, k, l>>)
BY DEF GoodLayout, Names, IsFieldOf

LEMMA CRegisterGood ==
    GoodLayout(CRegisterLayout) /\ CRegister \subseteq Record(CRegisterLayout)
<1>1. /\ IsFieldOf(StringField("name", 1), "name", 1)
      /\ IsFieldOf(StringField("password_md5", 2), "password_md5", 2)
  BY FieldsMade
<1>2. GoodLayout(CRegisterLayout)
  BY <1>1, GoodTwo DEF CRegisterLayout
<1>3. ASSUME NEW m \in CRegister PROVE m \in Record(CRegisterLayout)
  <2>1. /\ m["name"] \in Text
        /\ m["password_md5"] \in Text
    BY ValuesAssumption DEF CRegister
  <2>2. m \in [{"name", "password_md5"} -> Value]
    BY ValuesAssumption DEF CRegister, Value
  <2>3. Names(CRegisterLayout) = {"name", "password_md5"}
    BY DEF Names, CRegisterLayout, StringField, Int32Field
  <2> QED
    BY <2>1, <2>2, <2>3 DEF Record, FieldValues, CRegisterLayout, StringField, Int32Field,
                            LENGTH, VARINT
<1> QED
  BY <1>2, <1>3

LEMMA CLoginGood ==
    GoodLayout(CLoginLayout) /\ CLogin \subseteq Record(CLoginLayout)
<1>1. /\ IsFieldOf(StringField("name", 1), "name", 1)
      /\ IsFieldOf(StringField("password_md5", 2), "password_md5", 2)
  BY FieldsMade
<1>2. GoodLayout(CLoginLayout)
  BY <1>1, GoodTwo DEF CLoginLayout
<1>3. ASSUME NEW m \in CLogin PROVE m \in Record(CLoginLayout)
  <2>1. /\ m["name"] \in Text
        /\ m["password_md5"] \in Text
    BY ValuesAssumption DEF CLogin
  <2>2. m \in [{"name", "password_md5"} -> Value]
    BY ValuesAssumption DEF CLogin, Value
  <2>3. Names(CLoginLayout) = {"name", "password_md5"}
    BY DEF Names, CLoginLayout, StringField, Int32Field
  <2> QED
    BY <2>1, <2>2, <2>3 DEF Record, FieldValues, CLoginLayout, StringField, Int32Field,
                            LENGTH, VARINT
<1> QED
  BY <1>2, <1>3

LEMMA CUploadFileGood ==
    GoodLayout(CUploadFileLayout) /\ CUploadFile \subseteq Record(CUploadFileLayout)
<1>1. /\ IsFieldOf(StringField("md5", 1), "md5", 1)
      /\ IsFieldOf(StringField("name", 2), "name", 2)
      /\ IsFieldOf(Int32Field("size", 3), "size", 3)
      /\ IsFieldOf(StringField("parent_id", 4), "parent_id", 4)
      /\ IsFieldOf(Int32Field("no", 5), "no", 5)
  BY FieldsMade
<1>2. GoodLayout(CUploadFileLayout)
  BY <1>1, GoodFive DEF CUploadFileLayout
<1>3. ASSUME NEW m \in CUploadFile PROVE m \in Record(CUploadFileLayout)
  <2>1. /\ m["md5"] \in Text
        /\ m["name"] \in Text
        /\ m["size"] \in Int32
        /\ m["parent_id"] \in Text
        /\ m["no"] \in Int32
    BY ValuesAssumption DEF CUploadFile
  <2>2. m \in [{"md5", "name", "size", "parent_id", "no"} -> Value]
    BY ValuesAssumption DEF CUploadFile, Value
  <2>3. Names(CUploadFileLayout) = {"md5", "name", "size", "parent_id", "no"}
    BY DEF Names, CUploadFileLayout, StringField, Int32Field
  <2> QED
    BY <2>1, <2>2, <2>3 DEF Record, FieldValues, CUploadFileLayout, StringField, Int32Field,
                            LENGTH, VARINT
<1> QED
  BY <1>2, <1>3

LEMMA CDownLoadGood ==
    GoodLayout(CDownLoadLayout) /\ CDownLoad \subseteq Record(CDownLoadLayout)
<1>1. /\ IsFieldOf(StringField("file_id", 1), "file_id", 1)
      /\ IsFieldOf(Int32Field("slide_no", 2), "slide_no", 2)
  BY FieldsMade
<1>2. GoodLayout(CDownLoadLayout)
  BY <1>1, GoodTwo DEF CDownLoadLayout
<1>3. ASSUME NEW m \in CDownLoad PROVE m \in Record(CDownLoadLayout)
  <2>1. /\ m["file_id"] \in Text
        /\ m["slide_no"] \in Int32
    BY ValuesAssumption DEF CDownLoad
  <2>2. m \in [{"file_id", "slide_no"} -> Value]
    BY ValuesAssumption DEF CDownLoad, Value
  <2>3. Names(CDownLoadLayout) = {"file_id", "slide_no"}
    BY DEF Names, CDownLoadLayout, StringField, Int32Field
  <2> QED
    BY <2>1, <2>2, <2>3 DEF Record, FieldValues, CDownLoadLayout, StringField, Int32Field,
                            LENGTH, VARINT
<1> QED
  BY <1>2, <1>3

LEMMA CUploadDataGood ==
    GoodLayout(CUploadDataLayout) /\ CUploadData \subseteq Record(CUploadDataLayout)
<1>1. /\ IsFieldOf(StringField("md5", 1), "md5", 1)
      /\ IsFieldOf(Int32Field("slide_no", 2), "slide_no", 2)
      /\ IsFieldOf(StringField("data", 3), "data", 3)
      /\ IsFieldOf(Int32Field("no", 4), "no", 4)
  BY FieldsMade
<1>2. GoodLayout(CUploadDataLayout)
  BY <1>1, GoodFour DEF CUploadDataLayout
<1>3. ASSUME NEW m \in CUploadData PROVE m \in Record(CUploadDataLayout)
  <2>1. /\ m["md5"] \in Text
        /\ m["slide_no"] \in Int32
        /\ m["data"] \in Text
        /\ m["no"] \in Int32
    BY ValuesAssumption DEF CUploadData
  <2>2. m \in [{"md5", "slide_no", "data", "no"} -> Value]
    BY ValuesAssumption DEF CUploadData, Value
  <2>3. Names(CUploadDataLayout) = {"md5", "slide_no", "data", "no"}
    BY DEF Names, CUploadDataLayout, StringField, Int32Field
  <2> QED
    BY <2>1, <2>2, <2>3 DEF Record, FieldValues, CUploadDataLayout, StringField, Int32Field,
                            LENGTH, VARINT
<1> QED
  BY <1>2, <1>3

LEMMA CDeleteFileGood ==
    GoodLayout(CDeleteFileLayout) /\ CDeleteFile \subseteq Record(CDeleteFileLayout)
<1>1. /\ IsFieldOf(StringField("file_id", 1), "file_id", 1)
  BY FieldsMade
<1>2. GoodLayout(CDeleteFileLayout)
  BY <1>1, GoodOne DEF CDeleteFileLayout
<1>3. ASSUME NEW m \in CDeleteFile PROVE m \in Record(CDeleteFileLayout)
  <2>1. /\ m["file_id"] \in Text
    BY ValuesAssumption DEF CDeleteFile
  <2>2. m \in [{"file_id"} -> Value]
    BY ValuesAssumption DEF CDeleteFile, Value
  <2>3. Names(CDeleteFileLayout) = {"file_id"}
    BY DEF Names, CDeleteFileLayout, StringField, Int32Field
  <2> QED
    BY <2>1, <2>2, <2>3 DEF Record, FieldValues, CDeleteFileLayout, StringField, Int32Field,
                            LENGTH, VARINT
<1> QED
  BY <1>2, <1>3

LEMMA CAddDirectoryGood ==
    GoodLayout(CAddDirectoryLayout) /\ CAddDirectory \subseteq Record(CAddDirectoryLayout)
<1>1. /\ IsFieldOf(StringField("parent_id", 1), "parent_id", 1)
      /\ IsFieldOf(StringField("name", 2), "name", 2)
  BY FieldsMade
<1>2. GoodLayout(CAddDirectoryLayout)
  BY <1>1, GoodTwo DEF CAddDirectoryLayout
<1>3. ASSUME NEW m \in CAddDirectory PROVE m \in Record(CAddDirectoryLayout)
  <2>1. /\ m["parent_id"] \in Text
        /\ m["name"] \in Text
    BY ValuesAssumption DEF CAddDirectory
  <2>2. m \in [{"parent_id", "name"} -> Value]
    BY ValuesAssumption DEF CAddDirectory, Value
  <2>3. Names(CAddDirectoryLayout) = {"parent_id", "name"}
    BY DEF Names, CAddDirectoryLayout, StringField, Int32Field
  <2> QED
    BY <2>1, <2>2, <2>3 DEF Record, FieldValues, CAddDirectoryLayout, StringField, Int32Field,
                            LENGTH, VARINT
<1> QED
  BY <1>2, <1>3

LEMMA CDeleteDirectoryGood ==
    GoodLayout(CDeleteDirectoryLayout) /\ CDeleteDirectory \subseteq Record(CDeleteDirectoryLayout)
<1>1. /\ IsFieldOf(StringField("directory_id", 1), "directory_id", 1)
  BY FieldsMade
<1>2. GoodLayout(CDeleteDirectoryLayout)
  BY <1>1, GoodOne DEF CDeleteDirectoryLayout
<1>3. ASSUME NEW m \in CDeleteDirectory PROVE m \in Record(CDeleteDirectoryLayout)
  <2>1. /\ m["directory_id"] \in Text
    BY ValuesAssumption DEF CDeleteDirectory
  <2>2. m \in [{"directory_id"} -> Value]
    BY ValuesAssumption DEF CDeleteDirectory, Value
  <2>3. Names(CDeleteDirectoryLayout) = {"directory_id"}
    BY DEF Names, CDeleteDirectoryLayout, StringField, Int32Field
  <2> QED
    BY <2>1, <2>2, <2>3 DEF Record, FieldValues, CDeleteDirectoryLayout, StringField, Int32Field,
                            LENGTH, VARINT
<1> QED
  BY <1>2, <1>3

LEMMA CModifyUserGood ==
    GoodLayout(CModifyUserLayout) /\ CModifyUser \subseteq Record(CModifyUserLayout)
<1>1. /\ IsFieldOf(Int32Field("type", 1), "type", 1)
      /\ IsFieldOf(StringField("content", 2), "content", 2)
  BY FieldsMade
<1>2. GoodLayout(CModifyUserLayout)
  BY <1>1, GoodTwo DEF CModifyUserLayout
<1>3. ASSUME NEW m \in CModifyUser PROVE m \in Record(CModifyUserLayout)
  <2>1. /\ m["type"] \in Int32
        /\ m["content"] \in Text
    BY ValuesAssumption DEF CModifyUser
  <2>2. m \in [{"type", "content"} -> Value]
    BY ValuesAssumption DEF CModifyUser, Value
  <2>3. Names(CModifyUserLayout) = {"type", "content"}
    BY DEF Names, CModifyUserLayout, StringField, Int32Field
  <2> QED
    BY <2>1, <2>2, <2>3 DEF Record, FieldValues, CModifyUserLayout, StringField, Int32Field,
                            LENGTH, VARINT
<1> QED
  BY <1>2, <1>3
StateLayout == <<Int32Field("state", 1)>>

LEMMA StateGood ==
    /\ GoodLayout(StateLayout)
    /\ \A n \in Int32 : [state |-> n] \in Record(StateLayout)
<1>1. IsFieldOf(Int32Field("state", 1), "state", 1)
  BY FieldsMade
<1>2. GoodLayout(StateLayout)
  BY <1>1, GoodOne DEF StateLayout
<1>3. ASSUME NEW n \in Int32 PROVE [state |-> n] \in Record(StateLayout)
  <2>1. [state |-> n] \in [{"state"} -> Value]
    BY DEF Value
  <2>2. Names(StateLayout) = {"state"}
    BY DEF Names, StateLayout, Int32Field
  <2> QED
    BY <2>1, <2>2 DEF Record, FieldValues, StateLayout, Int32Field, LENGTH, VARINT
<1> QED
  BY <1>2, <1>3

LEMMA StateLayouts ==
    /\ Layout["SRegister"] = StateLayout
    /\ Layout["SLogin"] = StateLayout
    /\ Layout["SDeleteFile"] = StateLayout
    /\ Layout["SAddDirectory"] = StateLayout
    /\ Layout["SDeleteDirectory"] = StateLayout
    /\ Layout["SModifyUser"] = StateLayout
BY DEF Layout, StateLayout, Int32Field, VARINT, Reply!Int32Field, Reply!VARINT,
       Reply!SRegisterLayout, Reply!SLoginLayout, Reply!SDeleteFileLayout,
       Reply!SAddDirectoryLayout, Reply!SDeleteDirectoryLayout, Reply!SModifyUserLayout

LEMMA SUploadFileGood ==
    /\ GoodLayout(Layout["SUploadFile"])
    /\ \A n, s \in Int32 : [no |-> n, slide_no |-> s] \in Record(Layout["SUploadFile"])
<1> DEFINE layout == <<Int32Field("no", 1), Int32Field("slide_no", 2)>>
<1>1. IsFieldOf(Int32Field("no", 1), "no", 1) /\ IsFieldOf(Int32Field("slide_no", 2), "slide_no", 2)
  BY FieldsMade
<1>2. GoodLayout(layout)
  BY <1>1, GoodTwo
<1>3. ASSUME NEW n \in Int32, NEW s \in Int32 PROVE [no |-> n, slide_no |-> s] \in Record(layout)
  <2>1. [no |-> n, slide_no |-> s] \in [{"no", "slide_no"} -> Value]
    BY DEF Value
  <2>2. Names(layout) = {"no", "slide_no"}
    BY DEF Names, Int32Field
  <2> QED
    BY <2>1, <2>2 DEF Record, FieldValues, Int32Field, LENGTH, VARINT
<1>4. Layout["SUploadFile"] = layout
  BY DEF Layout, Reply!SUploadFileLayout, Reply!Int32Field, Int32Field, Reply!VARINT, VARINT
<1> QED
  BY <1>2, <1>3, <1>4

LEMMA SDownloadGood ==
    /\ GoodLayout(Layout["SDownload"])
    /\ \A id, data \in Text, n \in Int32 :
          [file_id |-> id, slide_no |-> n, data |-> data] \in Record(Layout["SDownload"])
    /\ \A id, data, n :
          CleanText(id) /\ CleanText(data) =>
             CleanRecord(Layout["SDownload"], [file_id |-> id, slide_no |-> n, data |-> data])
<1> DEFINE layout == <<StringField("file_id", 1), Int32Field("slide_no", 2),
                       StringField("data", 3)>>
<1>1. /\ IsFieldOf(StringField("file_id", 1), "file_id", 1)
      /\ IsFieldOf(Int32Field("slide_no", 2), "slide_no", 2)
      /\ IsFieldOf(StringField("data", 3), "data", 3)
  BY FieldsMade
<1>2. GoodLayout(layout)
  BY <1>1, GoodThree
<1>3. ASSUME NEW id \in Text, NEW data \in Text, NEW n \in Int32
      PROVE  [file_id |-> id, slide_no |-> n, data |-> data] \in Record(layout)
  <2> DEFINE m == [file_id |-> id, slide_no |-> n, data |-> data]
  <2>1. m \in [{"file_id", "slide_no", "data"} -> Value]
    BY DEF Value
  <2>2. Names(layout) = {"file_id", "slide_no", "data"}
    BY DEF Names, StringField, Int32Field
  <2>3. m["file_id"] = id /\ m["slide_no"] = n /\ m["data"] = data
    OBVIOUS
  <2> HIDE DEF m
  <2> QED
    BY <2>1, <2>2, <2>3 DEF Record, FieldValues, StringField, Int32Field, LENGTH, VARINT
<1>4. ASSUME NEW id, NEW data, NEW n, CleanText(id), CleanText(data)
      PROVE  CleanRecord(layout, [file_id |-> id, slide_no |-> n, data |-> data])
  BY <1>4 DEF CleanRecord, StringField, Int32Field, LENGTH, VARINT
<1>5. Layout["SDownload"] = layout
  BY DEF Layout, Reply!SDownloadLayout, Reply!StringField, Reply!Int32Field, StringField,
         Int32Field, Reply!VARINT, Reply!LENGTH, VARINT, LENGTH
<1> QED
  BY <1>2, <1>3, <1>4, <1>5

-----------------------------------------------------------------------------
LEMMA Kinds ==
    /\ DOMAIN Request = {"CRegister", "CLogin", "CUploadFile", "CDownLoad", "CUploadData",
                         "CDeleteFile", "CAddDirectory", "CDeleteDirectory", "CModifyUser"}
    /\ DOMAIN Layout = DOMAIN Request \cup
                        {"SRegister", "SLogin", "SUploadFile", "SDownload", "SDeleteFile",
                         "SAddDirectory", "SDeleteDirectory", "SModifyUser"}
BY DEF Request, Layout

LEMMA LayoutsGood ==
    ASSUME NEW kind \in DOMAIN Layout
    PROVE  GoodLayout(Layout[kind])
<1>1. /\ Layout["CRegister"] = CRegisterLayout /\ Layout["CLogin"] = CLoginLayout
      /\ Layout["CUploadFile"] = CUploadFileLayout /\ Layout["CDownLoad"] = CDownLoadLayout
      /\ Layout["CUploadData"] = CUploadDataLayout /\ Layout["CDeleteFile"] = CDeleteFileLayout
      /\ Layout["CAddDirectory"] = CAddDirectoryLayout
      /\ Layout["CDeleteDirectory"] = CDeleteDirectoryLayout
      /\ Layout["CModifyUser"] = CModifyUserLayout
  BY DEF Layout
<1> QED
  BY <1>1, Kinds, CRegisterGood, CLoginGood, CUploadFileGood, CDownLoadGood, CUploadDataGood,
     CDeleteFileGood, CAddDirectoryGood, CDeleteDirectoryGood, CModifyUserGood, StateGood,
     StateLayouts, SUploadFileGood, SDownloadGood

LEMMA RequestIs ==
    ASSUME NEW message \in Requests
    PROVE  /\ message = Message(message.kind, message.fields)
           /\ message.kind \in DOMAIN Request
           /\ message.fields \in Request[message.kind]
           /\ message # Nothing
<1>1. PICK kind \in DOMAIN Request : \E m \in Request[kind] : message = Message(kind, m)
  BY DEF Requests
<1>2. PICK m \in Request[kind] : message = Message(kind, m)
  BY <1>1
<1>3. message.kind = kind /\ message.fields = m
  BY <1>2 DEF Message
<1>4. kind # ""
  BY Kinds
<1>5. message # Nothing
  <2>1. Nothing.kind = ""
    BY DEF Message, Nothing
  <2> QED
    BY <1>3, <1>4, <2>1
<1> QED
  BY <1>2, <1>3, <1>5

(* Every request is a record of its layout.                                *)
LEMMA RequestTyped ==
    ASSUME NEW message \in Requests
    PROVE  /\ message.kind \in DOMAIN Layout
           /\ GoodLayout(Layout[message.kind])
           /\ message.fields \in Record(Layout[message.kind])
<1>1. message.kind \in DOMAIN Request /\ message.fields \in Request[message.kind]
  BY RequestIs
<1>2. message.kind \in DOMAIN Layout
  BY <1>1, Kinds
<1>3. /\ Layout["CRegister"] = CRegisterLayout /\ Layout["CLogin"] = CLoginLayout
      /\ Layout["CUploadFile"] = CUploadFileLayout /\ Layout["CDownLoad"] = CDownLoadLayout
      /\ Layout["CUploadData"] = CUploadDataLayout /\ Layout["CDeleteFile"] = CDeleteFileLayout
      /\ Layout["CAddDirectory"] = CAddDirectoryLayout
      /\ Layout["CDeleteDirectory"] = CDeleteDirectoryLayout
      /\ Layout["CModifyUser"] = CModifyUserLayout
  BY DEF Layout
<1>4. /\ Request["CRegister"] = CRegister /\ Request["CLogin"] = CLogin
      /\ Request["CUploadFile"] = CUploadFile /\ Request["CDownLoad"] = CDownLoad
      /\ Request["CUploadData"] = CUploadData /\ Request["CDeleteFile"] = CDeleteFile
      /\ Request["CAddDirectory"] = CAddDirectory
      /\ Request["CDeleteDirectory"] = CDeleteDirectory
      /\ Request["CModifyUser"] = CModifyUser
  BY DEF Request
<1> QED
  BY <1>1, <1>2, <1>3, <1>4, Kinds, LayoutsGood, CRegisterGood, CLoginGood, CUploadFileGood,
     CDownLoadGood, CUploadDataGood, CDeleteFileGood, CAddDirectoryGood, CDeleteDirectoryGood,
     CModifyUserGood

(* Clean text of a request is clean text of its record, and plain text is  *)
(* clean.                                                                  *)
LEMMA CleanMessage ==
    ASSUME NEW message, AllClean(message)
    PROVE  CleanRecord(Layout[message.kind], message.fields)
BY DEF AllClean, Strings, Clean, CleanText, CleanRecord

LEMMA PlainMessage ==
    ASSUME NEW message, AllPlain(message)
    PROVE  AllClean(message)
<1>1. \A x \in 33..127 : x \in 1..127
  OBVIOUS
<1>2. \A s : Plain(s) => Clean(s)
  BY <1>1 DEF Plain, Clean
<1> QED
  BY <1>2 DEF AllPlain, AllClean

-----------------------------------------------------------------------------
LEMMA BytesAreNumbers ==
    ASSUME NEW b \in Seq(Byte)
    PROVE  b \in Seq(Int)
<1>1. \A i \in 1..Len(b) : b[i] \in Int
  <2>1. \A i \in 1..Len(b) : b[i] \in Byte
    OBVIOUS
  <2>2. Byte \subseteq Int
    BY DEF Byte
  <2> QED
    BY <2>1, <2>2
<1>2. b = [i \in 1..Len(b) |-> b[i]] /\ Len(b) \in Nat
  OBVIOUS
<1> QED
  BY <1>1, <1>2

LEMMA CutTyped ==
    ASSUME NEW b \in Seq(Byte)
    PROVE  Cut(b) \in Seq(Byte) /\ Len(Cut(b)) <= Len(b)
<1>1. b \in Seq(Int)
  BY BytesAreNumbers
<1>2. PICK k \in 0..Len(b) : Cut(b) = SubSeq(b, 1, k)
  BY <1>1, CutIsNulFree
<1> QED
  BY <1>2

(* What is received of a request is not longer than the request, and is    *)
(* all of it if no byte of it is NUL.                                      *)
LEMMA ReceivedTyped ==
    ASSUME NEW b \in Text, NEW c \in Received(b)
    PROVE  c \in Text
<1>1. PICK k \in 0..Len(b) : c = Cut(SubSeq(b, 1, k)) \o Cut(SubSeq(b, k + 1, Len(b)))
  BY DEF Received
<1> DEFINE x == SubSeq(b, 1, k)
           y == SubSeq(b, k + 1, Len(b))
<1>2. b \in Seq(Byte) /\ Len(b) \in Nat /\ Len(b) <= 2147483647
  BY DEF Text
<1>3. x \in Seq(Byte) /\ y \in Seq(Byte) /\ Len(x) = k /\ Len(y) = Len(b) - k
  BY <1>2
<1> HIDE DEF x, y
<1>4. Cut(x) \in Seq(Byte) /\ Len(Cut(x)) <= k /\ Cut(y) \in Seq(Byte) /\ Len(Cut(y)) <= Len(b) - k
  BY <1>3, CutTyped
<1> DEFINE u == Cut(x)
           v == Cut(y)
<1>5. c = u \o v
  BY <1>1 DEF x, y
<1> HIDE DEF u, v
<1>6. u \in Seq(Byte) /\ v \in Seq(Byte) /\ Len(u) <= k /\ Len(v) <= Len(b) - k
  BY <1>4 DEF u, v
<1>7. c \in Seq(Byte) /\ Len(c) = Len(u) + Len(v)
  BY <1>5, <1>6
<1> QED
  BY <1>2, <1>6, <1>7 DEF Text

LEMMA ReceivedWhole ==
    ASSUME NEW b \in Seq(Byte), NulFree(b), NEW c \in Received(b)
    PROVE  c = b
<1>1. PICK k \in 0..Len(b) : c = Cut(SubSeq(b, 1, k)) \o Cut(SubSeq(b, k + 1, Len(b)))
  BY DEF Received
<1> DEFINE x == SubSeq(b, 1, k)
           y == SubSeq(b, k + 1, Len(b))
<1>0. /\ x \in Seq(Byte) /\ y \in Seq(Byte) /\ Len(x) = k /\ Len(y) = Len(b) - k
      /\ Len(b) \in Nat /\ k \in Nat
  OBVIOUS
<1>2. x \in Seq(Int) /\ y \in Seq(Int)
  <2> HIDE DEF x, y
  <2> QED
    BY <1>0, BytesAreNumbers
<1>3. NulFree(x) /\ NulFree(y)
  BY DEF NulFree
<1>4. x \o y = b
  <2>1. \A i \in 1..k : x[i] = b[i]
    OBVIOUS
  <2>2. \A i \in 1..(Len(b) - k) : y[i] = b[k + i]
    OBVIOUS
  <2> HIDE DEF x, y
  <2>3. x \o y \in Seq(Byte) /\ Len(x \o y) = Len(b)
    BY <1>0
  <2>4. ASSUME NEW i \in 1..Len(b) PROVE (x \o y)[i] = b[i]
    <3>1. CASE i <= k
      BY <1>0, <2>1, <3>1
    <3>2. CASE i > k
      <4>1. i - k \in 1..(Len(b) - k) /\ k + (i - k) = i
        BY <1>0, <3>2
      <4>2. y[i - k] = b[i]
        BY <2>2, <4>1
      <4> QED
        BY <1>0, <3>2, <4>1, <4>2
    <3> QED
      BY <1>0, <3>1, <3>2
  <2> DEFINE c2 == x \o y
  <2>5. c2 \in Seq(Byte) /\ Len(c2) = Len(b) /\ \A i \in 1..Len(b) : c2[i] = b[i]
    BY <2>3, <2>4
  <2> HIDE DEF c2
  <2>6. c2 = b
    BY <2>5
  <2> QED
    BY <2>6 DEF c2
<1> HIDE DEF x, y
<1>5. Cut(x) = x /\ Cut(y) = y
  BY <1>2, <1>3, CutPlain
<1> QED
  BY <1>1, <1>4, <1>5 DEF x, y

-----------------------------------------------------------------------------
(* A word is not longer than the text it is read from, and is all of it if *)
(* there is no white space in it.                                          *)
Starts(s)  == {i \in DOMAIN s : ~ IsSpace(s[i])}
First(s)   == CHOOSE i \in Starts(s) : \A j \in Starts(s) : i <= j
Ends(s)    == {i \in First(s)..Len(s) : \A j \in First(s)..i : ~ IsSpace(s[j])}

LEMMA WordIs ==
    ASSUME NEW s
    PROVE  Word(s) = IF Starts(s) = {} THEN <<>>
                     ELSE [k \in 1..Cardinality(Ends(s)) |-> s[First(s) + k - 1]]
BY Zenon DEF Word, Starts, First, Ends

LEMMA WordEnds ==
    ASSUME NEW s \in Seq(Byte), Starts(s) # {}
    PROVE  /\ First(s) \in Starts(s) /\ \A j \in Starts(s) : First(s) <= j
           /\ First(s) \in 1..Len(s)
           /\ Cardinality(Ends(s)) \in Nat
           /\ Cardinality(Ends(s)) <= Len(s) - First(s) + 1
           /\ Cardinality(First(s)..Len(s)) = Len(s) - First(s) + 1
<1>1. Starts(s) \subseteq Nat /\ Starts(s) \subseteq 1..Len(s)
  BY DEF Starts
<1>2. \E i \in Starts(s) : \A j \in Starts(s) : i <= j
  BY <1>1, LeastOf
<1>3. First(s) \in Starts(s) /\ \A j \in Starts(s) : First(s) <= j
  BY <1>2 DEF First
<1>4. First(s) \in Int /\ Len(s) \in Int /\ First(s) \in 1..Len(s)
  BY <1>1, <1>3
<1>5. IsFiniteSet(First(s)..Len(s)) /\ Cardinality(First(s)..Len(s)) = Len(s) - First(s) + 1
  BY <1>4, FS_Interval
<1>6. Ends(s) \in SUBSET (First(s)..Len(s))
  BY DEF Ends
<1>7. IsFiniteSet(Ends(s)) /\ Cardinality(Ends(s)) <= Cardinality(First(s)..Len(s))
  BY <1>5, <1>6, FS_Subset
<1>8. Cardinality(Ends(s)) \in Nat
  BY <1>7, FS_CardinalityType
<1> QED
  BY <1>3, <1>4, <1>5, <1>7, <1>8

LEMMA WordTyped ==
    ASSUME NEW s \in Text
    PROVE  Word(s) \in Text
<1>1. s \in Seq(Byte) /\ Len(s) \in Nat /\ Len(s) <= 2147483647
  BY DEF Text
<1>2. CASE Starts(s) = {}
  <2>1. Word(s) = <<>>
    BY <1>2, WordIs
  <2> QED
    BY <2>1 DEF Text
<1>3. CASE Starts(s) # {}
  <2> DEFINE n == Cardinality(Ends(s))
             f == First(s)
  <2>1. Word(s) = [k \in 1..n |-> s[f + k - 1]]
    BY <1>3, WordIs
  <2>2. f \in 1..Len(s) /\ n \in Nat /\ n <= Len(s) - f + 1
    BY <1>1, <1>3, WordEnds
  <2> HIDE DEF n, f
  <2>3. Word(s) \in Seq(Byte) /\ Len(Word(s)) = n
    BY <1>1, <2>1, <2>2
  <2> QED
    BY <1>1, <2>2, <2>3 DEF Text
<1> QED
  BY <1>2, <1>3

LEMMA WordOfPlain ==
    ASSUME NEW s \in Text, Plain(s)
    PROVE  Word(s) = s
<1>1. s \in Seq(Byte) /\ Len(s) \in Nat
  BY DEF Text
<1>2. Starts(s) = DOMAIN s
  <2>1. \A x \in 33..127 : ~ IsSpace(x)
    BY DEF IsSpace
  <2> QED
    BY <2>1 DEF Plain, Starts
<1>3. CASE s = <<>>
  <2>1. Starts(s) = {}
    BY <1>2, <1>3
  <2>2. Word(s) = <<>>
    BY <2>1, WordIs
  <2> QED
    BY <1>3, <2>2
<1>4. CASE s # <<>>
  <2>1. DOMAIN s = 1..Len(s) /\ Len(s) >= 1 /\ 1 \in DOMAIN s
    BY <1>1, <1>4
  <2>2. Starts(s) # {}
    BY <1>2, <2>1
  <2>3. First(s) = 1
    BY <1>1, <1>2, <2>1, <2>2, WordEnds
  <2>4. Ends(s) = First(s)..Len(s)
    BY <1>1, <1>2, <2>1, <2>3 DEF Ends, Starts
  <2>5. Cardinality(Ends(s)) = Len(s)
    BY <1>1, <2>2, <2>3, <2>4, WordEnds
  <2>6. Word(s) = [k \in 1..Len(s) |-> s[1 + k - 1]]
    BY <2>2, <2>3, <2>5, WordIs
  <2> QED
    BY <1>1, <2>6
<1> QED
  BY <1>3, <1>4

-----------------------------------------------------------------------------
(* The inductive invariant.                                                *)
AReply == {m \in [kind : DOMAIN Layout, fields : UNION {Record(Layout[k]) : k \in DOMAIN Layout}] :
              m.fields \in Record(Layout[m.kind])}

Cuts(rs) == [i \in DOMAIN rs |-> Cut(Bytes(rs[i]))]

(* The buffer holds what Append let through of the request it is about.    *)
RequestReceived ==
    request # Nothing =>
        /\ Bytes(request) \in Text
        /\ buffer \in Received(Bytes(request))
        /\ Len(replies) < MaxReplies

(* The stream is what SetBuf let through of the replies, in their order.   *)
StreamIsReplies ==
    /\ replies \in Seq(AReply)
    /\ stream = FlattenSeq(Cuts(replies))

(* What was uploaded in plain text as a slide is in its file, unless the   *)
(* last write of it failed.                                                *)
SlideIsUpload ==
    \A slide \in Slides :
        uploaded[slide] # Unknown /\ slide \notin failed =>
            disk[slide] = uploaded[slide] /\ Plain(uploaded[slide])

ExchangeInv ==
    /\ TypeOK
    /\ RequestReceived
    /\ StreamIsReplies
    /\ SlideIsUpload

LEMMA ReplyTyped ==
    ASSUME NEW message \in AReply
    PROVE  /\ message.kind \in DOMAIN Layout
           /\ message.fields \in Record(Layout[message.kind])
           /\ Bytes(message) \in Seq(Byte)
           /\ Cut(Bytes(message)) \in Seq(Byte)
<1>1. message.kind \in DOMAIN Layout /\ message.fields \in Record(Layout[message.kind])
  BY DEF AReply
<1>2. Bytes(message) \in Seq(Byte)
  BY <1>1, LayoutsGood, PiecesTyped DEF Bytes
<1> QED
  BY <1>1, <1>2, CutTyped

LEMMA CutsTyped ==
    ASSUME NEW rs \in Seq(AReply)
    PROVE  Cuts(rs) \in Seq(Seq(Byte)) /\ Len(Cuts(rs)) = Len(rs) /\ DOMAIN rs = 1..Len(rs)
<1>1. Len(rs) \in Nat /\ DOMAIN rs = 1..Len(rs)
  OBVIOUS
<1>2. \A i \in 1..Len(rs) : rs[i] \in AReply
  OBVIOUS
<1>3. \A i \in 1..Len(rs) : Cut(Bytes(rs[i])) \in Seq(Byte)
  BY <1>2, ReplyTyped
<1>4. Cuts(rs) = [i \in 1..Len(rs) |-> Cut(Bytes(rs[i]))]
  BY <1>1 DEF Cuts
<1> QED
  BY <1>1, <1>3, <1>4

LEMMA CutsAppend ==
    ASSUME NEW rs \in Seq(AReply), NEW r \in AReply
    PROVE  /\ Append(rs, r) \in Seq(AReply)
           /\ FlattenSeq(Cuts(Append(rs, r))) = FlattenSeq(Cuts(rs)) \o Cut(Bytes(r))
<1> DEFINE t == Append(rs, r)
           n == Len(rs)
<1>1. t \in Seq(AReply) /\ Len(t) = n + 1 /\ n \in Nat /\ t[n + 1] = r
      /\ \A i \in 1..n : t[i] = rs[i]
  OBVIOUS
<1> HIDE DEF t
<1>2. /\ Cuts(t) \in Seq(Seq(Byte)) /\ Len(Cuts(t)) = n + 1 /\ DOMAIN t = 1..(n + 1)
      /\ Cuts(rs) \in Seq(Seq(Byte)) /\ Len(Cuts(rs)) = n /\ DOMAIN rs = 1..n
  BY <1>1, CutsTyped
<1> DEFINE x == Cut(Bytes(r))
           a == Cuts(rs)
           b == Cuts(t)
<1>3. \A i \in 1..n : b[i] = a[i]
  <2>1. ASSUME NEW i \in 1..n PROVE b[i] = a[i]
    <3>1. i \in DOMAIN t /\ i \in DOMAIN rs /\ t[i] = rs[i]
      BY <1>1, <1>2
    <3> QED
      BY <3>1 DEF Cuts
  <2> QED
    BY <2>1
<1>4. b[n + 1] = x
  <2>1. n + 1 \in DOMAIN t
    BY <1>1, <1>2
  <2> QED
    BY <1>1, <2>1 DEF Cuts
<1>5. x \in Seq(Byte)
  BY ReplyTyped
<1> HIDE DEF x, a, b
<1>6. a \in Seq(Seq(Byte)) /\ b \in Seq(Seq(Byte)) /\ Len(a) = n /\ Len(b) = n + 1
  BY <1>2 DEF a, b
<1>7. b = Append(a, x)
  BY <1>1, <1>3, <1>4, <1>5, <1>6
<1>8. FlattenSeq(Append(a, x)) = FlattenSeq(a) \o x
  BY <1>5, <1>6, FlattenAppend
<1> QED
  BY <1>1, <1>7, <1>8 DEF t, a, b, x

(* What the handler has parsed is a record of its message.                 *)
LEMMA SeenTyped ==
    ASSUME ExchangeInv, request # Nothing
    PROVE  /\ request \in Requests
           /\ Seen \in Record(Layout[request.kind])
<1>1. request \in Requests /\ buffer \in Text
  BY DEF ExchangeInv, TypeOK
<1> QED
  BY <1>1, RequestTyped, ParseTyped DEF Seen

(* A reply that is sent: one more at the end of the stream.                *)
LEMMA SendKeeps ==
    ASSUME ExchangeInv, NEW kind \in DOMAIN Layout, NEW fields \in Record(Layout[kind]),
           Send(kind, fields), request # Nothing
    PROVE  /\ StreamIsReplies'
           /\ stream' \in Seq(Byte)
           /\ Len(replies') <= MaxReplies
           /\ \A i \in DOMAIN replies' : replies'[i].kind \in DOMAIN Layout
<1> DEFINE r == Message(kind, fields)
<1>1. r \in AReply /\ Bytes(r) = Serialize(Layout[kind], fields)
  BY DEF AReply, Message, Bytes
<1>2. replies' = Append(replies, r) /\ stream' = stream \o Cut(Bytes(r))
  BY <1>1 DEF Send
<1>3. replies \in Seq(AReply) /\ stream = FlattenSeq(Cuts(replies)) /\ stream \in Seq(Byte)
      /\ Len(replies) < MaxReplies
  BY DEF ExchangeInv, StreamIsReplies, TypeOK, RequestReceived
<1> HIDE DEF r
<1>4. /\ Append(replies, r) \in Seq(AReply)
      /\ FlattenSeq(Cuts(Append(replies, r))) = FlattenSeq(Cuts(replies)) \o Cut(Bytes(r))
  BY <1>1, <1>3, CutsAppend
<1>5. StreamIsReplies'
  BY <1>2, <1>3, <1>4 DEF StreamIsReplies, Cuts, Bytes
<1>6. Cut(Bytes(r)) \in Seq(Byte)
  BY <1>1, ReplyTyped
<1> DEFINE c == Cut(Bytes(r))
<1>7. stream' \in Seq(Byte)
  <2>1. c \in Seq(Byte) /\ stream' = stream \o c
    BY <1>2, <1>6
  <2> HIDE DEF c
  <2> QED
    BY <1>3, <2>1
<1>8. Len(replies') <= MaxReplies
  BY <1>2, <1>3, RepliesAssumption
<1>9. \A i \in DOMAIN replies' : replies'[i].kind \in DOMAIN Layout
  <2>1. replies' \in Seq(AReply)
    BY <1>2, <1>4
  <2>2. \A i \in DOMAIN replies' : replies'[i] \in AReply
    BY <2>1
  <2> QED
    BY <2>2, ReplyTyped
<1> QED
  BY <1>5, <1>7, <1>8, <1>9

(* A request of clean text is parsed as it was sent.                       *)
LEMMA CleanRequest ==
    ASSUME ExchangeInv
    PROVE  RequestIsSeen
<1> SUFFICES ASSUME request # Nothing, AllClean(request)
             PROVE  /\ Len(Bytes(request)) = ByteSizeLong(Layout[request.kind], request.fields)
                    /\ ParseOK(Layout[request.kind], buffer)
                    /\ Seen = request.fields
  BY DEF RequestIsSeen
<1> DEFINE L == Layout[request.kind]
           m == request.fields
           b == Serialize(L, m)
<1>1. /\ request \in Requests /\ Bytes(request) \in Text /\ buffer \in Received(Bytes(request))
  BY DEF ExchangeInv, TypeOK, RequestReceived
<1>2. GoodLayout(L) /\ m \in Record(L) /\ CleanRecord(L, m)
  BY <1>1, RequestTyped, CleanMessage
<1>3. Bytes(request) = b
  BY DEF Bytes
<1>4. Seen = Parse(L, buffer)
  BY DEF Seen
<1> HIDE DEF L, m
<1>5. Len(b) = ByteSizeLong(L, m) /\ NulFree(b)
  BY <1>2, SerializeSize, SerializeNulFree
<1>6. b \in Seq(Byte) /\ Len(b) <= 2147483647
  BY <1>1, <1>3 DEF Text
<1>7. ParseOK(L, b) /\ Parse(L, b) = m
  BY <1>2, <1>6, RoundTrip
<1>8. buffer = b
  <2> HIDE DEF b
  <2> QED
    BY <1>1, <1>3, <1>5, <1>6, ReceivedWhole
<1> QED
  BY <1>3, <1>4, <1>5, <1>7, <1>8 DEF L, m

LEMMA NothingIs == Nothing.kind = ""
BY DEF Nothing, Message

(* The fields handlers use.                                                *)
LEMMA SeenFields ==
    ASSUME ExchangeInv
    PROVE  /\ request.kind = "CUploadFile" => Seen.no \in Int32
           /\ request.kind = "CUploadData" => Seen.no \in Int32 /\ Seen.data \in Text
           /\ request.kind = "CDownLoad" => Seen.file_id \in Text /\ Seen.slide_no \in Int32
<1>1. request.kind # "" => Seen \in Record(Layout[request.kind])
  BY SeenTyped, NothingIs
<1>2. ASSUME request.kind = "CUploadFile" PROVE Seen.no \in Int32
  <2>1. Seen \in Record(CUploadFileLayout)
    BY <1>1, <1>2 DEF Layout
  <2> QED
    BY <2>1 DEF Record, FieldValues, CUploadFileLayout, StringField, Int32Field, LENGTH, VARINT
<1>3. ASSUME request.kind = "CUploadData" PROVE Seen.no \in Int32 /\ Seen.data \in Text
  <2>1. Seen \in Record(CUploadDataLayout)
    BY <1>1, <1>3 DEF Layout
  <2> QED
    BY <2>1 DEF Record, FieldValues, CUploadDataLayout, StringField, Int32Field, LENGTH, VARINT
<1>4. ASSUME request.kind = "CDownLoad" PROVE Seen.file_id \in Text /\ Seen.slide_no \in Int32
  <2>1. Seen \in Record(CDownLoadLayout)
    BY <1>1, <1>4 DEF Layout
  <2> QED
    BY <2>1 DEF Record, FieldValues, CDownLoadLayout, StringField, Int32Field, LENGTH, VARINT
<1> QED
  BY <1>2, <1>3, <1>4

-----------------------------------------------------------------------------
(* What a handler has to leave behind for the stream, and for the rest.    *)
StreamGood ==
    /\ StreamIsReplies
    /\ stream \in Seq(Byte)
    /\ Len(replies) <= MaxReplies
    /\ \A i \in DOMAIN replies : replies[i].kind \in DOMAIN Layout

DiskGood ==
    /\ disk \in [Slides -> Text]
    /\ uploaded \in [Slides -> Texts \cup {Unknown}]
    /\ failed \subseteq Slides
    /\ SlideIsUpload

LEMMA HandledIs ==
    ASSUME NEW kind \in DOMAIN Request, Handled(kind)
    PROVE  request # Nothing /\ request.kind = kind /\ request' = Nothing /\ buffer' = <<>>
<1>1. kind # ""
  BY Kinds
<1> QED
  BY <1>1, NothingIs DEF Handled

LEMMA SilentKeeps ==
    ASSUME ExchangeInv, Silent
    PROVE  StreamGood'
BY DEF ExchangeInv, TypeOK, StreamIsReplies, StreamGood, Silent, Cuts, Bytes

LEMMA HandledKeeps ==
    ASSUME NEW kind \in DOMAIN Request, Handled(kind), StreamGood', DiskGood'
    PROVE  ExchangeInv'
<1>1. request' = Nothing /\ buffer' = <<>>
  BY HandledIs
<1>2. buffer' \in Text
  BY <1>1 DEF Text
<1>3. TypeOK'
  BY <1>1, <1>2 DEF TypeOK, StreamGood, DiskGood
<1>4. RequestReceived'
  BY <1>1 DEF RequestReceived
<1> QED
  BY <1>3, <1>4 DEF ExchangeInv, StreamGood, DiskGood

LEMMA DiskKept ==
    ASSUME ExchangeInv, UNCHANGED OnDisk
    PROVE  DiskGood'
BY DEF ExchangeInv, TypeOK, DiskGood, OnDisk, SlideIsUpload, Plain

LEMMA SendGood ==
    ASSUME ExchangeInv, NEW kind \in DOMAIN Layout, NEW fields \in Record(Layout[kind]),
           Send(kind, fields), request # Nothing
    PROVE  StreamGood'
BY SendKeeps DEF StreamGood

LEMMA StateReplyKeeps ==
    ASSUME ExchangeInv, NEW kind \in DOMAIN Request, NEW reply \in DOMAIN Layout,
           Layout[reply] = StateLayout, NEW states \in SUBSET {0, 1},
           StateReply(kind, reply, states)
    PROVE  ExchangeInv'
<1>1. Handled(kind) /\ UNCHANGED OnDisk
  BY DEF StateReply
<1>2. PICK s \in states : Send(reply, [state |-> s])
  BY DEF StateReply
<1>3. s \in Int32
  BY DEF Int32
<1>4. [state |-> s] \in Record(Layout[reply])
  BY <1>3, StateGood
<1>5. request # Nothing
  BY <1>1, HandledIs
<1>6. StreamGood'
  BY <1>2, <1>4, <1>5, SendGood
<1> QED
  BY <1>1, <1>6, DiskKept, HandledKeeps

LEMMA StateReplyOrNoneKeeps ==
    ASSUME ExchangeInv, NEW kind \in DOMAIN Request, NEW reply \in DOMAIN Layout,
           Layout[reply] = StateLayout, StateReplyOrNone(kind, reply)
    PROVE  ExchangeInv'
<1>1. CASE StateReply(kind, reply, {1})
  BY <1>1, StateReplyKeeps
<1>2. CASE Handled(kind) /\ Silent /\ UNCHANGED OnDisk
  BY <1>2, SilentKeeps, DiskKept, HandledKeeps
<1> QED
  BY <1>1, <1>2 DEF StateReplyOrNone

LEMMA SlideReplyGood ==
    ASSUME ExchangeInv, SlideReply, request # Nothing, Seen.no \in Int32
    PROVE  StreamGood'
<1>1. CASE Silent
  BY <1>1, SilentKeeps
<1>2. ASSUME NEW s \in SlideNos, Send("SUploadFile", [no |-> Seen.no, slide_no |-> s])
      PROVE  StreamGood'
  <2>1. s \in Int32
    BY RepliesAssumption
  <2> DEFINE n == Seen.no
             f == [no |-> n, slide_no |-> s]
  <2>2. n \in Int32
    OBVIOUS
  <2> HIDE DEF n
  <2>3. f \in Record(Layout["SUploadFile"]) /\ "SUploadFile" \in DOMAIN Layout
    BY <2>1, <2>2, SUploadFileGood, Kinds
  <2>4. Send("SUploadFile", f)
    BY <1>2 DEF n
  <2> HIDE DEF f
  <2> QED
    BY <2>3, <2>4, SendGood
<1> QED
  BY <1>1, <1>2 DEF SlideReply

-----------------------------------------------------------------------------
(* The invariant holds of the first state and is kept by every step.       *)
LEMMA InitEstablishes ==
    ASSUME Init
    PROVE  ExchangeInv
<1>1. <<>> \in Text
  BY DEF Text
<1>2. TypeOK
  BY <1>1, RepliesAssumption, SlidesAssumption DEF Init, TypeOK
<1>3. Cuts(<<>>) = <<>>
  BY DEF Cuts
<1>4. StreamIsReplies
  BY <1>3, FlattenEmpty DEF Init, StreamIsReplies
<1>5. SlideIsUpload
  BY DEF Init, SlideIsUpload
<1> QED
  BY <1>2, <1>4, <1>5 DEF Init, ExchangeInv, RequestReceived

LEMMA ReceiveKeeps ==
    ASSUME ExchangeInv, NEW message \in Requests, Receive(message)
    PROVE  ExchangeInv'
<1>1. /\ request' = message /\ Bytes(message) \in Text /\ Len(replies) < MaxReplies
      /\ buffer' \in Received(Bytes(message))
      /\ stream' = stream /\ replies' = replies /\ UNCHANGED <<disk, uploaded, failed>>
  BY DEF Receive, OnDisk
<1>2. buffer' \in Text
  BY <1>1, ReceivedTyped
<1>3. TypeOK'
  BY <1>1, <1>2 DEF ExchangeInv, TypeOK
<1>4. Bytes(request)' = Bytes(message)
  BY <1>1 DEF Bytes
<1>5. RequestReceived'
  BY <1>1, <1>4 DEF RequestReceived
<1>6. StreamIsReplies' /\ SlideIsUpload'
  BY <1>1 DEF ExchangeInv, StreamIsReplies, SlideIsUpload, Cuts, Bytes, Plain
<1> QED
  BY <1>3, <1>5, <1>6 DEF ExchangeInv

LEMMA UploadFileKeeps ==
    ASSUME ExchangeInv, ProcessUploadFile
    PROVE  ExchangeInv'
<1>1. "CUploadFile" \in DOMAIN Request /\ Handled("CUploadFile") /\ SlideReply
      /\ UNCHANGED OnDisk
  BY Kinds DEF ProcessUploadFile
<1>2. request # Nothing /\ Seen.no \in Int32
  BY <1>1, HandledIs, SeenFields
<1>3. StreamGood'
  BY <1>1, <1>2, SlideReplyGood
<1> QED
  BY <1>1, <1>3, DiskKept, HandledKeeps

(* A path leads to a slide: if its md5 names a folder, to the one meant.   *)
LEMMA ReachedIs ==
    ASSUME NEW md5, NEW slide_no, NEW slide \in Reached(md5, slide_no)
    PROVE  slide \in Slides /\ (FolderName(md5) => slide = <<md5, slide_no>>)
BY DEF Reached

(* What of a plain upload the history notes is the data that is written.   *)
LEMMA NotedIs ==
    ASSUME ExchangeInv, request.kind = "CUploadData",
           NEW slide \in Reached(Seen.md5, Seen.slide_no), Note(slide)
    PROVE  \E u \in Texts \cup {Unknown} :
               /\ uploaded' = [uploaded EXCEPT ![slide] = u]
               /\ u # Unknown => u = Seen.data /\ Plain(u)
<1> DEFINE m == request.fields
<1>1. request # Nothing /\ request \in Requests
  <2>1. request # Nothing
    BY NothingIs
  <2> QED
    BY <2>1, SeenTyped
<1>2. CASE AllPlain(request) /\ FolderName(m.md5)
  <2>1. Seen = m
    BY <1>1, <1>2, PlainMessage, CleanRequest DEF RequestIsSeen
  <2>2. slide = <<m.md5, m.slide_no>>
    BY <1>2, <2>1, ReachedIs
  <2>3. uploaded' = [uploaded EXCEPT ![slide] = m.data]
    BY <1>2, <2>2 DEF Note
  <2>4. m \in CUploadData /\ Layout[request.kind] = CUploadDataLayout
    BY <1>1, RequestIs DEF Request, Layout
  <2>5. m.data \in Texts
    BY <2>4 DEF CUploadData
  <2>6. m.data \in Strings(request)
    <3>1. 3 \in DOMAIN CUploadDataLayout /\ CUploadDataLayout[3].wire = LENGTH
          /\ CUploadDataLayout[3].name = "data"
      BY DEF CUploadDataLayout, StringField, Int32Field
    <3> QED
      BY <2>4, <3>1 DEF Strings
  <2>7. Plain(m.data)
    BY <1>2, <2>6 DEF AllPlain
  <2> QED
    BY <2>1, <2>3, <2>5, <2>7
<1>3. CASE ~ (AllPlain(request) /\ FolderName(m.md5))
  <2>1. uploaded' = [uploaded EXCEPT ![slide] = Unknown]
    BY <1>3 DEF Note
  <2> QED
    BY <2>1
<1> QED
  BY <1>2, <1>3

(* A write leaves the data in the file, or the file among the failed ones. *)
LEMMA WriteKeeps ==
    ASSUME ExchangeInv, NEW slide \in Slides, NEW data \in Text, NEW u \in Texts \cup {Unknown},
           Write(slide, data), uploaded' = [uploaded EXCEPT ![slide] = u],
           u # Unknown => u = data /\ Plain(u)
    PROVE  DiskGood'
<1>1. /\ disk \in [Slides -> Text] /\ uploaded \in [Slides -> Texts \cup {Unknown}]
      /\ failed \subseteq Slides /\ SlideIsUpload
  BY DEF ExchangeInv, TypeOK
<1>2. PICK x \in Text : /\ disk' = [disk EXCEPT ![slide] = x]
                        /\ \/ failed' = failed \ {slide} /\ x = data
                           \/ failed' = failed \cup {slide}
  <2>1. CASE disk' = [disk EXCEPT ![slide] = data] /\ failed' = failed \ {slide}
    BY <2>1
  <2>2. ASSUME NEW n \in 0..(Len(data) - 1), disk' = [disk EXCEPT ![slide] = SubSeq(data, 1, n)],
               failed' = failed \cup {slide}
        PROVE  \E x \in Text : /\ disk' = [disk EXCEPT ![slide] = x]
                               /\ failed' = failed \cup {slide}
    <3>1. data \in Seq(Byte) /\ Len(data) \in Nat /\ Len(data) <= 2147483647
      BY DEF Text
    <3>2. SubSeq(data, 1, n) \in Seq(Byte) /\ Len(SubSeq(data, 1, n)) = n
      BY <3>1
    <3>3. SubSeq(data, 1, n) \in Text
      BY <3>1, <3>2 DEF Text
    <3> QED
      BY <2>2, <3>3
  <2> QED
    BY <2>1, <2>2 DEF Write
<1>3. /\ disk' \in [Slides -> Text] /\ uploaded' \in [Slides -> Texts \cup {Unknown}]
      /\ failed' \subseteq Slides
  BY <1>1, <1>2
<1>4. ASSUME NEW other \in Slides, uploaded'[other] # Unknown, other \notin failed'
      PROVE  disk'[other] = uploaded'[other] /\ Plain(uploaded'[other])
  <2>1. CASE other = slide
    <3>1. x = data /\ uploaded'[slide] = u /\ disk'[slide] = x
      BY <1>1, <1>2, <1>4, <2>1
    <3> QED
      BY <1>4, <2>1, <3>1
  <2>2. CASE other # slide
    <3>1. /\ uploaded'[other] = uploaded[other] /\ disk'[other] = disk[other]
          /\ other \notin failed
      BY <1>1, <1>2, <1>4, <2>2
    <3> QED
      BY <1>1, <1>4, <3>1 DEF SlideIsUpload
  <2> QED
    BY <2>1, <2>2
<1>5. SlideIsUpload'
  BY <1>4 DEF SlideIsUpload, Plain
<1> QED
  BY <1>3, <1>5 DEF DiskGood

LEMMA UploadDataKeeps ==
    ASSUME ExchangeInv, ProcessUploadData
    PROVE  ExchangeInv'
<1>1. "CUploadData" \in DOMAIN Request /\ Handled("CUploadData")
  BY Kinds DEF ProcessUploadData
<1>2. request # Nothing /\ request.kind = "CUploadData"
  BY <1>1, HandledIs
<1>3. Seen.no \in Int32 /\ Seen.data \in Text
  BY <1>2, SeenFields
<1>4. ASSUME NEW slide \in Reached(Seen.md5, Seen.slide_no), Write(slide, Seen.data),
             Note(slide), SlideReply
      PROVE  ExchangeInv'
  <2>1. StreamGood'
    BY <1>2, <1>3, <1>4, SlideReplyGood
  <2>2. DiskGood'
    BY <1>2, <1>3, <1>4, ReachedIs, NotedIs, WriteKeeps
  <2> QED
    BY <1>1, <2>1, <2>2, HandledKeeps
<1>5. CASE SlideReply /\ UNCHANGED OnDisk
  <2>1. StreamGood'
    BY <1>2, <1>3, <1>5, SlideReplyGood
  <2> QED
    BY <1>1, <1>5, <2>1, DiskKept, HandledKeeps
<1>6. CASE Silent /\ UNCHANGED OnDisk
  BY <1>1, <1>6, SilentKeeps, DiskKept, HandledKeeps
<1> QED
  BY <1>4, <1>5, <1>6 DEF ProcessUploadData

LEMMA DownLoadKeeps ==
    ASSUME ExchangeInv, ProcessDownLoad
    PROVE  ExchangeInv'
<1>1. "CDownLoad" \in DOMAIN Request /\ Handled("CDownLoad") /\ UNCHANGED OnDisk
  BY Kinds DEF ProcessDownLoad
<1>2. request # Nothing /\ Seen.file_id \in Text /\ Seen.slide_no \in Int32
  BY <1>1, HandledIs, SeenFields
<1>3. ASSUME NEW content \in Contents(Md5Of[Seen.file_id], Seen.slide_no),
             Send("SDownload",
                  [file_id |-> Seen.file_id, slide_no |-> Seen.slide_no, data |-> Word(content)])
      PROVE  ExchangeInv'
  <2>1. content \in Text
    <3>1. \A slide \in Slides : disk[slide] \in Text
      BY DEF ExchangeInv, TypeOK
    <3> QED
      BY <3>1, ReachedIs, ValuesAssumption DEF Contents
  <2>2. Word(content) \in Text
    BY <2>1, WordTyped
  <2> DEFINE f == [file_id |-> Seen.file_id, slide_no |-> Seen.slide_no, data |-> Word(content)]
  <2>3. f \in Record(Layout["SDownload"]) /\ "SDownload" \in DOMAIN Layout
    BY <1>2, <2>2, SDownloadGood, Kinds
  <2>4. Send("SDownload", f)
    BY <1>3
  <2> HIDE DEF f
  <2>5. StreamGood'
    BY <1>2, <2>3, <2>4, SendGood
  <2> QED
    BY <1>1, <2>5, DiskKept, HandledKeeps
<1>4. CASE Silent
  BY <1>1, <1>4, SilentKeeps, DiskKept, HandledKeeps
<1> QED
  BY <1>3, <1>4 DEF ProcessDownLoad

LEMMA ClientReadsKeeps ==
    ASSUME ExchangeInv, ClientReads
    PROVE  ExchangeInv'
<1>1. /\ stream' = <<>> /\ replies' = <<>> /\ request' = request /\ buffer' = buffer
      /\ UNCHANGED <<disk, uploaded, failed>> /\ Len(replies) > 0
      /\ Len(replies) \in Nat /\ Len(replies) <= MaxReplies
  BY DEF ClientReads, OnDisk, ExchangeInv, StreamIsReplies, TypeOK
<1>2. TypeOK'
  BY <1>1, RepliesAssumption DEF ExchangeInv, TypeOK
<1>3. Cuts(<<>>) = <<>>
  BY DEF Cuts
<1>4. StreamIsReplies'
  BY <1>1, <1>3, FlattenEmpty DEF StreamIsReplies, Cuts, Bytes
<1>5. RequestReceived' /\ SlideIsUpload'
  BY <1>1, RepliesAssumption
     DEF ExchangeInv, RequestReceived, SlideIsUpload, Bytes, Plain
<1> QED
  BY <1>2, <1>4, <1>5 DEF ExchangeInv

LEMMA NextKeeps ==
    ASSUME ExchangeInv, [Next]_vars
    PROVE  ExchangeInv'
<1>1. CASE UNCHANGED vars
  BY <1>1 DEF vars, OnDisk, ExchangeInv, TypeOK, RequestReceived, StreamIsReplies, SlideIsUpload, Cuts,
              Bytes, Plain
<1>2. ASSUME NEW message \in Requests, Receive(message) PROVE ExchangeInv'
  BY <1>2, ReceiveKeeps
<1>3. CASE ProcessRegister
  BY <1>3, Kinds, StateLayouts, StateReplyKeeps DEF ProcessRegister
<1>4. CASE ProcessLogin
  BY <1>4, Kinds, StateLayouts, StateReplyKeeps DEF ProcessLogin
<1>5. CASE ProcessUploadFile
  BY <1>5, UploadFileKeeps
<1>6. CASE ProcessDownLoad
  BY <1>6, DownLoadKeeps
<1>7. CASE ProcessUploadData
  BY <1>7, UploadDataKeeps
<1>8. CASE ProcessDeleteFile
  BY <1>8, Kinds, StateLayouts, StateReplyOrNoneKeeps DEF ProcessDeleteFile
<1>9. CASE ProcessAddDirectory
  BY <1>9, Kinds, StateLayouts, StateReplyOrNoneKeeps DEF ProcessAddDirectory
<1>10. CASE ProcessDeleteDirectory
  BY <1>10, Kinds, StateLayouts, StateReplyOrNoneKeeps DEF ProcessDeleteDirectory
<1>11. CASE ProcessModifyUser
  BY <1>11, Kinds, StateLayouts, StateReplyKeeps DEF ProcessModifyUser
<1>12. CASE ClientReads
  BY <1>12, ClientReadsKeeps
<1> QED
  BY <1>1, <1>2, <1>3, <1>4, <1>5, <1>6, <1>7, <1>8, <1>9, <1>10, <1>11, <1>12 DEF Next, Process

(* The invariant, for all texts, numbers and bounds: the buffer holds what *)
(* Append let through of the request, the stream what SetBuf let through   *)
(* of the replies in their order, and the disk the last plain upload.      *)
THEOREM ExchangeInvariant == Spec => []ExchangeInv
<1>1. Init => ExchangeInv
  BY InitEstablishes
<1>2. ExchangeInv /\ [Next]_vars => ExchangeInv'
  BY NextKeeps
<1> QED
  BY <1>1, <1>2, PTL DEF Spec

(* The variables keep their types: a handler that parses whatever bytes    *)
(* stand in the buffer still works with a record of its message.           *)
THEOREM ExchangeTypeOK == Spec => []TypeOK
<1>1. ExchangeInv => TypeOK
  BY DEF ExchangeInv
<1> QED
  BY <1>1, ExchangeInvariant, PTL

(* RequestIsSeen: a request of clean text reaches its handler as it was    *)
(* sent, in whatever pieces read returns it.                               *)
THEOREM RequestAlwaysSeen == Spec => []RequestIsSeen
BY CleanRequest, ExchangeInvariant, PTL

-----------------------------------------------------------------------------
(* What the client reads at once.                                          *)
LEMMA MergedReplies ==
    ASSUME ExchangeInv
    PROVE  RepliesMerge
<1> SUFFICES ASSUME replies # <<>>, OneKind, stream \in Text
             PROVE  LET layout == Layout[replies[1].kind] IN
                    Parse(layout, stream) = Merged(layout, replies)
  BY Zenon DEF RepliesMerge
<1> DEFINE L == Layout[replies[1].kind]
           K == DOMAIN Layout
<1>1. replies \in Seq(AReply) /\ stream = FlattenSeq(Cuts(replies))
  BY DEF ExchangeInv, StreamIsReplies
<1>2. DOMAIN replies = 1..Len(replies) /\ Len(replies) \in Nat /\ 1 \in DOMAIN replies
  BY <1>1
<1>3. \A i \in DOMAIN replies : replies[i] \in AReply
  BY <1>1
<1>4. GoodLayout(L)
  BY <1>2, <1>3, ReplyTyped, LayoutsGood
<1>5. ASSUME NEW i \in DOMAIN replies
      PROVE  /\ replies[i] \in Filled(K, L)
             /\ CleanRecord(L, replies[i].fields)
             /\ Cut(Bytes(replies[i])) = Serialize(L, replies[i].fields)
  <2>1. replies[i].kind = replies[1].kind /\ AllClean(replies[i])
    BY DEF OneKind
  <2>2. replies[i].kind \in K /\ replies[i].fields \in Record(L)
        /\ replies[i] = [kind |-> replies[i].kind, fields |-> replies[i].fields]
    BY <1>3, <2>1, ReplyTyped DEF AReply
  <2>3. CleanRecord(L, replies[i].fields)
    BY <2>1, CleanMessage
  <2>4. Bytes(replies[i]) = Serialize(L, replies[i].fields)
    BY <2>1 DEF Bytes
  <2> DEFINE b == Serialize(L, replies[i].fields)
  <2>5. b \in Seq(Byte) /\ NulFree(b)
    BY <1>4, <2>2, <2>3, PiecesTyped, SerializeNulFree
  <2>6. replies[i] \in Filled(K, L)
    BY <2>2 DEF Filled
  <2> HIDE DEF b
  <2>7. Cut(b) = b
    BY <2>5, BytesAreNumbers, CutPlain
  <2> QED
    BY <2>3, <2>4, <2>6, <2>7 DEF b
<1>6. replies \in Seq(Filled(K, L))
  <2> HIDE DEF L, K
  <2> QED
    BY <1>1, <1>2, <1>5
<1>7. stream = StreamOf(L, replies)
  <2>1. Cuts(replies) = [i \in DOMAIN replies |-> Serialize(L, replies[i].fields)]
    <3> HIDE DEF L
    <3> QED
      BY <1>5 DEF Cuts
  <2> QED
    BY <1>1, <2>1 DEF StreamOf
<1> HIDE DEF L, K
<1>8. Parse(L, StreamOf(L, replies)) = Merged(L, replies)
  BY <1>4, <1>5, <1>6, <1>7, StreamMerges
<1> QED
  BY <1>7, <1>8 DEF L

(* RepliesMerge: replies of one kind that stand in the stream one behind   *)
(* the other are read as one message, the merge of them all.               *)
THEOREM RepliesAlwaysMerge == Spec => []RepliesMerge
BY MergedReplies, ExchangeInvariant, PTL

(* A download of plain text, the only reply in the stream.                 *)
LEMMA PlainDownload ==
    ASSUME ExchangeInv, [Next]_vars, Len(replies') > Len(replies), request.kind = "CDownLoad",
           AllPlain(request), stream = <<>>, stream' \in Text,
           NEW slide, slide = <<Md5Of[request.fields.file_id], request.fields.slide_no>>,
           FolderName(slide[1]), uploaded[slide] # Unknown, slide \notin failed
    PROVE  Parse(Layout["SDownload"], stream') =
               [file_id  |-> request.fields.file_id,
                slide_no |-> request.fields.slide_no,
                data     |-> uploaded[slide]]
<1> DEFINE f == [file_id |-> Seen.file_id, slide_no |-> Seen.slide_no, data |-> Word(disk[slide])]
<1>1. replies \in Seq(AReply) /\ Len(replies) \in Nat /\ request \in Requests
  <2>1. request # Nothing
    BY NothingIs
  <2> QED
    BY <2>1, SeenTyped DEF ExchangeInv, StreamIsReplies
<1>3. Seen = request.fields
  BY <1>1, RequestIs, PlainMessage, CleanRequest DEF RequestIsSeen
<1>2. slide \in Slides /\ Send("SDownload", f)
  <2>1. replies' # replies
    BY <1>1
  <2>2. ~ ClientReads
    BY <1>1 DEF ClientReads
  <2>3. Process
    BY <2>1, <2>2 DEF Next, vars, Receive
  <2>4. ProcessDownLoad
    BY <2>3 DEF Process, ProcessRegister, ProcessLogin, ProcessUploadFile, ProcessUploadData,
                ProcessDeleteFile, ProcessAddDirectory, ProcessDeleteDirectory,
                ProcessModifyUser, StateReplyOrNone, StateReply, Handled
  <2>5. PICK content \in Contents(Md5Of[Seen.file_id], Seen.slide_no) :
            Send("SDownload", [file_id |-> Seen.file_id, slide_no |-> Seen.slide_no,
                               data |-> Word(content)])
    BY <2>1, <2>4 DEF ProcessDownLoad, Silent
  <2>6. Md5Of[Seen.file_id] = slide[1] /\ slide = <<Md5Of[Seen.file_id], Seen.slide_no>>
    BY <1>3
  <2>7. PICK other \in Reached(Md5Of[Seen.file_id], Seen.slide_no) : content = disk[other]
    BY <2>6 DEF Contents
  <2>8. other = slide /\ other \in Slides
    BY <2>6, ReachedIs
  <2> QED
    BY <2>5, <2>7, <2>8
<1>4. disk[slide] = uploaded[slide] /\ Plain(disk[slide]) /\ disk[slide] \in Text
  BY <1>2 DEF ExchangeInv, SlideIsUpload, TypeOK
<1>5. Word(disk[slide]) = uploaded[slide]
  BY <1>4, WordOfPlain
<1>6. Plain(request.fields.file_id)
  <2>1. 1 \in DOMAIN CDownLoadLayout /\ CDownLoadLayout[1].wire = LENGTH
        /\ CDownLoadLayout[1].name = "file_id" /\ Layout["CDownLoad"] = CDownLoadLayout
    BY DEF CDownLoadLayout, StringField, Int32Field, Layout
  <2>2. request.fields.file_id \in Strings(request)
    BY <2>1 DEF Strings
  <2> QED
    BY <2>2 DEF AllPlain
<1>7. CleanText(request.fields.file_id) /\ CleanText(disk[slide])
  <2>1. \A x \in 33..127 : x \in 1..127
    OBVIOUS
  <2> QED
    BY <1>4, <1>6, <2>1 DEF Plain, CleanText
<1>8. Seen.file_id \in Text /\ Seen.slide_no \in Int32
  BY SeenFields
<1> DEFINE L == Layout["SDownload"]
<1>9. /\ GoodLayout(L)
      /\ f \in Record(L)
      /\ CleanRecord(L, f)
  BY <1>3, <1>4, <1>5, <1>7, <1>8, SDownloadGood
<1>10. stream' = Cut(Serialize(L, f))
  <2>1. stream' = <<>> \o Cut(Serialize(L, f))
    BY <1>2 DEF Send
  <2> DEFINE c == Cut(Serialize(L, f))
  <2> HIDE DEF L, f
  <2>2. c \in Seq(Byte)
    BY <1>9, PiecesTyped, CutTyped
  <2>3. stream' = <<>> \o c
    BY <2>1
  <2> HIDE DEF c
  <2>4. stream' = c
    BY <2>2, <2>3
  <2> QED
    BY <2>4 DEF c
<1>11. f = [file_id  |-> request.fields.file_id, slide_no |-> request.fields.slide_no,
            data |-> uploaded[slide]]
  BY <1>3, <1>5
<1> HIDE DEF L, f
<1>12. Serialize(L, f) \in Seq(Byte) /\ NulFree(Serialize(L, f))
  BY <1>9, PiecesTyped, SerializeNulFree
<1>13. stream' = Serialize(L, f)
  BY <1>10, <1>12, BytesAreNumbers, CutPlain
<1>14. Parse(L, stream') = f
  BY <1>9, <1>13, RoundTrip DEF Text
<1> QED
  BY <1>11, <1>14 DEF L

(* DownloadIsUpload: what was last uploaded in plain text as a slide, by a *)
(* write that did not fail, is what the next download of that slide        *)
(* brings, through request, disk and reply.                                *)
THEOREM DownloadBringsUpload == Spec => DownloadIsUpload
<1>1. ExchangeInv /\ [Next]_vars =>
         [Len(replies') > Len(replies) /\ request.kind = "CDownLoad"
          /\ AllPlain(request) /\ stream = <<>> /\ stream' \in Text =>
             LET m     == request.fields
                 slide == <<Md5Of[m.file_id], m.slide_no>>
             IN  FolderName(slide[1]) /\ uploaded[slide] # Unknown /\ slide \notin failed =>
                    Parse(Layout["SDownload"], stream') =
                        [file_id |-> m.file_id, slide_no |-> m.slide_no,
                         data |-> uploaded[slide]]]_vars
  BY PlainDownload
<1> QED
  BY <1>1, ExchangeInvariant, PTL DEF Spec, DownloadIsUpload
=============================================================================
