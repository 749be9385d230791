----------------------------- MODULE ProtoWire -----------------------------
(***************************************************************************)
(* The wire format of the generated messages.  A message is a record of    *)
(* strings and int32s; its layout is the sequence of its fields in the     *)
(* order of their numbers.  A field that has its default value, the empty  *)
(* string or 0, is not written.  The fields of client_to_server and        *)
(* server_to_client use two wire types: varint and length-delimited.       *)
(*                                                                         *)
(* A string is a sequence of bytes.  Of UTF-8 only ASCII is modelled, the  *)
(* other bytes are text that VerifyUTF8 refuses.                           *)
(***************************************************************************)
EXTENDS Integers, Sequences, FiniteSets
LOCAL INSTANCE SequencesExt

Byte  == 0..255
NUL   == 0
Int32 == {n \in Int : -2147483647 - 1 <= n /\ n <= 2147483647}

(* What fits into an int: SerializeToString and ParseFromString refuse a   *)
(* message of more bytes.                                                  *)
Text == {s \in Seq(Byte) : Len(s) <= 2147483647}

VARINT == 0
LENGTH == 2

StringField(name, number) == [name |-> name, number |-> number, wire |-> LENGTH]
Int32Field(name, number)  == [name |-> name, number |-> number, wire |-> VARINT]

Default(f)    == IF f.wire = LENGTH THEN <<>> ELSE 0
Blank(layout) ==
    [name \in {layout[i].name : i \in DOMAIN layout} |->
        Default(layout[CHOOSE i \in DOMAIN layout : layout[i].name = name])]

-----------------------------------------------------------------------------
(* Varints.  An int32 is written as the 64-bit number it is sign-extended  *)
(* to: in groups of 7 bits, the lowest first, the last without the bit 128 *)
(* that says that more are to come.                                        *)
Weight == <<1, 128, 16384, 2097152, 268435456>>

VarintSize(n) ==
    IF n < 0 THEN 10
    ELSE IF n < Weight[2] THEN 1
    ELSE IF n < Weight[3] THEN 2
    ELSE IF n < Weight[4] THEN 3
    ELSE IF n < Weight[5] THEN 4 ELSE 5

Group(n, i) ==
    IF i <= 5 THEN (n \div Weight[i]) % 128
    ELSE IF i < 10 THEN 127 ELSE 1

Varint(n) ==
    [i \in 1..VarintSize(n) |-> Group(n, i) + (IF i < VarintSize(n) THEN 128 ELSE 0)]

(* The number that groups b stand for, cut to 32 bits with the sign in the *)
(* highest: of the fifth group four bits are left.                         *)
Low(b, i) == IF i <= Len(b) THEN b[i] % 128 ELSE 0

Unvarint(b) ==
    LET top == Low(b, 5) % 16 IN
    Low(b, 1) + 128 * Low(b, 2) + 16384 * Low(b, 3) + 2097152 * Low(b, 4)
        + 268435456 * (IF top < 8 THEN top ELSE top - 16)

-----------------------------------------------------------------------------
(* Writing: _InternalSerialize and ByteSizeLong.                           *)
Tag(f) == 8 * f.number + f.wire

Encode_WritesDefaults(f, value) ==
    <<Tag(f)>> \o (IF f.wire = LENGTH THEN Varint(Len(value)) \o value ELSE Varint(value))

Encode(f, value) ==
    IF value = Default(f) THEN <<>>
    ELSE <<Tag(f)>> \o (IF f.wire = LENGTH THEN Varint(Len(value)) \o value ELSE Varint(value))

Serialize(layout, m) ==
    FlattenSeq([i \in DOMAIN layout |-> Encode(layout[i], m[layout[i].name])])

FieldSize(f, value) ==
    IF value = Default(f) THEN 0
    ELSE 1 + (IF f.wire = LENGTH THEN VarintSize(Len(value)) + Len(value) ELSE VarintSize(value))

ByteSizeLong(layout, m) ==
    FoldLeft(LAMBDA n, f : n + FieldSize(f, m[f.name]), 0, layout)

-----------------------------------------------------------------------------
(* Reading.  A varint that starts at p ends at the first group without the *)
(* bit 128; the value of a field that starts at q ends before ValueEnd. 0  *)
(* stands for one that is not all there.  No field has the wire types 1    *)
(* and 5, but misread bytes may; groups are refused.                       *)
LastGroup(b, p) == SelectInSubSeq(b, p, Len(b), LAMBDA x : x < 128)

After(b, p) == IF p <= Len(b) THEN p + 1 ELSE 0

ValueEnd(b, wire, q) ==
    LET e == LastGroup(b, q)
        n == Unvarint(SubSeq(b, q, e))
    IN  CASE wire = VARINT -> IF e = 0 THEN 0 ELSE e + 1
          [] wire = LENGTH -> IF e = 0 \/ n < 0 \/ n > Len(b) - e THEN 0 ELSE e + n + 1
          [] wire = 1 -> After(b, q + 7)
          [] wire = 5 -> After(b, q + 3)
          [] OTHER -> 0

IsUTF8(s) == \A i \in DOMAIN s : s[i] < 128

(* What the field at p sets, at most one <<name, value>>, and where the    *)
(* next one starts, 0 if the parse ends here with an error.  A string that *)
(* is not all there, or is no UTF-8, has been assigned when it fails.      *)
Field(sets, next) == [sets |-> sets, next |-> next]

Assign(f, b, q, end) ==
    LET e == LastGroup(b, q)
        text == SubSeq(b, e + 1, IF end = 0 THEN Len(b) ELSE end - 1)
    IN  IF e = 0 THEN Field(<<>>, 0)
        ELSE IF f.wire = VARINT THEN Field(<< <<f.name, Unvarint(SubSeq(b, q, e))>> >>, end)
        ELSE Field(<< <<f.name, text>> >>, IF IsUTF8(text) THEN end ELSE 0)

ReadField(layout, b, p) ==
    LET t     == LastGroup(b, p)
        tag   == Unvarint(SubSeq(b, p, t))
        end   == ValueEnd(b, tag % 8, t + 1)
        known == {i \in DOMAIN layout : Tag(layout[i]) = tag}
    IN  IF t = 0 \/ tag = 0 THEN Field(<<>>, 0)
        ELSE IF known = {} THEN Field(<<>>, end)
        ELSE Assign(layout[CHOOSE i \in known : TRUE], b, t + 1, end)

(* All of b, from Clear: what was set, in order, and whether the end was   *)
(* reached.                                                                *)
ParseFrom(layout, b) ==
    LET rest[p \in 1..(Len(b) + 1)] ==
            IF p = Len(b) + 1 THEN [ok |-> TRUE, sets |-> <<>>]
            ELSE LET here == ReadField(layout, b, p) IN
                 IF here.next = 0 THEN [ok |-> FALSE, sets |-> here.sets]
                 ELSE [ok |-> rest[here.next].ok, sets |-> here.sets \o rest[here.next].sets]
    IN  rest[1]

ParseOK(layout, b) == ParseFrom(layout, b).ok

Parse(layout, b) ==
    FoldLeft(LAMBDA m, set : [m EXCEPT ![set[1]] = set[2]], Blank(layout), ParseFrom(layout, b).sets)

-----------------------------------------------------------------------------
(* MergeFrom: what is not default in the other message is taken over.      *)
MergeFrom(layout, m, other) ==
    [name \in DOMAIN m |->
        IF other[name] = Blank(layout)[name] THEN m[name] ELSE other[name]]

(* Messages merged one after the other, from Clear.                        *)
Merged(layout, messages) ==
    FoldLeft(LAMBDA m, other : MergeFrom(layout, m, other.fields), Blank(layout), messages)

(* What is left of bytes that go through a C string: SetBuf of a reply,    *)
(* Append of a piece of a request.                                         *)
Cut(b) ==
    LET end == SelectInSeq(b, LAMBDA x : x = NUL) IN
    IF end = 0 THEN b ELSE SubSeq(b, 1, end - 1)

NulFree(b) == \A i \in DOMAIN b : b[i] # NUL
=============================================================================
