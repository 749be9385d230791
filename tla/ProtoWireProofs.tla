-------------------------- MODULE ProtoWireProofs --------------------------
(***************************************************************************)
(* What holds of the wire format for every int32 and every text.           *)
(***************************************************************************)
EXTENDS ProtoWire, TLAPS
LOCAL INSTANCE SequencesExt
LOCAL INSTANCE FiniteSetsExt
LOCAL INSTANCE Folds
WF == INSTANCE WellFoundedInduction

Bits7(x) == x \in Int /\ 0 <= x /\ x < 128

(* The number of groups is 1 to 5, or 10, and says how large n is.         *)
LEMMA VarintSizeCases ==
    ASSUME NEW n \in Int32
    PROVE  \/ n < 0 /\ VarintSize(n) = 10
           \/ 0 <= n /\ n < 128 /\ VarintSize(n) = 1
           \/ 128 <= n /\ n < 16384 /\ VarintSize(n) = 2
           \/ 16384 <= n /\ n < 2097152 /\ VarintSize(n) = 3
           \/ 2097152 <= n /\ n < 268435456 /\ VarintSize(n) = 4
           \/ 268435456 <= n /\ n <= 2147483647 /\ VarintSize(n) = 5
BY SMT DEF VarintSize, Weight, Int32

LEMMA GroupValues ==
    ASSUME NEW n \in Int32
    PROVE  /\ Group(n, 1) = n % 128
           /\ Group(n, 2) = (n \div 128) % 128
           /\ Group(n, 3) = (n \div 16384) % 128
           /\ Group(n, 4) = (n \div 2097152) % 128
           /\ Group(n, 5) = (n \div 268435456) % 128
BY SMT DEF Group, Weight, Int32

(* A number from its groups: the division by one weight after the other.   *)
LEMMA Division ==
    ASSUME NEW n \in Int
    PROVE  /\ n \div 128 \in Int /\ Bits7(n % 128)
           /\ n = 128 * (n \div 128) + (n % 128)
           /\ n \div 16384 = (n \div 128) \div 128
           /\ n \div 2097152 = (n \div 16384) \div 128
           /\ n \div 268435456 = (n \div 2097152) \div 128
BY SMT DEF Bits7

(* The sum of the groups, the fifth with the sign.                         *)
Sum5(n, q) ==
    Group(n, 1) + 128 * Group(n, 2) + 16384 * Group(n, 3) + 2097152 * Group(n, 4)
        + 268435456 * q

LEMMA GroupsAddUp ==
    ASSUME NEW n \in Int32
    PROVE  /\ Sum5(n, n \div 268435456) = n
           /\ n \div 268435456 \in -8..7
           /\ \A i \in 1..5 : Bits7(Group(n, i))
<1> DEFINE q1 == n \div 128
           q2 == n \div 16384
           q3 == n \div 2097152
           q4 == n \div 268435456
<1>1. n \in Int /\ q1 \in Int /\ q2 \in Int /\ q3 \in Int /\ q4 \in Int
  BY SMT DEF Int32
<1>2. n = 128 * q1 + Group(n, 1) /\ Bits7(Group(n, 1))
  BY SMT, <1>1, Division, GroupValues
<1>3. q1 = 128 * q2 + Group(n, 2) /\ Bits7(Group(n, 2))
  <2>1. q1 = 128 * (q1 \div 128) + (q1 % 128) /\ Bits7(q1 % 128)
    BY SMT, <1>1 DEF Bits7
  <2> QED
    BY SMT, <2>1, <1>1, Division, GroupValues
<1>4. q2 = 128 * q3 + Group(n, 3) /\ Bits7(Group(n, 3))
  <2>1. q2 = 128 * (q2 \div 128) + (q2 % 128) /\ Bits7(q2 % 128)
    BY SMT, <1>1 DEF Bits7
  <2> QED
    BY SMT, <2>1, <1>1, Division, GroupValues
<1>5. q3 = 128 * q4 + Group(n, 4) /\ Bits7(Group(n, 4))
  <2>1. q3 = 128 * (q3 \div 128) + (q3 % 128) /\ Bits7(q3 % 128)
    BY SMT, <1>1 DEF Bits7
  <2> QED
    BY SMT, <2>1, <1>1, Division, GroupValues
<1>6. Bits7(Group(n, 5))
  BY SMT, <1>1, GroupValues DEF Bits7
<1>7. q4 \in -8..7
  BY SMT DEF Int32
<1> HIDE DEF q1, q2, q3, q4
<1>8. Sum5(n, q4) = n
  BY SMT, <1>1, <1>2, <1>3, <1>4, <1>5 DEF Sum5, Bits7
<1>9. Sum5(n, n \div 268435456) = n /\ n \div 268435456 \in -8..7
  BY <1>7, <1>8 DEF q4
<1>10. ASSUME NEW i \in 1..5 PROVE Bits7(Group(n, i))
  <2>1. i = 1 \/ i = 2 \/ i = 3 \/ i = 4 \/ i = 5
    BY SMT
  <2> QED
    BY <2>1, <1>2, <1>3, <1>4, <1>5, <1>6
<1> QED
  BY <1>9, <1>10

LEMMA VarintElements ==
    ASSUME NEW n \in Int32
    PROVE  /\ Len(Varint(n)) = VarintSize(n)
           /\ \A i \in 1..VarintSize(n) :
                 Varint(n)[i] = Group(n, i) + (IF i < VarintSize(n) THEN 128 ELSE 0)
<1>1. VarintSize(n) \in Nat
  BY SMT, VarintSizeCases
<1> QED
  BY SMT, <1>1 DEF Varint

(* Reading back what was written gives the number: of an int32 the 64-bit  *)
(* number is written, and of a negative one ten groups, of which the       *)
(* reader keeps 32 bits (WriteInt32ToArray, ReadVarint64).                 *)
THEOREM VarintRoundTrip ==
    ASSUME NEW n \in Int32
    PROVE  Unvarint(Varint(n)) = n
<1> DEFINE q == n \div 268435456
<1>1. VarintSize(n) \in 1..10 /\ \A i \in 1..5 : Bits7(Group(n, i))
  BY SMT, VarintSizeCases, GroupsAddUp
<1>2. Sum5(n, q) = n /\ q \in -8..7 /\ Group(n, 5) = q % 128
  BY SMT, GroupsAddUp, GroupValues
<1>3. ASSUME NEW i \in 1..5
      PROVE  Low(Varint(n), i) = IF i <= VarintSize(n) THEN Group(n, i) ELSE 0
  <2>1. CASE i <= VarintSize(n)
    <3>1. i \in 1..VarintSize(n)
      BY SMT, <1>1, <2>1
    <3>2. Low(Varint(n), i) = (Group(n, i) + (IF i < VarintSize(n) THEN 128 ELSE 0)) % 128
      BY <2>1, <3>1, VarintElements DEF Low
    <3>3. Bits7(Group(n, i))
      BY <1>1
    <3> QED
      BY SMT, <2>1, <3>2, <3>3 DEF Bits7
  <2>2. CASE ~(i <= VarintSize(n))
    BY <2>2, VarintElements DEF Low
  <2> QED
    BY <2>1, <2>2
<1>4. ASSUME NEW i \in 1..4, VarintSize(n) < i
      PROVE  Group(n, i) = 0
  <2>1. \/ i = 2 /\ 0 <= n /\ n < 128
        \/ i = 3 /\ 0 <= n /\ n < 16384
        \/ i = 4 /\ 0 <= n /\ n < 2097152
    BY SMT, <1>4, VarintSizeCases DEF Int32
  <2>2. n \in Int
    BY SMT DEF Int32
  <2>3. CASE i = 2 /\ 0 <= n /\ n < 128
    <3>1. (n \div 128) % 128 = 0
      BY SMT, <2>2, <2>3
    <3> QED
      BY <3>1, <2>3, GroupValues
  <2>4. CASE i = 3 /\ 0 <= n /\ n < 16384
    <3>1. (n \div 16384) % 128 = 0
      BY SMT, <2>2, <2>4
    <3> QED
      BY <3>1, <2>4, GroupValues
  <2>5. CASE i = 4 /\ 0 <= n /\ n < 2097152
    <3>1. (n \div 2097152) % 128 = 0
      BY SMT, <2>2, <2>5
    <3> QED
      BY <3>1, <2>5, GroupValues
  <2> QED
    BY <2>1, <2>3, <2>4, <2>5
<1>5. /\ Low(Varint(n), 1) = Group(n, 1) /\ Low(Varint(n), 2) = Group(n, 2)
      /\ Low(Varint(n), 3) = Group(n, 3) /\ Low(Varint(n), 4) = Group(n, 4)
  BY SMT, <1>1, <1>3, <1>4
<1>6. VarintSize(n) < 5 => q = 0
  BY SMT, VarintSizeCases DEF Int32
<1>7. Low(Varint(n), 5) = IF VarintSize(n) < 5 THEN 0 ELSE q % 128
  BY SMT, <1>1, <1>2, <1>3
<1> HIDE DEF q
<1>8. Low(Varint(n), 5) % 16 = q % 16
  BY SMT, <1>2, <1>6, <1>7
<1>9. (IF q % 16 < 8 THEN q % 16 ELSE (q % 16) - 16) = q
  BY SMT, <1>2
<1>10. Unvarint(Varint(n)) = Sum5(n, q)
  BY SMT, <1>5, <1>8, <1>9 DEF Unvarint, Sum5
<1> QED
  BY <1>2, <1>10

(* No byte of a number that is written is NUL: the groups but the last     *)
(* have the bit 128, and the last is the number's highest that is not 0.   *)
LEMMA VarintNulFree ==
    ASSUME NEW n \in Int32, n # 0
    PROVE  Varint(n) \in Seq(Int) /\ NulFree(Varint(n))
<1>1. n \in Int /\ VarintSize(n) \in 1..10
  BY SMT, VarintSizeCases DEF Int32
<1>2. ASSUME NEW i \in 1..VarintSize(n)
      PROVE  Group(n, i) \in Int /\ Group(n, i) >= 0
  <2>1. CASE i <= 5
    <3>1. i \in 1..5
      BY SMT, <1>1, <2>1
    <3> QED
      BY <3>1, GroupsAddUp DEF Bits7
  <2>2. CASE ~(i <= 5)
    BY SMT, <2>2, <1>1 DEF Group
  <2> QED
    BY <2>1, <2>2
<1>3. Group(n, VarintSize(n)) # 0
  <2>1. CASE n < 0
    BY SMT, <2>1 DEF VarintSize, Group
  <2>2. CASE 0 <= n /\ n < 128 /\ VarintSize(n) = 1
    BY SMT, <2>2, <1>1, GroupValues
  <2>3. CASE 128 <= n /\ n < 16384 /\ VarintSize(n) = 2
    <3>1. (n \div 128) % 128 # 0
      BY SMT, <2>3, <1>1
    <3> QED
      BY <3>1, <2>3, GroupValues
  <2>4. CASE 16384 <= n /\ n < 2097152 /\ VarintSize(n) = 3
    <3>1. (n \div 16384) % 128 # 0
      BY SMT, <2>4, <1>1
    <3> QED
      BY <3>1, <2>4, GroupValues
  <2>5. CASE 2097152 <= n /\ n < 268435456 /\ VarintSize(n) = 4
    <3>1. (n \div 2097152) % 128 # 0
      BY SMT, <2>5, <1>1
    <3> QED
      BY <3>1, <2>5, GroupValues
  <2>6. CASE 268435456 <= n /\ n <= 2147483647 /\ VarintSize(n) = 5
    <3>1. (n \div 268435456) % 128 # 0
      BY SMT, <2>6, <1>1
    <3> QED
      BY <3>1, <2>6, GroupValues
  <2> QED
    BY <2>1, <2>2, <2>3, <2>4, <2>5, <2>6, VarintSizeCases
<1>4. ASSUME NEW i \in 1..VarintSize(n)
      PROVE  Varint(n)[i] \in Int /\ Varint(n)[i] # 0
  <2>1. Varint(n)[i] = Group(n, i) + (IF i < VarintSize(n) THEN 128 ELSE 0)
    BY VarintElements
  <2>2. i = VarintSize(n) \/ i < VarintSize(n)
    BY SMT, <1>1
  <2> QED
    BY SMT, <2>1, <2>2, <1>1, <1>2, <1>3
<1>5. Varint(n) = [i \in 1..VarintSize(n) |-> Varint(n)[i]]
  BY DEF Varint
<1>6. Varint(n) \in Seq(Int) /\ DOMAIN Varint(n) = 1..VarintSize(n)
  <2> DEFINE v == Varint(n)
  <2> HIDE DEF v
  <2>1. \A i \in 1..VarintSize(n) : v[i] \in Int
    BY <1>4 DEF v
  <2>2. v = [i \in 1..VarintSize(n) |-> v[i]]
    BY <1>5 DEF v
  <2>3. v \in Seq(Int) /\ DOMAIN v = 1..VarintSize(n)
    BY SMT, <2>1, <2>2, <1>1
  <2> QED
    BY <2>3 DEF v
<1> QED
  BY <1>4, <1>6 DEF NulFree, NUL

-----------------------------------------------------------------------------
(* A field of the kinds the layouts have, and the values it may have: text *)
(* without NUL, no longer than an int32 counts, or an int32.               *)
IsField(f) == f.number \in 1..15 /\ f.wire \in {VARINT, LENGTH}

IsValue(f, value) ==
    IF f.wire = LENGTH THEN value \in Seq(Int) /\ Len(value) \in Int32 /\ NulFree(value)
    ELSE value \in Int32

LEMMA TagNotNUL ==
    ASSUME NEW f, IsField(f)
    PROVE  Tag(f) \in Int /\ Tag(f) # 0
BY SMT DEF IsField, Tag, VARINT, LENGTH

LEMMA NulFreeConcat ==
    ASSUME NEW s \in Seq(Int), NEW t \in Seq(Int), NulFree(s), NulFree(t)
    PROVE  s \o t \in Seq(Int) /\ NulFree(s \o t)
BY SMT DEF NulFree, NUL

LEMMA EncodeParts ==
    ASSUME NEW f, NEW value, IsField(f), IsValue(f, value), value # Default(f)
    PROVE  /\ f.wire = LENGTH =>
                 /\ value \in Seq(Int) /\ NulFree(value)
                 /\ Len(value) \in Int32 /\ Len(value) # 0
                 /\ Encode(f, value) = <<Tag(f)>> \o (Varint(Len(value)) \o value)
                 /\ FieldSize(f, value) = 1 + (VarintSize(Len(value)) + Len(value))
           /\ f.wire # LENGTH =>
                 /\ value \in Int32 /\ value # 0
                 /\ Encode(f, value) = <<Tag(f)>> \o Varint(value)
                 /\ FieldSize(f, value) = 1 + VarintSize(value)
<1>1. CASE f.wire = LENGTH
  <2>1. value \in Seq(Int) /\ value # <<>>
    BY <1>1 DEF IsValue, Default
  <2>2. Len(value) # 0
    BY SMT, <2>1
  <2> QED
    BY <1>1, <2>1, <2>2 DEF IsValue, Encode, FieldSize
<1>2. CASE f.wire # LENGTH
  BY <1>2 DEF IsValue, Default, Encode, FieldSize
<1> QED
  BY <1>1, <1>2

(* Every byte that the format adds to the texts is other than NUL, and so  *)
(* a field of texts without NUL goes through a C string whole: what        *)
(* Buffer::Append and Buffer::SetBuf rely on (_InternalSerialize).         *)
THEOREM EncodeIsNulFree ==
    ASSUME NEW f, NEW value, IsField(f), IsValue(f, value)
    PROVE  Encode(f, value) \in Seq(Int) /\ NulFree(Encode(f, value))
<1>1. CASE value = Default(f)
  BY SMT, <1>1 DEF Encode, NulFree
<1>2. CASE value # Default(f)
  <2>1. <<Tag(f)>> \in Seq(Int) /\ NulFree(<<Tag(f)>>)
    BY SMT, TagNotNUL DEF NulFree, NUL
  <2>2. CASE f.wire = LENGTH
    <3> DEFINE v == Varint(Len(value))
    <3>1. v \in Seq(Int) /\ NulFree(v) /\ value \in Seq(Int) /\ NulFree(value)
      BY <1>2, <2>2, EncodeParts, VarintNulFree
    <3>2. Encode(f, value) = <<Tag(f)>> \o (v \o value)
      BY <1>2, <2>2, EncodeParts
    <3> HIDE DEF v
    <3> QED
      BY <2>1, <3>1, <3>2, NulFreeConcat
  <2>3. CASE f.wire # LENGTH
    <3>1. Varint(value) \in Seq(Int) /\ NulFree(Varint(value))
      BY <1>2, <2>3, EncodeParts, VarintNulFree
    <3> QED
      BY <2>1, <3>1, <1>2, <2>3, EncodeParts, NulFreeConcat
  <2> QED
    BY <2>2, <2>3
<1> QED
  BY <1>1, <1>2

(* The size that ByteSizeLong counts for a field is the number of bytes    *)
(* that _InternalSerialize writes for it: SerializeToString allocates by   *)
(* the one and fills with the other.                                       *)
THEOREM EncodeSize ==
    ASSUME NEW f, NEW value, IsField(f), IsValue(f, value)
    PROVE  Len(Encode(f, value)) = FieldSize(f, value)
<1>1. CASE value = Default(f)
  BY SMT, <1>1 DEF Encode, FieldSize
<1>2. CASE value # Default(f)
  <2>1. CASE f.wire = LENGTH
    <3> DEFINE v == Varint(Len(value))
    <3>1. v \in Seq(Int) /\ Len(v) = VarintSize(Len(value)) /\ value \in Seq(Int)
      BY <1>2, <2>1, EncodeParts, VarintNulFree, VarintElements
    <3>2. Encode(f, value) = <<Tag(f)>> \o (v \o value)
      BY <1>2, <2>1, EncodeParts
    <3>3. FieldSize(f, value) = 1 + (VarintSize(Len(value)) + Len(value))
      BY <1>2, <2>1, EncodeParts
    <3> HIDE DEF v
    <3>4. <<Tag(f)>> \in Seq(Int) /\ Len(<<Tag(f)>>) = 1
      BY SMT, TagNotNUL
    <3>5. v \o value \in Seq(Int) /\ Len(v \o value) = Len(v) + Len(value)
      BY SMT, <3>1
    <3> QED
      BY SMT, <3>1, <3>2, <3>3, <3>4, <3>5
  <2>2. CASE f.wire # LENGTH
    <3> DEFINE v == Varint(value)
    <3>1. v \in Seq(Int) /\ Len(v) = VarintSize(value)
      BY <1>2, <2>2, EncodeParts, VarintNulFree, VarintElements
    <3>2. Encode(f, value) = <<Tag(f)>> \o v /\ FieldSize(f, value) = 1 + VarintSize(value)
      BY <1>2, <2>2, EncodeParts
    <3> HIDE DEF v
    <3>3. <<Tag(f)>> \in Seq(Int) /\ Len(<<Tag(f)>>) = 1
      BY SMT, TagNotNUL
    <3> QED
      BY SMT, <3>1, <3>2, <3>3
  <2> QED
    BY <2>1, <2>2
<1> QED
  BY <1>1, <1>2

-----------------------------------------------------------------------------
(* The numbers have no descending chain without an end: of that comes a    *)
(* form of induction that needs no operator as a parameter.                *)
LessThan == {ss \in Nat \X Nat : ss[1] < ss[2]}

LEMMA LessThanWellFounded == WF!IsWellFoundedOn(LessThan, Nat)
BY WF!NatLessThanWellFounded, Zenon DEF WF!OpToRel, LessThan

(* A set of numbers that is not empty has a least one.                     *)
LEMMA LeastOf ==
    ASSUME NEW T, T \subseteq Nat, T # {}
    PROVE  \E x \in T : \A y \in T : x <= y
<1>1. \E x \in T : \A y \in T : ~ (<<y, x>> \in LessThan)
  BY LessThanWellFounded, WF!WFMin
<1>2. \A x, y \in Nat : ~ (<<y, x>> \in LessThan) => x <= y
  BY DEF LessThan
<1> QED
  BY <1>1, <1>2, Zenon

(* A set with 0 in it, and with every number the one after it, has all.    *)
LEMMA Induction ==
    ASSUME NEW S, 0 \in S, \A n \in Nat : n \in S => n + 1 \in S
    PROVE  Nat \subseteq S
<1> DEFINE T == Nat \ S
<1> SUFFICES ASSUME T # {} PROVE FALSE
  OBVIOUS
<1>1. PICK x \in T : \A y \in T : x <= y
  BY LeastOf
<1>2. x # 0 /\ x - 1 \in Nat /\ ~(x <= x - 1) /\ (x - 1) + 1 = x
  BY <1>1
<1>3. x - 1 \in S
  BY <1>1, <1>2
<1> QED
  BY <1>2, <1>3

(* ... up to a bound.                                                      *)
LEMMA InductionTo ==
    ASSUME NEW m \in Nat, NEW S, 0 \in S, \A n \in 0..(m - 1) : n \in S => n + 1 \in S
    PROVE  0..m \subseteq S
<1> DEFINE T == {n \in Nat : n <= m => n \in S}
<1>1. 0 \in T
  OBVIOUS
<1>2. \A n \in Nat : n \in T => n + 1 \in T
  OBVIOUS
<1> HIDE DEF T
<1>3. Nat \subseteq T
  BY <1>1, <1>2, Induction
<1> QED
  BY <1>3 DEF T

-----------------------------------------------------------------------------
(* The first i pieces of a stream, one behind the other.                   *)
Piece(f, s, i) == IF i = 1 THEN s[i] ELSE f[i - 1] \o s[i]
IsFlat(f, s)   == f = [i \in 1..Len(s) |-> Piece(f, s, i)]

LEMMA FlatAt ==
    ASSUME NEW s, Len(s) \in Nat, NEW f, IsFlat(f, s), NEW i \in 1..Len(s)
    PROVE  f[i] = IF i = 1 THEN s[i] ELSE f[i - 1] \o s[i]
<1>1. f[i] = Piece(f, s, i)
  <2> DEFINE P(j) == Piece(f, s, j)
  <2> HIDE DEF P
  <2>1. f = [j \in 1..Len(s) |-> P(j)]
    BY Zenon DEF IsFlat, P
  <2> QED
    BY <2>1, Zenon DEF P
<1> QED
  BY <1>1 DEF Piece

LEMMA FlatElements ==
    ASSUME NEW B, NEW s \in Seq(Seq(B)), NEW f, IsFlat(f, s)
    PROVE  \A i \in 1..Len(s) : f[i] \in Seq(B)
<1> DEFINE T == {n \in Nat : n \in 1..Len(s) => f[n] \in Seq(B)}
<1>1. 0 \in T
  OBVIOUS
<1>2. ASSUME NEW n \in Nat, n \in T
      PROVE  n + 1 \in T
  <2> SUFFICES ASSUME n + 1 \in 1..Len(s) PROVE f[n + 1] \in Seq(B)
    OBVIOUS
  <2>1. s[n + 1] \in Seq(B)
    OBVIOUS
  <2>2. f[n + 1] = IF n = 0 THEN s[n + 1] ELSE f[n] \o s[n + 1]
    <3>1. f[n + 1] = IF n + 1 = 1 THEN s[n + 1] ELSE f[(n + 1) - 1] \o s[n + 1]
      BY FlatAt
    <3>2. (n + 1) - 1 = n /\ (n + 1 = 1 <=> n = 0)
      OBVIOUS
    <3> QED
      BY <3>1, <3>2
  <2>3. n # 0 => f[n] \in Seq(B)
    BY <1>2
  <2>4. CASE n = 0
    BY <2>1, <2>2, <2>4
  <2>5. CASE n # 0
    BY <2>1, <2>2, <2>3, <2>5
  <2> QED
    BY <2>4, <2>5
<1> HIDE DEF T
<1>3. Nat \subseteq T
  BY <1>1, <1>2, Induction
<1> QED
  BY <1>3 DEF T

LEMMA FlatExists ==
    ASSUME NEW s, Len(s) \in Nat
    PROVE  \E f : IsFlat(f, s)
<1> DEFINE Upto(n, f) == f = [i \in 1..n |-> Piece(f, s, i)]
           T == {n \in Nat : \E f : Upto(n, f)}
<1>1. 0 \in T
  <2>1. Upto(0, [i \in 1..0 |-> 0])
    BY DEF Piece
  <2> QED
    BY <2>1
<1>2. ASSUME NEW n \in Nat, n \in T
      PROVE  n + 1 \in T
  <2>1. PICK f : Upto(n, f)
    BY <1>2
  <2> DEFINE g == [i \in 1..(n + 1) |-> IF i <= n THEN f[i] ELSE Piece(f, s, i)]
  <2>2. ASSUME NEW i \in 1..n PROVE f[i] = Piece(f, s, i)
    <3> DEFINE P(j) == Piece(f, s, j)
    <3> HIDE DEF P
    <3>1. f = [j \in 1..n |-> P(j)]
      BY <2>1, Zenon DEF P
    <3> QED
      BY <3>1, Zenon DEF P
  <2>3. ASSUME NEW i \in 1..(n + 1)
        PROVE  g[i] = Piece(f, s, i)
    <3>1. g[i] = IF i <= n THEN f[i] ELSE Piece(f, s, i)
      OBVIOUS
    <3> QED
      BY <2>2, <3>1
  <2>4. ASSUME NEW i \in 1..(n + 1)
        PROVE  Piece(g, s, i) = Piece(f, s, i)
    <3>1. i # 1 => i - 1 \in 1..n /\ i - 1 \in 1..(n + 1)
      OBVIOUS
    <3>2. i # 1 => g[i - 1] = f[i - 1]
      BY <2>2, <2>3, <3>1
    <3> HIDE DEF g
    <3>3. CASE i = 1
      BY <3>3 DEF Piece
    <3>4. CASE i # 1
      BY <3>2, <3>4 DEF Piece
    <3> QED
      BY <3>3, <3>4
  <2>5. g = [i \in 1..(n + 1) |-> Piece(g, s, i)]
    <3> DEFINE P(j) == Piece(g, s, j)
               Q(j) == IF j <= n THEN f[j] ELSE Piece(f, s, j)
    <3>1. \A i \in 1..(n + 1) : P(i) = Q(i)
      BY <2>3, <2>4
    <3> HIDE DEF P, Q
    <3>2. [i \in 1..(n + 1) |-> P(i)] = [i \in 1..(n + 1) |-> Q(i)]
      BY <3>1
    <3> QED
      BY <3>2 DEF P, Q
  <2>6. Upto(n + 1, g)
    BY <2>5
  <2> HIDE DEF g, Upto
  <2>7. \E h : Upto(n + 1, h)
    BY <2>6
  <2> QED
    BY <2>7
<1> HIDE DEF T
<1>3. Nat \subseteq T
  BY <1>1, <1>2, Induction
<1> QED
  BY <1>3 DEF T, IsFlat

(* FlattenSeq takes the stream of all the pieces.                          *)
LEMMA FlatChosen ==
    ASSUME NEW s, Len(s) \in Nat \ {0}
    PROVE  \E f : IsFlat(f, s) /\ FlattenSeq(s) = f[Len(s)]
<1> DEFINE f == CHOOSE g : IsFlat(g, s)
<1>1. IsFlat(f, s)
  BY FlatExists, Zenon
<1>2. FlattenSeq(s) = f[Len(s)]
  BY Zenon DEF FlattenSeq, IsFlat, Piece
<1> QED
  BY <1>1, <1>2

LEMMA FlattenEmpty == FlattenSeq(<<>>) = <<>>
BY DEF FlattenSeq

(* Where two sequences agree their streams do.                             *)
LEMMA FlatAgree ==
    ASSUME NEW s, NEW t, NEW n \in Nat, Len(s) \in Nat, Len(t) \in Nat,
           n <= Len(s), n <= Len(t), \A i \in 1..n : s[i] = t[i],
           NEW f, NEW g, IsFlat(f, s), IsFlat(g, t)
    PROVE  \A i \in 1..n : f[i] = g[i]
<1> DEFINE T == {k \in Nat : k \in 1..n => f[k] = g[k]}
<1>1. 0 \in T
  OBVIOUS
<1>2. ASSUME NEW k \in Nat, k \in T
      PROVE  k + 1 \in T
  <2> SUFFICES ASSUME k + 1 \in 1..n PROVE f[k + 1] = g[k + 1]
    OBVIOUS
  <2>1. k + 1 \in 1..Len(s) /\ k + 1 \in 1..Len(t)
    OBVIOUS
  <2>2. (k + 1) - 1 = k /\ (k + 1 # 1 => k \in 1..n)
    OBVIOUS
  <2>3. f[k + 1] = IF k + 1 = 1 THEN s[k + 1] ELSE f[k] \o s[k + 1]
    BY <2>1, <2>2, FlatAt
  <2>4. g[k + 1] = IF k + 1 = 1 THEN t[k + 1] ELSE g[k] \o t[k + 1]
    BY <2>1, <2>2, FlatAt
  <2>5. s[k + 1] = t[k + 1] /\ (k + 1 # 1 => f[k] = g[k])
    BY <1>2, <2>2
  <2> QED
    BY <2>3, <2>4, <2>5
<1> HIDE DEF T
<1>3. Nat \subseteq T
  BY <1>1, <1>2, Induction
<1> QED
  BY <1>3 DEF T

LEMMA FlattenTyped ==
    ASSUME NEW B, NEW s \in Seq(Seq(B))
    PROVE  FlattenSeq(s) \in Seq(B)
<1>1. CASE s = <<>>
  <2>1. <<>> \in Seq(B)
    OBVIOUS
  <2> QED
    BY <1>1, <2>1, FlattenEmpty, Zenon
<1>2. CASE s # <<>>
  <2>1. Len(s) \in Nat \ {0}
    BY <1>2
  <2>2. PICK f : IsFlat(f, s) /\ FlattenSeq(s) = f[Len(s)]
    BY <2>1, FlatChosen
  <2> QED
    BY <2>1, <2>2, FlatElements
<1> QED
  BY <1>1, <1>2

(* A piece more at the end.                                                *)
LEMMA FlattenAppend ==
    ASSUME NEW B, NEW s \in Seq(Seq(B)), NEW x \in Seq(B)
    PROVE  FlattenSeq(Append(s, x)) = FlattenSeq(s) \o x
<1> DEFINE t == Append(s, x)
           n == Len(s)
<1>1. n \in Nat /\ Len(t) = n + 1 /\ t[n + 1] = x /\ \A i \in 1..n : s[i] = t[i]
  OBVIOUS
<1>2. PICK g : IsFlat(g, t) /\ FlattenSeq(t) = g[n + 1]
  <2>1. Len(t) \in Nat \ {0}
    BY <1>1
  <2> HIDE DEF t
  <2> QED
    BY <1>1, <2>1, FlatChosen
<1> HIDE DEF t
<1>3. g[n + 1] = IF n + 1 = 1 THEN x ELSE g[(n + 1) - 1] \o x
  <2>1. n + 1 \in 1..Len(t) /\ Len(t) \in Nat
    BY <1>1
  <2> QED
    BY <1>1, <1>2, <2>1, FlatAt
<1>4. CASE n = 0
  <2>1. s = <<>>
    BY <1>4
  <2> QED
    BY <1>2, <1>3, <1>4, <2>1, FlattenEmpty DEF t
<1>5. CASE n # 0
  <2>1. n \in 1..n /\ (n + 1) - 1 = n /\ n + 1 # 1 /\ n \in Nat \ {0}
    BY <1>1, <1>5
  <2>2. PICK f : IsFlat(f, s) /\ FlattenSeq(s) = f[n]
    BY <2>1, FlatChosen
  <2>3. f[n] = g[n]
    BY <1>1, <1>2, <2>1, <2>2, FlatAgree
  <2> QED
    BY <1>2, <1>3, <2>1, <2>2, <2>3 DEF t
<1> QED
  BY <1>1, <1>4, <1>5

LEMMA ConcatAssoc ==
    ASSUME NEW B, NEW a \in Seq(B), NEW b \in Seq(B), NEW c \in Seq(B)
    PROVE  (a \o b) \o c = a \o (b \o c)
OBVIOUS

(* The first k of the pieces are where the stream begins.                  *)
LEMMA FlattenSplit ==
    ASSUME NEW B, NEW s \in Seq(Seq(B)), NEW k \in 0..Len(s)
    PROVE  \E t \in Seq(B) : FlattenSeq(s) = FlattenSeq(SubSeq(s, 1, k)) \o t
<1> DEFINE n == Len(s)
           a == SubSeq(s, 1, k)
<1>1. a \in Seq(Seq(B)) /\ Len(a) = k /\ k \in Nat /\ n \in Nat /\ \A i \in 1..k : a[i] = s[i]
  OBVIOUS
<1>2. CASE k = 0
  <2>1. a = <<>>
    BY <1>1, <1>2
  <2>2. FlattenSeq(s) \in Seq(B)
    BY FlattenTyped
  <2>3. FlattenSeq(s) = <<>> \o FlattenSeq(s)
    BY <2>2
  <2> QED
    BY <2>1, <2>2, <2>3, FlattenEmpty
<1>3. CASE k # 0
  <2> HIDE DEF a, n
  <2>1. n \in Nat \ {0} /\ k \in 1..k /\ k \in Nat \ {0}
    BY <1>1, <1>3 DEF n
  <2>2. PICK f : IsFlat(f, s) /\ FlattenSeq(s) = f[n]
    BY <2>1, FlatChosen DEF n
  <2>3. PICK g : IsFlat(g, a) /\ FlattenSeq(a) = g[k]
    BY <1>1, <2>1, FlatChosen
  <2>4. f[k] = g[k]
    <3>1. Len(s) \in Nat /\ Len(a) \in Nat /\ k <= Len(s) /\ k <= Len(a)
      BY <1>1 DEF n
    <3>2. \A i \in 1..k : s[i] = a[i]
      BY <1>1
    <3>3. IsFlat(f, s) /\ IsFlat(g, a) /\ k \in Nat
      BY <1>1, <2>2, <2>3
    <3> QED
      BY <2>1, <3>1, <3>2, <3>3, FlatAgree
  <2> DEFINE T == {j \in Nat : k + j <= n => \E t \in Seq(B) : f[k + j] = f[k] \o t}
  <2>5. \A i \in 1..n : f[i] \in Seq(B)
    BY <2>2, FlatElements DEF n
  <2>6. 0 \in T
    <3>1. f[k] \in Seq(B) /\ k + 0 = k
      BY <1>1, <2>1, <2>5 DEF n
    <3>2. f[k] = f[k] \o <<>> /\ <<>> \in Seq(B)
      BY <3>1
    <3> QED
      BY <3>1, <3>2
  <2>7. ASSUME NEW j \in Nat, j \in T
        PROVE  j + 1 \in T
    <3> DEFINE P(m) == k + m <= n => \E t \in Seq(B) : f[k + m] = f[k] \o t
    <3> SUFFICES P(j + 1)
      <4>1. j + 1 \in Nat /\ T = {m \in Nat : P(m)}
        OBVIOUS
      <4> HIDE DEF T, P
      <4> QED
        BY <4>1
    <3> SUFFICES ASSUME k + (j + 1) <= n
                 PROVE  \E t \in Seq(B) : f[k + (j + 1)] = f[k] \o t
      OBVIOUS
    <3> HIDE DEF T
    <3>1. /\ k + j <= n /\ k + (j + 1) \in 1..Len(s) /\ k + (j + 1) # 1
          /\ (k + (j + 1)) - 1 = k + j /\ Len(s) \in Nat
      BY <1>1, <2>1 DEF n
    <3>2. PICK t \in Seq(B) : f[k + j] = f[k] \o t
      BY <2>7, <3>1 DEF T
    <3>3. f[k + (j + 1)] = f[k + j] \o s[k + (j + 1)]
      BY <2>2, <3>1, FlatAt
    <3>4. s[k + (j + 1)] \in Seq(B) /\ f[k] \in Seq(B)
      BY <2>1, <2>5, <3>1, <1>1 DEF n
    <3> DEFINE x == s[k + (j + 1)]
    <3>5. (f[k] \o t) \o x = f[k] \o (t \o x) /\ t \o x \in Seq(B)
      <4> HIDE DEF x
      <4>1. x \in Seq(B)
        BY <3>4 DEF x
      <4> QED
        <5>1. t \o x \in Seq(B)
          BY <4>1
        <5> DEFINE y == f[k]
        <5>2. y \in Seq(B)
          BY <3>4
        <5> HIDE DEF y
        <5>3. (y \o t) \o x = y \o (t \o x)
          BY <5>2, <4>1
        <5> QED
          BY <5>1, <5>3 DEF y
    <3>6. f[k + (j + 1)] = f[k] \o (t \o x)
      BY <3>2, <3>3, <3>5
    <3> QED
      BY <3>5, <3>6
  <2> HIDE DEF T
  <2>8. Nat \subseteq T
    BY <2>6, <2>7, Induction
  <2>9. n - k \in T /\ k + (n - k) = n /\ k + (n - k) <= n
    BY <1>1, <2>8 DEF n
  <2>10. PICK t \in Seq(B) : f[n] = f[k] \o t
    BY <2>9, Zenon DEF T
  <2> QED
    BY <2>2, <2>3, <2>4, <2>10 DEF a
<1> QED
  BY <1>1, <1>2, <1>3

LEMMA FlattenSplitAt ==
    ASSUME NEW B, NEW s \in Seq(Seq(B)), NEW k \in 0..Len(s), k < Len(s)
    PROVE  \E t \in Seq(B) :
               FlattenSeq(s) = (FlattenSeq(SubSeq(s, 1, k)) \o s[k + 1]) \o t
<1> DEFINE a == SubSeq(s, 1, k)
           c == SubSeq(s, 1, k + 1)
<1>1. k + 1 \in 0..Len(s) /\ a \in Seq(Seq(B)) /\ s[k + 1] \in Seq(B) /\ c = Append(a, s[k + 1])
  OBVIOUS
<1>2. FlattenSeq(c) = FlattenSeq(a) \o s[k + 1]
  <2> HIDE DEF a, c
  <2> QED
    BY <1>1, FlattenAppend
<1>3. PICK t \in Seq(B) : FlattenSeq(s) = FlattenSeq(c) \o t
  BY <1>1, FlattenSplit
<1> QED
  BY <1>2, <1>3

(* What follows the same beginning is the same.                            *)
LEMMA ConcatCancel ==
    ASSUME NEW B, NEW a \in Seq(B), NEW x \in Seq(B), NEW y \in Seq(B), a \o x = a \o y
    PROVE  x = y
<1>1. Len(x) = Len(y)
  <2>1. Len(a \o x) = Len(a) + Len(x) /\ Len(a \o y) = Len(a) + Len(y)
    OBVIOUS
  <2> QED
    BY <2>1
<1>2. ASSUME NEW i \in 1..Len(x) PROVE x[i] = y[i]
  <2>1. (a \o x)[Len(a) + i] = x[i] /\ (a \o y)[Len(a) + i] = y[i]
    BY <1>1
  <2> QED
    BY <2>1
<1> QED
  BY <1>1, <1>2

(* The least of a set of numbers.                                          *)
LEMMA MinIs ==
    ASSUME NEW T, T \subseteq Nat, T # {}
    PROVE  Min(T) \in T /\ \A y \in T : Min(T) <= y
BY LeastOf, Zenon DEF Min

(* A C string keeps a text that has no NUL, and cuts any other at the      *)
(* first.                                                                  *)
LEMMA CutPlain ==
    ASSUME NEW b \in Seq(Int), NulFree(b)
    PROVE  Cut(b) = b
<1>1. {i \in 1..Len(b) : b[i] = NUL} = {}
  BY DEF NulFree
<1>2. SelectInSeq(b, LAMBDA x : x = NUL) = 0
  BY <1>1 DEF SelectInSeq
<1> QED
  BY <1>2 DEF Cut

LEMMA CutIsNulFree ==
    ASSUME NEW b \in Seq(Int)
    PROVE  /\ \E k \in 0..Len(b) : Cut(b) = SubSeq(b, 1, k)
           /\ NulFree(Cut(b))
<1> DEFINE I == {i \in 1..Len(b) : b[i] = NUL}
<1>1. CASE I = {}
  <2>1. NulFree(b)
    BY <1>1 DEF NulFree
  <2>2. b = SubSeq(b, 1, Len(b)) /\ Len(b) \in 0..Len(b)
    OBVIOUS
  <2> QED
    BY <2>1, <2>2, CutPlain
<1>2. CASE I # {}
  <2> DEFINE e == Min(I)
  <2>1. e \in I /\ \A y \in I : e <= y
    <3>1. I \subseteq Nat
      OBVIOUS
    <3> HIDE DEF I
    <3> QED
      BY <1>2, <3>1, MinIs
  <2>2. SelectInSeq(b, LAMBDA x : x = NUL) = e
    BY <1>2 DEF SelectInSeq
  <2> HIDE DEF e
  <2>3. e \in Nat /\ e # 0 /\ e - 1 \in 0..Len(b)
    BY <2>1
  <2>4. Cut(b) = SubSeq(b, 1, e - 1)
    BY <2>2, <2>3 DEF Cut
  <2>5. \A i \in 1..(e - 1) : SubSeq(b, 1, e - 1)[i] = b[i] /\ b[i] # NUL
    BY <2>1, <2>3
  <2>6. NulFree(SubSeq(b, 1, e - 1))
    BY <2>3, <2>5 DEF NulFree
  <2> QED
    BY <2>3, <2>4, <2>6
<1> QED
  BY <1>1, <1>2
(* A fold over positions, the least one outermost: it exists ...           *)
RightFold(it, n, F, base) ==
    \A T \in SUBSET (1..n) :
        it[T] = IF T = {} THEN base ELSE F[<<Min(T), it[T \ {Min(T)}]>>]

LEMMA RightFoldExists ==
    ASSUME NEW n \in Nat, NEW V, NEW base \in V, NEW F \in [(1..n) \X V -> V]
    PROVE  \E it \in [SUBSET (1..n) -> V] : RightFold(it, n, F, base)
<1> DEFINE Eq(it, T) == it[T] = IF T = {} THEN base ELSE F[<<Min(T), it[T \ {Min(T)}]>>]
           From(k) == ((n - k) + 1)..n
           P(k) == \E it \in [SUBSET From(k) -> V] : \A T \in SUBSET From(k) : Eq(it, T)
           S == {k \in Nat : P(k)}
<1>1. 0 \in S
  <2> DEFINE it == [T \in SUBSET From(0) |-> base]
  <2>1. From(0) = {}
    OBVIOUS
  <2>2. it \in [SUBSET From(0) -> V] /\ \A T \in SUBSET From(0) : Eq(it, T)
    BY <2>1
  <2>3. P(0)
    BY <2>2
  <2> QED
    BY <2>3
<1>2. ASSUME NEW k \in 0..(n - 1), k \in S
      PROVE  k + 1 \in S
  <2> DEFINE a == n - k
             D == From(k)
             E == From(k + 1)
  <2>1. a \in 1..n /\ E = D \cup {a} /\ a \notin D /\ (\A x \in D : a <= x) /\ D \subseteq Nat
    OBVIOUS
  <2>2. PICK g \in [SUBSET D -> V] : \A T \in SUBSET D : Eq(g, T)
    BY <1>2
  <2> DEFINE it == [T \in SUBSET E |-> IF a \notin T THEN g[T] ELSE F[<<a, g[T \ {a}]>>]]
  <2> HIDE DEF a, D, E
  <2>3. \A T \in SUBSET E : T \ {a} \in SUBSET D
    BY <2>1
  <2>4. it \in [SUBSET E -> V]
    <3>1. ASSUME NEW T \in SUBSET E PROVE it[T] \in V
      <4>1. CASE a \notin T
        <5>1. T \in SUBSET D
          BY <2>1, <4>1
        <5> QED
          BY <4>1, <5>1
      <4>2. CASE a \in T
        <5>1. <<a, g[T \ {a}]>> \in (1..n) \X V
          BY <2>1, <2>3
        <5> QED
          BY <4>2, <5>1
      <4> QED
        BY <4>1, <4>2
    <3> QED
      BY <3>1
  <2>5. ASSUME NEW T \in SUBSET E PROVE Eq(it, T)
    <3>1. CASE a \notin T
      <4>1. T \in SUBSET D /\ T \ {Min(T)} \in SUBSET D /\ T \ {Min(T)} \in SUBSET E
        BY <2>1, <3>1
      <4>2. it[T] = g[T] /\ it[T \ {Min(T)}] = g[T \ {Min(T)}]
        BY <2>1, <3>1, <4>1
      <4>3. Eq(g, T)
        BY <2>2, <4>1
      <4> HIDE DEF it
      <4> QED
        BY <4>2, <4>3
    <3>2. CASE a \in T
      <4>1. Min(T) = a /\ T # {}
        <5>1. T \subseteq Nat /\ T # {}
          BY <2>1, <3>2
        <5>2. Min(T) \in T /\ \A y \in T : Min(T) <= y
          BY <5>1, MinIs
        <5>3. Min(T) <= a /\ a <= Min(T) /\ Min(T) \in Nat /\ a \in Nat
          BY <2>1, <3>2, <5>1, <5>2
        <5> QED
          BY <5>1, <5>3
      <4>2. T \ {a} \in SUBSET E /\ a \notin T \ {a}
        OBVIOUS
      <4>3. it[T] = F[<<a, g[T \ {a}]>>] /\ it[T \ {a}] = g[T \ {a}]
        BY <3>2, <4>2
      <4> HIDE DEF it
      <4> QED
        BY <4>1, <4>3
    <3> QED
      BY <3>1, <3>2
  <2> HIDE DEF it, Eq
  <2>6. \E h \in [SUBSET E -> V] : \A T \in SUBSET E : Eq(h, T)
    BY <2>4, <2>5
  <2>7. P(k + 1)
    BY <2>6 DEF E
  <2> HIDE DEF P
  <2> QED
    BY <2>7
<1> HIDE DEF S
<1>3. n \in S
  BY <1>1, <1>2, InductionTo
<1>4. From(n) = 1..n
  OBVIOUS
<1> QED
  BY <1>3, <1>4 DEF S, RightFold

-----------------------------------------------------------------------------
(* The greatest of a finite set of numbers.                                *)
LEMMA MaxIs ==
    ASSUME NEW n \in Nat, NEW T, T \subseteq 0..n, T # {}
    PROVE  Max(T) \in T /\ \A y \in T : y <= Max(T)
<1> DEFINE U == {n - x : x \in T}
<1>1. U \subseteq Nat /\ U # {}
  <2>1. \A x \in T : n - x \in Nat /\ n - x \in U
    OBVIOUS
  <2>2. PICK z \in T : TRUE
    OBVIOUS
  <2>3. \A u \in U : \E w \in T : u = n - w
    OBVIOUS
  <2> HIDE DEF U
  <2> QED
    BY <2>1, <2>2, <2>3
<1>2. PICK u \in U : \A y \in U : u <= y
  <2> HIDE DEF U
  <2> QED
    BY <1>1, LeastOf
<1>3. PICK x \in T : u = n - x
  BY <1>2
<1>4. ASSUME NEW y \in T PROVE y <= x
  <2>1. n - y \in U
    OBVIOUS
  <2>2. n - x <= n - y
    BY <1>2, <1>3, <2>1
  <2>3. x \in Int /\ y \in Int
    OBVIOUS
  <2> QED
    BY <2>2, <2>3
<1> QED
  BY <1>3, <1>4, Zenon DEF Max

-----------------------------------------------------------------------------
(* Folding a sequence from its head on, with the steps of F.               *)
Runs(g, F, base, s) ==
    /\ g[0] = base
    /\ \A n \in 1..Len(s) : g[n] = F[<<g[n - 1], s[n]>>]

LeftFold(F, base, s) == CHOOSE v : \E g : Runs(g, F, base, s) /\ v = g[Len(s)]

LEMMA RunsExist ==
    ASSUME NEW V, NEW D, NEW F \in [V \X D -> V], NEW base \in V, NEW s \in Seq(D)
    PROVE  \E g \in [0..Len(s) -> V] : Runs(g, F, base, s)
<1> DEFINE P(n) == \E g \in [0..n -> V] :
                      g[0] = base /\ \A k \in 1..n : g[k] = F[<<g[k - 1], s[k]>>]
           S == {n \in Nat : P(n)}
<1>1. 0 \in S
  <2> DEFINE g == [k \in 0..0 |-> base]
  <2>1. g \in [0..0 -> V] /\ g[0] = base /\ \A k \in 1..0 : g[k] = F[<<g[k - 1], s[k]>>]
    OBVIOUS
  <2> HIDE DEF g
  <2> QED
    BY <2>1
<1>2. ASSUME NEW n \in 0..(Len(s) - 1), n \in S
      PROVE  n + 1 \in S
  <2>1. PICK g \in [0..n -> V] :
           g[0] = base /\ \A k \in 1..n : g[k] = F[<<g[k - 1], s[k]>>]
    BY <1>2
  <2> DEFINE h == [k \in 0..(n + 1) |-> IF k <= n THEN g[k] ELSE F[<<g[n], s[n + 1]>>]]
  <2>2. s[n + 1] \in D /\ g[n] \in V
    BY <2>1
  <2>3. <<g[n], s[n + 1]>> \in V \X D
    BY <2>2
  <2>4. h \in [0..(n + 1) -> V] /\ h[0] = base
    BY <2>1, <2>3
  <2>5. ASSUME NEW k \in 1..(n + 1) PROVE h[k] = F[<<h[k - 1], s[k]>>]
    <3>1. CASE k <= n
      <4>1. h[k] = g[k] /\ h[k - 1] = g[k - 1] /\ k \in 1..n
        BY <3>1
      <4> HIDE DEF h
      <4> QED
        BY <2>1, <4>1
    <3>2. CASE k = n + 1
      <4>1. h[k] = F[<<g[n], s[n + 1]>>] /\ h[k - 1] = g[n]
        BY <3>2
      <4> HIDE DEF h
      <4> QED
        BY <3>2, <4>1
    <3> QED
      BY <3>1, <3>2
  <2> HIDE DEF h
  <2>6. P(n + 1)
    BY <2>4, <2>5
  <2> HIDE DEF P
  <2> QED
    BY <2>6
<1> HIDE DEF S
<1>3. Len(s) \in Nat
  OBVIOUS
<1>4. 0..Len(s) \subseteq S
  BY <1>1, <1>2, <1>3, InductionTo
<1>5. Len(s) \in S
  BY <1>3, <1>4
<1> QED
  BY <1>5 DEF S, Runs

(* There is but one.                                                       *)
LEMMA RunsAgree ==
    ASSUME NEW s, Len(s) \in Nat, NEW F, NEW base, NEW g, NEW h,
           Runs(g, F, base, s), Runs(h, F, base, s)
    PROVE  \A n \in 0..Len(s) : g[n] = h[n]
<1> DEFINE S == {n \in Nat : g[n] = h[n]}
<1>1. 0 \in S
  BY DEF Runs
<1>2. ASSUME NEW n \in 0..(Len(s) - 1), n \in S PROVE n + 1 \in S
  <2>1. n + 1 \in 1..Len(s) /\ (n + 1) - 1 = n /\ n + 1 \in Nat
    OBVIOUS
  <2>2. g[n + 1] = F[<<g[n], s[n + 1]>>] /\ h[n + 1] = F[<<h[n], s[n + 1]>>]
    BY <2>1, Zenon DEF Runs
  <2> QED
    BY <1>2, <2>1, <2>2
<1> HIDE DEF S
<1>3. 0..Len(s) \subseteq S
  BY <1>1, <1>2, InductionTo
<1> QED
  BY <1>3 DEF S

LEMMA LeftFoldIs ==
    ASSUME NEW s, Len(s) \in Nat, NEW F, NEW base, NEW g, Runs(g, F, base, s)
    PROVE  LeftFold(F, base, s) = g[Len(s)]
<1>1. ASSUME NEW h, Runs(h, F, base, s) PROVE h[Len(s)] = g[Len(s)]
  BY <1>1, RunsAgree
<1> DEFINE Q(v) == \E h : Runs(h, F, base, s) /\ v = h[Len(s)]
<1>2. Q(g[Len(s)]) /\ \A v : Q(v) => v = g[Len(s)]
  BY <1>1
<1> HIDE DEF Q
<1>3. (CHOOSE v : Q(v)) = g[Len(s)]
  BY <1>2
<1> QED
  BY <1>3 DEF LeftFold, Q

LEMMA LeftFoldTyped ==
    ASSUME NEW V, NEW D, NEW F \in [V \X D -> V], NEW base \in V, NEW s \in Seq(D)
    PROVE  LeftFold(F, base, s) \in V
<1>1. PICK g \in [0..Len(s) -> V] : Runs(g, F, base, s)
  BY RunsExist
<1>2. Len(s) \in 0..Len(s) /\ Len(s) \in Nat
  OBVIOUS
<1>3. LeftFold(F, base, s) = g[Len(s)]
  BY <1>1, <1>2, LeftFoldIs
<1> QED
  BY <1>2, <1>3

LEMMA LeftFoldEmpty ==
    ASSUME NEW F, NEW base
    PROVE  LeftFold(F, base, <<>>) = base
<1> DEFINE g == [n \in 0..0 |-> base]
<1>1. Len(<<>>) = 0 /\ Runs(g, F, base, <<>>) /\ g[0] = base
  BY DEF Runs
<1> HIDE DEF g
<1> QED
  BY <1>1, LeftFoldIs

LEMMA LeftFoldOne ==
    ASSUME NEW F, NEW base, NEW x
    PROVE  LeftFold(F, base, <<x>>) = F[<<base, x>>]
<1> DEFINE g == [n \in 0..1 |-> IF n = 0 THEN base ELSE F[<<base, x>>]]
<1>1. Len(<<x>>) = 1 /\ g[0] = base /\ g[1] = F[<<base, x>>] /\ <<x>>[1] = x
  OBVIOUS
<1> HIDE DEF g
<1>2. Runs(g, F, base, <<x>>)
  BY <1>1 DEF Runs
<1> QED
  BY <1>1, <1>2, LeftFoldIs

(* The operators hide what functions and \o are made of.                   *)
Steps(V, D) == [V \X D -> V]
Cat(a, b)   == a \o b

LEMMA LeftFoldConcat ==
    ASSUME NEW V, NEW D, NEW F \in Steps(V, D), NEW base \in V,
           NEW s \in Seq(D), NEW t \in Seq(D)
    PROVE  LeftFold(F, base, Cat(s, t)) = LeftFold(F, LeftFold(F, base, s), t)
<1>0. F \in [V \X D -> V]
  BY DEF Steps
<1> DEFINE m == Len(s)
           v == LeftFold(F, base, s)
<1>1. m \in Nat /\ Len(t) \in Nat /\ s \o t \in Seq(D) /\ Len(s \o t) = m + Len(t)
  OBVIOUS
<1>2. PICK g \in [0..m -> V] : Runs(g, F, base, s) /\ v = g[m]
  BY <1>0, <1>1, RunsExist, LeftFoldIs
<1>3. v \in V
  BY <1>1, <1>2
<1> HIDE DEF v
<1>4. PICK h \in [0..Len(t) -> V] : Runs(h, F, v, t) /\ LeftFold(F, v, t) = h[Len(t)]
  BY <1>0, <1>1, <1>3, RunsExist, LeftFoldIs
<1> DEFINE k == [n \in 0..(m + Len(t)) |-> IF n <= m THEN g[n] ELSE h[n - m]]
<1>5. k[0] = base
  BY <1>1, <1>2 DEF Runs
<1>6. ASSUME NEW n \in 1..(m + Len(t)) PROVE k[n] = F[<<k[n - 1], (s \o t)[n]>>]
  <2>1. CASE n <= m
    <3>1. k[n] = g[n] /\ k[n - 1] = g[n - 1] /\ (s \o t)[n] = s[n] /\ n \in 1..Len(s)
      BY <1>1, <2>1
    <3>2. g[n] = F[<<g[n - 1], s[n]>>]
      BY <1>2, <3>1 DEF Runs
    <3> HIDE DEF k
    <3> QED
      BY <3>1, <3>2
  <2>2. CASE n > m
    <3>1. n - m \in 1..Len(t) /\ (n - m) - 1 = (n - 1) - m
      BY <1>1, <2>2
    <3>2. k[n] = h[n - m] /\ (s \o t)[n] = t[n - m]
      BY <1>1, <2>2
    <3>3. k[n - 1] = h[(n - m) - 1]
      <4>1. CASE n - 1 = m
        <5>1. (n - m) - 1 = 0 /\ k[n - 1] = g[m]
          BY <1>1, <4>1
        <5>2. h[0] = v
          BY <1>4 DEF Runs
        <5> QED
          BY <1>2, <5>1, <5>2
      <4>2. CASE n - 1 > m
        BY <1>1, <3>1, <4>2
      <4> QED
        BY <1>1, <2>2, <4>1, <4>2
    <3>4. h[n - m] = F[<<h[(n - m) - 1], t[n - m]>>]
      BY <1>4, <3>1, Zenon DEF Runs
    <3> HIDE DEF k
    <3> QED
      BY <3>2, <3>3, <3>4
  <2>3. n <= m \/ n > m
    BY <1>1
  <2> HIDE DEF k, m
  <2> QED
    BY <2>1, <2>2, <2>3
<1>7. k[m + Len(t)] = h[Len(t)]
  <2>1. CASE Len(t) = 0
    <3>1. k[m + Len(t)] = g[m] /\ h[Len(t)] = v
      BY <1>1, <1>4, <2>1 DEF Runs
    <3> QED
      BY <1>2, <3>1
  <2>2. CASE Len(t) # 0
    <3>1. m + Len(t) > m /\ (m + Len(t)) - m = Len(t) /\ m + Len(t) \in 0..(m + Len(t))
      BY <1>1, <2>2
    <3> QED
      BY <1>1, <3>1
  <2> QED
    BY <2>1, <2>2
<1> HIDE DEF k
<1>8. Runs(k, F, base, s \o t)
  <2> HIDE DEF m
  <2> QED
    BY <1>1, <1>5, <1>6, Zenon DEF Runs
<1>9. LeftFold(F, base, s \o t) = k[m + Len(t)]
  <2> DEFINE c == s \o t
  <2>1. Len(c) = m + Len(t) /\ Len(c) \in Nat /\ Runs(k, F, base, c)
    BY <1>1, <1>8
  <2> HIDE DEF c
  <2>2. LeftFold(F, base, c) = k[Len(c)]
    BY <2>1, LeftFoldIs
  <2> QED
    BY <2>1, <2>2 DEF c
<1> QED
  BY <1>4, <1>7, <1>9 DEF v, Cat

-----------------------------------------------------------------------------
(* The same over positions, the greatest outermost, as FoldLeft has it.    *)
LastFirst(it, F, base, s) ==
    \A T \in SUBSET DOMAIN s :
        it[T] = IF T = {} THEN base ELSE F[<<it[T \ {Max(T)}], s[Max(T)]>>]

LEMMA LastFirstExists ==
    ASSUME NEW V, NEW D, NEW F \in [V \X D -> V], NEW base \in V, NEW s \in Seq(D)
    PROVE  \E it \in [SUBSET DOMAIN s -> V] : LastFirst(it, F, base, s)
<1> DEFINE n == Len(s)
           Eq(it, T) == it[T] = IF T = {} THEN base ELSE F[<<it[T \ {Max(T)}], s[Max(T)]>>]
           P(k) == \E it \in [SUBSET (1..k) -> V] : \A T \in SUBSET (1..k) : Eq(it, T)
           S == {k \in Nat : P(k)}
<1>0. n \in Nat /\ DOMAIN s = 1..n /\ \A i \in 1..n : s[i] \in D
  OBVIOUS
<1>1. 0 \in S
  <2> DEFINE it == [T \in SUBSET (1..0) |-> base]
  <2>1. 1..0 = {}
    OBVIOUS
  <2>2. it \in [SUBSET (1..0) -> V] /\ \A T \in SUBSET (1..0) : Eq(it, T)
    BY <2>1
  <2>3. P(0)
    BY <2>2
  <2> QED
    BY <2>3
<1>2. ASSUME NEW k \in 0..(n - 1), k \in S
      PROVE  k + 1 \in S
  <2> DEFINE a == k + 1
             B == 1..k
             E == 1..(k + 1)
  <2>1. a \in 1..n /\ E = B \cup {a} /\ a \notin B /\ (\A x \in B : x <= a)
        /\ E \subseteq 0..n /\ s[a] \in D /\ n \in Nat
    BY <1>0
  <2>2. PICK g \in [SUBSET B -> V] : \A T \in SUBSET B : Eq(g, T)
    BY <1>2
  <2> DEFINE it == [T \in SUBSET E |-> IF a \notin T THEN g[T] ELSE F[<<g[T \ {a}], s[a]>>]]
  <2> HIDE DEF a, B, E, n
  <2>3. \A T \in SUBSET E : T \ {a} \in SUBSET B
    BY <2>1
  <2>4. it \in [SUBSET E -> V]
    <3>1. ASSUME NEW T \in SUBSET E PROVE it[T] \in V
      <4>1. CASE a \notin T
        <5>1. T \in SUBSET B
          BY <2>1, <4>1
        <5> QED
          BY <4>1, <5>1
      <4>2. CASE a \in T
        <5>1. <<g[T \ {a}], s[a]>> \in V \X D
          BY <2>1, <2>3
        <5> QED
          BY <4>2, <5>1
      <4> QED
        BY <4>1, <4>2
    <3> QED
      BY <3>1
  <2>5. ASSUME NEW T \in SUBSET E PROVE Eq(it, T)
    <3>1. CASE a \notin T
      <4>1. T \in SUBSET B /\ T \ {Max(T)} \in SUBSET B /\ T \ {Max(T)} \in SUBSET E
        BY <2>1, <3>1
      <4>2. it[T] = g[T] /\ it[T \ {Max(T)}] = g[T \ {Max(T)}]
        BY <2>1, <3>1, <4>1
      <4>3. Eq(g, T)
        BY <2>2, <4>1
      <4> HIDE DEF it
      <4> QED
        BY <4>2, <4>3
    <3>2. CASE a \in T
      <4>1. Max(T) = a /\ T # {}
        <5>1. T \subseteq 0..n /\ T # {}
          BY <2>1, <3>2
        <5>2. Max(T) \in T /\ \A y \in T : y <= Max(T)
          BY <2>1, <5>1, MaxIs
        <5>3. Max(T) <= a /\ a <= Max(T)
          BY <2>1, <3>2, <5>1, <5>2
        <5>4. Max(T) \in 0..n /\ a \in 0..n
          BY <2>1, <5>1, <5>2
        <5> QED
          BY <2>1, <5>1, <5>3, <5>4
      <4>2. T \ {a} \in SUBSET E /\ a \notin T \ {a}
        OBVIOUS
      <4>3. it[T] = F[<<g[T \ {a}], s[a]>>] /\ it[T \ {a}] = g[T \ {a}]
        BY <3>2, <4>2
      <4> HIDE DEF it
      <4> QED
        BY <4>1, <4>3
    <3> QED
      BY <3>1, <3>2
  <2> HIDE DEF it, Eq
  <2>6. \E h \in [SUBSET E -> V] : \A T \in SUBSET E : Eq(h, T)
    BY <2>4, <2>5
  <2>7. P(k + 1)
    BY <2>6 DEF E
  <2>8. k + 1 \in Nat
    BY <1>0 DEF n
  <2> HIDE DEF P
  <2> QED
    BY <2>7, <2>8
<1> HIDE DEF S
<1> HIDE DEF n
<1>3. 0..n \subseteq S
  BY <1>0, <1>1, <1>2, InductionTo
<1>4. n \in S
  BY <1>0, <1>3
<1> QED
  BY <1>0, <1>4 DEF S, LastFirst

LEMMA LastFirstIs ==
    ASSUME NEW D, NEW F, NEW base, NEW s \in Seq(D), NEW it, LastFirst(it, F, base, s)
    PROVE  it[DOMAIN s] = LeftFold(F, base, s)
<1> DEFINE n == Len(s)
           g == [k \in 0..n |-> it[1..k]]
<1>1. n \in Nat /\ DOMAIN s = 1..n
  OBVIOUS
<1>2. g[0] = base
  <2>1. 1..0 = {} /\ {} \in SUBSET DOMAIN s
    OBVIOUS
  <2>2. it[{}] = base
    BY <2>1 DEF LastFirst
  <2> QED
    BY <1>1, <2>1, <2>2
<1>3. ASSUME NEW k \in 1..n PROVE g[k] = F[<<g[k - 1], s[k]>>]
  <2> DEFINE T == 1..k
  <2>1. T \in SUBSET DOMAIN s /\ T # {} /\ T \subseteq 0..n /\ k \in T /\ \A y \in T : y <= k
    <3> HIDE DEF n
    <3>1. T \subseteq 1..n /\ k \in T /\ (\A y \in T : y <= k) /\ 1..n \subseteq 0..n
      BY <1>1
    <3> HIDE DEF T
    <3> QED
      BY <1>1, <3>1
  <2>2. T \ {k} = 1..(k - 1)
    OBVIOUS
  <2>3. g[k] = it[T] /\ g[k - 1] = it[1..(k - 1)]
    OBVIOUS
  <2> HIDE DEF T, g
  <2>4. Max(T) = k
    <3>1. Max(T) \in T /\ \A y \in T : y <= Max(T)
      BY <1>1, <2>1, MaxIs
    <3>2. Max(T) <= k /\ k <= Max(T) /\ Max(T) \in Int /\ k \in Int
      BY <2>1, <3>1
    <3> QED
      BY <3>2
  <2>5. it[T] = F[<<it[T \ {Max(T)}], s[Max(T)]>>]
    BY <2>1 DEF LastFirst
  <2> QED
    BY <2>2, <2>3, <2>4, <2>5
<1>4. g[n] = it[DOMAIN s]
  BY <1>1
<1> HIDE DEF g
<1>5. Runs(g, F, base, s)
  BY <1>2, <1>3 DEF Runs
<1>6. LeftFold(F, base, s) = g[n]
  BY <1>1, <1>5, LeftFoldIs
<1> QED
  BY <1>4, <1>6

(* Two such folds agree if they do step by step.                           *)
LEMMA FoldsAgree ==
    ASSUME NEW n \in Nat, NEW c, NEW d, c[{}] = d[{}],
           \A k \in 1..n : /\ Max(1..k) = k /\ (1..k) \ {k} = 1..(k - 1) /\ 1..k # {}
                           /\ c[1..(k - 1)] = d[1..(k - 1)]
                           => c[1..k] = d[1..k]
    PROVE  c[1..n] = d[1..n]
<1> DEFINE S == {k \in Nat : c[1..k] = d[1..k]}
<1>1. 0 \in S
  <2>1. 1..0 = {}
    OBVIOUS
  <2> QED
    BY <2>1
<1>2. ASSUME NEW k \in 0..(n - 1), k \in S PROVE k + 1 \in S
  <2>1. (k + 1) - 1 = k /\ k + 1 \in 1..n /\ k + 1 \in Nat
    OBVIOUS
  <2> DEFINE T == 1..(k + 1)
  <2>2. T \ {k + 1} = 1..k /\ T # {} /\ T \subseteq 0..(k + 1) /\ k + 1 \in T
        /\ \A y \in T : y <= k + 1
    <3>1. T \ {k + 1} = 1..k
      OBVIOUS
    <3>2. T \subseteq 0..(k + 1) /\ k + 1 \in T /\ \A y \in T : y <= k + 1
      OBVIOUS
    <3> HIDE DEF T
    <3> QED
      BY <3>1, <3>2
  <2> HIDE DEF T
  <2>3. Max(T) = k + 1
    <3>1. Max(T) \in T /\ \A y \in T : y <= Max(T)
      BY <2>1, <2>2, MaxIs
    <3>2. Max(T) <= k + 1 /\ k + 1 <= Max(T) /\ Max(T) \in Int
      BY <2>2, <3>1
    <3> QED
      BY <2>1, <3>2
  <2>4. c[1..k] = d[1..k]
    BY <1>2
  <2> HIDE DEF S
  <2>5. c[1..(k + 1)] = d[1..(k + 1)]
    BY <2>1, <2>2, <2>3, <2>4 DEF T
  <2> QED
    BY <2>1, <2>5 DEF S
<1> HIDE DEF S
<1>3. 0..n \subseteq S
  BY <1>1, <1>2, InductionTo
<1>4. n \in S
  BY <1>3
<1> QED
  BY <1>4 DEF S

-----------------------------------------------------------------------------
(* A layout that the generated code may have: no name and no number twice. *)
(* The records it is for; SerializeToString refuses more than 2 GB.        *)
Names(layout) == {layout[i].name : i \in DOMAIN layout}

GoodLayout(layout) ==
    /\ layout \in Seq([name : Names(layout), number : 1..15, wire : {VARINT, LENGTH}])
    /\ \A i, j \in DOMAIN layout :
          layout[i].name = layout[j].name \/ layout[i].number = layout[j].number => i = j

Value == Text \cup Int32

FieldValues(f) == IF f.wire = LENGTH THEN Text ELSE Int32

Record(layout) ==
    {m \in [Names(layout) -> Value] :
        \A i \in DOMAIN layout : m[layout[i].name] \in FieldValues(layout[i])}

LEMMA FieldOf ==
    ASSUME NEW layout, GoodLayout(layout), NEW i \in DOMAIN layout
    PROVE  /\ layout[i].name \in Names(layout) /\ layout[i].number \in 1..15
           /\ layout[i].wire \in {VARINT, LENGTH}
<1> DEFINE D == [name : Names(layout), number : 1..15, wire : {VARINT, LENGTH}]
<1>1. layout \in Seq(D)
  BY DEF GoodLayout
<1>2. layout[i] \in D
  <2> HIDE DEF D
  <2> QED
    BY <1>1
<1> QED
  BY <1>2

(* What a field that is read sets.                                         *)
Settings(layout) ==
    {p \in Names(layout) \X Value :
        \E i \in DOMAIN layout : p[1] = layout[i].name /\ p[2] \in FieldValues(layout[i])}

Setter(layout) ==
    [p \in Record(layout) \X Settings(layout) |-> [p[1] EXCEPT ![p[2][1]] = p[2][2]]]

LEMMA SetterTyped ==
    ASSUME NEW layout, GoodLayout(layout)
    PROVE  Setter(layout) \in [Record(layout) \X Settings(layout) -> Record(layout)]
<1> SUFFICES ASSUME NEW m \in Record(layout), NEW set \in Settings(layout)
             PROVE  [m EXCEPT ![set[1]] = set[2]] \in Record(layout)
  BY DEF Setter
<1>1. m \in [Names(layout) -> Value] /\ set[1] \in Names(layout) /\ set[2] \in Value
  BY DEF Record, Settings
<1>2. PICK i \in DOMAIN layout : set[1] = layout[i].name /\ set[2] \in FieldValues(layout[i])
  BY DEF Settings
<1> DEFINE r == [m EXCEPT ![set[1]] = set[2]]
<1>3. r \in [Names(layout) -> Value]
  BY <1>1
<1>4. ASSUME NEW j \in DOMAIN layout PROVE r[layout[j].name] \in FieldValues(layout[j])
  <2>1. layout[j].name \in Names(layout)
    BY DEF Names
  <2>2. CASE layout[j].name = set[1]
    <3>1. i = j
      BY <1>2, <2>2 DEF GoodLayout
    <3> QED
      BY <1>1, <1>2, <2>2, <3>1
  <2>3. CASE layout[j].name # set[1]
    <3>1. r[layout[j].name] = m[layout[j].name]
      BY <1>1, <2>1, <2>3
    <3> HIDE DEF r
    <3> QED
      BY <3>1 DEF Record
  <2> QED
    BY <2>2, <2>3
<1> HIDE DEF r
<1>5. r \in Record(layout)
  BY <1>3, <1>4 DEF Record
<1> QED
  BY <1>5 DEF r

LEMMA BlankIs ==
    ASSUME NEW layout, GoodLayout(layout)
    PROVE  /\ Blank(layout) \in Record(layout)
           /\ DOMAIN Blank(layout) = Names(layout)
           /\ \A i \in DOMAIN layout : Blank(layout)[layout[i].name] = Default(layout[i])
<1>1. ASSUME NEW i \in DOMAIN layout
      PROVE  Blank(layout)[layout[i].name] = Default(layout[i])
  <2> DEFINE c == CHOOSE j \in DOMAIN layout : layout[j].name = layout[i].name
  <2>1. c \in DOMAIN layout /\ layout[c].name = layout[i].name
    OBVIOUS
  <2>2. c = i
    BY <2>1 DEF GoodLayout
  <2>3. Blank(layout)[layout[i].name] = Default(layout[c])
    BY DEF Blank
  <2> QED
    BY <2>2, <2>3
<1>2. ASSUME NEW i \in DOMAIN layout
      PROVE  Default(layout[i]) \in FieldValues(layout[i]) /\ Default(layout[i]) \in Value
  <2>1. <<>> \in Text /\ 0 \in Int32
    BY DEF Text, Int32
  <2> QED
    BY <2>1 DEF Default, FieldValues, Value
<1>3. DOMAIN Blank(layout) = Names(layout)
  BY DEF Blank, Names
<1>4. Blank(layout) \in [Names(layout) -> Value]
  <2> DEFINE d(name) == Default(layout[CHOOSE i \in DOMAIN layout : layout[i].name = name])
  <2>1. ASSUME NEW name \in Names(layout) PROVE d(name) \in Value
    <3>1. \E i \in DOMAIN layout : layout[i].name = name
      BY DEF Names
    <3>2. (CHOOSE i \in DOMAIN layout : layout[i].name = name) \in DOMAIN layout
      BY <3>1
    <3> QED
      BY <1>2, <3>2
  <2>2. Blank(layout) = [name \in Names(layout) |-> d(name)]
    BY DEF Blank, Names
  <2> HIDE DEF d
  <2> QED
    BY <2>1, <2>2
<1> QED
  BY <1>1, <1>2, <1>3, <1>4 DEF Record

LEMMA SetsFolded ==
    ASSUME NEW layout, GoodLayout(layout), NEW s \in Seq(Settings(layout))
    PROVE  FoldLeft(LAMBDA m, set : [m EXCEPT ![set[1]] = set[2]], Blank(layout), s)
               = LeftFold(Setter(layout), Blank(layout), s)
<1> DEFINE F == Setter(layout)
           base == Blank(layout)
           R == Record(layout)
           D == Settings(layout)
           Step(it, T) == IF T = {} THEN base
                          ELSE [it[T \ {Max(T)}] EXCEPT ![s[Max(T)][1]] = s[Max(T)][2]]
           Is(it) == it = [T \in SUBSET DOMAIN s |-> Step(it, T)]
<1>1. F \in [R \X D -> R] /\ base \in R
  BY SetterTyped, BlankIs
<1>2. PICK it \in [SUBSET DOMAIN s -> R] : LastFirst(it, F, base, s)
  <2> HIDE DEF F, base, R, D
  <2>1. s \in Seq(D)
    BY DEF D
  <2> QED
    BY <1>1, <2>1, LastFirstExists
<1>3. ASSUME NEW T \in SUBSET DOMAIN s, NEW g \in [SUBSET DOMAIN s -> R], T # {}
      PROVE  /\ <<g[T \ {Max(T)}], s[Max(T)]>> \in R \X D
             /\ F[<<g[T \ {Max(T)}], s[Max(T)]>>] = Step(g, T)
  <2>1. Len(s) \in Nat /\ T \subseteq 0..Len(s) /\ DOMAIN s = 1..Len(s)
    OBVIOUS
  <2>2. Max(T) \in T
    BY <1>3, <2>1, MaxIs
  <2>3. s[Max(T)] \in D /\ g[T \ {Max(T)}] \in R
    BY <2>1, <2>2
  <2> HIDE DEF R, D
  <2>4. <<g[T \ {Max(T)}], s[Max(T)]>> \in R \X D
    BY <2>3
  <2> QED
    BY <1>3, <2>4 DEF Setter, R, D
<1>4. Is(it)
  <2>1. ASSUME NEW T \in SUBSET DOMAIN s PROVE it[T] = Step(it, T)
    BY <1>2, <1>3 DEF LastFirst
  <2> HIDE DEF Step, R, D, F, base
  <2>2. it = [T \in SUBSET DOMAIN s |-> it[T]]
    BY <1>2
  <2> QED
    BY <2>1, <2>2
<1> DEFINE c == CHOOSE g : Is(g)
<1>5. Is(c)
  <2> HIDE DEF Is
  <2> QED
    BY <1>4
<1>6. FoldLeft(LAMBDA m, set : [m EXCEPT ![set[1]] = set[2]], base, s) = c[DOMAIN s]
  BY Zenon DEF FoldLeft, MapThenFoldSet
<1>7. c[DOMAIN s] = it[DOMAIN s]
  <2> DEFINE n == Len(s)
  <2>1. n \in Nat /\ DOMAIN s = 1..n
    OBVIOUS
  <2>2. ASSUME NEW g, Is(g), NEW T \in SUBSET (1..n) PROVE g[T] = Step(g, T)
    <3> HIDE DEF Step
    <3>1. g = [U \in SUBSET (1..n) |-> Step(g, U)]
      BY <2>1, <2>2
    <3> QED
      BY <3>1, Zenon
  <2>3. c[{}] = it[{}]
    <3>1. {} \in SUBSET (1..n)
      OBVIOUS
    <3> HIDE DEF c, Is, n
    <3> QED
      BY <1>4, <1>5, <2>2, <3>1
  <2>4. ASSUME NEW k \in 1..n, Max(1..k) = k, (1..k) \ {k} = 1..(k - 1), 1..k # {},
               c[1..(k - 1)] = it[1..(k - 1)]
        PROVE  c[1..k] = it[1..k]
    <3>1. 1..k \in SUBSET (1..n)
      BY <2>1
    <3> HIDE DEF c, Is, n
    <3>2. c[1..k] = Step(c, 1..k) /\ it[1..k] = Step(it, 1..k)
      BY <1>4, <1>5, <2>2, <3>1
    <3> HIDE DEF base
    <3>3. Step(c, 1..k) = Step(it, 1..k)
      BY <2>4
    <3> QED
      BY <3>2, <3>3
  <2> HIDE DEF c, n, Is, Step
  <2> QED
    BY <2>1, <2>3, <2>4, FoldsAgree
<1>8. it[DOMAIN s] = LeftFold(F, base, s)
  <2> HIDE DEF F, base
  <2> QED
    BY <1>2, LastFirstIs
<1> QED
  BY <1>6, <1>7, <1>8

-----------------------------------------------------------------------------
(* The fields of a layout, and the sizes of their values added up.         *)
Fields(layout) == {layout[i] : i \in DOMAIN layout}

Counter(layout, m) ==
    [p \in Nat \X Fields(layout) |-> p[1] + FieldSize(p[2], m[p[2].name])]

LEMMA FieldsOf ==
    ASSUME NEW layout, GoodLayout(layout)
    PROVE  layout \in Seq(Fields(layout))
<1> DEFINE D == Fields(layout)
<1>1. Len(layout) \in Nat /\ layout = [i \in 1..Len(layout) |-> layout[i]]
      /\ DOMAIN layout = 1..Len(layout)
  BY DEF GoodLayout
<1>2. \A i \in 1..Len(layout) : layout[i] \in D
  BY <1>1 DEF Fields
<1> HIDE DEF D
<1> QED
  BY <1>1, <1>2 DEF D

LEMMA FieldSizeTyped ==
    ASSUME NEW f, NEW v, f.wire \in {VARINT, LENGTH}, v \in FieldValues(f)
    PROVE  FieldSize(f, v) \in Nat
<1>1. ASSUME NEW n \in Int32 PROVE VarintSize(n) \in Nat
  BY VarintSizeCases
<1>2. CASE f.wire = LENGTH
  <2>1. v \in Seq(Byte) /\ Len(v) \in Nat /\ Len(v) \in Int32
    BY <1>2 DEF FieldValues, Text, Int32
  <2> QED
    BY <1>1, <1>2, <2>1 DEF FieldSize
<1>3. CASE f.wire # LENGTH
  BY <1>1, <1>3 DEF FieldSize, FieldValues
<1> QED
  BY <1>2, <1>3

LEMMA CounterTyped ==
    ASSUME NEW layout, GoodLayout(layout), NEW m \in Record(layout)
    PROVE  Counter(layout, m) \in [Nat \X Fields(layout) -> Nat] /\ 0 \in Nat
<1>1. ASSUME NEW f \in Fields(layout) PROVE FieldSize(f, m[f.name]) \in Nat
  <2>1. PICK i \in DOMAIN layout : f = layout[i]
    BY DEF Fields
  <2>2. f.wire \in {VARINT, LENGTH} /\ m[f.name] \in FieldValues(f)
    <3>2. f.wire \in {VARINT, LENGTH}
      BY <2>1, FieldOf
    <3>3. m[f.name] \in FieldValues(f)
      BY <2>1 DEF Record
    <3> QED
      BY <3>2, <3>3
  <2> QED
    BY <2>2, FieldSizeTyped
<1>2. \A p \in Nat \X Fields(layout) : p[1] + FieldSize(p[2], m[p[2].name]) \in Nat
  BY <1>1
<1> QED
  BY <1>2 DEF Counter

LEMMA SizesFolded ==
    ASSUME NEW s, GoodLayout(s), NEW m \in Record(s)
    PROVE  ByteSizeLong(s, m) = LeftFold(Counter(s, m), 0, s)
<1> DEFINE F == Counter(s, m)
           base == 0
           R == Nat
           D == Fields(s)
           Step(it, T) == IF T = {} THEN base
                          ELSE it[T \ {Max(T)}] + FieldSize(s[Max(T)], m[s[Max(T)].name])
           Is(it) == it = [T \in SUBSET DOMAIN s |-> Step(it, T)]
<1>0. s \in Seq(Fields(s))
  BY FieldsOf
<1>1. F \in [R \X D -> R] /\ base \in R
  BY CounterTyped
<1>2. PICK it \in [SUBSET DOMAIN s -> R] : LastFirst(it, F, base, s)
  <2> HIDE DEF F, base, R, D
  <2>1. s \in Seq(D)
    BY FieldsOf DEF D
  <2> QED
    BY <1>1, <2>1, LastFirstExists
<1>3. ASSUME NEW T \in SUBSET DOMAIN s, NEW g \in [SUBSET DOMAIN s -> R], T # {}
      PROVE  /\ <<g[T \ {Max(T)}], s[Max(T)]>> \in R \X D
             /\ F[<<g[T \ {Max(T)}], s[Max(T)]>>] = Step(g, T)
  <2>1. Len(s) \in Nat /\ T \subseteq 0..Len(s) /\ DOMAIN s = 1..Len(s)
    BY <1>0
  <2>2. Max(T) \in T
    BY <1>3, <2>1, MaxIs
  <2>3. s[Max(T)] \in D /\ g[T \ {Max(T)}] \in R
    BY <1>0, <2>1, <2>2
  <2> HIDE DEF R, D
  <2>4. <<g[T \ {Max(T)}], s[Max(T)]>> \in R \X D
    BY <2>3
  <2> QED
    BY <1>3, <2>4 DEF Counter, R, D
<1>4. Is(it)
  <2>1. ASSUME NEW T \in SUBSET DOMAIN s PROVE it[T] = Step(it, T)
    BY <1>2, <1>3 DEF LastFirst
  <2> HIDE DEF Step, R, D, F, base
  <2>2. it = [T \in SUBSET DOMAIN s |-> it[T]]
    BY <1>2
  <2> QED
    BY <2>1, <2>2
<1> DEFINE c == CHOOSE g : Is(g)
<1>5. Is(c)
  <2> HIDE DEF Is
  <2> QED
    BY <1>4
<1>6. ByteSizeLong(s, m) = c[DOMAIN s]
  BY Zenon DEF ByteSizeLong, FoldLeft, MapThenFoldSet
<1>7. c[DOMAIN s] = it[DOMAIN s]
  <2> DEFINE n == Len(s)
  <2>1. n \in Nat /\ DOMAIN s = 1..n
    BY <1>0
  <2>2. ASSUME NEW g, Is(g), NEW T \in SUBSET (1..n) PROVE g[T] = Step(g, T)
    <3> HIDE DEF Step
    <3>1. g = [U \in SUBSET (1..n) |-> Step(g, U)]
      BY <2>1, <2>2
    <3> QED
      BY <3>1, Zenon
  <2>3. c[{}] = it[{}]
    <3>1. {} \in SUBSET (1..n)
      OBVIOUS
    <3> HIDE DEF c, Is, n
    <3> QED
      BY <1>4, <1>5, <2>2, <3>1
  <2>4. ASSUME NEW k \in 1..n, Max(1..k) = k, (1..k) \ {k} = 1..(k - 1), 1..k # {},
               c[1..(k - 1)] = it[1..(k - 1)]
        PROVE  c[1..k] = it[1..k]
    <3>1. 1..k \in SUBSET (1..n)
      BY <2>1
    <3> HIDE DEF c, Is, n
    <3>2. c[1..k] = Step(c, 1..k) /\ it[1..k] = Step(it, 1..k)
      BY <1>4, <1>5, <2>2, <3>1
    <3> HIDE DEF base
    <3>3. Step(c, 1..k) = Step(it, 1..k)
      BY <2>4
    <3> QED
      BY <3>2, <3>3
  <2> HIDE DEF c, n, Is, Step
  <2> QED
    BY <2>1, <2>3, <2>4, FoldsAgree
<1>8. it[DOMAIN s] = LeftFold(F, base, s)
  <2> HIDE DEF F, base
  <2> QED
    BY <1>0, <1>2, LastFirstIs
<1> QED
  BY <1>6, <1>7, <1>8

-----------------------------------------------------------------------------
(* Messages of one layout, merged one after the other.                     *)
Filled(kinds, layout) == [kind : kinds, fields : Record(layout)]

Merger(kinds, layout) ==
    [p \in Record(layout) \X Filled(kinds, layout) |-> MergeFrom(layout, p[1], p[2].fields)]

LEMMA MergeTyped ==
    ASSUME NEW layout, GoodLayout(layout), NEW m \in Record(layout), NEW o \in Record(layout)
    PROVE  /\ MergeFrom(layout, m, o) \in Record(layout)
           /\ \A i \in DOMAIN layout :
                 MergeFrom(layout, m, o)[layout[i].name] =
                     IF o[layout[i].name] = Default(layout[i]) THEN m[layout[i].name]
                     ELSE o[layout[i].name]
<1>1. m \in [Names(layout) -> Value] /\ o \in [Names(layout) -> Value]
  BY DEF Record
<1> DEFINE r == MergeFrom(layout, m, o)
<1>2. r = [name \in Names(layout) |->
             IF o[name] = Blank(layout)[name] THEN m[name] ELSE o[name]]
  BY <1>1 DEF MergeFrom
<1>3. r \in [Names(layout) -> Value]
  BY <1>1, <1>2
<1>4. ASSUME NEW i \in DOMAIN layout
      PROVE  /\ r[layout[i].name] = IF o[layout[i].name] = Default(layout[i])
                                    THEN m[layout[i].name] ELSE o[layout[i].name]
             /\ r[layout[i].name] \in FieldValues(layout[i])
  <2>1. layout[i].name \in Names(layout) /\ Blank(layout)[layout[i].name] = Default(layout[i])
    BY BlankIs DEF Names
  <2>2. m[layout[i].name] \in FieldValues(layout[i]) /\ o[layout[i].name] \in FieldValues(layout[i])
    BY DEF Record
  <2> HIDE DEF r
  <2> QED
    BY <1>2, <2>1, <2>2
<1> HIDE DEF r
<1>5. r \in Record(layout)
  BY <1>3, <1>4 DEF Record
<1> QED
  BY <1>4, <1>5 DEF r

LEMMA MergerTyped ==
    ASSUME NEW kinds, NEW layout, GoodLayout(layout)
    PROVE  Merger(kinds, layout)
               \in [Record(layout) \X Filled(kinds, layout) -> Record(layout)]
BY MergeTyped DEF Merger, Filled

LEMMA MergesFolded ==
    ASSUME NEW kinds, NEW layout, GoodLayout(layout),
           NEW s \in Seq(Filled(kinds, layout))
    PROVE  Merged(layout, s) = LeftFold(Merger(kinds, layout), Blank(layout), s)
<1> DEFINE F == Merger(kinds, layout)
           base == Blank(layout)
           R == Record(layout)
           D == Filled(kinds, layout)
           Step(it, T) == IF T = {} THEN base
                          ELSE MergeFrom(layout, it[T \ {Max(T)}], s[Max(T)].fields)
           Is(it) == it = [T \in SUBSET DOMAIN s |-> Step(it, T)]
<1>1. F \in [R \X D -> R] /\ base \in R
  BY MergerTyped, BlankIs
<1>2. PICK it \in [SUBSET DOMAIN s -> R] : LastFirst(it, F, base, s)
  <2> HIDE DEF F, base, R, D
  <2>1. s \in Seq(D)
    BY DEF D
  <2> QED
    BY <1>1, <2>1, LastFirstExists
<1>3. ASSUME NEW T \in SUBSET DOMAIN s, NEW g \in [SUBSET DOMAIN s -> R], T # {}
      PROVE  /\ <<g[T \ {Max(T)}], s[Max(T)]>> \in R \X D
             /\ F[<<g[T \ {Max(T)}], s[Max(T)]>>] = Step(g, T)
  <2>1. Len(s) \in Nat /\ T \subseteq 0..Len(s) /\ DOMAIN s = 1..Len(s)
    OBVIOUS
  <2>2. Max(T) \in T
    BY <1>3, <2>1, MaxIs
  <2>3. s[Max(T)] \in D /\ g[T \ {Max(T)}] \in R
    BY <2>1, <2>2
  <2> HIDE DEF R, D
  <2>4. <<g[T \ {Max(T)}], s[Max(T)]>> \in R \X D
    BY <2>3
  <2> QED
    BY <1>3, <2>4 DEF Merger, R, D
<1>4. Is(it)
  <2>1. ASSUME NEW T \in SUBSET DOMAIN s PROVE it[T] = Step(it, T)
    BY <1>2, <1>3 DEF LastFirst
  <2> HIDE DEF Step, R, D, F, base
  <2>2. it = [T \in SUBSET DOMAIN s |-> it[T]]
    BY <1>2
  <2> QED
    BY <2>1, <2>2
<1> DEFINE c == CHOOSE g : Is(g)
<1>5. Is(c)
  <2> HIDE DEF Is
  <2> QED
    BY <1>4
<1>6. Merged(layout, s) = c[DOMAIN s]
  BY Zenon DEF Merged, FoldLeft, MapThenFoldSet
<1>7. c[DOMAIN s] = it[DOMAIN s]
  <2> DEFINE n == Len(s)
  <2>1. n \in Nat /\ DOMAIN s = 1..n
    OBVIOUS
  <2>2. ASSUME NEW g, Is(g), NEW T \in SUBSET (1..n) PROVE g[T] = Step(g, T)
    <3> HIDE DEF Step
    <3>1. g = [U \in SUBSET (1..n) |-> Step(g, U)]
      BY <2>1, <2>2
    <3> QED
      BY <3>1, Zenon
  <2>3. c[{}] = it[{}]
    <3>1. {} \in SUBSET (1..n)
      OBVIOUS
    <3> HIDE DEF c, Is, n
    <3> QED
      BY <1>4, <1>5, <2>2, <3>1
  <2>4. ASSUME NEW k \in 1..n, Max(1..k) = k, (1..k) \ {k} = 1..(k - 1), 1..k # {},
               c[1..(k - 1)] = it[1..(k - 1)]
        PROVE  c[1..k] = it[1..k]
    <3>1. 1..k \in SUBSET (1..n)
      BY <2>1
    <3> HIDE DEF c, Is, n
    <3>2. c[1..k] = Step(c, 1..k) /\ it[1..k] = Step(it, 1..k)
      BY <1>4, <1>5, <2>2, <3>1
    <3> HIDE DEF base
    <3>3. Step(c, 1..k) = Step(it, 1..k)
      BY <2>4
    <3> QED
      BY <3>2, <3>3
  <2> HIDE DEF c, n, Is, Step
  <2> QED
    BY <2>1, <2>3, <2>4, FoldsAgree
<1>8. it[DOMAIN s] = LeftFold(F, base, s)
  <2> HIDE DEF F, base
  <2> QED
    BY <1>2, LastFirstIs
<1> QED
  BY <1>6, <1>7, <1>8

-----------------------------------------------------------------------------
(* One piece more.                                                         *)
LEMMA FlattenStep ==
    ASSUME NEW B, NEW s \in Seq(Seq(B)), NEW k \in 1..Len(s)
    PROVE  FlattenSeq(SubSeq(s, 1, k)) = FlattenSeq(SubSeq(s, 1, k - 1)) \o s[k]
<1> DEFINE a == SubSeq(s, 1, k - 1)
<1>1. a \in Seq(Seq(B)) /\ s[k] \in Seq(B) /\ SubSeq(s, 1, k) = Append(a, s[k])
  OBVIOUS
<1> HIDE DEF a
<1>2. FlattenSeq(Append(a, s[k])) = FlattenSeq(a) \o s[k]
  BY <1>1, FlattenAppend
<1> QED
  BY <1>1, <1>2 DEF a

(* What holds of no bytes, and of two parts together if of each, holds of  *)
(* a stream and what stands for it, piece by piece.                        *)
LEMMA FlattenRelated ==
    ASSUME NEW B, NEW C, NEW s \in Seq(Seq(B)), NEW t \in Seq(Seq(C)), Len(s) = Len(t),
           NEW R, <<(<<>>), (<<>>)>> \in R,
           \A i \in 1..Len(s), a \in Seq(B), c \in Seq(C) :
               <<a, c>> \in R => <<a \o s[i], c \o t[i]>> \in R
    PROVE  <<FlattenSeq(s), FlattenSeq(t)>> \in R
<1> DEFINE Upto(x, k) == FlattenSeq(SubSeq(x, 1, k))
           S == {k \in Nat : <<Upto(s, k), Upto(t, k)>> \in R}
<1>0. Len(s) \in Nat
  OBVIOUS
<1>1. 0 \in S
  <2>1. SubSeq(s, 1, 0) = <<>> /\ SubSeq(t, 1, 0) = <<>>
    OBVIOUS
  <2> QED
    BY <2>1, FlattenEmpty
<1>2. ASSUME NEW k \in 0..(Len(s) - 1), k \in S PROVE k + 1 \in S
  <2>1. k + 1 \in 1..Len(s) /\ k + 1 \in 1..Len(t) /\ (k + 1) - 1 = k /\ k + 1 \in Nat
    OBVIOUS
  <2>2. Upto(s, k) \in Seq(B) /\ Upto(t, k) \in Seq(C)
    <3>1. SubSeq(s, 1, k) \in Seq(Seq(B)) /\ SubSeq(t, 1, k) \in Seq(Seq(C))
      OBVIOUS
    <3> QED
      BY <3>1, FlattenTyped
  <2>3. Upto(s, k + 1) = Upto(s, k) \o s[k + 1] /\ Upto(t, k + 1) = Upto(t, k) \o t[k + 1]
    BY <2>1, FlattenStep
  <2>4. <<Upto(s, k), Upto(t, k)>> \in R
    BY <1>2
  <2> HIDE DEF Upto
  <2>5. <<Upto(s, k) \o s[k + 1], Upto(t, k) \o t[k + 1]>> \in R
    BY <2>1, <2>2, <2>4
  <2> QED
    BY <2>1, <2>3, <2>5
<1> HIDE DEF S
<1>3. 0..Len(s) \subseteq S
  BY <1>0, <1>1, <1>2, InductionTo
<1>4. Len(s) \in S
  BY <1>0, <1>3
<1>5. SubSeq(s, 1, Len(s)) = s /\ SubSeq(t, 1, Len(s)) = t
  OBVIOUS
<1> QED
  BY <1>4, <1>5 DEF S

-----------------------------------------------------------------------------
LEMMA GroupTyped ==
    ASSUME NEW n \in Int32, NEW i \in 1..VarintSize(n)
    PROVE  Group(n, i) \in 0..127
<1>1. i \in 1..10 /\ n \in Int
  BY VarintSizeCases DEF Int32
<1>2. i = 1 \/ i = 2 \/ i = 3 \/ i = 4 \/ i = 5 \/ i > 5
  BY <1>1
<1>3. CASE i > 5
  BY <1>1, <1>3 DEF Group
<1>4. ASSUME NEW x \in Int PROVE x % 128 \in 0..127
  OBVIOUS
<1>5. CASE i <= 5
  <2>1. Group(n, i) = (n \div Weight[i]) % 128
    BY <1>5 DEF Group
  <2>2. Weight[i] \in Int /\ Weight[i] > 0
    BY <1>1, <1>2, <1>5 DEF Weight
  <2>3. n \div Weight[i] \in Int
    BY <1>1, <2>2
  <2> QED
    BY <1>4, <2>1, <2>3
<1> QED
  BY <1>1, <1>3, <1>5

LEMMA VarintTyped ==
    ASSUME NEW n \in Int32
    PROVE  /\ Varint(n) \in Seq(Byte) /\ Len(Varint(n)) = VarintSize(n) /\ VarintSize(n) \in 1..10
           /\ \A i \in 1..VarintSize(n) : Varint(n)[i] < 128 <=> i = VarintSize(n)
<1>1. VarintSize(n) \in 1..10
  BY VarintSizeCases
<1>2. ASSUME NEW i \in 1..VarintSize(n)
      PROVE  /\ Group(n, i) + (IF i < VarintSize(n) THEN 128 ELSE 0) \in Byte
             /\ Group(n, i) + (IF i < VarintSize(n) THEN 128 ELSE 0) < 128 <=> i = VarintSize(n)
  <2>1. Group(n, i) \in 0..127
    BY GroupTyped
  <2> QED
    BY <1>1, <2>1 DEF Byte
<1>3. Varint(n) \in Seq(Byte)
  <2> DEFINE v(i) == Group(n, i) + (IF i < VarintSize(n) THEN 128 ELSE 0)
  <2>1. Varint(n) = [i \in 1..VarintSize(n) |-> v(i)]
    BY DEF Varint
  <2>2. \A i \in 1..VarintSize(n) : v(i) \in Byte
    BY <1>2
  <2> HIDE DEF v
  <2> QED
    BY <1>1, <2>1, <2>2
<1> QED
  BY <1>1, <1>2, <1>3, VarintElements

(* A field of a layout, and what is written for one that has not its       *)
(* default value.                                                          *)
LEMMA FieldWritten ==
    ASSUME NEW f, f.wire \in {VARINT, LENGTH}, f.number \in 1..15, NEW v \in FieldValues(f)
    PROVE  /\ Tag(f) \in 1..127 /\ Tag(f) % 8 = f.wire
           /\ f.wire = LENGTH => v \in Seq(Byte) /\ Len(v) \in Int32 /\ Len(v) >= 0
           /\ f.wire = VARINT => v \in Int32
           /\ Encode(f, v) \in Seq(Byte)
<1>1. Tag(f) \in 1..127 /\ Tag(f) % 8 = f.wire
  BY DEF Tag, VARINT, LENGTH
<1>2. <<Tag(f)>> \in Seq(Byte)
  BY <1>1 DEF Byte
<1>3. f.wire = LENGTH => v \in Seq(Byte) /\ Len(v) \in Int32 /\ Len(v) >= 0
  BY DEF FieldValues, Text, Int32
<1>4. f.wire = VARINT => v \in Int32
  BY DEF FieldValues, VARINT, LENGTH
<1>5. CASE v = Default(f)
  <2>1. Encode(f, v) = <<>>
    BY <1>5 DEF Encode
  <2> QED
    BY <1>1, <1>3, <1>4, <2>1
<1>6. CASE v # Default(f) /\ f.wire = LENGTH
  <2> DEFINE w == Varint(Len(v))
             h == <<Tag(f)>>
  <2>1. Encode(f, v) = h \o (w \o v)
    BY <1>6 DEF Encode
  <2>2. w \in Seq(Byte) /\ v \in Seq(Byte) /\ h \in Seq(Byte)
    BY <1>2, <1>3, <1>6, VarintTyped
  <2> HIDE DEF w, h
  <2>3. h \o (w \o v) \in Seq(Byte)
    BY <2>2
  <2> QED
    BY <1>1, <1>3, <1>4, <2>1, <2>3
<1>7. CASE v # Default(f) /\ f.wire = VARINT
  <2> DEFINE w == Varint(v)
             h == <<Tag(f)>>
  <2>1. Encode(f, v) = h \o w
    BY <1>7 DEF Encode, VARINT, LENGTH
  <2>2. w \in Seq(Byte) /\ h \in Seq(Byte)
    BY <1>2, <1>4, <1>7, VarintTyped
  <2> HIDE DEF w, h
  <2>3. h \o w \in Seq(Byte)
    BY <2>2
  <2> QED
    BY <1>1, <1>3, <1>4, <2>1, <2>3
<1> QED
  BY <1>5, <1>6, <1>7

-----------------------------------------------------------------------------
(* Text that the parser and a C string take as it is.                      *)
CleanText(s) == \A i \in DOMAIN s : s[i] \in 1..127

CleanRecord(layout, m) ==
    \A i \in DOMAIN layout : layout[i].wire = LENGTH => CleanText(m[layout[i].name])

Pieces(layout, m) == [i \in DOMAIN layout |-> Encode(layout[i], m[layout[i].name])]

LEMMA PiecesTyped ==
    ASSUME NEW layout, GoodLayout(layout), NEW m \in Record(layout)
    PROVE  /\ Pieces(layout, m) \in Seq(Seq(Byte))
           /\ DOMAIN layout = 1..Len(layout) /\ Len(layout) \in Nat
           /\ Len(Pieces(layout, m)) = Len(layout)
           /\ \A i \in 1..Len(layout) :
                 Pieces(layout, m)[i] = Encode(layout[i], m[layout[i].name])
           /\ Serialize(layout, m) = FlattenSeq(Pieces(layout, m))
           /\ Serialize(layout, m) \in Seq(Byte)
<1>1. DOMAIN layout = 1..Len(layout) /\ Len(layout) \in Nat
  BY DEF GoodLayout
<1>2. ASSUME NEW i \in 1..Len(layout)
      PROVE  Encode(layout[i], m[layout[i].name]) \in Seq(Byte)
  <2>1. m[layout[i].name] \in FieldValues(layout[i])
    BY <1>1 DEF Record
  <2> QED
    BY <1>1, <2>1, FieldOf, FieldWritten
<1> DEFINE e(i) == Encode(layout[i], m[layout[i].name])
<1>3. Pieces(layout, m) = [i \in 1..Len(layout) |-> e(i)]
  BY <1>1 DEF Pieces
<1>4. \A i \in 1..Len(layout) : e(i) \in Seq(Byte)
  BY <1>2
<1> HIDE DEF e
<1>5. /\ Pieces(layout, m) \in Seq(Seq(Byte)) /\ Len(Pieces(layout, m)) = Len(layout)
      /\ \A i \in 1..Len(layout) : Pieces(layout, m)[i] = e(i)
  BY <1>1, <1>3, <1>4
<1>6. Serialize(layout, m) = FlattenSeq(Pieces(layout, m))
  BY DEF Serialize, Pieces
<1> QED
  BY <1>1, <1>5, <1>6, FlattenTyped DEF e

LEMMA CleanIsNulFree ==
    ASSUME NEW v \in Seq(Byte), CleanText(v)
    PROVE  v \in Seq(Int) /\ NulFree(v)
<1>1. Byte \subseteq Int /\ \A x \in 1..127 : x # NUL
  BY DEF Byte, NUL
<1>2. v \in Seq(Int)
  <2>1. Len(v) \in Nat /\ v = [i \in 1..Len(v) |-> v[i]] /\ \A i \in 1..Len(v) : v[i] \in Byte
    OBVIOUS
  <2>2. \A i \in 1..Len(v) : v[i] \in Int
    BY <1>1, <2>1
  <2> QED
    BY <2>1, <2>2
<1>3. NulFree(v)
  BY <1>1 DEF CleanText, NulFree
<1> QED
  BY <1>2, <1>3

LEMMA CleanValue ==
    ASSUME NEW layout, GoodLayout(layout), NEW m \in Record(layout), CleanRecord(layout, m),
           NEW i \in DOMAIN layout
    PROVE  IsField(layout[i]) /\ IsValue(layout[i], m[layout[i].name])
<1> DEFINE f == layout[i]
           v == m[layout[i].name]
<1>1. f.wire \in {VARINT, LENGTH} /\ f.number \in 1..15 /\ v \in FieldValues(f)
  BY FieldOf DEF Record
<1>2. f.wire = LENGTH => CleanText(v)
  BY DEF CleanRecord
<1> HIDE DEF f, v
<1>3. CASE f.wire = LENGTH
  <2>1. v \in Seq(Byte) /\ Len(v) \in Int32 /\ CleanText(v)
    BY <1>1, <1>2, <1>3, FieldWritten
  <2>2. v \in Seq(Int) /\ NulFree(v)
    BY <2>1, CleanIsNulFree
  <2> QED
    BY <1>1, <1>3, <2>1, <2>2 DEF IsField, IsValue, f, v
<1>4. CASE f.wire # LENGTH
  <2>1. v \in Int32
    BY <1>1, <1>4 DEF FieldValues
  <2> QED
    BY <1>1, <1>4, <2>1 DEF IsField, IsValue, f, v
<1> QED
  BY <1>3, <1>4

LEMMA FlattenNulFree ==
    ASSUME NEW s \in Seq(Seq(Int)), \A i \in 1..Len(s) : NulFree(s[i])
    PROVE  NulFree(FlattenSeq(s))
<1> DEFINE R == {p \in Seq(Int) \X Seq(Int) : NulFree(p[1])}
<1>1. <<(<<>>), (<<>>)>> \in R
  <2>1. NulFree(<<>>)
    BY DEF NulFree
  <2>2. <<>> \in Seq(Int)
    OBVIOUS
  <2> QED
    BY <2>1, <2>2
<1>2. ASSUME NEW i \in 1..Len(s), NEW a \in Seq(Int), NEW c \in Seq(Int), <<a, c>> \in R
      PROVE  <<a \o s[i], c \o s[i]>> \in R
  <2>1. s[i] \in Seq(Int) /\ NulFree(s[i]) /\ NulFree(a)
    BY <1>2
  <2>2. a \o s[i] \in Seq(Int) /\ NulFree(a \o s[i])
    BY <2>1, NulFreeConcat
  <2>3. c \o s[i] \in Seq(Int)
    BY <2>1
  <2> QED
    BY <2>2, <2>3
<1> DEFINE t == FlattenSeq(s)
<1> HIDE DEF R
<1>3. <<FlattenSeq(s), FlattenSeq(s)>> \in R
  BY <1>1, <1>2, FlattenRelated
<1> HIDE DEF t
<1> QED
  BY <1>3 DEF R

(* No byte that is written for clean text is NUL: Append and SetBuf let    *)
(* all of it through.                                                      *)
THEOREM SerializeNulFree ==
    ASSUME NEW layout, GoodLayout(layout), NEW m \in Record(layout), CleanRecord(layout, m)
    PROVE  NulFree(Serialize(layout, m))
<1> DEFINE s == Pieces(layout, m)
<1>1. s \in Seq(Seq(Byte)) /\ Serialize(layout, m) = FlattenSeq(s) /\ Len(s) = Len(layout)
  BY PiecesTyped
<1>2. ASSUME NEW i \in 1..Len(s) PROVE s[i] \in Seq(Int) /\ NulFree(s[i])
  <2>1. i \in DOMAIN layout /\ s[i] = Encode(layout[i], m[layout[i].name])
    BY <1>1, PiecesTyped
  <2> QED
    BY <2>1, CleanValue, EncodeIsNulFree
<1> HIDE DEF s
<1>3. s \in Seq(Seq(Int))
  BY <1>1, <1>2
<1> QED
  BY <1>1, <1>2, <1>3, FlattenNulFree

(* ByteSizeLong counts the bytes that are written.                         *)
THEOREM SerializeSize ==
    ASSUME NEW layout, GoodLayout(layout), NEW m \in Record(layout), CleanRecord(layout, m)
    PROVE  Len(Serialize(layout, m)) = ByteSizeLong(layout, m)
<1> DEFINE s == Pieces(layout, m)
           n == Len(layout)
           F == Counter(layout, m)
           z(k) == Len(FlattenSeq(SubSeq(s, 1, k)))
           g == [k \in 0..n |-> z(k)]
<1>1. /\ s \in Seq(Seq(Byte)) /\ Serialize(layout, m) = FlattenSeq(s) /\ Len(s) = n
      /\ n \in Nat /\ DOMAIN layout = 1..n
      /\ \A i \in 1..n : s[i] = Encode(layout[i], m[layout[i].name])
  BY PiecesTyped
<1> HIDE DEF s, n
<1>2. g[0] = 0
  <2>1. SubSeq(s, 1, 0) = <<>>
    BY <1>1
  <2>2. z(0) = 0
    <3>1. z(0) = Len(FlattenSeq(<<>>)) /\ Len(<<>>) = 0
      BY <2>1
    <3> HIDE DEF z
    <3> QED
      BY <3>1, FlattenEmpty
  <2> HIDE DEF z
  <2> QED
    BY <1>1, <2>2
<1>3. ASSUME NEW k \in 1..n PROVE g[k] = F[<<g[k - 1], layout[k]>>]
  <2> DEFINE a == FlattenSeq(SubSeq(s, 1, k - 1))
             f == layout[k]
  <2>1. SubSeq(s, 1, k - 1) \in Seq(Seq(Byte)) /\ s[k] \in Seq(Byte)
    BY <1>1
  <2>2. a \in Seq(Byte)
    <3> HIDE DEF n
    <3> QED
      BY <2>1, FlattenTyped
  <2>3. FlattenSeq(SubSeq(s, 1, k)) = a \o s[k]
    BY <1>1, FlattenStep
  <2>4. s[k] = Encode(f, m[f.name]) /\ f \in Fields(layout)
    BY <1>1 DEF Fields
  <2>5. Len(s[k]) = FieldSize(f, m[f.name])
    BY <1>1, <2>4, CleanValue, EncodeSize
  <2> HIDE DEF a, f
  <2>6. Len(a \o s[k]) = Len(a) + FieldSize(f, m[f.name]) /\ Len(a) \in Nat
    BY <2>1, <2>2, <2>5
  <2>7. g[k] = Len(a \o s[k]) /\ g[k - 1] = Len(a)
    <3>1. z(k) = Len(a \o s[k]) /\ z(k - 1) = Len(a)
      BY <2>3 DEF a
    <3> HIDE DEF z
    <3>2. g[k] = z(k) /\ g[k - 1] = z(k - 1)
      BY <1>1
    <3> QED
      BY <3>1, <3>2
  <2>8. F[<<Len(a), f>>] = Len(a) + FieldSize(f, m[f.name])
    BY <2>4, <2>6 DEF Counter
  <2> HIDE DEF g, F
  <2> QED
    BY <2>6, <2>7, <2>8 DEF f
<1>4. g[n] = Len(FlattenSeq(s))
  <2>1. SubSeq(s, 1, n) = s
    BY <1>1
  <2>2. z(n) = Len(FlattenSeq(s))
    BY <2>1
  <2> HIDE DEF z
  <2> QED
    BY <1>1, <2>2
<1> HIDE DEF g, F
<1>5. Runs(g, F, 0, layout)
  BY <1>1, <1>2, <1>3 DEF Runs, n
<1>6. LeftFold(F, 0, layout) = g[n]
  BY <1>1, <1>5, LeftFoldIs DEF n
<1>7. ByteSizeLong(layout, m) = LeftFold(F, 0, layout)
  BY SizesFolded DEF F
<1> QED
  BY <1>1, <1>4, <1>6, <1>7

-----------------------------------------------------------------------------
(* Whatever the bytes are, a number that is read is an int32.              *)
LEMMA UnvarintTyped ==
    ASSUME NEW b \in Seq(Byte)
    PROVE  Unvarint(b) \in Int32
<1>0. \A x \in Byte : x % 128 \in 0..127
  BY SMT DEF Byte
<1>1. ASSUME NEW i \in 1..5 PROVE Low(b, i) \in 0..127
  <2>1. ASSUME i <= Len(b) PROVE b[i] \in Byte
    <3>1. i \in 1..Len(b)
      BY SMT, <2>1
    <3> QED
      BY SMT, <3>1
  <2> DEFINE y == b[i]
  <2>2. Low(b, i) = IF i <= Len(b) THEN y % 128 ELSE 0
    BY DEF Low
  <2>3. i <= Len(b) => y \in Byte
    BY <2>1
  <2> HIDE DEF y
  <2>4. i <= Len(b) => y % 128 \in 0..127
    BY <1>0, <2>3, Zenon
  <2>5. 0 \in 0..127
    OBVIOUS
  <2> QED
    BY <2>2, <2>4, <2>5, Zenon
<1> DEFINE u == Low(b, 1)
           v == Low(b, 2)
           w == Low(b, 3)
           x == Low(b, 4)
           t == Low(b, 5)
           top == t % 16
           sign == IF top < 8 THEN top ELSE top - 16
<1>2. u \in 0..127 /\ v \in 0..127 /\ w \in 0..127 /\ x \in 0..127 /\ t \in 0..127
  BY <1>1
<1>3. Unvarint(b) = u + 128 * v + 16384 * w + 2097152 * x + 268435456 * sign
  BY SMT DEF Unvarint
<1> HIDE DEF u, v, w, x, t
<1>4. top \in 0..15
  BY SMT, <1>2
<1> HIDE DEF top
<1>5. sign \in -8..7
  BY SMT, <1>4
<1> HIDE DEF sign
<1> DEFINE n == u + 128 * v + 16384 * w + 2097152 * x + 268435456 * sign
<1>6. n \in Int /\ -2147483647 - 1 <= n /\ n <= 2147483647
  BY SMT, <1>2, <1>5
<1> HIDE DEF n
<1> QED
  <2>1. Unvarint(b) = n
    BY <1>3 DEF n
  <2> QED
    BY SMT, <1>6, <2>1 DEF Int32

(* Where the number that starts at p ends.                                 *)
LEMMA LastGroupIs ==
    ASSUME NEW b \in Seq(Byte), NEW p \in Nat \ {0}
    PROVE  LastGroup(b, p) = 0 \/ LastGroup(b, p) \in p..Len(b)
<1> DEFINE I == {i \in p..Len(b) : b[i] < 128}
<1>1. LastGroup(b, p) = IF I # {} THEN Min(I) ELSE 0
  BY DEF LastGroup, SelectInSubSeq
<1>2. I \subseteq p..Len(b) /\ I \subseteq Nat
  OBVIOUS
<1> HIDE DEF I
<1> QED
  BY <1>1, <1>2, MinIs

LEMMA LastGroupAt ==
    ASSUME NEW b \in Seq(Byte), NEW p \in Nat \ {0}, NEW t \in p..Len(b),
           \A i \in p..t : b[i] < 128 <=> i = t
    PROVE  LastGroup(b, p) = t
<1> DEFINE I == {i \in p..Len(b) : b[i] < 128}
<1>1. LastGroup(b, p) = IF I # {} THEN Min(I) ELSE 0
  BY DEF LastGroup, SelectInSubSeq
<1>2. I \subseteq Nat /\ t \in I
  OBVIOUS
<1>3. ASSUME NEW i \in I PROVE i >= t
  <2>1. i \in p..Len(b) /\ b[i] < 128
    OBVIOUS
  <2>2. i < t => i \in p..t
    BY <2>1
  <2> QED
    BY <2>1, <2>2
<1> HIDE DEF I
<1>4. Min(I) \in I /\ \A y \in I : Min(I) <= y
  BY <1>2, MinIs
<1>5. Min(I) >= t /\ Min(I) <= t /\ Min(I) \in Nat /\ t \in Nat
  BY <1>2, <1>3, <1>4
<1> QED
  BY <1>1, <1>2, <1>5

LEMMA ValueEndIs ==
    ASSUME NEW b \in Seq(Byte), NEW wire, NEW q \in 1..(Len(b) + 1)
    PROVE  ValueEnd(b, wire, q) = 0 \/ ValueEnd(b, wire, q) \in (q + 1)..(Len(b) + 1)
<1> DEFINE e == LastGroup(b, q)
           n == Unvarint(SubSeq(b, q, e))
<1>1. e = 0 \/ e \in q..Len(b)
  BY LastGroupIs
<1>2. e # 0 => n \in Int32
  <2>1. e # 0 => SubSeq(b, q, e) \in Seq(Byte)
    BY <1>1
  <2> QED
    BY <2>1, UnvarintTyped
<1>3. \/ ValueEnd(b, wire, q) = IF e = 0 THEN 0 ELSE e + 1
      \/ ValueEnd(b, wire, q) = IF e = 0 \/ n < 0 \/ n > Len(b) - e THEN 0 ELSE e + n + 1
      \/ ValueEnd(b, wire, q) = After(b, q + 7)
      \/ ValueEnd(b, wire, q) = After(b, q + 3)
      \/ ValueEnd(b, wire, q) = 0
  BY DEF ValueEnd, VARINT, LENGTH
<1> DEFINE v == ValueEnd(b, wire, q)
<1> HIDE DEF e, n, v
<1>4. Len(b) \in Nat /\ q \in Nat
  OBVIOUS
<1>5. CASE v = IF e = 0 THEN 0 ELSE e + 1
  BY <1>1, <1>4, <1>5 DEF v
<1>6. CASE v = IF e = 0 \/ n < 0 \/ n > Len(b) - e THEN 0 ELSE e + n + 1
  BY <1>1, <1>2, <1>4, <1>6 DEF v, Int32
<1>7. CASE v = After(b, q + 7)
  BY <1>4, <1>7 DEF v, After
<1>8. CASE v = After(b, q + 3)
  BY <1>4, <1>8 DEF v, After
<1>9. CASE v = 0
  BY <1>9 DEF v
<1> QED
  BY <1>3, <1>5, <1>6, <1>7, <1>8, <1>9 DEF v

(* The reader goes forward, and what it sets is of the field's type.       *)
LEMMA ReadForward ==
    ASSUME NEW layout, GoodLayout(layout), NEW b \in Text, NEW p \in 1..Len(b)
    PROVE  /\ ReadField(layout, b, p).next = 0
              \/ ReadField(layout, b, p).next \in (p + 1)..(Len(b) + 1)
           /\ ReadField(layout, b, p).sets \in Seq(Settings(layout))
<1> DEFINE t     == LastGroup(b, p)
           tag   == Unvarint(SubSeq(b, p, t))
           end   == ValueEnd(b, tag % 8, t + 1)
           known == {i \in DOMAIN layout : Tag(layout[i]) = tag}
           r     == ReadField(layout, b, p)
<1>1. b \in Seq(Byte) /\ Len(b) <= 2147483647
  BY DEF Text
<1>2. t = 0 \/ t \in p..Len(b)
  BY <1>1, LastGroupIs
<1>3. <<>> \in Seq(Settings(layout))
  OBVIOUS
<1>4. CASE t = 0 \/ tag = 0
  <2>1. r = Field(<<>>, 0)
    BY <1>4 DEF ReadField
  <2> QED
    BY <1>3, <2>1 DEF Field
<1>5. CASE t # 0 /\ tag # 0
  <2>1. t \in p..Len(b) /\ t + 1 \in 1..(Len(b) + 1)
    BY <1>2, <1>5
  <2>2. end = 0 \/ end \in (p + 1)..(Len(b) + 1)
    <3>1. end = 0 \/ end \in (t + 2)..(Len(b) + 1)
      <4> HIDE DEF tag, t
      <4>1. end = 0 \/ end \in ((t + 1) + 1)..(Len(b) + 1)
        BY <1>1, <2>1, ValueEndIs
      <4>2. (t + 1) + 1 = t + 2
        BY <2>1
      <4> QED
        BY <4>1, <4>2
    <3> QED
      BY <2>1, <3>1
  <2>3. CASE known = {}
    <3>1. r = Field(<<>>, end)
      BY <1>5, <2>3 DEF ReadField
    <3> QED
      BY <1>3, <2>2, <3>1 DEF Field
  <2>4. CASE known # {}
    <3> DEFINE c == CHOOSE i \in known : TRUE
               f == layout[c]
               e == LastGroup(b, t + 1)
               text == SubSeq(b, e + 1, IF end = 0 THEN Len(b) ELSE end - 1)
    <3>1. c \in DOMAIN layout
      BY <2>4
    <3>2. r = Assign(f, b, t + 1, end)
      BY <1>5, <2>4 DEF ReadField
    <3>3. e = 0 \/ e \in (t + 1)..Len(b)
      BY <1>1, <2>1, LastGroupIs
    <3>4. f.wire \in {VARINT, LENGTH} /\ f.name \in Names(layout)
      BY <3>1, FieldOf DEF Names
    <3> HIDE DEF c, r, t, tag, end, known
    <3>5. CASE e = 0
      <4>1. r = Field(<<>>, 0)
        BY <3>2, <3>5 DEF Assign
      <4> QED
        BY <1>3, <4>1 DEF Field, r
    <3>6. CASE e # 0 /\ f.wire = VARINT
      <4> DEFINE x == Unvarint(SubSeq(b, t + 1, e))
      <4>1. r = Field(<< <<f.name, x>> >>, end)
        BY <3>2, <3>6 DEF Assign
      <4>2. SubSeq(b, t + 1, e) \in Seq(Byte)
        BY <1>1, <2>1, <3>3, <3>6
      <4>3. x \in Int32
        BY <4>2, UnvarintTyped
      <4>4. <<f.name, x>> \in Settings(layout)
        <5> HIDE DEF x, f
        <5>1. x \in Value /\ x \in FieldValues(f)
          BY <3>6, <4>3 DEF Value, FieldValues, VARINT, LENGTH
        <5> QED
          BY <3>1, <3>4, <5>1 DEF Settings, f
      <4> HIDE DEF x
      <4> QED
        BY <2>2, <4>1, <4>4 DEF Field, r
    <3>7. CASE e # 0 /\ f.wire = LENGTH
      <4>1. r = Field(<< <<f.name, text>> >>, IF IsUTF8(text) THEN end ELSE 0)
        BY <3>2, <3>7 DEF Assign, VARINT, LENGTH
      <4>2. text \in Text
        <5> DEFINE m == IF end = 0 THEN Len(b) ELSE end - 1
        <5>1. m \in 0..Len(b) /\ e + 1 \in 1..(Len(b) + 1)
          BY <1>1, <2>1, <2>2, <3>3, <3>7
        <5> HIDE DEF m, e
        <5>2. SubSeq(b, e + 1, m) \in Seq(Byte) /\ Len(SubSeq(b, e + 1, m)) <= Len(b)
          BY <1>1, <5>1
        <5> QED
          BY <1>1, <5>1, <5>2 DEF Text, m
      <4>3. <<f.name, text>> \in Settings(layout)
        <5> HIDE DEF text, f
        <5>1. text \in Value /\ text \in FieldValues(f)
          BY <3>7, <4>2 DEF Value, FieldValues
        <5> QED
          BY <3>1, <3>4, <5>1 DEF Settings, f
      <4> HIDE DEF text
      <4> QED
        BY <2>2, <4>1, <4>3 DEF Field, r
    <3> QED
      BY <3>4, <3>5, <3>6, <3>7
  <2> QED
    BY <2>3, <2>4
<1> QED
  BY <1>4, <1>5

-----------------------------------------------------------------------------
(* What ParseFrom finds at p, from what it finds behind the field there.   *)
Found(layout, b, rest, p) ==
    IF p = Len(b) + 1 THEN [ok |-> TRUE, sets |-> <<>>]
    ELSE IF ReadField(layout, b, p).next = 0
         THEN [ok |-> FALSE, sets |-> ReadField(layout, b, p).sets]
         ELSE [ok |-> rest[ReadField(layout, b, p).next].ok,
               sets |-> ReadField(layout, b, p).sets \o rest[ReadField(layout, b, p).next].sets]

IsRest(rest, layout, b) == rest = [p \in 1..(Len(b) + 1) |-> Found(layout, b, rest, p)]

Result(layout) == [ok : BOOLEAN, sets : Seq(Settings(layout))]

LEMMA FoundTyped ==
    ASSUME NEW layout, GoodLayout(layout), NEW b \in Text, NEW p \in 1..(Len(b) + 1), NEW r,
           \A q \in (p + 1)..(Len(b) + 1) : r[q] \in Result(layout)
    PROVE  Found(layout, b, r, p) \in Result(layout)
<1> DEFINE here == ReadField(layout, b, p)
           S == Seq(Settings(layout))
<1>1. CASE p = Len(b) + 1
  <2>1. Found(layout, b, r, p) = [ok |-> TRUE, sets |-> <<>>]
    BY <1>1 DEF Found
  <2>2. <<>> \in S
    OBVIOUS
  <2> HIDE DEF S
  <2> QED
    BY <2>1, <2>2 DEF Result, S
<1>2. CASE p # Len(b) + 1
  <2>1. p \in 1..Len(b)
    BY <1>2 DEF Text
  <2>2. (here.next = 0 \/ here.next \in (p + 1)..(Len(b) + 1)) /\ here.sets \in S
    BY <2>1, ReadForward
  <2>3. CASE here.next = 0
    <3>1. Found(layout, b, r, p) = [ok |-> FALSE, sets |-> here.sets]
      BY <1>2, <2>3 DEF Found
    <3> HIDE DEF here, S
    <3> QED
      BY <2>2, <3>1 DEF Result, S
  <2>4. CASE here.next # 0
    <3> DEFINE x == r[here.next]
    <3>1. Found(layout, b, r, p) = [ok |-> x.ok, sets |-> here.sets \o x.sets]
      BY <1>2, <2>4 DEF Found
    <3>2. x.ok \in BOOLEAN /\ x.sets \in Seq(Settings(layout))
      BY <2>2, <2>4 DEF Result
    <3> DEFINE h == here.sets
    <3>3. h \in Seq(Settings(layout))
      BY <2>2
    <3> HIDE DEF x, h
    <3>4. h \o x.sets \in Seq(Settings(layout))
      BY <3>2, <3>3
    <3> QED
      BY <3>1, <3>2, <3>4 DEF Result, h
  <2> QED
    BY <2>3, <2>4
<1> QED
  BY <1>1, <1>2

(* The reader only goes forward, so there is such a function: from the end *)
(* on.                                                                     *)
LEMMA RestExists ==
    ASSUME NEW layout, GoodLayout(layout), NEW b \in Text
    PROVE  \E r \in [1..(Len(b) + 1) -> Result(layout)] : IsRest(r, layout, b)
<1> DEFINE n == Len(b) + 1
           R == Result(layout)
           From(k) == (n - k)..n
           P(k) == \E r \in [From(k) -> R] : \A p \in From(k) : r[p] = Found(layout, b, r, p)
           S == {k \in Nat : P(k)}
<1>0. n \in Nat /\ n >= 1 /\ Len(b) \in Nat
  BY DEF Text
<1>1. 0 \in S
  <2> DEFINE v == Found(layout, b, <<>>, n)
             r == [p \in From(0) |-> v]
  <2>1. From(0) = {n}
    BY <1>0
  <2>2. n \in 1..(Len(b) + 1) /\ \A q \in (n + 1)..(Len(b) + 1) : <<>>[q] \in Result(layout)
    BY <1>0
  <2>3. v \in R
    <3> HIDE DEF n
    <3> QED
      BY <2>2, FoundTyped
  <2>4. Found(layout, b, r, n) = v
    BY DEF Found
  <2>5. r \in [From(0) -> R] /\ r[n] = v
    BY <2>1, <2>3
  <2> HIDE DEF r, v, R, n, From
  <2>6. P(0)
    BY <2>1, <2>4, <2>5
  <2> QED
    BY <2>6
<1>2. ASSUME NEW k \in 0..(n - 2), k \in S
      PROVE  k + 1 \in S
  <2> DEFINE a == n - (k + 1)
             D == From(k)
             E == From(k + 1)
  <2>1. a \in 1..Len(b) /\ E = D \cup {a} /\ a \notin D /\ D = (a + 1)..(Len(b) + 1)
        /\ D \subseteq 1..(Len(b) + 1)
    BY <1>0
  <2>2. PICK g \in [D -> R] : \A p \in D : g[p] = Found(layout, b, g, p)
    BY <1>2
  <2> DEFINE v == Found(layout, b, g, a)
             r == [p \in E |-> IF p = a THEN v ELSE g[p]]
  <2> HIDE DEF a, D, E, n, From
  <2>3. v \in R
    <3>1. \A q \in (a + 1)..(Len(b) + 1) : g[q] \in Result(layout)
      BY <2>1, <2>2
    <3>2. a \in 1..(Len(b) + 1)
      BY <2>1
    <3> QED
      BY <3>1, <3>2, FoundTyped
  <2>4. r \in [E -> R] /\ r[a] = v /\ \A p \in D : r[p] = g[p]
    <3> HIDE DEF v, R
    <3> QED
      BY <2>1, <2>2, <2>3
  <2> HIDE DEF r
  <2>5. ASSUME NEW p \in E PROVE r[p] = Found(layout, b, r, p)
    <3> DEFINE here == ReadField(layout, b, p)
    <3>0. p \in 1..(Len(b) + 1) /\ (p = a \/ p \in D) /\ \A q \in (p + 1)..(Len(b) + 1) : q \in D
      BY <1>0, <2>1
    <3>1. p # Len(b) + 1 => here.next = 0 \/ here.next \in (p + 1)..(Len(b) + 1)
      <4>1. p # Len(b) + 1 => p \in 1..Len(b)
        BY <1>0, <3>0
      <4> QED
        BY <4>1, ReadForward
    <3>2. p # Len(b) + 1 => here.next = 0 \/ r[here.next] = g[here.next]
      BY <2>4, <3>0, <3>1
    <3> HIDE DEF here
    <3>3. Found(layout, b, r, p) = Found(layout, b, g, p)
      BY <3>2 DEF Found, here
    <3> QED
      BY <2>2, <2>4, <3>0, <3>3
  <2> HIDE DEF R, v
  <2>6. P(k + 1)
    BY <2>4, <2>5 DEF E
  <2>7. k + 1 \in Nat
    BY <1>0 DEF n
  <2> HIDE DEF P
  <2> QED
    BY <2>6, <2>7
<1> HIDE DEF S
<1>3. 0..(n - 1) \subseteq S
  <2>1. n - 1 \in Nat /\ \A k \in 0..((n - 1) - 1) : k \in 0..(n - 2)
    BY <1>0
  <2>2. \A k \in 0..((n - 1) - 1) : k \in S => k + 1 \in S
    BY <1>2, <2>1
  <2> HIDE DEF n
  <2> QED
    BY <1>1, <2>1, <2>2, InductionTo
<1>4. n - 1 \in S /\ From(n - 1) = 1..(Len(b) + 1)
  BY <1>0, <1>3
<1>5. PICK r \in [1..(Len(b) + 1) -> R] : \A p \in 1..(Len(b) + 1) : r[p] = Found(layout, b, r, p)
  BY <1>4 DEF S
<1> DEFINE Q(p) == Found(layout, b, r, p)
<1> HIDE DEF Q, R
<1>6. r = [p \in 1..(Len(b) + 1) |-> Q(p)]
  BY <1>5 DEF Q
<1> QED
  BY <1>6 DEF IsRest, Q, R

LEMMA RestAt ==
    ASSUME NEW layout, NEW b, NEW r, IsRest(r, layout, b), NEW p \in 1..(Len(b) + 1)
    PROVE  r[p] = Found(layout, b, r, p)
<1> DEFINE Q(q) == Found(layout, b, r, q)
<1> HIDE DEF Q
<1>1. r = [q \in 1..(Len(b) + 1) |-> Q(q)]
  BY Zenon DEF IsRest, Q
<1> QED
  BY <1>1, Zenon DEF Q

LEMMA RestTyped ==
    ASSUME NEW layout, GoodLayout(layout), NEW b \in Text, NEW c, IsRest(c, layout, b)
    PROVE  \A p \in 1..(Len(b) + 1) : c[p] \in Result(layout)
<1> DEFINE n == Len(b) + 1
           S == {k \in Nat : k <= Len(b) => \A p \in (n - k)..n : c[p] \in Result(layout)}
<1>0. Len(b) \in Nat /\ n \in Nat
  BY DEF Text
<1>1. 0 \in S
  <2>1. n \in 1..(Len(b) + 1) /\ \A q \in (n + 1)..(Len(b) + 1) : c[q] \in Result(layout)
    BY <1>0
  <2>2. c[n] = Found(layout, b, c, n)
    BY <2>1, RestAt
  <2>3. Found(layout, b, c, n) \in Result(layout)
    <3> HIDE DEF n
    <3> QED
      BY <2>1, FoundTyped
  <2>4. (n - 0)..n = {n}
    BY <1>0
  <2> QED
    BY <2>2, <2>3, <2>4
<1>2. ASSUME NEW k \in Nat, k \in S PROVE k + 1 \in S
  <2> SUFFICES ASSUME k + 1 <= Len(b), NEW p \in (n - (k + 1))..n PROVE c[p] \in Result(layout)
    OBVIOUS
  <2>1. CASE p \in (n - k)..n
    BY <1>0, <1>2, <2>1
  <2>2. CASE p = n - (k + 1)
    <3>1. p \in 1..(Len(b) + 1) /\ \A q \in (p + 1)..(Len(b) + 1) : q \in (n - k)..n
      BY <1>0, <2>2
    <3>2. \A q \in (p + 1)..(Len(b) + 1) : c[q] \in Result(layout)
      BY <1>0, <1>2, <3>1
    <3>3. c[p] = Found(layout, b, c, p)
      BY <3>1, RestAt
    <3> HIDE DEF n, S
    <3> QED
      BY <3>1, <3>2, <3>3, FoundTyped
  <2> QED
    BY <1>0, <2>1, <2>2
<1> HIDE DEF S
<1>3. Nat \subseteq S
  BY <1>1, <1>2, Induction
<1>4. Len(b) \in S /\ n - Len(b) = 1
  BY <1>0, <1>3
<1> QED
  BY <1>4 DEF S

LEMMA ParseFromIs ==
    ASSUME NEW layout, GoodLayout(layout), NEW b \in Text
    PROVE  \E r : IsRest(r, layout, b) /\ ParseFrom(layout, b) = r[1]
<1> DEFINE c == CHOOSE r : IsRest(r, layout, b)
<1>1. IsRest(c, layout, b)
  BY RestExists, Zenon
<1>2. ParseFrom(layout, b) = c[1]
  BY Zenon DEF ParseFrom, IsRest, Found
<1> QED
  BY <1>1, <1>2

-----------------------------------------------------------------------------
LEMMA CatAssoc ==
    ASSUME NEW B, NEW a \in Seq(B), NEW b \in Seq(B), NEW c \in Seq(B)
    PROVE  /\ Cat(Cat(a, b), c) = Cat(a, Cat(b, c))
           /\ Cat(a, b) \in Seq(B) /\ Cat(b, c) \in Seq(B)
BY DEF Cat

LEMMA CatLen ==
    ASSUME NEW B, NEW a \in Seq(B), NEW b \in Seq(B)
    PROVE  Cat(a, b) \in Seq(B) /\ Len(Cat(a, b)) = Len(a) + Len(b) /\ Len(a) \in Nat /\ Len(b) \in Nat
BY DEF Cat

(* A part of a sequence.                                                   *)
StandsAt(b, n, x) ==
    /\ \A j \in 1..Len(x) : b[n + j] = x[j]
    /\ SubSeq(b, n + 1, n + Len(x)) = x

LEMMA PartAt ==
    ASSUME NEW h \in Seq(Byte), NEW x \in Seq(Byte), NEW c \in Seq(Byte)
    PROVE  /\ Cat(h, Cat(x, c)) \in Seq(Byte)
           /\ Len(Cat(h, Cat(x, c))) = Len(h) + Len(x) + Len(c)
           /\ Len(h) \in Nat /\ Len(x) \in Nat /\ Len(c) \in Nat
<1> DEFINE y == Cat(x, c)
<1>1. y \in Seq(Byte) /\ Len(y) = Len(x) + Len(c)
  BY DEF Cat
<1>2. Len(h) \in Nat /\ Len(x) \in Nat /\ Len(c) \in Nat
  OBVIOUS
<1> HIDE DEF y
<1>3. Cat(h, y) \in Seq(Byte) /\ Len(Cat(h, y)) = Len(h) + Len(y)
  BY <1>1, CatLen
<1>4. Cat(h, y) \in Seq(Byte) /\ Len(Cat(h, y)) = Len(h) + Len(x) + Len(c)
  BY <1>1, <1>2, <1>3
<1> QED
  BY <1>2, <1>4 DEF y

LEMMA PartStands ==
    ASSUME NEW h \in Seq(Byte), NEW x \in Seq(Byte), NEW c \in Seq(Byte)
    PROVE  StandsAt(Cat(h, Cat(x, c)), Len(h), x)
<1> DEFINE y == x \o c
           b == Cat(h, Cat(x, c))
<1>0. Len(h) \in Nat /\ Len(x) \in Nat /\ Len(c) \in Nat
  OBVIOUS
<1>1. y \in Seq(Byte)
  OBVIOUS
<1>2. Len(y) = Len(x) + Len(c) /\ \A j \in 1..Len(x) : y[j] = x[j]
  OBVIOUS
<1>3. b = h \o y
  BY DEF Cat
<1> HIDE DEF y, b
<1>4. b \in Seq(Byte) /\ Len(b) = Len(h) + Len(y)
  BY <1>1, <1>3
<1>5. \A j \in 1..Len(y) : b[Len(h) + j] = y[j]
  BY <1>1, <1>3
<1>6. \A j \in 1..Len(x) : b[Len(h) + j] = x[j]
  BY <1>0, <1>2, <1>5
<1>7. Len(b) = Len(h) + Len(x) + Len(c)
  BY <1>0, <1>2, <1>4
<1> DEFINE s == SubSeq(b, Len(h) + 1, Len(h) + Len(x))
<1>8. s \in Seq(Byte) /\ Len(s) = Len(x) /\ \A j \in 1..Len(x) : s[j] = b[Len(h) + j]
  BY <1>0, <1>4, <1>7
<1>9. s = x
  <2> HIDE DEF s
  <2> QED
    BY <1>0, <1>6, <1>8
<1>10. StandsAt(b, Len(h), x)
  BY <1>6, <1>9 DEF StandsAt
<1> QED
  BY <1>10 DEF b

LEMMA TagRead ==
    ASSUME NEW x \in 1..127
    PROVE  Unvarint(<<x>>) = x
<1>1. Low(<<x>>, 1) = x /\ \A i \in 2..5 : Low(<<x>>, i) = 0
  BY DEF Low
<1>2. Low(<<x>>, 2) = 0 /\ Low(<<x>>, 3) = 0 /\ Low(<<x>>, 4) = 0 /\ Low(<<x>>, 5) = 0
  BY <1>1
<1> QED
  BY <1>1, <1>2 DEF Unvarint

(* A number is where it stands.                                            *)
LEMMA VarintRead ==
    ASSUME NEW n \in Int32, NEW h \in Seq(Byte), NEW c \in Seq(Byte),
           NEW b, b = Cat(h, Cat(Varint(n), c))
    PROVE  /\ LastGroup(b, Len(h) + 1) = Len(h) + VarintSize(n)
           /\ Unvarint(SubSeq(b, Len(h) + 1, Len(h) + VarintSize(n))) = n
<1> DEFINE w == Varint(n)
           m == VarintSize(n)
           q == Len(h) + 1
           e == Len(h) + m
<1>1. w \in Seq(Byte) /\ Len(w) = m /\ m \in 1..10 /\ \A i \in 1..m : w[i] < 128 <=> i = m
  BY VarintTyped
<1>2. Unvarint(w) = n
  BY VarintRoundTrip
<1>7. b = Cat(h, Cat(w, c))
  OBVIOUS
<1> HIDE DEF w, m
<1>3. /\ b \in Seq(Byte) /\ Len(b) = Len(h) + Len(w) + Len(c)
      /\ Len(h) \in Nat /\ Len(c) \in Nat /\ StandsAt(b, Len(h), w)
  <2>1. w \in Seq(Byte)
    BY <1>1
  <2>2. StandsAt(b, Len(h), w)
    BY <1>7, <2>1, PartStands, Zenon
  <2> QED
    BY <1>7, <2>1, <2>2, PartAt
<1>8. /\ \A j \in 1..Len(w) : b[Len(h) + j] = w[j]
      /\ SubSeq(b, Len(h) + 1, Len(h) + Len(w)) = w
  BY <1>3 DEF StandsAt
<1>4. \A i \in q..e : b[i] < 128 <=> i = e
  <2> SUFFICES ASSUME NEW i \in q..e PROVE b[i] < 128 <=> i = e
    OBVIOUS
  <2>1. i - Len(h) \in 1..m /\ Len(h) + (i - Len(h)) = i
    BY <1>1, <1>3
  <2>2. b[i] = w[i - Len(h)]
    BY <1>1, <1>3, <1>8, <2>1
  <2>3. w[i - Len(h)] < 128 <=> i - Len(h) = m
    BY <1>1, <2>1
  <2> QED
    BY <1>1, <1>3, <2>1, <2>2, <2>3
<1>5. q \in Nat \ {0} /\ e \in q..Len(b)
  BY <1>1, <1>3
<1>6. LastGroup(b, q) = e
  <2>1. b \in Seq(Byte)
    BY <1>3
  <2> HIDE DEF q, e
  <2> QED
    BY <1>4, <1>5, <2>1, LastGroupAt
<1> QED
  BY <1>1, <1>2, <1>3, <1>6, <1>8 DEF w, m

LEMMA Regroup ==
    ASSUME NEW B, NEW h \in Seq(B), NEW t \in Seq(B), NEW w \in Seq(B), NEW v \in Seq(B),
           NEW c \in Seq(B), NEW b, b = Cat(h, Cat(Cat(t, Cat(w, v)), c))
    PROVE  /\ b = Cat(h, Cat(t, Cat(w, Cat(v, c))))
           /\ b = Cat(Cat(h, t), Cat(w, Cat(v, c)))
           /\ b = Cat(Cat(Cat(h, t), w), Cat(v, c))
           /\ Cat(h, t) \in Seq(B) /\ Cat(Cat(h, t), w) \in Seq(B) /\ Cat(v, c) \in Seq(B)
           /\ Cat(w, Cat(v, c)) \in Seq(B)
<1>1. /\ Cat(w, v) \in Seq(B) /\ Cat(v, c) \in Seq(B) /\ Cat(h, t) \in Seq(B)
      /\ Cat(w, Cat(v, c)) \in Seq(B) /\ Cat(Cat(h, t), w) \in Seq(B)
      /\ Cat(Cat(w, v), c) = Cat(w, Cat(v, c))
  BY CatAssoc
<1>2. Cat(Cat(t, Cat(w, v)), c) = Cat(t, Cat(Cat(w, v), c))
  BY <1>1, CatAssoc
<1>3. Cat(h, Cat(t, Cat(w, Cat(v, c)))) = Cat(Cat(h, t), Cat(w, Cat(v, c)))
  BY <1>1, CatAssoc
<1>4. Cat(Cat(h, t), Cat(w, Cat(v, c))) = Cat(Cat(Cat(h, t), w), Cat(v, c))
  BY <1>1, CatAssoc
<1> QED
  BY <1>1, <1>2, <1>3, <1>4

-----------------------------------------------------------------------------
(* A field that was written, among other bytes, is read as it was written. *)
LEMMA TagAt ==
    ASSUME NEW x \in 1..127, NEW h \in Seq(Byte), NEW c \in Seq(Byte),
           NEW b, b = Cat(h, Cat(<<x>>, c))
    PROVE  /\ LastGroup(b, Len(h) + 1) = Len(h) + 1
           /\ Unvarint(SubSeq(b, Len(h) + 1, Len(h) + 1)) = x
<1> DEFINE t == <<x>>
           p == Len(h) + 1
<1>1. t \in Seq(Byte) /\ Len(t) = 1 /\ t[1] = x
  BY DEF Byte
<1>2. Unvarint(t) = x
  BY TagRead
<1>3. b = Cat(h, Cat(t, c))
  OBVIOUS
<1> HIDE DEF t
<1>4. /\ b \in Seq(Byte) /\ Len(b) = Len(h) + Len(t) + Len(c)
      /\ Len(h) \in Nat /\ Len(c) \in Nat /\ StandsAt(b, Len(h), t)
  <2>1. t \in Seq(Byte)
    BY <1>1
  <2>2. StandsAt(b, Len(h), t)
    BY <1>3, <2>1, PartStands, Zenon
  <2> QED
    BY <1>3, <2>1, <2>2, PartAt
<1>8. /\ \A j \in 1..Len(t) : b[Len(h) + j] = t[j]
      /\ SubSeq(b, Len(h) + 1, Len(h) + Len(t)) = t
  BY <1>4 DEF StandsAt
<1>5. p \in Nat \ {0} /\ p \in p..Len(b) /\ \A i \in p..p : b[i] < 128 <=> i = p
  <2>1. b[p] = x
    BY <1>1, <1>4, <1>8
  <2>2. p \in Nat \ {0} /\ p \in p..Len(b) /\ \A i \in p..p : i = p
    BY <1>1, <1>4
  <2> HIDE DEF p
  <2> QED
    BY <2>1, <2>2
<1>6. LastGroup(b, p) = p
  <2> HIDE DEF p
  <2> QED
    BY <1>4, <1>5, LastGroupAt
<1>7. SubSeq(b, p, p) = t
  BY <1>1, <1>4, <1>8
<1> QED
  BY <1>2, <1>6, <1>7

(* What the reading of a value does once its bytes are known.              *)
LEMMA NumberEnds ==
    ASSUME NEW b, NEW q, NEW e \in Int, LastGroup(b, q) = e, e # 0
    PROVE  ValueEnd(b, VARINT, q) = e + 1
<1>1. VARINT = 0 /\ LENGTH = 2
  BY DEF VARINT, LENGTH
<1>2. VARINT # LENGTH /\ VARINT # 1 /\ VARINT # 5
  BY <1>1
<1>3. ValueEnd(b, VARINT, q) = IF e = 0 THEN 0 ELSE e + 1
  BY <1>2, Zenon DEF ValueEnd
<1> QED
  BY <1>3

LEMMA NumberAssigned ==
    ASSUME NEW f, NEW b, NEW q, NEW e \in Int, LastGroup(b, q) = e, e # 0, f.wire = VARINT,
           NEW v, Unvarint(SubSeq(b, q, e)) = v, NEW end
    PROVE  Assign(f, b, q, end) = Field(<< <<f.name, v>> >>, end)
BY DEF Assign

LEMMA TextEnds ==
    ASSUME NEW b, NEW q, NEW e \in Int, LastGroup(b, q) = e, e # 0,
           NEW n \in Int, Unvarint(SubSeq(b, q, e)) = n, n >= 0, ~ (n > Len(b) - e)
    PROVE  ValueEnd(b, LENGTH, q) = e + n + 1
<1>0. VARINT = 0 /\ LENGTH = 2
  BY DEF VARINT, LENGTH
<1>1. LENGTH # VARINT /\ LENGTH # 1 /\ LENGTH # 5
  BY <1>0
<1>2. ~ (n < 0)
  OBVIOUS
<1>3. ValueEnd(b, LENGTH, q) = IF e = 0 \/ n < 0 \/ n > Len(b) - e THEN 0 ELSE e + n + 1
  BY <1>1, Zenon DEF ValueEnd
<1> QED
  BY <1>2, <1>3

LEMMA TextAssigned ==
    ASSUME NEW f, NEW b, NEW q, NEW end, end # 0, LastGroup(b, q) # 0, f.wire = LENGTH,
           IsUTF8(SubSeq(b, LastGroup(b, q) + 1, end - 1))
    PROVE  Assign(f, b, q, end) =
               Field(<< <<f.name, SubSeq(b, LastGroup(b, q) + 1, end - 1)>> >>, end)
<1>0. VARINT = 0 /\ LENGTH = 2
  BY DEF VARINT, LENGTH
<1>1. f.wire # VARINT
  BY <1>0
<1> QED
  BY <1>1, Zenon DEF Assign

LEMMA TagsTell ==
    ASSUME NEW m \in Int, NEW n \in Int, NEW u \in {VARINT, LENGTH}, NEW w \in {VARINT, LENGTH},
           8 * m + u = 8 * n + w
    PROVE  m = n
BY DEF VARINT, LENGTH

LEMMA ReadEncode ==
    ASSUME NEW layout, GoodLayout(layout), NEW k \in DOMAIN layout,
           NEW v \in FieldValues(layout[k]), v # Default(layout[k]),
           layout[k].wire = LENGTH => IsUTF8(v),
           NEW h \in Seq(Byte), NEW c \in Seq(Byte),
           NEW b, b = Cat(h, Cat(Encode(layout[k], v), c))
    PROVE  ReadField(layout, b, Len(h) + 1) =
               Field(<< <<layout[k].name, v>> >>, Len(h) + Len(Encode(layout[k], v)) + 1)
<1> DEFINE f     == layout[k]
           p     == Len(h) + 1
           t     == LastGroup(b, p)
           tag   == Unvarint(SubSeq(b, p, t))
           end   == ValueEnd(b, tag % 8, t + 1)
           known == {i \in DOMAIN layout : Tag(layout[i]) = tag}
           x     == Tag(f)
           T     == <<x>>
           E     == Encode(f, v)
<1>1. f.wire \in {VARINT, LENGTH} /\ f.number \in 1..15
  BY FieldOf
<1>2. /\ x \in 1..127 /\ x % 8 = f.wire /\ E \in Seq(Byte)
      /\ f.wire = LENGTH => v \in Seq(Byte) /\ Len(v) \in Int32 /\ Len(v) >= 0
      /\ f.wire = VARINT => v \in Int32
  BY <1>1, FieldWritten
<1>3. T \in Seq(Byte) /\ Len(T) = 1
  BY <1>2 DEF Byte
<1>4. ASSUME NEW i \in DOMAIN layout, Tag(layout[i]) = x PROVE i = k
  <2>1. /\ layout[i].wire \in {VARINT, LENGTH} /\ layout[i].number \in 1..15
    BY FieldOf
  <2>2. layout[i].number = f.number
    <3> DEFINE m == layout[i].number
               n == f.number
               u == layout[i].wire
               w == f.wire
    <3>1. 8 * m + u = 8 * n + w
      BY <1>4 DEF Tag
    <3>2. m \in Int /\ n \in Int /\ u \in {VARINT, LENGTH} /\ w \in {VARINT, LENGTH}
      BY <1>1, <2>1
    <3> HIDE DEF m, n, u, w
    <3>3. m = n
      BY <3>1, <3>2, TagsTell
    <3> QED
      BY <3>3 DEF m, n
  <2> QED
    BY <2>2 DEF GoodLayout
(* The tag, as soon as what follows it is one piece.                       *)
<1>5. ASSUME NEW d \in Seq(Byte), b = Cat(h, Cat(T, d))
      PROVE  /\ t = p /\ tag = x
             /\ ReadField(layout, b, p) = Assign(f, b, p + 1, ValueEnd(b, f.wire, p + 1))
  <2>1. t = p /\ tag = x
    <3>1. LastGroup(b, p) = p /\ Unvarint(SubSeq(b, p, p)) = x
      BY <1>2, <1>5, TagAt
    <3> QED
      BY <3>1
  <2>2. known = {k}
    <3> HIDE DEF tag, x
    <3>1. \A i \in DOMAIN layout : Tag(layout[i]) = tag <=> i = k
      BY <1>4, <2>1 DEF x
    <3> QED
      BY <3>1
  <2>3. (CHOOSE i \in known : TRUE) = k /\ known # {}
    BY <2>2
  <2>4. t # 0 /\ tag # 0
    <3>1. p # 0 /\ x # 0
      <4>1. Len(h) \in Nat /\ x \in 1..127
        BY <1>2
      <4> HIDE DEF x
      <4> QED
        BY <4>1
    <3> HIDE DEF t, tag, p, x
    <3> QED
      BY <2>1, <3>1
  <2>5. ReadField(layout, b, p) = Assign(f, b, t + 1, end)
    <3> HIDE DEF f
    <3>1. layout[CHOOSE i \in known : TRUE] = f
      BY <2>3 DEF f
    <3> QED
      BY <2>3, <2>4, <3>1 DEF ReadField
  <2>6. end = ValueEnd(b, f.wire, p + 1)
    BY <1>2, <2>1
  <2> HIDE DEF t, tag, end, f
  <2> QED
    BY <2>1, <2>5, <2>6
<1>6. CASE f.wire = VARINT
  <2> DEFINE w == Varint(v)
             g == Cat(h, T)
             q == Len(g) + 1
             e == Len(g) + VarintSize(v)
  <2>1. v \in Int32 /\ w \in Seq(Byte) /\ Len(w) = VarintSize(v) /\ VarintSize(v) \in 1..10
    BY <1>2, <1>6, VarintTyped
  <2>2. E = Cat(T, w)
    BY <1>6 DEF Encode, Cat, VARINT, LENGTH
  <2> HIDE DEF w, T, E
  <2>3. b = Cat(h, Cat(Cat(T, w), c))
    BY <2>2 DEF E
  <2>4. /\ Cat(Cat(T, w), c) = Cat(T, Cat(w, c)) /\ Cat(w, c) \in Seq(Byte)
        /\ Cat(h, Cat(T, Cat(w, c))) = Cat(Cat(h, T), Cat(w, c)) /\ g \in Seq(Byte)
    <3>1. Cat(w, c) \in Seq(Byte) /\ g \in Seq(Byte) /\ Cat(Cat(T, w), c) = Cat(T, Cat(w, c))
      BY <1>3, <2>1, CatAssoc
    <3> QED
      BY <1>3, <3>1, CatAssoc
  <2>5. b = Cat(h, Cat(T, Cat(w, c))) /\ b = Cat(g, Cat(w, c))
    BY <2>3, <2>4
  <2>6. LastGroup(b, q) = e /\ Unvarint(SubSeq(b, q, e)) = v
    <3> HIDE DEF g
    <3> QED
      BY <2>1, <2>4, <2>5, VarintRead DEF w
  <2>7. Len(g) = p /\ Len(E) = 1 + VarintSize(v) /\ Len(h) \in Nat
    BY <1>3, <2>1, <2>2, CatLen
  <2>8. q = p + 1 /\ e \in Int /\ e # 0 /\ e + 1 = Len(h) + Len(E) + 1
    BY <2>1, <2>7
  <2>9. ReadField(layout, b, p) = Assign(f, b, p + 1, ValueEnd(b, f.wire, p + 1))
    BY <1>5, <2>4, <2>5
  <2> HIDE DEF q, e, p, g
  <2>10. ValueEnd(b, f.wire, q) = e + 1
    BY <1>6, <2>6, <2>8, NumberEnds
  <2>11. Assign(f, b, q, e + 1) = Field(<< <<f.name, v>> >>, e + 1)
    BY <1>6, <2>6, <2>8, NumberAssigned
  <2> QED
    BY <2>8, <2>9, <2>10, <2>11 DEF p, E
<1>7. CASE f.wire = LENGTH
  <2> DEFINE n == Len(v)
             w == Varint(n)
             g == Cat(h, T)
             gg == Cat(g, w)
             q == Len(g) + 1
             e == Len(g) + VarintSize(n)
  <2>1. /\ v \in Seq(Byte) /\ n \in Int32 /\ n \in Nat /\ w \in Seq(Byte)
        /\ Len(w) = VarintSize(n) /\ VarintSize(n) \in 1..10 /\ IsUTF8(v)
    BY <1>2, <1>7, VarintTyped
  <2>2. E = Cat(T, Cat(w, v))
    BY <1>7 DEF Encode, Cat
  <2> HIDE DEF w, T, E
  <2>3. b = Cat(h, Cat(Cat(T, Cat(w, v)), c))
    BY <2>2 DEF E
  <2>4. /\ b = Cat(h, Cat(T, Cat(w, Cat(v, c))))
        /\ b = Cat(g, Cat(w, Cat(v, c)))
        /\ b = Cat(gg, Cat(v, c))
        /\ g \in Seq(Byte) /\ gg \in Seq(Byte) /\ Cat(v, c) \in Seq(Byte)
        /\ Cat(w, Cat(v, c)) \in Seq(Byte)
    BY <1>3, <2>1, <2>3, Regroup
  <2>6. LastGroup(b, q) = e /\ Unvarint(SubSeq(b, q, e)) = n
    <3> HIDE DEF g, n
    <3> QED
      BY <2>1, <2>4, VarintRead DEF w
  <2>7. /\ Len(g) = p /\ Len(E) = 1 + (VarintSize(n) + n) /\ Len(h) \in Nat
        /\ Len(gg) = Len(g) + VarintSize(n)
    <3>1. Cat(w, v) \in Seq(Byte) /\ Len(Cat(w, v)) = VarintSize(n) + n
      BY <2>1, CatLen, CatAssoc
    <3>2. Len(E) = 1 + (VarintSize(n) + n)
      BY <1>3, <2>2, <3>1, CatLen
    <3>3. Len(g) = p /\ Len(h) \in Nat
      BY <1>3, CatLen
    <3>4. Len(gg) = Len(g) + VarintSize(n)
      BY <2>1, <2>4, CatLen
    <3> QED
      BY <3>2, <3>3, <3>4
  <2>8. q = p + 1 /\ e # 0 /\ e + n + 1 = Len(h) + Len(E) + 1 /\ Len(gg) = e /\ e \in Nat
    <3> DEFINE s == VarintSize(n)
    <3>1. s \in 1..10 /\ n \in Nat /\ Len(h) \in Nat /\ Len(g) = Len(h) + 1
          /\ Len(E) = 1 + (s + n) /\ Len(gg) = Len(g) + s
      BY <2>1, <2>7
    <3>2. q = Len(g) + 1 /\ e = Len(g) + s /\ p = Len(h) + 1
      OBVIOUS
    <3> HIDE DEF g, gg, n, p, s, q, e
    <3>3. q = p + 1 /\ Len(gg) = e
      BY <3>1, <3>2
    <3>4. e \in Nat /\ e # 0
      BY <3>1, <3>2
    <3>5. e + n + 1 = Len(h) + Len(E) + 1
      BY <3>1, <3>2
    <3> QED
      BY <3>3, <3>4, <3>5
  <2>9. ReadField(layout, b, p) = Assign(f, b, p + 1, ValueEnd(b, f.wire, p + 1))
    BY <1>5, <2>4
  <2>10. Len(b) = Len(gg) + n + Len(c) /\ Len(c) \in Nat /\ SubSeq(b, Len(gg) + 1, Len(gg) + n) = v
    <3>1. Len(b) = Len(gg) + Len(v) + Len(c) /\ Len(c) \in Nat /\ StandsAt(b, Len(gg), v)
      <4> HIDE DEF gg
      <4>1. StandsAt(b, Len(gg), v)
        BY <2>1, <2>4, PartStands, Zenon
      <4> QED
        BY <2>1, <2>4, <4>1, PartAt
    <3> HIDE DEF gg
    <3> QED
      BY <3>1 DEF StandsAt
  <2> HIDE DEF q, e, p, g, gg, n
  <2>11. n >= 0 /\ ~ (n > Len(b) - e)
    BY <2>1, <2>8, <2>10
  <2>12. ValueEnd(b, f.wire, q) = e + n + 1
    BY <1>7, <2>1, <2>6, <2>8, <2>11, TextEnds
  <2>13. (e + n + 1) - 1 = e + n /\ e + n + 1 # 0 /\ e + n + 1 \in Int
    BY <2>1, <2>8
  <2>14. Assign(f, b, q, e + n + 1) = Field(<< <<f.name, v>> >>, e + n + 1)
    <3> DEFINE last == e + n + 1
    <3>1. last \in Int /\ last # 0 /\ SubSeq(b, e + 1, last - 1) = v
      BY <2>8, <2>10, <2>13
    <3>2. e \in Int /\ e # 0 /\ LastGroup(b, q) = e /\ f.wire = LENGTH /\ IsUTF8(v)
      BY <1>7, <2>1, <2>6, <2>8
    <3> HIDE DEF last, f
    <3> DEFINE u == SubSeq(b, LastGroup(b, q) + 1, last - 1)
    <3>4. u = v
      BY <3>1, <3>2
    <3> HIDE DEF e, q
    <3>5. Assign(f, b, q, last) = Field(<< <<f.name, u>> >>, last)
      BY <3>1, <3>2, <3>4, TextAssigned
    <3> HIDE DEF u
    <3>3. Assign(f, b, q, last) = Field(<< <<f.name, v>> >>, last)
      BY <3>4, <3>5
    <3> QED
      BY <3>3 DEF last
  <2> QED
    BY <2>8, <2>9, <2>12, <2>14 DEF p, E
<1> QED
  BY <1>1, <1>6, <1>7

-----------------------------------------------------------------------------
(* Bytes that, wherever they stand among others, are read to the end and   *)
(* set what sets says.                                                     *)
ReadsAs(layout, a, sets) ==
    \A h, c \in Seq(Byte) : \A r :
        LET b == Cat(h, Cat(a, c)) IN
        b \in Text /\ IsRest(r, layout, b) =>
            /\ r[Len(h) + 1].ok = r[Len(h) + Len(a) + 1].ok
            /\ r[Len(h) + 1].sets = Cat(sets, r[Len(h) + Len(a) + 1].sets)

LEMMA ReadsAsRule ==
    ASSUME NEW layout, NEW a, NEW sets, ReadsAs(layout, a, sets),
           NEW h \in Seq(Byte), NEW c \in Seq(Byte), NEW r,
           NEW b \in Text, b = Cat(h, Cat(a, c)), IsRest(r, layout, b)
    PROVE  /\ r[Len(h) + 1].ok = r[Len(h) + Len(a) + 1].ok
           /\ r[Len(h) + 1].sets = Cat(sets, r[Len(h) + Len(a) + 1].sets)
BY Zenon DEF ReadsAs

LEMMA ReadsNothing ==
    ASSUME NEW layout, GoodLayout(layout)
    PROVE  ReadsAs(layout, <<>>, <<>>)
<1> SUFFICES ASSUME NEW h \in Seq(Byte), NEW c \in Seq(Byte), NEW r,
                    NEW b \in Text, b = Cat(h, Cat(<<>>, c)), IsRest(r, layout, b)
             PROVE  /\ r[Len(h) + 1].ok = r[Len(h) + Len(<<>>) + 1].ok
                    /\ r[Len(h) + 1].sets = Cat(<<>>, r[Len(h) + Len(<<>>) + 1].sets)
  BY Zenon DEF ReadsAs
<1>1. Len(h) \in Nat /\ Len(<<>>) = 0 /\ Len(c) \in Nat /\ <<>> \in Seq(Byte)
  OBVIOUS
<1>2. Len(b) = Len(h) + Len(<<>>) + Len(c)
  BY <1>1, PartAt
<1>3. Len(h) + 1 \in 1..(Len(b) + 1) /\ Len(h) + Len(<<>>) + 1 = Len(h) + 1
  BY <1>1, <1>2
<1> DEFINE s == r[Len(h) + 1].sets
<1>4. s \in Seq(Settings(layout))
  <2>1. r[Len(h) + 1] \in Result(layout)
    BY <1>3, RestTyped
  <2> QED
    BY <2>1 DEF Result
<1> HIDE DEF s
<1>5. Cat(<<>>, s) = s
  BY <1>4 DEF Cat
<1> QED
  BY <1>3, <1>5 DEF s

LEMMA ReadsInTurn ==
    ASSUME NEW layout, GoodLayout(layout), NEW a \in Seq(Byte), NEW d \in Seq(Byte),
           NEW s \in Seq(Settings(layout)), NEW t \in Seq(Settings(layout)),
           ReadsAs(layout, a, s), ReadsAs(layout, d, t)
    PROVE  ReadsAs(layout, Cat(a, d), Cat(s, t))
<1> DEFINE ad == Cat(a, d)
<1> SUFFICES ASSUME NEW h \in Seq(Byte), NEW c \in Seq(Byte), NEW r,
                    NEW b \in Text, b = Cat(h, Cat(ad, c)), IsRest(r, layout, b)
             PROVE  /\ r[Len(h) + 1].ok = r[Len(h) + Len(ad) + 1].ok
                    /\ r[Len(h) + 1].sets = Cat(Cat(s, t), r[Len(h) + Len(ad) + 1].sets)
  BY Zenon DEF ReadsAs
<1>1. /\ Cat(d, c) \in Seq(Byte) /\ Cat(h, a) \in Seq(Byte) /\ ad \in Seq(Byte)
      /\ Len(Cat(h, a)) = Len(h) + Len(a) /\ Len(ad) = Len(a) + Len(d)
      /\ Len(h) \in Nat /\ Len(a) \in Nat /\ Len(d) \in Nat /\ Len(c) \in Nat
  BY CatLen
<1>2. Cat(ad, c) = Cat(a, Cat(d, c))
  BY CatAssoc
<1>3. b = Cat(h, Cat(a, Cat(d, c)))
  BY <1>2
<1>4. Cat(h, Cat(a, Cat(d, c))) = Cat(Cat(h, a), Cat(d, c))
  BY <1>1, CatAssoc
<1>5. b = Cat(Cat(h, a), Cat(d, c))
  BY <1>3, <1>4
<1> DEFINE m == Len(h) + Len(a) + 1
           e == Len(h) + Len(ad) + 1
<1>6. r[Len(h) + 1].ok = r[m].ok /\ r[Len(h) + 1].sets = Cat(s, r[m].sets)
  BY <1>1, <1>3, ReadsAsRule
<1>7. /\ r[Len(Cat(h, a)) + 1].ok = r[Len(Cat(h, a)) + Len(d) + 1].ok
      /\ r[Len(Cat(h, a)) + 1].sets = Cat(t, r[Len(Cat(h, a)) + Len(d) + 1].sets)
  <2> DEFINE g == Cat(h, a)
  <2>1. g \in Seq(Byte) /\ b = Cat(g, Cat(d, c))
    BY <1>1, <1>5
  <2> HIDE DEF g
  <2>2. /\ r[Len(g) + 1].ok = r[Len(g) + Len(d) + 1].ok
        /\ r[Len(g) + 1].sets = Cat(t, r[Len(g) + Len(d) + 1].sets)
    BY <2>1, ReadsAsRule
  <2> QED
    BY <2>2 DEF g
<1>8. Len(Cat(h, a)) + 1 = m /\ Len(Cat(h, a)) + Len(d) + 1 = e
  BY <1>1
<1>9. r[m].ok = r[e].ok /\ r[m].sets = Cat(t, r[e].sets)
  BY <1>7, <1>8
<1>10. r[e].sets \in Seq(Settings(layout))
  <2>1. Len(b) = Len(h) + Len(ad) + Len(c)
    BY <1>1, PartAt
  <2>2. e \in 1..(Len(b) + 1)
    BY <1>1, <2>1
  <2>3. r[e] \in Result(layout)
    BY <2>2, RestTyped
  <2> HIDE DEF e
  <2> QED
    BY <2>3 DEF Result
<1> DEFINE z == r[e].sets
<1> HIDE DEF z
<1>11. Cat(Cat(s, t), z) = Cat(s, Cat(t, z))
  BY <1>10, CatAssoc DEF z
<1> QED
  BY <1>6, <1>9, <1>11 DEF z

(* What a field's value sets: nothing, if it has its default value.        *)
Sets(f, v) == IF v = Default(f) THEN <<>> ELSE << <<f.name, v>> >>

LEMMA SetsTyped ==
    ASSUME NEW layout, GoodLayout(layout), NEW k \in DOMAIN layout,
           NEW v \in FieldValues(layout[k])
    PROVE  Sets(layout[k], v) \in Seq(Settings(layout)) /\ <<layout[k].name, v>> \in Settings(layout)
<1>1. layout[k].name \in Names(layout) /\ v \in Value
  BY FieldOf DEF Names, FieldValues, Value
<1> DEFINE S == Settings(layout)
<1>2. <<layout[k].name, v>> \in S
  BY <1>1 DEF Settings
<1> HIDE DEF S
<1>3. Sets(layout[k], v) \in Seq(S)
  BY <1>2 DEF Sets
<1> QED
  BY <1>2, <1>3 DEF S

LEMMA EncodeLong ==
    ASSUME NEW layout, GoodLayout(layout), NEW k \in DOMAIN layout,
           NEW v \in FieldValues(layout[k]), v # Default(layout[k])
    PROVE  Encode(layout[k], v) \in Seq(Byte) /\ Len(Encode(layout[k], v)) > 0
<1> DEFINE f == layout[k]
           x == Tag(f)
           T == <<x>>
<1>1. /\ f.wire \in {VARINT, LENGTH} /\ x \in 1..127 /\ Encode(f, v) \in Seq(Byte)
      /\ f.wire = LENGTH => v \in Seq(Byte) /\ Len(v) \in Int32
      /\ f.wire = VARINT => v \in Int32
  BY FieldOf, FieldWritten
<1>2. T \in Seq(Byte) /\ Len(T) = 1
  <2>1. x \in Byte
    BY <1>1 DEF Byte
  <2> HIDE DEF x
  <2> QED
    BY <2>1
<1>3. CASE f.wire = LENGTH
  <2> DEFINE w == Varint(Len(v))
  <2>1. w \in Seq(Byte) /\ v \in Seq(Byte)
    BY <1>1, <1>3, VarintTyped
  <2>2. Encode(f, v) = Cat(T, Cat(w, v))
    BY <1>3 DEF Encode, Cat
  <2> HIDE DEF T, w
  <2>3. Cat(w, v) \in Seq(Byte)
    BY <2>1, CatLen
  <2> DEFINE y == Cat(w, v)
  <2> HIDE DEF y
  <2>4. Len(Cat(T, y)) = 1 + Len(y) /\ Len(y) \in Nat
    BY <1>2, <2>3, CatLen DEF y
  <2> QED
    BY <1>1, <2>2, <2>4 DEF y
<1>4. CASE f.wire = VARINT
  <2> DEFINE w == Varint(v)
  <2>1. w \in Seq(Byte)
    BY <1>1, <1>4, VarintTyped
  <2>2. Encode(f, v) = Cat(T, w)
    BY <1>4 DEF Encode, Cat, VARINT, LENGTH
  <2> HIDE DEF T, w
  <2>4. Len(Cat(T, w)) = 1 + Len(w) /\ Len(w) \in Nat
    BY <1>2, <2>1, CatLen
  <2> QED
    BY <1>1, <2>2, <2>4
<1> QED
  BY <1>1, <1>3, <1>4

LEMMA ReadsField ==
    ASSUME NEW layout, GoodLayout(layout), NEW k \in DOMAIN layout,
           NEW v \in FieldValues(layout[k]), layout[k].wire = LENGTH => IsUTF8(v)
    PROVE  ReadsAs(layout, Encode(layout[k], v), Sets(layout[k], v))
<1>1. CASE v = Default(layout[k])
  <2>1. Encode(layout[k], v) = <<>> /\ Sets(layout[k], v) = <<>>
    BY <1>1 DEF Encode, Sets
  <2> QED
    BY <2>1, ReadsNothing
<1>2. CASE v # Default(layout[k])
  <2> DEFINE a == Encode(layout[k], v)
             set == <<layout[k].name, v>>
  <2>1. Sets(layout[k], v) = <<set>>
    BY <1>2 DEF Sets
  <2>2. a \in Seq(Byte)
    BY FieldOf, FieldWritten
  <2> SUFFICES ASSUME NEW h \in Seq(Byte), NEW c \in Seq(Byte), NEW r,
                      NEW b \in Text, b = Cat(h, Cat(a, c)), IsRest(r, layout, b)
               PROVE  /\ r[Len(h) + 1].ok = r[Len(h) + Len(a) + 1].ok
                      /\ r[Len(h) + 1].sets = Cat(<<set>>, r[Len(h) + Len(a) + 1].sets)
    BY <2>1, Zenon DEF ReadsAs
  <2> DEFINE p == Len(h) + 1
             q == Len(h) + Len(a) + 1
  <2>3. ReadField(layout, b, p) = Field(<<set>>, q)
    BY <1>2, ReadEncode
  <2>4. ReadField(layout, b, p).sets = <<set>> /\ ReadField(layout, b, p).next = q
    <3> HIDE DEF p, q, a, set
    <3> QED
      BY <2>3 DEF Field
  <2>5. Len(b) = Len(h) + Len(a) + Len(c) /\ Len(h) \in Nat /\ Len(a) \in Nat /\ Len(c) \in Nat
    BY <2>2, PartAt
  <2>6. Len(a) > 0
    BY <1>2, EncodeLong
  <2>7. p \in 1..(Len(b) + 1) /\ p # Len(b) + 1 /\ q # 0
    BY <2>5, <2>6
  <2>8. r[p] = Found(layout, b, r, p)
    BY <2>7, RestAt
  <2> HIDE DEF p, q, a, set
  <2>9. r[p] = [ok |-> r[q].ok, sets |-> <<set>> \o r[q].sets]
    BY <2>4, <2>7, <2>8 DEF Found
  <2>10. r[p].ok = r[q].ok /\ r[p].sets = Cat(<<set>>, r[q].sets)
    <3> DEFINE y == <<set>> \o r[q].sets
               z == r[q].ok
    <3>1. r[p] = [ok |-> z, sets |-> y] /\ y = Cat(<<set>>, r[q].sets)
      BY <2>9 DEF Cat
    <3> HIDE DEF y, z
    <3>2. r[p].ok = z /\ r[p].sets = y
      BY <3>1
    <3> QED
      BY <3>1, <3>2 DEF z
  <2> QED
    BY <2>10 DEF p, q
<1> QED
  BY <1>1, <1>2

-----------------------------------------------------------------------------
LEMMA ReadsFlat ==
    ASSUME NEW layout, GoodLayout(layout), NEW s \in Seq(Seq(Byte)),
           NEW t \in Seq(Seq(Settings(layout))), Len(s) = Len(t),
           \A i \in 1..Len(s) : ReadsAs(layout, s[i], t[i])
    PROVE  ReadsAs(layout, FlattenSeq(s), FlattenSeq(t))
<1> DEFINE S == Settings(layout)
           R == {p \in Seq(Byte) \X Seq(S) : ReadsAs(layout, p[1], p[2])}
<1>1. <<(<<>>), (<<>>)>> \in R
  <2>1. <<>> \in Seq(Byte) /\ <<>> \in Seq(S)
    OBVIOUS
  <2> HIDE DEF S
  <2> QED
    BY <2>1, ReadsNothing
<1>2. ASSUME NEW i \in 1..Len(s), NEW a \in Seq(Byte), NEW c \in Seq(S), <<a, c>> \in R
      PROVE  <<a \o s[i], c \o t[i]>> \in R
  <2>1. s[i] \in Seq(Byte) /\ t[i] \in Seq(Settings(layout)) /\ ReadsAs(layout, a, c)
        /\ c \in Seq(Settings(layout)) /\ ReadsAs(layout, s[i], t[i])
    BY <1>2
  <2>2. ReadsAs(layout, Cat(a, s[i]), Cat(c, t[i]))
    BY <2>1, ReadsInTurn
  <2>3. Cat(a, s[i]) \in Seq(Byte) /\ Cat(c, t[i]) \in Seq(S)
    BY <2>1, CatLen
  <2>4. Cat(a, s[i]) = a \o s[i] /\ Cat(c, t[i]) = c \o t[i]
    BY DEF Cat
  <2> DEFINE u == Cat(a, s[i])
             w == Cat(c, t[i])
  <2> HIDE DEF u, w, S
  <2>5. <<u, w>> \in R
    BY <2>2, <2>3 DEF u, w
  <2> HIDE DEF R
  <2> QED
    BY <2>4, <2>5 DEF u, w
<1>3. t \in Seq(Seq(S))
  OBVIOUS
<1> HIDE DEF R, S
<1>4. <<FlattenSeq(s), FlattenSeq(t)>> \in R
  BY <1>1, <1>2, <1>3, FlattenRelated
<1> DEFINE x == FlattenSeq(s)
           y == FlattenSeq(t)
<1> HIDE DEF x, y
<1>5. ReadsAs(layout, x, y)
  BY <1>4 DEF R, x, y
<1> QED
  BY <1>5 DEF x, y

(* A text that is read so is parsed so.                                    *)
LEMMA ParseReads ==
    ASSUME NEW layout, GoodLayout(layout), NEW b \in Text, NEW sets \in Seq(Settings(layout)),
           ReadsAs(layout, b, sets)
    PROVE  /\ ParseOK(layout, b)
           /\ Parse(layout, b) = LeftFold(Setter(layout), Blank(layout), sets)
<1>1. PICK r : IsRest(r, layout, b) /\ ParseFrom(layout, b) = r[1]
  BY ParseFromIs
<1> DEFINE e == <<>>
           n == Len(b)
<1>2. b \in Seq(Byte) /\ e \in Seq(Byte) /\ Len(e) = 0 /\ n \in Nat
  BY DEF Text
<1>3. b = Cat(e, Cat(b, e))
  BY <1>2 DEF Cat
<1> HIDE DEF e
<1>4. r[Len(e) + 1].ok = r[Len(e) + Len(b) + 1].ok
      /\ r[Len(e) + 1].sets = Cat(sets, r[Len(e) + Len(b) + 1].sets)
  <2>1. IsRest(r, layout, b) /\ b \in Seq(Byte) /\ e \in Seq(Byte)
    BY <1>1, <1>2
  <2> DEFINE d == Cat(e, Cat(b, e))
  <2>2. IsRest(r, layout, d) /\ d \in Text
    BY <1>3, <2>1
  <2>3. \A h, c \in Seq(Byte) : \A g :
           Cat(h, Cat(b, c)) \in Text /\ IsRest(g, layout, Cat(h, Cat(b, c))) =>
              /\ g[Len(h) + 1].ok = g[Len(h) + Len(b) + 1].ok
              /\ g[Len(h) + 1].sets = Cat(sets, g[Len(h) + Len(b) + 1].sets)
    BY Zenon DEF ReadsAs
  <2> QED
    BY <2>1, <2>2, <2>3, Zenon
<1>5. Len(e) + 1 = 1 /\ Len(e) + Len(b) + 1 = n + 1
  BY <1>2
<1>6. r[n + 1] = [ok |-> TRUE, sets |-> <<>>]
  <2>1. n + 1 \in 1..(Len(b) + 1)
    BY <1>2
  <2>2. r[n + 1] = Found(layout, b, r, n + 1)
    BY <1>1, <2>1, RestAt
  <2> QED
    BY <2>2 DEF Found
<1>7. r[n + 1].ok = TRUE /\ r[n + 1].sets = <<>>
  BY <1>6
<1>8. r[1].ok = TRUE /\ r[1].sets = Cat(sets, <<>>)
  BY <1>4, <1>5, <1>7
<1>9. Cat(sets, <<>>) = sets
  BY DEF Cat
<1>10. ParseFrom(layout, b).ok = TRUE /\ ParseFrom(layout, b).sets = sets
  BY <1>1, <1>8, <1>9
<1>11. ParseOK(layout, b)
  BY <1>10 DEF ParseOK
<1>12. Parse(layout, b) = FoldLeft(LAMBDA m, set : [m EXCEPT ![set[1]] = set[2]], Blank(layout), sets)
  BY <1>10, Zenon DEF Parse
<1> QED
  BY <1>11, <1>12, SetsFolded

(* Whatever is parsed, what comes out is a message.                        *)
THEOREM ParseTyped ==
    ASSUME NEW layout, GoodLayout(layout), NEW b \in Text
    PROVE  Parse(layout, b) \in Record(layout)
<1>1. PICK r : IsRest(r, layout, b) /\ ParseFrom(layout, b) = r[1]
  BY ParseFromIs
<1>2. 1 \in 1..(Len(b) + 1)
  BY DEF Text
<1>3. r[1] \in Result(layout)
  BY <1>1, <1>2, RestTyped
<1> DEFINE s == ParseFrom(layout, b).sets
<1>4. s \in Seq(Settings(layout))
  BY <1>1, <1>3 DEF Result
<1>5. Parse(layout, b) = FoldLeft(LAMBDA m, set : [m EXCEPT ![set[1]] = set[2]], Blank(layout), s)
  BY Zenon DEF Parse
<1> HIDE DEF s
<1>6. Parse(layout, b) = LeftFold(Setter(layout), Blank(layout), s)
  BY <1>4, <1>5, SetsFolded
<1> DEFINE F == Setter(layout)
           R == Record(layout)
           D == Settings(layout)
<1>7. F \in [R \X D -> R] /\ Blank(layout) \in R /\ s \in Seq(D)
  BY <1>4, SetterTyped, BlankIs
<1> HIDE DEF F, R, D
<1>8. LeftFold(F, Blank(layout), s) \in R
  BY <1>7, LeftFoldTyped
<1> QED
  BY <1>6, <1>8 DEF F, R

-----------------------------------------------------------------------------
(* What all the fields of a message set, and that this is MergeFrom.       *)
FieldSets(layout, m) == [i \in DOMAIN layout |-> Sets(layout[i], m[layout[i].name])]
AllSets(layout, m)   == FlattenSeq(FieldSets(layout, m))

LEMMA FieldSetsTyped ==
    ASSUME NEW layout, GoodLayout(layout), NEW m \in Record(layout)
    PROVE  /\ FieldSets(layout, m) \in Seq(Seq(Settings(layout)))
           /\ DOMAIN layout = 1..Len(layout) /\ Len(layout) \in Nat
           /\ Len(FieldSets(layout, m)) = Len(layout)
           /\ \A i \in 1..Len(layout) :
                 FieldSets(layout, m)[i] = Sets(layout[i], m[layout[i].name])
           /\ AllSets(layout, m) \in Seq(Settings(layout))
<1>1. DOMAIN layout = 1..Len(layout) /\ Len(layout) \in Nat
  BY DEF GoodLayout
<1> DEFINE e(i) == Sets(layout[i], m[layout[i].name])
           S == Settings(layout)
           n == Len(layout)
<1>2. ASSUME NEW i \in 1..n PROVE e(i) \in Seq(S)
  <2>1. m[layout[i].name] \in FieldValues(layout[i]) /\ i \in DOMAIN layout
    BY <1>1 DEF Record
  <2> QED
    BY <2>1, SetsTyped
<1>3. FieldSets(layout, m) = [i \in 1..n |-> e(i)]
  BY <1>1 DEF FieldSets
<1> HIDE DEF e, S
<1>4. /\ FieldSets(layout, m) \in Seq(Seq(S)) /\ Len(FieldSets(layout, m)) = n
      /\ \A i \in 1..n : FieldSets(layout, m)[i] = e(i)
  BY <1>1, <1>2, <1>3
<1>5. AllSets(layout, m) \in Seq(S)
  BY <1>4, FlattenTyped DEF AllSets
<1> QED
  BY <1>1, <1>4, <1>5 DEF e, S

LEMMA RecordsEqual ==
    ASSUME NEW layout, NEW x \in Record(layout), NEW y \in Record(layout),
           \A i \in DOMAIN layout : x[layout[i].name] = y[layout[i].name]
    PROVE  x = y
<1>1. x \in [Names(layout) -> Value] /\ y \in [Names(layout) -> Value]
  BY DEF Record
<1>2. \A name \in Names(layout) : x[name] = y[name]
  BY DEF Names
<1> QED
  BY <1>1, <1>2

LEMMA SetsMerge ==
    ASSUME NEW layout, GoodLayout(layout), NEW m \in Record(layout), NEW o \in Record(layout)
    PROVE  LeftFold(Setter(layout), m, AllSets(layout, o)) = MergeFrom(layout, m, o)
<1> DEFINE R == Record(layout)
           D == Settings(layout)
           F == Setter(layout)
           s == FieldSets(layout, o)
           n == Len(layout)
           v(i) == o[layout[i].name]
           x(k) == LeftFold(F, m, FlattenSeq(SubSeq(s, 1, k)))
           Upto(k) == /\ x(k) \in R
                      /\ \A i \in 1..n : x(k)[layout[i].name] =
                            IF i <= k /\ v(i) # Default(layout[i]) THEN v(i) ELSE m[layout[i].name]
           S == {k \in Nat : Upto(k)}
<1>1. /\ s \in Seq(Seq(D)) /\ DOMAIN layout = 1..n /\ n \in Nat /\ Len(s) = n
      /\ \A i \in 1..n : s[i] = Sets(layout[i], v(i))
  BY FieldSetsTyped
<1>2. F \in [R \X D -> R]
  BY SetterTyped
<1> HIDE DEF s, n, F
<1>3. Upto(0)
  <2>1. SubSeq(s, 1, 0) = <<>>
    BY <1>1
  <2>2. FlattenSeq(SubSeq(s, 1, 0)) = <<>>
    BY <2>1, FlattenEmpty
  <2>3. x(0) = m
    BY <2>2, LeftFoldEmpty
  <2>4. \A i \in 1..n : ~ (i <= 0)
    BY <1>1
  <2> HIDE DEF x, v
  <2> QED
    BY <2>3, <2>4
<1>4. ASSUME NEW k \in 0..(n - 1), Upto(k) PROVE Upto(k + 1)
  <2> DEFINE j == k + 1
             f == layout[j]
             a == FlattenSeq(SubSeq(s, 1, k))
             y == x(k)
  <2>1. j \in 1..n /\ j - 1 = k /\ j \in 1..Len(s) /\ SubSeq(s, 1, k) \in Seq(Seq(D))
        /\ s[j] \in Seq(D) /\ j \in DOMAIN layout
    BY <1>1
  <2>2. a \in Seq(D)
    <3> HIDE DEF D
    <3> QED
      BY <2>1, FlattenTyped
  <2>3. FlattenSeq(SubSeq(s, 1, j)) = a \o s[j]
    <3> HIDE DEF D
    <3> QED
      BY <1>1, <2>1, FlattenStep
  <2>4. x(j) = LeftFold(F, y, s[j])
    <3> DEFINE t == s[j]
    <3>0. m \in R /\ t \in Seq(D)
      BY <2>1
    <3>2. F \in Steps(R, D)
      BY <1>2 DEF Steps
    <3> HIDE DEF R, D, a, j, t
    <3>1. LeftFold(F, m, Cat(a, t)) = LeftFold(F, LeftFold(F, m, a), t)
      BY <2>2, <3>0, <3>2, LeftFoldConcat
    <3> QED
      BY <2>3, <3>1 DEF a, t, Cat
  <2>5. y \in R /\ \A i \in 1..n : y[layout[i].name] =
            IF i <= k /\ v(i) # Default(layout[i]) THEN v(i) ELSE m[layout[i].name]
    BY <1>4
  <2>6. v(j) \in FieldValues(f)
    BY <2>1 DEF Record
  <2> HIDE DEF y, x
  <2>7. CASE v(j) = Default(f)
    <3>1. s[j] = <<>>
      BY <1>1, <2>1, <2>7 DEF Sets
    <3>2. x(j) = y
      BY <2>4, <3>1, LeftFoldEmpty
    <3>3. \A i \in 1..n : i <= j /\ v(i) # Default(layout[i]) <=> i <= k /\ v(i) # Default(layout[i])
      <4>1. \A i \in 1..n : i <= j <=> i <= k \/ i = j
        BY <2>1
      <4> HIDE DEF v, j
      <4> QED
        BY <2>7, <4>1
    <3> HIDE DEF v, j
    <3>4. Upto(j)
      BY <2>5, <3>2, <3>3
    <3> QED
      BY <3>4 DEF j
  <2>8. CASE v(j) # Default(f)
    <3> DEFINE set == <<f.name, v(j)>>
    <3>1. s[j] = <<set>> /\ set \in D
      BY <1>1, <2>1, <2>6, <2>8, SetsTyped DEF Sets
    <3>2. x(j) = F[<<y, set>>]
      BY <2>4, <3>1, LeftFoldOne
    <3>3. <<y, set>> \in R \X D
      <4> HIDE DEF R, D, set
      <4> QED
        BY <2>5, <3>1
    <3>4. F[<<y, set>>] = [y EXCEPT ![f.name] = v(j)]
      BY <3>3 DEF F, Setter
    <3>5. F[<<y, set>>] \in R
      <4> HIDE DEF R, D, set
      <4> QED
        BY <1>2, <3>3
    <3>6. y \in [Names(layout) -> Value]
      BY <2>5 DEF Record
    <3>7. ASSUME NEW i \in 1..n
          PROVE  x(j)[layout[i].name] =
                     IF i <= j /\ v(i) # Default(layout[i]) THEN v(i) ELSE m[layout[i].name]
      <4>1. i \in DOMAIN layout /\ layout[i].name \in Names(layout)
        BY <1>1 DEF Names
      <4>2. CASE i = j
        <5>1. x(j)[layout[i].name] = v(j) /\ i <= j
          <6> DEFINE w == v(j)
                     g == layout[i].name
          <6>1. i <= j /\ g = f.name /\ g \in Names(layout)
            BY <2>1, <4>1, <4>2
          <6> HIDE DEF w, g, f
          <6>2. [y EXCEPT ![f.name] = w][g] = w
            BY <3>6, <6>1
          <6> QED
            BY <3>2, <3>4, <6>1, <6>2 DEF g, w
        <5> HIDE DEF v, j
        <5> QED
          BY <2>8, <4>2, <5>1 DEF f
      <4>3. CASE i # j
        <5>1. layout[i].name # f.name
          BY <2>1, <4>1, <4>3 DEF GoodLayout
        <5>2. x(j)[layout[i].name] = y[layout[i].name]
          <6> DEFINE w == v(j)
                     g == layout[i].name
          <6> HIDE DEF w, g, f
          <6>1. [y EXCEPT ![f.name] = w][g] = y[g]
            BY <3>6, <4>1, <5>1 DEF g
          <6> QED
            BY <3>2, <3>4, <6>1 DEF g, w
        <5>3. i <= j <=> i <= k
          BY <2>1, <4>3
        <5> HIDE DEF v, j
        <5> QED
          BY <2>5, <5>2, <5>3
      <4> QED
        BY <4>2, <4>3
    <3> HIDE DEF v
    <3>8. Upto(j)
      BY <3>2, <3>5, <3>7
    <3> QED
      BY <3>8
  <2> QED
    BY <2>7, <2>8
<1> HIDE DEF Upto
<1>5. 0 \in S /\ \A k \in 0..(n - 1) : k \in S => k + 1 \in S
  BY <1>3, <1>4
<1> HIDE DEF S
<1>6. 0..n \subseteq S
  BY <1>1, <1>5, InductionTo
<1>7. Upto(n)
  BY <1>1, <1>6 DEF S
<1>8. SubSeq(s, 1, n) = s
  BY <1>1
<1> DEFINE z == LeftFold(F, m, AllSets(layout, o))
<1>9. x(n) = z
  BY <1>8 DEF AllSets, s
<1>10. z \in R /\ \A i \in 1..n : z[layout[i].name] =
            IF v(i) # Default(layout[i]) THEN v(i) ELSE m[layout[i].name]
  <2>1. \A i \in 1..n : i <= n
    BY <1>1
  <2> HIDE DEF x, z, v
  <2> QED
    BY <1>7, <1>9, <2>1 DEF Upto
<1>11. \A i \in DOMAIN layout : z[layout[i].name] = MergeFrom(layout, m, o)[layout[i].name]
  <2> HIDE DEF z
  <2> QED
    BY <1>1, <1>10, MergeTyped
<1> HIDE DEF z
<1>12. z = MergeFrom(layout, m, o)
  BY <1>10, <1>11, MergeTyped, RecordsEqual
<1> QED
  BY <1>12 DEF z, F

-----------------------------------------------------------------------------
LEMMA CleanIsUTF8 ==
    ASSUME NEW v, CleanText(v)
    PROVE  IsUTF8(v)
<1>1. \A x \in 1..127 : x < 128
  OBVIOUS
<1> QED
  BY <1>1 DEF CleanText, IsUTF8

(* The fields of clean text are read as they were written.                 *)
LEMMA SerializeReads ==
    ASSUME NEW layout, GoodLayout(layout), NEW m \in Record(layout), CleanRecord(layout, m)
    PROVE  ReadsAs(layout, Serialize(layout, m), AllSets(layout, m))
<1> DEFINE s == Pieces(layout, m)
           t == FieldSets(layout, m)
<1>1. /\ s \in Seq(Seq(Byte)) /\ Len(s) = Len(layout) /\ Serialize(layout, m) = FlattenSeq(s)
      /\ \A i \in 1..Len(layout) : s[i] = Encode(layout[i], m[layout[i].name])
  BY PiecesTyped
<1>2. /\ t \in Seq(Seq(Settings(layout))) /\ Len(t) = Len(layout)
      /\ DOMAIN layout = 1..Len(layout)
      /\ \A i \in 1..Len(layout) : t[i] = Sets(layout[i], m[layout[i].name])
  BY FieldSetsTyped
<1>3. ASSUME NEW i \in 1..Len(s) PROVE ReadsAs(layout, s[i], t[i])
  <2> DEFINE v == m[layout[i].name]
  <2>1. i \in DOMAIN layout /\ s[i] = Encode(layout[i], v) /\ t[i] = Sets(layout[i], v)
    BY <1>1, <1>2
  <2>2. v \in FieldValues(layout[i]) /\ (layout[i].wire = LENGTH => CleanText(v))
    BY <2>1 DEF Record, CleanRecord
  <2>3. layout[i].wire = LENGTH => IsUTF8(v)
    BY <2>2, CleanIsUTF8
  <2> HIDE DEF v, s, t
  <2>4. ReadsAs(layout, Encode(layout[i], v), Sets(layout[i], v))
    BY <2>1, <2>2, <2>3, ReadsField
  <2> QED
    BY <2>1, <2>4
<1>4. AllSets(layout, m) = FlattenSeq(t)
  BY DEF AllSets
<1> HIDE DEF s, t
<1>5. ReadsAs(layout, FlattenSeq(s), FlattenSeq(t))
  BY <1>1, <1>2, <1>3, ReadsFlat
<1> QED
  BY <1>1, <1>4, <1>5

(* MergeFrom into a cleared message is a copy.                             *)
LEMMA MergeIntoBlank ==
    ASSUME NEW layout, GoodLayout(layout), NEW m \in Record(layout)
    PROVE  MergeFrom(layout, Blank(layout), m) = m
<1> DEFINE r == MergeFrom(layout, Blank(layout), m)
<1>1. r \in Record(layout) /\ \A i \in DOMAIN layout : r[layout[i].name] = m[layout[i].name]
  BY BlankIs, MergeTyped
<1> HIDE DEF r
<1>2. r = m
  BY <1>1, RecordsEqual
<1> QED
  BY <1>2 DEF r

(* A message of clean text is parsed as it was serialized.                 *)
THEOREM RoundTrip ==
    ASSUME NEW layout, GoodLayout(layout), NEW m \in Record(layout), CleanRecord(layout, m),
           Len(Serialize(layout, m)) <= 2147483647
    PROVE  /\ ParseOK(layout, Serialize(layout, m))
           /\ Parse(layout, Serialize(layout, m)) = m
<1> DEFINE b == Serialize(layout, m)
           s == AllSets(layout, m)
<1>1. b \in Text
  BY PiecesTyped DEF Text
<1>2. s \in Seq(Settings(layout)) /\ ReadsAs(layout, b, s)
  BY FieldSetsTyped, SerializeReads
<1>3. LeftFold(Setter(layout), Blank(layout), s) = m
  BY BlankIs, SetsMerge, MergeIntoBlank
<1> HIDE DEF b, s
<1>4. ParseOK(layout, b) /\ Parse(layout, b) = LeftFold(Setter(layout), Blank(layout), s)
  BY <1>1, <1>2, ParseReads
<1> QED
  BY <1>3, <1>4 DEF b

-----------------------------------------------------------------------------
(* Messages of one layout, one behind the other.                           *)
StreamOf(layout, s) == FlattenSeq([i \in DOMAIN s |-> Serialize(layout, s[i].fields)])

(* The client finds no end of a message in them: it parses their merge, of *)
(* all of them whatever their number.                                      *)
THEOREM StreamMerges ==
    ASSUME NEW kinds, NEW layout, GoodLayout(layout),
           NEW s \in Seq(Filled(kinds, layout)),
           \A i \in DOMAIN s : CleanRecord(layout, s[i].fields),
           StreamOf(layout, s) \in Text
    PROVE  Parse(layout, StreamOf(layout, s)) = Merged(layout, s)
<1> DEFINE R == Record(layout)
           D == Settings(layout)
           n == Len(s)
           p(i) == Serialize(layout, s[i].fields)
           q(i) == AllSets(layout, s[i].fields)
           x == [i \in DOMAIN s |-> p(i)]
           y == [i \in DOMAIN s |-> q(i)]
           base == Blank(layout)
           F == Setter(layout)
           G == Merger(kinds, layout)
           z(k) == LeftFold(F, base, FlattenSeq(SubSeq(y, 1, k)))
           g == [k \in 0..n |-> z(k)]
<1>1. n \in Nat /\ DOMAIN s = 1..n /\ \A i \in 1..n : s[i] \in Filled(kinds, layout)
  OBVIOUS
<1>2. ASSUME NEW i \in 1..n
      PROVE  /\ s[i].fields \in R /\ p(i) \in Seq(Byte) /\ q(i) \in Seq(D)
             /\ ReadsAs(layout, p(i), q(i))
  <2>1. s[i].fields \in Record(layout) /\ CleanRecord(layout, s[i].fields)
    BY <1>1 DEF Filled
  <2> QED
    BY <2>1, PiecesTyped, FieldSetsTyped, SerializeReads
<1>3. x = [i \in 1..n |-> p(i)] /\ y = [i \in 1..n |-> q(i)]
  BY <1>1
<1>4. /\ x \in Seq(Seq(Byte)) /\ Len(x) = n /\ \A i \in 1..n : x[i] = p(i)
      /\ y \in Seq(Seq(D)) /\ Len(y) = n /\ \A i \in 1..n : y[i] = q(i)
  <2> HIDE DEF x, y, p, q, D, n
  <2> QED
    BY <1>1, <1>2, <1>3
<1>5. StreamOf(layout, s) = FlattenSeq(x)
  BY DEF StreamOf
<1>6. ReadsAs(layout, FlattenSeq(x), FlattenSeq(y)) /\ FlattenSeq(y) \in Seq(D)
  <2>1. \A i \in 1..Len(x) : ReadsAs(layout, x[i], y[i])
    BY <1>2, <1>4
  <2> HIDE DEF x, y, n
  <2> QED
    BY <1>4, <2>1, ReadsFlat, FlattenTyped
<1>7. Parse(layout, StreamOf(layout, s)) = LeftFold(F, base, FlattenSeq(y))
  <2> DEFINE b == StreamOf(layout, s)
             t == FlattenSeq(y)
  <2>1. ReadsAs(layout, b, t) /\ b \in Text /\ t \in Seq(Settings(layout))
    BY <1>5, <1>6
  <2> HIDE DEF b, t
  <2>2. Parse(layout, b) = LeftFold(Setter(layout), Blank(layout), t)
    BY <2>1, ParseReads
  <2> QED
    BY <2>2 DEF b, t
<1>8. F \in Steps(R, D) /\ base \in R
  BY SetterTyped, BlankIs DEF Steps
<1> HIDE DEF x, y, n
<1>9. g[0] = base
  <2>1. SubSeq(y, 1, 0) = <<>>
    BY <1>4
  <2>2. FlattenSeq(SubSeq(y, 1, 0)) = <<>>
    BY <2>1, FlattenEmpty
  <2>3. z(0) = base
    BY <2>2, LeftFoldEmpty
  <2> HIDE DEF z
  <2> QED
    BY <1>1, <2>3
<1>10. ASSUME NEW k \in 1..n PROVE g[k] = G[<<g[k - 1], s[k]>>]
  <2> DEFINE a == FlattenSeq(SubSeq(y, 1, k - 1))
             w == y[k]
             v == z(k - 1)
  <2>1. SubSeq(y, 1, k - 1) \in Seq(Seq(D)) /\ w \in Seq(D) /\ k \in 1..Len(y) /\ w = q(k)
    BY <1>4
  <2>2. a \in Seq(D) /\ FlattenSeq(SubSeq(y, 1, k)) = Cat(a, w)
    <3> HIDE DEF D
    <3> QED
      BY <1>4, <2>1, FlattenTyped, FlattenStep DEF Cat
  <2>3. z(k) = LeftFold(F, v, w)
    <3> HIDE DEF F, R, D, a, w
    <3>1. LeftFold(F, base, Cat(a, w)) = LeftFold(F, LeftFold(F, base, a), w)
      BY <1>8, <2>1, <2>2, LeftFoldConcat
    <3> QED
      BY <2>2, <3>1 DEF a
  <2>4. v \in R
    <3> DEFINE V == R
    <3>1. F \in [R \X D -> R]
      BY <1>8 DEF Steps
    <3> HIDE DEF F, R, D, a, base
    <3>2. LeftFold(F, base, a) \in R
      BY <1>8, <2>2, <3>1, LeftFoldTyped
    <3> QED
      BY <3>2 DEF a
  <2>5. z(k) = MergeFrom(layout, v, s[k].fields)
    <3>1. s[k].fields \in Record(layout) /\ v \in Record(layout)
      BY <1>2, <2>4
    <3> HIDE DEF v, z
    <3>2. LeftFold(Setter(layout), v, AllSets(layout, s[k].fields))
              = MergeFrom(layout, v, s[k].fields)
      BY <3>1, SetsMerge
    <3> QED
      BY <2>1, <2>3, <3>2
  <2>6. G[<<v, s[k]>>] = MergeFrom(layout, v, s[k].fields)
    <3>1. s[k] \in Filled(kinds, layout) /\ v \in Record(layout)
      BY <1>1, <2>4
    <3> HIDE DEF v
    <3>2. <<v, s[k]>> \in Record(layout) \X Filled(kinds, layout)
      BY <3>1
    <3> QED
      BY <3>2 DEF Merger
  <2>7. g[k] = z(k) /\ g[k - 1] = v
    <3> HIDE DEF z
    <3> QED
      BY <1>1
  <2> HIDE DEF z, g, G, v
  <2> QED
    BY <2>5, <2>6, <2>7
<1>11. g[n] = LeftFold(F, base, FlattenSeq(y))
  <2>1. SubSeq(y, 1, n) = y
    BY <1>4
  <2>2. z(n) = LeftFold(F, base, FlattenSeq(y))
    BY <2>1
  <2> HIDE DEF z
  <2>3. g[n] = z(n)
    BY <1>1
  <2> QED
    BY <2>2, <2>3
<1> HIDE DEF g, G
<1>12. Runs(g, G, base, s)
  BY <1>9, <1>10 DEF Runs, n
<1>13. LeftFold(G, base, s) = g[n]
  BY <1>1, <1>12, LeftFoldIs DEF n
<1>14. Merged(layout, s) = LeftFold(G, base, s)
  BY MergesFolded DEF G
<1> QED
  BY <1>7, <1>11, <1>13, <1>14
=============================================================================
