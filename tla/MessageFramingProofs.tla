----------------------- MODULE MessageFramingProofs ------------------------
(* Proofs about MessageFraming: its invariants hold for any size of a word *)
(* of the header, any base of its digits and any set of messages.          *)
EXTENDS MessageFraming, ProtoWireProofs
LOCAL INSTANCE SequencesExt
LOCAL INSTANCE FiniteSetsExt
LOCAL INSTANCE Folds

(* The fold of Word over the positions of s, the least one outermost; base *)
(* is what the highest byte stands for.                                    *)
Digits(it, s, base, T)    == IF T = {} THEN base ELSE s[Min(T)] + Base * it[T \ {Min(T)}]
IsWordValue(it, s, base)  == it = [T \in SUBSET DOMAIN s |-> Digits(it, s, base, T)]

(* The values of all sets of positions: the recursive function of the      *)
(* fold.                                                                   *)
LEMMA ValueExists ==
    ASSUME NEW s \in Seq(Nat), Base \in Nat, NEW base \in Int
    PROVE  \E it : IsWordValue(it, s, base)
<1> DEFINE n == Len(s)
           F == [p \in (1..n) \X Int |-> s[p[1]] + Base * p[2]]
<1>1. n \in Nat /\ DOMAIN s = 1..n /\ (\A i \in 1..n : s[i] \in Nat)
  OBVIOUS
<1>2. F \in [(1..n) \X Int -> Int]
  <2>1. \A p \in (1..n) \X Int : s[p[1]] + Base * p[2] \in Int
    BY <1>1
  <2> QED
    BY <2>1
<1>3. PICK it \in [SUBSET (1..n) -> Int] : RightFold(it, n, F, base)
  <2> HIDE DEF n, F
  <2> QED
    BY <1>1, <1>2, RightFoldExists
<1>4. ASSUME NEW T \in SUBSET (1..n) PROVE it[T] = Digits(it, s, base, T)
  <2>1. it[T] = IF T = {} THEN base ELSE F[<<Min(T), it[T \ {Min(T)}]>>]
    BY <1>3 DEF RightFold
  <2>2. CASE T = {}
    BY <2>1, <2>2 DEF Digits
  <2>3. CASE T # {}
    <3>1. Min(T) \in T
      <4>1. T \subseteq Nat
        OBVIOUS
      <4> QED
        BY <2>3, <4>1, MinIs
    <3>2. <<Min(T), it[T \ {Min(T)}]>> \in (1..n) \X Int
      BY <3>1
    <3>3. F[<<Min(T), it[T \ {Min(T)}]>>] = s[Min(T)] + Base * it[T \ {Min(T)}]
      BY <3>2
    <3> QED
      BY <2>1, <2>3, <3>3 DEF Digits
  <2> QED
    BY <2>2, <2>3
<1>5. IsWordValue(it, s, base)
  <2> HIDE DEF F
  <2>1. it = [T \in SUBSET DOMAIN s |-> it[T]]
    BY <1>1
  <2> DEFINE Q(T) == Digits(it, s, base, T)
  <2>2. \A T \in SUBSET DOMAIN s : it[T] = Q(T)
    BY <1>1, <1>4
  <2> HIDE DEF Q
  <2>3. it = [T \in SUBSET DOMAIN s |-> Q(T)]
    BY <2>1, <2>2
  <2> QED
    BY <2>3 DEF Q, IsWordValue
<1> QED
  BY <1>5

(* FoldRight takes the value of all positions.                             *)
LEMMA ValueChosen ==
    ASSUME NEW s \in Seq(Nat), Base \in Nat, NEW base \in Int
    PROVE  \E it : /\ IsWordValue(it, s, base)
                   /\ FoldRight(LAMBDA x, v : x + Base * v, s, base) = it[DOMAIN s]
<1> DEFINE c == CHOOSE it : IsWordValue(it, s, base)
<1>1. IsWordValue(c, s, base)
  BY ValueExists, Zenon
<1>2. FoldRight(LAMBDA x, v : x + Base * v, s, base) = c[DOMAIN s]
  BY Zenon DEF FoldRight, MapThenFoldSet, IsWordValue, Digits
<1> QED
  BY <1>1, <1>2

(* A last digit between 1 and Base - 1 is neither made up for by the       *)
(* digits above it, nor left alone by them unless they are all 0.          *)
LEMMA LastDigit ==
    ASSUME Base \in Nat \ {0, 1}, NEW d \in 1..(Base - 1), NEW v \in Int
    PROVE  /\ d + Base * v # 0
           /\ v # 0 => d + Base * v # 1
<1>1. CASE v = 0
  BY <1>1
<1>2. CASE v >= 1
  <2>1. Base * v >= Base /\ Base * v \in Int
    BY <1>2
  <2> QED
    BY <2>1
<1>3. CASE v <= -1
  <2>1. Base * v <= -Base /\ Base * v \in Int
    BY <1>3
  <2> QED
    BY <2>1
<1> QED
  BY <1>1, <1>2, <1>3

(* From the last position on: the value of what is left of s.              *)
Plain(s, base)    == base # 0 /\ \A i \in 1..Len(s) : s[i] \in 1..(Base - 1)
LastFrom(s, k)    == ((Len(s) - k) + 1)..Len(s)

LEMMA ValueFrom ==
    ASSUME NEW s \in Seq(Nat), Base \in Nat \ {0, 1}, NEW base \in Int,
           NEW it, IsWordValue(it, s, base)
    PROVE  \A k \in 0..Len(s) :
               /\ it[LastFrom(s, k)] \in Int
               /\ Plain(s, base) => /\ it[LastFrom(s, k)] # 0
                                    /\ k >= 1 => it[LastFrom(s, k)] # 1
<1> DEFINE n == Len(s)
           I(k) == ((n - k) + 1)..n
           S == {k \in Nat : /\ it[I(k)] \in Int
                             /\ Plain(s, base) => it[I(k)] # 0 /\ (k >= 1 => it[I(k)] # 1)}
<1>1. n \in Nat /\ DOMAIN s = 1..n /\ (\A i \in 1..n : s[i] \in Nat)
  OBVIOUS
<1>2. ASSUME NEW T \in SUBSET (1..n)
      PROVE  it[T] = IF T = {} THEN base ELSE s[Min(T)] + Base * it[T \ {Min(T)}]
  <2> DEFINE Q(U) == Digits(it, s, base, U)
  <2> HIDE DEF Q
  <2>1. it = [U \in SUBSET (1..n) |-> Q(U)]
    BY <1>1, Zenon DEF IsWordValue, Q
  <2>2. it[T] = Q(T)
    BY <2>1, Zenon
  <2> QED
    BY <2>2 DEF Q, Digits
<1>3. 0 \in S
  <2>1. I(0) = {}
    OBVIOUS
  <2>2. it[I(0)] = base
    BY <1>2, <2>1
  <2> QED
    BY <2>2 DEF Plain
<1>4. ASSUME NEW k \in 0..(n - 1), k \in S
      PROVE  k + 1 \in S
  <2> DEFINE a == n - k
  <2>1. a \in 1..n /\ I(k + 1) = I(k) \cup {a} /\ a \notin I(k) /\ (\A x \in I(k) : a <= x)
    OBVIOUS
  <2> HIDE DEF I
  <2> DEFINE T == I(k + 1)
  <2>2. T \in SUBSET (1..n) /\ T # {} /\ T \subseteq Nat
    <3>1. I(k) \subseteq 1..n
      BY <1>1 DEF I
    <3> HIDE DEF a, n
    <3>2. T \subseteq 1..n /\ a \in T
      BY <2>1, <3>1
    <3> QED
      BY <3>2
  <2>3. Min(T) = a
    <3>1. Min(T) \in T /\ \A y \in T : Min(T) <= y
      <4> HIDE DEF T
      <4> QED
        BY <2>2, MinIs
    <3>2. Min(T) <= a /\ a <= Min(T) /\ Min(T) \in Nat /\ a \in Nat
      BY <2>1, <2>2, <3>1
    <3> QED
      BY <3>2
  <2>4. T \ {a} = I(k)
    <3> DEFINE U == I(k)
    <3>1. T = U \cup {a} /\ a \notin U
      BY <2>1
    <3> HIDE DEF a, T, U
    <3>2. T \ {a} = U
      BY <3>1
    <3> QED
      BY <3>2 DEF U
  <2>5. it[T] = s[a] + Base * it[I(k)]
    BY <1>2, <2>2, <2>3, <2>4
  <2> DEFINE v == it[I(k)]
             d == s[a]
  <2>6. v \in Int /\ d \in Nat /\ (Plain(s, base) => v # 0 /\ d \in 1..(Base - 1))
    BY <1>1, <1>4, <2>1 DEF Plain
  <2> HIDE DEF v, d, a
  <2>7. d + Base * v \in Int
    BY <2>6
  <2>8. Plain(s, base) => d + Base * v # 0 /\ d + Base * v # 1
    BY <2>6, LastDigit
  <2>9. it[T] = d + Base * v
    BY <2>5 DEF d, v
  <2> QED
    BY <2>7, <2>8, <2>9
<1> HIDE DEF S, I
<1>5. 0..n \subseteq S
  BY <1>1, <1>3, <1>4, InductionTo
<1> QED
  BY <1>5 DEF S, I, LastFrom

(* The bytes of a word below its highest, and its highest.                 *)
LowBytes(b, i) == SubSeq(b, i, i + WordSize - 2)
TopByte(b, i)  == b[i + WordSize - 1]

LEMMA SignOfTop ==
    ASSUME Base \in Nat \ {0, 1}, NEW x \in Bytes
    PROVE  Signed(x) \in Int /\ (x # NUL => Signed(x) # 0)
BY DEF Signed, Bytes, NUL

(* A word is a number, and one without a NUL is not 1: nothing but NULs    *)
(* stands above a 1.                                                       *)
LEMMA WordValue ==
    ASSUME NEW b, NEW i, LowBytes(b, i) \in Seq(Bytes), TopByte(b, i) \in Bytes,
           Len(LowBytes(b, i)) = WordSize - 1,
           WordSize \in Nat \ {0, 1}, Base \in Nat \ {0, 1}
    PROVE  /\ Word(b, i) \in Int
           /\ NulFree(LowBytes(b, i)) /\ TopByte(b, i) # NUL => Word(b, i) # 1
<1> DEFINE s    == LowBytes(b, i)
           base == Signed(TopByte(b, i))
<1>1. base \in Int /\ (TopByte(b, i) # NUL => base # 0)
  BY SignOfTop
<1> HIDE DEF s, base
<1>2. /\ s \in Seq(Nat) /\ Len(s) = WordSize - 1 /\ Len(s) \in Nat /\ Len(s) >= 1
      /\ \A j \in 1..Len(s) : s[j] \in Bytes
  <2>1. s \in Seq(Bytes) /\ Len(s) = WordSize - 1
    BY DEF s
  <2> QED
    BY <2>1 DEF Bytes
<1>3. PICK it : /\ IsWordValue(it, s, base)
                /\ FoldRight(LAMBDA x, v : x + Base * v, s, base) = it[DOMAIN s]
  BY <1>1, <1>2, ValueChosen
<1>4. Word(b, i) = it[DOMAIN s]
  BY <1>3, Zenon DEF Word, LowBytes, TopByte, s, base
<1>5. DOMAIN s = LastFrom(s, Len(s)) /\ Len(s) \in 0..Len(s)
  BY <1>2 DEF LastFrom
<1>6. it[DOMAIN s] \in Int /\ (Plain(s, base) => it[DOMAIN s] # 1)
  BY <1>1, <1>2, <1>3, <1>5, ValueFrom
<1>7. NulFree(s) /\ TopByte(b, i) # NUL => Plain(s, base)
  BY <1>1, <1>2 DEF NulFree, NUL, Bytes, Plain
<1> QED
  BY <1>4, <1>6, <1>7 DEF s

LEMMA Element ==
    ASSUME NEW S, NEW s \in Seq(S), NEW i \in 1..Len(s)
    PROVE  s[i] \in S
OBVIOUS

(* A part of a sequence.                                                   *)
LEMMA PartOf ==
    ASSUME NEW S, NEW s \in Seq(S), NEW i \in Nat, NEW e \in Nat, 1 <= i, i <= e, e <= Len(s)
    PROVE  /\ SubSeq(s, i, e) \in Seq(S) /\ Len(SubSeq(s, i, e)) = (e - i) + 1
           /\ \A j \in 1..((e - i) + 1) : SubSeq(s, i, e)[j] = s[(i - 1) + j]
OBVIOUS

(* Both words lie within a text as long as a header.                       *)
LEMMA HeaderWords ==
    ASSUME FramingAssumption, NEW b \in Seq(Bytes), Len(b) >= Header
    PROVE  \A i \in {1, WordSize + 1} :
               /\ LowBytes(b, i) \in Seq(Bytes) /\ Len(LowBytes(b, i)) = WordSize - 1
               /\ \A j \in 1..(WordSize - 1) : LowBytes(b, i)[j] = b[(i - 1) + j]
               /\ TopByte(b, i) = b[(i - 1) + WordSize] /\ TopByte(b, i) \in Bytes
<1>1. WordSize \in Nat \ {0, 1} /\ Header = WordSize + WordSize
  BY DEF FramingAssumption, Header
<1>2. Len(b) \in Nat /\ Len(b) >= WordSize + WordSize /\ \A j \in 1..Len(b) : b[j] \in Bytes
  BY <1>1
<1>3. ASSUME NEW i \in {1, WordSize + 1}
      PROVE  /\ LowBytes(b, i) \in Seq(Bytes) /\ Len(LowBytes(b, i)) = WordSize - 1
             /\ \A j \in 1..(WordSize - 1) : LowBytes(b, i)[j] = b[(i - 1) + j]
             /\ TopByte(b, i) = b[(i - 1) + WordSize] /\ TopByte(b, i) \in Bytes
  <2>1. /\ i \in Nat /\ i >= 1 /\ (i + WordSize) - 1 <= Len(b)
        /\ (i + WordSize) - 2 \in Nat /\ (i + WordSize) - 2 <= Len(b)
        /\ (i + WordSize) - 1 = (i - 1) + WordSize
    BY <1>1, <1>2
  <2>2. /\ LowBytes(b, i) = SubSeq(b, i, (i + WordSize) - 2)
        /\ TopByte(b, i) = b[(i + WordSize) - 1]
    BY DEF LowBytes, TopByte
  <2> DEFINE e == (i + WordSize) - 2
  <2>3. /\ e \in Nat /\ e <= Len(b) /\ (e - i) + 1 = WordSize - 1 /\ e >= i
        /\ WordSize - 1 \in Nat
    BY <1>1, <2>1
  <2> HIDE DEF e
  <2>4. /\ SubSeq(b, i, e) \in Seq(Bytes) /\ Len(SubSeq(b, i, e)) = (e - i) + 1
        /\ \A j \in 1..((e - i) + 1) : SubSeq(b, i, e)[j] = b[(i - 1) + j]
    BY <1>2, <2>1, <2>3, PartOf
  <2> QED
    BY <1>1, <1>2, <2>1, <2>2, <2>3, <2>4 DEF e
<1> QED
  BY <1>3

LEMMA HeaderIsNumbers ==
    ASSUME FramingAssumption, NEW b \in Seq(Bytes), Len(b) >= Header
    PROVE  /\ Cmd(b) \in Int /\ Length(b) \in Int
           /\ (\A j \in 1..Header : b[j] # NUL) => Cmd(b) # 1
<1>1. WordSize \in Nat \ {0, 1} /\ Header = WordSize + WordSize /\ Base \in Nat \ {0, 1}
  BY DEF FramingAssumption, Header
<1>2. ASSUME NEW i \in {1, WordSize + 1}
      PROVE  /\ Word(b, i) \in Int
             /\ NulFree(LowBytes(b, i)) /\ TopByte(b, i) # NUL => Word(b, i) # 1
  BY <1>1, HeaderWords, WordValue
<1>3. (\A j \in 1..Header : b[j] # NUL) => NulFree(LowBytes(b, 1)) /\ TopByte(b, 1) # NUL
  <2> DEFINE w == LowBytes(b, 1)
  <2>1. /\ w \in Seq(Bytes) /\ Len(w) = WordSize - 1
        /\ \A j \in 1..(WordSize - 1) : w[j] = b[(1 - 1) + j]
        /\ TopByte(b, 1) = b[(1 - 1) + WordSize]
    BY HeaderWords
  <2> HIDE DEF w
  <2>2. /\ DOMAIN w = 1..(WordSize - 1)
        /\ \A j \in 1..(WordSize - 1) : j \in 1..Header /\ w[j] = b[j]
        /\ WordSize \in 1..Header /\ TopByte(b, 1) = b[WordSize]
    BY <1>1, <2>1
  <2> QED
    BY <2>2 DEF NulFree, w
<1> QED
  BY <1>2, <1>3 DEF Cmd, Length

LEMMA SameHeader ==
    ASSUME FramingAssumption, NEW a \in Seq(Bytes), NEW b \in Seq(Bytes),
           Len(a) >= Header, Len(b) >= Header, \A j \in 1..Header : a[j] = b[j]
    PROVE  Cmd(a) = Cmd(b) /\ Length(a) = Length(b)
<1>1. WordSize \in Nat \ {0, 1} /\ Header = WordSize + WordSize
  BY DEF FramingAssumption, Header
<1>2. ASSUME NEW i \in {1, WordSize + 1} PROVE Word(a, i) = Word(b, i)
  <2>1. \A j \in 1..WordSize : (i - 1) + j \in 1..Header
    BY <1>1
  <2>2. \A j \in 1..WordSize : a[(i - 1) + j] = b[(i - 1) + j]
    BY <2>1
  <2>3. TopByte(a, i) = TopByte(b, i)
    <3>1. TopByte(a, i) = a[(i - 1) + WordSize]
      BY HeaderWords, Zenon
    <3>2. TopByte(b, i) = b[(i - 1) + WordSize]
      BY HeaderWords, Zenon
    <3>3. WordSize \in 1..WordSize
      BY <1>1
    <3> QED
      BY <2>2, <3>1, <3>2, <3>3, Zenon
  <2>4. LowBytes(a, i) = LowBytes(b, i)
    <3> DEFINE v == LowBytes(a, i)
               w == LowBytes(b, i)
    <3>1. /\ v \in Seq(Bytes) /\ Len(v) = WordSize - 1
          /\ w \in Seq(Bytes) /\ Len(w) = WordSize - 1
          /\ \A j \in 1..(WordSize - 1) : v[j] = a[(i - 1) + j] /\ w[j] = b[(i - 1) + j]
      BY HeaderWords
    <3> HIDE DEF v, w
    <3>2. \A j \in 1..(WordSize - 1) : v[j] = w[j]
      <4>1. \A j \in 1..(WordSize - 1) : j \in 1..WordSize
        BY <1>1
      <4> QED
        BY <2>2, <3>1, <4>1
    <3>3. v = w
      BY <1>1, <3>1, <3>2
    <3> QED
      BY <3>3 DEF v, w
  <2> QED
    BY <2>3, <2>4, Zenon DEF Word, LowBytes, TopByte
<1> QED
  BY <1>2 DEF Cmd, Length

-----------------------------------------------------------------------------
(* What TypeOK says of the parts.                                          *)
LEMMA Types ==
    ASSUME FramingAssumption, TypeOK
    PROVE  /\ Header \in Nat /\ Header >= 4
           /\ memory \in Seq(Bytes) /\ Len(memory) = Header
           /\ Cmd(memory) \in Int /\ Length(memory) \in Int
           /\ text \in Seq(Bytes) /\ Len(text) \in Nat
           /\ \A i \in 1..Len(text) : text[i] \in Bytes /\ text[i] # NUL
           /\ sent \in Seq(Seq(Bytes)) /\ Len(sent) \in Nat /\ Len(dispatched) \in Nat
           /\ \A i \in 1..Len(sent) :
                 /\ sent[i] \in Seq(Bytes)
                 /\ Len(sent[i]) >= Header /\ Length(sent[i]) = Len(sent[i])
<1>1. Header \in Nat /\ Header >= 4
  BY DEF FramingAssumption, Header
<1>2. memory \in Seq(Bytes) /\ Len(memory) = Header
  BY <1>1 DEF TypeOK
<1>3. Cmd(memory) \in Int /\ Length(memory) \in Int
  BY <1>1, <1>2, HeaderIsNumbers
<1>4. Len(text) \in Nat /\ \A i \in 1..Len(text) : text[i] \in Bytes /\ text[i] # NUL
  BY DEF TypeOK
<1>5. text \in Seq(Bytes)
  BY DEF TypeOK
<1>6. sent \in Seq(Messages) /\ Messages \subseteq Seq(Bytes)
  BY DEF TypeOK, FramingAssumption, Bytes
<1>7. sent \in Seq(Seq(Bytes))
  BY <1>6
<1>8. ASSUME NEW i \in 1..Len(sent)
      PROVE  /\ sent[i] \in Seq(Bytes)
             /\ Len(sent[i]) >= Header /\ Length(sent[i]) = Len(sent[i])
  <2>1. sent[i] \in Messages
    BY <1>6
  <2> QED
    BY <1>6, <2>1 DEF FramingAssumption
<1>9. Len(sent) \in Nat /\ Len(dispatched) \in Nat
  BY DEF TypeOK
<1> QED
  BY <1>1, <1>2, <1>3, <1>4, <1>5, <1>7, <1>8, <1>9

LEMMA DispatchedTexts ==
    ASSUME TypeOK
    PROVE  Texts(dispatched) \in Seq(Seq(Bytes)) /\ Len(Texts(dispatched)) = Len(dispatched)
<1>1. ASSUME NEW i \in 1..Len(dispatched) PROVE dispatched[i].text \in Seq(Bytes)
  <2>1. dispatched[i] \in [cmd : Int, text : Seq(Bytes \ {NUL})]
    BY Element DEF TypeOK
  <2>2. dispatched[i].text \in Seq(Bytes \ {NUL})
    BY <2>1
  <2> QED
    BY <2>2
<1>2. Len(dispatched) \in Nat /\ DOMAIN dispatched = 1..Len(dispatched)
  BY DEF TypeOK
<1> QED
  BY <1>1, <1>2 DEF Texts

LEMMA SameSequence ==
    ASSUME NEW S, NEW s \in Seq(S), NEW t \in Seq(S), Len(s) = Len(t),
           \A i \in 1..Len(t) : s[i] = t[i]
    PROVE  s = t
OBVIOUS

(* A sequence is its first n elements and the rest.                        *)
LEMMA InTwo ==
    ASSUME NEW S, NEW s \in Seq(S), NEW n \in 0..Len(s)
    PROVE  /\ SubSeq(s, 1, n) \in Seq(S) /\ SubSeq(s, n + 1, Len(s)) \in Seq(S)
           /\ Len(SubSeq(s, 1, n)) = n
           /\ s = SubSeq(s, 1, n) \o SubSeq(s, n + 1, Len(s))
<1> DEFINE a == SubSeq(s, 1, n)
           b == SubSeq(s, n + 1, Len(s))
<1>1. a \in Seq(S) /\ Len(a) = n /\ \A i \in 1..n : a[i] = s[i]
  OBVIOUS
<1>2. b \in Seq(S) /\ Len(b) = Len(s) - n /\ \A i \in 1..(Len(s) - n) : b[i] = s[n + i]
  OBVIOUS
<1> HIDE DEF a, b
<1>3. a \o b \in Seq(S) /\ Len(a \o b) = Len(s)
  BY <1>1, <1>2
<1>4. ASSUME NEW i \in 1..Len(s) PROVE (a \o b)[i] = s[i]
  <2>1. CASE i <= n
    BY <1>1, <1>2, <2>1
  <2>2. CASE i > n
    <3>1. i - n \in 1..Len(b) /\ n + (i - n) = i /\ i = Len(a) + (i - n)
      BY <1>1, <1>2, <2>2
    <3>2. (a \o b)[i] = b[i - n]
      BY <1>1, <1>2, <3>1
    <3> QED
      BY <1>2, <3>1, <3>2
  <2>3. i <= n \/ i > n
    OBVIOUS
  <2> QED
    BY <2>1, <2>2, <2>3, Zenon
<1>5. s = a \o b
  <2> DEFINE c == a \o b
  <2>1. c \in Seq(S) /\ Len(c) = Len(s) /\ \A i \in 1..Len(s) : c[i] = s[i]
    BY <1>3, <1>4
  <2> HIDE DEF c
  <2>2. s = c
    BY <2>1
  <2> QED
    BY <2>2 DEF c
<1> QED
  BY <1>1, <1>2, <1>5 DEF a, b

(* The next message, once something of it has been read: the text is where *)
(* it begins, and behind it stands what is left of the stream.             *)
LEMMA TextIsPrefix ==
    ASSUME FramingAssumption, TypeOK, FramesInOrder, Accounted, whole, pc # "dead", text # <<>>
    PROVE  /\ Len(dispatched) < Len(sent)
           /\ \E t \in Seq(Bytes) : sent[Current] \o t = text \o (socket \o network)
<1> DEFINE d == Len(dispatched)
           T == Texts(dispatched)
           rest == socket \o network
<1>1. /\ d \in Nat /\ Len(sent) \in Nat /\ d <= Len(sent) /\ sent \in Seq(Seq(Bytes))
      /\ T \in Seq(Seq(Bytes)) /\ Len(T) = d /\ text \in Seq(Bytes) /\ rest \in Seq(Bytes)
      /\ socket \in Seq(Bytes) /\ network \in Seq(Bytes)
  BY Types, DispatchedTexts DEF FramesInOrder, TypeOK
<1>2. T = SubSeq(sent, 1, d)
  <2>1. ASSUME NEW i \in 1..d PROVE T[i] = sent[i]
    <3>0. i \in DOMAIN dispatched
      BY <1>1 DEF TypeOK
    <3>1. dispatched[i] = [cmd |-> Cmd(sent[i]), text |-> sent[i]]
      BY <3>0 DEF FramesInOrder
    <3>2. T[i] = dispatched[i].text
      BY <3>0 DEF Texts
    <3> QED
      BY <3>1, <3>2
  <2> DEFINE U == SubSeq(sent, 1, d)
  <2>2. U \in Seq(Seq(Bytes)) /\ Len(U) = d /\ \A i \in 1..d : U[i] = sent[i]
    BY <1>1, InTwo
  <2> HIDE DEF T, d, U
  <2>3. /\ T \in Seq(Seq(Bytes)) /\ Len(T) = Len(U) /\ U \in Seq(Seq(Bytes))
        /\ \A i \in 1..Len(U) : T[i] = U[i]
    BY <1>1, <2>1, <2>2
  <2>4. T = U
    BY <2>3, SameSequence
  <2> QED
    BY <2>4 DEF U
<1>3. FlattenSeq(T) \in Seq(Bytes)
  <2> HIDE DEF T
  <2> QED
    BY <1>1, FlattenTyped
<1>4. FlattenSeq(sent) = FlattenSeq(T) \o (text \o rest)
  <2>1. FlattenSeq(sent) = ((FlattenSeq(T) \o text) \o socket) \o network
    BY Zenon DEF Accounted, Texts
  <2> DEFINE F == FlattenSeq(T)
  <2>2. F \in Seq(Bytes)
    BY <1>3
  <2> HIDE DEF F
  <2>3. ((F \o text) \o socket) \o network = (F \o text) \o rest
    <3>1. F \o text \in Seq(Bytes)
      BY <1>1, <2>2
    <3> DEFINE g == F \o text
    <3>2. g \in Seq(Bytes) /\ rest = socket \o network
      BY <3>1
    <3> HIDE DEF g, rest
    <3>3. (g \o socket) \o network = g \o (socket \o network)
      BY <1>1, <3>2, ConcatAssoc
    <3> QED
      BY <3>2, <3>3, Zenon DEF g
  <2>4. (F \o text) \o rest = F \o (text \o rest)
    <3> HIDE DEF rest
    <3> QED
      BY <1>1, <2>2
  <2> QED
    BY <2>1, <2>3, <2>4 DEF F
<1>5. d # Len(sent)
  <2> SUFFICES ASSUME d = Len(sent) PROVE FALSE
    OBVIOUS
  <2>1. T = sent
    BY <1>1, <1>2
  <2> DEFINE F == FlattenSeq(T)
  <2>2. F \in Seq(Bytes) /\ F = F \o (text \o rest)
    BY <1>3, <1>4, <2>1
  <2> HIDE DEF F, rest
  <2>3. text \o rest \in Seq(Bytes) /\ Len(text \o rest) >= 1
    BY <1>1
  <2> QED
    BY <2>2, <2>3
<1>6. d \in 0..Len(sent) /\ d < Len(sent)
  BY <1>1, <1>5
<1>7. PICK t \in Seq(Bytes) : FlattenSeq(sent) = (FlattenSeq(T) \o sent[d + 1]) \o t
  <2> HIDE DEF d, T
  <2> QED
    <3>1. \E t \in Seq(Bytes) :
             FlattenSeq(sent) = (FlattenSeq(SubSeq(sent, 1, d)) \o sent[d + 1]) \o t
      BY <1>1, <1>6, FlattenSplitAt
    <3> QED
      BY <1>2, <3>1
<1>8. sent[d + 1] \o t = text \o rest
  <2> DEFINE F == FlattenSeq(T)
             m == sent[d + 1]
  <2>1. F \in Seq(Bytes) /\ m \in Seq(Bytes) /\ F \o (text \o rest) = (F \o m) \o t
    BY <1>1, <1>3, <1>4, <1>6, <1>7
  <2> HIDE DEF F, m, rest
  <2>2. (F \o m) \o t = F \o (m \o t)
    BY <2>1, ConcatAssoc
  <2>3. m \o t \in Seq(Bytes) /\ text \o rest \in Seq(Bytes)
    BY <1>1, <2>1
  <2> QED
    BY <2>1, <2>2, <2>3, ConcatCancel DEF m
<1> QED
  BY <1>6, <1>8 DEF Current

LEMMA NulFreeJoin ==
    ASSUME NEW a \in Seq(Bytes), NEW b \in Seq(Bytes)
    PROVE  NulFree(a \o b) <=> NulFree(a) /\ NulFree(b)
<1>1. /\ DOMAIN a = 1..Len(a) /\ DOMAIN b = 1..Len(b) /\ DOMAIN (a \o b) = 1..(Len(a) + Len(b))
      /\ Len(a) \in Nat /\ Len(b) \in Nat
      /\ \A i \in 1..Len(a) : (a \o b)[i] = a[i]
      /\ \A i \in 1..Len(b) : (a \o b)[Len(a) + i] = b[i]
  OBVIOUS
<1>2. ASSUME NulFree(a), NulFree(b), NEW i \in 1..(Len(a) + Len(b)) PROVE (a \o b)[i] # NUL
  <2>1. CASE i <= Len(a)
    BY <1>1, <1>2, <2>1 DEF NulFree
  <2>2. CASE i > Len(a)
    <3>1. i - Len(a) \in 1..Len(b) /\ Len(a) + (i - Len(a)) = i
      BY <1>1, <2>2
    <3> QED
      BY <1>1, <1>2, <3>1 DEF NulFree
  <2> QED
    BY <1>1, <2>1, <2>2
<1>3. NulFree(a) /\ NulFree(b) => NulFree(a \o b)
  BY <1>1, <1>2 DEF NulFree
<1>4. ASSUME NulFree(a \o b) PROVE NulFree(a) /\ NulFree(b)
  <2>1. \A i \in 1..Len(a) : i \in 1..(Len(a) + Len(b))
    BY <1>1
  <2>2. \A i \in 1..Len(b) : Len(a) + i \in 1..(Len(a) + Len(b))
    BY <1>1
  <2> QED
    BY <1>1, <1>4, <2>1, <2>2 DEF NulFree
<1> QED
  BY <1>3, <1>4

(* What SetBuf leaves in the memory begins with the text (Buffer).         *)
LEMMA WrittenIs ==
    ASSUME FramingAssumption, TypeOK, NEW t \in Seq(Bytes)
    PROVE  /\ Written(t) \in [1..Header -> Bytes]
           /\ \A i \in 1..Header : i <= Len(t) => Written(t)[i] = t[i]
<1>1. NUL \in Bytes
  BY DEF FramingAssumption, NUL, Bytes
<1>2. Len(t) \in Nat /\ \A i \in 1..Len(t) : t[i] \in Bytes
  OBVIOUS
<1>3. ASSUME NEW i \in 1..Header
      PROVE  /\ Written(t)[i] \in Bytes
             /\ i <= Len(t) => Written(t)[i] = t[i]
  <2>1. Written(t)[i] = IF i <= Len(t) THEN t[i] ELSE IF i = Len(t) + 1 THEN NUL ELSE memory[i]
    BY DEF Written
  <2>2. memory[i] \in Bytes
    BY DEF TypeOK
  <2> QED
    BY <1>1, <1>2, <2>1, <2>2
<1> QED
  BY <1>3 DEF Written

(* A text as long as a header has its header in memory, and no NUL in it.  *)
LEMMA CmdOfText ==
    ASSUME FramingAssumption, TypeOK, TextInMemory, Len(text) >= Header
    PROVE  Cmd(memory) # 1
<1>1. \A j \in 1..Header : j \in 1..Len(text) /\ memory[j] = text[j]
  BY Types DEF TextInMemory
<1>2. \A j \in 1..Header : memory[j] # NUL
  BY <1>1, Types
<1> QED
  BY <1>2, Types, HeaderIsNumbers

(* Once a whole header is there, it is that of the message it belongs to.  *)
LEMMA HeaderRead ==
    ASSUME FramingAssumption, FramingInv, whole, pc # "dead", receivedLength >= Header
    PROVE  /\ Current \in 1..Len(sent) /\ Current = Len(dispatched) + 1
           /\ Length(memory) = Length(sent[Current]) /\ Length(memory) = Len(sent[Current])
           /\ Cmd(memory) = Cmd(sent[Current])
           /\ \E t \in Seq(Bytes) : sent[Current] \o t = text \o (socket \o network)
<1>1. Len(text) >= Header /\ text # <<>>
  BY Types DEF FramingInv, Accounted
<1>2. /\ Len(dispatched) < Len(sent)
      /\ \E t \in Seq(Bytes) : sent[Current] \o t = text \o (socket \o network)
  BY <1>1, TextIsPrefix DEF FramingInv
<1>3. Current \in 1..Len(sent) /\ Current = Len(dispatched) + 1
  BY <1>2, Types DEF FramingInv, Current
<1> DEFINE m == sent[Current]
<1>4. m \in Seq(Bytes) /\ Len(m) >= Header /\ Length(m) = Len(m)
  BY <1>3, Types DEF FramingInv
<1>5. \A j \in 1..Header : memory[j] = m[j]
  <2>1. PICK t \in Seq(Bytes) : m \o t = text \o (socket \o network)
    BY <1>2
  <2> DEFINE rest == socket \o network
  <2>2. rest \in Seq(Bytes) /\ text \in Seq(Bytes) /\ Header \in Nat
    BY Types DEF FramingInv, TypeOK
  <2> HIDE DEF m, rest
  <2>3. ASSUME NEW j \in 1..Header PROVE m[j] = text[j] /\ memory[j] = text[j]
    <3>1. j \in 1..Len(m) /\ j \in 1..Len(text)
      BY <1>1, <1>4, <2>2
    <3>2. (m \o t)[j] = m[j] /\ (text \o rest)[j] = text[j]
      BY <1>4, <2>2, <3>1
    <3>3. memory[j] = text[j]
      BY <3>1 DEF FramingInv, TextInMemory
    <3> QED
      BY <2>1, <3>2, <3>3 DEF rest
  <2> QED
    BY <2>3
<1>6. Cmd(memory) = Cmd(m) /\ Length(memory) = Length(m)
  <2> HIDE DEF m
  <2> QED
    BY <1>4, <1>5, Types, SameHeader DEF FramingInv
<1> QED
  BY <1>2, <1>3, <1>4, <1>6

-----------------------------------------------------------------------------
LEMMA FramingInit == FramingAssumption /\ Init => FramingInv
<1> SUFFICES ASSUME FramingAssumption, Init PROVE FramingInv
  OBVIOUS
<1>1. Header \in Nat /\ NUL \in Bytes
  BY DEF FramingAssumption, Header, NUL, Bytes
<1>2. TypeOK
  <2>1. memory \in [1..Header -> Bytes]
    BY <1>1 DEF Init
  <2>2. /\ <<>> \in Seq(Bytes) /\ <<>> \in Seq(Bytes \ {NUL}) /\ <<>> \in Seq(Messages)
        /\ <<>> \in Seq([cmd : Int, text : Seq(Bytes \ {NUL})])
    OBVIOUS
  <2>3. Len(text) <= receivedLength
    BY DEF Init
  <2> QED
    BY <1>1, <2>1, <2>2, <2>3 DEF Init, TypeOK
<1>3. Texts(dispatched) = <<>>
  BY DEF Init, Texts
<1>4. Accounted
  BY <1>3, FlattenEmpty DEF Init, Accounted
<1>5. TextInMemory /\ NoNulUnderWay /\ FramesInOrder
  BY DEF Init, TextInMemory, NoNulUnderWay, FramesInOrder, NulFree
<1>6. InPart
  BY <1>1 DEF Init, InPart, InHeader
<1>7. StallsBetweenParts /\ NothingIsServed
  BY DEF Init, StallsBetweenParts, NothingIsServed
<1> QED
  BY <1>2, <1>4, <1>5, <1>6, <1>7 DEF FramingInv

(* A message more is sent: the one being received is still the same.       *)
LEMMA SendStep ==
    ASSUME FramingAssumption, FramingInv, NEW m \in Messages, Send(m)
    PROVE  FramingInv'
<1>1. /\ m \in Seq(Bytes) /\ sent \in Seq(Messages) /\ sent \in Seq(Seq(Bytes))
      /\ network \in Seq(Bytes) /\ socket \in Seq(Bytes) /\ text \in Seq(Bytes)
  BY Types DEF FramingAssumption, Bytes, FramingInv, TypeOK
<1>2. /\ Len(sent) \in Nat /\ sent' = Append(sent, m) /\ Len(sent') = Len(sent) + 1
      /\ sent' \in Seq(Messages)
      /\ \A i \in 1..Len(sent) : sent'[i] = sent[i]
  BY <1>1 DEF Send
<1>3. TypeOK'
  <2>1. network' \in Seq(Bytes)
    BY <1>1 DEF Send
  <2>2. whole' \in BOOLEAN
    BY DEF Send, FramingInv, TypeOK, NulFree
  <2> QED
    BY <1>2, <2>1, <2>2 DEF Send, FramingInv, TypeOK
<1>4. whole' => whole /\ NulFree(m)
  BY DEF Send
<1>5. NoNulUnderWay'
  BY <1>1, <1>4, NulFreeJoin DEF FramingInv, NoNulUnderWay, Send
<1>6. FramesInOrder'
  <2> SUFFICES ASSUME whole' PROVE /\ Len(dispatched) <= Len(sent')
                                   /\ \A i \in DOMAIN dispatched :
                                         dispatched[i] = [cmd |-> Cmd(sent'[i]), text |-> sent'[i]]
    BY DEF FramesInOrder, Send
  <2>1. /\ Len(dispatched) \in Nat /\ Len(dispatched) <= Len(sent)
        /\ DOMAIN dispatched = 1..Len(dispatched)
    BY <1>4, Types DEF FramingInv, FramesInOrder, TypeOK
  <2>2. \A i \in DOMAIN dispatched : i \in 1..Len(sent) /\ sent'[i] = sent[i]
    BY <1>2, <2>1
  <2>3. \A i \in DOMAIN dispatched : dispatched[i] = [cmd |-> Cmd(sent[i]), text |-> sent[i]]
    BY <1>4 DEF FramingInv, FramesInOrder
  <2> QED
    BY <1>2, <2>1, <2>2, <2>3
<1>7. Accounted'
  <2> SUFFICES ASSUME whole', pc # "dead"
               PROVE /\ FlattenSeq(sent') =
                           ((FlattenSeq(Texts(dispatched)) \o text) \o socket) \o (network \o m)
                     /\ receivedLength = Len(text)
    BY DEF Accounted, Send
  <2>1. FlattenSeq(sent') = FlattenSeq(sent) \o m
    BY <1>1, <1>2, FlattenAppend
  <2> DEFINE F == FlattenSeq(Texts(dispatched))
  <2>2. F \in Seq(Bytes)
    BY DispatchedTexts, FlattenTyped DEF FramingInv
  <2>3. FlattenSeq(sent) = ((F \o text) \o socket) \o network /\ receivedLength = Len(text)
    BY <1>4 DEF FramingInv, Accounted
  <2> HIDE DEF F
  <2> DEFINE G == (F \o text) \o socket
  <2>4. G \in Seq(Bytes)
    BY <1>1, <2>2
  <2> HIDE DEF G
  <2>5. (G \o network) \o m = G \o (network \o m)
    BY <1>1, <2>4
  <2> QED
    BY <2>1, <2>3, <2>5 DEF F, G
<1>8. InPart'
  <2>1. InHeader' <=> InHeader
    BY DEF InHeader, Send
  <2>2. Len(dispatched) \in Nat /\ Current' = Current /\ Current = Len(dispatched) + 1
    BY Types DEF Current, Send, FramingInv
  <2>3. InBody => InBody'
    <3> SUFFICES ASSUME InBody PROVE InBody'
      OBVIOUS
    <3>1. Current \in 1..Len(sent)
      BY <1>2, <2>2 DEF InBody
    <3>2. sent'[Current] = sent[Current] /\ Current <= Len(sent')
      BY <1>2, <3>1
    <3> QED
      BY <2>2, <3>2 DEF InBody, Send
  <2> QED
    BY <1>4, <2>1, <2>3 DEF FramingInv, InPart, Send
<1>9. TextInMemory' /\ StallsBetweenParts' /\ NothingIsServed'
  BY <1>4 DEF FramingInv, TextInMemory, StallsBetweenParts, NothingIsServed, Send
<1> QED
  BY <1>3, <1>5, <1>6, <1>7, <1>8, <1>9 DEF FramingInv

(* The steps that leave alone what has been sent, read and dispatched.     *)
LEMMA Untouched ==
    ASSUME FramingInv,
           UNCHANGED <<readLength, receivedLength, text, memory, sent, dispatched>>,
           whole' => whole
    PROVE  /\ TextInMemory' /\ FramesInOrder' /\ NothingIsServed'
           /\ (InHeader' <=> InHeader) /\ (InBody' <=> InBody)
           /\ Texts(dispatched)' = Texts(dispatched)
<1>1. TextInMemory' /\ NothingIsServed'
  BY DEF FramingInv, TextInMemory, NothingIsServed
<1>2. FramesInOrder'
  BY DEF FramingInv, FramesInOrder
<1>3. (InHeader' <=> InHeader) /\ (InBody' <=> InBody)
  BY DEF InHeader, InBody, Current
<1>4. Texts(dispatched)' = Texts(dispatched)
  BY DEF Texts
<1> QED
  BY <1>1, <1>2, <1>3, <1>4

LEMMA ConcatAssoc4 ==
    ASSUME NEW B, NEW a \in Seq(B), NEW b \in Seq(B), NEW c \in Seq(B), NEW d \in Seq(B)
    PROVE  (a \o b) \o (c \o d) = (a \o (b \o c)) \o d
<1> DEFINE x == a \o b
           y == c \o d
<1>1. x \in Seq(B)
  OBVIOUS
<1>2. x \o (c \o d) = (x \o c) \o d
  <2> HIDE DEF x
  <2> QED
    BY <1>1
<1>3. x \o c = a \o (b \o c)
  OBVIOUS
<1> QED
  BY <1>2, <1>3

(* The same with Cat, which hides what is put together.                    *)
LEMMA BytesAssoc ==
    \A a, b, c, d \in Seq(Bytes) : Cat(Cat(a, b), Cat(c, d)) = Cat(Cat(a, Cat(b, c)), d)
BY ConcatAssoc4 DEF Cat

(* The network moves a byte or more on to the socket.                      *)
LEMMA ArriveStep ==
    ASSUME FramingAssumption, FramingInv, NEW k \in 1..Len(network), Arrive(k)
    PROVE  FramingInv'
<1> DEFINE a == SubSeq(network, 1, k)
           b == SubSeq(network, k + 1, Len(network))
<1>1. /\ network \in Seq(Bytes) /\ socket \in Seq(Bytes) /\ text \in Seq(Bytes)
      /\ k \in 0..Len(network)
  BY Types DEF FramingInv, TypeOK
<1>2. a \in Seq(Bytes) /\ b \in Seq(Bytes) /\ network = a \o b
  BY <1>1, InTwo
<1>3. socket' = socket \o a /\ network' = b
  BY DEF Arrive
<1> HIDE DEF a, b
<1>4. TypeOK'
  <2>1. socket' \in Seq(Bytes) /\ network' \in Seq(Bytes)
    BY <1>1, <1>2, <1>3
  <2> QED
    BY <2>1 DEF Arrive, FramingInv, TypeOK
<1>5. NoNulUnderWay'
  <2>1. NulFree(network) => NulFree(a) /\ NulFree(b)
    BY <1>2, NulFreeJoin
  <2>2. NulFree(socket) /\ NulFree(a) => NulFree(socket')
    BY <1>1, <1>2, <1>3, NulFreeJoin
  <2> QED
    BY <1>3, <2>1, <2>2 DEF FramingInv, NoNulUnderWay, Arrive
<1>6. /\ TextInMemory' /\ FramesInOrder' /\ NothingIsServed'
      /\ (InHeader' <=> InHeader) /\ (InBody' <=> InBody)
      /\ Texts(dispatched)' = Texts(dispatched)
  BY Untouched DEF Arrive
<1>7. Accounted'
  <2> DEFINE F == FlattenSeq(Texts(dispatched))
  <2>1. F \in Seq(Bytes)
    BY DispatchedTexts, FlattenTyped DEF FramingInv
  <2>2. (((F \o text) \o socket) \o network) = ((F \o text) \o socket') \o network'
    <3> HIDE DEF F
    <3> DEFINE G == F \o text
    <3>1. G \in Seq(Bytes)
      BY <1>1, <2>1
    <3> HIDE DEF G
    <3>2. (G \o socket) \o (a \o b) = (G \o (socket \o a)) \o b
      <4>1. G \in Seq(Bytes) /\ socket \in Seq(Bytes) /\ a \in Seq(Bytes) /\ b \in Seq(Bytes)
        BY <1>1, <1>2, <3>1
      <4>2. Cat(Cat(G, socket), Cat(a, b)) = Cat(Cat(G, Cat(socket, a)), b)
        BY <4>1, BytesAssoc
      <4> QED
        BY <4>2 DEF Cat
    <3> QED
      BY <1>2, <1>3, <3>2 DEF G
  <2>3. whole /\ pc # "dead" =>
            FlattenSeq(sent) = ((F \o text) \o socket) \o network /\ receivedLength = Len(text)
    BY DEF FramingInv, Accounted
  <2>4. F' = F
    BY <1>6
  <2> QED
    BY <2>2, <2>3, <2>4 DEF Accounted, Arrive
<1>8. InPart' /\ StallsBetweenParts'
  BY <1>6 DEF FramingInv, InPart, StallsBetweenParts, Arrive
<1> QED
  BY <1>4, <1>5, <1>6, <1>7, <1>8 DEF FramingInv

(* HangUp, ArriveEnd, Poll and Close, which move no byte.                  *)
LEMMA QuietStep ==
    ASSUME FramingAssumption, FramingInv, HangUp \/ ArriveEnd \/ Poll \/ Close
    PROVE  FramingInv'
<1>1. /\ UNCHANGED <<network, socket, readLength, receivedLength, text, memory, sent,
                     dispatched, whole>>
      /\ hungUp' \in BOOLEAN /\ eof' \in BOOLEAN /\ event' \in BOOLEAN
      /\ pc' \in {"idle", "reading", "closed", "dead"}
      /\ pc' # "dead" => pc # "dead"
      /\ pc' = "idle" => pc = "idle" /\ (~ event' => ~ event /\ eof' = eof)
  BY DEF HangUp, ArriveEnd, Poll, Close, channel, FramingInv, TypeOK
<1>2. TypeOK'
  BY <1>1 DEF FramingInv, TypeOK
<1>3. /\ TextInMemory' /\ FramesInOrder' /\ NothingIsServed'
      /\ (InHeader' <=> InHeader) /\ (InBody' <=> InBody)
      /\ Texts(dispatched)' = Texts(dispatched)
  BY <1>1, Untouched
<1>4. NoNulUnderWay'
  BY <1>1 DEF FramingInv, NoNulUnderWay
<1>5. Accounted'
  BY <1>1, <1>3 DEF FramingInv, Accounted
<1>6. InPart' /\ StallsBetweenParts'
  BY <1>1, <1>3 DEF FramingInv, InPart, StallsBetweenParts
<1> QED
  BY <1>2, <1>3, <1>4, <1>5, <1>6 DEF FramingInv

(* What a call of read takes.                                              *)
LEMMA Taken ==
    ASSUME FramingAssumption, TypeOK, readLength > 0, socket # <<>>
    PROVE  LET n == Min({ReadSize, readLength, Len(socket)}) IN
           n \in 1..Len(socket) /\ n <= readLength
<1> DEFINE T == {ReadSize, readLength, Len(socket)}
           n == Min(T)
<1>1. /\ ReadSize \in Nat /\ ReadSize >= 1 /\ readLength \in Nat /\ readLength >= 1
      /\ Len(socket) \in Nat /\ Len(socket) >= 1
  BY Types DEF FramingAssumption, TypeOK
<1>2. T \subseteq Nat /\ T # {} /\ \A x \in T : x >= 1
  BY <1>1
<1>3. n \in T /\ \A x \in T : n <= x
  <2> HIDE DEF T
  <2> QED
    BY <1>2, MinIs
<1>4. n >= 1 /\ n \in Nat /\ n <= readLength /\ n <= Len(socket)
  <2> HIDE DEF n
  <2> QED
    BY <1>1, <1>2, <1>3
<1> QED
  BY <1>1, <1>4

(* Bytes go from the socket to the end of the text.                        *)
LEMMA ReadStep ==
    ASSUME FramingAssumption, FramingInv, Read
    PROVE  FramingInv'
<1> DEFINE n == Min({ReadSize, readLength, Len(socket)})
           a == SubSeq(socket, 1, n)
           b == SubSeq(socket, n + 1, Len(socket))
<1>1. /\ network \in Seq(Bytes) /\ socket \in Seq(Bytes) /\ text \in Seq(Bytes)
      /\ text \in Seq(Bytes \ {NUL}) /\ Len(text) <= receivedLength
      /\ readLength \in Nat /\ receivedLength \in Nat
  BY Types DEF FramingInv, TypeOK
<1>2. n \in 1..Len(socket) /\ n <= readLength /\ n \in Nat
  BY Taken DEF FramingInv, Read
<1>3. /\ text' = text \o Cut(a) /\ memory' = Written(text \o Cut(a)) /\ socket' = b
      /\ readLength' = readLength - n /\ receivedLength' = receivedLength + n
  BY Zenon DEF Read, AppendText
<1> HIDE DEF n
<1>0. UNCHANGED <<network, hungUp, eof, event, pc, sent, dispatched, whole>> /\ pc = "reading"
  BY Zenon DEF Read
<1>4. a \in Seq(Bytes) /\ b \in Seq(Bytes) /\ socket = a \o b /\ Len(a) = n
  BY <1>1, <1>2, InTwo
<1> HIDE DEF a, b
<1> DEFINE c == Cut(a)
<1>5. c \in Seq(Bytes \ {NUL}) /\ Len(c) <= n /\ (NulFree(a) => c = a)
  <2>1. a \in Seq(Int)
    BY <1>4 DEF FramingAssumption, Bytes
  <2>2. PICK k \in 0..Len(a) : c = SubSeq(a, 1, k)
    BY <2>1, CutIsNulFree
  <2>3. c \in Seq(Bytes) /\ Len(c) = k
    BY <1>4, <2>2, InTwo
  <2>4. NulFree(c)
    BY <2>1, CutIsNulFree
  <2>5. NulFree(a) => c = a
    BY <2>1, CutPlain
  <2> HIDE DEF c
  <2>6. c \in Seq(Bytes \ {NUL})
    BY <2>3, <2>4 DEF NulFree
  <2> QED
    BY <1>4, <2>3, <2>5, <2>6
<1> HIDE DEF c
<1>6. /\ text' = text \o c /\ memory' = Written(text \o c) /\ c \in Seq(Bytes)
      /\ text \o c \in Seq(Bytes) /\ text \o c \in Seq(Bytes \ {NUL})
      /\ Len(text \o c) = Len(text) + Len(c) /\ Len(c) \in Nat
  BY <1>1, <1>3, <1>5 DEF c
<1>7. TypeOK'
  <2>1. memory' \in [1..Header -> Bytes]
    BY <1>6, WrittenIs DEF FramingInv
  <2>2. Len(text') <= receivedLength' /\ readLength' \in Nat /\ receivedLength' \in Nat
    BY <1>1, <1>2, <1>3, <1>5, <1>6
  <2> QED
    BY <1>3, <1>4, <1>6, <2>1, <2>2 DEF FramingInv, TypeOK, Read
<1>8. TextInMemory'
  <2>1. \A i \in 1..Header : i <= Len(text \o c) => Written(text \o c)[i] = (text \o c)[i]
    BY <1>6, WrittenIs DEF FramingInv
  <2>2. Header' = Header
    BY DEF Header
  <2> QED
    BY <1>6, <2>1, <2>2 DEF TextInMemory
<1>9. whole => NulFree(a) /\ NulFree(b) /\ c = a
  <2>1. NulFree(socket) => NulFree(a) /\ NulFree(b)
    BY <1>4, NulFreeJoin
  <2> QED
    BY <1>5, <2>1 DEF FramingInv, NoNulUnderWay
<1>10. NoNulUnderWay'
  <2>1. whole' = whole /\ network' = network /\ socket' = b /\ pc' = pc
    BY <1>0, <1>3
  <2> QED
    BY <1>9, <2>1 DEF FramingInv, NoNulUnderWay
<1>11. FramesInOrder' /\ NothingIsServed' /\ Texts(dispatched)' = Texts(dispatched)
  BY DEF Read, FramingInv, FramesInOrder, NothingIsServed, Texts
<1>12. Accounted'
  <2> SUFFICES ASSUME whole, pc # "dead"
               PROVE /\ FlattenSeq(sent) =
                           ((FlattenSeq(Texts(dispatched)) \o (text \o a)) \o b) \o network
                     /\ receivedLength' = Len(text')
    <3>1. /\ whole' = whole /\ sent' = sent /\ network' = network /\ socket' = b
          /\ pc # "dead"
      BY <1>0, <1>3
    <3>2. whole => text' = text \o a
      BY <1>6, <1>9
    <3> QED
      BY <1>11, <3>1, <3>2 DEF Accounted
  <2> DEFINE F == FlattenSeq(Texts(dispatched))
  <2>1. F \in Seq(Bytes)
    BY DispatchedTexts, FlattenTyped DEF FramingInv
  <2>2. FlattenSeq(sent) = ((F \o text) \o (a \o b)) \o network /\ receivedLength = Len(text)
    BY <1>4 DEF FramingInv, Accounted
  <2> HIDE DEF F
  <2>3. (F \o text) \o (a \o b) = (F \o (text \o a)) \o b
    <3>1. F \in Seq(Bytes) /\ text \in Seq(Bytes) /\ a \in Seq(Bytes) /\ b \in Seq(Bytes)
      BY <1>1, <1>4, <2>1
    <3>2. Cat(Cat(F, text), Cat(a, b)) = Cat(Cat(F, Cat(text, a)), b)
      BY <3>1, BytesAssoc
    <3> QED
      BY <3>2 DEF Cat
  <2>4. receivedLength' = Len(text')
    BY <1>1, <1>3, <1>4, <1>6, <1>9, <2>2
  <2> QED
    BY <2>2, <2>3, <2>4 DEF F
<1>13. InPart'
  <2>1. Header \in Nat
    BY Types DEF FramingInv
  <2>2. receivedLength' + readLength' = receivedLength + readLength
        /\ receivedLength' >= receivedLength
    BY <1>1, <1>2, <1>3
  <2>3. InHeader' <=> InHeader
    BY <2>2 DEF InHeader
  <2>4. InBody => InBody'
    BY <1>1, <1>2, <1>3, <2>1, <2>2 DEF InBody, Current, Read
  <2> QED
    BY <1>0, <2>3, <2>4 DEF FramingInv, InPart, Read
<1>14. StallsBetweenParts'
  BY DEF Read, StallsBetweenParts
<1> QED
  BY <1>7, <1>8, <1>10, <1>11, <1>12, <1>13, <1>14 DEF FramingInv

(* Business looks at the header only if it has all of it, as long as all   *)
(* is whole.                                                               *)
LEMMA ReceivedWhole ==
    ASSUME FramingAssumption, FramingInv, Received
    PROVE  /\ whole' => whole /\ receivedLength >= Header
           /\ whole' \in BOOLEAN /\ pc # "dead"
BY DEF Received, FramingInv, TypeOK

(* A message is complete: the text is the whole of it.                     *)
LEMMA MessageComplete ==
    ASSUME FramingAssumption, FramingInv, whole, pc # "dead", receivedLength >= Header,
           receivedLength = Length(memory)
    PROVE  /\ Current \in 1..Len(sent) /\ Current = Len(dispatched) + 1
           /\ text = sent[Current] /\ Cmd(memory) = Cmd(sent[Current])
<1> DEFINE m == sent[Current]
           rest == socket \o network
<1>1. /\ Current \in 1..Len(sent) /\ Current = Len(dispatched) + 1
      /\ Length(memory) = Len(m) /\ Cmd(memory) = Cmd(m)
  BY HeaderRead
<1>2. PICK t \in Seq(Bytes) : m \o t = text \o rest
  BY HeaderRead
<1>3. m \in Seq(Bytes) /\ text \in Seq(Bytes) /\ rest \in Seq(Bytes)
  <2>1. m \in Seq(Bytes) /\ text \in Seq(Bytes)
    BY <1>1, Types DEF FramingInv
  <2>2. socket \in Seq(Bytes) /\ network \in Seq(Bytes)
    BY DEF FramingInv, TypeOK
  <2>3. rest \in Seq(Bytes)
    BY <2>2
  <2> QED
    BY <2>1, <2>3
<1>4. Len(text) = Len(m)
  BY <1>1 DEF FramingInv, Accounted
<1> HIDE DEF m, rest
<1>5. ASSUME NEW i \in 1..Len(m) PROVE m[i] = text[i]
  <2>1. (m \o t)[i] = m[i] /\ (text \o rest)[i] = text[i]
    BY <1>3, <1>4
  <2> QED
    BY <1>2, <2>1
<1>6. m = text
  BY <1>3, <1>4, <1>5
<1> QED
  BY <1>1, <1>6 DEF m

(* A message that is complete goes to the thread pool, and the buffer      *)
(* starts over: the stream is cut where one message ends.                  *)
LEMMA DispatchStep ==
    ASSUME FramingAssumption, FramingInv, Dispatch
    PROVE  FramingInv'
<1> DEFINE entry == [cmd |-> Cmd(memory), text |-> text]
<1>1. /\ Received /\ receivedLength = Length(memory)
      /\ dispatched' = Append(dispatched, entry)
      /\ UNCHANGED <<network, hungUp, socket, eof, event, sent>>
  BY DEF Dispatch, channel
<1>2. \/ pc' = "idle" /\ Reset
      \/ /\ pc' = "dead"
         /\ UNCHANGED <<readLength, receivedLength, text, memory>>
  BY DEF Dispatch
<1>3. /\ whole' => whole /\ receivedLength >= Header
      /\ whole' \in BOOLEAN /\ pc # "dead"
  BY <1>1, ReceivedWhole
<1>4. /\ text \in Seq(Bytes) /\ text \in Seq(Bytes \ {NUL}) /\ Cmd(memory) \in Int
      /\ Header \in Nat /\ sent \in Seq(Messages) /\ socket \in Seq(Bytes)
      /\ network \in Seq(Bytes) /\ Len(text) \in Nat
  BY Types DEF FramingInv, TypeOK
<1>5. entry \in [cmd : Int, text : Seq(Bytes \ {NUL})]
  BY <1>4
<1>6. /\ dispatched \in Seq([cmd : Int, text : Seq(Bytes \ {NUL})])
      /\ dispatched' \in Seq([cmd : Int, text : Seq(Bytes \ {NUL})])
      /\ Len(dispatched) \in Nat /\ Len(dispatched') = Len(dispatched) + 1
      /\ DOMAIN dispatched = 1..Len(dispatched) /\ DOMAIN dispatched' = 1..(Len(dispatched) + 1)
      /\ \A i \in 1..Len(dispatched) : dispatched'[i] = dispatched[i]
      /\ dispatched'[Len(dispatched) + 1] = entry
  <2>1. dispatched \in Seq([cmd : Int, text : Seq(Bytes \ {NUL})])
    BY DEF FramingInv, TypeOK
  <2> HIDE DEF entry
  <2> QED
    BY <1>1, <1>5, <2>1
<1>7. /\ <<>> \in Seq(Bytes) /\ <<>> \in Seq(Bytes \ {NUL})
      /\ Written(<<>>) \in [1..Header -> Bytes] /\ Len(<<>>) = 0
  <2>1. <<>> \in Seq(Bytes) /\ <<>> \in Seq(Bytes \ {NUL})
    OBVIOUS
  <2>2. Written(<<>>) \in [1..Header -> Bytes]
    BY <2>1, WrittenIs DEF FramingInv
  <2> QED
    BY <2>1, <2>2
<1>8. TypeOK'
  <2>1. CASE pc' = "idle" /\ Reset
    BY <1>1, <1>3, <1>4, <1>6, <1>7, <2>1 DEF Reset, FramingInv, TypeOK
  <2>2. CASE pc' = "dead" /\ UNCHANGED <<readLength, receivedLength, text, memory>>
    BY <1>1, <1>3, <1>4, <1>6, <2>2 DEF FramingInv, TypeOK
  <2> QED
    BY <1>2, <2>1, <2>2
<1>9. TextInMemory'
  <2>1. CASE Reset
    <3>1. Len(text') = 0
      BY <1>7, <2>1 DEF Reset
    <3> QED
      BY <3>1, <1>4 DEF TextInMemory, Header
  <2>2. CASE UNCHANGED <<text, memory>>
    BY <2>2 DEF FramingInv, TextInMemory, Header
  <2> QED
    BY <1>2, <2>1, <2>2
<1>10. whole' => /\ Current \in 1..Len(sent) /\ Current = Len(dispatched) + 1
                 /\ text = sent[Current] /\ Cmd(memory) = Cmd(sent[Current])
  BY <1>1, <1>3, MessageComplete
<1>11. NoNulUnderWay'
  BY <1>1, <1>3 DEF FramingInv, NoNulUnderWay
<1>12. FramesInOrder'
  <2> SUFFICES ASSUME whole'
               PROVE /\ Len(dispatched') <= Len(sent)
                     /\ \A i \in DOMAIN dispatched' :
                           dispatched'[i] = [cmd |-> Cmd(sent[i]), text |-> sent[i]]
    BY <1>1 DEF FramesInOrder
  <2>1. Len(dispatched') <= Len(sent)
    BY <1>6, <1>10
  <2>2. ASSUME NEW i \in 1..(Len(dispatched) + 1)
        PROVE  dispatched'[i] = [cmd |-> Cmd(sent[i]), text |-> sent[i]]
    <3>1. CASE i = Len(dispatched) + 1
      BY <1>6, <1>10, <3>1
    <3>2. CASE i \in 1..Len(dispatched)
      BY <1>3, <1>6, <3>2 DEF FramingInv, FramesInOrder
    <3> QED
      BY <1>6, <3>1, <3>2
  <2> QED
    BY <1>6, <2>1, <2>2
<1>13. Texts(dispatched)' = Append(Texts(dispatched), text)
  <2> DEFINE T == Texts(dispatched)
             U == Texts(dispatched')
  <2>1. T \in Seq(Seq(Bytes)) /\ Len(T) = Len(dispatched)
    BY DispatchedTexts DEF FramingInv
  <2>2. \A i \in 1..Len(dispatched) : T[i] = dispatched[i].text
    BY <1>6 DEF Texts
  <2>3. /\ DOMAIN U = 1..(Len(dispatched) + 1)
        /\ \A i \in 1..(Len(dispatched) + 1) : U[i] = dispatched'[i].text
        /\ U = [i \in 1..(Len(dispatched) + 1) |-> U[i]]
    BY <1>6 DEF Texts
  <2> HIDE DEF T, U
  <2> DEFINE V == Append(T, text)
  <2>4. V \in Seq(Seq(Bytes)) /\ Len(V) = Len(dispatched) + 1
    BY <1>4, <2>1
  <2>5. ASSUME NEW i \in 1..(Len(dispatched) + 1) PROVE U[i] = V[i]
    <3>1. CASE i = Len(dispatched) + 1
      <4>1. V[i] = text
        BY <1>4, <2>1, <3>1
      <4> QED
        BY <1>6, <2>3, <3>1, <4>1
    <3>2. CASE i \in 1..Len(dispatched)
      <4>1. V[i] = T[i]
        BY <1>4, <2>1, <3>2
      <4> QED
        BY <1>6, <2>2, <2>3, <3>2, <4>1
    <3>3. i = Len(dispatched) + 1 \/ i \in 1..Len(dispatched)
      BY <1>6
    <3> QED
      BY <3>1, <3>2, <3>3, Zenon
  <2> HIDE DEF V
  <2>6. V = [i \in 1..(Len(dispatched) + 1) |-> V[i]]
    <3>1. Len(dispatched) + 1 \in Nat
      BY <1>6
    <3> QED
      BY <2>4, <3>1
  <2>7. U = V
    BY <2>3, <2>5, <2>6
  <2> QED
    BY <2>7 DEF T, U, V
<1>14. Accounted'
  <2> SUFFICES ASSUME whole', pc' # "dead"
               PROVE /\ FlattenSeq(sent) =
                           ((FlattenSeq(Append(Texts(dispatched), text)) \o <<>>) \o socket)
                               \o network
                     /\ receivedLength' = Len(text') /\ text' = <<>>
    BY <1>1, <1>13 DEF Accounted
  <2>1. receivedLength' = Len(text') /\ text' = <<>>
    BY <1>2, <1>7 DEF Reset
  <2> DEFINE T == Texts(dispatched)
             F == FlattenSeq(T)
             G == FlattenSeq(Append(T, text))
  <2>2. T \in Seq(Seq(Bytes))
    BY DispatchedTexts DEF FramingInv
  <2>3. F \in Seq(Bytes) /\ G = F \o text
    <3> HIDE DEF T
    <3> QED
      BY <1>4, <2>2, FlattenAppend, FlattenTyped
  <2>4. FlattenSeq(sent) = ((F \o text) \o socket) \o network
    BY <1>3 DEF FramingInv, Accounted
  <2> HIDE DEF F, G
  <2>5. G \in Seq(Bytes)
    BY <1>4, <2>3
  <2>6. G \o <<>> = G
    BY <2>5
  <2> QED
    BY <2>1, <2>3, <2>4, <2>6 DEF G
<1>15. InPart'
  <2>1. pc' # "dead" => InHeader' /\ receivedLength' = 0
    BY <1>2, <1>4 DEF InHeader, Reset, Header
  <2> QED
    BY <2>1 DEF InPart
<1>16. StallsBetweenParts'
  BY <1>2 DEF StallsBetweenParts, Reset
<1>17. NothingIsServed'
  <2> SUFFICES ASSUME NEW i \in 1..(Len(dispatched) + 1),
                      dispatched'[i].cmd \in 1..(NON_CLIENT_FUNCTION_NUM - 1)
               PROVE  Len(dispatched'[i].text) < Header
    BY <1>6 DEF NothingIsServed, Header, NON_CLIENT_FUNCTION_NUM
  <2>1. CASE i = Len(dispatched) + 1
    <3>1. Cmd(memory) = 1 /\ dispatched'[i].text = text
      BY <1>4, <1>6, <2>1 DEF NON_CLIENT_FUNCTION_NUM
    <3>2. ~ (Len(text) >= Header)
      BY <1>4, <3>1, CmdOfText DEF FramingInv
    <3> QED
      BY <1>4, <3>1, <3>2
  <2>2. CASE i \in 1..Len(dispatched)
    BY <1>6, <2>2 DEF FramingInv, NothingIsServed
  <2> QED
    BY <1>6, <2>1, <2>2
<1> QED
  BY <1>8, <1>9, <1>11, <1>12, <1>14, <1>15, <1>16, <1>17 DEF FramingInv

(* The rest of the message is asked for: from now on it is its body that   *)
(* is read.                                                                *)
LEMMA AskForRestStep ==
    ASSUME FramingAssumption, FramingInv, AskForRest
    PROVE  FramingInv'
<1>1. /\ Received /\ receivedLength < Length(memory)
      /\ readLength' = Length(memory) - receivedLength /\ pc' = "idle"
      /\ UNCHANGED <<network, hungUp, socket, eof, event, receivedLength, text, memory, sent,
                     dispatched>>
  BY DEF AskForRest, channel
<1>2. /\ whole' => whole /\ receivedLength >= Header
      /\ whole' \in BOOLEAN /\ pc # "dead"
  BY <1>1, ReceivedWhole
<1>3. Length(memory) \in Int /\ receivedLength \in Nat /\ readLength \in Nat
  BY Types DEF FramingInv, TypeOK
<1>4. TypeOK'
  <2>1. readLength' \in Nat
    BY <1>1, <1>3
  <2> QED
    BY <1>1, <1>2, <2>1 DEF FramingInv, TypeOK
<1>5. TextInMemory' /\ NothingIsServed'
  BY <1>1 DEF FramingInv, TextInMemory, NothingIsServed
<1>6. NoNulUnderWay'
  BY <1>1, <1>2 DEF FramingInv, NoNulUnderWay
<1>7. FramesInOrder'
  BY <1>1, <1>2 DEF FramingInv, FramesInOrder
<1>8. Accounted'
  BY <1>1, <1>2 DEF FramingInv, Accounted, Texts
<1>9. InPart'
  <2> SUFFICES ASSUME whole' PROVE InBody'
    BY DEF InPart
  <2>1. whole /\ pc # "dead" /\ receivedLength >= Header
    BY <1>2
  <2>2. Current \in 1..Len(sent) /\ Length(memory) = Length(sent[Current])
    BY <2>1, HeaderRead
  <2>3. Current' = Current /\ Header' = Header
    BY <1>1 DEF Current, Header
  <2>4. receivedLength' + readLength' = Length(memory)
    BY <1>1, <1>3
  <2>5. Current <= Len(sent)
    BY <2>2
  <2> QED
    BY <1>1, <2>1, <2>2, <2>3, <2>4, <2>5 DEF InBody
<1>10. StallsBetweenParts'
  <2> SUFFICES ASSUME whole', ~ event, socket # <<>> \/ eof PROVE receivedLength = Header
    BY <1>1 DEF StallsBetweenParts
  <2>1. whole /\ pc # "dead" /\ receivedLength >= Header /\ readLength = 0
    BY <1>1, <1>2 DEF Received
  <2>2. CASE InHeader
    BY <1>3, <2>1, <2>2, Types DEF InHeader, FramingInv
  <2>3. CASE InBody
    <3>1. Length(memory) = Length(sent[Current])
      BY <2>1, HeaderRead
    <3> QED
      BY <1>1, <1>3, <2>1, <2>3, <3>1 DEF InBody
  <2> QED
    BY <2>1, <2>2, <2>3 DEF FramingInv, InPart
<1> QED
  BY <1>4, <1>5, <1>6, <1>7, <1>8, <1>9, <1>10 DEF FramingInv

(* What is read is never more than the message, as long as all is whole.   *)
LEMMA NotBeyond ==
    ASSUME FramingAssumption, FramingInv, whole, pc # "dead", receivedLength >= Header
    PROVE  receivedLength + readLength <= Length(memory)
<1>1. Length(memory) = Length(sent[Current]) /\ Length(memory) = Len(sent[Current])
      /\ Current \in 1..Len(sent)
  BY HeaderRead
<1>2. Len(sent[Current]) >= Header
  BY <1>1, Types DEF FramingInv
<1>3. receivedLength \in Nat /\ readLength \in Nat /\ Header \in Nat /\ Length(memory) \in Int
  BY Types DEF FramingInv, TypeOK
<1>4. CASE InHeader
  BY <1>1, <1>2, <1>3, <1>4 DEF InHeader
<1>5. CASE InBody
  BY <1>1, <1>3, <1>5 DEF InBody
<1> QED
  BY <1>4, <1>5 DEF FramingInv, InPart

(* Of a stream that is whole no header says less than it should.           *)
LEMMA SomethingWrongStep ==
    ASSUME FramingAssumption, FramingInv, SomethingWrong
    PROVE  FramingInv'
<1>1. /\ Received /\ receivedLength > Length(memory) /\ pc' = "idle"
      /\ UNCHANGED <<network, hungUp, socket, eof, event, readLength, receivedLength, text,
                     memory, sent, dispatched>>
  BY DEF SomethingWrong, channel
<1>2. ~ whole' /\ whole' \in BOOLEAN
  <2>1. receivedLength \in Nat /\ readLength \in Nat /\ Length(memory) \in Int
    BY Types DEF FramingInv, TypeOK
  <2>2. pc # "dead"
    BY <1>1, ReceivedWhole
  <2>3. ~ (whole /\ receivedLength >= Header)
    BY <1>1, <2>1, <2>2, NotBeyond
  <2> QED
    BY <1>1, <2>3, ReceivedWhole
<1>3. TypeOK'
  BY <1>1, <1>2 DEF FramingInv, TypeOK
<1>4. TextInMemory' /\ NothingIsServed'
  BY <1>1 DEF FramingInv, TextInMemory, NothingIsServed
<1> QED
  BY <1>2, <1>3, <1>4
     DEF FramingInv, NoNulUnderWay, FramesInOrder, Accounted, InPart, StallsBetweenParts

LEMMA FramingStep == FramingAssumption /\ FramingInv /\ [Next]_vars => FramingInv'
<1> SUFFICES ASSUME FramingAssumption, FramingInv, [Next]_vars PROVE FramingInv'
  OBVIOUS
<1>1. CASE \E m \in Messages : Send(m)
  BY <1>1, SendStep
<1>2. CASE \E k \in 1..Len(network) : Arrive(k)
  BY <1>2, ArriveStep
<1>3. CASE HangUp \/ ArriveEnd \/ Poll \/ Close
  BY <1>3, QuietStep
<1>4. CASE Read
  BY <1>4, ReadStep
<1>5. CASE Dispatch
  BY <1>5, DispatchStep
<1>6. CASE AskForRest
  BY <1>6, AskForRestStep
<1>7. CASE SomethingWrong
  BY <1>7, SomethingWrongStep
<1>8. CASE UNCHANGED vars
  <2>1. UNCHANGED <<network, hungUp, socket, eof, event, pc, readLength, receivedLength, text,
                    memory, sent, dispatched, whole>>
    BY <1>8 DEF vars, channel
  <2>2. TypeOK'
    BY <2>1 DEF FramingInv, TypeOK
  <2>3. /\ TextInMemory' /\ FramesInOrder' /\ NothingIsServed'
        /\ (InHeader' <=> InHeader) /\ (InBody' <=> InBody)
        /\ Texts(dispatched)' = Texts(dispatched)
    BY <2>1, Untouched
  <2> QED
    BY <2>1, <2>2, <2>3 DEF FramingInv, NoNulUnderWay, Accounted, InPart, StallsBetweenParts
<1> QED
  BY <1>1, <1>2, <1>3, <1>4, <1>5, <1>6, <1>7, <1>8 DEF Next, Reactor

(* FramingInv is inductive: what is dispatched, in the buffer, in the      *)
(* socket and on the wire, joined, is all that was sent.                   *)
THEOREM FramingInvariant == Spec => []FramingInv
<1>1. Init => FramingInv
  BY FramingInit, FramingAssumption
<1>2. FramingInv /\ [Next]_vars => FramingInv'
  BY FramingStep, FramingAssumption
<1> QED
  BY <1>1, <1>2, PTL DEF Spec

(* The text holds no NUL, every number is one, and the connection is in    *)
(* one of its states.                                                      *)
THEOREM FramingTypeOK == Spec => []TypeOK
<1>1. FramingInv => TypeOK
  BY DEF FramingInv
<1> QED
  BY <1>1, FramingInvariant, PTL

(* As long as no NUL was sent and every header was read in one go, the     *)
(* server dispatches the messages that the client sent, each of them       *)
(* whole, in order and once (Connection::Business).                        *)
THEOREM FramesAreInOrder == Spec => []FramesInOrder
<1>1. FramingInv => FramesInOrder
  BY DEF FramingInv
<1> QED
  BY <1>1, FramingInvariant, PTL

(* As long as all is whole the running reactor never reads beyond the      *)
(* message it is in, never loses a byte and never waits with nothing asked *)
(* for (Connection::ReadNonBlocking).                                      *)
THEOREM NeverBeyond == Spec => []NothingBeyond
<1>1. FramingInv => NothingBeyond
  <2> SUFFICES ASSUME FramingInv, whole, pc # "dead"
               PROVE  /\ ~ Deaf
                      /\ receivedLength > 0 =>
                             receivedLength + readLength \in {Header, Length(sent[Current])}
    BY DEF NothingBeyond, FramingInv, Accounted
  <2>1. receivedLength \in Nat /\ readLength \in Nat /\ Header \in Nat /\ Length(memory) \in Int
    BY Types, FramingAssumption DEF FramingInv, TypeOK
  <2>2. receivedLength + readLength \in {Header, Length(sent[Current])}
    BY DEF FramingInv, InPart, InHeader, InBody
  <2>3. ASSUME readLength = 0 PROVE receivedLength <= Length(memory)
    <3>1. receivedLength >= Header
      BY <2>1, <2>3 DEF FramingInv, InPart, InHeader, InBody
    <3> QED
      BY <2>1, <2>3, <3>1, NotBeyond, FramingAssumption
  <2> QED
    BY <2>1, <2>2, <2>3 DEF Deaf
<1> QED
  BY <1>1, FramingInvariant, PTL

(* As long as all is whole, bytes or an end of the stream that no event    *)
(* announces are met only before a header or between a header and its      *)
(* body: there Business had read all it asked for, and did not look for    *)
(* more.                                                                   *)
THEOREM StallsAreBetweenParts == Spec => []StallsBetweenParts
<1>1. FramingInv => StallsBetweenParts
  BY DEF FramingInv
<1> QED
  BY <1>1, FramingInvariant, PTL

(* The one command that the gate lets through and that names a handler has *)
(* a NUL among its bytes, so the text that comes with it ends before its   *)
(* header does (SyncDriveServer::ProcessMessageCallback).                  *)
THEOREM NothingIsEverServed == Spec => []NothingIsServed
<1>1. FramingInv => NothingIsServed
  BY DEF FramingInv
<1> QED
  BY <1>1, FramingInvariant, PTL
=============================================================================
