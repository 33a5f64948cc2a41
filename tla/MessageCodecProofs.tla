------------------------- MODULE MessageCodecProofs --------------------------
(***************************************************************************)
(* Proofs about whole messages, for every message, and about the parser,   *)
(* for every body of bytes; that it understands what was sent, for every   *)
(* body of any number of pieces, whole or cut, and for every message the   *)
(* generated code may write.                                               *)
(*                                                                         *)
(* ByteSize, Serialize and what pieces write and make are defined by       *)
(* recursion over a number; Recursion and UpToInduction, for sets and      *)
(* functions, are what the proofs about them go by.                        *)
(***************************************************************************)
EXTENDS MessageCodec, MessageBodies, SequenceTheorems, WellFoundedInduction, TLAPS

------------------------------------------------------------------------------
(* Whole messages                                                           *)

\* The three masks cover every field: no set field is left out by the groups.
LEMMA ReachesEveryField == \A m \in Messages : Reached(m) = m.has
  <1> SUFFICES ASSUME NEW m \in Messages PROVE Reached(m) = m.has
    OBVIOUS
  <1>1. m.has \subseteq Fields
    BY DEF Messages
  <1>2. \A f \in Fields : \E g \in FieldGroups : f \in g
    BY DEF Fields, FieldGroups
  <1>3. \A f \in m.has : \E g \in GroupsWithBits(m) : f \in g
    BY <1>1, <1>2 DEF GroupsWithBits
  <1> QED
    BY <1>3 DEF Reached

\* Messages are equal if they agree on the bits, the strings and the rest.
LEMMA SameMessage ==
  ASSUME NEW m \in Messages, NEW n \in Messages,
         m.has = n.has, \A f \in Fields : m.str[f] = n.str[f], m.unknown = n.unknown
  PROVE  m = n
  <1>1. m.str = n.str
    BY DEF Messages
  <1> QED
    BY <1>1 DEF Messages

\* The operations return messages.
LEMMA OperationTypes ==
  /\ NewMessage \in Messages
  /\ \A m \in Messages : Clear(m) \in Messages
  /\ \A m, from \in Messages : MergeFrom(m, from) \in Messages
  /\ \A m \in Messages, f \in Fields, s \in Seq(Bytes) :
       SetField(m, f, s) \in Messages /\ ClearField(m, f) \in Messages
  <1>1. <<>> \in Seq(Bytes)
    OBVIOUS
  <1>2. NewMessage \in Messages
    BY <1>1 DEF NewMessage, Messages
  <1>3. ASSUME NEW m \in Messages PROVE Clear(m) \in Messages
    BY <1>1 DEF Clear, Messages
  <1>4. ASSUME NEW m \in Messages, NEW from \in Messages PROVE MergeFrom(m, from) \in Messages
    <2>1. Reached(from) \subseteq Fields
      BY ReachesEveryField DEF Messages
    <2>2. m.unknown \o from.unknown \in Seq(Bytes)
      BY DEF Messages
    <2>3. m.has \cup Reached(from) \in SUBSET Fields
      BY <2>1 DEF Messages
    <2>4. [f \in Fields |-> IF f \in Reached(from) THEN from.str[f] ELSE m.str[f]]
            \in [Fields -> Seq(Bytes)]
      BY DEF Messages
    <2> QED
      BY <2>2, <2>3, <2>4 DEF MergeFrom, Messages
  <1>5. ASSUME NEW m \in Messages, NEW f \in Fields, NEW s \in Seq(Bytes)
        PROVE  SetField(m, f, s) \in Messages /\ ClearField(m, f) \in Messages
    BY <1>1 DEF SetField, ClearField, Messages
  <1> QED
    BY <1>2, <1>3, <1>4, <1>5

(***************************************************************************)
(* Clear leaves nothing behind in a message whose unset fields are empty:  *)
(* an object that is parsed into again is like a new one, although Clear   *)
(* resets only the strings whose has-bits are set.                         *)
(***************************************************************************)
THEOREM ClearForgets == \A m \in Messages : Clean(m) => Clear(m) = NewMessage
  <1> SUFFICES ASSUME NEW m \in Messages, Clean(m) PROVE Clear(m) = NewMessage
    OBVIOUS
  <1>1. \A f \in Fields : (IF f \in Reached(m) THEN <<>> ELSE m.str[f]) = <<>>
    BY ReachesEveryField DEF Clean
  <1> QED
    BY <1>1 DEF Clear, NewMessage

(***************************************************************************)
(* Every operation keeps unset fields empty, which ClearForgets and the    *)
(* unchecked reads of do_deal_request need; so whatever the program did to *)
(* a message, it is clean.                                                 *)
(***************************************************************************)
THEOREM OperationsKeepClean ==
  /\ Clean(NewMessage)
  /\ \A m \in Messages : Clean(m) =>
       /\ Clean(Clear(m))
       /\ \A f \in Fields, s \in Seq(Bytes) : Clean(SetField(m, f, s)) /\ Clean(ClearField(m, f))
       /\ \A from \in Messages : Clean(MergeFrom(m, from)) /\ Clean(CopyFrom(m, from))
  <1>1. Clean(NewMessage)
    BY DEF NewMessage, Clean
  <1>2. ASSUME NEW m \in Messages, Clean(m) PROVE Clean(Clear(m))
    BY <1>1, <1>2, ClearForgets
  <1>3. ASSUME NEW m \in Messages, Clean(m), NEW f \in Fields, NEW s \in Seq(Bytes)
        PROVE  Clean(SetField(m, f, s)) /\ Clean(ClearField(m, f))
    BY <1>3 DEF SetField, ClearField, Clean, Messages
  <1>4. ASSUME NEW m \in Messages, Clean(m), NEW from \in Messages
        PROVE  Clean(MergeFrom(m, from))
    BY <1>4 DEF MergeFrom, Clean, Messages
  <1>5. ASSUME NEW m \in Messages, Clean(m), NEW from \in Messages
        PROVE  Clean(CopyFrom(m, from))
    BY <1>2, <1>4, <1>5, OperationTypes DEF CopyFrom
  <1> QED
    BY <1>1, <1>2, <1>3, <1>4, <1>5

(***************************************************************************)
(* A copy is the original: CopyFrom and the copy constructor, which both   *)
(* go through MergeFrom, lose no field and keep nothing of the target.     *)
(***************************************************************************)
THEOREM CopiesAreExact ==
  \A m, from \in Messages :
    Clean(m) /\ Clean(from) => CopyFrom(m, from) = from /\ CopyOf(from) = from
  <1>1. ASSUME NEW from \in Messages, Clean(from) PROVE MergeFrom(NewMessage, from) = from
    <2>1. MergeFrom(NewMessage, from) \in Messages
      BY OperationTypes
    <2>2. <<>> \o from.unknown = from.unknown
      BY DEF Messages
    <2>3. \A f \in Fields : (IF f \in from.has THEN from.str[f] ELSE <<>>) = from.str[f]
      BY <1>1 DEF Clean
    <2>4. Reached(from) = from.has
      BY ReachesEveryField
    <2> QED
      BY <2>1, <2>2, <2>3, <2>4, SameMessage DEF MergeFrom, NewMessage
  <1> QED
    BY <1>1, ClearForgets DEF CopyFrom, CopyOf

(***************************************************************************)
(* Merging is associative, so it does not matter whether a message is      *)
(* merged piece by piece or as a whole.                                    *)
(***************************************************************************)
THEOREM MergeIsAssociative ==
  \A a, b, c \in Messages : MergeFrom(MergeFrom(a, b), c) = MergeFrom(a, MergeFrom(b, c))
  <1> SUFFICES ASSUME NEW a \in Messages, NEW b \in Messages, NEW c \in Messages
               PROVE  MergeFrom(MergeFrom(a, b), c) = MergeFrom(a, MergeFrom(b, c))
    OBVIOUS
  <1> DEFINE ab == MergeFrom(a, b)
             bc == MergeFrom(b, c)
  <1>1. ab \in Messages /\ bc \in Messages
    BY OperationTypes
  <1>2. /\ Reached(a) = a.has /\ Reached(b) = b.has /\ Reached(c) = c.has
        /\ Reached(bc) = bc.has
    BY <1>1, ReachesEveryField
  <1>3. bc.has = b.has \cup c.has
    BY <1>2 DEF MergeFrom
  <1>4. (a.unknown \o b.unknown) \o c.unknown = a.unknown \o (b.unknown \o c.unknown)
    BY ConcatAssociative DEF Messages
  <1>5. MergeFrom(ab, c) \in Messages /\ MergeFrom(a, bc) \in Messages
    BY <1>1, OperationTypes
  <1>6. MergeFrom(ab, c).has = MergeFrom(a, bc).has
    BY <1>2, <1>3 DEF MergeFrom
  <1>7. MergeFrom(ab, c).unknown = MergeFrom(a, bc).unknown
    BY <1>4 DEF MergeFrom
  <1>8. \A f \in Fields : MergeFrom(ab, c).str[f] = MergeFrom(a, bc).str[f]
    BY <1>2, <1>3 DEF MergeFrom
  <1> QED
    BY <1>5, <1>6, <1>7, <1>8, SameMessage

------------------------------------------------------------------------------
(* The wire format                                                          *)

\* A number up to the cutoff is two groups of seven bits, and the other way round.
LEMMA SevenBits == \A n \in 0 .. Cutoff : n % 128 \in 0 .. 127 /\ n \div 128 \in 0 .. 127
  <1>1. \A n \in Int : n >= 0 /\ n <= 16383 => n \div 128 >= 0 /\ n \div 128 <= 127
    OBVIOUS
  <1>2. \A n \in Int : n % 128 >= 0 /\ n % 128 <= 127 /\ n % 128 \in Int
    OBVIOUS
  <1>3. \A n \in Int : n \div 128 \in Int
    OBVIOUS
  <1> SUFFICES ASSUME NEW n \in 0 .. Cutoff
               PROVE  n % 128 \in 0 .. 127 /\ n \div 128 \in 0 .. 127
    OBVIOUS
  <1>4. n \in Int /\ n >= 0 /\ n <= 16383
    BY DEF Cutoff
  <1> QED
    BY <1>1, <1>2, <1>3, <1>4

\* Two groups make a number up to the cutoff.
LEMMA TwoGroups ==
  \A a \in 128 .. 255, b \in 0 .. 127 :
    (a - 128) + 128 * b \in Int /\ (a - 128) + 128 * b >= 0 /\ (a - 128) + 128 * b <= 16383
  OBVIOUS

\* The numbers up to the cutoff.
LEMMA UpToCutoff == \A n \in Int : n >= 0 /\ n <= 16383 <=> n \in 0 .. Cutoff
  BY DEF Cutoff

\* A varint of up to two bytes is as long as VarintSize says.
LEMMA VarintLength ==
  \A n \in 0 .. Cutoff : WriteVarint(n) \in Seq(Bytes) /\ Len(WriteVarint(n)) = VarintSize(n)
  <1> SUFFICES ASSUME NEW n \in 0 .. Cutoff
               PROVE  WriteVarint(n) \in Seq(Bytes) /\ Len(WriteVarint(n)) = VarintSize(n)
    OBVIOUS
  <1>1. CASE n < 128
    BY <1>1 DEF WriteVarint, VarintSize, Bytes
  <1>2. CASE n >= 128
    <2>1. (n % 128) + 128 \in Bytes /\ n \div 128 \in Bytes
      BY <1>2, SevenBits DEF Bytes
    <2> QED
      BY <1>2, <2>1 DEF WriteVarint, VarintSize
  <1> QED
    BY <1>1, <1>2

(***************************************************************************)
(* The literals of ByteSize are right: what is counted for a field is what *)
(* the serializer writes for it, whichever field and whatever string of up *)
(* to 16383 bytes.                                                         *)
(***************************************************************************)
THEOREM FieldSizeIsExact ==
  \A m \in Messages, f \in Fields :
    Len(Field(m, f)) <= Cutoff => Len(WriteString(f, Field(m, f))) = FieldSize(m, f)
  <1> SUFFICES ASSUME NEW m \in Messages, NEW f \in Fields, Len(Field(m, f)) <= Cutoff
               PROVE  Len(WriteString(f, Field(m, f))) = FieldSize(m, f)
    OBVIOUS
  <1> DEFINE s == Field(m, f)
  <1>1. s \in Seq(Bytes) /\ Len(s) \in 0 .. Cutoff
    <2>1. s \in Seq(Bytes)
      BY DEF Field, Messages
    <2>2. Len(s) \in Nat /\ Len(s) <= 16383
      BY <2>1, LenProperties DEF Cutoff
    <2> QED
      BY <2>1, <2>2, UpToCutoff
  <1>2. Tag(f) \in 0 .. Cutoff /\ VarintSize(Tag(f)) = SizeOfTag(f)
    <2>1. f \in 1 .. 22 /\ Tag(f) = 8 * f + 2
      BY DEF Tag, LengthDelimited, Fields
    <2>2. Tag(f) \in 0 .. Cutoff
      BY <2>1, UpToCutoff
    <2>3. Tag(f) < 128 <=> f <= 15
      BY <2>1
    <2> QED
      BY <2>2, <2>3 DEF VarintSize, SizeOfTag
  <1>3. /\ WriteVarint(Tag(f)) \in Seq(Bytes) /\ Len(WriteVarint(Tag(f))) = SizeOfTag(f)
        /\ WriteVarint(Len(s)) \in Seq(Bytes) /\ Len(WriteVarint(Len(s))) = VarintSize(Len(s))
    BY <1>1, <1>2, VarintLength
  <1> HIDE DEF s
  <1>4. /\ WriteVarint(Tag(f)) \o WriteVarint(Len(s)) \in Seq(Bytes)
        /\ Len(WriteVarint(Tag(f)) \o WriteVarint(Len(s))) = SizeOfTag(f) + VarintSize(Len(s))
    BY <1>3
  <1>5. Len(WriteString(f, s)) = SizeOfTag(f) + VarintSize(Len(s)) + Len(s)
    BY <1>1, <1>4 DEF WriteString
  <1>6. SizeOfTag(f) \in Int /\ VarintSize(Len(s)) \in Int /\ Len(s) \in Int
    BY <1>1 DEF SizeOfTag, VarintSize
  <1> QED
    BY <1>5, <1>6 DEF FieldSize, StringSize, s

------------------------------------------------------------------------------
(* Recursion from 0 up to a number                                          *)

\* A set of numbers has a least one.
LEMMA LeastNat ==
  ASSUME NEW T \in SUBSET Nat, T # {}
  PROVE  \E x \in T : \A y \in T : x <= y
  <1>1. PICK x \in T : \A y \in T : ~(<<y, x>> \in OpToRel(<, Nat))
    BY NatLessThanWellFounded, WFMin
  <1>2. \A y \in T : ~(y < x)
    BY <1>1 DEF OpToRel
  <1> QED
    BY <1>2

\* Induction up to n, for a set of numbers.
LEMMA UpToInduction ==
  ASSUME NEW n \in Nat, NEW G, 0 \in G, \A i \in 1 .. n : i - 1 \in G => i \in G
  PROVE  0 .. n \subseteq G
  <1> DEFINE Rest == (0 .. n) \ G
  <1> SUFFICES ASSUME Rest # {} PROVE FALSE
    OBVIOUS
  <1>1. PICK x \in Rest : \A y \in Rest : x <= y
    <2>1. Rest \in SUBSET Nat
      OBVIOUS
    <2> HIDE DEF Rest
    <2> QED
      BY <2>1, LeastNat
  <1>2. x \in 1 .. n /\ x - 1 \in 0 .. n
    BY <1>1
  <1>3. x - 1 \in G
    BY <1>1, <1>2
  <1> QED
    BY <1>1, <1>2, <1>3

\* The functions on 0 .. n, and those whose value at i a step makes of the one before.
Tables(n, T) == [0 .. n -> T]
Steps(n, T) == [1 .. n -> [T -> T]]

\* A function defined by recursion from 0 up to n exists.
LEMMA Recursion ==
  ASSUME NEW n \in Nat, NEW T, NEW base \in T, NEW step \in Steps(n, T)
  PROVE  \E g \in Tables(n, T) : g[0] = base /\ \A i \in 1 .. n : g[i] = step[i][g[i - 1]]
  <1> DEFINE Good(k, g) == g \in [0 .. k -> T] /\ g[0] = base
                           /\ \A i \in 1 .. k : g[i] = step[i][g[i - 1]]
             G == {k \in 0 .. n : \E g : Good(k, g)}
  <1> USE DEF Tables, Steps
  <1>1. 0 \in G
    <2> DEFINE g == [i \in 0 .. 0 |-> base]
    <2>1. g \in [0 .. 0 -> T] /\ g[0] = base
      OBVIOUS
    <2>2. Good(0, g)
      BY <2>1
    <2> HIDE DEF Good, g
    <2> QED
      BY <2>2
  <1>2. ASSUME NEW k \in 1 .. n, k - 1 \in G PROVE k \in G
    <2>1. PICK g : Good(k - 1, g)
      BY <1>2
    <2> DEFINE v == step[k][g[k - 1]]
               h == [i \in 0 .. k |-> IF i = k THEN v ELSE g[i]]
    <2>2. g[k - 1] \in T
      BY <2>1
    <2>3. v \in T
      BY <2>2
    <2>4. h \in [0 .. k -> T]
      BY <2>1, <2>3
    <2>5. h[0] = base
      BY <2>1
    <2>6. \A i \in 1 .. k : h[i] = step[i][h[i - 1]]
      <3> TAKE i \in 1 .. k
      <3>1. CASE i = k
        BY <3>1
      <3>2. CASE i # k
        <4>1. i \in 1 .. k - 1 /\ i \in 0 .. k /\ i - 1 \in 0 .. k /\ i - 1 # k
          BY <3>2
        <4>2. h[i] = g[i] /\ h[i - 1] = g[i - 1]
          BY <3>2, <4>1
        <4> QED BY <2>1, <4>1, <4>2
      <3> QED BY <3>1, <3>2
    <2>7. Good(k, h)
      BY <2>4, <2>5, <2>6
    <2> HIDE DEF Good, h
    <2> QED
      BY <2>7
  <1>3. 0 .. n \subseteq G
    <2> HIDE DEF G
    <2> QED
      BY <1>1, <1>2, UpToInduction
  <1> QED
    BY <1>3

\* The value before one from 1 .. n is from 0 .. n.
LEMMA StepBack == \A n \in Nat : /\ \A i \in 0 .. n : i = 0 \/ i \in 1 .. n
                                 /\ \A i \in 1 .. n : i # 0 /\ i \in 0 .. n /\ i - 1 \in 0 .. n
  OBVIOUS

------------------------------------------------------------------------------
(* The size of a message                                                    *)

\* Messages whose strings have lengths that two-byte varints hold.
ShortStrings(m) == \A f \in Fields : Len(m.str[f]) <= Cutoff

\* What is written for a field is as long as what is counted for it.
LEMMA BytesForType ==
  ASSUME NEW m \in Messages, ShortStrings(m)
  PROVE  \A f \in 1 .. 22 :
           BytesFor(m, f) \in Seq(Bytes) /\ SizeOf(m, f) \in Int
           /\ Len(BytesFor(m, f)) = SizeOf(m, f)
  <1> SUFFICES ASSUME NEW f \in Fields
               PROVE  BytesFor(m, f) \in Seq(Bytes) /\ SizeOf(m, f) \in Int
                      /\ Len(BytesFor(m, f)) = SizeOf(m, f)
    BY DEF Fields
  <1>1. Reached(m) = m.has
    BY ReachesEveryField
  <1>2. CASE f \in m.has
    <2> DEFINE s == Field(m, f)
    <2>1. s \in Seq(Bytes) /\ Len(s) \in 0 .. Cutoff
      <3>1. s \in Seq(Bytes) /\ Len(s) <= 16383
        BY DEF Field, Messages, ShortStrings, Cutoff
      <3>2. Len(s) \in Nat
        BY <3>1, LenProperties
      <3> QED
        BY <3>1, <3>2, UpToCutoff
    <2>2. Tag(f) \in 0 .. Cutoff
      BY UpToCutoff DEF Tag, Fields, LengthDelimited
    <2>3. WriteVarint(Tag(f)) \in Seq(Bytes) /\ WriteVarint(Len(s)) \in Seq(Bytes)
      BY <2>1, <2>2, VarintLength
    <2> HIDE DEF s
    <2>4. WriteString(f, s) \in Seq(Bytes)
      BY <2>1, <2>3 DEF WriteString
    <2>5. BytesFor(m, f) = WriteString(f, s) /\ SizeOf(m, f) = FieldSize(m, f)
      BY <1>1, <1>2 DEF BytesFor, SizeOf, HasField, s
    <2>6. Len(WriteString(f, s)) = FieldSize(m, f)
      BY FieldSizeIsExact DEF ShortStrings, Field, s
    <2>7. Len(WriteString(f, s)) \in Int
      BY <2>4, LenProperties
    <2> QED
      BY <2>4, <2>5, <2>6, <2>7
  <1>3. CASE f \notin m.has
    BY <1>1, <1>3 DEF BytesFor, SizeOf, HasField
  <1> QED
    BY <1>2, <1>3

\* The recursion of Serialize, field by field.
LEMMA SerializeTable ==
  ASSUME NEW m \in Messages, ShortStrings(m)
  PROVE  \E f \in Tables(22, Seq(Bytes)) :
           /\ f[0] = <<>>
           /\ \A i \in 1 .. 22 : f[i] = f[i - 1] \o BytesFor(m, i)
           /\ Serialize(m) = f[22] \o m.unknown
  <1> DEFINE T == Seq(Bytes)
             step == [i \in 1 .. 22 |-> [b \in T |-> b \o BytesFor(m, i)]]
             UpTo(f) == [i \in 0 .. 22 |-> IF i = 0 THEN <<>> ELSE f[i - 1] \o BytesFor(m, i)]
             f == CHOOSE x : x = UpTo(x)
  <1>0. \A i \in 1 .. 22 : BytesFor(m, i) \in Seq(Bytes)
    BY BytesForType
  <1>1. step \in Steps(22, T) /\ <<>> \in T
    BY <1>0 DEF Steps
  <1>2. ASSUME NEW i \in 1 .. 22, NEW b \in T
        PROVE  step[i][b] = b \o BytesFor(m, i) /\ b \o BytesFor(m, i) \in T
    <2>1. step[i] = [c \in T |-> c \o BytesFor(m, i)]
      OBVIOUS
    <2>2. BytesFor(m, i) \in T
      BY <1>0
    <2>3. step[i][b] = b \o BytesFor(m, i)
      BY <2>1
    <2>4. b \o BytesFor(m, i) \in T
      BY <2>2
    <2> HIDE DEF step, T
    <2> QED
      BY <2>3, <2>4
  <1> HIDE DEF T, step
  <1>3. PICK g \in Tables(22, T) : g[0] = <<>> /\ \A i \in 1 .. 22 : g[i] = step[i][g[i - 1]]
    <2>1. PICK n \in Nat : n = 22
      OBVIOUS
    <2>2. step \in Steps(n, T)
      BY <1>1, <2>1
    <2>3. \E g \in Tables(n, T) : g[0] = <<>> /\ \A i \in 1 .. n : g[i] = step[i][g[i - 1]]
      BY <1>1, <2>2, Recursion
    <2> QED
      BY <2>1, <2>3
  <1>4. g = UpTo(g)
    <2>1. \A i \in 1 .. 22 : g[i] = g[i - 1] \o BytesFor(m, i)
      BY <1>2, <1>3, StepBack DEF Tables
    <2>2. g = [i \in 0 .. 22 |-> g[i]]
      BY DEF Tables
    <2>3. \A i \in 0 .. 22 : g[i] = IF i = 0 THEN <<>> ELSE g[i - 1] \o BytesFor(m, i)
      BY <1>3, <2>1, StepBack
    <2> QED
      BY <2>2, <2>3, Zenon
  <1>5. f = UpTo(f)
    <2> HIDE DEF UpTo
    <2> QED
      BY <1>4
  <1>6. Serialize(m) = f[22] \o m.unknown
    BY DEF Serialize
  <1> HIDE DEF f
  <1>7. f[0] = <<>> /\ \A i \in 1 .. 22 : f[i] = f[i - 1] \o BytesFor(m, i)
    <2>1. \A i \in 0 .. 22 : UpTo(f)[i] = IF i = 0 THEN <<>> ELSE f[i - 1] \o BytesFor(m, i)
      OBVIOUS
    <2> HIDE DEF UpTo
    <2>2. \A i \in 0 .. 22 : f[i] = UpTo(f)[i]
      BY <1>5, Zenon
    <2>3. \A i \in 0 .. 22 : f[i] = IF i = 0 THEN <<>> ELSE f[i - 1] \o BytesFor(m, i)
      BY <2>1, <2>2
    <2>4. f[0] = <<>>
      <3>1. 0 \in 0 .. 22
        OBVIOUS
      <3> QED
        BY <2>3, <3>1
    <2>5. ASSUME NEW i \in 1 .. 22 PROVE f[i] = f[i - 1] \o BytesFor(m, i)
      BY <2>3, StepBack
    <2> QED
      BY <2>4, <2>5
  <1>8. \A i \in 0 .. 22 : f[i] \in T
    <2> DEFINE G == {i \in 0 .. 22 : f[i] \in T}
    <2>1. 0 \in G
      BY <1>1, <1>7
    <2>2. ASSUME NEW i \in 1 .. 22, i - 1 \in G PROVE i \in G
      BY <1>2, <1>7, <2>2, StepBack
    <2> HIDE DEF G
    <2>3. 0 .. 22 \subseteq G
      BY <2>1, <2>2, UpToInduction
    <2> QED
      BY <2>3 DEF G
  <1>9. f \in Tables(22, T)
    BY <1>5, <1>8 DEF Tables
  <1> QED
    BY <1>6, <1>7, <1>9 DEF T
\* The recursion of ByteSize, field by field.
LEMMA ByteSizeTable ==
  ASSUME NEW m \in Messages, ShortStrings(m)
  PROVE  \E f \in Tables(22, Int) :
           /\ f[0] = 0
           /\ \A i \in 1 .. 22 : f[i] = f[i - 1] + SizeOf(m, i)
           /\ ByteSize(m) = f[22] + Len(m.unknown)
  <1> DEFINE T == Int
             step == [i \in 1 .. 22 |-> [b \in T |-> b + SizeOf(m, i)]]
             UpTo(f) == [i \in 0 .. 22 |-> IF i = 0 THEN 0 ELSE f[i - 1] + SizeOf(m, i)]
             f == CHOOSE x : x = UpTo(x)
  <1>0. \A i \in 1 .. 22 : SizeOf(m, i) \in Int
    BY BytesForType
  <1>1. step \in Steps(22, T) /\ 0 \in T
    BY <1>0 DEF Steps
  <1>2. ASSUME NEW i \in 1 .. 22, NEW b \in T
        PROVE  step[i][b] = b + SizeOf(m, i) /\ b + SizeOf(m, i) \in T
    <2>1. step[i] = [c \in T |-> c + SizeOf(m, i)]
      OBVIOUS
    <2>2. SizeOf(m, i) \in T
      BY <1>0
    <2> QED
      BY <2>1, <2>2
  <1> HIDE DEF T, step
  <1>3. PICK g \in Tables(22, T) : g[0] = 0 /\ \A i \in 1 .. 22 : g[i] = step[i][g[i - 1]]
    <2>1. PICK n \in Nat : n = 22
      OBVIOUS
    <2>2. step \in Steps(n, T)
      BY <1>1, <2>1
    <2>3. \E g \in Tables(n, T) : g[0] = 0 /\ \A i \in 1 .. n : g[i] = step[i][g[i - 1]]
      BY <1>1, <2>2, Recursion
    <2> QED
      BY <2>1, <2>3
  <1>4. g = UpTo(g)
    <2>1. \A i \in 1 .. 22 : g[i] = g[i - 1] + SizeOf(m, i)
      BY <1>2, <1>3, StepBack DEF Tables
    <2>2. g = [i \in 0 .. 22 |-> g[i]]
      BY DEF Tables
    <2>3. \A i \in 0 .. 22 : g[i] = IF i = 0 THEN 0 ELSE g[i - 1] + SizeOf(m, i)
      BY <1>3, <2>1, StepBack
    <2> QED
      BY <2>2, <2>3, Zenon
  <1>5. f = UpTo(f)
    <2> HIDE DEF UpTo
    <2> QED
      BY <1>4
  <1>6. ByteSize(m) = f[22] + Len(m.unknown)
    BY DEF ByteSize
  <1> HIDE DEF f
  <1>7. f[0] = 0 /\ \A i \in 1 .. 22 : f[i] = f[i - 1] + SizeOf(m, i)
    <2>1. \A i \in 0 .. 22 : UpTo(f)[i] = IF i = 0 THEN 0 ELSE f[i - 1] + SizeOf(m, i)
      OBVIOUS
    <2> HIDE DEF UpTo
    <2>2. \A i \in 0 .. 22 : f[i] = UpTo(f)[i]
      BY <1>5, Zenon
    <2>3. \A i \in 0 .. 22 : f[i] = IF i = 0 THEN 0 ELSE f[i - 1] + SizeOf(m, i)
      BY <2>1, <2>2
    <2>4. f[0] = 0
      <3>1. 0 \in 0 .. 22
        OBVIOUS
      <3> QED
        BY <2>3, <3>1
    <2>5. ASSUME NEW i \in 1 .. 22 PROVE f[i] = f[i - 1] + SizeOf(m, i)
      BY <2>3, StepBack
    <2> QED
      BY <2>4, <2>5
  <1>8. \A i \in 0 .. 22 : f[i] \in T
    <2> DEFINE G == {i \in 0 .. 22 : f[i] \in T}
    <2>1. 0 \in G
      BY <1>1, <1>7
    <2>2. ASSUME NEW i \in 1 .. 22, i - 1 \in G PROVE i \in G
      BY <1>2, <1>7, <2>2, StepBack
    <2> HIDE DEF G
    <2>3. 0 .. 22 \subseteq G
      BY <2>1, <2>2, UpToInduction
    <2> QED
      BY <2>3 DEF G
  <1>9. f \in Tables(22, T)
    BY <1>5, <1>8 DEF Tables
  <1> QED
    BY <1>6, <1>7, <1>9 DEF T

(***************************************************************************)
(* The size that ByteSize announces is the size of what                    *)
(* SerializeWithCachedSizesToArray writes, for every message whose strings *)
(* have at most 16383 bytes: the running sum and the bytes grow together   *)
(* from field to field.                                                    *)
(***************************************************************************)
THEOREM AnnouncesWhatItWrites ==
  \A m \in Messages : ShortStrings(m) => Len(Serialize(m)) = ByteSize(m)
  <1> SUFFICES ASSUME NEW m \in Messages, ShortStrings(m)
               PROVE  Len(Serialize(m)) = ByteSize(m)
    OBVIOUS
  <1>1. PICK b \in Tables(22, Seq(Bytes)) :
          /\ b[0] = <<>> /\ \A i \in 1 .. 22 : b[i] = b[i - 1] \o BytesFor(m, i)
          /\ Serialize(m) = b[22] \o m.unknown
    BY SerializeTable
  <1>2. PICK s \in Tables(22, Int) :
          /\ s[0] = 0 /\ \A i \in 1 .. 22 : s[i] = s[i - 1] + SizeOf(m, i)
          /\ ByteSize(m) = s[22] + Len(m.unknown)
    BY ByteSizeTable
  <1>3. \A i \in 0 .. 22 : Len(b[i]) = s[i]
    <2> DEFINE G == {i \in 0 .. 22 : Len(b[i]) = s[i]}
    <2>1. 0 \in G
      BY <1>1, <1>2
    <2>2. ASSUME NEW i \in 1 .. 22, i - 1 \in G PROVE i \in G
      <3>1. b[i - 1] \in Seq(Bytes) /\ s[i - 1] \in Int /\ Len(b[i - 1]) = s[i - 1]
        BY <2>2 DEF Tables
      <3>2. BytesFor(m, i) \in Seq(Bytes) /\ Len(BytesFor(m, i)) = SizeOf(m, i)
        BY BytesForType
      <3>3. Len(b[i - 1] \o BytesFor(m, i)) = s[i - 1] + SizeOf(m, i)
        <4>1. Len(b[i - 1] \o BytesFor(m, i)) = Len(b[i - 1]) + Len(BytesFor(m, i))
          BY <3>1, <3>2, ConcatProperties, Zenon
        <4> QED
          BY <3>1, <3>2, <4>1
      <3>4. Len(b[i]) = s[i]
        BY <1>1, <1>2, <3>3
      <3> QED
        BY <3>4
    <2> HIDE DEF G
    <2>3. 0 .. 22 \subseteq G
      BY <2>1, <2>2, UpToInduction
    <2> QED
      BY <2>3 DEF G
  <1>4. b[22] \in Seq(Bytes) /\ m.unknown \in Seq(Bytes) /\ Len(b[22]) = s[22]
    BY <1>3 DEF Tables, Messages
  <1>5. Len(b[22] \o m.unknown) = Len(b[22]) + Len(m.unknown)
    BY <1>4, ConcatProperties
  <1> QED
    BY <1>1, <1>2, <1>4, <1>5

------------------------------------------------------------------------------
(* The parser                                                               *)

\* A field is being read or has just been read.
AtAField == pc \in {"read", "next"} => FieldNumber(tag) \in Fields

\* The inductive invariant.
ParserInv == TypeOK /\ AtAField /\ ReadsWithinBody /\ AbsentFieldsAreEmpty

\* What the parser sees of the bytes that are left.
LEMMA WhatIsLeft ==
  ASSUME TypeOK, ReadsWithinBody
  PROVE  /\ Left \in Nat /\ Len(wire) \in Nat /\ Left = Len(wire) - pos
         /\ \A i \in 1 .. Left : Peek(i) \in 0 .. 255
  <1>1. wire \in Seq(Bytes) /\ pos \in Nat /\ Len(wire) \in Nat /\ pos <= Len(wire)
    BY DEF TypeOK, ReadsWithinBody
  <1>2. \A i \in 1 .. Len(wire) : wire[i] \in 0 .. 255
    BY <1>1, ElementOfSeq DEF Bytes
  <1> QED
    BY <1>1, <1>2 DEF Left, Peek

\* A varint is within the body and at most the cutoff.
LEMMA VarintInBody ==
  ASSUME TypeOK, ReadsWithinBody
  PROVE  VarintBytes \in 0 .. 2 /\ VarintBytes <= Left /\ VarintValue \in 0 .. Cutoff
  <1>0. Left \in Nat /\ \A i \in 1 .. Left : Peek(i) \in 0 .. 255
    BY WhatIsLeft
  <1>1. CASE Left >= 1 /\ Peek(1) < 128
    <2>1. VarintBytes = 1 /\ VarintValue = Peek(1)
      BY <1>1 DEF VarintBytes, VarintValue
    <2>2. Peek(1) \in Int /\ Peek(1) >= 0 /\ Peek(1) <= 16383
      BY <1>0, <1>1
    <2> QED
      BY <1>0, <1>1, <2>1, <2>2, UpToCutoff
  <1>2. CASE ~(Left >= 1 /\ Peek(1) < 128) /\ Left >= 2 /\ Peek(2) < 128
    <2>0. 1 \in 1 .. Left /\ 2 \in 1 .. Left /\ ~(Peek(1) < 128) /\ Peek(2) < 128
      BY <1>0, <1>2
    <2>1. Peek(1) \in 128 .. 255 /\ Peek(2) \in 0 .. 127
      <3>1. Peek(1) \in 0 .. 255 /\ Peek(2) \in 0 .. 255
        BY <1>0, <2>0
      <3> QED
        BY <2>0, <3>1
    <2>2. VarintBytes = 2 /\ VarintValue = (Peek(1) - 128) + 128 * Peek(2)
      BY <1>2 DEF VarintBytes, VarintValue
    <2>3. VarintValue \in Int /\ VarintValue >= 0 /\ VarintValue <= 16383
      <3>1. PICK a \in 128 .. 255, b \in 0 .. 127 : a = Peek(1) /\ b = Peek(2)
        BY <2>1
      <3>2. VarintValue = (a - 128) + 128 * b
        BY <2>2, <3>1
      <3> QED
        BY <3>2, TwoGroups
    <2> QED
      BY <1>0, <1>2, <2>2, <2>3, UpToCutoff
  <1>3. CASE ~(Left >= 1 /\ Peek(1) < 128) /\ ~(Left >= 2 /\ Peek(2) < 128)
    <2>1. VarintBytes = 0 /\ VarintValue = 0
      BY <1>3 DEF VarintBytes, VarintValue
    <2> QED
      BY <1>0, <2>1, UpToCutoff
  <1> QED
    BY <1>1, <1>2, <1>3

\* A tag that follows is within the body.
LEMMA TagInBody ==
  ASSUME TypeOK, ReadsWithinBody, NEW t \in Nat, TagFollows(t)
  PROVE  VarintSize(t) \in Nat /\ VarintSize(t) <= Left
  BY WhatIsLeft DEF TagFollows, VarintSize

\* A piece of the body is a string of bytes.
LEMMA PieceOfBody ==
  ASSUME TypeOK, NEW i \in Nat \ {0}, NEW j \in Nat, j <= Len(wire)
  PROVE  SubSeq(wire, i, j) \in Seq(Bytes)
  <1>1. \A n \in i .. j : wire[n] \in Bytes
    BY DEF TypeOK
  <1> QED
    BY <1>1, SubSeqProperties

\* Setting a field keeps the message one and clean.
LEMMA SettingKeeps ==
  ASSUME NEW m \in Messages, Clean(m), NEW f \in Fields, NEW s \in Seq(Bytes)
  PROVE  SetField(m, f, s) \in Messages /\ Clean(SetField(m, f, s))
  BY OperationTypes, OperationsKeepClean

\* A parse starts with a clean object at the start of a body.
LEMMA ParserInit == Init => ParserInv
  <1> SUFFICES ASSUME Init PROVE ParserInv
    OBVIOUS
  <1>1. PICK body \in Bodies : wire = body.wire /\ expected = [ok |-> body.ok, msg |-> body.msg]
    BY DEF Init
  <1>2. wire \in Seq(Bytes) /\ expected \in [ok : BOOLEAN, msg : Messages]
    BY <1>1, BodyAssumption
  <1>3. msg \in Messages /\ Clean(msg)
    BY ReuseAssumption DEF Init
  <1>4. tag \in 0 .. Cutoff
    BY UpToCutoff DEF Init
  <1>5. TypeOK
    BY <1>2, <1>3, <1>4 DEF Init, TypeOK, ParserPcs
  <1>6. Len(wire) \in Nat
    BY <1>2
  <1> QED
    BY <1>3, <1>5, <1>6 DEF Init, ParserInv, AtAField, ReadsWithinBody, AbsentFieldsAreEmpty, At

\* Steps that only move on in the code.
LEMMA ParserGoesOn ==
  ASSUME ParserInv, UNCHANGED <<wire, expected, pos, msg, tag>>, pc # "clear",
         pc' \in ParserPcs \ {"clear", "read", "next"}, atEnd' \in BOOLEAN, result' \in BOOLEAN
  PROVE  ParserInv'
  BY DEF ParserInv, TypeOK, AtAField, ReadsWithinBody, AbsentFieldsAreEmpty, At, Clean

\* ReadField keeps the invariant: the value it takes is within the body.
LEMMA ReadFieldKeeps ==
  ASSUME ParserInv, ReadField
  PROVE  ParserInv'
  <1> DEFINE f == FieldNumber(tag)
  <1>0. /\ TypeOK /\ ReadsWithinBody /\ pc = "read" /\ f \in Fields /\ msg \in Messages
        /\ Clean(msg) /\ pos \in Nat /\ Len(wire) \in Nat /\ pos <= Len(wire)
    BY DEF ParserInv, ReadField, AtAField, AbsentFieldsAreEmpty, At, TypeOK, ReadsWithinBody
  <1>1. /\ VarintBytes \in Nat /\ VarintBytes <= Left /\ VarintValue \in Nat
        /\ Left = Len(wire) - pos
    BY <1>0, VarintInBody, WhatIsLeft, UpToCutoff
  <1>2. \E s \in Seq(Bytes) : msg' = SetField(msg, f, s)
    <2>1. CASE ValueIsThere
      <3>1. ValueEnd \in Nat /\ ValueEnd <= Left
        BY <1>1, <2>1 DEF ValueIsThere, ValueEnd
      <3>2. SubSeq(wire, pos + VarintBytes + 1, pos + ValueEnd) \in Seq(Bytes)
        BY <1>0, <1>1, <3>1, PieceOfBody
      <3> QED
        BY <2>1, <3>2 DEF ReadField
    <2>2. CASE ~ValueIsThere /\ VarintBytes = 0
      <3>1. Field(msg, f) \in Seq(Bytes)
        BY <1>0 DEF Field, Messages
      <3> QED
        BY <2>2, <3>1 DEF ReadField
    <2>3. CASE ~ValueIsThere /\ VarintBytes # 0
      <3>1. SubSeq(wire, pos + VarintBytes + 1, Len(wire)) \in Seq(Bytes)
        BY <1>0, <1>1, PieceOfBody
      <3> QED
        BY <2>3, <3>1 DEF ReadField
    <2> QED
      BY <2>1, <2>2, <2>3
  <1>3. msg' \in Messages /\ Clean(msg')
    BY <1>0, <1>2, SettingKeeps
  <1>4. pos' \in Nat /\ pos' <= Len(wire)
    <2>1. CASE ValueIsThere
      BY <1>0, <1>1, <2>1 DEF ReadField, ValueIsThere, ValueEnd
    <2>2. CASE ~ValueIsThere
      BY <1>0, <2>2 DEF ReadField
    <2> QED
      BY <2>1, <2>2
  <1>5. pc' \in {"next", "failure"} /\ UNCHANGED <<wire, expected, atEnd, tag, result>>
    BY DEF ReadField, Goto
  <1>6. TypeOK'
    BY <1>0, <1>3, <1>4, <1>5 DEF TypeOK, ParserPcs
  <1> QED
    BY <1>0, <1>3, <1>4, <1>5, <1>6
    DEF ParserInv, AtAField, ReadsWithinBody, AbsentFieldsAreEmpty, Clean

\* SkipField keeps the invariant: it copies bytes of the body and no field.
LEMMA SkipFieldKeeps ==
  ASSUME ParserInv, SkipField
  PROVE  ParserInv'
  <1> DEFINE end == IF WireType(tag) = LengthDelimited THEN ValueEnd ELSE VarintBytes
  <1>0. /\ TypeOK /\ ReadsWithinBody /\ pc = "unusual" /\ msg \in Messages /\ Clean(msg)
        /\ pos \in Nat /\ Len(wire) \in Nat /\ pos <= Len(wire) /\ tag \in 0 .. Cutoff
    BY DEF ParserInv, SkipField, AbsentFieldsAreEmpty, At, TypeOK, ReadsWithinBody
  <1>1. /\ VarintBytes \in Nat /\ VarintValue \in Nat /\ Left = Len(wire) - pos
    BY <1>0, VarintInBody, WhatIsLeft, UpToCutoff
  <1>2. end \in Nat
    BY <1>1 DEF ValueEnd
  <1> HIDE DEF end
  <1>3. UNCHANGED <<wire, expected, atEnd, tag, result>> /\ pc' \in {"tag", "failure"}
    BY DEF SkipField, Goto
  <1>4. CASE VarintBytes > 0 /\ end <= Left
    <2>1. /\ pos' = pos + end
          /\ msg' = [msg EXCEPT !.unknown =
                       @ \o WriteVarint(tag) \o SubSeq(wire, pos + 1, pos + end)]
      BY <1>4 DEF SkipField, end
    <2>2. pos' \in Nat /\ pos' <= Len(wire)
      BY <1>0, <1>1, <1>2, <1>4, <2>1
    <2>3. SubSeq(wire, pos + 1, pos + end) \in Seq(Bytes)
      BY <1>0, <1>1, <1>2, <1>4, PieceOfBody
    <2>4. msg.unknown \in Seq(Bytes) /\ WriteVarint(tag) \in Seq(Bytes)
      BY <1>0, VarintLength DEF Messages
    <2>5. msg.unknown \o WriteVarint(tag) \o SubSeq(wire, pos + 1, pos + end) \in Seq(Bytes)
      BY <2>3, <2>4
    <2>6. msg' \in Messages /\ Clean(msg')
      BY <1>0, <2>1, <2>5 DEF Messages, Clean
    <2>7. TypeOK'
      BY <1>0, <1>3, <2>2, <2>6 DEF TypeOK, ParserPcs
    <2> QED
      BY <1>0, <1>3, <2>2, <2>6, <2>7
      DEF ParserInv, AtAField, ReadsWithinBody, AbsentFieldsAreEmpty, Clean
  <1>5. CASE ~(VarintBytes > 0 /\ end <= Left)
    <2>1. pos' = Len(wire) /\ UNCHANGED msg
      BY <1>5 DEF SkipField, end
    <2>2. TypeOK'
      BY <1>0, <1>3, <2>1 DEF TypeOK, ParserPcs
    <2> QED
      BY <1>0, <1>3, <2>1, <2>2
      DEF ParserInv, AtAField, ReadsWithinBody, AbsentFieldsAreEmpty, Clean
  <1> QED
    BY <1>4, <1>5

\* Every step of the parser keeps the invariant: one case per action.
LEMMA ParserStep == ParserInv /\ [Next]_vars => ParserInv'
  <1> SUFFICES ASSUME ParserInv, [Next]_vars PROVE ParserInv'
    OBVIOUS
  <1>0. TypeOK /\ ReadsWithinBody /\ pos \in Nat /\ Len(wire) \in Nat /\ pos <= Len(wire)
    BY DEF ParserInv, TypeOK, ReadsWithinBody
  <1>1. CASE UNCHANGED vars
    BY <1>1
    DEF vars, ParserInv, TypeOK, AtAField, ReadsWithinBody, AbsentFieldsAreEmpty, At, Clean
  <1>2. CASE Start
    <2>1. msg' = Clear(msg) /\ msg \in Messages /\ pc' = "tag"
      BY <1>2 DEF Start, Goto, ParserInv, TypeOK
    <2>2. msg' \in Messages /\ Clean(msg')
      BY <2>1, OperationTypes, OperationsKeepClean DEF ParserInv, AbsentFieldsAreEmpty
    <2>3. UNCHANGED <<wire, expected, pos, atEnd, tag, result>>
      BY <1>2 DEF Start
    <2>4. TypeOK'
      BY <1>0, <2>1, <2>2, <2>3 DEF TypeOK, ParserPcs
    <2> QED
      BY <1>0, <2>1, <2>2, <2>3, <2>4
      DEF ParserInv, AtAField, ReadsWithinBody, AbsentFieldsAreEmpty, Clean
  <1>3. CASE ReadTag
    <2>1. /\ tag' = VarintValue /\ pos' = pos + VarintBytes /\ atEnd' = (Left = 0)
          /\ UNCHANGED <<wire, expected, msg, result>> /\ pc = "tag"
          /\ pc' = IF KnownTag(VarintValue) THEN "read" ELSE "unusual"
      BY <1>3 DEF ReadTag, Goto, At
    <2>2. tag' \in 0 .. Cutoff /\ pos' \in Nat /\ pos' <= Len(wire)
      BY <1>0, <2>1, VarintInBody, WhatIsLeft
    <2>3. TypeOK'
      BY <2>1, <2>2, <1>0 DEF TypeOK, ParserPcs
    <2> QED
      BY <2>1, <2>2, <2>3
      DEF ParserInv, AtAField, ReadsWithinBody, AbsentFieldsAreEmpty, At, Clean, KnownTag
  <1>4. CASE ReadField
    BY <1>4, ReadFieldKeeps
  <1>5. CASE Jump
    <2> DEFINE next == FieldNumber(tag) + 1
    <2>1. /\ next \in Fields /\ TagFollows(Tag(next)) /\ tag' = Tag(next)
          /\ pos' = pos + VarintSize(Tag(next)) /\ pc' = "read" /\ pc = "next"
          /\ UNCHANGED <<wire, expected, atEnd, msg, result>>
      BY <1>5 DEF Jump, Goto, At
    <2>2. \A n \in Fields : Tag(n) \in 0 .. Cutoff /\ Tag(n) \in Nat /\ FieldNumber(Tag(n)) = n
      BY UpToCutoff DEF Tag, FieldNumber, Fields, LengthDelimited
    <2>3. pos' \in Nat /\ pos' <= Len(wire)
      BY <1>0, <2>1, <2>2, TagInBody, WhatIsLeft
    <2>4. TypeOK'
      BY <1>0, <2>1, <2>2, <2>3 DEF TypeOK, ParserPcs
    <2> QED
      BY <2>1, <2>2, <2>3, <2>4
      DEF ParserInv, AtAField, ReadsWithinBody, AbsentFieldsAreEmpty, At, Clean
  <1>6. CASE ExpectAtEnd \/ NextTag \/ EndsMessage \/ Finish
    <2>1. /\ UNCHANGED <<wire, expected, pos, msg, tag>> /\ pc # "clear"
          /\ pc' \in {"success", "tag", "done"}
      BY <1>6 DEF ExpectAtEnd, NextTag, EndsMessage, Finish, At, Goto
    <2>2. atEnd' \in BOOLEAN /\ result' \in BOOLEAN
      BY <1>0, <1>6 DEF ExpectAtEnd, NextTag, EndsMessage, Finish, TypeOK, IsInitialized, HasField
    <2> QED
      BY <2>1, <2>2, ParserGoesOn DEF ParserPcs
  <1>7. CASE SkipField
    BY <1>7, SkipFieldKeeps
  <1> QED
    BY <1>1, <1>2, <1>3, <1>4, <1>5, <1>6, <1>7 DEF Next

\* The invariant holds throughout every parse.
LEMMA ParserInvariant == Spec => []ParserInv
  BY ParserInit, ParserStep, PTL DEF Spec

(***************************************************************************)
(* Whatever the bytes of a body are, and whatever lengths they claim, the  *)
(* parser stays within the body.                                           *)
(***************************************************************************)
THEOREM StaysWithinBody == Spec => []ReadsWithinBody
  <1>1. ParserInv => ReadsWithinBody
    BY DEF ParserInv
  <1> QED
    BY <1>1, ParserInvariant, PTL

(***************************************************************************)
(* Whatever the bytes of a body are, a field without its has-bit is empty, *)
(* which is what do_deal_request reads of the fields it does not check.    *)
(***************************************************************************)
THEOREM NothingStaleIsRead == Spec => []AbsentFieldsAreEmpty
  <1>1. ParserInv => AbsentFieldsAreEmpty
    BY DEF ParserInv
  <1> QED
    BY <1>1, ParserInvariant, PTL

(***************************************************************************)
(* Every variable keeps its type: the message stays one and no tag passes  *)
(* the cutoff the generated code reads tags with.                          *)
(***************************************************************************)
THEOREM ParserTypes == Spec => []TypeOK
  <1>1. ParserInv => TypeOK
    BY DEF ParserInv
  <1> QED
    BY <1>1, ParserInvariant, PTL

------------------------------------------------------------------------------
(* The answer to an accepted message                                        *)

\* Unless the parse failed, every string it stored is as long as a length field can say.
StringsFit ==
  pc \in {"tag", "read", "next", "unusual", "success"} \/ (pc = "done" /\ result)
    => ShortStrings(msg)

\* The string that ReadField stores is as long as the length before it says.
LEMMA ReadFieldFits ==
  ASSUME ParserInv, StringsFit, ReadField
  PROVE  StringsFit'
  <1> DEFINE f == FieldNumber(tag)
             s == SubSeq(wire, pos + VarintBytes + 1, pos + ValueEnd)
  <1>0. /\ TypeOK /\ ReadsWithinBody /\ pc = "read" /\ f \in Fields /\ msg \in Messages
        /\ pos \in Nat /\ ShortStrings(msg)
    BY DEF ParserInv, ReadField, AtAField, At, TypeOK, StringsFit
  <1>1. CASE ValueIsThere
    <2>1. /\ VarintBytes \in Nat /\ VarintValue \in Nat /\ VarintValue <= Cutoff
          /\ Left = Len(wire) - pos /\ Len(wire) \in Nat
      <3>1. VarintBytes \in 0 .. 2 /\ VarintValue \in 0 .. Cutoff
        BY <1>0, VarintInBody
      <3>2. Left = Len(wire) - pos /\ Len(wire) \in Nat
        BY <1>0, WhatIsLeft
      <3> QED
        BY <3>1, <3>2 DEF Cutoff
    <2>2. ValueEnd = VarintBytes + VarintValue /\ ValueEnd <= Left
      BY <1>1 DEF ValueEnd, ValueIsThere
    <2>3. PICK i \in Nat, j \in Nat : i = pos + VarintBytes + 1 /\ j = pos + ValueEnd
      BY <1>0, <2>1, <2>2
    <2>4. i \in Int /\ j \in Int /\ \A n \in i .. j : wire[n] \in Bytes
      BY <1>0, <2>1, <2>2, <2>3 DEF TypeOK
    <2>5. Len(SubSeq(wire, i, j)) = IF i <= j THEN j - i + 1 ELSE 0
      BY <2>4, SubSeqProperties
    <2>6. Len(s) <= Cutoff
      <3>1. (IF i <= j THEN j - i + 1 ELSE 0) <= Cutoff
        BY <1>0, <2>1, <2>2, <2>3 DEF Cutoff
      <3> QED
        BY <2>3, <2>5, <3>1
    <2>7. msg' = SetField(msg, f, s)
      BY <1>1 DEF ReadField
    <2> HIDE DEF s, f
    <2> QED
      BY <1>0, <2>6, <2>7 DEF StringsFit, ShortStrings, SetField, Messages
  <1>2. CASE ~ValueIsThere
    BY <1>0, <1>2 DEF ReadField, Goto, StringsFit
  <1> QED
    BY <1>1, <1>2

\* Every other step clears the strings or leaves them alone.
LEMMA StringsFitStep == ParserInv /\ StringsFit /\ [Next]_vars => StringsFit'
  <1> SUFFICES ASSUME ParserInv, StringsFit, [Next]_vars PROVE StringsFit'
    OBVIOUS
  <1>0. msg \in Messages /\ Clean(msg)
    BY DEF ParserInv, TypeOK, AbsentFieldsAreEmpty
  <1>1. CASE UNCHANGED vars
    BY <1>1 DEF vars, StringsFit, ShortStrings
  <1>2. CASE Start
    <2>1. msg' = NewMessage
      BY <1>0, <1>2, ClearForgets DEF Start
    <2> QED
      BY <2>1 DEF StringsFit, ShortStrings, NewMessage, Cutoff
  <1>3. CASE ReadField
    BY <1>3, ReadFieldFits
  <1>4. CASE SkipField
    <2>1. pc = "unusual" /\ msg'.str = msg.str
      BY <1>0, <1>4 DEF SkipField, At, Messages
    <2> QED
      BY <2>1 DEF StringsFit, ShortStrings
  <1>5. CASE ReadTag \/ Jump \/ ExpectAtEnd \/ NextTag \/ EndsMessage
    BY <1>5 DEF ReadTag, Jump, ExpectAtEnd, NextTag, EndsMessage, At, StringsFit, ShortStrings
  <1>6. CASE Finish
    BY <1>6 DEF Finish, At, Goto, StringsFit, ShortStrings
  <1> QED
    BY <1>1, <1>2, <1>3, <1>4, <1>5, <1>6 DEF Next

\* So no accepted message has a string that two-byte lengths cannot say.
LEMMA StringsAlwaysFit == Spec => []StringsFit
  <1>1. Init => StringsFit
    BY DEF Init, StringsFit
  <1> QED
    BY <1>1, ParserInvariant, StringsFitStep, PTL DEF Spec

\* An answer has a type, a status and perhaps a transid, each with a tag of one byte.
LEMMA AnswerSize ==
  ASSUME NEW m \in Messages, ShortStrings(m), m.has \in {{1, 3}, {1, 3, 8}},
         Len(m.str[1]) = 6, Len(m.str[3]) = 2, m.unknown = <<>>
  PROVE  ByteSize(m) = 12 + (IF 8 \in m.has THEN 1 + StringSize(m.str[8]) ELSE 0)
  <1>1. PICK s \in Tables(22, Int) :
          /\ s[0] = 0 /\ \A i \in 1 .. 22 : s[i] = s[i - 1] + SizeOf(m, i)
          /\ ByteSize(m) = s[22] + Len(m.unknown)
    BY ByteSizeTable
  <1>2. Reached(m) = m.has
    BY ReachesEveryField
  <1>3. SizeOf(m, 1) = 8 /\ SizeOf(m, 3) = 4
    BY <1>2 DEF SizeOf, FieldSize, SizeOfTag, StringSize, VarintSize, Field
  <1>4. PICK x \in Int : x = IF 8 \in m.has THEN 1 + StringSize(m.str[8]) ELSE 0
    <2>1. PICK k \in Int : k = Len(m.str[8])
      BY LenProperties DEF Messages, Fields
    <2>2. PICK y \in Int : y = StringSize(m.str[8])
      <3>1. CASE k < 128
        BY <2>1, <3>1 DEF StringSize, VarintSize
      <3>2. CASE ~(k < 128)
        BY <2>1, <3>2 DEF StringSize, VarintSize
      <3> QED
        BY <3>1, <3>2
    <2>3. CASE 8 \in m.has
      <3>1. 1 + y \in Int /\ 1 + y = 1 + StringSize(m.str[8])
        BY <2>2
      <3> QED
        BY <2>3, <3>1
    <2>4. CASE 8 \notin m.has
      BY <2>4
    <2> QED
      BY <2>3, <2>4
  <1>5. SizeOf(m, 8) = x
    BY <1>2, <1>4 DEF SizeOf, FieldSize, SizeOfTag, Field
  <1>6. \A i \in 1 .. 22 : i \notin {1, 3, 8} => SizeOf(m, i) = 0
    BY <1>2 DEF SizeOf
  <1>7. \A i \in 0 .. 22 : s[i] \in Int
    BY DEF Tables
  <1>8. \A i \in 1 .. 22, j \in 0 .. 22 : j = i - 1 => s[i] = s[j] + SizeOf(m, i)
    BY <1>1
  <1>9. \A i \in 1 .. 22, j \in 0 .. 22 : j = i - 1 /\ i \notin {1, 3, 8} => s[i] = s[j]
    <2> SUFFICES ASSUME NEW i \in 1 .. 22, NEW j \in 0 .. 22, j = i - 1, i \notin {1, 3, 8}
                 PROVE  s[i] = s[j]
      OBVIOUS
    <2>1. s[i] = s[j] + SizeOf(m, i)
      BY <1>8
    <2>2. SizeOf(m, i) = 0 /\ s[j] \in Int
      BY <1>6, <1>7
    <2> QED
      BY <2>1, <2>2
  <1>10. s[1] = 8 /\ s[3] = s[2] + 4 /\ s[8] = s[7] + x
    <2>1. s[1] = s[0] + SizeOf(m, 1)
      BY <1>8
    <2>2. s[3] = s[2] + SizeOf(m, 3)
      BY <1>8
    <2>3. s[8] = s[7] + SizeOf(m, 8)
      BY <1>8
    <2> QED
      BY <1>1, <1>3, <1>5, <2>1, <2>2, <2>3
  <1>11. s[8] = 12 + x
    <2>1. s[2] = s[1]
      BY <1>9
    <2>2. s[4] = s[3] /\ s[5] = s[4] /\ s[6] = s[5] /\ s[7] = s[6]
      BY <1>9
    <2> QED
      BY <1>10, <2>1, <2>2
  <1>12. s[22] = s[8]
    <2>1. s[9] = s[8] /\ s[10] = s[9] /\ s[11] = s[10] /\ s[12] = s[11] /\ s[13] = s[12]
      BY <1>9
    <2>2. s[14] = s[13] /\ s[15] = s[14] /\ s[16] = s[15] /\ s[17] = s[16] /\ s[18] = s[17]
      BY <1>9
    <2>3. s[19] = s[18] /\ s[20] = s[19] /\ s[21] = s[20] /\ s[22] = s[21]
      BY <1>9
    <2> QED
      BY <2>1, <2>2, <2>3
  <1>13. Len(m.unknown) = 0
    OBVIOUS
  <1>14. ByteSize(m) = 12 + x
    BY <1>1, <1>11, <1>12, <1>13
  <1> QED
    BY <1>4, <1>14

\* A message of that kind, on the wire.
LEMMA AnswerIsFramed ==
  ASSUME NEW m \in Messages, ShortStrings(m), m.has \in {{1, 3}, {1, 3, 8}}, Clean(m),
         Len(m.str[1]) = 6, Len(m.str[3]) = 2, m.unknown = <<>>
  PROVE  /\ FitsBuffer(Frame(m)) <=> Len(Field(m, transid)) <= LongestTransid
         /\ IsFramed(Frame(m)) <=> FitsBuffer(Frame(m))
  <1>1. PICK n \in Nat : n = Len(m.str[8])
    BY LenProperties DEF Messages, Fields
  <1>2. 8 \notin m.has => n = 0
    <2>1. 8 \notin m.has => m.str[8] = <<>>
      BY DEF Clean, Fields
    <2> QED
      BY <1>1, <2>1
  <1>3. PICK size \in Int :
          size = ByteSize(m)
          /\ size = 12 + IF 8 \in m.has THEN 1 + ((IF n < 128 THEN 1 ELSE 2) + n) ELSE 0
    <2>1. ByteSize(m) = 12 + (IF 8 \in m.has THEN 1 + StringSize(m.str[8]) ELSE 0)
      BY AnswerSize
    <2>2. StringSize(m.str[8]) = (IF n < 128 THEN 1 ELSE 2) + n
      BY <1>1 DEF StringSize, VarintSize
    <2> QED
      BY <2>1, <2>2
  <1>4. size <= 512 <=> n <= 497
    BY <1>2, <1>3
  <1>5. Len(Serialize(m)) = size
    BY <1>3, AnnouncesWhatItWrites
  <1>6. Frame(m).body = Serialize(m) /\ Frame(m).bodyLength = BodyLength(size)
    BY <1>3 DEF Frame
  <1>7. FitsBuffer(Frame(m)) <=> size <= 512
    BY <1>5, <1>6 DEF FitsBuffer, MaxBodyLength
  <1>8. IsFramed(Frame(m)) <=> size <= 512
    <2>1. BodyLength(size) = size <=> size <= 512
      BY DEF BodyLength, MaxBodyLength
    <2>2. IsFramed(Frame(m)) <=> BodyLength(size) = size
      BY <1>5, <1>6, Zenon DEF IsFramed
    <2> QED
      BY <2>1, <2>2
  <1>9. Len(Field(m, transid)) <= LongestTransid <=> n <= 497
    BY <1>1 DEF Field, transid, LongestTransid
  <1> QED
    BY <1>4, <1>7, <1>8, <1>9

\* n is m with the field f set to a short string s.
HasSet(n, m, f, s) ==
  /\ n = SetField(m, f, s) /\ ShortStrings(n) /\ Clean(n)
  /\ n.has = m.has \cup {f} /\ n.unknown = m.unknown /\ n.str[f] = s
  /\ \A g \in Fields : g # f => n.str[g] = m.str[g]

LEMMA SetFieldSmall ==
  ASSUME NEW m \in Messages, ShortStrings(m), Clean(m),
         NEW f \in Fields, NEW s \in Seq(Bytes), Len(s) <= Cutoff
  PROVE  \E n \in Messages : HasSet(n, m, f, s)
  <1> DEFINE n == SetField(m, f, s)
  <1>1. n \in Messages
    BY OperationTypes
  <1>2. /\ n.has = m.has \cup {f} /\ n.unknown = m.unknown /\ n.str[f] = s
        /\ \A g \in Fields : g # f => n.str[g] = m.str[g]
    BY DEF SetField, Messages
  <1> HIDE DEF n
  <1>3. ShortStrings(n)
    BY <1>2 DEF ShortStrings
  <1>4. Clean(n)
    BY <1>2 DEF Clean
  <1> QED
    BY <1>1, <1>2, <1>3, <1>4 DEF n, HasSet

\* The strings of the protocol.
LEMMA ProtocolStrings ==
  /\ CIA_LOGIN_RESPONSE \in Seq(Bytes) /\ Len(CIA_LOGIN_RESPONSE) = 6
  /\ CIA_CALL_RESPONSE \in Seq(Bytes) /\ Len(CIA_CALL_RESPONSE) = 6
  /\ CIA_LOGIN_SUCCESS \in Seq(Bytes) /\ Len(CIA_LOGIN_SUCCESS) = 2
  /\ \A code \in CallStatuses : code \in Seq(Bytes) /\ Len(code) = 2
  <1>1. {48, 49, 51, 56, 57} \subseteq Bytes
    BY DEF Bytes
  <1>2. /\ CIA_LOGIN_RESPONSE \in Seq(Bytes) /\ Len(CIA_LOGIN_RESPONSE) = 6
        /\ CIA_CALL_RESPONSE \in Seq(Bytes) /\ Len(CIA_CALL_RESPONSE) = 6
        /\ CIA_LOGIN_SUCCESS \in Seq(Bytes) /\ Len(CIA_LOGIN_SUCCESS) = 2
    BY <1>1 DEF CIA_LOGIN_RESPONSE, CIA_CALL_RESPONSE, CIA_LOGIN_SUCCESS
  <1>3. CIA_CALL_SUCCESS \in Seq(Bytes) /\ Len(CIA_CALL_SUCCESS) = 2
    BY <1>1 DEF CIA_CALL_SUCCESS
  <1>4. CIA_CALL_FAIL \in Seq(Bytes) /\ Len(CIA_CALL_FAIL) = 2
    BY <1>1 DEF CIA_CALL_FAIL
  <1>5. CIA_CALL_TIMEOUT \in Seq(Bytes) /\ Len(CIA_CALL_TIMEOUT) = 2
    BY <1>1 DEF CIA_CALL_TIMEOUT
  <1> QED
    BY <1>2, <1>3, <1>4, <1>5 DEF CallStatuses

\* The answers are of that kind.
LEMMA AnswersAreSmall ==
  ASSUME NEW m \in Messages, ShortStrings(m), Clean(m), NEW answer \in AnswersTo(m)
  PROVE  /\ answer \in Messages /\ ShortStrings(answer) /\ Clean(answer)
         /\ answer.has \in {{1, 3}, {1, 3, 8}} /\ answer.unknown = <<>>
         /\ Len(answer.str[1]) = 6 /\ Len(answer.str[3]) = 2
  <1>1. PICK e \in Messages :
          /\ e = NewMessage /\ e = Clear(m) /\ ShortStrings(e) /\ Clean(e)
          /\ e.has = {} /\ e.unknown = <<>>
    <2>1. NewMessage \in Messages /\ Clear(m) = NewMessage
      BY ClearForgets, OperationTypes
    <2>2. /\ ShortStrings(NewMessage) /\ Clean(NewMessage)
          /\ NewMessage.has = {} /\ NewMessage.unknown = <<>>
      BY DEF NewMessage, ShortStrings, Clean, Cutoff
    <2> QED
      BY <2>1, <2>2, Zenon
  <1>2. 1 \in Fields /\ 3 \in Fields /\ 8 \in Fields /\ 6 <= Cutoff /\ 2 <= Cutoff
    BY DEF Fields, Cutoff
  <1>3. CASE answer = LoginResponse(m)
    <2>1. PICK a \in Messages : HasSet(a, e, 1, CIA_LOGIN_RESPONSE)
      <3>1. CIA_LOGIN_RESPONSE \in Seq(Bytes) /\ Len(CIA_LOGIN_RESPONSE) <= Cutoff
        BY <1>2, ProtocolStrings
      <3>2. ShortStrings(e) /\ Clean(e)
        BY <1>1
      <3> QED
        BY <1>2, <3>1, <3>2, SetFieldSmall
    <2>2. PICK b \in Messages : HasSet(b, a, 3, CIA_LOGIN_SUCCESS)
      <3>1. CIA_LOGIN_SUCCESS \in Seq(Bytes) /\ Len(CIA_LOGIN_SUCCESS) <= Cutoff
        BY <1>2, ProtocolStrings
      <3>2. ShortStrings(a) /\ Clean(a)
        BY <2>1 DEF HasSet
      <3> QED
        BY <1>2, <3>1, <3>2, SetFieldSmall
    <2>3. answer = b
      BY <1>1, <1>3, <2>1, <2>2, Zenon DEF HasSet, LoginResponse, type, status
    <2>4. b.has = {1, 3} /\ b.unknown = <<>>
      BY <1>1, <2>1, <2>2 DEF HasSet
    <2>5. b.str[1] = CIA_LOGIN_RESPONSE /\ b.str[3] = CIA_LOGIN_SUCCESS
      BY <1>2, <2>1, <2>2 DEF HasSet
    <2> QED
      BY <2>2, <2>3, <2>4, <2>5, ProtocolStrings DEF HasSet
  <1>4. ASSUME NEW code \in CallStatuses, answer = CallResponse(Field(m, transid), code)
        PROVE  /\ answer \in Messages /\ ShortStrings(answer) /\ Clean(answer)
               /\ answer.has = {1, 3, 8} /\ answer.unknown = <<>>
               /\ Len(answer.str[1]) = 6 /\ Len(answer.str[3]) = 2
    <2>1. PICK id \in Seq(Bytes) : id = Field(m, transid) /\ Len(id) <= Cutoff
      BY <1>2 DEF Field, transid, Messages, ShortStrings
    <2>2. PICK a \in Messages : HasSet(a, e, 1, CIA_CALL_RESPONSE)
      <3>1. CIA_CALL_RESPONSE \in Seq(Bytes) /\ Len(CIA_CALL_RESPONSE) <= Cutoff
        BY <1>2, ProtocolStrings
      <3>2. ShortStrings(e) /\ Clean(e)
        BY <1>1
      <3> QED
        BY <1>2, <3>1, <3>2, SetFieldSmall
    <2>3. PICK b \in Messages : HasSet(b, a, 8, id)
      <3>1. id \in Seq(Bytes) /\ Len(id) <= Cutoff
        BY <1>2, <2>1
      <3>2. ShortStrings(a) /\ Clean(a)
        BY <2>2 DEF HasSet
      <3> QED
        BY <1>2, <3>1, <3>2, SetFieldSmall
    <2>4. PICK c \in Messages : HasSet(c, b, 3, code)
      <3>1. code \in Seq(Bytes) /\ Len(code) <= Cutoff
        BY <1>2, ProtocolStrings
      <3>2. ShortStrings(b) /\ Clean(b)
        BY <2>3 DEF HasSet
      <3> QED
        BY <1>2, <3>1, <3>2, SetFieldSmall
    <2>5. answer = c
      BY <1>1, <1>4, <2>1, <2>2, <2>3, <2>4, Zenon DEF HasSet, CallResponse, type, transid, status
    <2>6. c.has = {1, 3, 8} /\ c.unknown = <<>>
      BY <1>1, <2>2, <2>3, <2>4 DEF HasSet
    <2>7. c.str[1] = CIA_CALL_RESPONSE /\ c.str[3] = code
      BY <1>2, <2>2, <2>3, <2>4 DEF HasSet
    <2> QED
      BY <2>4, <2>5, <2>6, <2>7, ProtocolStrings DEF HasSet
  <1> QED
    BY <1>3, <1>4 DEF AnswersTo

(***************************************************************************)
(* Whatever body was accepted, the answer to it is announced with the      *)
(* length it has, and stays in the buffer, exactly if its transid has at   *)
(* most 497 bytes: no other field, no unknown one and no reused object     *)
(* gets into an answer.                                                    *)
(***************************************************************************)
THEOREM AnswersFitTheirFrames == Spec => []AnswersAreFramed
  <1>1. ParserInv /\ StringsFit => AnswersAreFramed
    <2> SUFFICES ASSUME ParserInv, StringsFit, At("done"), result, NEW answer \in AnswersTo(msg)
                 PROVE  /\ FitsBuffer(Frame(answer)) <=> Len(Field(answer, transid)) <= LongestTransid
                        /\ IsFramed(Frame(answer)) <=> FitsBuffer(Frame(answer))
      BY DEF AnswersAreFramed
    <2>1. msg \in Messages /\ ShortStrings(msg) /\ Clean(msg)
      BY DEF ParserInv, TypeOK, AbsentFieldsAreEmpty, StringsFit, At
    <2> QED
      BY <2>1, AnswersAreSmall, AnswerIsFramed
  <1> QED
    BY <1>1, ParserInvariant, StringsAlwaysFit, PTL

------------------------------------------------------------------------------
(* Pieces of a body                                                         *)

\* Numbers of two-byte varints, whatever they are the sizes of.
LEMMA SizesAreCutoff == Sizes = 0 .. Cutoff
  BY DEF Sizes, Cutoff

\* A piece is its tag and what comes after it, and takes at least a byte.
LEMMA PieceTypes ==
  ASSUME NEW p \in WirePieces
  PROVE  /\ p.tag \in 0 .. Cutoff /\ p.value \in Seq(Bytes)
         /\ WriteVarint(p.tag) \in Seq(Bytes) /\ Len(WriteVarint(p.tag)) \in {1, 2}
         /\ AfterTag(p) \in Seq(Bytes)
         /\ PieceBytes(p) \in Seq(Bytes)
         /\ PieceBytes(p) = WriteVarint(p.tag) \o AfterTag(p)
         /\ Len(PieceBytes(p)) = Len(WriteVarint(p.tag)) + Len(AfterTag(p))
  <1>1. p.tag \in 0 .. Cutoff /\ p.value \in Seq(Bytes) /\ IsPiece(p)
    BY SizesAreCutoff DEF WirePieces
  <1>2. WriteVarint(p.tag) \in Seq(Bytes) /\ Len(WriteVarint(p.tag)) \in {1, 2}
    BY <1>1, VarintLength DEF VarintSize
  <1>3. AfterTag(p) \in Seq(Bytes)
    <2>1. CASE HoldsString(p)
      <3>1. Len(p.value) \in 0 .. Cutoff
        <4>1. ~Ends(p) /\ ~HoldsVarint(p)
          BY <2>1 DEF HoldsString, Ends, HoldsVarint, LengthDelimited, EndGroup, WireType, FieldNumber
        <4> QED
          BY <1>1, <4>1, SizesAreCutoff DEF IsPiece
      <3>2. WriteVarint(Len(p.value)) \in Seq(Bytes)
        BY <3>1, VarintLength
      <3> QED
        BY <1>1, <2>1, <3>2 DEF AfterTag
    <2>2. CASE ~HoldsString(p)
      BY <1>1, <2>2 DEF AfterTag
    <2> QED
      BY <2>1, <2>2
  <1>4. PieceBytes(p) = WriteVarint(p.tag) \o AfterTag(p)
    BY DEF PieceBytes
  <1> QED
    BY <1>1, <1>2, <1>3, <1>4

\* The recursion of BytesOf has a solution, and that is the one it takes.
LEMMA BytesOfTable ==
  ASSUME NEW ps, NEW n \in Nat, \A i \in 1 .. n : PieceBytes(ps[i]) \in Seq(Bytes)
  PROVE  \E f \in Tables(n, Seq(Bytes)) :
           /\ f[0] = <<>>
           /\ \A i \in 1 .. n : f[i] = f[i - 1] \o PieceBytes(ps[i])
           /\ BytesOf(ps, n) = f[n]
  <1> DEFINE T == Seq(Bytes)
             step == [i \in 1 .. n |-> [b \in T |-> b \o PieceBytes(ps[i])]]
             UpTo(f) == [i \in 0 .. n |-> IF i = 0 THEN <<>> ELSE f[i - 1] \o PieceBytes(ps[i])]
             f == CHOOSE x : x = UpTo(x)
  <1>1. step \in Steps(n, T) /\ <<>> \in T
    BY DEF Steps
  <1>2. \A i \in 1 .. n : \A b \in T :
          step[i][b] = b \o PieceBytes(ps[i]) /\ b \o PieceBytes(ps[i]) \in T
    OBVIOUS
  <1> HIDE DEF T, step
  <1>3. PICK g \in Tables(n, T) : g[0] = <<>> /\ \A i \in 1 .. n : g[i] = step[i][g[i - 1]]
    BY <1>1, Recursion
  <1>4. g = UpTo(g)
    <2>1. \A i \in 1 .. n : g[i] = g[i - 1] \o PieceBytes(ps[i])
      BY <1>2, <1>3, StepBack DEF Tables
    <2>2. g = [i \in 0 .. n |-> g[i]]
      BY DEF Tables
    <2>3. \A i \in 0 .. n : g[i] = IF i = 0 THEN <<>> ELSE g[i - 1] \o PieceBytes(ps[i])
      BY <1>3, <2>1, StepBack
    <2> QED
      BY <2>2, <2>3, Zenon
  <1>5. f = UpTo(f)
    <2> HIDE DEF UpTo
    <2> QED
      BY <1>4
  <1>6. BytesOf(ps, n) = f[n]
    BY DEF BytesOf
  <1> HIDE DEF f
  <1>7. f[0] = <<>> /\ \A i \in 1 .. n : f[i] = f[i - 1] \o PieceBytes(ps[i])
    <2>1. \A i \in 0 .. n : UpTo(f)[i] = IF i = 0 THEN <<>> ELSE f[i - 1] \o PieceBytes(ps[i])
      OBVIOUS
    <2> HIDE DEF UpTo
    <2>2. \A i \in 0 .. n : f[i] = UpTo(f)[i]
      BY <1>5, Zenon
    <2>3. \A i \in 0 .. n : f[i] = IF i = 0 THEN <<>> ELSE f[i - 1] \o PieceBytes(ps[i])
      BY <2>1, <2>2
    <2>4. f[0] = <<>>
      <3>1. 0 \in 0 .. n
        OBVIOUS
      <3> QED
        BY <2>3, <3>1
    <2>5. ASSUME NEW i \in 1 .. n PROVE f[i] = f[i - 1] \o PieceBytes(ps[i])
      BY <2>3, StepBack
    <2> QED
      BY <2>4, <2>5
  <1>8. \A i \in 0 .. n : f[i] \in T
    <2> DEFINE G == {i \in 0 .. n : f[i] \in T}
    <2>1. 0 \in G
      BY <1>1, <1>7
    <2>2. ASSUME NEW i \in 1 .. n, i - 1 \in G PROVE i \in G
      BY <1>2, <1>7, <2>2, StepBack
    <2> HIDE DEF G
    <2>3. 0 .. n \subseteq G
      BY <2>1, <2>2, UpToInduction
    <2> QED
      BY <2>3 DEF G
  <1>9. f \in Tables(n, T)
    BY <1>5, <1>8 DEF Tables
  <1> QED
    BY <1>6, <1>7, <1>9 DEF T

\* The bytes of k pieces are those of one less and the bytes of the last.
LEMMA BytesOfSteps ==
  ASSUME NEW ps, NEW n \in Nat, \A i \in 1 .. n : PieceBytes(ps[i]) \in Seq(Bytes)
  PROVE  /\ BytesOf(ps, 0) = <<>>
         /\ \A k \in 0 .. n : BytesOf(ps, k) \in Seq(Bytes)
         /\ \A k \in 1 .. n : BytesOf(ps, k) = BytesOf(ps, k - 1) \o PieceBytes(ps[k])
  <1>1. BytesOf(ps, 0) = <<>>
    <2>1. 0 \in Nat /\ \A i \in 1 .. 0 : PieceBytes(ps[i]) \in Seq(Bytes)
      OBVIOUS
    <2> QED
      BY <2>1, BytesOfTable
  <1>2. ASSUME NEW k \in 0 .. n PROVE BytesOf(ps, k) \in Seq(Bytes)
    <2>1. k \in Nat /\ \A i \in 1 .. k : PieceBytes(ps[i]) \in Seq(Bytes)
      OBVIOUS
    <2>2. PICK f \in Tables(k, Seq(Bytes)) : BytesOf(ps, k) = f[k]
      BY <2>1, BytesOfTable
    <2> QED
      BY <2>1, <2>2 DEF Tables
  <1>3. ASSUME NEW k \in 1 .. n PROVE BytesOf(ps, k) = BytesOf(ps, k - 1) \o PieceBytes(ps[k])
    <2>1. PICK j \in Nat : j = k - 1
      OBVIOUS
    <2>2. /\ k \in Nat /\ \A i \in 1 .. k : PieceBytes(ps[i]) \in Seq(Bytes)
          /\ \A i \in 1 .. j : PieceBytes(ps[i]) \in Seq(Bytes) /\ i \in 1 .. k
          /\ k \in 1 .. k /\ j \in 0 .. j
      BY <2>1
    <2>3. PICK f \in Tables(k, Seq(Bytes)) :
            /\ f[0] = <<>> /\ \A i \in 1 .. k : f[i] = f[i - 1] \o PieceBytes(ps[i])
            /\ BytesOf(ps, k) = f[k]
      BY <2>2, BytesOfTable
    <2>4. PICK g \in Tables(j, Seq(Bytes)) :
            /\ g[0] = <<>> /\ \A i \in 1 .. j : g[i] = g[i - 1] \o PieceBytes(ps[i])
            /\ BytesOf(ps, j) = g[j]
      BY <2>2, BytesOfTable
    <2>5. f[0] = g[0] /\ \A i \in 1 .. j : f[i - 1] = g[i - 1] => f[i] = g[i]
      BY <2>2, <2>3, <2>4
    <2>6. \A i \in 0 .. j : f[i] = g[i]
      <3> DEFINE G == {i \in 0 .. j : f[i] = g[i]}
      <3>1. 0 \in G /\ \A i \in 1 .. j : i - 1 \in G => i \in G
        BY <2>5, StepBack
      <3> HIDE DEF G
      <3>2. 0 .. j \subseteq G
        BY <3>1, UpToInduction
      <3> QED
        BY <3>2 DEF G
    <2>7. f[k] = f[j] \o PieceBytes(ps[k])
      BY <2>1, <2>2, <2>3
    <2> QED
      BY <2>1, <2>2, <2>3, <2>4, <2>6, <2>7
  <1> QED
    BY <1>1, <1>2, <1>3

\* The tags of fields are the known ones.
LEMMA FieldTags ==
  /\ \A f \in Fields : Tag(f) \in 0 .. Cutoff /\ Tag(f) \in Nat /\ FieldNumber(Tag(f)) = f
                       /\ WireType(Tag(f)) = LengthDelimited /\ Tag(f) # 0
  /\ \A p : IsField(p) <=> KnownTag(p.tag)
  <1>1. \A f \in Fields : Tag(f) \in 0 .. Cutoff /\ Tag(f) \in Nat /\ FieldNumber(Tag(f)) = f
                          /\ WireType(Tag(f)) = LengthDelimited /\ Tag(f) # 0
    BY UpToCutoff DEF Tag, FieldNumber, WireType, Fields, LengthDelimited
  <1>2. \A p : IsField(p) <=> KnownTag(p.tag)
    BY <1>1 DEF IsField, KnownTag
  <1> QED
    BY <1>1, <1>2

\* A piece makes a message of a message.
LEMMA ApplyType ==
  ASSUME NEW m \in Messages, NEW p \in WirePieces
  PROVE  Apply(m, p) \in Messages
  <1>1. p.value \in Seq(Bytes) /\ PieceBytes(p) \in Seq(Bytes)
    BY PieceTypes
  <1>2. CASE IsField(p)
    <2>1. FieldNumber(p.tag) \in Fields
      BY <1>2, FieldTags DEF IsField
    <2> QED
      BY <1>1, <1>2, <2>1, OperationTypes DEF Apply
  <1>3. CASE ~IsField(p)
    <2>1. m.unknown \o PieceBytes(p) \in Seq(Bytes)
      BY <1>1 DEF Messages
    <2> QED
      BY <1>3, <2>1 DEF Apply, Messages
  <1> QED
    BY <1>2, <1>3

\* The same for the message the pieces make.
LEMMA DenotesTable ==
  ASSUME NEW ps, NEW n \in Nat, \A i \in 1 .. n : ps[i] \in WirePieces
  PROVE  \E f \in Tables(n, Messages) :
           /\ f[0] = NewMessage
           /\ \A i \in 1 .. n : f[i] = Apply(f[i - 1], ps[i])
           /\ Denotes(ps, n) = f[n]
  <1> DEFINE T == Messages
             step == [i \in 1 .. n |-> [b \in T |-> Apply(b, ps[i])]]
             UpTo(f) == [i \in 0 .. n |-> IF i = 0 THEN NewMessage ELSE Apply(f[i - 1], ps[i])]
             f == CHOOSE x : x = UpTo(x)
  <1>1. step \in Steps(n, T) /\ NewMessage \in T
    BY ApplyType, OperationTypes DEF Steps
  <1>2. \A i \in 1 .. n : \A b \in T :
          step[i][b] = Apply(b, ps[i]) /\ Apply(b, ps[i]) \in T
    BY ApplyType
  <1> HIDE DEF T, step
  <1>3. PICK g \in Tables(n, T) : g[0] = NewMessage /\ \A i \in 1 .. n : g[i] = step[i][g[i - 1]]
    BY <1>1, Recursion
  <1>4. g = UpTo(g)
    <2>1. \A i \in 1 .. n : g[i] = Apply(g[i - 1], ps[i])
      BY <1>2, <1>3, StepBack DEF Tables
    <2>2. g = [i \in 0 .. n |-> g[i]]
      BY DEF Tables
    <2>3. \A i \in 0 .. n : g[i] = IF i = 0 THEN NewMessage ELSE Apply(g[i - 1], ps[i])
      BY <1>3, <2>1, StepBack
    <2> QED
      BY <2>2, <2>3, Zenon
  <1>5. f = UpTo(f)
    <2> HIDE DEF UpTo
    <2> QED
      BY <1>4
  <1>6. Denotes(ps, n) = f[n]
    BY DEF Denotes
  <1> HIDE DEF f
  <1>7. f[0] = NewMessage /\ \A i \in 1 .. n : f[i] = Apply(f[i - 1], ps[i])
    <2>1. \A i \in 0 .. n : UpTo(f)[i] = IF i = 0 THEN NewMessage ELSE Apply(f[i - 1], ps[i])
      OBVIOUS
    <2> HIDE DEF UpTo
    <2>2. \A i \in 0 .. n : f[i] = UpTo(f)[i]
      BY <1>5, Zenon
    <2>3. \A i \in 0 .. n : f[i] = IF i = 0 THEN NewMessage ELSE Apply(f[i - 1], ps[i])
      BY <2>1, <2>2
    <2>4. f[0] = NewMessage
      <3>1. 0 \in 0 .. n
        OBVIOUS
      <3> QED
        BY <2>3, <3>1
    <2>5. ASSUME NEW i \in 1 .. n PROVE f[i] = Apply(f[i - 1], ps[i])
      BY <2>3, StepBack
    <2> QED
      BY <2>4, <2>5
  <1>8. \A i \in 0 .. n : f[i] \in T
    <2> DEFINE G == {i \in 0 .. n : f[i] \in T}
    <2>1. 0 \in G
      BY <1>1, <1>7
    <2>2. ASSUME NEW i \in 1 .. n, i - 1 \in G PROVE i \in G
      BY <1>2, <1>7, <2>2, StepBack
    <2> HIDE DEF G
    <2>3. 0 .. n \subseteq G
      BY <2>1, <2>2, UpToInduction
    <2> QED
      BY <2>3 DEF G
  <1>9. f \in Tables(n, T)
    BY <1>5, <1>8 DEF Tables
  <1> QED
    BY <1>6, <1>7, <1>9 DEF T

\* What k pieces make is what the last one does to what one less make.
LEMMA DenotesSteps ==
  ASSUME NEW ps, NEW n \in Nat, \A i \in 1 .. n : ps[i] \in WirePieces
  PROVE  /\ Denotes(ps, 0) = NewMessage
         /\ \A k \in 0 .. n : Denotes(ps, k) \in Messages
         /\ \A k \in 1 .. n : Denotes(ps, k) = Apply(Denotes(ps, k - 1), ps[k])
  <1>1. Denotes(ps, 0) = NewMessage
    <2>1. 0 \in Nat /\ \A i \in 1 .. 0 : ps[i] \in WirePieces
      OBVIOUS
    <2> QED
      BY <2>1, DenotesTable
  <1>2. ASSUME NEW k \in 0 .. n PROVE Denotes(ps, k) \in Messages
    <2>1. k \in Nat /\ \A i \in 1 .. k : ps[i] \in WirePieces
      OBVIOUS
    <2>2. PICK f \in Tables(k, Messages) : Denotes(ps, k) = f[k]
      BY <2>1, DenotesTable
    <2> QED
      BY <2>1, <2>2 DEF Tables
  <1>3. ASSUME NEW k \in 1 .. n PROVE Denotes(ps, k) = Apply(Denotes(ps, k - 1), ps[k])
    <2>1. PICK j \in Nat : j = k - 1
      OBVIOUS
    <2>2. /\ k \in Nat /\ \A i \in 1 .. k : ps[i] \in WirePieces
          /\ \A i \in 1 .. j : ps[i] \in WirePieces /\ i \in 1 .. k
          /\ k \in 1 .. k /\ j \in 0 .. j
      BY <2>1
    <2>3. PICK f \in Tables(k, Messages) :
            /\ f[0] = NewMessage /\ \A i \in 1 .. k : f[i] = Apply(f[i - 1], ps[i])
            /\ Denotes(ps, k) = f[k]
      BY <2>2, DenotesTable
    <2>4. PICK g \in Tables(j, Messages) :
            /\ g[0] = NewMessage /\ \A i \in 1 .. j : g[i] = Apply(g[i - 1], ps[i])
            /\ Denotes(ps, j) = g[j]
      BY <2>2, DenotesTable
    <2>5. f[0] = g[0] /\ \A i \in 1 .. j : f[i - 1] = g[i - 1] => f[i] = g[i]
      BY <2>2, <2>3, <2>4
    <2>6. \A i \in 0 .. j : f[i] = g[i]
      <3> DEFINE G == {i \in 0 .. j : f[i] = g[i]}
      <3>1. 0 \in G /\ \A i \in 1 .. j : i - 1 \in G => i \in G
        BY <2>5, StepBack
      <3> HIDE DEF G
      <3>2. 0 .. j \subseteq G
        BY <3>1, UpToInduction
      <3> QED
        BY <3>2 DEF G
    <2>7. f[k] = Apply(f[j], ps[k])
      BY <2>1, <2>2, <2>3
    <2> QED
      BY <2>1, <2>2, <2>3, <2>4, <2>6, <2>7
  <1> QED
    BY <1>1, <1>2, <1>3

------------------------------------------------------------------------------
(* A body in front of the parser                                            *)

(***************************************************************************)
(* The body is what the pieces ps write, without the last cut bytes.       *)
(***************************************************************************)
Sent(ps, cut) ==
  /\ ps \in Seq(WirePieces) /\ cut \in Cuts(ps)
  /\ wire = PieceBody(ps, cut).wire
  /\ expected = [ok |-> PieceBody(ps, cut).ok, msg |-> PieceBody(ps, cut).msg]

\* The bytes of the first pieces are at the beginning of those of all pieces.
LEMMA PiecePrefix ==
  ASSUME NEW ps \in Seq(WirePieces), NEW n \in 0 .. Len(ps), NEW k \in 0 .. n
  PROVE  /\ BytesOf(ps, k) \in Seq(Bytes) /\ BytesOf(ps, n) \in Seq(Bytes)
         /\ Len(BytesOf(ps, k)) \in Nat /\ Len(BytesOf(ps, n)) \in Nat
         /\ Len(BytesOf(ps, k)) <= Len(BytesOf(ps, n))
         /\ \A x \in 1 .. Len(BytesOf(ps, k)) : BytesOf(ps, n)[x] = BytesOf(ps, k)[x]
  <1> DEFINE B(i) == BytesOf(ps, i)
  <1>1. Len(ps) \in Nat /\ \A i \in 1 .. Len(ps) : ps[i] \in WirePieces
    BY LenProperties, ElementOfSeq
  <1>2. \A i \in 1 .. Len(ps) : PieceBytes(ps[i]) \in Seq(Bytes)
    BY <1>1, PieceTypes
  <1>3. /\ \A i \in 0 .. Len(ps) : B(i) \in Seq(Bytes) /\ Len(B(i)) \in Nat
        /\ \A i \in 1 .. Len(ps) : B(i) = B(i - 1) \o PieceBytes(ps[i])
    BY <1>1, <1>2, BytesOfSteps, LenProperties
  <1> HIDE DEF B
  <1> DEFINE Begins(i) == Len(B(k)) <= Len(B(i)) /\ \A x \in 1 .. Len(B(k)) : B(i)[x] = B(k)[x]
             G == {d \in 0 .. n - k : Begins(k + d)}
  <1>4. n - k \in Nat /\ k \in Nat /\ n \in Nat
    BY <1>1
  <1>5. 0 \in G
    BY <1>1, <1>3
  <1>6. ASSUME NEW d \in 1 .. n - k, d - 1 \in G PROVE d \in G
    <2>1. PICK i \in 1 .. Len(ps) : i = k + d
      BY <1>1
    <2>2. i - 1 = k + (d - 1) /\ i - 1 \in 0 .. Len(ps) /\ i \in 0 .. Len(ps)
      BY <1>1, <2>1
    <2>3. Begins(i - 1)
      BY <1>6, <2>2
    <2>4. B(i) = B(i - 1) \o PieceBytes(ps[i])
      BY <1>3
    <2>5. B(i - 1) \in Seq(Bytes) /\ PieceBytes(ps[i]) \in Seq(Bytes)
      BY <1>2, <1>3, <2>2
    <2>6. /\ Len(B(i)) = Len(B(i - 1)) + Len(PieceBytes(ps[i]))
          /\ \A x \in 1 .. Len(B(i - 1)) + Len(PieceBytes(ps[i])) :
               B(i)[x] = IF x <= Len(B(i - 1)) THEN B(i - 1)[x]
                         ELSE PieceBytes(ps[i])[x - Len(B(i - 1))]
      BY <2>4, <2>5, ConcatProperties
    <2>7. /\ Len(B(k)) \in Nat /\ Len(B(i - 1)) \in Nat /\ Len(PieceBytes(ps[i])) \in Nat
      BY <1>1, <1>3, <2>2, <2>5, LenProperties
    <2>8. Begins(i)
      <3>1. Len(B(k)) <= Len(B(i))
        BY <2>3, <2>6, <2>7
      <3>2. ASSUME NEW x \in 1 .. Len(B(k)) PROVE B(i)[x] = B(k)[x]
        <4>1. x \in 1 .. Len(B(i - 1)) + Len(PieceBytes(ps[i])) /\ x <= Len(B(i - 1))
          BY <2>3, <2>7
        <4> QED
          BY <2>3, <2>6, <4>1
      <3> QED
        BY <3>1, <3>2
    <2> HIDE DEF Begins
    <2> QED
      BY <2>1, <2>8
  <1>7. 0 .. n - k \subseteq G
    <2>1. PICK d \in Nat : d = n - k
      BY <1>4
    <2> HIDE DEF G
    <2>2. 0 .. d \subseteq G
      <3>1. \A i \in 1 .. d : i - 1 \in G => i \in G
        BY <1>6, <2>1
      <3> QED
        BY <1>5, <3>1, UpToInduction
    <2> QED
      BY <2>1, <2>2
  <1>8. Begins(n)
    <2>1. n - k \in G /\ k + (n - k) = n
      BY <1>4, <1>7
    <2> HIDE DEF Begins
    <2> QED
      BY <2>1
  <1> QED
    BY <1>1, <1>3, <1>8 DEF B

\* The bytes of the first k pieces end with the k-th one.
LEMMA PieceSteps ==
  ASSUME NEW ps \in Seq(WirePieces), NEW k \in 1 .. Len(ps)
  PROVE  /\ BytesOf(ps, k) = BytesOf(ps, k - 1) \o PieceBytes(ps[k])
         /\ Len(BytesOf(ps, k)) = Len(BytesOf(ps, k - 1)) + Len(PieceBytes(ps[k]))
         /\ Len(BytesOf(ps, k - 1)) \in Nat /\ Len(PieceBytes(ps[k])) \in Nat
         /\ ps[k] \in WirePieces
         /\ Denotes(ps, k) = Apply(Denotes(ps, k - 1), ps[k])
         /\ Denotes(ps, k - 1) \in Messages
  <1>1. Len(ps) \in Nat /\ \A i \in 1 .. Len(ps) : ps[i] \in WirePieces
    BY LenProperties, ElementOfSeq
  <1>2. \A i \in 1 .. Len(ps) : PieceBytes(ps[i]) \in Seq(Bytes)
    BY <1>1, PieceTypes
  <1>3. /\ \A i \in 0 .. Len(ps) : BytesOf(ps, i) \in Seq(Bytes)
        /\ \A i \in 1 .. Len(ps) : BytesOf(ps, i) = BytesOf(ps, i - 1) \o PieceBytes(ps[i])
    BY <1>1, <1>2, BytesOfSteps
  <1>4. /\ \A i \in 0 .. Len(ps) : Denotes(ps, i) \in Messages
        /\ \A i \in 1 .. Len(ps) : Denotes(ps, i) = Apply(Denotes(ps, i - 1), ps[i])
    BY <1>1, DenotesSteps
  <1>5. k - 1 \in 0 .. Len(ps) /\ k \in 0 .. Len(ps)
    BY <1>1
  <1>6. BytesOf(ps, k - 1) \in Seq(Bytes) /\ PieceBytes(ps[k]) \in Seq(Bytes)
    BY <1>2, <1>3, <1>5
  <1>7. Len(BytesOf(ps, k - 1) \o PieceBytes(ps[k]))
          = Len(BytesOf(ps, k - 1)) + Len(PieceBytes(ps[k]))
    BY <1>6, ConcatProperties
  <1> QED
    BY <1>1, <1>3, <1>4, <1>5, <1>6, <1>7, LenProperties

\* What the body is and what it stands for.
LEMMA SentBody ==
  ASSUME NEW ps, NEW cut, Sent(ps, cut)
  PROVE  /\ ps \in Seq(WirePieces) /\ Len(ps) \in Nat /\ cut \in Nat
         /\ Len(ps) = 0 => cut = 0
         /\ Len(ps) > 0 => cut <= Len(PieceBytes(ps[Len(ps)])) - 1
         /\ Len(BytesOf(ps, Len(ps))) \in Nat
         /\ Len(wire) = Len(BytesOf(ps, Len(ps))) - cut
         /\ \A x \in 1 .. Len(wire) : wire[x] = BytesOf(ps, Len(ps))[x]
         /\ expected.ok = (/\ cut = 0 /\ \A i \in 1 .. Len(ps) : ~Ends(ps[i])
                           /\ IsInitialized(Denotes(ps, Len(ps))))
         /\ expected.msg = Denotes(ps, Len(ps))
  <1> DEFINE n == Len(ps)
             b == BytesOf(ps, n)
  <1>1. ps \in Seq(WirePieces) /\ n \in Nat
    BY LenProperties DEF Sent
  <1>2. b \in Seq(Bytes) /\ Len(b) \in Nat
    BY <1>1, PiecePrefix
  <1>3. ASSUME n = 0 PROVE cut = 0
    <2>1. ps = <<>>
      BY <1>1, <1>3, EmptySeq
    <2>2. cut = 0
      BY <2>1 DEF Sent, Cuts
    <2> QED
      BY <2>2
  <1>4. /\ n > 0 => /\ cut <= Len(PieceBytes(ps[n])) - 1 /\ cut \in Nat
                    /\ cut <= Len(b)
        /\ n = 0 => cut = 0
    <2>1. CASE n > 0
      <3>1. n \in 1 .. Len(ps) /\ ps # <<>>
        BY <1>1, <2>1
      <3>2. /\ Len(b) = Len(BytesOf(ps, n - 1)) + Len(PieceBytes(ps[n]))
            /\ Len(BytesOf(ps, n - 1)) \in Nat /\ Len(PieceBytes(ps[n])) \in Nat
        BY <1>1, <3>1, PieceSteps
      <3>3. cut \in 0 .. Len(PieceBytes(ps[n])) - 1
        BY <3>1 DEF Sent, Cuts
      <3> QED
        BY <2>1, <3>2, <3>3
    <2> QED
      BY <1>1, <1>3, <2>1
  <1>5. cut \in Nat /\ cut <= Len(b)
    BY <1>1, <1>2, <1>4
  <1>6. wire = SubSeq(b, 1, Len(b) - cut)
    BY DEF Sent, PieceBody
  <1> HIDE DEF b
  <1>7. Len(wire) = Len(b) - cut /\ \A x \in 1 .. Len(wire) : wire[x] = b[x]
    <2>1. PICK e \in Nat : e = Len(b) - cut
      BY <1>2, <1>5
    <2>2. 1 \in Int /\ e \in Int /\ \A i \in 1 .. e : b[i] \in Bytes
      BY <1>2, <1>5, <2>1
    <2>3. /\ Len(SubSeq(b, 1, e)) = IF 1 <= e THEN e - 1 + 1 ELSE 0
          /\ \A i \in 1 .. e - 1 + 1 : SubSeq(b, 1, e)[i] = b[1 + i - 1]
      BY <2>2, SubSeqProperties
    <2>4. Len(wire) = e
      BY <1>6, <2>1, <2>3
    <2>5. ASSUME NEW x \in 1 .. e PROVE wire[x] = b[x]
      <3>1. x \in 1 .. e - 1 + 1 /\ 1 + x - 1 = x
        BY <2>1
      <3> QED
        BY <1>6, <2>1, <2>3, <3>1
    <2> QED
      BY <2>1, <2>4, <2>5
  <1>8. /\ expected.ok = (/\ cut = 0 /\ \A i \in 1 .. n : ~Ends(ps[i])
                          /\ IsInitialized(Denotes(ps, n)))
        /\ expected.msg = Denotes(ps, n)
    BY DEF Sent, PieceBody
  <1> QED
    BY <1>1, <1>2, <1>4, <1>5, <1>7, <1>8 DEF b

\* The bytes s come next, as far as the body goes.
Ahead(s) == \A x \in 1 .. Len(s) : x <= Left => Peek(x) = s[x]

(***************************************************************************)
(* In front of the parser, inside the piece after the k-th, is the rest of *)
(* that piece; if the body ends before it, the body was cut.               *)
(***************************************************************************)
LEMMA WhatIsAhead ==
  ASSUME TypeOK, ReadsWithinBody, NEW ps, NEW cut, Sent(ps, cut), NEW k \in 0 .. Len(ps) - 1,
         NEW a \in Seq(Bytes), NEW b \in Seq(Bytes), PieceBytes(ps[k + 1]) = a \o b,
         pos = Len(BytesOf(ps, k)) + Len(a)
  PROVE  /\ Ahead(b)
         /\ Left < Len(b) => ~expected.ok
         /\ a = <<>> => Left > 0
  <1> DEFINE n == Len(ps)
             B(i) == BytesOf(ps, i)
             p == PieceBytes(ps[k + 1])
  <1>1. /\ ps \in Seq(WirePieces) /\ n \in Nat /\ cut \in Nat /\ Len(B(n)) \in Nat
        /\ Len(wire) = Len(B(n)) - cut
    BY SentBody
  <1>a. \A x \in 1 .. Len(wire) : wire[x] = B(n)[x]
    BY SentBody
  <1>b. cut > 0 => ~expected.ok
    <2>1. expected.ok = (/\ cut = 0 /\ \A i \in 1 .. Len(ps) : ~Ends(ps[i])
                         /\ IsInitialized(Denotes(ps, Len(ps))))
      BY SentBody
    <2>2. cut > 0 => cut # 0
      BY <1>1
    <2> QED
      BY <2>1, <2>2, Zenon
  <1>2. k + 1 \in 1 .. n /\ k + 1 \in 0 .. n /\ k \in 0 .. n /\ n \in 1 .. n /\ n > 0 /\ (k + 1) - 1 = k
        /\ n \in 0 .. n
    BY <1>1
  <1>3. cut <= Len(PieceBytes(ps[n])) - 1
    BY <1>2, SentBody
  <1>4. /\ B(k + 1) = B(k) \o p /\ Len(B(k + 1)) = Len(B(k)) + Len(p)
        /\ Len(B(k)) \in Nat /\ Len(p) \in Nat
    BY <1>1, <1>2, PieceSteps
  <1>5. /\ Len(B(n)) = Len(B(n - 1)) + Len(PieceBytes(ps[n]))
        /\ Len(B(n - 1)) \in Nat /\ Len(PieceBytes(ps[n])) \in Nat
    BY <1>1, <1>2, PieceSteps
  <1>6. Len(p) = Len(a) + Len(b) /\ Len(a) \in Nat /\ Len(b) \in Nat
    BY ConcatProperties, LenProperties
  <1>c. \A x \in 1 .. Len(a) + Len(b) : p[x] = IF x <= Len(a) THEN a[x] ELSE b[x - Len(a)]
    BY ConcatProperties
  <1>7. Left = Len(wire) - pos /\ Left \in Nat /\ Len(wire) \in Nat
    BY WhatIsLeft
  <1>8. \A x \in 1 .. Len(B(k + 1)) : B(n)[x] = B(k + 1)[x]
    BY <1>1, <1>2, PiecePrefix
  <1>d. Len(B(k + 1)) <= Len(B(n))
    BY <1>1, <1>2, PiecePrefix
  <1>9. B(k) \in Seq(Bytes) /\ p \in Seq(Bytes)
    BY <1>1, <1>2, PiecePrefix
  <1>10. \A x \in 1 .. Len(B(k)) + Len(p) :
           B(k + 1)[x] = IF x <= Len(B(k)) THEN B(k)[x] ELSE p[x - Len(B(k))]
    BY <1>4, <1>9, ConcatProperties
  <1>e. pos = Len(B(k)) + Len(a) /\ pos \in Nat
    BY DEF TypeOK
  <1> HIDE DEF B, p
  <1>11. ASSUME NEW x \in 1 .. Len(b), x <= Left PROVE Peek(x) = b[x]
    <2>d. /\ pos \in Nat /\ Len(wire) \in Nat /\ Len(B(k)) \in Nat /\ Len(a) \in Nat
          /\ Len(b) \in Nat /\ Len(B(k + 1)) \in Nat /\ x \in Nat
      <3>1. Len(B(k + 1)) \in Nat
        BY <1>4
      <3> QED
        BY <1>4, <1>6, <1>7, <1>e, <3>1
    <2>a. PICK q \in Nat, w \in Nat, bk \in Nat, la \in Nat, lb \in Nat, bn \in Nat, y \in Nat :
            /\ q = pos /\ w = Len(wire) /\ bk = Len(B(k)) /\ la = Len(a) /\ lb = Len(b)
            /\ bn = Len(B(k + 1)) /\ y = x
      BY <2>d, Zenon
    <2>b. q = bk + la /\ y >= 1 /\ y <= lb /\ y <= w - q /\ bn = bk + (la + lb)
      BY <1>4, <1>6, <1>7, <1>11, <1>e, <2>a
    <2>c. q + y \in 1 .. w /\ q + y \in 1 .. bn /\ ~(q + y <= bk) /\ q + y - bk = la + y
      BY <2>b
    <2>1. pos + x \in 1 .. Len(wire) /\ pos + x \in 1 .. Len(B(k + 1))
      BY <2>a, <2>c
    <2>2. wire[pos + x] = B(k + 1)[pos + x]
      BY <1>8, <1>a, <2>1
    <2>3. /\ pos + x \in 1 .. Len(B(k)) + Len(p) /\ ~(pos + x <= Len(B(k)))
          /\ pos + x - Len(B(k)) = Len(a) + x
      BY <1>4, <2>a, <2>c
    <2>4. B(k + 1)[pos + x] = p[Len(a) + x]
      <3>1. PICK u : u = pos + x
        OBVIOUS
      <3>2. u \in 1 .. Len(B(k)) + Len(p) /\ ~(u <= Len(B(k))) /\ u - Len(B(k)) = Len(a) + x
        BY <2>3, <3>1
      <3>3. B(k + 1)[u] = IF u <= Len(B(k)) THEN B(k)[u] ELSE p[u - Len(B(k))]
        BY <1>10, <3>2, Zenon
      <3>4. B(k + 1)[u] = p[u - Len(B(k))]
        BY <3>2, <3>3, Zenon
      <3> QED
        BY <3>1, <3>2, <3>4, Zenon
    <2>5. Len(a) + x \in 1 .. Len(a) + Len(b) /\ ~(Len(a) + x <= Len(a)) /\ (Len(a) + x) - Len(a) = x
      BY <1>6
    <2>6. p[Len(a) + x] = b[x]
      BY <1>c, <2>5
    <2> QED
      BY <2>2, <2>4, <2>6 DEF Peek
  <1>12. CASE k + 1 = n
    <2>1. Left = Len(b) - cut
      <3>1. Len(B(n)) = Len(B(k + 1))
        BY <1>12
      <3>2. PICK w \in Nat, c \in Nat, bk \in Nat, la \in Nat, lb \in Nat :
              /\ w = Len(wire) /\ c = cut /\ bk = Len(B(k)) /\ la = Len(a) /\ lb = Len(b)
        BY <1>1, <1>4, <1>6, <1>7
      <3>3. w = (bk + (la + lb)) - c
        BY <1>1, <1>4, <1>6, <3>1, <3>2
      <3>4. Left = w - (bk + la)
        BY <1>7, <1>e, <3>2
      <3> QED
        BY <3>2, <3>3, <3>4
    <2>2. Left < Len(b) => cut > 0
      BY <1>1, <1>6, <2>1
    <2>3. a = <<>> => Len(a) = 0
      OBVIOUS
    <2>4. p = PieceBytes(ps[n])
      BY <1>12 DEF p
    <2> QED
      BY <1>1, <1>3, <1>6, <1>11, <1>b, <2>1, <2>2, <2>3, <2>4 DEF Ahead
  <1>13. CASE k + 1 # n
    <2>1. k + 1 \in 0 .. n - 1 /\ n - 1 \in 0 .. Len(ps)
      BY <1>1, <1>13
    <2>2. Len(B(k + 1)) <= Len(B(n - 1))
      BY <1>1, <2>1, PiecePrefix DEF B
    <2>a. PICK c \in Nat, pn_ \in Nat, bn \in Nat, bm \in Nat, bk \in Nat, la \in Nat, lb \in Nat :
            /\ c = cut /\ pn_ = Len(PieceBytes(ps[n])) /\ bn = Len(B(n)) /\ bm = Len(B(n - 1))
            /\ bk = Len(B(k)) /\ la = Len(a) /\ lb = Len(b)
      BY <1>1, <1>4, <1>5, <1>6
    <2>b. c <= pn_ - 1 /\ bn = bm + pn_ /\ bk + (la + lb) <= bm
      BY <1>3, <1>4, <1>5, <1>6, <2>2, <2>a
    <2>c. Left = (bn - c) - (bk + la)
      BY <1>1, <1>7, <1>e, <2>a
    <2>3. Left > Len(b)
      BY <2>a, <2>b, <2>c
    <2> QED
      BY <1>6, <1>7, <1>11, <2>3 DEF Ahead
  <1> QED
    BY <1>12, <1>13

\* After the last piece nothing is ahead, and nothing was cut.
LEMMA NothingAhead ==
  ASSUME TypeOK, ReadsWithinBody, NEW ps, NEW cut, Sent(ps, cut),
         pos = Len(BytesOf(ps, Len(ps)))
  PROVE  Left = 0 /\ cut = 0
  <1>1. /\ cut \in Nat /\ Len(BytesOf(ps, Len(ps))) \in Nat
        /\ Len(wire) = Len(BytesOf(ps, Len(ps))) - cut
    BY SentBody
  <1>2. Left = Len(wire) - pos /\ pos <= Len(wire)
    BY WhatIsLeft DEF ReadsWithinBody
  <1> QED
    BY <1>1, <1>2

\* The beginning of what comes next comes next.
LEMMA AheadFirst ==
  ASSUME NEW a \in Seq(Bytes), NEW b \in Seq(Bytes), Ahead(a \o b)
  PROVE  Ahead(a)
  <1>1. Len(a \o b) = Len(a) + Len(b) /\ Len(a) \in Nat /\ Len(b) \in Nat
    BY ConcatProperties, LenProperties
  <1>2. \A x \in 1 .. Len(a) + Len(b) : (a \o b)[x] = IF x <= Len(a) THEN a[x] ELSE b[x - Len(a)]
    BY ConcatProperties
  <1>3. \A x \in 1 .. Len(a) : x \in 1 .. Len(a) + Len(b) /\ x <= Len(a)
    BY <1>1
  <1>4. \A x \in 1 .. Len(a) + Len(b) : x <= Left => Peek(x) = (a \o b)[x]
    BY <1>1 DEF Ahead
  <1> QED
    BY <1>2, <1>3, <1>4 DEF Ahead

\* A number up to the cutoff is put together from its groups again.
LEMMA GroupsMakeNumber ==
  \A n \in 0 .. Cutoff : (((n % 128) + 128) - 128) + 128 * (n \div 128) = n
  <1>1. \A n \in Int : n = 128 * (n \div 128) + (n % 128) /\ n \div 128 \in Int /\ n % 128 \in Int
    OBVIOUS
  <1> SUFFICES ASSUME NEW n \in 0 .. Cutoff
               PROVE  (((n % 128) + 128) - 128) + 128 * (n \div 128) = n
    OBVIOUS
  <1>2. PICK q \in Int, r \in Int : q = n \div 128 /\ r = n % 128 /\ n = 128 * q + r
    BY <1>1
  <1> QED
    BY <1>2

\* A varint that comes next is read whole, or not at all if the body ends in it.
LEMMA VarintAhead ==
  ASSUME TypeOK, ReadsWithinBody, NEW v \in Seq(Bytes), IsVarint(v), Ahead(v)
  PROVE  /\ Left >= Len(v) => VarintBytes = Len(v)
         /\ Left < Len(v) => VarintBytes = 0
  <1>1. Left \in Nat
    BY WhatIsLeft
  <1>2. CASE Len(v) = 1 /\ v[1] < 128
    <2>1. Left >= 1 => Peek(1) = v[1]
      BY <1>2 DEF Ahead
    <2>2. \A x \in Nat : x >= 1 \/ (x < 1 /\ ~(x >= 1) /\ ~(x >= 2))
      OBVIOUS
    <2> QED
      BY <1>1, <1>2, <2>1, <2>2 DEF VarintBytes
  <1>3. CASE Len(v) = 2 /\ v[1] >= 128 /\ v[2] < 128
    <2>1. (Left >= 1 => Peek(1) = v[1]) /\ (Left >= 2 => Peek(2) = v[2])
      BY <1>3 DEF Ahead
    <2>2. v[1] \in 0 .. 255 /\ ~(v[1] < 128)
      <3>1. v[1] \in 0 .. 255 /\ v[1] >= 128
        <4>1. v[1] \in Bytes
          BY <1>3, ElementOfSeq
        <4> QED
          BY <1>3, <4>1, Zenon DEF Bytes
      <3>2. \A x \in 0 .. 255 : x >= 128 => ~(x < 128)
        OBVIOUS
      <3> QED
        BY <3>1, <3>2, Zenon
    <2> QED
      BY <1>1, <1>3, <2>1, <2>2 DEF VarintBytes
  <1> QED
    BY <1>2, <1>3 DEF IsVarint

\* The same for a number, and its value.
LEMMA NumberAhead ==
  ASSUME TypeOK, ReadsWithinBody, NEW n \in 0 .. Cutoff, Ahead(WriteVarint(n))
  PROVE  /\ Left >= Len(WriteVarint(n)) => VarintBytes = Len(WriteVarint(n)) /\ VarintValue = n
         /\ Left < Len(WriteVarint(n)) => VarintBytes = 0 /\ VarintValue = 0
  <1>1. Left \in Nat
    BY WhatIsLeft
  <1>2. CASE n < 128
    <2>1. WriteVarint(n) = <<n>>
      BY <1>2 DEF WriteVarint
    <2>2. IsVarint(<<n>>) /\ <<n>> \in Seq(Bytes) /\ Len(<<n>>) = 1 /\ <<n>>[1] = n
      BY <1>2, <2>1, VarintLength DEF IsVarint
    <2>3. (Left >= 1 => VarintBytes = 1) /\ (Left < 1 => VarintBytes = 0)
      BY <2>1, <2>2, VarintAhead
    <2>4. Left >= 1 => Peek(1) = n
      BY <2>1, <2>2 DEF Ahead
    <2> QED
      BY <2>1, <2>2, <2>3, <2>4 DEF VarintValue
  <1>3. CASE n >= 128
    <2> DEFINE lo == (n % 128) + 128
               hi == n \div 128
    <2>1. WriteVarint(n) = <<lo, hi>>
      BY <1>3 DEF WriteVarint
    <2>2. lo \in 128 .. 255 /\ hi \in 0 .. 127
      BY SevenBits
    <2>3. (lo - 128) + 128 * hi = n
      BY GroupsMakeNumber
    <2>4. <<lo, hi>> \in Seq(Bytes)
      BY <2>1, VarintLength
    <2> HIDE DEF lo, hi
    <2>5. IsVarint(<<lo, hi>>) /\ Len(<<lo, hi>>) = 2 /\ <<lo, hi>>[1] = lo /\ <<lo, hi>>[2] = hi
      BY <2>2 DEF IsVarint
    <2>6. (Left >= 2 => VarintBytes = 2) /\ (Left < 2 => VarintBytes = 0)
      BY <2>1, <2>4, <2>5, VarintAhead
    <2>7. Left >= 2 => Peek(1) = lo /\ Peek(2) = hi
      BY <1>1, <2>1, <2>5 DEF Ahead
    <2> QED
      BY <2>1, <2>3, <2>5, <2>6, <2>7 DEF VarintValue
  <1>4. n < 128 \/ n >= 128
    BY DEF Cutoff
  <1> QED
    BY <1>2, <1>3, <1>4

\* A tag that ExpectTag finds is the one ReadTag would read.
LEMMA FollowsIsRead ==
  ASSUME TypeOK, ReadsWithinBody, NEW t \in 0 .. Cutoff, TagFollows(t)
  PROVE  VarintBytes = VarintSize(t) /\ VarintValue = t /\ Left >= VarintSize(t)
  <1>1. CASE t < 128
    BY <1>1 DEF TagFollows, VarintBytes, VarintValue, VarintSize
  <1>2. CASE t >= 128
    <2> DEFINE lo == (t % 128) + 128
               hi == t \div 128
    <2>1. Left >= 2 /\ Peek(1) = lo /\ Peek(2) = hi
      BY <1>2 DEF TagFollows
    <2>2. lo \in 128 .. 255 /\ hi \in 0 .. 127
      BY SevenBits
    <2>3. (lo - 128) + 128 * hi = t
      BY GroupsMakeNumber
    <2> HIDE DEF lo, hi
    <2>4. VarintBytes = 2
      BY <2>1, <2>2 DEF VarintBytes
    <2> QED
      BY <1>2, <2>1, <2>3, <2>4 DEF VarintValue, VarintSize
  <1>3. t < 128 \/ t >= 128
    BY DEF Cutoff
  <1> QED
    BY <1>1, <1>2, <1>3

\* What comes next after a is b, if the body goes that far.
LEMMA AheadTaken ==
  ASSUME TypeOK, ReadsWithinBody, NEW a \in Seq(Bytes), NEW b \in Seq(Bytes), Ahead(a \o b),
         Len(a) + Len(b) <= Left
  PROVE  SubSeq(wire, pos + Len(a) + 1, pos + (Len(a) + Len(b))) = b
  <1>1. /\ Len(a \o b) = Len(a) + Len(b) /\ Len(a) \in Nat /\ Len(b) \in Nat
        /\ Left = Len(wire) - pos /\ pos \in Nat /\ Len(wire) \in Nat /\ wire \in Seq(Bytes)
    BY ConcatProperties, LenProperties, WhatIsLeft DEF TypeOK
  <1>2. \A x \in 1 .. Len(a) + Len(b) : (a \o b)[x] = IF x <= Len(a) THEN a[x] ELSE b[x - Len(a)]
    BY ConcatProperties
  <1>3. PICK q \in Nat, la \in Nat, lb \in Nat, w \in Nat :
          q = pos /\ la = Len(a) /\ lb = Len(b) /\ w = Len(wire)
    BY <1>1
  <1>4. la + lb <= w - q
    BY <1>1, <1>3
  <1>5. ASSUME NEW y \in 1 .. lb PROVE wire[q + (la + y)] = b[y]
    <2>1. /\ la + y \in 1 .. la + lb /\ ~(la + y <= la) /\ (la + y) - la = y
          /\ la + y <= w - q
      BY <1>4
    <2>2. Peek(la + y) = (a \o b)[la + y]
      BY <1>1, <1>3, <2>1 DEF Ahead
    <2>3. (a \o b)[la + y] = b[y]
      BY <1>2, <1>3, <2>1
    <2> QED
      BY <1>3, <2>2, <2>3 DEF Peek
  <1>6. PICK f \in Int, e \in Int : f = q + la + 1 /\ e = q + (la + lb)
    OBVIOUS
  <1>7. \A i \in f .. e : i \in 1 .. Len(wire)
    BY <1>3, <1>4, <1>6
  <1>8. \A i \in f .. e : wire[i] \in Bytes
    BY <1>1, <1>7, ElementOfSeq
  <1>9. /\ SubSeq(wire, f, e) \in Seq(Bytes)
        /\ Len(SubSeq(wire, f, e)) = IF f <= e THEN e - f + 1 ELSE 0
        /\ \A i \in 1 .. e - f + 1 : SubSeq(wire, f, e)[i] = wire[f + i - 1]
    BY <1>8, SubSeqProperties
  <1>10. e - f + 1 = lb /\ (IF f <= e THEN e - f + 1 ELSE 0) = lb
    BY <1>6
  <1>11. \A y \in 1 .. lb : f + y - 1 = q + (la + y)
    BY <1>6
  <1>12. Len(SubSeq(wire, f, e)) = Len(b)
    BY <1>3, <1>9, <1>10
  <1>13. \A y \in 1 .. Len(b) : SubSeq(wire, f, e)[y] = b[y]
    BY <1>3, <1>5, <1>9, <1>10, <1>11
  <1>14. SubSeq(wire, f, e) = b
    BY <1>9, <1>12, <1>13, SeqEqual
  <1> QED
    BY <1>3, <1>6, <1>14

\* A piece that is no end holds a string after its length, or a varint.
LEMMA PieceKinds ==
  ASSUME NEW p \in WirePieces
  PROVE  /\ KnownTag(p.tag) => HoldsString(p)
         /\ ~Ends(p) => HoldsString(p) \/ HoldsVarint(p)
         /\ ~Ends(p) <=> p.tag # 0 /\ WireType(p.tag) # EndGroup
         /\ HoldsString(p) => /\ p.tag # 0 /\ WireType(p.tag) = LengthDelimited
                              /\ Len(p.value) \in 0 .. Cutoff
                              /\ AfterTag(p) = WriteVarint(Len(p.value)) \o p.value
         /\ HoldsVarint(p) => /\ p.tag # 0 /\ WireType(p.tag) = 0 /\ ~HoldsString(p)
                              /\ IsVarint(p.value) /\ AfterTag(p) = p.value
  <1>1. IsPiece(p)
    BY DEF WirePieces
  <1>2. KnownTag(p.tag) => HoldsString(p)
    <2> SUFFICES ASSUME KnownTag(p.tag) PROVE HoldsString(p)
      OBVIOUS
    <2>1. FieldNumber(p.tag) \in Fields /\ WireType(p.tag) = LengthDelimited
      BY FieldTags DEF KnownTag
    <2> QED
      BY <2>1 DEF HoldsString, Fields
  <1>3. ~Ends(p) => HoldsString(p) \/ HoldsVarint(p)
    BY <1>1 DEF IsPiece
  <1>4. ~Ends(p) <=> p.tag # 0 /\ WireType(p.tag) # EndGroup
    BY DEF Ends
  <1>5. HoldsString(p) => p.tag # 0 /\ WireType(p.tag) = LengthDelimited /\ ~HoldsVarint(p) /\ ~Ends(p)
    <2>1. FieldNumber(0) = 0
      BY DEF FieldNumber
    <2> QED
      BY <2>1 DEF HoldsString, HoldsVarint, Ends, LengthDelimited, EndGroup
  <1>6. HoldsVarint(p) => p.tag # 0 /\ WireType(p.tag) = 0 /\ ~HoldsString(p) /\ ~Ends(p)
    BY DEF HoldsString, HoldsVarint, Ends, LengthDelimited, EndGroup
  <1>7. HoldsString(p) => Len(p.value) \in 0 .. Cutoff
    BY <1>1, <1>5, SizesAreCutoff DEF IsPiece
  <1>8. HoldsVarint(p) => IsVarint(p.value)
    BY <1>1, <1>6 DEF IsPiece
  <1> QED
    BY <1>2, <1>3, <1>4, <1>5, <1>6, <1>7, <1>8 DEF AfterTag

\* What comes next whole is what is taken.
LEMMA WholeAhead ==
  ASSUME TypeOK, ReadsWithinBody, NEW b \in Seq(Bytes), Ahead(b), Len(b) <= Left
  PROVE  SubSeq(wire, pos + 1, pos + Len(b)) = b
  <1>1. <<>> \o b = b /\ <<>> \in Seq(Bytes) /\ Len(<<>>) = 0 /\ Len(b) \in Nat /\ pos \in Nat
    BY LenProperties, ConcatEmptySeq DEF TypeOK
  <1>2. PICK z \in Nat : z = Len(<<>>) /\ z = 0
    BY <1>1
  <1>3. z + Len(b) = Len(b) /\ pos + z + 1 = pos + 1
    BY <1>1, <1>2
  <1>4. SubSeq(wire, pos + z + 1, pos + (z + Len(b))) = b
    BY <1>1, <1>2, <1>3, AheadTaken
  <1> QED
    BY <1>3, <1>4

\* A string after its length is read whole, or the body ends in it.
LEMMA StringAhead ==
  ASSUME TypeOK, ReadsWithinBody, NEW s \in Seq(Bytes), Len(s) \in 0 .. Cutoff,
         Ahead(WriteVarint(Len(s)) \o s)
  PROVE  /\ Len(WriteVarint(Len(s)) \o s) <= Left =>
              /\ VarintBytes > 0 /\ ValueIsThere
              /\ ValueEnd = Len(WriteVarint(Len(s)) \o s)
              /\ SubSeq(wire, pos + VarintBytes + 1, pos + ValueEnd) = s
         /\ Left < Len(WriteVarint(Len(s)) \o s) => ~ValueIsThere
  <1> DEFINE v == WriteVarint(Len(s))
  <1>1. v \in Seq(Bytes) /\ Len(v) \in {1, 2}
    BY VarintLength DEF VarintSize
  <1>2. Ahead(v)
    BY <1>1, AheadFirst
  <1>3. /\ Left >= Len(v) => VarintBytes = Len(v) /\ VarintValue = Len(s)
        /\ Left < Len(v) => VarintBytes = 0
    BY <1>2, NumberAhead
  <1> HIDE DEF v
  <1>4. Len(v \o s) = Len(v) + Len(s) /\ Len(s) \in Nat /\ Left \in Nat
    BY <1>1, ConcatProperties, LenProperties, WhatIsLeft
  <1>5. CASE Left >= Len(v)
    <2>1. ValueEnd = Len(v) + Len(s) /\ VarintBytes = Len(v)
      BY <1>3, <1>5 DEF ValueEnd
    <2>2. Len(v) + Len(s) <= Left => SubSeq(wire, pos + Len(v) + 1, pos + (Len(v) + Len(s))) = s
      BY <1>1, AheadTaken DEF v
    <2> QED
      BY <1>1, <1>4, <2>1, <2>2 DEF ValueIsThere, v
  <1>6. CASE Left < Len(v)
    <2>1. VarintBytes = 0
      BY <1>3, <1>6
    <2>2. ~(Len(v \o s) <= Left)
      BY <1>1, <1>4, <1>6
    <2> QED
      BY <2>1, <2>2 DEF ValueIsThere, v
  <1> QED
    BY <1>1, <1>4, <1>5, <1>6

------------------------------------------------------------------------------
(* The parser understands the body                                          *)

(***************************************************************************)
(* Where the parser stands: before the piece after the first k, or behind  *)
(* the tag of that piece.                                                  *)
(***************************************************************************)
Between(ps, k) ==
  /\ pc \in {"tag", "next"}
  /\ \A i \in 1 .. k : ~Ends(ps[i])
  /\ msg = Denotes(ps, k)
  /\ pos = Len(BytesOf(ps, k))

Within(ps, k) ==
  /\ pc = (IF KnownTag(tag) THEN "read" ELSE "unusual")
  /\ k < Len(ps) /\ tag = ps[k + 1].tag
  /\ \A i \in 1 .. k + 1 : ~Ends(ps[i])
  /\ msg = Denotes(ps, k)
  /\ pos = Len(BytesOf(ps, k)) + Len(WriteVarint(tag))

\* The outcome is certain once the loop is left.
Decided ==
  IF atEnd THEN expected.ok = IsInitialized(msg) /\ msg = expected.msg ELSE ~expected.ok

\* The tag of the next piece.
LEMMA TagAhead ==
  ASSUME ParserInv, NEW ps, NEW cut, Sent(ps, cut), NEW k \in 0 .. Len(ps), Between(ps, k),
         k # Len(ps)
  PROVE  /\ k + 1 \in 1 .. Len(ps) /\ ps[k + 1] \in WirePieces
         /\ Left > 0
         /\ Ahead(WriteVarint(ps[k + 1].tag))
         /\ Left < Len(WriteVarint(ps[k + 1].tag)) => ~expected.ok
         /\ Ends(ps[k + 1]) => ~expected.ok
  <1>1. /\ ps \in Seq(WirePieces) /\ Len(ps) \in Nat
        /\ expected.ok = (/\ cut = 0 /\ \A i \in 1 .. Len(ps) : ~Ends(ps[i])
                          /\ IsInitialized(Denotes(ps, Len(ps))))
    BY SentBody
  <1>2. k \in 0 .. Len(ps) - 1 /\ k + 1 \in 1 .. Len(ps) /\ k \in Nat
    BY <1>1
  <1>3. ps[k + 1] \in WirePieces
    BY <1>1, <1>2, ElementOfSeq
  <1> DEFINE t == WriteVarint(ps[k + 1].tag)
             r == AfterTag(ps[k + 1])
             b == PieceBytes(ps[k + 1])
  <1>4. /\ b \in Seq(Bytes) /\ t \in Seq(Bytes) /\ r \in Seq(Bytes) /\ b = t \o r
        /\ Len(b) = Len(t) + Len(r) /\ Len(t) \in {1, 2} /\ Len(r) \in Nat
    BY <1>3, PieceTypes, LenProperties
  <1>5. <<>> \o b = b /\ Len(<<>>) = 0 /\ <<>> \in Seq(Bytes)
    BY <1>4, ConcatEmptySeq
  <1>6. Len(BytesOf(ps, k)) \in Nat
    <2>1. k \in 0 .. Len(ps) /\ k \in 0 .. k
      BY <1>2
    <2> QED
      BY <1>1, <2>1, PiecePrefix
  <1>7. pos = Len(BytesOf(ps, k)) + Len(<<>>)
    BY <1>5, <1>6 DEF Between
  <1>8. Ahead(b) /\ (Left < Len(b) => ~expected.ok) /\ Left > 0
    BY <1>2, <1>4, <1>5, <1>7, WhatIsAhead DEF ParserInv
  <1>9. Ahead(t)
    BY <1>4, <1>8, AheadFirst
  <1>10. Left \in Nat
    BY WhatIsLeft DEF ParserInv
  <1>11. Left < Len(t) => ~expected.ok
    BY <1>4, <1>8, <1>10
  <1>12. Ends(ps[k + 1]) => ~expected.ok
    BY <1>1, <1>2, Zenon
  <1> QED
    BY <1>2, <1>3, <1>8, <1>9, <1>11, <1>12

\* What follows the tag, and where that leads.
LEMMA RestAhead ==
  ASSUME ParserInv, NEW ps, NEW cut, Sent(ps, cut), NEW k \in 0 .. Len(ps), Within(ps, k)
  PROVE  /\ k + 1 \in 0 .. Len(ps) /\ ps[k + 1] \in WirePieces /\ ~Ends(ps[k + 1])
         /\ Ahead(AfterTag(ps[k + 1]))
         /\ Left < Len(AfterTag(ps[k + 1])) => ~expected.ok
         /\ Len(BytesOf(ps, k + 1)) = pos + Len(AfterTag(ps[k + 1]))
         /\ Denotes(ps, k + 1) = Apply(msg, ps[k + 1])
  <1>1. ps \in Seq(WirePieces) /\ Len(ps) \in Nat
    BY SentBody
  <1>2. /\ k \in 0 .. Len(ps) - 1 /\ k + 1 \in 1 .. Len(ps) /\ k \in Nat /\ (k + 1) - 1 = k
        /\ k + 1 \in 1 .. k + 1 /\ k + 1 \in 0 .. Len(ps)
    BY <1>1 DEF Within
  <1>3. ps[k + 1] \in WirePieces
    BY <1>1, <1>2, ElementOfSeq
  <1> DEFINE t == WriteVarint(ps[k + 1].tag)
             r == AfterTag(ps[k + 1])
             b == PieceBytes(ps[k + 1])
  <1>4. /\ b \in Seq(Bytes) /\ t \in Seq(Bytes) /\ r \in Seq(Bytes) /\ b = t \o r
        /\ Len(b) = Len(t) + Len(r) /\ Len(t) \in {1, 2} /\ Len(r) \in Nat
    BY <1>3, PieceTypes, LenProperties
  <1>5. pos = Len(BytesOf(ps, k)) + Len(t)
    BY DEF Within
  <1>6. Ahead(r) /\ (Left < Len(r) => ~expected.ok)
    BY <1>2, <1>4, <1>5, WhatIsAhead DEF ParserInv
  <1>7. /\ Len(BytesOf(ps, k + 1)) = Len(BytesOf(ps, k)) + Len(b) /\ Len(BytesOf(ps, k)) \in Nat
        /\ Denotes(ps, k + 1) = Apply(Denotes(ps, k), ps[k + 1])
    <2>1. /\ Len(BytesOf(ps, k + 1)) = Len(BytesOf(ps, (k + 1) - 1)) + Len(b)
          /\ Len(BytesOf(ps, (k + 1) - 1)) \in Nat
          /\ Denotes(ps, k + 1) = Apply(Denotes(ps, (k + 1) - 1), ps[k + 1])
      BY <1>1, <1>2, PieceSteps
    <2> QED
      BY <1>2, <2>1
  <1>8. ~Ends(ps[k + 1]) /\ msg = Denotes(ps, k)
    BY <1>2 DEF Within
  <1>9. Len(BytesOf(ps, k + 1)) = pos + Len(r)
    BY <1>4, <1>5, <1>7
  <1> QED
    BY <1>2, <1>3, <1>6, <1>7, <1>8, <1>9

\* A step that leaves the body alone leaves its pieces alone.
LEMMA BodyStays ==
  ASSUME NEW ps, NEW cut, Sent(ps, cut), wire' = wire, expected' = expected
  PROVE  Sent(ps, cut)'
  BY DEF Sent

\* Clearing the object starts before the first piece with the empty message.
LEMMA StartMeans ==
  ASSUME ParserInv, NEW ps, NEW cut, Sent(ps, cut), pos = 0, Start
  PROVE  Between(ps, 0)'
  <1>1. msg' = NewMessage
    BY ClearForgets DEF Start, ParserInv, TypeOK, AbsentFieldsAreEmpty
  <1>2. ps \in Seq(WirePieces) /\ Len(ps) \in Nat
    BY SentBody
  <1>3. \A i \in 1 .. 0 : ps[i] \in WirePieces /\ PieceBytes(ps[i]) \in Seq(Bytes) /\ ~Ends(ps[i])
    OBVIOUS
  <1>4. PICK z \in Nat : z = 0
    OBVIOUS
  <1>5. Denotes(ps, z) = NewMessage /\ BytesOf(ps, z) = <<>>
    BY <1>3, <1>4, DenotesSteps, BytesOfSteps
  <1>6. pos' = 0 /\ pc' = "tag"
    BY DEF Start, Goto
  <1>7. Len(<<>>) = 0
    OBVIOUS
  <1> QED
    BY <1>1, <1>3, <1>4, <1>5, <1>6, <1>7 DEF Between

\* The whole body was sent, and no end in it: it is taken if the type is there.
LEMMA WholeBody ==
  ASSUME ParserInv, NEW ps, NEW cut, Sent(ps, cut), cut = 0, \A i \in 1 .. Len(ps) : ~Ends(ps[i]),
         msg = Denotes(ps, Len(ps))
  PROVE  expected.ok = IsInitialized(msg) /\ msg = expected.msg
  <1>1. expected.ok = (/\ cut = 0 /\ \A i \in 1 .. Len(ps) : ~Ends(ps[i])
                       /\ IsInitialized(Denotes(ps, Len(ps))))
    BY SentBody
  <1>2. expected.ok <=> IsInitialized(msg)
    BY <1>1, Zenon
  <1>3. expected.ok \in BOOLEAN /\ IsInitialized(msg) \in BOOLEAN
    BY DEF ParserInv, TypeOK, IsInitialized, HasField
  <1>4. \A a, b \in BOOLEAN : (a <=> b) => a = b
    OBVIOUS
  <1>5. msg = expected.msg
    BY SentBody
  <1> QED
    BY <1>2, <1>3, <1>4, <1>5, Zenon

\* 0 is no tag of a field.
LEMMA NoTag == ~KnownTag(0)
  <1>1. FieldNumber(0) = 0
    BY DEF FieldNumber
  <1> QED
    BY <1>1 DEF KnownTag, Fields

\* Before a piece ReadTag reads its tag, or finds that the body ends.
LEMMA ReadTagMeans ==
  ASSUME ParserInv, NEW ps, NEW cut, Sent(ps, cut), NEW k \in 0 .. Len(ps), Between(ps, k), ReadTag
  PROVE  \/ Within(ps, k)'
         \/ /\ pc' = "unusual" /\ (tag' = 0 \/ WireType(tag') = EndGroup)
            /\ Decided'
  <1>1. /\ ps \in Seq(WirePieces) /\ Len(ps) \in Nat
        /\ expected.ok = (/\ cut = 0 /\ \A i \in 1 .. Len(ps) : ~Ends(ps[i])
                          /\ IsInitialized(Denotes(ps, Len(ps))))
        /\ expected.msg = Denotes(ps, Len(ps))
    BY SentBody
  <1>2. /\ tag' = VarintValue /\ pos' = pos + VarintBytes /\ atEnd' = (Left = 0)
        /\ pc' = (IF KnownTag(VarintValue) THEN "read" ELSE "unusual")
        /\ wire' = wire /\ expected' = expected /\ msg' = msg
    BY DEF ReadTag, Goto
  <1>3. Left \in Nat
    BY WhatIsLeft DEF ParserInv
  <1>4. CASE k = Len(ps)
    <2>1. Left = 0 /\ cut = 0
      BY <1>4, NothingAhead DEF ParserInv, Between
    <2>2. VarintValue = 0
      BY <2>1 DEF VarintValue, VarintBytes
    <2>3. expected.ok = IsInitialized(msg) /\ msg = expected.msg
      <3>1. msg = Denotes(ps, Len(ps)) /\ \A i \in 1 .. Len(ps) : ~Ends(ps[i])
        BY <1>4 DEF Between
      <3> QED
        BY <2>1, <3>1, WholeBody
    <2>4. Decided'
      BY <1>2, <2>1, <2>3 DEF Decided
    <2> QED
      BY <1>2, <2>2, <2>4, NoTag
  <1>5. CASE k # Len(ps)
    <2> DEFINE p == ps[k + 1]
               t == WriteVarint(p.tag)
    <2>1. /\ k + 1 \in 1 .. Len(ps) /\ p \in WirePieces /\ Left > 0
          /\ Ahead(t) /\ (Left < Len(t) => ~expected.ok) /\ (Ends(p) => ~expected.ok)
      BY <1>5, TagAhead
    <2>2. p.tag \in 0 .. Cutoff /\ Len(t) \in {1, 2}
      BY <2>1, PieceTypes
    <2>3. /\ Left >= Len(t) => VarintBytes = Len(t) /\ VarintValue = p.tag
          /\ Left < Len(t) => VarintBytes = 0 /\ VarintValue = 0
      BY <2>1, <2>2, NumberAhead DEF ParserInv
    <2>4. ~atEnd'
      <3>1. Left # 0
        BY <1>3, <2>1
      <3> QED
        BY <1>2, <3>1, Zenon
    <2>5. ASSUME ~expected.ok PROVE Decided'
      BY <1>2, <2>4, <2>5 DEF Decided
    <2>6. CASE Left < Len(t)
      BY <1>2, <2>1, <2>3, <2>5, <2>6, NoTag
    <2>7. CASE Left >= Len(t) /\ Ends(p)
      <3>1. ~KnownTag(p.tag) /\ (p.tag = 0 \/ WireType(p.tag) = EndGroup)
        <4>1. KnownTag(p.tag) => p.tag # 0 /\ WireType(p.tag) = LengthDelimited
          BY <2>1, PieceKinds
        <4> QED
          BY <2>7, <4>1 DEF Ends, LengthDelimited, EndGroup
      <3> QED
        BY <1>2, <2>1, <2>3, <2>5, <2>7, <3>1
    <2>8. CASE Left >= Len(t) /\ ~Ends(p)
      <3>1. tag' = p.tag /\ pos' = pos + Len(WriteVarint(p.tag))
        BY <1>2, <2>3, <2>8
      <3>2. k < Len(ps)
        BY <1>1, <1>5
      <3>3. pos' = Len(BytesOf(ps, k)) + Len(WriteVarint(p.tag))
        BY <3>1 DEF Between
      <3>4. \A i \in 1 .. k + 1 : ~Ends(ps[i])
        <4>1. \A i \in 1 .. k + 1 : i \in 1 .. k \/ i = k + 1
          OBVIOUS
        <4> QED
          BY <2>8, <4>1 DEF Between
      <3>5. pc' = (IF KnownTag(tag') THEN "read" ELSE "unusual") /\ msg' = Denotes(ps, k)
        BY <1>2 DEF Between
      <3>6. Within(ps, k)'
        BY <3>1, <3>2, <3>3, <3>4, <3>5 DEF Within
      <3> QED
        BY <3>6
    <2> QED
      BY <1>3, <2>2, <2>6, <2>7, <2>8
  <1> QED
    BY <1>4, <1>5

\* A string is read and set, or the body ends in it.
LEMMA ReadFieldMeans ==
  ASSUME ParserInv, NEW ps, NEW cut, Sent(ps, cut), NEW k \in 0 .. Len(ps), Within(ps, k), ReadField
  PROVE  \/ k + 1 \in 0 .. Len(ps) /\ Between(ps, k + 1)'
         \/ pc' = "failure" /\ ~expected'.ok
  <1> DEFINE p == ps[k + 1]
             r == AfterTag(p)
             s == p.value
  <1>1. /\ k + 1 \in 0 .. Len(ps) /\ p \in WirePieces /\ ~Ends(p)
        /\ Ahead(r) /\ (Left < Len(r) => ~expected.ok)
        /\ Len(BytesOf(ps, k + 1)) = pos + Len(r)
        /\ Denotes(ps, k + 1) = Apply(msg, p)
    BY RestAhead
  <1>2. KnownTag(p.tag) /\ tag = p.tag
    BY DEF Within, ReadField, At
  <1>3. s \in Seq(Bytes) /\ r \in Seq(Bytes)
    BY <1>1, PieceTypes
  <1>4. Len(s) \in 0 .. Cutoff /\ r = WriteVarint(Len(s)) \o s
    BY <1>1, <1>2, PieceKinds
  <1>5. /\ Len(r) <= Left => ValueIsThere /\ ValueEnd = Len(r)
                             /\ SubSeq(wire, pos + VarintBytes + 1, pos + ValueEnd) = s
        /\ Left < Len(r) => ~ValueIsThere
    BY <1>1, <1>3, <1>4, StringAhead DEF ParserInv
  <1>6. Left \in Nat /\ Len(r) \in Nat
    BY <1>3, WhatIsLeft, LenProperties DEF ParserInv
  <1>7. expected' = expected
    BY DEF ReadField
  <1>8. CASE Len(r) <= Left
    <2>1. msg' = SetField(msg, FieldNumber(tag), s) /\ pos' = pos + Len(r) /\ pc' = "next"
      BY <1>5, <1>8 DEF ReadField, Goto
    <2>2. IsField(p)
      BY <1>2, FieldTags
    <2>3. msg' = Denotes(ps, k + 1)
      BY <1>1, <1>2, <2>1, <2>2 DEF Apply
    <2>4. \A i \in 1 .. k + 1 : ~Ends(ps[i])
      BY DEF Within
    <2>5. Between(ps, k + 1)'
      BY <1>1, <2>1, <2>3, <2>4 DEF Between
    <2> QED
      BY <1>1, <2>5
  <1>9. CASE Left < Len(r)
    <2>1. pc' = "failure"
      BY <1>5, <1>9 DEF ReadField, Goto
    <2> QED
      BY <1>1, <1>7, <1>9, <2>1
  <1> QED
    BY <1>6, <1>8, <1>9

\* Appending twice is appending once.
LEMMA BytesAssociate ==
  ASSUME NEW a \in Seq(Bytes), NEW b \in Seq(Bytes), NEW c \in Seq(Bytes)
  PROVE  (a \o b) \o c = a \o (b \o c)
  BY ConcatAssociative

\* An unknown field is kept, or the body ends in it.
LEMMA SkipFieldMeans ==
  ASSUME ParserInv, NEW ps, NEW cut, Sent(ps, cut), NEW k \in 0 .. Len(ps), Within(ps, k), SkipField
  PROVE  \/ k + 1 \in 0 .. Len(ps) /\ Between(ps, k + 1)'
         \/ pc' = "failure" /\ ~expected'.ok
  <1> DEFINE p == ps[k + 1]
             r == AfterTag(p)
             s == p.value
             end == IF WireType(tag) = LengthDelimited THEN ValueEnd ELSE VarintBytes
  <1>1. /\ k + 1 \in 0 .. Len(ps) /\ p \in WirePieces /\ ~Ends(p)
        /\ Ahead(r) /\ (Left < Len(r) => ~expected.ok)
        /\ Len(BytesOf(ps, k + 1)) = pos + Len(r)
        /\ Denotes(ps, k + 1) = Apply(msg, p)
    BY RestAhead
  <1>2. ~KnownTag(p.tag) /\ tag = p.tag
    BY DEF Within, SkipField, At
  <1>3. s \in Seq(Bytes) /\ r \in Seq(Bytes)
    BY <1>1, PieceTypes
  <1>4. Left \in Nat /\ Len(r) \in Nat
    BY <1>3, WhatIsLeft, LenProperties DEF ParserInv
  <1>5. /\ Len(r) <= Left => VarintBytes > 0 /\ end <= Left /\ end = Len(r)
        /\ Left < Len(r) => ~(VarintBytes > 0 /\ end <= Left)
    <2>1. CASE HoldsString(p)
      <3>1. Len(s) \in 0 .. Cutoff /\ r = WriteVarint(Len(s)) \o s /\ WireType(tag) = LengthDelimited
        BY <1>1, <1>2, <2>1, PieceKinds
      <3>2. /\ Len(r) <= Left => VarintBytes > 0 /\ ValueIsThere /\ ValueEnd = Len(r)
            /\ Left < Len(r) => ~ValueIsThere
        BY <1>1, <1>3, <3>1, StringAhead DEF ParserInv
      <3>3. end = ValueEnd
        BY <3>1
      <3> QED
        BY <3>2, <3>3 DEF ValueIsThere
    <2>2. CASE HoldsVarint(p)
      <3>1. IsVarint(r) /\ WireType(tag) = 0
        BY <1>1, <1>2, <2>2, PieceKinds
      <3>2. end = VarintBytes
        BY <3>1 DEF LengthDelimited
      <3>3. (Left >= Len(r) => VarintBytes = Len(r)) /\ (Left < Len(r) => VarintBytes = 0)
        BY <1>1, <1>3, <3>1, VarintAhead DEF ParserInv
      <3>4. Len(r) > 0
        BY <3>1 DEF IsVarint
      <3> QED
        BY <1>4, <3>2, <3>3, <3>4
    <2> QED
      BY <1>1, <2>1, <2>2, PieceKinds
  <1> HIDE DEF end
  <1>6. /\ expected' = expected
        /\ IF VarintBytes > 0 /\ end <= Left
           THEN /\ msg' = [msg EXCEPT !.unknown = @ \o WriteVarint(tag) \o SubSeq(wire, pos + 1, pos + end)]
                /\ pos' = pos + end
                /\ pc' = "tag"
           ELSE pc' = "failure"
    BY DEF SkipField, Goto, end
  <1>7. CASE Len(r) <= Left
    <2>1. SubSeq(wire, pos + 1, pos + Len(r)) = r
      BY <1>1, <1>3, <1>7, WholeAhead DEF ParserInv
    <2>2. /\ msg' = [msg EXCEPT !.unknown = @ \o WriteVarint(tag) \o r]
          /\ pos' = pos + Len(r) /\ pc' = "tag"
      BY <1>5, <1>6, <1>7, <2>1
    <2>3. ~IsField(p)
      BY <1>2, FieldTags
    <2>4. msg.unknown \o WriteVarint(tag) \o r = msg.unknown \o PieceBytes(p)
      <3>1. msg.unknown \in Seq(Bytes)
        BY DEF ParserInv, TypeOK, Messages
      <3>2. WriteVarint(tag) \in Seq(Bytes) /\ PieceBytes(p) = WriteVarint(tag) \o r
        BY <1>1, <1>2, PieceTypes
      <3>3. (msg.unknown \o WriteVarint(tag)) \o r = msg.unknown \o (WriteVarint(tag) \o r)
        BY <1>3, <3>1, <3>2, BytesAssociate, Zenon
      <3> QED
        BY <3>2, <3>3, Zenon
    <2>5. msg' = Denotes(ps, k + 1)
      BY <1>1, <2>2, <2>3, <2>4 DEF Apply
    <2>6. \A i \in 1 .. k + 1 : ~Ends(ps[i])
      BY DEF Within
    <2>7. Between(ps, k + 1)'
      BY <1>1, <2>2, <2>5, <2>6 DEF Between
    <2> QED
      BY <1>1, <2>7
  <1>8. CASE Left < Len(r)
    BY <1>1, <1>5, <1>6, <1>8
  <1> QED
    BY <1>4, <1>7, <1>8

\* ExpectTag finds only the tag of the piece that comes next.
LEMMA JumpMeans ==
  ASSUME ParserInv, NEW ps, NEW cut, Sent(ps, cut), NEW k \in 0 .. Len(ps), Between(ps, k), Jump
  PROVE  Within(ps, k)'
  <1> DEFINE t == Tag(FieldNumber(tag) + 1)
  <1>1. FieldNumber(tag) + 1 \in Fields /\ TagFollows(t)
    BY DEF Jump
  <1>2. /\ tag' = t /\ pos' = pos + VarintSize(t) /\ pc' = "read" /\ msg' = msg
    BY DEF Jump, Goto
  <1>3. t \in 0 .. Cutoff /\ KnownTag(t)
    BY <1>1, FieldTags DEF KnownTag
  <1> HIDE DEF t
  <1>4. VarintBytes = VarintSize(t) /\ VarintValue = t /\ Left >= VarintSize(t) /\ VarintSize(t) \in {1, 2}
    BY <1>1, <1>3, FollowsIsRead DEF ParserInv, VarintSize
  <1>5. ps \in Seq(WirePieces) /\ Len(ps) \in Nat /\ Left \in Nat
    BY SentBody, WhatIsLeft DEF ParserInv
  <1>6. k # Len(ps)
    <2>1. ASSUME k = Len(ps) PROVE Left = 0
      BY <2>1, NothingAhead DEF ParserInv, Between
    <2> QED
      BY <1>4, <1>5, <2>1
  <1> DEFINE p == ps[k + 1]
             v == WriteVarint(p.tag)
  <1>7. /\ k + 1 \in 1 .. Len(ps) /\ p \in WirePieces /\ Ahead(v)
    BY <1>6, TagAhead
  <1>8. p.tag \in 0 .. Cutoff /\ Len(v) \in {1, 2}
    BY <1>7, PieceTypes
  <1>9. /\ Left >= Len(v) => VarintBytes = Len(v) /\ VarintValue = p.tag
        /\ Left < Len(v) => VarintBytes = 0
    BY <1>7, <1>8, NumberAhead DEF ParserInv
  <1>10. p.tag = t /\ VarintSize(t) = Len(v)
    BY <1>4, <1>5, <1>8, <1>9
  <1>11. ~Ends(p)
    <2>1. HoldsString(p)
      BY <1>3, <1>7, <1>10, PieceKinds
    <2>2. p.tag # 0 /\ WireType(p.tag) = LengthDelimited
      BY <1>7, <2>1, PieceKinds
    <2> QED
      BY <2>2 DEF Ends, LengthDelimited, EndGroup
  <1>12. \A i \in 1 .. k + 1 : ~Ends(ps[i])
    <2>1. \A i \in 1 .. k + 1 : i \in 1 .. k \/ i = k + 1
      OBVIOUS
    <2> QED
      BY <1>11, <2>1 DEF Between
  <1>13. k < Len(ps) /\ msg' = Denotes(ps, k) /\ pos' = Len(BytesOf(ps, k)) + Len(WriteVarint(tag'))
    BY <1>2, <1>5, <1>6, <1>10 DEF Between
  <1> QED
    BY <1>2, <1>3, <1>10, <1>12, <1>13 DEF Within

\* The end of the body behind the last field is the end of what was sent.
LEMMA ExpectAtEndMeans ==
  ASSUME ParserInv, NEW ps, NEW cut, Sent(ps, cut), NEW k \in 0 .. Len(ps), Between(ps, k), ExpectAtEnd
  PROVE  pc' = "success" /\ Decided'
  <1>1. /\ Left = 0 /\ atEnd' = TRUE /\ pc' = "success" /\ expected' = expected /\ msg' = msg
    BY DEF ExpectAtEnd, Goto
  <1>2. k = Len(ps)
    <2>1. k # Len(ps) => Left > 0
      BY TagAhead
    <2> QED
      BY <1>1, <2>1
  <1>3. cut = 0
    BY <1>2, NothingAhead DEF ParserInv, Between
  <1>5. msg = Denotes(ps, Len(ps)) /\ \A i \in 1 .. Len(ps) : ~Ends(ps[i])
    BY <1>2 DEF Between
  <1>6. expected.ok = IsInitialized(msg) /\ msg = expected.msg
    BY <1>3, <1>5, WholeBody
  <1> QED
    BY <1>1, <1>6 DEF Decided

(***************************************************************************)
(* The inductive invariant: in the loop the message is what the pieces     *)
(* read so far make, and outside of it the outcome is certain.             *)
(***************************************************************************)
Reads(ps, cut) ==
  /\ Sent(ps, cut)
  /\ \/ pc = "clear" /\ pos = 0
     \/ \E k \in 0 .. Len(ps) : Between(ps, k) \/ Within(ps, k)
     \/ pc = "unusual" /\ (tag = 0 \/ WireType(tag) = EndGroup) /\ Decided
     \/ pc = "success" /\ Decided
     \/ pc = "failure" /\ ~expected.ok
     \/ pc = "done" /\ ReadsWhatWasSent

\* Every step of the parser keeps it.
LEMMA ReadsStep ==
  ASSUME ParserInv, NEW ps, NEW cut, Reads(ps, cut), [Next]_vars
  PROVE  Reads(ps, cut)'
  <1>1. Sent(ps, cut)
    BY DEF Reads
  <1>2. CASE Start
    <2>1. pos = 0 /\ wire' = wire /\ expected' = expected
      BY <1>2 DEF Reads, Start, At, Between, Within
    <2>2. Between(ps, 0)'
      BY <1>1, <1>2, <2>1, StartMeans
    <2>3. 0 \in 0 .. Len(ps)
      BY <1>1, SentBody
    <2> QED
      BY <1>1, <2>1, <2>2, <2>3, BodyStays DEF Reads
  <1>3. CASE ReadTag
    <2>1. PICK k \in 0 .. Len(ps) : Between(ps, k)
      BY <1>3 DEF Reads, ReadTag, At, Within
    <2>2. wire' = wire /\ expected' = expected
      BY <1>3 DEF ReadTag
    <2> QED
      BY <1>1, <1>3, <2>1, <2>2, ReadTagMeans, BodyStays DEF Reads
  <1>4. CASE ReadField
    <2>1. PICK k \in 0 .. Len(ps) : Within(ps, k)
      BY <1>4 DEF Reads, ReadField, At, Between
    <2>2. wire' = wire /\ expected' = expected
      BY <1>4 DEF ReadField
    <2> QED
      BY <1>1, <1>4, <2>1, <2>2, ReadFieldMeans, BodyStays DEF Reads
  <1>5. CASE Jump
    <2>1. PICK k \in 0 .. Len(ps) : Between(ps, k)
      BY <1>5 DEF Reads, Jump, At, Within
    <2>2. wire' = wire /\ expected' = expected
      BY <1>5 DEF Jump
    <2> QED
      BY <1>1, <1>5, <2>1, <2>2, JumpMeans, BodyStays DEF Reads
  <1>6. CASE ExpectAtEnd
    <2>1. PICK k \in 0 .. Len(ps) : Between(ps, k)
      BY <1>6 DEF Reads, ExpectAtEnd, At, Within
    <2>2. wire' = wire /\ expected' = expected
      BY <1>6 DEF ExpectAtEnd
    <2> QED
      BY <1>1, <1>6, <2>1, <2>2, ExpectAtEndMeans, BodyStays DEF Reads
  <1>7. CASE NextTag
    <2>1. PICK k \in 0 .. Len(ps) : Between(ps, k)
      BY <1>7 DEF Reads, NextTag, At, Within
    <2>2. /\ wire' = wire /\ expected' = expected /\ pos' = pos /\ msg' = msg /\ pc' = "tag"
      BY <1>7 DEF NextTag, Goto
    <2>3. Between(ps, k)'
      BY <2>1, <2>2 DEF Between
    <2> QED
      BY <1>1, <2>1, <2>2, <2>3, BodyStays DEF Reads
  <1>8. CASE EndsMessage
    <2>1. \A k \in 0 .. Len(ps) : ~Between(ps, k)
      BY <1>8 DEF EndsMessage, At, Between
    <2>2. \A k \in 0 .. Len(ps) : ~Within(ps, k)
      <3> SUFFICES ASSUME NEW k \in 0 .. Len(ps), Within(ps, k) PROVE FALSE
        OBVIOUS
      <3>1. ps[k + 1] \in WirePieces /\ ~Ends(ps[k + 1])
        BY <1>1, RestAhead
      <3>2. tag = ps[k + 1].tag
        BY DEF Within
      <3> QED
        BY <1>8, <3>1, <3>2 DEF EndsMessage, Ends
    <2>3. Decided
      BY <1>8, <2>1, <2>2 DEF Reads, EndsMessage, At
    <2>4. /\ wire' = wire /\ expected' = expected /\ atEnd' = atEnd /\ msg' = msg
          /\ pc' = "success"
      BY <1>8 DEF EndsMessage, Goto
    <2>5. Decided'
      BY <2>3, <2>4 DEF Decided
    <2> QED
      BY <1>1, <2>4, <2>5, BodyStays DEF Reads
  <1>9. CASE SkipField
    <2>1. PICK k \in 0 .. Len(ps) : Within(ps, k)
      BY <1>9 DEF Reads, SkipField, At, Between, EndGroup, LengthDelimited
    <2>2. wire' = wire /\ expected' = expected
      BY <1>9 DEF SkipField
    <2> QED
      BY <1>1, <1>9, <2>1, <2>2, SkipFieldMeans, BodyStays DEF Reads
  <1>10. CASE Finish
    <2>1. /\ wire' = wire /\ expected' = expected /\ msg' = msg /\ pc' = "done"
          /\ result' = (pc = "success" /\ IsInitialized(msg) /\ atEnd)
      BY <1>10 DEF Finish, Goto, At
    <2>2. (pc = "success" /\ Decided) \/ (pc = "failure" /\ ~expected.ok)
      BY <1>10 DEF Reads, Finish, Between, Within
    <2>3. expected.ok \in BOOLEAN /\ atEnd \in BOOLEAN
      BY DEF ParserInv, TypeOK
    <2>4. ReadsWhatWasSent'
      <3>1. CASE pc = "success" /\ Decided
        <4>1. result' = expected.ok /\ (result' => msg = expected.msg)
          BY <2>1, <2>3, <3>1 DEF Decided, IsInitialized, HasField
        <4> QED
          BY <2>1, <4>1 DEF ReadsWhatWasSent
      <3>2. CASE pc = "failure" /\ ~expected.ok
        <4>1. result' = FALSE /\ expected.ok = FALSE
          BY <2>1, <2>3, <3>2
        <4> QED
          BY <2>1, <4>1 DEF ReadsWhatWasSent
      <3> QED
        BY <2>2, <3>1, <3>2
    <2> QED
      BY <1>1, <2>1, <2>4, BodyStays DEF Reads
  <1>11. CASE UNCHANGED vars
    BY <1>11 DEF vars, Reads, Sent, Between, Within, Decided, ReadsWhatWasSent, At
  <1> QED
    BY <1>2, <1>3, <1>4, <1>5, <1>6, <1>7, <1>8, <1>9, <1>10, <1>11 DEF Next

------------------------------------------------------------------------------
(* The bodies have pieces                                                   *)

\* The pieces ps, none of which is an end, have the bytes b and make the message m.
Makes(ps, b, m) ==
  /\ ps \in Seq(WirePieces)
  /\ \A i \in 1 .. Len(ps) : ~Ends(ps[i])
  /\ BytesOf(ps, Len(ps)) = b
  /\ Denotes(ps, Len(ps)) = m

\* What pieces write and make depends on these pieces only.
LEMMA SamePieces ==
  ASSUME NEW ps \in Seq(WirePieces), NEW qs \in Seq(WirePieces), Len(ps) <= Len(qs),
         \A i \in 1 .. Len(ps) : ps[i] = qs[i]
  PROVE  /\ BytesOf(ps, Len(ps)) = BytesOf(qs, Len(ps))
         /\ Denotes(ps, Len(ps)) = Denotes(qs, Len(ps))
  <1>1. PICK n \in Nat : n = Len(ps)
    BY LenProperties
  <1>2. \A i \in 1 .. n : ps[i] \in WirePieces /\ ps[i] = qs[i] /\ qs[i] \in WirePieces
    BY <1>1, ElementOfSeq
  <1>3. \A i \in 1 .. n : PieceBytes(ps[i]) \in Seq(Bytes) /\ PieceBytes(qs[i]) \in Seq(Bytes)
    BY <1>2, PieceTypes
  <1>4. /\ BytesOf(ps, 0) = <<>> /\ \A i \in 1 .. n : BytesOf(ps, i) = BytesOf(ps, i - 1) \o PieceBytes(ps[i])
        /\ BytesOf(qs, 0) = <<>> /\ \A i \in 1 .. n : BytesOf(qs, i) = BytesOf(qs, i - 1) \o PieceBytes(qs[i])
    BY <1>3, BytesOfSteps
  <1>5. /\ Denotes(ps, 0) = NewMessage /\ \A i \in 1 .. n : Denotes(ps, i) = Apply(Denotes(ps, i - 1), ps[i])
        /\ Denotes(qs, 0) = NewMessage /\ \A i \in 1 .. n : Denotes(qs, i) = Apply(Denotes(qs, i - 1), qs[i])
    BY <1>2, DenotesSteps
  <1> DEFINE G == {i \in 0 .. n : BytesOf(ps, i) = BytesOf(qs, i) /\ Denotes(ps, i) = Denotes(qs, i)}
  <1>6. 0 \in G
    BY <1>4, <1>5
  <1>7. ASSUME NEW i \in 1 .. n, i - 1 \in G PROVE i \in G
    <2>1. BytesOf(ps, i - 1) = BytesOf(qs, i - 1) /\ Denotes(ps, i - 1) = Denotes(qs, i - 1)
      BY <1>7
    <2>2. BytesOf(ps, i) = BytesOf(qs, i)
      BY <1>2, <1>4, <2>1
    <2>3. Denotes(ps, i) = Denotes(qs, i)
      BY <1>2, <1>5, <2>1
    <2> QED
      BY <2>2, <2>3
  <1> HIDE DEF G
  <1>8. 0 .. n \subseteq G
    BY <1>6, <1>7, UpToInduction
  <1>9. n \in G
    BY <1>8
  <1> QED
    BY <1>1, <1>9 DEF G

\* One piece more.
LEMMA OneMorePiece ==
  ASSUME NEW ps, NEW b, NEW m, Makes(ps, b, m), NEW p \in WirePieces, ~Ends(p)
  PROVE  Makes(Append(ps, p), b \o PieceBytes(p), Apply(m, p))
  <1> DEFINE qs == Append(ps, p)
  <1>1. ps \in Seq(WirePieces) /\ Len(ps) \in Nat
    BY LenProperties DEF Makes
  <1>2. /\ qs \in Seq(WirePieces) /\ Len(qs) = Len(ps) + 1
        /\ \A i \in 1 .. Len(ps) : qs[i] = ps[i]
        /\ qs[Len(ps) + 1] = p
    BY <1>1, AppendProperties
  <1> HIDE DEF qs
  <1>3. /\ BytesOf(ps, Len(ps)) = BytesOf(qs, Len(ps))
        /\ Denotes(ps, Len(ps)) = Denotes(qs, Len(ps))
    <2>1. Len(ps) <= Len(qs) /\ \A i \in 1 .. Len(ps) : ps[i] = qs[i]
      BY <1>1, <1>2
    <2> QED
      BY <1>1, <1>2, <2>1, SamePieces
  <1>4. PICK k \in 1 .. Len(qs) : k = Len(ps) + 1
    BY <1>1, <1>2
  <1>5. k - 1 = Len(ps) /\ k = Len(qs)
    BY <1>1, <1>2, <1>4
  <1>6. /\ BytesOf(qs, k) = BytesOf(qs, k - 1) \o PieceBytes(qs[k])
        /\ Denotes(qs, k) = Apply(Denotes(qs, k - 1), qs[k])
    BY <1>2, PieceSteps
  <1>7. BytesOf(qs, Len(qs)) = b \o PieceBytes(p) /\ Denotes(qs, Len(qs)) = Apply(m, p)
    BY <1>2, <1>3, <1>4, <1>5, <1>6 DEF Makes
  <1>8. \A i \in 1 .. Len(qs) : ~Ends(qs[i])
    <2>1. \A i \in 1 .. Len(qs) : i \in 1 .. Len(ps) \/ i = Len(ps) + 1
      BY <1>1, <1>2
    <2> QED
      BY <1>2, <2>1 DEF Makes
  <1> QED
    BY <1>2, <1>7, <1>8 DEF Makes, qs

\* No piece at all.
LEMMA NoPiece == Makes(<<>>, <<>>, NewMessage)
  <1>1. PICK z \in Nat : z = 0
    OBVIOUS
  <1>2. \A i \in 1 .. z : <<>>[i] \in WirePieces /\ PieceBytes(<<>>[i]) \in Seq(Bytes) /\ ~Ends(<<>>[i])
    BY <1>1
  <1>3. BytesOf(<<>>, z) = <<>> /\ Denotes(<<>>, z) = NewMessage
    BY <1>1, <1>2, BytesOfSteps, DenotesSteps
  <1>4. Len(<<>>) = z /\ <<>> \in Seq(WirePieces)
    BY <1>1
  <1> QED
    BY <1>2, <1>3, <1>4 DEF Makes

\* The pieces of unknown fields.
UnknownPieces == {p \in WirePieces : ~Ends(p) /\ ~IsField(p)}

(***************************************************************************)
(* A message as the program may hold and send it: unset fields are empty,  *)
(* strings are short enough, and the unknown fields were read from the     *)
(* wire.                                                                   *)
(***************************************************************************)
Sendable(m) ==
  /\ m \in Messages /\ Clean(m) /\ ShortStrings(m)
  /\ \E us \in Seq(UnknownPieces) : m.unknown = BytesOf(us, Len(us))

\* The first f fields of a message.
FirstFields(m, f) ==
  [has |-> m.has \cap (1 .. f),
   str |-> [g \in Fields |-> IF g <= f THEN m.str[g] ELSE <<>>],
   unknown |-> <<>>]

\* The piece of a field is written as the generated code writes the field.
LEMMA PieceOfField ==
  ASSUME NEW m \in Messages, ShortStrings(m), NEW f \in Fields
  PROVE  LET p == [tag |-> Tag(f), value |-> m.str[f]]
         IN  /\ p \in WirePieces /\ ~Ends(p) /\ IsField(p)
             /\ PieceBytes(p) = WriteString(f, Field(m, f))
  <1> DEFINE p == [tag |-> Tag(f), value |-> m.str[f]]
  <1>1. p.tag = Tag(f) /\ p.value = m.str[f] /\ m.str[f] \in Seq(Bytes)
    BY DEF Messages
  <1>2. Len(m.str[f]) \in 0 .. Cutoff
    <2>1. Len(m.str[f]) \in Nat /\ Len(m.str[f]) <= 16383
      BY <1>1, LenProperties DEF ShortStrings, Cutoff
    <2> QED
      BY <2>1, UpToCutoff
  <1>3. Tag(f) \in 0 .. Cutoff /\ FieldNumber(Tag(f)) = f /\ WireType(Tag(f)) = LengthDelimited /\ Tag(f) # 0
    BY FieldTags
  <1>4. p \in [tag : Sizes, value : Seq(Bytes)]
    BY <1>1, <1>3, SizesAreCutoff
  <1> HIDE DEF p
  <1>5. HoldsString(p)
    BY <1>1, <1>3 DEF HoldsString, Fields
  <1>6. p \in WirePieces
    BY <1>1, <1>2, <1>3, <1>4, <1>5, SizesAreCutoff DEF WirePieces, IsPiece
  <1>7. ~Ends(p)
    BY <1>1, <1>3 DEF Ends, LengthDelimited, EndGroup
  <1>8. IsField(p)
    BY <1>1 DEF IsField
  <1>9. PieceBytes(p) = WriteVarint(Tag(f)) \o (WriteVarint(Len(m.str[f])) \o m.str[f])
    BY <1>1, <1>5 DEF PieceBytes, AfterTag
  <1>10. WriteVarint(Tag(f)) \in Seq(Bytes) /\ WriteVarint(Len(m.str[f])) \in Seq(Bytes)
    BY <1>2, <1>3, VarintLength
  <1>11. PICK a \in Seq(Bytes), b \in Seq(Bytes), c \in Seq(Bytes) :
           a = WriteVarint(Tag(f)) /\ b = WriteVarint(Len(m.str[f])) /\ c = m.str[f]
    BY <1>1, <1>10
  <1>12. (a \o b) \o c = a \o (b \o c)
    BY ConcatAssociative
  <1>13. PieceBytes(p) = WriteString(f, Field(m, f))
    BY <1>9, <1>11, <1>12 DEF WriteString, Field
  <1> QED
    BY <1>6, <1>7, <1>8, <1>13 DEF p

\* One field more of a clean message.
LEMMA NextField ==
  ASSUME NEW m \in Messages, Clean(m), NEW f \in Fields
  PROVE  /\ FirstFields(m, f) \in Messages
         /\ f \in m.has => FirstFields(m, f) = SetField(FirstFields(m, f - 1), f, m.str[f])
         /\ f \notin m.has => FirstFields(m, f) = FirstFields(m, f - 1)
  <1> DEFINE a == FirstFields(m, f - 1)
             b == FirstFields(m, f)
  <1>0. <<>> \in Seq(Bytes)
    OBVIOUS
  <1>1. a \in Messages /\ b \in Messages
    BY <1>0 DEF FirstFields, Messages
  <1>2. /\ a.has = m.has \cap (1 .. f - 1) /\ b.has = m.has \cap (1 .. f)
        /\ a.unknown = <<>> /\ b.unknown = <<>>
        /\ \A g \in Fields : a.str[g] = (IF g <= f - 1 THEN m.str[g] ELSE <<>>)
        /\ \A g \in Fields : b.str[g] = (IF g <= f THEN m.str[g] ELSE <<>>)
    BY DEF FirstFields
  <1> HIDE DEF a, b
  <1>3. f \in 1 .. f /\ 1 .. f = (1 .. f - 1) \cup {f} /\ \A g \in Fields : g <= f <=> g <= f - 1 \/ g = f
    BY DEF Fields
  <1>4. ASSUME f \in m.has PROVE b = SetField(a, f, m.str[f])
    <2> DEFINE c == SetField(a, f, m.str[f])
    <2>1. m.str[f] \in Seq(Bytes)
      BY DEF Messages
    <2>2. c \in Messages
      BY <1>1, <2>1, OperationTypes
    <2>3. c.has = a.has \cup {f} /\ c.unknown = a.unknown
      BY DEF SetField
    <2>4. \A g \in Fields : c.str[g] = IF g = f THEN m.str[f] ELSE a.str[g]
      BY <1>1 DEF SetField, Messages
    <2>5. b.has = c.has
      BY <1>2, <1>3, <1>4, <2>3
    <2>6. \A g \in Fields : b.str[g] = c.str[g]
      BY <1>2, <1>3, <2>4
    <2> HIDE DEF c
    <2>7. b = c
      BY <1>1, <1>2, <2>2, <2>3, <2>5, <2>6, SameMessage
    <2> QED
      BY <2>7 DEF c
  <1>5. ASSUME f \notin m.has PROVE b = a
    <2>1. m.str[f] = <<>>
      BY <1>5 DEF Clean
    <2>2. b.has = a.has
      BY <1>2, <1>3, <1>5
    <2>3. \A g \in Fields : b.str[g] = a.str[g]
      BY <1>2, <1>3, <2>1
    <2> QED
      BY <1>1, <1>2, <2>2, <2>3, SameMessage
  <1> QED
    BY <1>1, <1>4, <1>5 DEF a, b

\* What is serialized is what the pieces of its fields and unknown fields write.
LEMMA WrittenInPieces ==
  ASSUME NEW m, Sendable(m)
  PROVE  \E ps : Makes(ps, Serialize(m), m)
  <1>0. m \in Messages /\ Clean(m) /\ ShortStrings(m)
    BY DEF Sendable
  <1>1. PICK us \in Seq(UnknownPieces) : m.unknown = BytesOf(us, Len(us))
    BY DEF Sendable
  <1>2. PICK t \in Tables(22, Seq(Bytes)) :
          /\ t[0] = <<>>
          /\ \A i \in 1 .. 22 : t[i] = t[i - 1] \o BytesFor(m, i)
          /\ Serialize(m) = t[22] \o m.unknown
    BY <1>0, SerializeTable
  <1>3. PICK n \in Nat : n = 22
    OBVIOUS
  <1>4. 1 .. n = Fields /\ \A f \in 1 .. n : f - 1 \in 0 .. n
    BY <1>3 DEF Fields
  <1>5. PICK ps : Makes(ps, t[n], FirstFields(m, n))
    <2> DEFINE G == {f \in 0 .. n : \E ps : Makes(ps, t[f], FirstFields(m, f))}
    <2>1. 0 \in G
      <3>1. FirstFields(m, 0) = NewMessage
        <4>1. m.has \cap (1 .. 0) = {} /\ \A g \in Fields : (IF g <= 0 THEN m.str[g] ELSE <<>>) = <<>>
          BY DEF Fields
        <4> QED
          BY <4>1 DEF FirstFields, NewMessage
      <3> QED
        BY <1>2, <1>3, <3>1, NoPiece
    <2>2. ASSUME NEW f \in 1 .. n, f - 1 \in G PROVE f \in G
      <3>1. PICK ps : Makes(ps, t[f - 1], FirstFields(m, f - 1))
        BY <2>2
      <3>2. f \in Fields /\ t[f] = t[f - 1] \o BytesFor(m, f) /\ t[f - 1] \in Seq(Bytes)
        BY <1>2, <1>3, <1>4 DEF Tables
      <3>3. CASE f \in m.has
        <4> DEFINE p == [tag |-> Tag(f), value |-> m.str[f]]
        <4>1. /\ p \in WirePieces /\ ~Ends(p) /\ IsField(p)
              /\ PieceBytes(p) = WriteString(f, Field(m, f))
          BY <1>0, <3>2, PieceOfField
        <4>2. p.tag = Tag(f) /\ p.value = m.str[f] /\ FieldNumber(Tag(f)) = f
          BY <3>2, FieldTags
        <4> HIDE DEF p
        <4>3. BytesFor(m, f) = PieceBytes(p)
          BY <3>3, <4>1 DEF BytesFor, HasField
        <4>4. FirstFields(m, f) = Apply(FirstFields(m, f - 1), p)
          <5>1. FirstFields(m, f) = SetField(FirstFields(m, f - 1), f, m.str[f])
            BY <1>0, <3>2, <3>3, NextField
          <5> QED
            BY <4>1, <4>2, <5>1 DEF Apply
        <4>5. Makes(Append(ps, p), t[f - 1] \o PieceBytes(p), Apply(FirstFields(m, f - 1), p))
          BY <3>1, <4>1, OneMorePiece
        <4>6. Makes(Append(ps, p), t[f], FirstFields(m, f))
          BY <3>2, <4>3, <4>4, <4>5
        <4> QED
          BY <4>6
      <3>4. CASE f \notin m.has
        <4>1. BytesFor(m, f) = <<>>
          BY <3>4 DEF BytesFor, HasField
        <4>2. t[f] = t[f - 1]
          BY <3>2, <4>1, ConcatEmptySeq
        <4>3. FirstFields(m, f) = FirstFields(m, f - 1)
          BY <1>0, <3>2, <3>4, NextField
        <4> QED
          BY <3>1, <4>2, <4>3
      <3> QED
        BY <3>3, <3>4
    <2> HIDE DEF G
    <2>3. 0 .. n \subseteq G
      BY <2>1, <2>2, UpToInduction
    <2> QED
      BY <1>3, <2>3 DEF G
  <1>6. t[n] \in Seq(Bytes)
    BY <1>3 DEF Tables
  <1> DEFINE known == FirstFields(m, n)
             With(k) == [known EXCEPT !.unknown = BytesOf(us, k)]
  <1>7. /\ known \in Messages /\ known.has = m.has /\ known.unknown = <<>>
        /\ \A g \in Fields : known.str[g] = m.str[g]
    <2>1. n \in Fields
      BY <1>3 DEF Fields
    <2>2. known \in Messages
      BY <1>0, <2>1, NextField
    <2>3. m.has \cap (1 .. n) = m.has /\ \A g \in Fields : g <= n
      <3>1. m.has \subseteq 1 .. n
        BY <1>0, <1>4 DEF Messages
      <3>2. \A g \in Fields : g <= n
        BY <1>3 DEF Fields
      <3> QED
        BY <3>1, <3>2
    <2> QED
      BY <2>2, <2>3 DEF FirstFields, known
  <1> HIDE DEF known
  <1>8. PICK l \in Nat : l = Len(us)
    BY LenProperties
  <1>9. \A i \in 1 .. l : /\ us[i] \in WirePieces /\ ~Ends(us[i]) /\ ~IsField(us[i])
                          /\ PieceBytes(us[i]) \in Seq(Bytes)
    <2>1. \A i \in 1 .. l : us[i] \in UnknownPieces
      BY <1>8, ElementOfSeq
    <2> QED
      BY <2>1, PieceTypes DEF UnknownPieces
  <1>10. /\ BytesOf(us, 0) = <<>>
         /\ \A k \in 0 .. l : BytesOf(us, k) \in Seq(Bytes)
         /\ \A k \in 1 .. l : BytesOf(us, k) = BytesOf(us, k - 1) \o PieceBytes(us[k])
    BY <1>9, BytesOfSteps
  <1>11. \E qs : Makes(qs, t[n] \o BytesOf(us, l), With(l))
    <2> DEFINE G == {k \in 0 .. l : \E qs : Makes(qs, t[n] \o BytesOf(us, k), With(k))}
    <2>1. 0 \in G
      <3>1. t[n] \o <<>> = t[n]
        BY <1>6, ConcatEmptySeq
      <3>2. With(0) = known
        BY <1>7, <1>10 DEF Messages
      <3>3. Makes(ps, t[n] \o BytesOf(us, 0), With(0))
        <4> HIDE DEF With
        <4> QED
          BY <1>5, <1>10, <3>1, <3>2 DEF known
      <3> HIDE DEF With
      <3> QED
        BY <3>3
    <2>2. ASSUME NEW k \in 1 .. l, k - 1 \in G PROVE k \in G
      <3>1. PICK qs : Makes(qs, t[n] \o BytesOf(us, k - 1), With(k - 1))
        BY <2>2
      <3> DEFINE p == us[k]
      <3>2. p \in WirePieces /\ ~Ends(p) /\ ~IsField(p) /\ PieceBytes(p) \in Seq(Bytes)
        BY <1>9
      <3>3. BytesOf(us, k) = BytesOf(us, k - 1) \o PieceBytes(p) /\ BytesOf(us, k - 1) \in Seq(Bytes)
        BY <1>10, StepBack
      <3> HIDE DEF p
      <3>4. Makes(Append(qs, p), (t[n] \o BytesOf(us, k - 1)) \o PieceBytes(p), Apply(With(k - 1), p))
        BY <3>1, <3>2, OneMorePiece
      <3>5. (t[n] \o BytesOf(us, k - 1)) \o PieceBytes(p) = t[n] \o BytesOf(us, k)
        <4>1. PICK a \in Seq(Bytes), b \in Seq(Bytes), c \in Seq(Bytes) :
                a = t[n] /\ b = BytesOf(us, k - 1) /\ c = PieceBytes(p)
          BY <1>6, <3>2, <3>3
        <4>2. (a \o b) \o c = a \o (b \o c)
          BY ConcatAssociative
        <4> QED
          BY <3>3, <4>1, <4>2
      <3>6. Apply(With(k - 1), p) = With(k)
        <4>1. Apply(With(k - 1), p) = [With(k - 1) EXCEPT !.unknown = @ \o PieceBytes(p)]
          BY <3>2 DEF Apply
        <4>2. [With(k - 1) EXCEPT !.unknown = @ \o PieceBytes(p)]
                = [known EXCEPT !.unknown = BytesOf(us, k - 1) \o PieceBytes(p)]
          BY <1>7 DEF Messages
        <4> QED
          BY <3>3, <4>1, <4>2
      <3> HIDE DEF With
      <3>7. Makes(Append(qs, p), t[n] \o BytesOf(us, k), With(k))
        BY <3>4, <3>5, <3>6
      <3> QED
        BY <3>7
    <2> HIDE DEF G, With
    <2>3. 0 .. l \subseteq G
      BY <2>1, <2>2, UpToInduction
    <2> QED
      BY <2>3 DEF G
  <1>12. With(l) = m
    <2>0. BytesOf(us, l) \in Seq(Bytes)
      BY <1>10
    <2>1. With(l) \in Messages
      BY <1>7, <2>0 DEF Messages
    <2>2. With(l).has = m.has /\ With(l).unknown = m.unknown /\ \A g \in Fields : With(l).str[g] = m.str[g]
      BY <1>1, <1>7, <1>8 DEF Messages
    <2> HIDE DEF With
    <2> QED
      BY <1>0, <2>1, <2>2, SameMessage
  <1>13. Serialize(m) = t[n] \o BytesOf(us, l)
    BY <1>1, <1>2, <1>3, <1>8
  <1> QED
    BY <1>11, <1>12, <1>13

\* A body, as MessageBodies puts it together, has pieces.
HasPieces(body) ==
  \E ps \in Seq(WirePieces), cut \in Int :
    /\ cut \in Cuts(ps)
    /\ body.wire = PieceBody(ps, cut).wire
    /\ body.ok = PieceBody(ps, cut).ok
    /\ body.msg = PieceBody(ps, cut).msg

\* The body of a written message has the pieces of its fields.
LEMMA WrittenHasPieces ==
  ASSUME NEW m, Sendable(m)
  PROVE  HasPieces(WrittenBody(m))
  <1>1. PICK ps : Makes(ps, Serialize(m), m)
    BY WrittenInPieces
  <1>2. ps \in Seq(WirePieces) /\ Len(ps) \in Nat
    BY <1>1, LenProperties DEF Makes
  <1> DEFINE b == BytesOf(ps, Len(ps))
  <1>3. b \in Seq(Bytes) /\ Len(b) \in Nat /\ b = Serialize(m)
    BY <1>1, <1>2, PiecePrefix DEF Makes
  <1>4. 0 \in Cuts(ps)
    <2>1. CASE ps = <<>>
      BY <2>1 DEF Cuts
    <2>2. CASE ps # <<>>
      <3>1. Len(ps) \in 1 .. Len(ps)
        BY <1>2, <2>2, EmptySeq
      <3>2. ps[Len(ps)] \in WirePieces
        BY <1>2, <3>1, ElementOfSeq
      <3>3. Len(PieceBytes(ps[Len(ps)])) - 1 \in Nat
        <4> DEFINE p == ps[Len(ps)]
        <4>1. /\ Len(PieceBytes(p)) = Len(WriteVarint(p.tag)) + Len(AfterTag(p))
              /\ Len(WriteVarint(p.tag)) \in {1, 2} /\ Len(AfterTag(p)) \in Nat
          BY <3>2, PieceTypes, LenProperties
        <4>2. PICK x \in {1, 2}, y \in Nat : x = Len(WriteVarint(p.tag)) /\ y = Len(AfterTag(p))
          BY <4>1
        <4>3. x + y - 1 \in Nat
          OBVIOUS
        <4> HIDE DEF p
        <4>4. Len(PieceBytes(p)) - 1 \in Nat
          BY <4>1, <4>2, <4>3
        <4> QED
          BY <4>4 DEF p
      <3> QED
        BY <2>2, <3>3 DEF Cuts
    <2> QED
      BY <2>1, <2>2
  <1>5. PieceBody(ps, 0).wire = Serialize(m)
    <2>1. PieceBody(ps, 0).wire = SubSeq(b, 1, Len(b) - 0)
      BY DEF PieceBody
    <2>2. SubSeq(b, 1, Len(b) - 0) = b
      <3>1. Len(b) - 0 = Len(b)
        BY <1>3
      <3> QED
        BY <1>3, <3>1, SubSeqFull
    <2> QED
      BY <1>3, <2>1, <2>2
  <1>6. PieceBody(ps, 0).msg = m
    BY <1>1 DEF PieceBody, Makes
  <1>7. PieceBody(ps, 0).ok = IsInitialized(m)
    <2>1. PieceBody(ps, 0).ok = (/\ 0 = 0 /\ \A i \in 1 .. Len(ps) : ~Ends(ps[i])
                                 /\ IsInitialized(Denotes(ps, Len(ps))))
      BY DEF PieceBody
    <2>2. PieceBody(ps, 0).ok <=> IsInitialized(m)
      BY <1>1, <2>1, Zenon DEF Makes
    <2>3. PieceBody(ps, 0).ok \in BOOLEAN /\ IsInitialized(m) \in BOOLEAN
      BY DEF PieceBody, IsInitialized, HasField
    <2>4. \A x, y \in BOOLEAN : (x <=> y) => x = y
      OBVIOUS
    <2> QED
      BY <2>2, <2>3, <2>4, Zenon
  <1>8. WrittenBody(m).wire = Serialize(m) /\ WrittenBody(m).ok = IsInitialized(m) /\ WrittenBody(m).msg = m
    BY DEF WrittenBody
  <1> QED
    BY <1>2, <1>4, <1>5, <1>6, <1>7, <1>8 DEF HasPieces

\* The bodies that are put together of pieces have these.
LEMMA PieceBodyHasPieces ==
  ASSUME NEW pieces \in SUBSET WirePieces, NEW n \in Nat, NEW body \in PieceBodies(pieces, n)
  PROVE  HasPieces(body)
  <1>1. PICK ps \in UNION {[1 .. k -> pieces] : k \in 0 .. n} :
          \E cut \in Cuts(ps) : body = PieceBody(ps, cut)
    BY DEF PieceBodies
  <1>2. PICK cut \in Cuts(ps) : body = PieceBody(ps, cut)
    BY <1>1
  <1>3. PICK k \in 0 .. n : ps \in [1 .. k -> pieces]
    BY <1>1
  <1>4. ps \in Seq(WirePieces)
    BY <1>3, SeqDef
  <1>5. cut \in Int
    BY <1>2 DEF Cuts
  <1> QED
    BY <1>2, <1>4, <1>5 DEF HasPieces

(***************************************************************************)
(* Whatever the bodies are put together from, an accepted body gives the   *)
(* message it stands for, and a well-formed body is accepted.              *)
(***************************************************************************)
THEOREM ParserReadsWhatWasSent ==
  ASSUME NEW pieces \in SUBSET WirePieces, NEW n \in Nat, NEW written, \A m \in written : Sendable(m),
         Bodies \subseteq PieceBodies(pieces, n) \cup {WrittenBody(m) : m \in written}
  PROVE  Spec => []ReadsWhatWasSent
  <1> DEFINE Meaning == \E ps, cut : Reads(ps, cut)
  <1>1. \A body \in Bodies : HasPieces(body)
    BY PieceBodyHasPieces, WrittenHasPieces
  <1>2. Init => Meaning
    <2> SUFFICES ASSUME Init PROVE Meaning
      OBVIOUS
    <2>1. PICK body \in Bodies : wire = body.wire /\ expected = [ok |-> body.ok, msg |-> body.msg]
      BY DEF Init
    <2>2. PICK ps \in Seq(WirePieces), cut \in Int :
            /\ cut \in Cuts(ps)
            /\ body.wire = PieceBody(ps, cut).wire
            /\ body.ok = PieceBody(ps, cut).ok
            /\ body.msg = PieceBody(ps, cut).msg
      BY <1>1, <2>1 DEF HasPieces
    <2>3. Sent(ps, cut)
      BY <2>1, <2>2 DEF Sent
    <2>4. pc = "clear" /\ pos = 0
      BY DEF Init
    <2> QED
      BY <2>3, <2>4 DEF Reads
  <1>3. ParserInv /\ Meaning /\ [Next]_vars => Meaning'
    BY ReadsStep
  <1>4. ParserInv /\ Meaning => ReadsWhatWasSent
    BY DEF Reads, ReadsWhatWasSent, At, Between, Within
  <1> QED
    BY <1>2, <1>3, <1>4, ParserInvariant, PTL DEF Spec
==============================================================================
