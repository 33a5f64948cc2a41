----------------------------- MODULE CiaMessage ------------------------------
(***************************************************************************)
(* The values of ciaMessage, the one message type of the protocol, and the *)
(* generated code that works on whole messages: SharedCtor, Clear, the     *)
(* accessors, MergeFrom, CopyFrom, ByteSize and                            *)
(* SerializeWithCachedSizesToArray (CiaProtocol.pb.h, CiaProtocol.pb.cc).  *)
(*                                                                         *)
(* The generated code has the same block once per field; here a field is a *)
(* number and the block one operator. libprotobuf (varints, StringSize,    *)
(* WriteStringToArray, the set of unknown fields) is external. Checking    *)
(* strings for UTF-8 only logs and is left out.                            *)
(***************************************************************************)
EXTENDS Integers, Sequences

Bytes == 0 .. 255

\* Every field of the message is a string; type is the required one.
Fields == 1 .. 22
type == 1
status == 3
pn == 4
transid == 8
authcode == 9

\* The fields whose has-bits one mask tests: 255, 65280, 4128768.
FieldGroups == {1 .. 8, 9 .. 16, 17 .. 22}

(***************************************************************************)
(* A message: the has-bits, the string each field points to (one that      *)
(* points to the shared empty string has <<>>), and the unknown fields as  *)
(* the bytes they were read from.                                          *)
(***************************************************************************)
Messages == [has : SUBSET Fields, str : [Fields -> Seq(Bytes)], unknown : Seq(Bytes)]

\* SharedCtor.
NewMessage == [has |-> {}, str |-> [f \in Fields |-> <<>>], unknown |-> <<>>]

\* A field that is not set reads as the empty string.
Clean(m) == \A f \in Fields \ m.has : m.str[f] = <<>>

------------------------------------------------------------------------------
(* The accessors of a field f                                               *)

HasField(m, f) == f \in m.has

Field(m, f) == m.str[f]

SetField(m, f, value) ==
  [m EXCEPT !.has = @ \cup {f}, !.str = [@ EXCEPT ![f] = value]]

ClearField(m, f) ==
  [m EXCEPT !.has = @ \ {f}, !.str = [@ EXCEPT ![f] = <<>>]]

------------------------------------------------------------------------------
(* Whole messages                                                           *)

\* The fields Clear and MergeFrom reach: a group none of whose bits is set is
\* skipped as a whole.
GroupsWithBits(m) == {g \in FieldGroups : g \cap m.has # {}}
Reached(m) == UNION {g \cap m.has : g \in GroupsWithBits(m)}

\* Mutant: the mask of the third group is left out.
ClearTwoGroups(m) ==
  [has     |-> {},
   str     |-> [f \in Fields |-> IF f \in Reached(m) \cap (1 .. 16) THEN <<>> ELSE m.str[f]],
   unknown |-> <<>>]

Clear(m) ==
  [has     |-> {},
   str     |-> [f \in Fields |-> IF f \in Reached(m) THEN <<>> ELSE m.str[f]],
   unknown |-> <<>>]

MergeFrom(m, from) ==
  [has     |-> m.has \cup Reached(from),
   str     |-> [f \in Fields |-> IF f \in Reached(from) THEN from.str[f] ELSE m.str[f]],
   unknown |-> m.unknown \o from.unknown]

CopyFrom(m, from) == MergeFrom(Clear(m), from)

\* The copy constructor.
CopyOf(from) == MergeFrom(NewMessage, from)

IsInitialized(m) == HasField(m, type)

------------------------------------------------------------------------------
(* The wire format                                                          *)

LengthDelimited == 2
EndGroup == 4

\* The tag the generated code compares with.
Tag(f) == 8 * f + LengthDelimited
FieldNumber(tag) == tag \div 8
WireType(tag) == tag % 8

\* A varint: seven bits a byte, lowest first. Lengths and tags here take two
\* bytes at most (a body has at most 512 bytes).
VarintSize(n) == IF n < 128 THEN 1 ELSE 2
WriteVarint(n) == IF n < 128 THEN <<n>> ELSE <<(n % 128) + 128, n \div 128>>

StringSize(s) == VarintSize(Len(s)) + Len(s)
WriteString(f, s) == WriteVarint(Tag(f)) \o WriteVarint(Len(s)) \o s

\* The literals 1 and 2 of ByteSize.
SizeOfTag(f) == IF f <= 15 THEN 1 ELSE 2

FieldSize(m, f) == SizeOfTag(f) + StringSize(Field(m, f))

\* What a field adds to the size, and to the bytes.
SizeOf(m, f) == IF f \in Reached(m) THEN FieldSize(m, f) ELSE 0
BytesFor(m, f) == IF HasField(m, f) THEN WriteString(f, Field(m, f)) ELSE <<>>

\* The fields in the order of their numbers, then the unknown ones.
ByteSize(m) ==
  LET upTo[f \in 0 .. 22] == IF f = 0 THEN 0 ELSE upTo[f - 1] + SizeOf(m, f)
  IN  upTo[22] + Len(m.unknown)
Serialize(m) ==
  LET upTo[f \in 0 .. 22] == IF f = 0 THEN <<>> ELSE upTo[f - 1] \o BytesFor(m, f)
  IN  upTo[22] \o m.unknown
==============================================================================
