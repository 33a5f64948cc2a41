---------------------------- MODULE MessageCodec -----------------------------
(***************************************************************************)
(* How the body of a request becomes a message: ParseFromArray, as         *)
(* do_deal_request of cia_client calls it, with the generated              *)
(* MergePartialFromCodedStream step by step: its loop over ReadTag, the    *)
(* jumps from a field straight to the next one, and handle_unusual.        *)
(*                                                                         *)
(* CodedInputStream and WireFormat (libprotobuf 2.6) are external. What a  *)
(* body stands for is given with it; MessageBodies says how.               *)
(***************************************************************************)
EXTENDS ChatMessage

CONSTANTS
  Bodies,  \* the bodies received, each with what it stands for: [wire, ok, msg]
  Reused   \* the values of the message object before the call

ASSUME BodyAssumption == Bodies \subseteq [wire : Seq(Bytes), ok : BOOLEAN, msg : Messages]

\* Every operation on a message keeps it clean.
ASSUME ReuseAssumption == Reused \subseteq {m \in Messages : Clean(m)}

VARIABLES
  wire,      \* the bytes of the body
  expected,  \* what the body stands for: [ok, msg]
  pos,       \* bytes the CodedInputStream has consumed
  atEnd,     \* legitimate_message_end_
  msg,       \* the message object
  tag,       \* the last tag
  pc,        \* the point in MergePartialFromCodedStream
  result     \* what ParseFromArray returned

vars == <<wire, expected, pos, atEnd, msg, tag, pc, result>>

\* The largest tag ReadTagWithCutoff promises to recognize.
Cutoff == 16383

ParserPcs == {"clear", "tag", "read", "next", "unusual", "success", "failure", "done"}

TypeOK ==
  /\ wire \in Seq(Bytes)
  /\ expected \in [ok : BOOLEAN, msg : Messages]
  /\ pos \in Nat
  /\ atEnd \in BOOLEAN
  /\ msg \in Messages
  /\ tag \in 0 .. Cutoff
  /\ pc \in ParserPcs
  /\ result \in BOOLEAN

Init ==
  /\ \E body \in Bodies : wire = body.wire /\ expected = [ok |-> body.ok, msg |-> body.msg]
  /\ msg \in Reused
  /\ pos = 0
  /\ atEnd = FALSE
  /\ tag = 0
  /\ pc = "clear"
  /\ result = FALSE

------------------------------------------------------------------------------
(* CodedInputStream and WireFormat                                          *)

Left == Len(wire) - pos
Peek(i) == wire[pos + i]

\* The varint at the position: how many bytes it has, 0 if the body ends
\* inside it, and its value. Varints of more than two bytes are not written.
VarintBytes ==
  IF Left >= 1 /\ Peek(1) < 128 THEN 1
  ELSE IF Left >= 2 /\ Peek(2) < 128 THEN 2
  ELSE 0
VarintValue ==
  IF VarintBytes = 1 THEN Peek(1)
  ELSE IF VarintBytes = 2 THEN (Peek(1) - 128) + 128 * Peek(2)
  ELSE 0

\* Mutant: a tag of two bytes is recognized by its first one.
TagFollowsFirstByte(t) == Left >= 1 /\ Peek(1) = (IF t < 128 THEN t ELSE (t % 128) + 128)

\* ExpectTag: the tag, in as many bytes as it is written with, comes next.
TagFollows(t) ==
  IF t < 128 THEN Left >= 1 /\ Peek(1) = t
  ELSE Left >= 2 /\ Peek(1) = (t % 128) + 128 /\ Peek(2) = t \div 128

\* The bytes of the string value whose length is at the position.
ValueEnd == VarintBytes + VarintValue
ValueIsThere == VarintBytes > 0 /\ ValueEnd <= Left

------------------------------------------------------------------------------
(* MergePartialFromCodedStream and ParseFromArray                           *)

At(p) == pc = p
Goto(p) == pc' = p

\* ParseFromArray clears the object first.
Start ==
  /\ At("clear")
  /\ msg' = Clear(msg)
  /\ Goto("tag")
  /\ UNCHANGED <<wire, expected, pos, atEnd, tag, result>>

\* Is tag that of a field, in the switch over the field numbers?
KnownTag(t) == FieldNumber(t) \in Fields /\ t = Tag(FieldNumber(t))

\* ReadTagWithCutoff(16383), whose cutoff no written tag passes. A tag of 0 is
\* the end of the body, a byte 0 or half a tag: only the first is legitimate.
ReadTag ==
  /\ At("tag")
  /\ tag' = VarintValue
  /\ pos' = pos + VarintBytes
  /\ atEnd' = (Left = 0)
  /\ Goto(IF KnownTag(VarintValue) THEN "read" ELSE "unusual")
  /\ UNCHANGED <<wire, expected, msg, result>>

\* ReadString into mutable_<field>, which sets the has-bit; a string that the
\* body cuts short has the bytes that are there, or its old value if the
\* length is cut.
ReadField ==
  LET f == FieldNumber(tag) IN
  /\ At("read")
  /\ IF ValueIsThere
     THEN /\ msg' = SetField(msg, f, SubSeq(wire, pos + VarintBytes + 1, pos + ValueEnd))
          /\ pos' = pos + ValueEnd
          /\ Goto("next")
     ELSE /\ msg' = SetField(msg, f, IF VarintBytes = 0 THEN Field(msg, f)
                                     ELSE SubSeq(wire, pos + VarintBytes + 1, Len(wire)))
          /\ pos' = Len(wire)
          /\ Goto("failure")
  /\ UNCHANGED <<wire, expected, atEnd, tag, result>>

\* Mutant: the jump does not say which field it jumps to.
JumpKeepsTag ==
  /\ At("next")
  /\ TagFollows(Tag(FieldNumber(tag) + 1))
  /\ FieldNumber(tag) < 22
  /\ pos' = pos + SizeOfTag(FieldNumber(tag) + 1)
  /\ Goto("read")
  /\ UNCHANGED <<wire, expected, atEnd, msg, tag, result>>

\* ExpectTag of the next field: goto parse_<next>.
Jump ==
  LET next == FieldNumber(tag) + 1 IN
  /\ At("next")
  /\ next \in Fields /\ TagFollows(Tag(next))
  /\ tag' = Tag(next)
  /\ pos' = pos + VarintSize(Tag(next))
  /\ Goto("read")
  /\ UNCHANGED <<wire, expected, atEnd, msg, result>>

\* After the last field: ExpectAtEnd, goto success.
ExpectAtEnd ==
  /\ At("next")
  /\ FieldNumber(tag) = 22 /\ Left = 0
  /\ atEnd' = TRUE
  /\ Goto("success")
  /\ UNCHANGED <<wire, expected, pos, msg, tag, result>>

\* Otherwise the loop goes on.
NextTag ==
  /\ At("next")
  /\ IF FieldNumber(tag) = 22 THEN Left > 0 ELSE ~TagFollows(Tag(FieldNumber(tag) + 1))
  /\ Goto("tag")
  /\ UNCHANGED <<wire, expected, pos, atEnd, msg, tag, result>>

\* Mutant: a tag of 0 is no end.
EndsMessageAtGroupOnly ==
  /\ At("unusual")
  /\ WireType(tag) = EndGroup
  /\ Goto("success")
  /\ UNCHANGED <<wire, expected, pos, atEnd, msg, tag, result>>

\* handle_unusual, tag 0 or the end of a group.
EndsMessage ==
  /\ At("unusual")
  /\ tag = 0 \/ WireType(tag) = EndGroup
  /\ Goto("success")
  /\ UNCHANGED <<wire, expected, pos, atEnd, msg, tag, result>>

\* SkipField into the unknown fields: a varint or a length and its bytes. The
\* other wire types are not written.
SkipField ==
  LET end == IF WireType(tag) = LengthDelimited THEN ValueEnd ELSE VarintBytes IN
  /\ At("unusual")
  /\ tag # 0 /\ WireType(tag) \in {0, LengthDelimited}
  /\ IF VarintBytes > 0 /\ end <= Left
     THEN /\ msg' = [msg EXCEPT !.unknown = @ \o WriteVarint(tag) \o SubSeq(wire, pos + 1, pos + end)]
          /\ pos' = pos + end
          /\ Goto("tag")
     ELSE /\ pos' = Len(wire)
          /\ Goto("failure")
          /\ UNCHANGED msg
  /\ UNCHANGED <<wire, expected, atEnd, tag, result>>

\* ParseFromArray: the required field is there and the whole body was read.
Finish ==
  /\ pc \in {"success", "failure"}
  /\ result' = (At("success") /\ IsInitialized(msg) /\ atEnd)
  /\ Goto("done")
  /\ UNCHANGED <<wire, expected, pos, atEnd, msg, tag>>

Next ==
  \/ Start \/ ReadTag \/ ReadField \/ Jump \/ ExpectAtEnd \/ NextTag
  \/ EndsMessage \/ SkipField \/ Finish

Spec == Init /\ [][Next]_vars

\* The parse is one call: it runs until it returns.
FairSpec == Spec /\ WF_vars(Next)

------------------------------------------------------------------------------
(* Properties                                                               *)

(***************************************************************************)
(* A body is accepted exactly if it is well formed, and an accepted body   *)
(* gives the message it stands for: the jumps from field to field, the     *)
(* return to the loop, the skipping of unknown fields and a reused object  *)
(* make no difference. A message the generated code wrote reads back as    *)
(* itself.                                                                 *)
(***************************************************************************)
ReadsWhatWasSent ==
  At("done") => /\ result = expected.ok
                /\ result => msg = expected.msg

(***************************************************************************)
(* do_deal_request reads type, transid, authcode and pn without asking     *)
(* whether they are there. During and after the parse a field that is not  *)
(* there reads as the empty string, never as what the object held before.  *)
(***************************************************************************)
AbsentFieldsAreEmpty == Clean(msg)

\* With it an answer to a call has 8 + 4 + 3 + 497 = 512 bytes.
LongestTransid == 497

(***************************************************************************)
(* The answer to whatever request was accepted fits into the buffer of     *)
(* chat_message, and its header says how long it is, exactly if the        *)
(* transid it returns has at most 497 bytes: within that limit the length  *)
(* counted by ByteSize is the one that is written, and body_length changes *)
(* nothing; beyond it (a request may have up to 501) SerializeToArray      *)
(* writes more than the header announces and the buffer holds.             *)
(***************************************************************************)
AnswersAreFramed ==
  At("done") /\ result =>
    \A answer \in AnswersTo(msg) :
      /\ FitsBuffer(Frame(answer)) <=> Len(Field(answer, transid)) <= LongestTransid
      /\ IsFramed(Frame(answer)) <=> FitsBuffer(Frame(answer))

(***************************************************************************)
(* The parser never reads a byte behind the body, the message's length     *)
(* fields notwithstanding.                                                 *)
(***************************************************************************)
ReadsWithinBody == pos <= Len(wire)

(***************************************************************************)
(* Every body is accepted or refused in the end: each turn of the loop     *)
(* consumes something.                                                     *)
(***************************************************************************)
ParseEnds == <>At("done")
==============================================================================
