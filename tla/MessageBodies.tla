---------------------------- MODULE MessageBodies ----------------------------
(***************************************************************************)
(* The bodies MessageCodec is checked on, each with the meaning protobuf's *)
(* wire format gives it, defined without a parser: a sequence of pieces    *)
(* (fields, unknown fields and end markers), whose last one may be cut     *)
(* short, or a message that a client wrote with the generated code.        *)
(***************************************************************************)
EXTENDS CiaMessage

(***************************************************************************)
(* A piece is a tag and what follows it: a string after its length, a      *)
(* varint as its bytes, nothing after the end of a message (a byte 0 or    *)
(* the end of a group). Tags and lengths fit into varints of two bytes.    *)
(***************************************************************************)
Sizes == 0 .. 16383

Ends(p) == p.tag = 0 \/ WireType(p.tag) = EndGroup
HoldsString(p) == WireType(p.tag) = LengthDelimited /\ FieldNumber(p.tag) > 0
HoldsVarint(p) == WireType(p.tag) = 0 /\ p.tag # 0

IsVarint(b) ==
  \/ Len(b) = 1 /\ b[1] < 128
  \/ Len(b) = 2 /\ b[1] >= 128 /\ b[2] < 128

IsPiece(p) ==
  /\ p.tag \in Sizes
  /\ \/ Ends(p) /\ p.value = <<>>
     \/ HoldsString(p) /\ Len(p.value) \in Sizes
     \/ HoldsVarint(p) /\ IsVarint(p.value)

WirePieces == {p \in [tag : Sizes, value : Seq(Bytes)] : IsPiece(p)}

AfterTag(p) == IF HoldsString(p) THEN WriteVarint(Len(p.value)) \o p.value ELSE p.value
PieceBytes(p) == WriteVarint(p.tag) \o AfterTag(p)

\* The bytes of the first n of the pieces ps.
BytesOf(ps, n) ==
  LET upTo[i \in 0 .. n] == IF i = 0 THEN <<>> ELSE upTo[i - 1] \o PieceBytes(ps[i])
  IN  upTo[n]

\* What a piece does to a message: of two values of one field the later one
\* counts, other pieces are kept as they are.
IsField(p) == \E f \in Fields : p.tag = Tag(f)
Apply(m, p) ==
  IF IsField(p) THEN SetField(m, FieldNumber(p.tag), p.value)
  ELSE [m EXCEPT !.unknown = @ \o PieceBytes(p)]

\* The message that the first n of the pieces ps make.
Denotes(ps, n) ==
  LET upTo[i \in 0 .. n] == IF i = 0 THEN NewMessage ELSE Apply(upTo[i - 1], ps[i])
  IN  upTo[n]

\* The body that ps writes without the last cut bytes. It is well formed if
\* nothing is cut, no end comes and the type is there.
PieceBody(ps, cut) ==
  LET bytes == BytesOf(ps, Len(ps))
      m     == Denotes(ps, Len(ps))
  IN  [wire |-> SubSeq(bytes, 1, Len(bytes) - cut),
       ok   |-> cut = 0 /\ (\A i \in 1 .. Len(ps) : ~Ends(ps[i])) /\ IsInitialized(m),
       msg  |-> m]

\* What a body may lose at its end: less than its last piece.
Cuts(ps) == 0 .. (IF ps = <<>> THEN 0 ELSE Len(PieceBytes(ps[Len(ps)])) - 1)

\* All bodies of up to n of the pieces, whole or with the last piece cut.
PieceBodies(pieces, n) ==
  UNION {{PieceBody(ps, cut) : cut \in Cuts(ps)} : ps \in UNION {[1 .. k -> pieces] : k \in 0 .. n}}

\* The body of a message that a client writes with the same generated code. How
\* long it may be is up to the client; decode_header refuses more than 512 bytes.
WrittenBody(m) == [wire |-> Serialize(m), ok |-> IsInitialized(m), msg |-> m]
==============================================================================
