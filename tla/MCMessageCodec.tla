--------------------------- MODULE MCMessageCodec ----------------------------
(***************************************************************************)
(* Bodies of up to three pieces around every kind of step: fields with     *)
(* a one- and a two-byte tag, next to each other or not, repeated, the     *)
(* last one, unknown fields of both wire types, a known number with        *)
(* another wire type, a byte 0 and the end of a group. Written messages    *)
(* have the string lengths around the two-byte varint, and requests a      *)
(* transid around the longest one that can be answered and up to the       *)
(* longest one that a body has room for.                                   *)
(***************************************************************************)
EXTENDS MessageCodec, MessageBodies

Piece(t, value) == [tag |-> t, value |-> value]

Pieces ==
  {Piece(Tag(1), <<65>>), Piece(Tag(1), <<>>), Piece(Tag(2), <<66, 10>>), Piece(Tag(15), <<67>>),
   Piece(Tag(16), <<68>>), Piece(Tag(22), <<69>>),
   Piece(184, <<5>>), Piece(186, <<70>>), Piece(16, <<130, 1>>), Piece(0, <<>>), Piece(12, <<>>), Piece(188, <<>>)}

\* They are pieces of the wire format.
ASSUME PiecesAssumption == Pieces \subseteq WirePieces

Repeated(n) == [i \in 1 .. n |-> 65]
Holding(has, n) ==
  [has |-> has, str |-> [f \in Fields |-> IF f \in has THEN Repeated(n) ELSE <<>>], unknown |-> <<>>]

Filled ==
  {Holding(has, n) : has \in {{}, {1}, {1, 8, 9}, {1, 2, 3}, 1 .. 15, {1, 16}, {1, 17, 22}, {2, 22}, Fields},
                     n \in {0, 1, 127, 128}}

Requests ==
  {SetField(SetField(NewMessage, type, request), transid, Repeated(n)) :
     request \in {CIA_LOGIN_REQUEST, CIA_CALL_REQUEST}, n \in {0, 127, 128, 496, 497, 498, 501}}

\* Those whose header do_read_header accepts.
Written == {m \in Filled \cup Requests : Len(Serialize(m)) <= MaxBodyLength}

MCBodies == PieceBodies(Pieces, 3) \cup {WrittenBody(m) : m \in Written}

MCReused == {NewMessage, Holding({1, 16, 22}, 1)}
==============================================================================
