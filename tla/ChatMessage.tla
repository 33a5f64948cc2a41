----------------------------- MODULE ChatMessage -----------------------------
(***************************************************************************)
(* The messages the server answers a request with (cia_client.hpp, the     *)
(* voice card and its stub), and how chat_message puts one of them on the  *)
(* wire: a header with the length of the body, and the body, in a buffer   *)
(* of a fixed size.                                                        *)
(***************************************************************************)
EXTENDS CiaMessage

\* max_body_length, of the header_length + max_body_length bytes of m_data.
MaxBodyLength == 512

------------------------------------------------------------------------------
(* cia_def.h, as bytes                                                      *)

CIA_LOGIN_REQUEST  == <<48, 48, 48, 49, 48, 49>>
CIA_LOGIN_RESPONSE == <<48, 48, 48, 51, 48, 49>>
CIA_CALL_REQUEST   == <<48, 49, 48, 49, 48, 51>>
CIA_CALL_RESPONSE  == <<48, 49, 48, 51, 48, 51>>

CIA_LOGIN_SUCCESS == <<57, 57>>
CIA_CALL_SUCCESS  == <<57, 57>>
CIA_CALL_FAIL     == <<57, 56>>
CIA_CALL_TIMEOUT  == <<48, 49>>

CallStatuses == {CIA_CALL_SUCCESS, CIA_CALL_FAIL, CIA_CALL_TIMEOUT}

------------------------------------------------------------------------------
(* The answers                                                              *)

\* A call is answered with the transid of its request, from a new object.
CallResponse(id, code) ==
  SetField(SetField(SetField(NewMessage, type, CIA_CALL_RESPONSE), transid, id), status, code)

\* A login is answered from the object that holds the request.
LoginResponse(m) ==
  SetField(SetField(Clear(m), type, CIA_LOGIN_RESPONSE), status, CIA_LOGIN_SUCCESS)

\* What the request m may be answered with.
AnswersTo(m) ==
  CASE Field(m, type) = CIA_LOGIN_REQUEST -> {LoginResponse(m)}
    [] Field(m, type) = CIA_CALL_REQUEST  -> {CallResponse(Field(m, transid), code) : code \in CallStatuses}
    [] OTHER                              -> {}

------------------------------------------------------------------------------
(* chat_message                                                             *)

\* Mutant: any length is taken.
BodyLengthUnclamped(size) == size

\* body_length: no more than the buffer holds.
BodyLength(size) == IF size > MaxBodyLength THEN MaxBodyLength ELSE size

\* The constructor: the length in the header, and what SerializeToArray, which is
\* not told that length but ByteSize, writes from body() on.
Frame(m) == [bodyLength |-> BodyLength(ByteSize(m)), body |-> Serialize(m)]

\* The body is as long as the header says.
IsFramed(frame) == frame.bodyLength = Len(frame.body)

\* The body stays in m_data. What happens otherwise is undefined.
FitsBuffer(frame) == Len(frame.body) <= MaxBodyLength
==============================================================================
