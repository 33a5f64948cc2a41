---------------------------- MODULE MessageStream ----------------------------
(***************************************************************************)
(* The two byte streams of one session: how do_read_header and             *)
(* do_read_body cut the incoming one into chat_messages, how io threads    *)
(* deal with the requests while the next one is read into the same         *)
(* m_read_msg_, and how do_write sends the answers from its pool of        *)
(* buffers (src/net_logic/cia_client.hpp, chat_message.hpp).               *)
(*                                                                         *)
(* A message is HeaderLength units of header and some units of body; the   *)
(* network delivers units one by one. A unit is <<number, offset>>, so a   *)
(* unit in the wrong place shows. MessageCodec says what a body means;     *)
(* CiaClient has the timer, the registration and several sessions.         *)
(*                                                                         *)
(* The peer, the socket and the voice card are external.                   *)
(***************************************************************************)
EXTENDS Integers, SequencesExt

CONSTANTS
  IoThreads,    \* m_io_comppletions_thread_
  Buffers,      \* the chat_messages of m_write_msg_queue_
  MaxRequests   \* bound: requests the peer means to send

ASSUME StreamAssumption ==
  /\ IsFiniteSet(IoThreads)
  /\ IsFiniteSet(Buffers) /\ Cardinality(Buffers) = Cardinality(IoThreads)
  /\ MaxRequests \in Nat

HeaderLength == 2   \* units of header_length
MaxBodyLength == 2  \* units of max_body_length

\* Units of an answer: length() of one that fits into m_data. That is a question of
\* its transid, and longer ones have no defined behaviour (AnswersAreFramed in
\* MessageCodec): in this module no transid is that long.
FrameLength == 2

\* What the peer sends. The header of a long request announces more than
\* max_body_length. An empty one has no body; it stands for all that needs no
\* answer, like a heartbeat response, an unknown type or bytes that do not parse.
Kinds == {"login", "call", "empty", "long"}
BodyLength(kind) == CASE kind = "empty" -> 0 [] kind = "call" -> 2 [] OTHER -> 1
Announced(kind) == IF kind = "long" THEN MaxBodyLength + 1 ELSE BodyLength(kind)

\* Answers, and the contents of a buffer that has none.
Answers == {"login", "call"} \X (1 .. MaxRequests)
NoBuffer == <<>>

VARIABLES
  requests,   \* the kinds of the requests the peer sends, in order
  next,       \* the unit of them that is read next
  readMsg,    \* the buffer of m_read_msg_
  filled,     \* units of it the outstanding async_read has reached
  length,     \* m_body_length of m_read_msg_
  reading,    \* the outstanding async_read, or its result
  pc,         \* what each io thread is about to do
  chMsg,      \* its ch_msg: the body it deals with, or the answer it writes
  calls,      \* requests the voice card has not answered yet
  pool,       \* m_write_msg_queue_
  content,    \* the answer in each buffer
  sending,    \* async_send operations under way, in order
  sent,       \* those that are done: <<buffer, succeeded>>
  out,        \* units written to the socket
  open,       \* m_sock_ is open
  peerOpen,   \* the peer has not closed the connection
  dealt       \* the requests dealt with so far (for the properties)

readVars == <<next, readMsg, filled, length, reading>>
writeVars == <<pool, content, sending, sent, out>>
threadVars == <<pc, chMsg>>
vars == <<requests, readVars, threadVars, calls, writeVars, open, peerOpen, dealt>>

\* The units of request number i, and the order in which the peer sends them.
Length(i) == HeaderLength + BodyLength(requests[i])
Units(i) == [j \in 1 .. Length(i) |-> <<i, j>>]
After(unit) ==
  IF unit[2] < Length(unit[1]) THEN <<unit[1], unit[2] + 1>> ELSE <<unit[1] + 1, 1>>

Reads == {"none", "header", "gotHeader", "body", "gotBody"}
BufferLength == HeaderLength + MaxBodyLength
UnitSet == (0 .. MaxRequests) \X (0 .. BufferLength)

TypeOK ==
  /\ requests \in [1 .. MaxRequests -> Kinds]
  /\ next \in (1 .. MaxRequests + 1) \X (1 .. BufferLength)
  /\ readMsg \in [1 .. BufferLength -> UnitSet]
  /\ filled \in 0 .. BufferLength
  /\ length \in 0 .. MaxBodyLength
  /\ reading \in Reads
  /\ pc \in [IoThreads -> {"idle", "next", "deal", "write"}]
  /\ calls \subseteq DOMAIN requests
  /\ content \in [Buffers -> {NoBuffer} \cup Answers]
  /\ \A d \in sent : d \in Buffers \X BOOLEAN
  /\ open \in BOOLEAN /\ peerOpen \in BOOLEAN

\* A session that has just been started: do_read_header has been called.
Init ==
  /\ requests \in [1 .. MaxRequests -> Kinds]
  /\ next = <<1, 1>>
  /\ readMsg = [j \in 1 .. BufferLength |-> <<0, 0>>]
  /\ filled = 0
  /\ length = 0
  /\ reading = "header"
  /\ pc = [t \in IoThreads |-> "idle"]
  /\ chMsg = [t \in IoThreads |-> NoBuffer]
  /\ calls = {}
  /\ pool = SetToSeq(Buffers)
  /\ content = [b \in Buffers |-> NoBuffer]
  /\ sending = <<>>
  /\ sent = {}
  /\ out = <<>>
  /\ open = TRUE
  /\ peerOpen = TRUE
  /\ dealt = <<>>

------------------------------------------------------------------------------
(* Reading                                                                  *)

\* How far the outstanding read goes.
Target == IF reading = "header" THEN HeaderLength ELSE HeaderLength + length

\* The next unit arrives; the last one of a read completes it.
Receive ==
  /\ open /\ reading \in {"header", "body"} /\ next[1] \in DOMAIN requests
  /\ readMsg' = [readMsg EXCEPT ![filled + 1] = next]
  /\ next' = After(next)
  /\ filled' = filled + 1
  /\ reading' = IF filled + 1 < Target THEN reading
                ELSE IF reading = "header" THEN "gotHeader" ELSE "gotBody"
  /\ UNCHANGED <<requests, length, threadVars, calls, writeVars, open, peerOpen, dealt>>

\* The length decode_header finds, or -1 if it refuses the header.
DecodeHeader(kind) == IF Announced(kind) > MaxBodyLength THEN -1 ELSE Announced(kind)

\* Mutant: a message without a body is not passed on; the next header is read.
HeaderDoneSkipsEmpty(t) ==
  LET n == DecodeHeader(requests[readMsg[1][1]]) IN
  /\ pc[t] = "idle" /\ reading = "gotHeader"
  /\ IF n >= 0
     THEN /\ length' = n
          /\ reading' = IF n = 0 THEN "header" ELSE "body"
          /\ filled' = IF n = 0 THEN 0 ELSE filled
          /\ UNCHANGED open
     ELSE /\ length' = 0
          /\ reading' = "none"
          /\ open' = FALSE
          /\ UNCHANGED filled
  /\ UNCHANGED <<requests, next, readMsg, threadVars, calls, writeVars, peerOpen, dealt>>

\* The header has been read: do_read_body, whose read is over at once if the
\* body is empty, or stop().
HeaderDone(t) ==
  LET n == DecodeHeader(requests[readMsg[1][1]]) IN
  /\ pc[t] = "idle" /\ reading = "gotHeader"
  /\ IF n >= 0
     THEN /\ length' = n
          /\ reading' = IF n = 0 THEN "gotBody" ELSE "body"
          /\ UNCHANGED open
     ELSE /\ length' = 0
          /\ reading' = "none"
          /\ open' = FALSE
  /\ UNCHANGED <<requests, next, readMsg, filled, threadVars, calls, writeVars, peerOpen, dealt>>

\* The body has been read: the message is copied.
BodyDone(t) ==
  /\ pc[t] = "idle" /\ reading = "gotBody"
  /\ chMsg' = [chMsg EXCEPT ![t] = SubSeq(readMsg, 1, HeaderLength + length)]
  /\ reading' = "none"
  /\ pc' = [pc EXCEPT ![t] = "next"]
  /\ UNCHANGED <<requests, next, readMsg, filled, length, calls, writeVars, open, peerOpen, dealt>>

\* Then the next header is read into m_read_msg_, before the request is dealt
\* with; other threads may go on from there.
ReadNext(t) ==
  /\ pc[t] = "next"
  /\ reading' = "header"
  /\ filled' = 0
  /\ pc' = [pc EXCEPT ![t] = "deal"]
  /\ UNCHANGED <<requests, next, readMsg, length, chMsg, calls, writeVars, open, peerOpen, dealt>>

\* A read fails when either side has closed the connection.
ReadFails(t) ==
  /\ pc[t] = "idle" /\ reading \in {"header", "body"} /\ ~(open /\ peerOpen)
  /\ reading' = "none"
  /\ open' = FALSE
  /\ UNCHANGED <<requests, next, readMsg, filled, length, threadVars, calls, writeVars, peerOpen, dealt>>

------------------------------------------------------------------------------
(* do_deal_request                                                          *)

\* Mutant: the message is passed on by reference, not copied.
MessageUncopied(t) == SubSeq(readMsg, 1, HeaderLength + length)

MessageOf(t) == chMsg[t]

\* The number of the request whose units a message has, 0 if they are not one
\* request's.
NumberOf(message) ==
  LET i == message[1][1] IN
  IF i \in DOMAIN requests /\ message = Units(i)
  THEN i ELSE 0

\* What io thread t does next: write an answer, <<kind, number>>, or nothing.
Answer(t, answer) ==
  /\ pc' = [pc EXCEPT ![t] = "write"]
  /\ chMsg' = [chMsg EXCEPT ![t] = answer]

Nothing(t) ==
  /\ pc' = [pc EXCEPT ![t] = "idle"]
  /\ chMsg' = [chMsg EXCEPT ![t] = NoBuffer]

\* Mutant: a call that the stub has answered goes to the card, too.
DealTwice(t) ==
  LET i == NumberOf(MessageOf(t))
      kind == IF i = 0 THEN "empty" ELSE requests[i]
  IN
  /\ pc[t] = "deal"
  /\ dealt' = Append(dealt, i)
  /\ IF kind \in {"login", "call"} THEN Answer(t, <<kind, i>>) ELSE Nothing(t)
  /\ calls' = IF kind = "call" THEN calls \cup {i} ELSE calls
  /\ UNCHANGED <<requests, readVars, writeVars, open, peerOpen>>

\* A login is answered, a call goes to the voice card, which answers later, or
\* at once if it is the stub; the rest needs nothing here.
Deal(t) ==
  LET i == NumberOf(MessageOf(t))
      kind == IF i = 0 THEN "empty" ELSE requests[i]
  IN
  /\ pc[t] = "deal"
  /\ dealt' = Append(dealt, i)
  /\ CASE kind = "login" -> Answer(t, <<"login", i>>) /\ UNCHANGED calls
       [] kind = "call"  -> \/ Answer(t, <<"call", i>>) /\ UNCHANGED calls
                            \/ Nothing(t) /\ calls' = calls \cup {i}
       [] OTHER          -> Nothing(t) /\ UNCHANGED calls
  /\ UNCHANGED <<requests, readVars, writeVars, open, peerOpen>>

------------------------------------------------------------------------------
(* do_write                                                                 *)

\* Mutant: a buffer goes back before its send is done.
PutEarly(b) == Append(Tail(pool), b)

\* m_write_msg_queue_ after Take() of b.
PoolAfterTake(b) == Tail(pool)

\* Take() a buffer, fill it and start async_send.
Write(answer) ==
  /\ pool # <<>>
  /\ pool' = PoolAfterTake(Head(pool))
  /\ content' = [content EXCEPT ![Head(pool)] = answer]
  /\ sending' = Append(sending, Head(pool))
  /\ UNCHANGED <<sent, out>>

IoWrite(t) ==
  /\ pc[t] = "write"
  /\ Write(chMsg[t])
  /\ Nothing(t)
  /\ UNCHANGED <<requests, readVars, calls, open, peerOpen, dealt>>

\* A thread of the voice card answers the call of request i.
CardAnswers(i) ==
  /\ i \in calls
  /\ calls' = calls \ {i}
  /\ Write(<<"call", i>>)
  /\ UNCHANGED <<requests, readVars, threadVars, open, peerOpen, dealt>>

\* The units of the answer a send writes.
SendUnits(b, n) == [j \in 1 .. n |-> <<content[b], j>>]

\* The socket carries out the oldest async_send, which is done with it even if
\* it has written a part only.
Transmit ==
  /\ sending # <<>> /\ open /\ peerOpen
  /\ \E n \in 1 .. FrameLength : out' = out \o SendUnits(Head(sending), n)
  /\ sent' = sent \cup {<<Head(sending), TRUE>>}
  /\ sending' = Tail(sending)
  /\ UNCHANGED <<requests, readVars, threadVars, calls, pool, content, open, peerOpen, dealt>>

TransmitFails ==
  /\ sending # <<>> /\ ~(open /\ peerOpen)
  /\ sent' = sent \cup {<<Head(sending), FALSE>>}
  /\ sending' = Tail(sending)
  /\ UNCHANGED <<requests, readVars, threadVars, calls, pool, content, out, open, peerOpen, dealt>>

\* Mutant: only a send that fails gives its buffer back.
SendDoneKeepsBuffer(t) ==
  \E d \in sent :
    /\ pc[t] = "idle"
    /\ sent' = sent \ {d}
    /\ pool' = IF d[2] THEN pool ELSE Append(pool, d[1])
    /\ open' = (open /\ d[2])
    /\ UNCHANGED <<requests, readVars, threadVars, calls, content, sending, out, peerOpen, dealt>>

\* The handler of async_send gives the buffer back and stops the session after
\* an error.
SendDone(t) ==
  \E d \in sent :
    /\ pc[t] = "idle"
    /\ sent' = sent \ {d}
    /\ pool' = Append(pool, d[1])
    /\ open' = (open /\ d[2])
    /\ UNCHANGED <<requests, readVars, threadVars, calls, content, sending, out, peerOpen, dealt>>

------------------------------------------------------------------------------
(* The environment, and the whole                                           *)

PeerCloses ==
  /\ peerOpen
  /\ peerOpen' = FALSE
  /\ UNCHANGED <<requests, readVars, threadVars, calls, writeVars, open, dealt>>

Handler(t) == HeaderDone(t) \/ BodyDone(t) \/ ReadFails(t) \/ SendDone(t)
Thread(t) == ReadNext(t) \/ Deal(t) \/ IoWrite(t)
Network == Receive \/ Transmit \/ TransmitFails
Card == \E i \in DOMAIN requests : CardAnswers(i)

Next ==
  \/ \E t \in IoThreads : Handler(t) \/ Thread(t)
  \/ Network \/ Card \/ PeerCloses

Spec == Init /\ [][Next]_vars

(***************************************************************************)
(* Fairness: the io_service hands every completion to some thread and each *)
(* thread runs; the network delivers what was sent; the card answers.      *)
(***************************************************************************)
Fairness ==
  /\ SF_vars(\E t \in IoThreads : HeaderDone(t) \/ BodyDone(t) \/ ReadFails(t))
  /\ SF_vars(\E t \in IoThreads : SendDone(t))
  /\ \A t \in IoThreads : SF_vars(Thread(t))
  /\ WF_vars(Receive) /\ WF_vars(Transmit \/ TransmitFails) /\ SF_vars(Card)

FairSpec == Spec /\ Fairness

------------------------------------------------------------------------------
(* Properties                                                               *)

(***************************************************************************)
(* Each request is dealt with at most once and as it was sent, although    *)
(* the next one is read into m_read_msg_ meanwhile and other threads deal  *)
(* with it: no thread ever deals with a mixture, and none after a header   *)
(* that decode_header refuses.                                             *)
(***************************************************************************)
RequestsStayWhole ==
  /\ IsInjective(dealt)
  /\ \A k \in DOMAIN dealt :
       /\ dealt[k] \in DOMAIN requests
       /\ \A i \in 1 .. dealt[k] : requests[i] # "long"

\* The request that is being read, or will be next.
Current == IF reading \in {"gotHeader", "body", "gotBody"} THEN readMsg[1][1] ELSE next[1]

\* Thread t has a copy of request i that it has not dealt with.
HasCopy(t, i) == pc[t] \in {"next", "deal"} /\ chMsg[t] = Units(i)

\* It was dealt with, or is with a thread.
Held(i) == i \in ToSet(dealt) \/ \E t \in IoThreads : HasCopy(t, i)

(***************************************************************************)
(* Each request that has been read was dealt with, or is with a thread     *)
(* that is about to: the read chain goes on without the copy, and the copy *)
(* survives that.                                                          *)
(***************************************************************************)
NoRequestIsLost == \A i \in 1 .. Current - 1 : Held(i)

\* Where the answers on the stream begin, and all answers that were written.
Begun == {k \in DOMAIN out : out[k][2] = 1}
Written == {out[k][1] : k \in Begun} \cup {content[b] : b \in ToSet(sending)}

(***************************************************************************)
(* Every answer that is written belongs to one request that was dealt with *)
(* and asks for it, and no request is answered twice.                      *)
(***************************************************************************)
AnswersMatchRequests ==
  /\ \A a \in Written : a[2] \in ToSet(dealt) /\ requests[a[2]] = a[1]
  /\ \A k, l \in Begun : out[k][1] = out[l][1] => k = l
  /\ \A k, l \in DOMAIN sending : content[sending[k]] = content[sending[l]] => k = l
  /\ \A k \in Begun, b \in ToSet(sending) : out[k][1] # content[b]

(***************************************************************************)
(* The answers of several threads do not mix on the stream: each goes on   *)
(* where it was, and is cut off, if async_send sends a part of it only,    *)
(* but not resumed or repeated.                                            *)
(***************************************************************************)
MessagesDoNotMix ==
  /\ \A k \in DOMAIN out : out[k][2] # 1 => k > 1 /\ out[k - 1] = <<out[k][1], out[k][2] - 1>>
  /\ IsInjective(out)

(***************************************************************************)
(* A chat_message that async_send refers to is not filled again before the *)
(* handler has put it back.                                                *)
(***************************************************************************)
SendKeepsItsBuffer ==
  [][\A b \in ToSet(sending) \cup {d[1] : d \in sent} : content'[b] = content[b]]_vars

\* What the peer sees of the session.
Peer == INSTANCE Dialogue WITH Threads <- Cardinality(IoThreads)

(***************************************************************************)
(* With its shared read buffer, copies, write buffers and several threads  *)
(* the session is a Dialogue: each step is one of its steps, or the peer   *)
(* cannot tell.                                                            *)
(***************************************************************************)
ImplementsDialogue == Peer!Spec

(***************************************************************************)
(* Several threads deal with the requests of one session, so one can be    *)
(* dealt with before earlier ones, but only by as many places as there are *)
(* other threads.                                                          *)
(***************************************************************************)
RequestsKeepTheirPlace == Peer!OvertakesFew

\* The queue of buffers, as the threads that write see it.
WriteQueue == INSTANCE WriteBuffers WITH
  Clients  <- {"session"},
  NoClient <- "none",
  Buffers  <- Cardinality(Buffers),
  free     <- [c \in {"session"} |-> Len(pool)],
  waiting  <- [t \in IoThreads |-> IF pc[t] = "write" THEN "session" ELSE "none"]

(***************************************************************************)
(* The queue keeps what it promises with real buffers in it: a send that   *)
(* is over puts its own back once, a thread that has taken one for itself  *)
(* is not in Take() any more.                                              *)
(***************************************************************************)
ImplementsWriteBuffers == WriteQueue!Spec

\* Every io thread waits for a buffer, which only an io thread can put back.
IoBlocked == pool = <<>> /\ \A t \in IoThreads : pc[t] = "write"

(***************************************************************************)
(* Every request is dealt with in the end, and every login and call gets   *)
(* its answer onto the stream, unless the connection goes or the io        *)
(* threads block each other; a header that is refused closes it. No        *)
(* completion, buffer or thread gets lost on the way.                      *)
(***************************************************************************)
RequestsAreAnswered ==
  <>(\/ ~open \/ ~peerOpen \/ IoBlocked
     \/ \A i \in 1 .. MaxRequests :
          /\ i \in ToSet(dealt)
          /\ requests[i] \in {"login", "call"} =>
               \E k \in DOMAIN out : out[k][1] = <<requests[i], i>>)
==============================================================================
