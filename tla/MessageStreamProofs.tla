------------------------- MODULE MessageStreamProofs -------------------------
(***************************************************************************)
(* Proofs about MessageStream, for any number of requests, io threads and  *)
(* buffers. The invariant has three parts that hardly meet: the requests   *)
(* between the socket and the threads, the buffers between the pool and    *)
(* the sends, and the answers between the threads and the stream.          *)
(***************************************************************************)
EXTENDS MessageStream, SequenceTheorems, FiniteSetTheorems, TLAPS

------------------------------------------------------------------------------
(* The invariant                                                            *)

\* m_read_msg_ has the first n units of request i.
HasRead(i, n) == \A j \in 1 .. n : readMsg[j] = <<i, j>>

\* No request up to number n has a header that is refused.
NoLong(n) == \A i \in 1 .. n : requests[i] # "long"

(***************************************************************************)
(* The outstanding read is where the peer's stream is: at unit filled + 1  *)
(* of the current request, with the units before it in the buffer. While a *)
(* thread is between its copy and do_read_header nothing is being read.    *)
(***************************************************************************)
ReadIsAligned ==
  /\ reading = "header" =>
       filled < HeaderLength /\ next[2] = filled + 1 /\ HasRead(Current, filled)
  /\ reading \in {"gotHeader", "body", "gotBody"} =>
       /\ Current \in DOMAIN requests
       /\ filled \in HeaderLength .. Length(Current)
       /\ HasRead(Current, filled)
       /\ next = After(<<Current, filled>>)
  /\ reading = "gotHeader" => filled = HeaderLength
  /\ reading \in {"body", "gotBody"} =>
       requests[Current] # "long" /\ length = BodyLength(requests[Current])
  /\ reading = "body" => filled < Length(Current)
  /\ reading = "gotBody" => filled = Length(Current)
  /\ reading # "none" => NoLong(Current - 1)
  /\ \A t \in IoThreads : pc[t] = "next" =>
       /\ reading = "none" /\ next[2] = 1 /\ NoLong(Current - 1)
       /\ \A u \in IoThreads : pc[u] = "next" => u = t

(***************************************************************************)
(* What threads have copied and what was dealt with are requests before    *)
(* the current one, each of them once.                                     *)
(***************************************************************************)
CopiesAreRequests ==
  /\ DOMAIN chMsg = IoThreads
  /\ dealt \in Seq(DOMAIN requests)
  /\ IsInjective(dealt)
  /\ \A i \in ToSet(dealt) : i < Current /\ NoLong(i)
  /\ \A t \in IoThreads : pc[t] \in {"next", "deal"} =>
       \E i \in DOMAIN requests :
         HasCopy(t, i) /\ i < Current /\ NoLong(i) /\ i \notin ToSet(dealt)
  /\ \A t, u \in IoThreads, i \in DOMAIN requests : HasCopy(t, i) /\ HasCopy(u, i) => t = u

\* Each buffer is in one place: in the pool, with a send, or with its handler.
Handed == {d[1] : d \in sent}
BuffersAreApart ==
  /\ pool \in Seq(Buffers) /\ sending \in Seq(Buffers) /\ sent \subseteq Buffers \X BOOLEAN
  /\ IsInjective(pool) /\ IsInjective(sending)
  /\ \A d, e \in sent : d[1] = e[1] => d = e
  /\ ToSet(pool) \cap ToSet(sending) = {}
  /\ Handed \cap (ToSet(pool) \cup ToSet(sending)) = {}

\* An answer to a request that was dealt with and asks for it.
Asked(a) == a \in Answers /\ a[2] \in ToSet(dealt) /\ requests[a[2]] = a[1]

\* The answers with a thread, with the voice card, with a send, and begun on the stream.
OnThread == {chMsg[t] : t \in {u \in IoThreads : pc[u] = "write"}}
WithCard == {<<"call", i>> : i \in calls}
InSend == {content[b] : b \in ToSet(sending)}
OnStream == {out[k][1] : k \in Begun}

(***************************************************************************)
(* Every answer is asked for and in one place.                             *)
(***************************************************************************)
AnswersAreApart ==
  /\ \A a \in OnThread \cup WithCard \cup InSend \cup OnStream : Asked(a)
  /\ OnThread \cap WithCard = {}
  /\ (OnThread \cup WithCard) \cap (InSend \cup OnStream) = {}
  /\ InSend \cap OnStream = {}
  /\ \A t, u \in IoThreads :
       pc[t] = "write" /\ pc[u] = "write" /\ chMsg[t] = chMsg[u] => t = u
  /\ \A b, c \in ToSet(sending) : content[b] = content[c] => b = c
  /\ \A k, l \in Begun : out[k][1] = out[l][1] => k = l

\* The stream holds beginnings of answers.
OutIsFrames ==
  /\ out \in Seq(Answers \X (1 .. FrameLength))
  /\ \A k \in DOMAIN out :
       out[k][2] # 1 => k > 1 /\ out[k - 1] = <<out[k][1], out[k][2] - 1>>

ReadInv == ReadIsAligned /\ CopiesAreRequests
AnswerInv == AnswersAreApart /\ OutIsFrames
StreamInv == TypeOK /\ ReadInv /\ NoRequestIsLost /\ BuffersAreApart /\ AnswerInv

------------------------------------------------------------------------------
(* Sequences without repetition                                             *)

\* Append adds one element, and keeps a sequence without repetition so.
LEMMA AppendElement ==
  ASSUME NEW S, NEW s \in Seq(S), NEW x \in S
  PROVE  /\ Append(s, x) \in Seq(S)
         /\ ToSet(Append(s, x)) = ToSet(s) \cup {x}
         /\ IsInjective(s) /\ x \notin ToSet(s) => IsInjective(Append(s, x))
  <1> DEFINE a == Append(s, x)
  <1>1. /\ Len(s) \in Nat /\ DOMAIN s = 1 .. Len(s) /\ DOMAIN a = 1 .. Len(s) + 1
        /\ a \in Seq(S) /\ a[Len(s) + 1] = x
        /\ \A i \in 1 .. Len(s) : a[i] = s[i]
    BY AppendProperties, LenProperties
  <1> HIDE DEF a
  <1>2. ToSet(a) = ToSet(s) \cup {x}
    <2>1. \A i \in DOMAIN a : a[i] \in ToSet(s) \cup {x}
      BY <1>1 DEF ToSet
    <2>2. \A i \in DOMAIN s : s[i] \in ToSet(a)
      BY <1>1 DEF ToSet
    <2>3. x \in ToSet(a)
      BY <1>1 DEF ToSet
    <2> QED
      BY <2>1, <2>2, <2>3 DEF ToSet
  <1>3. ASSUME IsInjective(s), x \notin ToSet(s) PROVE IsInjective(a)
    BY <1>1, <1>3 DEF IsInjective, ToSet
  <1> QED
    BY <1>1, <1>2, <1>3 DEF a

\* Taking the head of a sequence without repetition takes it away.
LEMMA TakeHead ==
  ASSUME NEW S, NEW s \in Seq(S), s # <<>>, IsInjective(s)
  PROVE  /\ Head(s) \in S /\ Head(s) \in ToSet(s)
         /\ Tail(s) \in Seq(S) /\ IsInjective(Tail(s))
         /\ ToSet(Tail(s)) = ToSet(s) \ {Head(s)}
  <1> DEFINE r == Tail(s)
  <1>1. /\ Len(s) \in Nat /\ Len(s) > 0 /\ DOMAIN s = 1 .. Len(s) /\ Head(s) = s[1]
        /\ r \in Seq(S) /\ Head(s) \in S
        /\ DOMAIN r = 1 .. Len(s) - 1
        /\ \A i \in 1 .. Len(s) - 1 : r[i] = s[i + 1]
    BY HeadTailProperties, LenProperties, EmptySeq
  <1> HIDE DEF r
  <1>2. Head(s) \in ToSet(s)
    BY <1>1 DEF ToSet
  <1>3. IsInjective(r)
    BY <1>1 DEF IsInjective
  <1>4. ToSet(r) = ToSet(s) \ {Head(s)}
    <2>1. ASSUME NEW i \in DOMAIN r PROVE r[i] \in ToSet(s) /\ r[i] # Head(s)
      <3>1. i + 1 \in DOMAIN s /\ 1 \in DOMAIN s /\ i + 1 # 1
        BY <1>1
      <3>2. r[i] = s[i + 1] /\ Head(s) = s[1]
        BY <1>1
      <3>3. s[i + 1] # s[1]
        BY <3>1 DEF IsInjective
      <3> QED
        BY <3>1, <3>2, <3>3 DEF ToSet
    <2>2. ASSUME NEW i \in DOMAIN s, s[i] # Head(s) PROVE s[i] \in ToSet(r)
      <3>1. i - 1 \in DOMAIN r /\ r[i - 1] = s[i]
        BY <1>1, <2>2
      <3> QED
        BY <3>1 DEF ToSet
    <2> QED
      BY <2>1, <2>2 DEF ToSet
  <1> QED
    BY <1>1, <1>2, <1>3, <1>4 DEF r

\* SetToSeq lists a finite set without repetition.
LEMMA SetAsSequence ==
  ASSUME NEW S, IsFiniteSet(S)
  PROVE  /\ SetToSeq(S) \in Seq(S) /\ IsInjective(SetToSeq(S))
         /\ Len(SetToSeq(S)) = Cardinality(S)
  <1> DEFINE n == Cardinality(S)
  <1>1. n \in Nat /\ \E f \in [1 .. n -> S] : IsInjective(f)
    BY FS_CardinalityType DEF ExistsBijection, Bijection, Injection
  <1>2. SetToSeq(S) \in [1 .. n -> S] /\ IsInjective(SetToSeq(S))
    BY <1>1 DEF SetToSeq
  <1> QED
    BY <1>1, <1>2, SeqDef

------------------------------------------------------------------------------
(* Lengths and units                                                        *)

\* A request has two to four units, of which the current one is known.
LEMMA Lengths ==
  ASSUME TypeOK, NEW i \in 1 .. MaxRequests
  PROVE  /\ DOMAIN requests = 1 .. MaxRequests /\ MaxRequests \in Nat /\ requests[i] \in Kinds
         /\ Length(i) \in HeaderLength .. BufferLength
         /\ BodyLength(requests[i]) \in 0 .. MaxBodyLength
         /\ DecodeHeader(requests[i]) =
              IF requests[i] = "long" THEN -1 ELSE BodyLength(requests[i])
  BY StreamAssumption DEF TypeOK, Length, BodyLength, DecodeHeader, Announced, Kinds,
     HeaderLength, MaxBodyLength, BufferLength

\* The unit after unit j of request i.
LEMMA Afters ==
  ASSUME TypeOK, NEW i \in 1 .. MaxRequests, NEW j \in 1 .. Length(i)
  PROVE  After(<<i, j>>) = IF j < Length(i) THEN <<i, j + 1>> ELSE <<i + 1, 1>>
  BY DEF After

\* The units of different requests differ.
LEMMA UnitsDiffer ==
  ASSUME TypeOK, NEW i \in 1 .. MaxRequests, NEW j \in 1 .. MaxRequests, Units(i) = Units(j)
  PROVE  i = j
  <1>1. 1 \in 1 .. Length(i) /\ 1 \in 1 .. Length(j)
    BY Lengths DEF HeaderLength, BufferLength, MaxBodyLength
  <1>2. Units(i)[1] = <<i, 1>> /\ Units(j)[1] = <<j, 1>>
    BY <1>1 DEF Units
  <1> QED
    BY <1>2

------------------------------------------------------------------------------
(* The requests                                                             *)

LEMMA InitRead == Init => ReadInv
  <1> SUFFICES ASSUME Init PROVE ReadInv
    OBVIOUS
  <1>1. MaxRequests \in Nat /\ DOMAIN requests = 1 .. MaxRequests
    BY StreamAssumption DEF Init
  <1>2. ReadIsAligned
    BY <1>1 DEF Init, ReadIsAligned, Current, HasRead, NoLong, HeaderLength
  <1>3. dealt \in Seq(DOMAIN requests) /\ IsInjective(dealt) /\ ToSet(dealt) = {}
    <2>1. dealt = <<>> /\ DOMAIN dealt = {}
      BY DEF Init
    <2> QED
      BY <2>1 DEF IsInjective, ToSet
  <1>4. CopiesAreRequests
    BY <1>3 DEF Init, CopiesAreRequests, HasCopy
  <1> QED
    BY <1>2, <1>4 DEF ReadInv

\* Whatever leaves m_read_msg_ and undealt copies alone keeps ReadInv.
LEMMA ReadFrame ==
  ASSUME ReadInv, UNCHANGED <<requests, readVars, dealt>>, DOMAIN chMsg' = IoThreads,
         \A t \in IoThreads :
           \/ pc'[t] = pc[t] /\ chMsg'[t] = chMsg[t]
           \/ pc[t] \notin {"next", "deal"} /\ pc'[t] \notin {"next", "deal"}
  PROVE  ReadInv'
  <1>1. Current' = Current /\ \A t \in IoThreads : \A i : HasCopy(t, i)' <=> HasCopy(t, i)
    BY DEF readVars, Current, HasCopy, Units, Length, BodyLength
  <1>2. ReadIsAligned'
    BY <1>1 DEF ReadInv, ReadIsAligned, readVars, HasRead, NoLong, After, Length, BodyLength
  <1>3. CopiesAreRequests'
    <2>1. \A i : NoLong(i)' <=> NoLong(i)
      BY DEF NoLong
    <2>2. \A t \in IoThreads : pc'[t] \in {"next", "deal"} <=> pc[t] \in {"next", "deal"}
      OBVIOUS
    <2> QED
      BY <1>1, <2>1, <2>2 DEF ReadInv, CopiesAreRequests
  <1> QED
    BY <1>2, <1>3 DEF ReadInv

\* While a read is outstanding no thread is between its copy and the next read.
LEMMA NobodyNext ==
  ASSUME ReadInv, reading # "none"
  PROVE  \A t \in IoThreads : pc[t] # "next"
  BY DEF ReadInv, ReadIsAligned

\* Copies and what was dealt with are not disturbed when the current request
\* stays or goes on.
LEMMA CopiesFrame ==
  ASSUME ReadInv, UNCHANGED <<requests, threadVars, dealt>>,
         Current \in Int, Current' \in Int, Current <= Current',
         dealt \in Seq(Int), DOMAIN requests \subseteq Int
  PROVE  CopiesAreRequests'
  <1>1. \A t \in IoThreads : \A i : HasCopy(t, i)' <=> HasCopy(t, i)
    BY DEF HasCopy, threadVars, Units, Length, BodyLength
  <1>2. \A i : NoLong(i)' <=> NoLong(i)
    BY DEF NoLong
  <1>3. ToSet(dealt) \subseteq Int
    BY ElementOfSeq, LenProperties DEF ToSet
  <1>4. \A i \in Int : i < Current => i < Current'
    OBVIOUS
  <1>5. \A i \in ToSet(dealt)' : i < Current' /\ NoLong(i)'
    BY <1>2, <1>3, <1>4 DEF ReadInv, CopiesAreRequests
  <1>6. \A t \in IoThreads : pc'[t] \in {"next", "deal"} =>
          \E i \in DOMAIN requests' :
            HasCopy(t, i)' /\ i < Current' /\ NoLong(i)' /\ i \notin ToSet(dealt')
    BY <1>1, <1>2, <1>4 DEF ReadInv, CopiesAreRequests, threadVars
  <1> QED
    BY <1>1, <1>5, <1>6 DEF ReadInv, CopiesAreRequests, threadVars

\* The numbers the invariant speaks of are numbers.
LEMMA Numbers ==
  ASSUME TypeOK, ReadInv
  PROVE  /\ Current \in Int /\ filled \in Int /\ next[1] \in Int /\ next[2] \in Int
         /\ dealt \in Seq(Int) /\ DOMAIN requests = 1 .. MaxRequests
         /\ MaxRequests \in Nat
  <1>1. DOMAIN requests = 1 .. MaxRequests /\ MaxRequests \in Nat
    BY StreamAssumption DEF TypeOK
  <1>2. readMsg[1] \in UnitSet
    BY DEF TypeOK, BufferLength, HeaderLength, MaxBodyLength
  <1>3. readMsg[1][1] \in Int /\ next[1] \in Int /\ next[2] \in Int
    BY <1>1, <1>2 DEF TypeOK, UnitSet, BufferLength, HeaderLength, MaxBodyLength
  <1>4. dealt \in Seq(Int)
    BY <1>1, SeqDef DEF ReadInv, CopiesAreRequests
  <1> QED
    BY <1>1, <1>3, <1>4 DEF Current, TypeOK, BufferLength, HeaderLength, MaxBodyLength

\* A unit goes where the read expects it.
LEMMA ReceiveKeeps ==
  ASSUME TypeOK, ReadInv, Receive
  PROVE  ReadInv' /\ Current' = Current
  <1>1. PICK i \in 1 .. MaxRequests :
        /\ i = next[1] /\ reading \in {"header", "body"}
        /\ readMsg' = [readMsg EXCEPT ![filled + 1] = next]
        /\ next' = After(next) /\ filled' = filled + 1
        /\ UNCHANGED <<requests, length, threadVars, dealt>>
    BY Numbers DEF Receive
  <1>2. \A n : NoLong(n)' <=> NoLong(n)
    BY <1>1 DEF NoLong
  <1>3. Length(i) \in 2 .. 4 /\ \A j : Length(j)' = Length(j) /\ \A u : After(u)' = After(u)
    BY <1>1, Lengths DEF Length, BodyLength, After, HeaderLength, BufferLength, MaxBodyLength
  <1>4. filled \in 0 .. 3 /\ i = Current /\ next = <<i, filled + 1>> /\ filled + 1 <= Length(i)
        /\ HasRead(i, filled) /\ NoLong(i - 1)
    <2>1. next = <<next[1], next[2]>>
      BY DEF TypeOK
    <2>2. CASE reading = "header"
      BY <1>1, <1>3, <2>1, <2>2 DEF ReadInv, ReadIsAligned, Current, HeaderLength, TypeOK, BufferLength, MaxBodyLength
    <2>3. CASE reading = "body"
      <3>1. /\ Current \in 1 .. MaxRequests /\ filled \in 2 .. Length(Current) /\ filled < Length(Current)
            /\ HasRead(Current, filled) /\ NoLong(Current - 1)
            /\ next = After(<<Current, filled>>)
        BY <2>3, Numbers DEF ReadInv, ReadIsAligned, HeaderLength
      <3>2. Length(Current) \in 2 .. 4
        BY <3>1, Lengths DEF HeaderLength, BufferLength, MaxBodyLength
      <3>3. filled \in 1 .. Length(Current)
        BY <3>1, <3>2
      <3>4. After(<<Current, filled>>) = <<Current, filled + 1>>
        BY <3>1, <3>3, Afters
      <3> QED
        BY <1>1, <3>1, <3>2, <3>4
    <2> QED
      BY <1>1, <2>2, <2>3
  <1>5. HasRead(i, filled)' /\ readMsg'[1][1] = i
    <2>1. \A j \in 1 .. filled + 1 : readMsg'[j] = <<i, j>>
      <3>1. readMsg \in [1 .. 4 -> UnitSet]
        BY DEF TypeOK, HeaderLength, BufferLength, MaxBodyLength
      <3> QED
        BY <1>1, <1>4, <3>1 DEF HasRead
    <2>2. HasRead(i, filled)'
      BY <1>1, <1>4, <2>1 DEF HasRead
    <2> QED
      BY <1>4, <2>1, <2>2
  <1>6. Current' = i
    <2>1. CASE reading' = "header"
      <3>1. reading = "header" /\ filled + 1 < 2
        BY <1>1, <1>4, <2>1 DEF Receive, Target, HeaderLength
      <3>2. filled + 1 \in 1 .. Length(i) /\ filled + 1 < Length(i)
        BY <1>3, <1>4, <3>1
      <3>3. next' = <<i, filled + 1 + 1>>
        BY <1>1, <1>4, <3>2, Afters
      <3> QED
        BY <2>1, <3>3 DEF Current
    <2>2. CASE reading' # "header"
      <3>1. reading' \in {"body", "gotHeader", "gotBody"}
        BY <1>1, <2>2 DEF Receive
      <3> QED
        BY <1>5, <3>1 DEF Current
    <2> QED
      BY <2>1, <2>2
  <1>7. CopiesAreRequests'
    BY <1>1, <1>4, <1>6, CopiesFrame, Numbers
  <1>8. next' = After(<<i, filled>>)' \/ reading' = "header"
    BY <1>1, <1>3, <1>4
  <1>9. CASE reading = "header"
    <2>1. /\ filled' = filled + 1 /\ filled < 2 /\ Target = 2
          /\ reading' = IF filled' < 2 THEN "header" ELSE "gotHeader"
      BY <1>9 DEF Receive, Target, ReadInv, ReadIsAligned, HeaderLength
    <2>2. ASSUME reading' = "header" PROVE next'[2] = filled' + 1
      <3>1. filled + 1 \in 1 .. Length(i) /\ filled + 1 < Length(i)
        BY <1>3, <1>4, <2>1, <2>2
      <3>2. next' = <<i, filled + 1 + 1>>
        BY <1>1, <1>4, <3>1, Afters
      <3> QED
        BY <2>1, <3>2
    <2>3. \A t \in IoThreads : pc'[t] # "next"
      BY <1>1, NobodyNext DEF threadVars
    <2>4. reading' = "gotHeader" => filled' = 2
      BY <1>4, <2>1
    <2>5. reading' = "gotHeader" => next' = After(<<i, filled>>)'
      BY <1>8
    <2>6. ReadIsAligned'
      <3>1. reading' = "header" => filled' < HeaderLength /\ next'[2] = filled' + 1 /\ HasRead(i, filled)'
        BY <1>1, <1>5, <2>1, <2>2, <1>4 DEF HeaderLength
      <3>2. reading' = "gotHeader" =>
              /\ i \in DOMAIN requests' /\ filled' = HeaderLength
              /\ filled' \in HeaderLength .. Length(i)'
              /\ HasRead(i, filled)'
              /\ next' = After(<<i, filled>>)'
        BY <1>1, <1>3, <1>5, <2>4, <2>5, Numbers DEF HeaderLength
      <3>3. reading' \in {"header", "gotHeader"}
        BY <2>1
      <3>4. NoLong(i - 1)'
        BY <1>2, <1>4
      <3> QED
        BY <1>6, <2>3, <3>1, <3>2, <3>3, <3>4 DEF ReadIsAligned
    <2> QED
      BY <1>4, <1>6, <1>7, <2>6 DEF ReadInv
  <1>10. CASE reading = "body"
    <2>1. /\ requests[i] # "long" /\ length = BodyLength(requests[i])
          /\ filled \in 2 .. Length(i) /\ filled < Length(i)
      BY <1>4, <1>10 DEF ReadInv, ReadIsAligned, HeaderLength
    <2>2. Target = Length(i)
      BY <1>10, <2>1 DEF Target, Length
    <2>3. reading' = IF filled' < Length(i) THEN "body" ELSE "gotBody"
      BY <1>1, <1>10, <2>2 DEF Receive
    <2>4. /\ i \in DOMAIN requests' /\ requests'[i] # "long" /\ length' = BodyLength(requests'[i])
          /\ filled' \in HeaderLength .. Length(i)' /\ HasRead(i, filled)'
          /\ next' = After(<<i, filled>>)'
          /\ NoLong(i - 1)'
      <3>1. filled' \in HeaderLength .. Length(i)'
        BY <1>1, <1>3, <1>4, <2>1 DEF HeaderLength
      <3>2. next' = After(<<i, filled>>)'
        BY <1>8, <2>3
      <3> QED
        BY <1>1, <1>2, <1>4, <1>5, <2>1, <3>1, <3>2, Numbers DEF BodyLength
    <2>5. (reading' = "gotBody" => filled' = Length(i)') /\ (reading' = "body" => filled' < Length(i)')
      BY <1>1, <1>3, <1>4, <2>1, <2>3
    <2>6. \A t \in IoThreads : pc'[t] # "next"
      BY <1>1, NobodyNext DEF threadVars
    <2>7. reading' \in {"body", "gotBody"}
      BY <2>3
    <2>8. ReadIsAligned'
      BY <1>6, <2>4, <2>5, <2>6, <2>7 DEF ReadIsAligned
    <2> QED
      BY <1>4, <1>6, <1>7, <2>8 DEF ReadInv
  <1> QED
    BY <1>1, <1>9, <1>10

\* What a read that is not over knows of the current request.
LEMMA CurrentIsRead ==
  ASSUME TypeOK, ReadInv, reading \in {"gotHeader", "body", "gotBody"}
  PROVE  /\ Current = readMsg[1][1] /\ Current \in 1 .. MaxRequests
         /\ filled \in 2 .. Length(Current) /\ Length(Current) \in 2 .. 4
         /\ HasRead(Current, filled) /\ NoLong(Current - 1)
         /\ next = IF filled < Length(Current) THEN <<Current, filled + 1>> ELSE <<Current + 1, 1>>
  <1>1. /\ Current = readMsg[1][1] /\ Current \in 1 .. MaxRequests
        /\ filled \in 2 .. Length(Current)
        /\ HasRead(Current, filled) /\ NoLong(Current - 1)
        /\ next = After(<<Current, filled>>)
    BY Numbers DEF ReadInv, ReadIsAligned, Current, HeaderLength
  <1>2. Length(Current) \in 2 .. 4
    BY <1>1, Lengths DEF HeaderLength, BufferLength, MaxBodyLength
  <1>3. filled \in 1 .. Length(Current)
    BY <1>1, <1>2
  <1> QED
    BY <1>1, <1>2, <1>3, Afters

\* A header is decoded as the request was announced.
LEMMA HeaderDoneKeeps ==
  ASSUME TypeOK, ReadInv, NEW t \in IoThreads, HeaderDone(t)
  PROVE  ReadInv' /\ Current' = Current
  <1>1. PICK i \in 1 .. MaxRequests : i = Current /\ i = readMsg[1][1]
    BY CurrentIsRead DEF HeaderDone
  <1>2. /\ reading = "gotHeader" /\ filled = 2
        /\ UNCHANGED <<requests, next, readMsg, filled, threadVars, dealt>>
    BY DEF HeaderDone, ReadInv, ReadIsAligned, HeaderLength
  <1>3. /\ Length(i) \in 2 .. 4 /\ HasRead(i, filled) /\ NoLong(i - 1)
        /\ next = After(<<i, filled>>) /\ Length(i) = 2 + BodyLength(requests[i])
        /\ BodyLength(requests[i]) \in 0 .. 2
        /\ next[1] \in Int /\ i <= next[1]
    <2>1. next = After(<<i, filled>>)
      BY <1>1, <1>2 DEF ReadInv, ReadIsAligned
    <2>2. Length(i) = 2 + BodyLength(requests[i]) /\ BodyLength(requests[i]) \in 0 .. 2
      BY Lengths DEF Length, HeaderLength, MaxBodyLength
    <2> QED
      BY <1>1, <1>2, <2>1, <2>2, CurrentIsRead
  <1>4. /\ DecodeHeader(requests[i]) = IF requests[i] = "long" THEN -1 ELSE BodyLength(requests[i])
        /\ DOMAIN requests = 1 .. MaxRequests
    BY Lengths
  <1>5. \A u \in IoThreads : pc'[u] # "next"
    BY <1>2, NobodyNext DEF threadVars
  <1>6. \A n : NoLong(n)' <=> NoLong(n)
    BY <1>2 DEF NoLong
  <1>7. HasRead(i, filled)' /\ next' = After(<<i, filled>>)' /\ Length(i)' = Length(i)
    BY <1>2, <1>3 DEF HasRead, After, Length, BodyLength
  <1>8. CASE requests[i] = "long"
    <2>1. reading' = "none" /\ Current' = next[1]
      BY <1>1, <1>2, <1>4, <1>8 DEF HeaderDone, Current
    <2>2. CopiesAreRequests'
      BY <1>1, <1>2, <1>3, <2>1, CopiesFrame, Numbers
    <2>3. Length(i) = 3
      BY <1>3, <1>8 DEF BodyLength
    <2>4. next[1] = i
      BY <1>1, <1>2, <2>3, CurrentIsRead
    <2> QED
      BY <1>1, <1>5, <2>1, <2>2, <2>4 DEF ReadInv, ReadIsAligned
  <1>9. CASE requests[i] # "long"
    <2>1. /\ length' = BodyLength(requests[i])
          /\ reading' = IF Length(i) = 2 THEN "gotBody" ELSE "body"
      BY <1>1, <1>3, <1>4, <1>9 DEF HeaderDone
    <2>2. Current' = i
      BY <1>1, <1>2, <2>1 DEF Current
    <2>3. CopiesAreRequests'
      BY <1>1, <1>2, <2>2, CopiesFrame, Numbers
    <2>4. /\ i \in DOMAIN requests' /\ filled' \in HeaderLength .. Length(i)'
          /\ requests'[i] # "long" /\ length' = BodyLength(requests'[i])
          /\ NoLong(i - 1)'
      BY <1>2, <1>3, <1>4, <1>6, <1>7, <1>9, <2>1 DEF HeaderLength
    <2>5. (reading' = "body" => filled' < Length(i)') /\ (reading' = "gotBody" => filled' = Length(i)')
      BY <1>2, <1>3, <1>7, <2>1
    <2>6. reading' \in {"body", "gotBody"}
      BY <2>1
    <2>7. ReadIsAligned'
      BY <1>5, <1>7, <2>2, <2>4, <2>5, <2>6 DEF ReadIsAligned
    <2> QED
      BY <1>1, <2>2, <2>3, <2>7 DEF ReadInv
  <1> QED
    BY <1>8, <1>9

\* The copy of a message that has been read is the request.
LEMMA BodyDoneKeeps ==
  ASSUME TypeOK, ReadInv, NEW t \in IoThreads, BodyDone(t)
  PROVE  /\ ReadInv' /\ pc[t] = "idle"
         /\ \E i : i = Current /\ Current' = i + 1 /\ HasCopy(t, i)'
         /\ \A u \in IoThreads : \A j : HasCopy(u, j) => HasCopy(u, j)'
  <1>1. PICK i \in 1 .. MaxRequests : i = Current /\ i = readMsg[1][1]
    BY CurrentIsRead DEF BodyDone
  <1>2. /\ reading = "gotBody" /\ reading' = "none" /\ pc[t] = "idle"
        /\ pc' = [pc EXCEPT ![t] = "next"]
        /\ chMsg' = [chMsg EXCEPT ![t] = SubSeq(readMsg, 1, HeaderLength + length)]
        /\ UNCHANGED <<requests, next, dealt>>
    BY DEF BodyDone
  <1>3. /\ requests[i] # "long" /\ length = BodyLength(requests[i]) /\ filled = Length(i)
        /\ Length(i) \in 2 .. 4 /\ HasRead(i, filled) /\ NoLong(i - 1)
        /\ next = <<i + 1, 1>>
    BY <1>1, <1>2, CurrentIsRead DEF ReadInv, ReadIsAligned
  <1>4. SubSeq(readMsg, 1, HeaderLength + length) = Units(i)
    <2>1. readMsg \in [1 .. 4 -> UnitSet] /\ HeaderLength + length = Length(i)
      BY <1>3 DEF TypeOK, Length, HeaderLength, BufferLength, MaxBodyLength
    <2> DEFINE m == SubSeq(readMsg, 1, Length(i))
    <2>2. m \in Seq(UnitSet) /\ Len(m) = Length(i) /\ \A j \in 1 .. Length(i) : m[j] = readMsg[j]
      <3>1. \A j \in 1 .. Length(i) : readMsg[j] \in UnitSet
        BY <1>3, <2>1
      <3>2. /\ SubSeq(readMsg, 1, Length(i)) \in Seq(UnitSet)
            /\ Len(m) = IF 1 <= Length(i) THEN Length(i) - 1 + 1 ELSE 0
            /\ \A j \in 1 .. Length(i) - 1 + 1 : m[j] = readMsg[1 + j - 1]
        BY <1>3, <3>1, SubSeqProperties
      <3> QED
        BY <1>3, <3>2
    <2>3. m = [j \in 1 .. Length(i) |-> m[j]]
      BY <2>2, LenProperties
    <2>4. \A j \in 1 .. Length(i) : m[j] = <<i, j>>
      BY <1>3, <2>2 DEF HasRead
    <2>5. m = Units(i)
      BY <2>3, <2>4 DEF Units
    <2> QED
      BY <2>1, <2>5
  <1>5. Current' = i + 1 /\ i \in Int
    BY <1>2, <1>3 DEF Current
  <1>6. NoLong(i)
    BY <1>3 DEF NoLong
  <1>7. \A n : NoLong(n)' <=> NoLong(n)
    BY <1>2 DEF NoLong
  <1>8. \A u \in IoThreads : u # t => pc'[u] = pc[u] /\ chMsg'[u] = chMsg[u]
    BY <1>2 DEF ReadInv, CopiesAreRequests, TypeOK
  <1>9. pc'[t] = "next" /\ chMsg'[t] = Units(i) /\ DOMAIN chMsg' = IoThreads
    BY <1>2, <1>4 DEF ReadInv, CopiesAreRequests, TypeOK
  <1>10. ReadIsAligned'
    <2>1. \A u \in IoThreads : pc'[u] = "next" => u = t
      BY <1>2, <1>8, NobodyNext
    <2>2. next'[2] = 1 /\ NoLong(Current - 1)'
      BY <1>2, <1>3, <1>5, <1>6, <1>7
    <2> QED
      BY <1>2, <2>1, <2>2 DEF ReadIsAligned
  <1>11. CopiesAreRequests'
    <2>1. \A u \in IoThreads : \A j : u # t => (HasCopy(u, j)' <=> HasCopy(u, j))
      BY <1>2, <1>8 DEF HasCopy, Units, Length, BodyLength
    <2>2. HasCopy(t, i)'
      BY <1>2, <1>9 DEF HasCopy, Units, Length, BodyLength
    <2>3. ToSet(dealt) \subseteq Int /\ DOMAIN requests = 1 .. MaxRequests
      BY Numbers, ElementOfSeq, LenProperties DEF ToSet
    <2>4. i \notin ToSet(dealt) /\ \A j \in ToSet(dealt) : j < i + 1 /\ NoLong(j)
      BY <1>1, <2>3 DEF ReadInv, CopiesAreRequests
    <2>5. \A u \in IoThreads : pc'[u] \in {"next", "deal"} =>
            \E j \in DOMAIN requests :
              HasCopy(u, j)' /\ j < i + 1 /\ NoLong(j) /\ j \notin ToSet(dealt)
      <3> TAKE u \in IoThreads
      <3> HAVE pc'[u] \in {"next", "deal"}
      <3>1. CASE u = t
        BY <1>6, <2>2, <2>3, <2>4, <3>1
      <3>2. CASE u # t
        <4>1. PICK j \in DOMAIN requests :
                HasCopy(u, j) /\ j < i /\ NoLong(j) /\ j \notin ToSet(dealt)
          BY <1>1, <1>8, <3>2 DEF ReadInv, CopiesAreRequests
        <4> QED
          BY <2>1, <2>3, <3>2, <4>1
      <3> QED
        BY <3>1, <3>2
    <2>6. ASSUME NEW u \in IoThreads, u # t, NEW j \in DOMAIN requests, HasCopy(t, j)', HasCopy(u, j)'
          PROVE  FALSE
      <3>1. HasCopy(u, j) /\ Units(j) = Units(i)
        <4>1. Units(j)' = Units(j)
          BY <1>2 DEF Units, Length, BodyLength
        <4>2. chMsg'[t] = Units(j)
          BY <2>6, <4>1 DEF HasCopy
        <4> QED
          BY <1>9, <2>1, <2>6, <4>2
      <3>2. j = i
        BY <2>3, <3>1, UnitsDiffer
      <3>3. PICK k \in DOMAIN requests : HasCopy(u, k) /\ k < i
        BY <1>1, <3>1 DEF ReadInv, CopiesAreRequests, HasCopy
      <3>4. Units(k) = Units(j)
        BY <3>1, <3>3 DEF HasCopy
      <3>5. k = j
        BY <2>3, <3>4, UnitsDiffer
      <3> QED
        BY <3>2, <3>3, <3>5, <2>3
    <2>7. \A u, v \in IoThreads, j \in DOMAIN requests : HasCopy(u, j)' /\ HasCopy(v, j)' => u = v
      BY <2>1, <2>6 DEF ReadInv, CopiesAreRequests
    <2> QED
      BY <1>2, <1>5, <1>7, <1>9, <2>4, <2>5, <2>7 DEF ReadInv, CopiesAreRequests
  <1>12. i = Current /\ HasCopy(t, i)'
    BY <1>1, <1>2, <1>9 DEF HasCopy, Units, Length, BodyLength
  <1>13. \A u \in IoThreads : \A j : HasCopy(u, j) => HasCopy(u, j)'
    BY <1>2, <1>8 DEF HasCopy, Units, Length, BodyLength
  <1> QED
    BY <1>1, <1>2, <1>5, <1>10, <1>11, <1>12, <1>13 DEF ReadInv

\* A thread that goes on reading keeps its copy.
LEMMA ReadNextKeeps ==
  ASSUME TypeOK, ReadInv, NEW t \in IoThreads, ReadNext(t)
  PROVE  /\ ReadInv' /\ Current' = Current
         /\ \A u \in IoThreads : \A j : HasCopy(u, j) => HasCopy(u, j)'
  <1>1. /\ pc[t] = "next" /\ reading' = "header" /\ filled' = 0
        /\ pc' = [pc EXCEPT ![t] = "deal"]
        /\ UNCHANGED <<requests, next, readMsg, chMsg, dealt>>
    BY DEF ReadNext
  <1>2. reading = "none" /\ next[2] = 1 /\ NoLong(Current - 1) /\ \A u \in IoThreads : pc[u] = "next" => u = t
    BY <1>1 DEF ReadInv, ReadIsAligned
  <1>3. Current' = Current /\ \A n : NoLong(n)' <=> NoLong(n)
    BY <1>1, <1>2 DEF Current, NoLong
  <1>4. pc'[t] = "deal" /\ \A u \in IoThreads : u # t => pc'[u] = pc[u]
    BY <1>1 DEF TypeOK
  <1>5. ReadIsAligned'
    BY <1>1, <1>2, <1>3, <1>4 DEF ReadIsAligned, HasRead, HeaderLength
  <1>6. \A u \in IoThreads : pc'[u] \in {"next", "deal"} <=> pc[u] \in {"next", "deal"}
    BY <1>1, <1>4
  <1>7. \A u \in IoThreads : \A i : HasCopy(u, i)' <=> HasCopy(u, i)
    BY <1>1, <1>6 DEF HasCopy, Units, Length, BodyLength
  <1>8. CopiesAreRequests'
    BY <1>1, <1>3, <1>6, <1>7 DEF ReadInv, CopiesAreRequests
  <1> QED
    BY <1>3, <1>5, <1>7, <1>8 DEF ReadInv

\* A failed read leaves the stream where it was.
LEMMA ReadFailsKeeps ==
  ASSUME TypeOK, ReadInv, NEW t \in IoThreads, ReadFails(t)
  PROVE  ReadInv' /\ Current' = Current
  <1>1. /\ reading \in {"header", "body"} /\ reading' = "none"
        /\ UNCHANGED <<requests, next, threadVars, dealt>>
    BY DEF ReadFails
  <1>2. Current = next[1] /\ Current' = next[1]
    <2>1. CASE reading = "header"
      BY <1>1, <2>1, Numbers DEF Current
    <2>2. CASE reading = "body"
      <3>1. filled < Length(Current)
        BY <2>2 DEF ReadInv, ReadIsAligned
      <3> QED
        BY <1>1, <2>2, <3>1, CurrentIsRead, Numbers DEF Current
    <2> QED
      BY <1>1, <2>1, <2>2
  <1>3. CopiesAreRequests'
    BY <1>1, <1>2, CopiesFrame, Numbers
  <1>4. \A u \in IoThreads : pc'[u] # "next"
    BY <1>1, NobodyNext DEF threadVars
  <1> QED
    BY <1>1, <1>2, <1>3, <1>4 DEF ReadInv, ReadIsAligned

\* What a thread deals with is a request that was not dealt with.
LEMMA DealsWithRequest ==
  ASSUME TypeOK, ReadInv, NEW t \in IoThreads, Deal(t)
  PROVE  \E i \in 1 .. MaxRequests :
           /\ i = NumberOf(MessageOf(t))
           /\ HasCopy(t, i) /\ i < Current /\ NoLong(i) /\ i \notin ToSet(dealt)
  <1>1. PICK i \in DOMAIN requests :
          HasCopy(t, i) /\ i < Current /\ NoLong(i) /\ i \notin ToSet(dealt)
    BY DEF Deal, ReadInv, CopiesAreRequests
  <1>2. i \in 1 .. MaxRequests
    BY <1>1, Numbers
  <1>3. 1 \in 1 .. Length(i)
    BY <1>2, Lengths DEF HeaderLength, BufferLength, MaxBodyLength
  <1>4. chMsg[t] = Units(i) /\ Units(i)[1][1] = i
    BY <1>1, <1>3 DEF HasCopy, Units
  <1>5. NumberOf(MessageOf(t)) = i
    BY <1>1, <1>4 DEF NumberOf, MessageOf
  <1> QED
    BY <1>1, <1>2, <1>5

LEMMA DealKeeps ==
  ASSUME TypeOK, ReadInv, NEW t \in IoThreads, Deal(t)
  PROVE  /\ ReadInv' /\ Current' = Current
         /\ \A j \in 1 .. MaxRequests : Held(j) => Held(j)'
  <1>1. PICK i \in 1 .. MaxRequests :
           /\ i = NumberOf(MessageOf(t))
           /\ HasCopy(t, i) /\ i < Current /\ NoLong(i) /\ i \notin ToSet(dealt)
    BY DealsWithRequest
  <1>2. /\ pc[t] = "deal" /\ dealt' = Append(dealt, i)
        /\ UNCHANGED <<requests, next, readMsg, filled, length, reading>>
    BY <1>1 DEF Deal, readVars
  <1>3. /\ \E v \in {"write", "idle"} : pc' = [pc EXCEPT ![t] = v]
        /\ \E m : chMsg' = [chMsg EXCEPT ![t] = m]
    BY DEF Deal, Answer, Nothing
  <1>4. /\ pc'[t] \in {"write", "idle"} /\ DOMAIN chMsg' = IoThreads
        /\ \A u \in IoThreads : u # t => pc'[u] = pc[u] /\ chMsg'[u] = chMsg[u]
    BY <1>3 DEF TypeOK, ReadInv, CopiesAreRequests
  <1>5. Current' = Current /\ \A n : NoLong(n)' <=> NoLong(n)
    BY <1>2 DEF Current, NoLong
  <1>6. \A u \in IoThreads : pc'[u] = "next" => pc[u] = "next"
    BY <1>4
  <1>7. ReadIsAligned'
    BY <1>2, <1>5, <1>6 DEF ReadInv, ReadIsAligned, HasRead, After, Length, BodyLength
  <1>8. /\ dealt' \in Seq(DOMAIN requests) /\ IsInjective(dealt')
        /\ ToSet(dealt') = ToSet(dealt) \cup {i}
    BY <1>1, <1>2, AppendElement, Numbers DEF ReadInv, CopiesAreRequests
  <1>9. \A u \in IoThreads : \A j : u # t => (HasCopy(u, j)' <=> HasCopy(u, j))
    BY <1>2, <1>4 DEF HasCopy, Units, Length, BodyLength
  <1>10. \A j : ~HasCopy(t, j)'
    BY <1>4 DEF HasCopy
  <1>11. \A u \in IoThreads : pc'[u] \in {"next", "deal"} =>
           \E j \in DOMAIN requests :
             HasCopy(u, j)' /\ j < Current /\ NoLong(j) /\ j \notin ToSet(dealt')
    <2> TAKE u \in IoThreads
    <2> HAVE pc'[u] \in {"next", "deal"}
    <2>1. u # t
      BY <1>4
    <2>2. PICK j \in DOMAIN requests :
            HasCopy(u, j) /\ j < Current /\ NoLong(j) /\ j \notin ToSet(dealt)
      BY <1>4, <2>1 DEF ReadInv, CopiesAreRequests
    <2>3. j # i
      BY <1>1, <2>1, <2>2 DEF ReadInv, CopiesAreRequests
    <2> QED
      BY <1>8, <1>9, <2>1, <2>2, <2>3
  <1>12. CopiesAreRequests'
    <2>1. \A j \in ToSet(dealt') : j < Current' /\ NoLong(j)'
      BY <1>1, <1>5, <1>8 DEF ReadInv, CopiesAreRequests
    <2>2. \A u, v \in IoThreads, j \in DOMAIN requests : HasCopy(u, j)' /\ HasCopy(v, j)' => u = v
      BY <1>9, <1>10 DEF ReadInv, CopiesAreRequests
    <2> QED
      BY <1>2, <1>4, <1>5, <1>8, <1>11, <2>1, <2>2 DEF CopiesAreRequests
  <1>13. \A j \in 1 .. MaxRequests : HasCopy(t, j) => j = i
    BY <1>1, UnitsDiffer DEF HasCopy
  <1>14. \A j \in 1 .. MaxRequests : Held(j) => Held(j)'
    BY <1>8, <1>9, <1>13 DEF Held
  <1> QED
    BY <1>5, <1>7, <1>12, <1>14 DEF ReadInv

\* Writing an answer does not touch the requests.
LEMMA IoWriteKeeps ==
  ASSUME TypeOK, ReadInv, NEW t \in IoThreads, IoWrite(t)
  PROVE  ReadInv'
  <1>1. /\ pc[t] = "write" /\ pc' = [pc EXCEPT ![t] = "idle"]
        /\ chMsg' = [chMsg EXCEPT ![t] = NoBuffer]
        /\ UNCHANGED <<requests, readVars, dealt>>
    BY DEF IoWrite, Nothing
  <1>2. DOMAIN chMsg' = IoThreads
    BY <1>1 DEF ReadInv, CopiesAreRequests
  <1>3. \A u \in IoThreads :
           \/ pc'[u] = pc[u] /\ chMsg'[u] = chMsg[u]
           \/ pc[u] \notin {"next", "deal"} /\ pc'[u] \notin {"next", "deal"}
    BY <1>1 DEF TypeOK, ReadInv, CopiesAreRequests
  <1> QED
    BY <1>1, <1>2, <1>3, ReadFrame

LEMMA ReadStep ==
  ASSUME TypeOK, ReadInv, [Next]_vars
  PROVE  ReadInv'
  <1>1. ASSUME NEW t \in IoThreads, Handler(t) \/ Thread(t) PROVE ReadInv'
    <2>1. ASSUME SendDone(t) PROVE ReadInv'
      BY <2>1, ReadFrame DEF SendDone, threadVars, ReadInv, CopiesAreRequests
    <2> QED
      BY <1>1, <2>1, HeaderDoneKeeps, BodyDoneKeeps, ReadFailsKeeps, ReadNextKeeps, DealKeeps,
         IoWriteKeeps DEF Handler, Thread
  <1>2. ASSUME Network \/ Card \/ PeerCloses \/ UNCHANGED vars PROVE ReadInv'
    <2>1. CASE Receive
      BY <2>1, ReceiveKeeps
    <2>2. CASE Transmit \/ TransmitFails \/ Card \/ PeerCloses \/ UNCHANGED vars
      <3>1. UNCHANGED <<requests, readVars, threadVars, dealt>>
        BY <2>2 DEF Transmit, TransmitFails, Card, CardAnswers, PeerCloses, vars
      <3> QED
        BY <3>1, ReadFrame DEF threadVars, ReadInv, CopiesAreRequests
    <2> QED
      BY <1>2, <2>1, <2>2 DEF Network
  <1> QED
    BY <1>1, <1>2 DEF Next

\* What is the same before and after every other step.
LEMMA OtherStepsKeep ==
  ASSUME TypeOK, ReadInv, UNCHANGED <<requests, readVars, dealt>>,
         \A t \in IoThreads :
           \/ pc'[t] = pc[t] /\ chMsg'[t] = chMsg[t]
           \/ pc[t] \notin {"next", "deal"} /\ pc'[t] \notin {"next", "deal"}
  PROVE  Current' = Current /\ \A i : Held(i) => Held(i)'
  BY DEF readVars, Current, Held, HasCopy, Units, Length, BodyLength

\* The current request is held, and the next one is current.
CurrentIsTaken == \E i : i = Current /\ Current' = i + 1 /\ Held(i)'

\* A request that is held stays so, and the current one is held when the next
\* one becomes current.
LEMMA HeldStays ==
  ASSUME TypeOK, ReadInv, [Next]_vars
  PROVE  /\ \A i \in 1 .. MaxRequests : Held(i) => Held(i)'
         /\ Current' = Current \/ CurrentIsTaken
  <1> DEFINE Goal == /\ \A i \in 1 .. MaxRequests : Held(i) => Held(i)'
                     /\ Current' = Current \/ CurrentIsTaken
  <1>1. ASSUME UNCHANGED <<requests, threadVars, dealt>>, Current' = Current PROVE Goal
    BY <1>1 DEF Held, HasCopy, Units, Length, BodyLength, threadVars
  <1>2. ASSUME NEW t \in IoThreads, Handler(t) \/ Thread(t) PROVE Goal
    <2>1. CASE HeaderDone(t)
      <3>1. UNCHANGED <<requests, threadVars, dealt>>
        BY <2>1 DEF HeaderDone
      <3> QED
        BY <1>1, <2>1, <3>1, HeaderDoneKeeps
    <2>2. CASE ReadFails(t)
      <3>1. UNCHANGED <<requests, threadVars, dealt>>
        BY <2>2 DEF ReadFails
      <3> QED
        BY <1>1, <2>2, <3>1, ReadFailsKeeps
    <2>3. CASE BodyDone(t)
      <3>1. dealt' = dealt
        BY <2>3 DEF BodyDone
      <3>2. \A i : Held(i) => Held(i)'
        BY <2>3, <3>1, BodyDoneKeeps DEF Held
      <3>3. PICK i : i = Current /\ Current' = i + 1 /\ HasCopy(t, i)'
        BY <2>3, BodyDoneKeeps
      <3>4. Held(i)'
        BY <3>3 DEF Held
      <3> QED
        BY <3>2, <3>3, <3>4 DEF CurrentIsTaken
    <2>4. CASE ReadNext(t)
      <3>1. dealt' = dealt
        BY <2>4 DEF ReadNext
      <3> QED
        BY <2>4, <3>1, ReadNextKeeps DEF Held
    <2>5. CASE Deal(t)
      BY <2>5, DealKeeps
    <2>6. CASE IoWrite(t)
      <3>1. /\ pc[t] = "write" /\ pc' = [pc EXCEPT ![t] = "idle"]
            /\ chMsg' = [chMsg EXCEPT ![t] = NoBuffer]
            /\ UNCHANGED <<requests, readVars, dealt>>
        BY <2>6 DEF IoWrite, Nothing
      <3>2. \A u \in IoThreads :
               \/ pc'[u] = pc[u] /\ chMsg'[u] = chMsg[u]
               \/ pc[u] \notin {"next", "deal"} /\ pc'[u] \notin {"next", "deal"}
        BY <3>1 DEF TypeOK, ReadInv, CopiesAreRequests
      <3>3. Current' = Current /\ \A i : Held(i) => Held(i)'
        BY <3>1, <3>2, OtherStepsKeep
      <3> QED
        BY <3>3
    <2>7. CASE SendDone(t)
      <3>1. UNCHANGED <<requests, readVars, threadVars, dealt>>
        BY <2>7 DEF SendDone
      <3> QED
        BY <1>1, <3>1, OtherStepsKeep DEF threadVars
    <2> QED
      BY <1>2, <2>1, <2>2, <2>3, <2>4, <2>5, <2>6, <2>7 DEF Handler, Thread
  <1>3. CASE Receive
    <2>1. UNCHANGED <<requests, threadVars, dealt>>
      BY <1>3 DEF Receive
    <2> QED
      BY <1>1, <1>3, <2>1, ReceiveKeeps
  <1>4. CASE Transmit \/ TransmitFails \/ Card \/ PeerCloses \/ UNCHANGED vars
    <2>1. UNCHANGED <<requests, readVars, threadVars, dealt>>
      BY <1>4 DEF Transmit, TransmitFails, Card, CardAnswers, PeerCloses, vars
    <2> QED
      BY <1>1, <2>1, OtherStepsKeep DEF threadVars
  <1> QED
    BY <1>2, <1>3, <1>4 DEF Next, Network

LEMMA NothingIsLost ==
  ASSUME TypeOK, ReadInv, NoRequestIsLost, [Next]_vars
  PROVE  NoRequestIsLost'
  <1>1. Current \in Int /\ Current <= MaxRequests + 1 /\ MaxRequests \in Nat
    BY Numbers, CurrentIsRead DEF Current, TypeOK
  <1>2. \A i \in 1 .. Current - 1 : i \in 1 .. MaxRequests /\ Held(i)
    BY <1>1 DEF NoRequestIsLost
  <1>3. \A i \in 1 .. Current - 1 : Held(i)'
    BY <1>2, HeldStays
  <1>4. CASE Current' = Current
    BY <1>3, <1>4 DEF NoRequestIsLost
  <1>5. CASE CurrentIsTaken
    <2>1. PICK c : c = Current /\ Current' = c + 1 /\ Held(c)'
      BY <1>5 DEF CurrentIsTaken
    <2>2. \A i \in 1 .. Current' - 1 : i = c \/ i \in 1 .. Current - 1
      BY <1>1, <2>1
    <2>3. \A i \in 1 .. Current' - 1 : Held(i)'
      BY <1>3, <2>1, <2>2
    <2> QED
      BY <2>3 DEF NoRequestIsLost
  <1> QED
    BY <1>4, <1>5, HeldStays

------------------------------------------------------------------------------
(* The buffers                                                              *)

LEMMA InitBuffers == Init => BuffersAreApart
  <1> SUFFICES ASSUME Init PROVE BuffersAreApart
    OBVIOUS
  <1>1. pool \in Seq(Buffers) /\ IsInjective(pool)
    BY SetAsSequence, StreamAssumption DEF Init
  <1>2. sending = <<>> /\ DOMAIN sending = {} /\ sent = {}
    BY DEF Init
  <1> QED
    BY <1>1, <1>2 DEF BuffersAreApart, Handed, ToSet, IsInjective

\* A buffer goes from the pool to a send.
LEMMA WriteKeepsBuffers ==
  ASSUME BuffersAreApart, NEW answer, Write(answer)
  PROVE  BuffersAreApart'
  <1> DEFINE b == Head(pool)
  <1>1. pool # <<>> /\ pool' = Tail(pool) /\ sending' = Append(sending, b) /\ sent' = sent
    BY DEF Write, PoolAfterTake
  <1>2. /\ b \in Buffers /\ b \in ToSet(pool) /\ pool' \in Seq(Buffers) /\ IsInjective(pool')
        /\ ToSet(pool') = ToSet(pool) \ {b}
    BY <1>1, TakeHead DEF BuffersAreApart
  <1>3. /\ sending' \in Seq(Buffers) /\ IsInjective(sending')
        /\ ToSet(sending') = ToSet(sending) \cup {b}
    <2>1. b \notin ToSet(sending)
      BY <1>2 DEF BuffersAreApart
    <2> QED
      BY <1>1, <1>2, <2>1, AppendElement DEF BuffersAreApart
  <1>4. Handed' = Handed
    BY <1>1 DEF Handed
  <1> QED
    BY <1>1, <1>2, <1>3, <1>4 DEF BuffersAreApart

\* A buffer goes from its send to the handler.
LEMMA SendEndsKeepsBuffers ==
  ASSUME BuffersAreApart, NEW ok \in BOOLEAN, sending # <<>>,
         sent' = sent \cup {<<Head(sending), ok>>}, sending' = Tail(sending), pool' = pool
  PROVE  BuffersAreApart'
  <1> DEFINE b == Head(sending)
  <1>1. /\ b \in Buffers /\ b \in ToSet(sending) /\ sending' \in Seq(Buffers) /\ IsInjective(sending')
        /\ ToSet(sending') = ToSet(sending) \ {b}
    BY TakeHead DEF BuffersAreApart
  <1>2. Handed' = Handed \cup {b} /\ b \notin Handed /\ b \notin ToSet(pool)
    <2>1. <<b, ok>>[1] = b
      OBVIOUS
    <2>2. sent' = sent \cup {<<b, ok>>}
      OBVIOUS
    <2>3. Handed' = Handed \cup {b}
      BY <2>1, <2>2, Zenon DEF Handed
    <2> QED
      BY <1>1, <2>3 DEF BuffersAreApart
  <1>3. sent' \subseteq Buffers \X BOOLEAN
    BY <1>1 DEF BuffersAreApart
  <1>4. \A d, e \in sent' : d[1] = e[1] => d = e
    <2>1. \A d \in sent : d[1] # b
      BY <1>2 DEF Handed
    <2>2. \A d \in sent' : d \in sent \/ d = <<b, ok>>
      OBVIOUS
    <2>3. <<b, ok>>[1] = b /\ \A d, e \in sent : d[1] = e[1] => d = e
      BY DEF BuffersAreApart
    <2> HIDE DEF b
    <2> QED
      BY <2>1, <2>2, <2>3
  <1> QED
    BY <1>1, <1>2, <1>3, <1>4 DEF BuffersAreApart

\* A buffer goes from the handler to the pool.
LEMMA SendDoneKeepsBuffers ==
  ASSUME BuffersAreApart, NEW t \in IoThreads, SendDone(t)
  PROVE  BuffersAreApart'
  <1>1. PICK d \in sent : sent' = sent \ {d} /\ pool' = Append(pool, d[1]) /\ sending' = sending
    BY DEF SendDone
  <1>2. d[1] \in Buffers /\ d[1] \notin ToSet(pool) /\ d[1] \notin ToSet(sending)
    BY DEF BuffersAreApart, Handed
  <1>3. /\ pool' \in Seq(Buffers) /\ IsInjective(pool')
        /\ ToSet(pool') = ToSet(pool) \cup {d[1]}
    BY <1>1, <1>2, AppendElement DEF BuffersAreApart
  <1>4. Handed' = Handed \ {d[1]}
    BY <1>1 DEF Handed, BuffersAreApart
  <1> QED
    BY <1>1, <1>2, <1>3, <1>4 DEF BuffersAreApart

LEMMA BuffersStep ==
  ASSUME BuffersAreApart, [Next]_vars
  PROVE  BuffersAreApart'
  <1>1. ASSUME UNCHANGED <<pool, sending, sent>> PROVE BuffersAreApart'
    <2>1. Handed' = Handed /\ pool' = pool /\ sending' = sending /\ sent' = sent
      BY <1>1 DEF Handed
    <2> QED
      BY <2>1 DEF BuffersAreApart
  <1>2. ASSUME NEW t \in IoThreads, Handler(t) \/ Thread(t) PROVE BuffersAreApart'
    <2>1. CASE HeaderDone(t) \/ BodyDone(t) \/ ReadFails(t) \/ ReadNext(t) \/ Deal(t)
      BY <1>1, <2>1 DEF HeaderDone, BodyDone, ReadFails, ReadNext, Deal, writeVars
    <2>2. CASE SendDone(t)
      BY <2>2, SendDoneKeepsBuffers
    <2>3. CASE IoWrite(t)
      BY <2>3, WriteKeepsBuffers DEF IoWrite
    <2> QED
      BY <1>2, <2>1, <2>2, <2>3 DEF Handler, Thread
  <1>3. ASSUME Network PROVE BuffersAreApart'
    <2>1. CASE Receive
      BY <1>1, <2>1 DEF Receive, writeVars
    <2>2. CASE Transmit
      BY <2>2, SendEndsKeepsBuffers DEF Transmit
    <2>3. CASE TransmitFails
      BY <2>3, SendEndsKeepsBuffers DEF TransmitFails
    <2> QED
      BY <1>3, <2>1, <2>2, <2>3 DEF Network
  <1>4. ASSUME NEW i, CardAnswers(i) PROVE BuffersAreApart'
    BY <1>4, WriteKeepsBuffers DEF CardAnswers
  <1>5. ASSUME PeerCloses \/ UNCHANGED vars PROVE BuffersAreApart'
    BY <1>1, <1>5 DEF PeerCloses, vars, writeVars
  <1> QED
    BY <1>2, <1>3, <1>4, <1>5 DEF Next, Card

------------------------------------------------------------------------------
(* The answers                                                              *)

LEMMA InitAnswers == Init => AnswerInv
  <1> SUFFICES ASSUME Init PROVE AnswerInv
    OBVIOUS
  <1>1. \A t \in IoThreads : pc[t] # "write"
    BY DEF Init
  <1>2. calls = {} /\ sending = <<>> /\ out = <<>> /\ DOMAIN sending = {} /\ DOMAIN out = {}
    BY DEF Init
  <1>3. OnThread = {} /\ WithCard = {} /\ InSend = {} /\ OnStream = {} /\ Begun = {} /\ ToSet(sending) = {}
    BY <1>1, <1>2 DEF OnThread, WithCard, InSend, OnStream, Begun, ToSet
  <1> QED
    BY <1>1, <1>2, <1>3 DEF AnswerInv, AnswersAreApart, OutIsFrames

\* What was asked for stays so.
LEMMA AskedForGood ==
  ASSUME NEW a, Asked(a), requests' = requests, ToSet(dealt) \subseteq ToSet(dealt')
  PROVE  Asked(a)'
  BY DEF Asked, Answers

\* Whatever leaves the answers where they are keeps AnswerInv.
LEMMA AnswersFrame ==
  ASSUME AnswerInv, UNCHANGED <<requests, calls, content, sending, out>>,
         ToSet(dealt) \subseteq ToSet(dealt'),
         \A t \in IoThreads : pc'[t] = "write" <=> pc[t] = "write",
         \A t \in IoThreads : pc[t] = "write" => chMsg'[t] = chMsg[t]
  PROVE  AnswerInv'
  <1>1. OnThread' = OnThread
    BY DEF OnThread
  <1>2. WithCard' = WithCard /\ InSend' = InSend /\ OnStream' = OnStream /\ Begun' = Begun
    BY DEF WithCard, InSend, OnStream, Begun
  <1>3. \A a \in OnThread \cup WithCard \cup InSend \cup OnStream : Asked(a)'
    BY AskedForGood DEF AnswerInv, AnswersAreApart
  <1>4. AnswersAreApart'
    BY <1>1, <1>2, <1>3 DEF AnswerInv, AnswersAreApart
  <1> QED
    BY <1>4 DEF AnswerInv, OutIsFrames, Answers

\* A request that was not dealt with has no answer anywhere.
LEMMA NoAnswerYet ==
  ASSUME AnswerInv, NEW kind, NEW i, i \notin ToSet(dealt)
  PROVE  <<kind, i>> \notin OnThread \cup WithCard \cup InSend \cup OnStream
  <1>1. <<kind, i>>[2] = i
    OBVIOUS
  <1> QED
    BY <1>1 DEF AnswerInv, AnswersAreApart, Asked

\* Dealing with a request asks for its answer.
LEMMA DealKeepsAnswers ==
  ASSUME TypeOK, ReadInv, AnswerInv, NEW t \in IoThreads, Deal(t)
  PROVE  AnswerInv'
  <1>1. PICK i \in 1 .. MaxRequests : i = NumberOf(MessageOf(t)) /\ i \notin ToSet(dealt)
    BY DealsWithRequest
  <1>0. PICK kind : kind = requests[i]
    OBVIOUS
  <1>2. /\ pc[t] = "deal" /\ dealt' = Append(dealt, i)
        /\ UNCHANGED <<requests, content, sending, out>>
        /\ \/ kind \in {"login", "call"} /\ Answer(t, <<kind, i>>) /\ UNCHANGED calls
           \/ kind = "call" /\ Nothing(t) /\ calls' = calls \cup {i}
           \/ Nothing(t) /\ UNCHANGED calls
    <2>1. i # 0
      BY <1>1, Numbers
    <2> QED
      BY <1>0, <1>1, <2>1 DEF Deal, writeVars
  <1>3. ToSet(dealt') = ToSet(dealt) \cup {i}
    BY <1>1, <1>2, AppendElement, Numbers DEF ReadInv, CopiesAreRequests
  <1>4. InSend' = InSend /\ OnStream' = OnStream /\ Begun' = Begun
    BY <1>2 DEF InSend, OnStream, Begun
  <1>5. \A a \in OnThread \cup WithCard \cup InSend \cup OnStream : Asked(a)'
    BY <1>2, <1>3, AskedForGood DEF AnswerInv, AnswersAreApart
  <1>6. OutIsFrames'
    BY <1>2 DEF AnswerInv, OutIsFrames, Answers
  <1>7. ASSUME kind \in {"login", "call"} PROVE Asked(<<kind, i>>)'
    BY <1>0, <1>2, <1>3, <1>7 DEF Asked, Answers
  <1>8. \A k : <<k, i>> \notin OnThread \cup WithCard \cup InSend \cup OnStream
    BY <1>1, NoAnswerYet
  <1>9. ASSUME Nothing(t) PROVE /\ \A u \in IoThreads : pc'[u] = "write" <=> pc[u] = "write"
                                /\ \A u \in IoThreads : pc[u] = "write" => chMsg'[u] = chMsg[u]
    BY <1>2, <1>9 DEF Nothing, TypeOK, ReadInv, CopiesAreRequests
  <1>10. CASE Nothing(t) /\ UNCHANGED calls
    BY <1>2, <1>3, <1>9, <1>10, AnswersFrame
  <1>11. CASE kind = "call" /\ Nothing(t) /\ calls' = calls \cup {i}
    <2>1. OnThread' = OnThread
      BY <1>9, <1>11 DEF OnThread
    <2>2. WithCard' = WithCard \cup {<<"call", i>>}
      BY <1>11 DEF WithCard
    <2>3. Asked(<<"call", i>>)'
      BY <1>7, <1>11
    <2>4. AnswersAreApart'
      BY <1>2, <1>4, <1>5, <1>8, <1>9, <1>11, <2>1, <2>2, <2>3 DEF AnswerInv, AnswersAreApart
    <2> QED
      BY <1>6, <2>4 DEF AnswerInv
  <1>12. CASE kind \in {"login", "call"} /\ Answer(t, <<kind, i>>) /\ UNCHANGED calls
    <2>1. /\ pc'[t] = "write" /\ chMsg'[t] = <<kind, i>>
          /\ \A u \in IoThreads : u # t => pc'[u] = pc[u] /\ chMsg'[u] = chMsg[u]
      BY <1>12 DEF Answer, TypeOK, ReadInv, CopiesAreRequests
    <2>2. OnThread' = OnThread \cup {<<kind, i>>}
      BY <1>2, <2>1 DEF OnThread
    <2>3. WithCard' = WithCard
      BY <1>12 DEF WithCard
    <2>4. \A u \in IoThreads : pc[u] = "write" => chMsg[u] \in OnThread
      BY DEF OnThread
    <2>5. \A u, v \in IoThreads :
            pc'[u] = "write" /\ pc'[v] = "write" /\ chMsg'[u] = chMsg'[v] => u = v
      <3>1. \A u \in IoThreads : u # t /\ pc'[u] = "write" => chMsg'[u] # chMsg'[t]
        BY <1>8, <2>1, <2>4
      <3>2. \A u, v \in IoThreads :
              u # t /\ v # t /\ pc'[u] = "write" /\ pc'[v] = "write" /\ chMsg'[u] = chMsg'[v] => u = v
        BY <2>1 DEF AnswerInv, AnswersAreApart
      <3> QED
        BY <3>1, <3>2
    <2>6. AnswersAreApart'
      BY <1>2, <1>4, <1>5, <1>7, <1>8, <1>12, <2>2, <2>3, <2>5 DEF AnswerInv, AnswersAreApart
    <2> QED
      BY <1>6, <2>6 DEF AnswerInv
  <1> QED
    BY <1>2, <1>10, <1>11, <1>12

\* do_write fills a buffer no send refers to.
LEMMA WriteFills ==
  ASSUME TypeOK, BuffersAreApart, NEW answer, Write(answer)
  PROVE  /\ InSend' = InSend \cup {answer} /\ out' = out
         /\ \A b \in ToSet(sending) \cup Handed : content'[b] = content[b]
         /\ (\A b, c \in ToSet(sending) : content[b] = content[c] => b = c) /\ answer \notin InSend
              => \A b, c \in ToSet(sending') : content'[b] = content'[c] => b = c
  <1>1. PICK h : h = Head(pool)
    OBVIOUS
  <1>2. h \in Buffers /\ h \notin ToSet(sending) /\ h \notin Handed
    BY <1>1, TakeHead DEF Write, BuffersAreApart
  <1>3. ToSet(sending') = ToSet(sending) \cup {h}
    BY <1>1, <1>2, AppendElement DEF Write, BuffersAreApart
  <1>4. content'[h] = answer /\ \A b \in Buffers : b # h => content'[b] = content[b]
    BY <1>1, <1>2 DEF Write, TypeOK
  <1>5. ToSet(sending) \subseteq Buffers /\ Handed \subseteq Buffers
    <2>1. ToSet(sending) \subseteq Buffers
      BY ElementOfSeq, LenProperties DEF BuffersAreApart, ToSet
    <2> QED
      BY <2>1 DEF BuffersAreApart, Handed
  <1>6. \A b \in ToSet(sending) \cup Handed : content'[b] = content[b]
    BY <1>2, <1>4, <1>5
  <1>7. InSend' = InSend \cup {answer}
    BY <1>3, <1>4, <1>6 DEF InSend
  <1>8. \A b \in ToSet(sending) : content[b] \in InSend
    BY DEF InSend
  <1>9. ASSUME \A b, c \in ToSet(sending) : content[b] = content[c] => b = c, answer \notin InSend
        PROVE  \A b, c \in ToSet(sending') : content'[b] = content'[c] => b = c
    <2>1. \A b \in ToSet(sending) : content'[b] # content'[h]
      BY <1>4, <1>6, <1>8, <1>9
    <2>2. \A b, c \in ToSet(sending) : content'[b] = content'[c] => b = c
      BY <1>6, <1>9
    <2> QED
      BY <1>3, <2>1, <2>2
  <1> QED
    BY <1>6, <1>7, <1>9 DEF Write

\* An answer goes from a thread to a send.
LEMMA IoWriteKeepsAnswers ==
  ASSUME TypeOK, ReadInv, BuffersAreApart, AnswerInv, NEW t \in IoThreads, IoWrite(t)
  PROVE  AnswerInv'
  <1>1. PICK answer : answer = chMsg[t]
    OBVIOUS
  <1>2. /\ pc[t] = "write" /\ Write(answer) /\ Nothing(t)
        /\ UNCHANGED <<requests, calls, dealt>>
    BY <1>1 DEF IoWrite
  <1>3. /\ pc'[t] = "idle"
        /\ \A u \in IoThreads : u # t => pc'[u] = pc[u] /\ chMsg'[u] = chMsg[u]
    BY <1>2 DEF Nothing, TypeOK, ReadInv, CopiesAreRequests
  <1>4. answer \in OnThread /\ answer \notin InSend
    <2>1. answer \in OnThread
      BY <1>1, <1>2 DEF OnThread
    <2> QED
      BY <2>1 DEF AnswerInv, AnswersAreApart
  <1>5. OnThread' = OnThread \ {answer}
    <2>1. \A u \in IoThreads : u # t /\ pc[u] = "write" => chMsg[u] # answer
      BY <1>1, <1>2 DEF AnswerInv, AnswersAreApart
    <2> QED
      BY <1>1, <1>2, <1>3, <2>1 DEF OnThread
  <1>6. /\ InSend' = InSend \cup {answer} /\ out' = out
        /\ \A b, c \in ToSet(sending') : content'[b] = content'[c] => b = c
    BY <1>2, <1>4, WriteFills DEF AnswerInv, AnswersAreApart
  <1>7. WithCard' = WithCard /\ OnStream' = OnStream /\ Begun' = Begun
    BY <1>2, <1>6 DEF WithCard, OnStream, Begun
  <1>8. \A a \in OnThread \cup WithCard \cup InSend \cup OnStream : Asked(a)'
    BY <1>2, AskedForGood DEF AnswerInv, AnswersAreApart
  <1>9. \A u, v \in IoThreads :
          pc'[u] = "write" /\ pc'[v] = "write" /\ chMsg'[u] = chMsg'[v] => u = v
    BY <1>3 DEF AnswerInv, AnswersAreApart
  <1>10. AnswersAreApart'
    BY <1>4, <1>5, <1>6, <1>7, <1>8, <1>9 DEF AnswerInv, AnswersAreApart
  <1> QED
    BY <1>6, <1>10 DEF AnswerInv, OutIsFrames, Answers

\* An answer goes from the voice card to a send.
LEMMA CardKeepsAnswers ==
  ASSUME TypeOK, BuffersAreApart, AnswerInv, NEW i, CardAnswers(i)
  PROVE  AnswerInv'
  <1>1. PICK answer : answer = <<"call", i>>
    OBVIOUS
  <1>2. /\ i \in calls /\ calls' = calls \ {i} /\ Write(answer)
        /\ UNCHANGED <<requests, pc, chMsg, dealt>>
    BY <1>1 DEF CardAnswers, threadVars
  <1>3. answer \in WithCard /\ WithCard' = WithCard \ {answer}
    <2>1. \A j, k : <<"call", j>> = <<"call", k>> => j = k
      OBVIOUS
    <2> QED
      BY <1>1, <1>2, <2>1 DEF WithCard
  <1>4. answer \notin InSend
    BY <1>3 DEF AnswerInv, AnswersAreApart
  <1>5. /\ InSend' = InSend \cup {answer} /\ out' = out
        /\ \A b, c \in ToSet(sending') : content'[b] = content'[c] => b = c
    BY <1>2, <1>4, WriteFills DEF AnswerInv, AnswersAreApart
  <1>6. OnThread' = OnThread /\ OnStream' = OnStream /\ Begun' = Begun
    BY <1>2, <1>5 DEF OnThread, OnStream, Begun
  <1>7. \A a \in OnThread \cup WithCard \cup InSend \cup OnStream : Asked(a)'
    BY <1>2, AskedForGood DEF AnswerInv, AnswersAreApart
  <1>8. AnswersAreApart'
    BY <1>2, <1>3, <1>4, <1>5, <1>6, <1>7 DEF AnswerInv, AnswersAreApart
  <1> QED
    BY <1>2, <1>5, <1>8 DEF AnswerInv, OutIsFrames, Answers

\* What is left of the sends when the oldest one is done.
LEMMA SendsLeft ==
  ASSUME BuffersAreApart, AnswerInv, sending # <<>>, sending' = Tail(sending), content' = content
  PROVE  /\ ToSet(sending') \subseteq ToSet(sending)
         /\ content[Head(sending)] \in InSend
         /\ InSend' = InSend \ {content[Head(sending)]}
  <1>1. Head(sending) \in ToSet(sending) /\ ToSet(sending') = ToSet(sending) \ {Head(sending)}
    BY TakeHead DEF BuffersAreApart
  <1>2. \A b \in ToSet(sending) : content[b] = content[Head(sending)] => b = Head(sending)
    BY <1>1 DEF AnswerInv, AnswersAreApart
  <1> QED
    BY <1>1, <1>2 DEF InSend

\* An answer goes from a send to the stream, whole or in part.
LEMMA TransmitKeepsAnswers ==
  ASSUME TypeOK, BuffersAreApart, AnswerInv, Transmit
  PROVE  AnswerInv'
  <1>0. PICK a : a = content[Head(sending)]
    OBVIOUS
  <1>1. PICK n \in 1 .. 2 : out' = out \o [j \in 1 .. n |-> <<a, j>>]
    BY <1>0 DEF Transmit, SendUnits, FrameLength
  <1>2. /\ sending # <<>> /\ sending' = Tail(sending)
        /\ UNCHANGED <<requests, pc, chMsg, calls, content, dealt>>
    BY DEF Transmit, threadVars
  <1>3. /\ ToSet(sending') \subseteq ToSet(sending) /\ a \in InSend /\ InSend' = InSend \ {a}
    BY <1>0, <1>2, SendsLeft
  <1>4. a \in Answers /\ a \notin OnStream /\ a \notin OnThread \cup WithCard
    BY <1>3 DEF AnswerInv, AnswersAreApart, Asked
  <1> DEFINE f == [j \in 1 .. n |-> <<a, j>>]
             m == Len(out)
  <1>5. /\ m \in Nat /\ DOMAIN out = 1 .. m
        /\ out' \in Seq(Answers \X (1 .. 2)) /\ DOMAIN out' = 1 .. m + n
        /\ \A k \in 1 .. m : out'[k] = out[k]
        /\ out'[m + 1] = <<a, 1>> /\ (n = 2 => out'[m + 2] = <<a, 2>>)
    <2>1. out \in Seq(Answers \X (1 .. 2)) /\ f \in Seq(Answers \X (1 .. 2)) /\ Len(f) = n
      <3>1. f \in [1 .. n -> Answers \X (1 .. 2)] /\ n \in Nat
        BY <1>4
      <3>2. f \in Seq(Answers \X (1 .. 2)) /\ Len(f) = n
        BY <3>1, SeqDef, LenProperties
      <3> QED
        BY <3>2 DEF AnswerInv, OutIsFrames, FrameLength
    <2>2. f[1] = <<a, 1>> /\ (n = 2 => f[2] = <<a, 2>>)
      OBVIOUS
    <2> HIDE DEF f
    <2>3. /\ out \o f \in Seq(Answers \X (1 .. 2)) /\ Len(out \o f) = Len(out) + n
          /\ \A k \in 1 .. Len(out) + n :
               (out \o f)[k] = IF k <= Len(out) THEN out[k] ELSE f[k - Len(out)]
      BY <2>1, ConcatProperties
    <2>4. Len(out) \in Nat /\ DOMAIN out = 1 .. Len(out)
      BY <2>1, LenProperties
    <2>5. out' = out \o f
      BY <1>1 DEF f
    <2>6. DOMAIN out' = 1 .. m + n
      BY <2>3, <2>5, LenProperties
    <2> QED
      BY <2>2, <2>3, <2>4, <2>5, <2>6
  <1> HIDE DEF f, m
  <1>6. Begun' = Begun \cup {m + 1} /\ m + 1 \notin Begun /\ Begun \subseteq 1 .. m
    <2>1. Begun \subseteq 1 .. m
      BY <1>5 DEF Begun
    <2>2. \A k \in 1 .. m : k \in Begun' <=> k \in Begun
      BY <1>5 DEF Begun
    <2>3. m + 1 \in Begun' /\ m + 2 \notin Begun'
      BY <1>5 DEF Begun
    <2>4. Begun' \subseteq 1 .. m + 2
      BY <1>5 DEF Begun
    <2>5. \A k \in 1 .. m + 2 : k \in 1 .. m \/ k = m + 1 \/ k = m + 2
      BY <1>5
    <2>6. m + 1 \notin 1 .. m
      BY <1>5
    <2>7. \A k : k \in Begun' <=> k \in Begun \/ k = m + 1
      BY <2>1, <2>2, <2>3, <2>4, <2>5
    <2> QED
      BY <2>1, <2>6, <2>7
  <1>7. OnStream' = OnStream \cup {a}
    <2>1. \A k \in Begun : out'[k][1] = out[k][1]
      BY <1>5, <1>6
    <2>2. out'[m + 1][1] = a
      BY <1>5
    <2> QED
      BY <1>6, <2>1, <2>2 DEF OnStream
  <1>8. \A k, l \in Begun' : out'[k][1] = out'[l][1] => k = l
    <2>1. \A k \in Begun : out'[k][1] = out[k][1] /\ out[k][1] \in OnStream
      BY <1>5, <1>6 DEF OnStream
    <2>2. \A k \in Begun : out'[k][1] # out'[m + 1][1]
      BY <1>4, <1>5, <2>1
    <2>3. \A k, l \in Begun : out[k][1] = out[l][1] => k = l
      BY DEF AnswerInv, AnswersAreApart
    <2> QED
      BY <1>6, <2>1, <2>2, <2>3
  <1>9. OnThread' = OnThread /\ WithCard' = WithCard
    BY <1>2 DEF OnThread, WithCard
  <1>10. \A x \in OnThread \cup WithCard \cup InSend \cup OnStream : Asked(x)'
    BY <1>2, AskedForGood DEF AnswerInv, AnswersAreApart
  <1>11. AnswersAreApart'
    BY <1>2, <1>3, <1>4, <1>7, <1>8, <1>9, <1>10 DEF AnswerInv, AnswersAreApart
  <1>12. \A k \in DOMAIN out' :
           out'[k][2] # 1 => k > 1 /\ out'[k - 1] = <<out'[k][1], out'[k][2] - 1>>
    <2> TAKE k \in DOMAIN out'
    <2> HAVE out'[k][2] # 1
    <2>1. CASE k \in 1 .. m
      <3>1. out[k][2] # 1 /\ k > 1 /\ out[k - 1] = <<out[k][1], out[k][2] - 1>>
        BY <1>5, <2>1 DEF AnswerInv, OutIsFrames
      <3>2. k - 1 \in 1 .. m
        BY <1>5, <2>1, <3>1
      <3> QED
        BY <1>5, <2>1, <3>1, <3>2
    <2>2. CASE k \notin 1 .. m
      <3>1. k = m + 2 /\ n = 2
        BY <1>5, <2>2
      <3> QED
        BY <1>5, <3>1
    <2> QED
      BY <2>1, <2>2
  <1>13. OutIsFrames'
    BY <1>5, <1>12 DEF OutIsFrames, FrameLength, Answers
  <1> QED
    BY <1>11, <1>13 DEF AnswerInv

\* A send that fails takes its answer away.
LEMMA TransmitFailsKeepsAnswers ==
  ASSUME TypeOK, BuffersAreApart, AnswerInv, TransmitFails
  PROVE  AnswerInv'
  <1>1. /\ sending # <<>> /\ sending' = Tail(sending)
        /\ UNCHANGED <<requests, pc, chMsg, calls, content, out, dealt>>
    BY DEF TransmitFails, threadVars
  <1>2. ToSet(sending') \subseteq ToSet(sending) /\ InSend' \subseteq InSend
    BY <1>1, SendsLeft
  <1>3. OnThread' = OnThread /\ WithCard' = WithCard /\ OnStream' = OnStream /\ Begun' = Begun
    BY <1>1 DEF OnThread, WithCard, OnStream, Begun
  <1>4. \A a \in OnThread \cup WithCard \cup InSend \cup OnStream : Asked(a)'
    BY <1>1, AskedForGood DEF AnswerInv, AnswersAreApart
  <1>5. AnswersAreApart'
    BY <1>1, <1>2, <1>3, <1>4 DEF AnswerInv, AnswersAreApart
  <1> QED
    BY <1>1, <1>5 DEF AnswerInv, OutIsFrames, Answers

LEMMA AnswerStep ==
  ASSUME TypeOK, ReadInv, BuffersAreApart, AnswerInv, [Next]_vars
  PROVE  AnswerInv'
  <1>1. ASSUME UNCHANGED <<requests, pc, chMsg, calls, content, sending, out, dealt>>
        PROVE  AnswerInv'
    BY <1>1, AnswersFrame
  <1>2. ASSUME NEW t \in IoThreads, Handler(t) \/ Thread(t) PROVE AnswerInv'
    <2>1. CASE HeaderDone(t) \/ ReadFails(t) \/ SendDone(t)
      BY <1>1, <2>1 DEF HeaderDone, ReadFails, SendDone, threadVars, writeVars
    <2>2. CASE BodyDone(t) \/ ReadNext(t)
      <3>1. /\ UNCHANGED <<requests, calls, content, sending, out, dealt>>
            /\ pc[t] # "write" /\ \E v \in {"next", "deal"} : pc' = [pc EXCEPT ![t] = v]
            /\ chMsg' = chMsg \/ \E v : chMsg' = [chMsg EXCEPT ![t] = v]
        BY <2>2 DEF BodyDone, ReadNext, writeVars
      <3>2. \A u \in IoThreads : pc'[u] = "write" <=> pc[u] = "write"
        BY <3>1 DEF TypeOK
      <3>3. \A u \in IoThreads : pc[u] = "write" => chMsg'[u] = chMsg[u]
        BY <3>1 DEF ReadInv, CopiesAreRequests
      <3> QED
        BY <3>1, <3>2, <3>3, AnswersFrame
    <2>3. CASE Deal(t)
      BY <2>3, DealKeepsAnswers
    <2>4. CASE IoWrite(t)
      BY <2>4, IoWriteKeepsAnswers
    <2> QED
      BY <1>2, <2>1, <2>2, <2>3, <2>4 DEF Handler, Thread
  <1>3. ASSUME Network PROVE AnswerInv'
    <2>1. CASE Receive
      BY <1>1, <2>1 DEF Receive, threadVars, writeVars
    <2> QED
      BY <1>3, <2>1, TransmitKeepsAnswers, TransmitFailsKeepsAnswers DEF Network
  <1>4. ASSUME PeerCloses \/ UNCHANGED vars PROVE AnswerInv'
    BY <1>1, <1>4 DEF PeerCloses, vars, threadVars, writeVars
  <1> QED
    BY <1>2, <1>3, <1>4, CardKeepsAnswers DEF Next, Card

------------------------------------------------------------------------------
(* Types, and the whole                                                     *)

LEMMA InitTypes == Init => TypeOK
  BY StreamAssumption DEF Init, TypeOK, Reads, UnitSet, BufferLength, HeaderLength, MaxBodyLength

\* A write whose answer was asked for keeps the contents typed.
LEMMA WriteTypes ==
  ASSUME TypeOK, NEW answer, Asked(answer), Write(answer)
  PROVE  content' \in [Buffers -> {NoBuffer} \cup Answers] /\ sent' = sent
  BY DEF Write, Asked, TypeOK

LEMMA ReceiveTypes ==
  ASSUME TypeOK, ReadInv, Receive
  PROVE  TypeOK'
  <1>1. next[1] \in 1 .. MaxRequests /\ next = <<next[1], next[2]>> /\ next[2] \in 1 .. 4
    BY Numbers DEF Receive, TypeOK, BufferLength, HeaderLength, MaxBodyLength
  <1>2. Length(next[1]) \in 2 .. 4
    BY <1>1, Lengths DEF BufferLength, HeaderLength, MaxBodyLength
  <1>3. next' \in (1 .. MaxRequests + 1) \X (1 .. 4)
    <2>1. next' = IF next[2] < Length(next[1]) THEN <<next[1], next[2] + 1>> ELSE <<next[1] + 1, 1>>
      BY DEF Receive, After
    <2> QED
      BY <1>1, <1>2, <2>1, Numbers
  <1>4. filled \in 0 .. 3
    <2>1. CASE reading = "header"
      BY <2>1 DEF ReadInv, ReadIsAligned, TypeOK, HeaderLength, BufferLength, MaxBodyLength
    <2>2. CASE reading = "body"
      BY <2>2, CurrentIsRead DEF ReadInv, ReadIsAligned
    <2> QED
      BY <2>1, <2>2 DEF Receive
  <1>5. readMsg' \in [1 .. 4 -> UnitSet]
    <2>1. next \in UnitSet
      BY <1>1, Numbers DEF UnitSet, BufferLength, HeaderLength, MaxBodyLength
    <2>2. readMsg \in [1 .. 4 -> UnitSet]
      BY DEF TypeOK, BufferLength, HeaderLength, MaxBodyLength
    <2> QED
      BY <2>1, <2>2 DEF Receive
  <1>6. filled' \in 0 .. 4 /\ reading' \in Reads
    BY <1>4 DEF Receive, Reads
  <1>7. UNCHANGED <<requests, length, pc, calls, content, sent, open, peerOpen>>
    BY DEF Receive, threadVars, writeVars
  <1>8. UnitSet' = UnitSet
    BY DEF UnitSet
  <1> QED
    BY <1>3, <1>5, <1>6, <1>7, <1>8
    DEF TypeOK, BufferLength, HeaderLength, MaxBodyLength, Answers

LEMMA ReadTypes ==
  ASSUME TypeOK, ReadInv, NEW t \in IoThreads,
         HeaderDone(t) \/ BodyDone(t) \/ ReadNext(t) \/ ReadFails(t)
  PROVE  TypeOK'
  <1>1. CASE HeaderDone(t)
    <2>1. readMsg[1][1] \in 1 .. MaxRequests
      BY <1>1, CurrentIsRead DEF HeaderDone
    <2>2. DecodeHeader(requests[readMsg[1][1]]) \in {-1} \cup (0 .. MaxBodyLength)
      BY <2>1, Lengths
    <2>3. length' \in 0 .. MaxBodyLength /\ reading' \in Reads /\ open' \in BOOLEAN
      <3>1. PICK n \in {-1} \cup (0 .. MaxBodyLength) :
              \/ n >= 0 /\ length' = n /\ reading' \in {"gotBody", "body"} /\ open' = open
              \/ length' = 0 /\ reading' = "none" /\ open' = FALSE
        BY <1>1, <2>2 DEF HeaderDone
      <3>2. length' \in 0 .. MaxBodyLength
        BY <3>1 DEF MaxBodyLength
      <3>3. open' \in BOOLEAN
        BY <3>1 DEF TypeOK
      <3> QED
        BY <3>1, <3>2, <3>3 DEF Reads
    <2>4. UNCHANGED <<requests, next, readMsg, filled, pc, calls, content, sent, peerOpen>>
      BY <1>1 DEF HeaderDone, threadVars, writeVars
    <2> QED
      BY <2>3, <2>4 DEF TypeOK, UnitSet, Answers
  <1>2. CASE BodyDone(t) \/ ReadNext(t) \/ ReadFails(t)
    <2>1. /\ reading' \in Reads /\ filled' \in {0, filled} /\ open' \in {FALSE, open}
          /\ pc' = pc \/ \E v \in {"next", "deal"} : pc' = [pc EXCEPT ![t] = v]
          /\ UNCHANGED <<requests, next, readMsg, length, calls, content, sent, peerOpen>>
      BY <1>2 DEF BodyDone, ReadNext, ReadFails, Reads, threadVars, writeVars
    <2>2. pc' \in [IoThreads -> {"idle", "next", "deal", "write"}]
      BY <2>1 DEF TypeOK
    <2>3. filled' \in 0 .. BufferLength
      BY <2>1 DEF TypeOK, BufferLength, HeaderLength, MaxBodyLength
    <2> QED
      BY <2>1, <2>2, <2>3 DEF TypeOK, UnitSet, Answers
  <1> QED
    BY <1>1, <1>2

LEMMA AnswerTypes ==
  ASSUME TypeOK, BuffersAreApart, AnswerInv, NEW t \in IoThreads,
         Deal(t) \/ IoWrite(t) \/ SendDone(t)
  PROVE  TypeOK'
  <1>1. CASE Deal(t)
    <2>1. /\ \E v \in {"write", "idle"} : pc' = [pc EXCEPT ![t] = v]
          /\ UNCHANGED <<requests, next, readMsg, filled, length, reading, content, sent, open, peerOpen>>
      BY <1>1 DEF Deal, Answer, Nothing, readVars, writeVars
    <2>2. calls' \subseteq DOMAIN requests
      <3>1. NumberOf(MessageOf(t)) \in DOMAIN requests \/ NumberOf(MessageOf(t)) = 0
        BY DEF NumberOf
      <3>2. \/ calls' = calls
            \/ NumberOf(MessageOf(t)) # 0 /\ calls' = calls \cup {NumberOf(MessageOf(t))}
        BY <1>1 DEF Deal
      <3> QED
        BY <3>1, <3>2 DEF TypeOK
    <2>3. pc' \in [IoThreads -> {"idle", "next", "deal", "write"}]
      BY <2>1 DEF TypeOK
    <2> QED
      BY <2>1, <2>2, <2>3 DEF TypeOK, UnitSet, Answers
  <1>2. CASE IoWrite(t)
    <2>1. Asked(chMsg[t]) /\ Write(chMsg[t])
      BY <1>2 DEF IoWrite, AnswerInv, AnswersAreApart, OnThread
    <2>2. content' \in [Buffers -> {NoBuffer} \cup Answers] /\ sent' = sent
      BY <2>1, WriteTypes
    <2>3. /\ pc' = [pc EXCEPT ![t] = "idle"]
          /\ UNCHANGED <<requests, next, readMsg, filled, length, reading, calls, open, peerOpen>>
      BY <1>2 DEF IoWrite, Nothing, readVars
    <2>4. pc' \in [IoThreads -> {"idle", "next", "deal", "write"}]
      BY <2>3 DEF TypeOK
    <2> QED
      BY <2>2, <2>3, <2>4 DEF TypeOK, UnitSet, Answers
  <1>3. CASE SendDone(t)
    <2>1. PICK d \in sent :
            /\ sent' = sent \ {d} /\ open' = (open /\ d[2])
            /\ UNCHANGED <<requests, readVars, pc, calls, content, peerOpen>>
      BY <1>3 DEF SendDone, threadVars
    <2>2. d[2] \in BOOLEAN
      BY DEF TypeOK
    <2>3. open' \in BOOLEAN
      BY <2>1, <2>2 DEF TypeOK
    <2> QED
      BY <2>1, <2>3 DEF TypeOK, UnitSet, Answers, readVars
  <1> QED
    BY <1>1, <1>2, <1>3

LEMMA OutsideTypes ==
  ASSUME TypeOK, BuffersAreApart, AnswerInv,
         Transmit \/ TransmitFails \/ Card \/ PeerCloses \/ UNCHANGED vars
  PROVE  TypeOK'
  <1>1. CASE Transmit \/ TransmitFails
    <2>1. /\ \E ok \in BOOLEAN : sent' = sent \cup {<<Head(sending), ok>>}
          /\ sending # <<>>
          /\ UNCHANGED <<requests, readVars, pc, calls, content, open, peerOpen>>
      BY <1>1 DEF Transmit, TransmitFails, threadVars
    <2>2. Head(sending) \in Buffers
      BY <2>1, HeadTailProperties DEF BuffersAreApart
    <2>3. \A d \in sent' : d \in Buffers \X BOOLEAN
      BY <2>1, <2>2 DEF TypeOK
    <2> QED
      BY <2>1, <2>3 DEF TypeOK, UnitSet, Answers, readVars
  <1>2. CASE Card
    <2>1. PICK i \in calls : calls' = calls \ {i} /\ Write(<<"call", i>>)
      BY <1>2 DEF Card, CardAnswers
    <2>2. Asked(<<"call", i>>)
      BY DEF AnswerInv, AnswersAreApart, WithCard
    <2>3. content' \in [Buffers -> {NoBuffer} \cup Answers] /\ sent' = sent
      BY <2>1, <2>2, WriteTypes
    <2>4. UNCHANGED <<requests, readVars, pc, open, peerOpen>>
      BY <1>2 DEF Card, CardAnswers, threadVars
    <2> QED
      BY <2>1, <2>3, <2>4 DEF TypeOK, UnitSet, Answers, readVars
  <1>3. CASE PeerCloses \/ UNCHANGED vars
    <2>1. /\ UNCHANGED <<requests, readVars, pc, calls, content, sent, open>>
          /\ peerOpen' \in BOOLEAN
      BY <1>3 DEF PeerCloses, vars, threadVars, writeVars, TypeOK
    <2> QED
      BY <2>1 DEF TypeOK, UnitSet, Answers, readVars
  <1> QED
    BY <1>1, <1>2, <1>3

LEMMA TypeStep ==
  ASSUME TypeOK, ReadInv, BuffersAreApart, AnswerInv, [Next]_vars
  PROVE  TypeOK'
  <1>1. ASSUME NEW t \in IoThreads, Handler(t) \/ Thread(t) PROVE TypeOK'
    BY <1>1, ReadTypes, AnswerTypes DEF Handler, Thread
  <1>2. ASSUME Receive PROVE TypeOK'
    BY <1>2, ReceiveTypes
  <1>3. ASSUME Transmit \/ TransmitFails \/ Card \/ PeerCloses \/ UNCHANGED vars PROVE TypeOK'
    BY <1>3, OutsideTypes
  <1> QED
    BY <1>1, <1>2, <1>3 DEF Next, Network

LEMMA StreamInvariant == Spec => []StreamInv
  <1>1. Init => StreamInv
    <2>1. Init => NoRequestIsLost
      BY DEF Init, NoRequestIsLost, Current
    <2> QED
      BY <2>1, InitTypes, InitRead, InitBuffers, InitAnswers DEF StreamInv
  <1>2. StreamInv /\ [Next]_vars => StreamInv'
    BY TypeStep, ReadStep, NothingIsLost, BuffersStep, AnswerStep DEF StreamInv
  <1> QED
    BY <1>1, <1>2, PTL DEF Spec

(***************************************************************************)
(* Type correctness, for any number of requests, io threads and buffers.   *)
(***************************************************************************)
THEOREM StreamTypes == Spec => []TypeOK
  <1>1. StreamInv => TypeOK
    BY DEF StreamInv
  <1> QED
    BY <1>1, StreamInvariant, PTL

(***************************************************************************)
(* Every request that is dealt with is one that was sent, whole, and is    *)
(* dealt with once, although m_read_msg_ is shared by all io threads: the  *)
(* copy do_read_body makes before do_read_header is enough.                *)
(***************************************************************************)
THEOREM RequestsAreWhole == Spec => []RequestsStayWhole
  <1>1. StreamInv => RequestsStayWhole
    <2> SUFFICES ASSUME StreamInv PROVE RequestsStayWhole
      OBVIOUS
    <2>1. \A k \in DOMAIN dealt : dealt[k] \in DOMAIN requests /\ dealt[k] \in ToSet(dealt)
      BY ElementOfSeq, LenProperties DEF StreamInv, ReadInv, CopiesAreRequests, ToSet
    <2> QED
      BY <2>1 DEF RequestsStayWhole, StreamInv, ReadInv, CopiesAreRequests, NoLong
  <1> QED
    BY <1>1, StreamInvariant, PTL

(***************************************************************************)
(* Every answer that do_write sends belongs to one request that asks for   *)
(* it, and no request is answered twice.                                   *)
(***************************************************************************)
THEOREM AnswersFollowRequests == Spec => []AnswersMatchRequests
  <1>1. StreamInv => AnswersMatchRequests
    <2> SUFFICES ASSUME StreamInv PROVE AnswersMatchRequests
      OBVIOUS
    <2>1. AnswersAreApart /\ IsInjective(sending)
      BY DEF StreamInv, AnswerInv, BuffersAreApart
    <2>2. Written = InSend \cup OnStream
      BY DEF Written, InSend, OnStream
    <2>3. \A a \in Written : a[2] \in ToSet(dealt) /\ requests[a[2]] = a[1]
      BY <2>1, <2>2 DEF AnswersAreApart, Asked
    <2>4. \A k, l \in DOMAIN sending : content[sending[k]] = content[sending[l]] => k = l
      <3>1. \A k \in DOMAIN sending : sending[k] \in ToSet(sending)
        BY DEF ToSet
      <3>2. \A k, l \in DOMAIN sending :
              content[sending[k]] = content[sending[l]] => sending[k] = sending[l]
        BY <2>1, <3>1 DEF AnswersAreApart
      <3> QED
        BY <2>1, <3>2 DEF IsInjective
    <2>5. \A k \in Begun, b \in ToSet(sending) : out[k][1] # content[b]
      BY <2>1 DEF AnswersAreApart, InSend, OnStream
    <2> QED
      BY <2>1, <2>3, <2>4, <2>5 DEF AnswersMatchRequests, AnswersAreApart
  <1> QED
    BY <1>1, StreamInvariant, PTL

(***************************************************************************)
(* The answers on the stream do not mix, even when async_send sends a part *)
(* of one only: no unit is out of place, and none is there twice.          *)
(***************************************************************************)
THEOREM AnswersStayTogether == Spec => []MessagesDoNotMix
  <1>1. StreamInv => MessagesDoNotMix
    <2> SUFFICES ASSUME StreamInv PROVE MessagesDoNotMix
      OBVIOUS
    <2>1. /\ DOMAIN out = 1 .. Len(out) /\ Len(out) \in Nat
          /\ \A k \in DOMAIN out : out[k] \in Answers \X (1 .. 2)
      BY ElementOfSeq, LenProperties DEF StreamInv, AnswerInv, OutIsFrames, FrameLength
    <2>2. \A k \in DOMAIN out :
            out[k][2] # 1 => k > 1 /\ out[k - 1] = <<out[k][1], out[k][2] - 1>>
      BY DEF StreamInv, AnswerInv, OutIsFrames
    <2>3. \A k, l \in Begun : out[k][1] = out[l][1] => k = l
      BY DEF StreamInv, AnswerInv, AnswersAreApart
    <2>4. \A k, l \in DOMAIN out : out[k] = out[l] => k = l
      <3> SUFFICES ASSUME NEW k \in DOMAIN out, NEW l \in DOMAIN out, out[k] = out[l] PROVE k = l
        OBVIOUS
      <3>1. CASE out[k][2] = 1
        BY <2>3, <3>1 DEF Begun
      <3>2. CASE out[k][2] # 1
        <4>1. out[k][2] = 2 /\ out[l][2] = 2
          BY <2>1, <3>2
        <4>2. /\ k > 1 /\ out[k - 1] = <<out[k][1], 1>>
              /\ l > 1 /\ out[l - 1] = <<out[k][1], 1>>
          BY <2>2, <4>1
        <4>3. k - 1 \in Begun /\ l - 1 \in Begun
          BY <2>1, <4>2 DEF Begun
        <4>4. k - 1 = l - 1
          BY <2>3, <4>2, <4>3
        <4> QED
          BY <2>1, <4>4
      <3> QED
        BY <3>1, <3>2
    <2> QED
      BY <2>2, <2>4 DEF MessagesDoNotMix, IsInjective
  <1> QED
    BY <1>1, StreamInvariant, PTL

(***************************************************************************)
(* A chat_message that async_send refers to is not filled again before the *)
(* handler has put it back, for any number of writers.                     *)
(***************************************************************************)
THEOREM SendsKeepTheirBuffers == Spec => SendKeepsItsBuffer
  <1>1. StreamInv /\ [Next]_vars =>
          [\A b \in ToSet(sending) \cup {d[1] : d \in sent} : content'[b] = content[b]]_vars
    <2> SUFFICES ASSUME StreamInv, Next
                 PROVE  \A b \in ToSet(sending) \cup Handed : content'[b] = content[b]
      BY DEF Handed
    <2>1. ASSUME NEW answer, Write(answer)
          PROVE  \A b \in ToSet(sending) \cup Handed : content'[b] = content[b]
      BY <2>1, WriteFills DEF StreamInv
    <2>2. ASSUME UNCHANGED content
          PROVE  \A b \in ToSet(sending) \cup Handed : content'[b] = content[b]
      BY <2>2
    <2>3. \/ UNCHANGED content
          \/ \E answer : Write(answer)
      <3>1. ASSUME NEW t \in IoThreads, Handler(t) \/ Thread(t)
            PROVE  UNCHANGED content \/ \E answer : Write(answer)
        BY <3>1 DEF Handler, Thread, HeaderDone, BodyDone, ReadFails, SendDone, ReadNext, Deal,
           IoWrite, writeVars
      <3>2. ASSUME Network \/ Card \/ PeerCloses
            PROVE  UNCHANGED content \/ \E answer : Write(answer)
        BY <3>2 DEF Network, Receive, Transmit, TransmitFails, Card, CardAnswers, PeerCloses,
           writeVars
      <3> QED
        BY <3>1, <3>2 DEF Next
    <2> QED
      BY <2>1, <2>2, <2>3
  <1>2. Spec => [][Next]_vars
    BY DEF Spec
  <1> QED
    BY <1>1, <1>2, StreamInvariant, PTL DEF SendKeepsItsBuffer

(***************************************************************************)
(* No request that was read is lost on the way to do_deal_request, however *)
(* many io threads have copies at the same time.                           *)
(***************************************************************************)
THEOREM RequestsAreKept == Spec => []NoRequestIsLost
  <1>1. StreamInv => NoRequestIsLost
    BY DEF StreamInv
  <1> QED
    BY <1>1, StreamInvariant, PTL

------------------------------------------------------------------------------
(* The session is a Dialogue                                                *)

\* The instance has its own copies of the library's operators.
LEMMA PeerLibrary ==
  /\ \A s : Peer!ToSet(s) = ToSet(s)
  /\ \A S : Peer!Cardinality(S) = Cardinality(S)
  <1>1. \A s : Peer!ToSet(s) = ToSet(s)
    BY DEF Peer!ToSet, ToSet
  <1>2. \A S : Peer!Cardinality(S) = Cardinality(S)
    BY DEF Peer!Cardinality, Cardinality
  <1> QED
    BY <1>1, <1>2

(***************************************************************************)
(* Requests that are overtaken are with other threads, each with one of    *)
(* its own: they are fewer than the threads.                               *)
(***************************************************************************)
LEMMA OvertakenAreWithThreads ==
  ASSUME StreamInv, NEW t \in IoThreads, NEW i \in 1 .. MaxRequests, HasCopy(t, i), i < Current
  PROVE  Cardinality(Peer!Overtaken(i)) < Cardinality(IoThreads)
  <1> DEFINE S == Peer!Overtaken(i)
             T == IoThreads \ {t}
             f == [j \in S |-> CHOOSE u \in IoThreads : HasCopy(u, j)]
  <1>1. Current \in Int /\ MaxRequests \in Nat
    BY Numbers DEF StreamInv
  <1>2. ASSUME NEW j \in S
        PROVE  /\ j \in 1 .. MaxRequests /\ j # i
               /\ f[j] \in IoThreads /\ HasCopy(f[j], j)
    <2>1. j \in 1 .. i - 1 /\ j \notin ToSet(dealt)
      BY PeerLibrary DEF Peer!Overtaken
    <2>2. j \in 1 .. Current - 1 /\ j \in 1 .. MaxRequests /\ j # i
      BY <1>1, <2>1
    <2>3. \E u \in IoThreads : HasCopy(u, j)
      BY <2>1, <2>2 DEF StreamInv, NoRequestIsLost, Held
    <2> QED
      BY <2>2, <2>3
  <1>3. \A j, k \in 1 .. MaxRequests : \A u \in IoThreads : HasCopy(u, j) /\ HasCopy(u, k) => j = k
    BY UnitsDiffer DEF StreamInv, HasCopy
  <1>4. f \in [S -> T]
    BY <1>2, <1>3
  <1>5. \A j, k \in S : f[j] = f[k] => j = k
    BY <1>2, <1>3
  <1>6. f \in Injection(S, T)
    BY <1>4, <1>5 DEF Injection, IsInjective
  <1>7. IsFiniteSet(T) /\ Cardinality(T) = Cardinality(IoThreads) - 1
    BY FS_RemoveElement, StreamAssumption
  <1> HIDE DEF S, T, f
  <1>8. IsFiniteSet(S) /\ Cardinality(S) <= Cardinality(T)
    BY <1>6, <1>7, FS_Injection
  <1>9. Cardinality(S) \in Nat /\ Cardinality(IoThreads) \in Nat
    BY <1>8, FS_CardinalityType, StreamAssumption
  <1> QED
    BY <1>7, <1>8, <1>9 DEF S

\* What the peer sees.
seen == <<requests, dealt, out>>

LEMMA DealIsSeen ==
  ASSUME StreamInv, NEW t \in IoThreads, Deal(t)
  PROVE  \E i \in 1 .. MaxRequests : Peer!Deal(i)
  <1>1. PICK i \in 1 .. MaxRequests :
           /\ i = NumberOf(MessageOf(t))
           /\ HasCopy(t, i) /\ i < Current /\ NoLong(i) /\ i \notin ToSet(dealt)
    BY DealsWithRequest DEF StreamInv
  <1>2. dealt' = Append(dealt, i) /\ UNCHANGED <<requests, out>>
    BY <1>1 DEF Deal, writeVars
  <1>3. Cardinality(Peer!Overtaken(i)) < Cardinality(IoThreads)
    BY <1>1, OvertakenAreWithThreads
  <1>4. Peer!Deal(i)
    BY <1>1, <1>2, <1>3, PeerLibrary DEF Peer!Deal, NoLong
  <1> QED
    BY <1>4

LEMMA TransmitIsSeen ==
  ASSUME StreamInv, Transmit
  PROVE  \E i \in 1 .. MaxRequests, n \in 1 .. FrameLength : Peer!Reply(i, n)
  <1>1. PICK n \in 1 .. FrameLength : out' = out \o SendUnits(Head(sending), n)
    BY DEF Transmit
  <1>2. UNCHANGED <<requests, dealt>>
    BY DEF Transmit
  <1>3. PICK a : a = content[Head(sending)]
    OBVIOUS
  <1>4. a \in InSend
    BY <1>3, SendsLeft DEF Transmit, StreamInv
  <1>5. Asked(a) /\ a \notin OnStream
    BY <1>4 DEF StreamInv, AnswerInv, AnswersAreApart
  <1>6. PICK i \in 1 .. MaxRequests :
           /\ a = <<requests[i], i>> /\ i \in ToSet(dealt) /\ requests[i] \in {"login", "call"}
    BY <1>5 DEF Asked, Answers
  <1>7. \A k \in DOMAIN out : out[k] # <<a, 1>>
    BY <1>5 DEF OnStream, Begun
  <1>8. out' = out \o [j \in 1 .. n |-> <<a, j>>]
    BY <1>1, <1>3 DEF SendUnits
  <1>9. Peer!Reply(i, n)
    BY <1>2, <1>6, <1>7, <1>8, PeerLibrary DEF Peer!Reply
  <1> QED
    BY <1>9

\* Each step is one of the dialogue, or is not seen.
LEMMA StepIsSeen ==
  ASSUME StreamInv, [Next]_vars
  PROVE  [Peer!Next]_seen
  <1>1. ASSUME NEW t \in IoThreads, Handler(t) \/ ReadNext(t) \/ IoWrite(t) PROVE UNCHANGED seen
    BY <1>1 DEF Handler, HeaderDone, BodyDone, ReadFails, SendDone, ReadNext, IoWrite, Write,
       writeVars, seen
  <1>2. ASSUME NEW t \in IoThreads, Deal(t) PROVE Peer!Next
    BY <1>2, DealIsSeen DEF Peer!Next
  <1>3. ASSUME Transmit PROVE Peer!Next
    BY <1>3, TransmitIsSeen DEF Peer!Next
  <1>4. ASSUME Receive \/ TransmitFails \/ Card \/ PeerCloses \/ UNCHANGED vars
        PROVE  UNCHANGED seen
    BY <1>4 DEF Receive, TransmitFails, Card, CardAnswers, Write, PeerCloses, vars, writeVars, seen
  <1> QED
    BY <1>1, <1>2, <1>3, <1>4 DEF Next, Thread, Network

(***************************************************************************)
(* The session implements the dialogue: whatever io threads, buffers and   *)
(* the voice card do, the peer sees its requests dealt with once each, out *)
(* of order by no more than there are threads, and its answers whole or    *)
(* cut off, one after the other.                                           *)
(***************************************************************************)
THEOREM SessionImplementsDialogue == Spec => ImplementsDialogue
  <1>1. Init => Peer!Init
    BY DEF Init, Peer!Init
  <1>2. StreamInv /\ [Next]_vars => [Peer!Next]_seen
    BY StepIsSeen
  <1>3. [Peer!Next]_seen => [Peer!Next]_(Peer!dialogueVars)
    BY DEF seen, Peer!dialogueVars
  <1> QED
    BY <1>1, <1>2, <1>3, StreamInvariant, PTL DEF Spec, ImplementsDialogue, Peer!Spec

\* A request that is dealt with next comes at most as many places early as
\* there are other threads.
LEMMA DealKeepsPlaces ==
  ASSUME dealt \in Seq(1 .. MaxRequests), NEW i \in 1 .. MaxRequests, Peer!Deal(i),
         RequestsKeepTheirPlace
  PROVE  RequestsKeepTheirPlace'
  <1> DEFINE S == Peer!Overtaken(i)
             D == ToSet(dealt)
             n == Len(dealt)
             c == Cardinality(IoThreads)
  <1>1. /\ n \in Nat /\ DOMAIN dealt = 1 .. n /\ \A k \in 1 .. n : dealt[k] \in 1 .. MaxRequests
        /\ dealt' = Append(dealt, i) /\ DOMAIN dealt' = 1 .. n + 1
        /\ dealt'[n + 1] = i /\ \A k \in 1 .. n : dealt'[k] = dealt[k]
    <2>1. dealt' = Append(dealt, i)
      BY DEF Peer!Deal
    <2>2. /\ n \in Nat /\ DOMAIN dealt = 1 .. n /\ \A k \in 1 .. n : dealt[k] \in 1 .. MaxRequests
      BY LenProperties, ElementOfSeq
    <2> QED
      BY <2>1, <2>2, AppendProperties
  <1>2. IsFiniteSet(D) /\ Cardinality(D) <= n
    <2>1. dealt \in Surjection(1 .. n, D)
      BY <1>1, Z3 DEF Surjection, ToSet
    <2>2. ExistsSurjection(1 .. n, D)
      BY <2>1 DEF ExistsSurjection
    <2>3. Cardinality(D) <= n
      BY <1>1, <2>2, FS_SurjCardinalityBound
    <2>4. IsFiniteSet(1 .. n)
      BY <1>1, FS_Interval
    <2> QED
      BY <2>1, <2>3, <2>4, FS_Surjection
  <1>3. IsFiniteSet(S) /\ Cardinality(S) < c /\ c \in Nat
    <2>1. IsFiniteSet(1 .. i - 1) /\ S \in SUBSET (1 .. i - 1)
      BY FS_Interval DEF Peer!Overtaken
    <2>2. IsFiniteSet(S)
      BY <2>1, FS_Subset
    <2>3. c \in Nat
      BY FS_CardinalityType, StreamAssumption
    <2> QED
      BY <2>2, <2>3, PeerLibrary DEF Peer!Deal
  <1>4. 1 .. i - 1 \in SUBSET (D \cup S) /\ Cardinality(1 .. i - 1) = i - 1
    <2>1. Cardinality(1 .. i - 1) = i - 1
      BY FS_Interval
    <2> QED
      BY <2>1, PeerLibrary DEF Peer!Overtaken
  <1> HIDE DEF S, D, n, c
  <1>5. IsFiniteSet(D \cup S) /\ Cardinality(D \cup S) <= Cardinality(D) + Cardinality(S)
    <2>1. IsFiniteSet(D \cap S)
      BY <1>2, FS_Intersection
    <2>2. Cardinality(D \cap S) \in Nat /\ Cardinality(D) \in Nat /\ Cardinality(S) \in Nat
      BY <1>2, <1>3, <2>1, FS_CardinalityType
    <2>3. /\ IsFiniteSet(D \cup S)
          /\ Cardinality(D \cup S) = Cardinality(D) + Cardinality(S) - Cardinality(D \cap S)
      BY <1>2, <1>3, FS_Union
    <2> QED
      BY <2>2, <2>3
  <1>6. i - 1 <= Cardinality(D \cup S)
    BY <1>4, <1>5, FS_Subset
  <1>7. /\ Cardinality(D) \in Nat /\ Cardinality(S) \in Nat /\ Cardinality(D \cup S) \in Nat
    BY <1>2, <1>3, <1>5, FS_CardinalityType
  <1>8. i < n + 1 + c
    BY <1>1, <1>2, <1>3, <1>5, <1>6, <1>7
  <1>9. \A k \in 1 .. n : dealt[k] < k + c
    BY <1>1 DEF RequestsKeepTheirPlace, Peer!OvertakesFew, c
  <1>10. \A k \in 1 .. n + 1 : dealt'[k] < k + c
    BY <1>1, <1>8, <1>9
  <1> QED
    BY <1>1, <1>10 DEF RequestsKeepTheirPlace, Peer!OvertakesFew, c

(***************************************************************************)
(* A request is dealt with at most as many places early as there are other *)
(* io threads. With one io thread requests are dealt with in their order.  *)
(***************************************************************************)
THEOREM RequestsStayInPlace == Spec => []RequestsKeepTheirPlace
  <1>1. Init => RequestsKeepTheirPlace
    BY DEF Init, RequestsKeepTheirPlace, Peer!OvertakesFew
  <1>2. StreamInv /\ RequestsKeepTheirPlace /\ [Next]_vars => RequestsKeepTheirPlace'
    <2> SUFFICES ASSUME StreamInv, RequestsKeepTheirPlace, [Next]_vars
                 PROVE  RequestsKeepTheirPlace'
      OBVIOUS
    <2>1. dealt \in Seq(1 .. MaxRequests)
      BY Numbers DEF StreamInv, ReadInv, CopiesAreRequests
    <2>2. ASSUME dealt' = dealt PROVE RequestsKeepTheirPlace'
      BY <2>2 DEF RequestsKeepTheirPlace, Peer!OvertakesFew
    <2>3. ASSUME NEW i \in 1 .. MaxRequests, Peer!Deal(i) PROVE RequestsKeepTheirPlace'
      BY <2>1, <2>3, DealKeepsPlaces
    <2>4. \/ dealt' = dealt
          \/ \E i \in 1 .. MaxRequests : Peer!Deal(i)
      BY StepIsSeen DEF Peer!Next, Peer!Reply, seen
    <2> QED
      BY <2>2, <2>3, <2>4
  <1> QED
    BY <1>1, <1>2, StreamInvariant, PTL DEF Spec

------------------------------------------------------------------------------
(* The session's queue is one of WriteBuffers                               *)

\* A set has more elements than a sequence without repetition that misses one.
LEMMA RoomForOneMore ==
  ASSUME NEW S, IsFiniteSet(S), NEW s \in Seq(S), IsInjective(s), NEW b \in S, b \notin ToSet(s)
  PROVE  Len(s) < Cardinality(S)
  <1>1. Len(s) \in Nat /\ DOMAIN s = 1 .. Len(s) /\ s \in [1 .. Len(s) -> S]
    BY LenProperties
  <1>2. s \in [1 .. Len(s) -> S \ {b}]
    BY <1>1 DEF ToSet
  <1>3. s \in Injection(1 .. Len(s), S \ {b})
    BY <1>1, <1>2 DEF Injection, IsInjective
  <1>4. IsFiniteSet(S \ {b}) /\ Cardinality(S \ {b}) = Cardinality(S) - 1
    BY FS_RemoveElement
  <1>5. Cardinality(1 .. Len(s)) = Len(s)
    BY <1>1, FS_Interval
  <1>6. Cardinality(1 .. Len(s)) <= Cardinality(S \ {b})
    BY <1>3, <1>4, FS_Injection
  <1> QED
    BY <1>1, <1>4, <1>5, <1>6, FS_CardinalityType

\* What WriteBuffers sees of the session.
Free == [c \in {"session"} |-> Len(pool)]
Waiting == [t \in IoThreads |-> IF pc[t] = "write" THEN "session" ELSE "none"]
queueSeen == <<Free, Waiting>>

\* Taking the first buffer.
LEMMA WriteIsSeen ==
  ASSUME StreamInv, NEW answer, Write(answer)
  PROVE  Free["session"] > 0 /\ Free' = [Free EXCEPT !["session"] = @ - 1]
  <1>1. pool \in Seq(Buffers) /\ pool # <<>> /\ pool' = Tail(pool)
    BY DEF Write, PoolAfterTake, StreamInv, BuffersAreApart
  <1>2. Len(pool) \in Nat /\ Len(pool) > 0 /\ Len(pool') = Len(pool) - 1
    BY <1>1, HeadTailProperties, LenProperties, EmptySeq
  <1> QED
    BY <1>2 DEF Free

\* A buffer that comes back was not in the queue.
LEMMA SendDoneIsSeen ==
  ASSUME StreamInv, NEW t \in IoThreads, SendDone(t)
  PROVE  WriteQueue!Put(t, "session")
  <1>1. PICK d \in sent : pool' = Append(pool, d[1])
    BY DEF SendDone
  <1>2. /\ pool \in Seq(Buffers) /\ IsInjective(pool)
        /\ d[1] \in Buffers /\ d[1] \notin ToSet(pool)
    BY DEF StreamInv, BuffersAreApart, Handed
  <1>3. Len(pool) < Cardinality(Buffers)
    BY <1>2, RoomForOneMore, StreamAssumption
  <1>4. Len(pool) \in Nat /\ Len(pool') = Len(pool) + 1
    BY <1>1, <1>2, AppendProperties, LenProperties
  <1>5. pc[t] = "idle" /\ pc' = pc
    BY DEF SendDone, threadVars
  <1> QED
    BY <1>3, <1>4, <1>5 DEF WriteQueue!Put

\* Each step of the session is a step of the queue or leaves it alone.
LEMMA QueueStep ==
  ASSUME StreamInv, [Next]_vars
  PROVE  WriteQueue!Next \/ UNCHANGED queueSeen
  <1>1. pc \in [IoThreads -> {"idle", "next", "deal", "write"}]
    BY DEF StreamInv, TypeOK
  <1>2. ASSUME NEW t \in IoThreads,
               HeaderDone(t) \/ BodyDone(t) \/ ReadFails(t) \/ ReadNext(t)
        PROVE  UNCHANGED queueSeen
    <2>1. CASE HeaderDone(t) \/ ReadFails(t)
      <3>1. pool' = pool /\ pc' = pc
        BY <2>1 DEF HeaderDone, ReadFails, writeVars, threadVars
      <3> QED
        BY <3>1 DEF queueSeen, Free, Waiting
    <2>2. CASE BodyDone(t)
      <3>1. pool' = pool /\ pc[t] = "idle" /\ pc' = [pc EXCEPT ![t] = "next"]
        BY <2>2 DEF BodyDone, writeVars
      <3> QED
        BY <1>1, <3>1 DEF queueSeen, Free, Waiting
    <2>3. CASE ReadNext(t)
      <3>1. pool' = pool /\ pc[t] = "next" /\ pc' = [pc EXCEPT ![t] = "deal"]
        BY <2>3 DEF ReadNext, writeVars
      <3> QED
        BY <1>1, <3>1 DEF queueSeen, Free, Waiting
    <2> QED
      BY <1>2, <2>1, <2>2, <2>3
  <1>3. ASSUME NEW t \in IoThreads, Deal(t)
        PROVE  WriteQueue!Ask(t, "session") \/ UNCHANGED queueSeen
    <2>1. pool' = pool /\ pc[t] = "deal" /\ \E s \in {"write", "idle"} : pc' = [pc EXCEPT ![t] = s]
      BY <1>3 DEF Deal, Answer, Nothing, writeVars
    <2> QED
      BY <1>1, <2>1 DEF WriteQueue!Ask, queueSeen, Free, Waiting
  <1>4. ASSUME NEW t \in IoThreads, IoWrite(t) PROVE WriteQueue!Write(t)
    <2>1. pc[t] = "write" /\ pc' = [pc EXCEPT ![t] = "idle"]
      BY <1>4 DEF IoWrite, Nothing
    <2>2. Free["session"] > 0 /\ Free' = [Free EXCEPT !["session"] = @ - 1]
      BY <1>4, WriteIsSeen DEF IoWrite
    <2>3. Waiting[t] = "session" /\ Waiting' = [Waiting EXCEPT ![t] = "none"]
      BY <1>1, <2>1 DEF Waiting
    <2> QED
      BY <2>2, <2>3 DEF WriteQueue!Write, WriteQueue!Take, Free, Waiting
  <1>5. ASSUME NEW i, CardAnswers(i) PROVE WriteQueue!Answer("session")
    <2>1. pc' = pc
      BY <1>5 DEF CardAnswers, threadVars
    <2>2. Free["session"] > 0 /\ Free' = [Free EXCEPT !["session"] = @ - 1]
      BY <1>5, WriteIsSeen DEF CardAnswers
    <2> QED
      BY <2>1, <2>2 DEF WriteQueue!Answer, WriteQueue!Take, Free
  <1>6. ASSUME Network \/ PeerCloses \/ UNCHANGED vars PROVE UNCHANGED queueSeen
    <2>1. pool' = pool /\ pc' = pc
      BY <1>6
      DEF Network, Receive, Transmit, TransmitFails, PeerCloses, vars, writeVars, threadVars
    <2> QED
      BY <2>1 DEF queueSeen, Free, Waiting
  <1>7. "session" \in {"session"}
    OBVIOUS
  <1> QED
    BY <1>2, <1>3, <1>4, <1>5, <1>6, <1>7, SendDoneIsSeen
    DEF Next, Handler, Thread, Card, WriteQueue!Next

(***************************************************************************)
(* The session's queue of buffers implements WriteBuffers: no send puts    *)
(* its buffer back twice, whether it succeeded or not.                     *)
(***************************************************************************)
THEOREM QueueImplementsWriteBuffers == Spec => ImplementsWriteBuffers
  <1>1. Init => WriteQueue!Init
    <2> SUFFICES ASSUME Init PROVE WriteQueue!Init
      OBVIOUS
    <2>1. Len(pool) = Cardinality(Buffers)
      BY SetAsSequence, StreamAssumption DEF Init
    <2>2. \A t \in IoThreads : pc[t] = "idle"
      BY DEF Init
    <2> QED
      BY <2>1, <2>2 DEF WriteQueue!Init
  <1>2. StreamInv /\ [Next]_vars => [WriteQueue!Next]_queueSeen
    BY QueueStep
  <1>3. [WriteQueue!Next]_queueSeen => [WriteQueue!Next]_(WriteQueue!bufferVars)
    BY DEF queueSeen, Free, Waiting, WriteQueue!bufferVars
  <1> QED
    BY <1>1, <1>2, <1>3, StreamInvariant, PTL DEF Spec, ImplementsWriteBuffers, WriteQueue!Spec
==============================================================================
