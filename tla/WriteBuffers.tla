----------------------------- MODULE WriteBuffers -----------------------------
(***************************************************************************)
(* What the write buffers of the sessions are to the threads that answer:  *)
(* a thread takes one of the client it writes to and waits if there is     *)
(* none, and only an io thread that does not wait itself gives one back.   *)
(* CiaClient keeps this, with all handlers of the sessions; Server takes   *)
(* it for granted, with the voice card for the threads that answer.        *)
(***************************************************************************)
EXTENDS Integers

CONSTANTS
  Clients,    \* cia_client objects
  IoThreads,  \* threads that run the io_service
  NoClient,   \* what a thread that does not wait waits for
  Buffers     \* buffers each client begins with

VARIABLES
  free,    \* buffers in m_write_msg_queue_ of each client
  waiting  \* the client in whose Take() each io thread is

bufferVars == <<free, waiting>>

Init ==
  /\ free = [c \in Clients |-> Buffers]
  /\ waiting = [t \in IoThreads |-> NoClient]

\* The condition of Take() holds, and a buffer leaves the queue.
Take(c) ==
  /\ free[c] > 0
  /\ free' = [free EXCEPT ![c] = @ - 1]

\* Io thread t calls Take() for client c.
Ask(t, c) ==
  /\ waiting[t] = NoClient
  /\ waiting' = [waiting EXCEPT ![t] = c]
  /\ UNCHANGED free

\* Io thread t gets its buffer.
Write(t) ==
  /\ waiting[t] # NoClient
  /\ Take(waiting[t])
  /\ waiting' = [waiting EXCEPT ![t] = NoClient]

\* A thread of the voice card gets one.
Answer(c) == Take(c) /\ UNCHANGED waiting

\* The handler of a send, on io thread t.
Put(t, c) ==
  /\ waiting[t] = NoClient /\ free[c] < Buffers
  /\ free' = [free EXCEPT ![c] = @ + 1]
  /\ UNCHANGED waiting

Next ==
  \/ \E t \in IoThreads, c \in Clients : Ask(t, c) \/ Put(t, c)
  \/ \E t \in IoThreads : Write(t)
  \/ \E c \in Clients : Answer(c)

Spec == Init /\ [][Next]_bufferVars
==============================================================================
