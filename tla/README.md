# Formal model of CIACommunicationServerV2

The program is a communication server for call-based authentication. A client sends a
`CIA_CALL_REQUEST` over TCP, the server rings a phone through a Synway voice card (the caller
number shown on the phone is the code), hangs up as soon as it rings, and answers with a
`CIA_CALL_RESPONSE`. This directory holds TLA+ modules of it, the TLC configurations that check
them and TLAPS proofs.

## The system

| part | state | operations | where it is hard |
|---|---|---|---|
| `voice_card_control` (`src/cti`) | pool of free channels, queue of delayed hang-ups, one `trunk` per channel | `cti_callout`, `cti_callout_again`, `cti_hangUp`, `cti_callback`, `timeout_check`, `deal_hungup_strategy` | up to six kinds of threads share the trunks; the trunk mutex is taken with `try_lock`, and decisions are made before it is taken |
| `trunk` | step, request data, client, echo flag, timer, mutex | `realseTrunk`, constructor | released and filled again while old events are on their way |
| `cti_call_out_param` | one request: retry timer, retry flag, start time | constructor, age | retried on timer threads until too old |
| `thread_safe_queue` | a queue and its mutex | `put`, `take` (throws when empty), `size` | |
| `cia_client` (`src/net_logic`) | socket, started flag, last activity, read buffer, pool of write buffers | `start`, `stop`, read chain, `do_write`, timeout check | several io threads run its handlers and share the read buffer; `do_write` blocks for a buffer |
| `blocking_queue` | a list, its mutex and condition | `Put`, `Take` (blocks), `Size` | |
| `cia_server` | acceptor, io threads, idle-channel timer | accept loop, timer | the timer races the shutdown |
| `config_server` | the ZooKeeper nodes, some of them cached | getters, `set_started`, `set_idol_channel_number` | remote writes in different orders; a node that cannot be read is a setting of 0 |
| `chat_message` | header, body, lengths | `decode_header`, `encode_header`, the constructor from a `ciaMessage` | the length stops at 512, in a header and a buffer of 516 bytes, but the constructor writes as much as `ByteSize` says |
| `ciaMessage` (generated) | 22 strings, has-bits, unknown fields | accessors, `Clear`, `MergeFrom`, `ByteSize`, writing, parsing | the parser jumps between fields; the size is computed apart from the writing |
| `main` | | four compositions, shutdown | |

A request goes from a socket thread (`cia_client::do_deal_call_out_request`) straight into
`cti_callout`. If no channel is free, or the dial fails the first time, it goes on on a timer
thread of the controller. From the moment `SsmAutoDial` returns, the card's driver calls
`cti_callback` on its own threads; the thread of `timeout_check` watches every trunk; a pool of
threads executes delayed hang-ups. All of them end a call through `cti_hangUp`, which answers
through the `do_write` of the client recorded in the trunk, and waits there for a write buffer
with the trunk mutex held.

What makes each part correct:

- the channel pool: a channel is in one place at a time, and each comes back;
- a request: one answer, the right one, sooner or later;
- a trunk: whoever changes it holds its mutex, and what was decided about a call is applied to
  that call;
- the delay strategy: a sleeping trunk is woken, and not cut short;
- a client session: every read and write completes or ends it, requests reach the handler as they
  were sent, none is lost, answers leave unmixed, a silent peer is timed out by one timeout check,
  `stop` runs once;
- the write buffers: each comes back, and none is filled while it is being sent;
- a message: parsing gives what was sent, an absent field is empty, the announced size is the
  written one as long as the 512 bytes of `chat_message` hold it;
- the server's status node: 2 with no free channels after a shutdown.

## Modules

| module | models | |
|---|---|---|
| `VoiceCard` | `src/cti/voice_card_control.hpp`, `src/cti/trunk.hpp`, `cti_call_out_param`, `thread_safe_queue` | all threads of the controller, step by step |
| `CallService` | what the controller promises the network side | abstract: requests, dials, channels, answers |
| `CiaClient` | `src/net_logic/cia_client.hpp`, `src/tools/blocking_queue.hpp`, the accept loop of `cia_server.hpp` | sessions, run by several io threads |
| `MessageStream` | the read chain, `do_deal_request` and `do_write` of `cia_client.hpp`, `chat_message.hpp`, the stub voice card | one session, message by message |
| `Dialogue` | what a session promises its peer | abstract: requests, their order, answers |
| `WriteBuffers` | what the write buffers of the sessions are to the threads that answer | abstract: buffers that are free, threads that wait |
| `CiaMessage` | `src/net_logic/CiaProtocol.pb.h`, `CiaProtocol.pb.cc` | messages and the generated operations on whole ones |
| `ChatMessage` | the constructor of `chat_message.hpp`, the answers of `cia_client.hpp` and the voice card | a message in its buffer |
| `MessageCodec` | `MergePartialFromCodedStream` in `CiaProtocol.pb.cc`, `ParseFromArray` | the parser, step by step |
| `MessageBodies` | protobuf's wire format | the reference `MessageCodec` is checked against |
| `ServerStatus` | `src/tools/config_server.hpp`, constructor and idle-channel timer of `cia_server.hpp`, `src/main.cpp` | start, status nodes and shutdown |
| `Server` | `VoiceCard` with the write buffers and io threads of the sessions | extends `VoiceCard` |
| `MCVoiceCard`, `MCCiaClient`, `MCMessageStream`, `MCMessageCodec`, `MCServerStatus`, `MCServer` | | model values for TLC |
| `VoiceCardProofs`, `VoiceCardRefinement`, `CallServiceProofs`, `CiaClientProofs`, `MessageStreamProofs`, `MessageCodecProofs`, `ServerStatusProofs`, `ServerProofs` | | theorems |

### VoiceCard

One variable per piece of state of the code; the comments beside `VARIABLES` name it. A trunk is
spread over the functions `step`, `client`, `echoFlag`, `callTime` and `lock`; `client[c]` stands
for `m_client_socket` together with `m_transId`, that is, for the call the trunk answers.

An action is one step between two points at which another thread can see or change something.
`cti_hangUp` is six: `HangupLock` or `HangupBusy` (the `try_lock`), `HangupRefused` or
`HangupCard` (its guards, then `SsmHangup`), `HangupRelease` or `HangupCrash` (`do_write`,
`realseTrunk`, `put`) and `HangupUnlock`. The last two are separate because the channel is
already in the pool while the mutex is still held. `cti_callout` is `TakeChannel`/`TakeThrows`,
`AutoDial`/`AutoDialFails`, `RecordCall`/`RecordFails` and `RestartTimer`; the last two write the
trunk in two steps because `timeout_check` reads `m_step` and `m_callTime` without the mutex. A
dial that failed goes on to `AnswerFailure` if it was the second one. `cti_callout_again` is
`GiveUp`, once the request is too old, or `WaitToRetry`, and `RetryFires` calls `cti_callout`
again. The retry timer is set only when it is created, so all waits after the first are over at
once. The unlocked reads of `timeout_check` are the actions `TimeoutScan`, `TimeoutElapsed` and
`TimeoutHangup`.

The card is external. It accepts a dial only on an idle line and may refuse any dial; a line that
was dialled may ring once, may end with any of the results in `FinalVerdict` or silently
(`DIAL_NOVOICE`), and `SsmHangup` may fail and leave it as it is. A driver thread handles an
event any time after the card reported it, so events arrive late and after the trunk has been
released: nothing in the controller ties an event to a call.

Time is in ticks. Each thread may be delayed for any number of them. `callTime` counts what has
passed since the trunk's timer was restarted, up to `MaxTime`: `trunk.hpp` already uses
`boost::timer::cpu_timer` while `voice_card_control.hpp` still calls `elapsed()`/`restart()` of
the older timer, and both mean this. Comments give the unit of the timeout as seconds in one
place and milliseconds in another; nothing in the model depends on it.

`m_hungup_by_echo_tone` has either value at first, because `trunk()` does not set it.

The timeout thread reads step, timer and flag of a trunk without the mutex (191-195) and hangs up
later (208) whatever call the trunk serves by then. A call that has just been dialled on the
channel can thus be hung up in place of the one that took too long, and is answered with
`CIA_CALL_SUCCESS`. The properties hold for it: it is a hang-up like any other, of one call, once.

`do_write` takes no time and never fails in this module; `Server` adds the wait, `CiaClient` and
`MessageStream` the rest.

### CallService

A request is submitted, seizes a channel, is dialled or refused, and is answered when its channel
is given back, or when its retries took too long. `ImplementsService` in `VoiceCard` states that
each step of the controller is one of these or changes nothing of them. The mapping takes the
holder of a channel from its trunk, or from the `cti_callout` that has it, and counts a lost
request as dialled and still holding its channel. `ServicePromises` states in the controller's own
state what the service guarantees: one channel per request and none after the answer, success only
for a dial that the card accepted, timeout only for a request without one.

### CiaClient

A session is spread over functions of the client: `started`, `open`, `idle` (ticks since
`m_update_time`), `timer` (ticks until `m_check_timeout_timer` expires), `read` (the outstanding
`async_read`, or its result), `free` and `flying` (buffers in `m_write_msg_queue_`, and with an
`async_send`), `calls` (requests the voice card has not answered). `registered` is the global
vector `clients`.

An io thread runs one handler at a time, but no strand keeps two threads from running two
handlers of one session. `pc`, `cl` and `rest` say what a thread is about to do, for whom, and
what comes after `do_write` or `stop()`. A handler is split where another thread matters:
`do_write` waits in `Write` for a buffer; `stop()` is `StopTest`, `StopClose`, `StopFind` and
`StopErase`, because it tests `m_started_` and uses its iterator without a lock. An `erase(end())`
is undefined; `StopBreaks` marks it and the model ends. (A `push_back` that moves the vector
between `find` and `erase` is undefined too; the model keeps the position. Neither happens with
one io thread.) `StopsExclude` says that no two threads are in one of these two unlocked sections
at once, for one client in the first and for any in the second; nothing in the code ensures it.

Handlers outlive the socket: `stop()` closes it, and the outstanding read and sends complete with
an error and call `stop()` again. The timer is never cancelled. `CallOut` covers both
implementations of `cti_callout`: the stub answers at once, the voice card on a thread of
`Callers` later.

A peer may fall silent, which only ends what it sends; it may stop to read (`"stuck"`), and then a
send neither succeeds nor fails while the socket is open (`SendCompletes`); or it is gone. So a
buffer need not come back, and `do_write` may wait for one of a stuck peer with io threads free.

Left out: `m_is_login` (written and never read), a clock that is set back, and what a message
says, which is in `MessageStream`.

### MessageStream

The bytes of a session come in units `<<message, offset>>`, so that one out of place shows. A
message is a header of `HeaderLength` units and a body; `Receive` delivers one unit into
`m_read_msg_`, and the last one of an `async_read` completes it. `HeaderDone` is `decode_header`
and `do_read_body` or `stop()`; `BodyDone` copies the message (`ch_msg`), `ReadNext` starts the
read of the next header *before* `Deal` deals with the copy, so that another thread may be reading
into the same buffer, or dealing with a later request, meanwhile. `Deal` answers a login, passes a
call to the voice card or lets the stub answer it, and ignores the rest. `Write` takes a buffer,
fills it and starts `async_send`; `Transmit` writes any part of it that is not empty, as
`async_send` of one `async_write_some` may, and `SendDone` puts the buffer back.

A part of an answer is therefore lost if the kernel takes less than the message, and the peer loses the
framing. The model has this, and `MessagesDoNotMix` says what is left: each answer's units are on
the stream in order, at most once, from its first on, and no other answer's are between them.

### Dialogue

What the peer can tell of a session: `Deal(i)` deals with request `i`, once, never behind a header
that ended the session, and overtaking fewer requests than there are io threads; `Reply` sends
the beginning of the answer to a request that was dealt with. There are no buffers, copies or
reads in it. `ImplementsDialogue` in `MessageStream` states that each step of the session is one of
these or shows the peer nothing; since the session copies a request before it reads on and deals
with the copy after, the number a request can overtake is what the io threads can hold in their
copies. `OvertakesFew` follows for the order of `dealt`.

### WriteBuffers

A thread that answers takes a free buffer of the client it writes to, and waits if there is none; an
io thread that does not wait gives one back. Nothing else of a session is in it: `free` counts the
buffers in `m_write_msg_queue_`, `waiting` says in whose `Take()` each io thread is. Two modules
implement it, each as the property `ImplementsWriteBuffers`: `CiaClient` with all handlers of all
sessions, and `MessageStream` with real buffers in a queue. It is the reason why `Server` may take
a session for its buffers: what `Server` takes for granted of them is what `CiaClient` keeps.

### CiaMessage, ChatMessage and MessageCodec

The generated code repeats one block per field, 22 times. A field is a number here and a block an
operator; the lines that `map` names for an operator are those of some of the blocks (in
`MergePartialFromCodedStream`, where a case consists of `KnownTag`, `ReadField` and `Jump`, each of
these names different cases). A message has its has-bits, a string for each field and the bytes of
the unknown fields. `Clear` and `MergeFrom` keep the test of a whole group of has-bits by one
mask (`FieldGroups`), and `ByteSize` the literal 1 or 2 for the length of a tag (`SizeOfTag`), since
they could be wrong without a compiler noticing. `ByteSize` and `Serialize` go through the fields
one after the other (`SizeOf`, `BytesFor`), as the code does, and apart from each other.

`ChatMessage` has the answers to a login and to a call, built with the setters of `CiaMessage`, and
what the constructor of `chat_message` makes of one (`Frame`): `body_length` takes no more than 512
(`BodyLength`), while `SerializeToArray` is told `ByteSize`. A call's answer returns the transid of the
request. A request has room for a transid of 501 bytes, its answer for one of 497: an answer with
more has a header that says less than was written, and does not fit into `m_data` (`FitsBuffer`). What the
program does then is undefined and in no module; `AnswersAreFramed` draws the limit, and
`MessageStream` has only answers within it.

`MessageCodec` is one call of `ParseFromArray` by `do_deal_request`: `Clear`, then the loop. `ReadTag`
is `ReadTagWithCutoff`; `ReadField` reads the string into the message and sets the has-bit, for a string
that is cut short as well; `Jump` is `ExpectTag` and the `goto` to the next field, `NextTag` the way back to
the loop, `ExpectAtEnd` what the last field does; `EndsMessage` and `SkipField` are
`handle_unusual`. `Finish` asks for the required field and the end of the body.

The bodies are given with their meaning, which `MessageBodies` defines from the wire format
without a parser: a sequence of pieces (fields, unknown fields and end markers), each a tag and a
value, the last of which may be cut short, or a message that a client wrote with the same generated code. What
the pieces mean is `Denotes`: of two values of a field the later one, and the unknown ones kept.

libprotobuf is external: varints, tags, `ReadString`, `SkipField` and the unknown fields. Varints
have two bytes at most and tags stay below the cutoff 16383; in a body of at most 512 bytes lengths
do. Groups and fixed-width unknown fields do not occur. UTF-8 checks only log and are left out.

### ServerStatus

`main` is a sequence of steps (`mainPc`). `Flush` reads the eight settings, one after the other:
ZooKeeper may go and come between them, nobody looks at what the `flush_` functions return, and a
setting that could not be read is 0. Then one of the four compositions of `main` runs (`app`):
`test_all` and `testNetLogic` build a server, start it, write status 1 and wait for "quit";
`testCTI`, the one this commit calls, makes calls and announces nothing; `test_config_server`
writes ten channels and status 1. `BuildFails` is a voice card that does not start or a port that
is taken: only `testCTI` catches it. All of them end with the two writes of the shutdown.
`set_started` is two steps because the timer's handler assigns the same `m_started`.

The handler is `TimerFires` to `IoWriteOpen`. Its closure holds a `shared_ptr` to the server that
owns the io_service, so the server is never destroyed and the timer goes on until the process
ends. It needs a period and an io thread, which are settings. ZooKeeper comes and goes
(`ZkChanges`): a write then changes nothing and a read says it failed. The remote service sets
`status` to 2 when it loses its connection (`RemoteCloses`), which is what the comment at
cia_client.hpp:108 is about and the timer is there to undo.

Since the timer still runs during the shutdown it may write its count, or status 1, after `main`
wrote 0 and 2, and a stopped server then looks open. `ClosedWithoutTimer` says that the timer is
the only reason for it. The comments of the getters promise -1 for a setting that could not be
read; the code says 0, which is also "off".

### Server

`Server` extends `VoiceCard`: a step of the controller that answers a call takes a write buffer of
the call's client (`DoWrite`), and waits for one with everything its thread holds: the trunk mutex in
`cti_hangUp`, the one timeout thread, a driver thread, one of the five retry threads. A request needs an io
thread and a retry one of the retry threads (`IoThreadFree`, `RetryThreadFree`). Io threads also
wait for buffers of their own, for login answers and heartbeats (`IoAsks`, `IoWrites`; `asking` says
for whose), and a buffer comes back only if an io thread that does not wait is free to run the
handler of its send (`SendDone`). A
peer may stop to read (`PeerChanges`): then its sends do not complete.

## Runs

| run | configuration | question |
|---|---|---|
| `one_channel` | 2 calls, 1 channel, debug calls, delay strategy, fairness | do the hang-ups of the card, the timeout thread and the strategy, racing on one trunk, keep mutexes, records and answers consistent, is a delayed hang-up neither forgotten nor cut short, and is every request answered? |
| `two_channels` | 2 calls, 2 channels, no delay strategy | is a channel never shared, dropped or freed twice, does a hang-up always find a call, and does the controller implement `CallService` and keep its promises? |
| `sessions` | 1 client, 2 io threads, 1 answering thread, fairness | does an open session always have a read under way and its timer running, or one thread, no more, about to see to it; does `do_write` get its buffer unless a peer keeps them, is a hung peer closed, and does a session end when its peer is gone; are its buffers used as `WriteBuffers` says? |
| `one_io_thread` | 2 clients, 1 io thread, 1 answering thread | does `stop()` erase its own entry, once; do io threads that wait for each other's buffers stay so? |
| `message_stream` | 3 requests of any kind, 2 io threads, 2 buffers, fairness | are requests dealt with as they were sent, once each and nearly in order, is none lost, do answers match them and stay apart on the stream, does the session implement `Dialogue` and its queue `WriteBuffers`, and is every request answered? |
| `message_codec` | all bodies of up to 3 of 12 pieces, whole or cut, and 43 written messages; new and reused objects | is exactly what is well formed accepted, and read as it was sent; is an absent field always empty; which answers are as long as their headers say and fit into their buffer; does every parse end? |
| `server_status` | 2 channels, 4 compositions, any settings missing, fairness | does the timer open a closed node again and keep `freeNum` true; without it, is a stopped server closed? |
| `server` | 2 calls of 1 client, 1 channel, 1 buffer, 1 io thread, 1 retry thread, fairness | is every call answered although its answer waits for a buffer with a mutex or a thread in hand? |

Four runs show where the code does not do what its comments say:

| run | comment | what happens |
|---|---|---|
| `allocated_trunk` | voice_card_control.hpp:257: cannot happen | the channel is taken from the pool before `cti_hangUp` has released the trunk mutex (370), or an event of the new dial holds it; the call is not recorded, not answered, and its channel is gone |
| `repeated_hangup` | voice_card_control.hpp:324: a repeated hang-up does nothing | an echo tone during the recording of the call finds the mutex taken and queues the channel without `TRK_SLEEP` (475-483); the next event ends the call and gives the channel back; then the strategy thread, which has been waiting for the mutex with the queued channel, makes the idle trunk `TRK_HUNGUP` (657), and `cti_hangUp` goes past its guards again and through a null client (368) |
| `success_reached` | voice_card_control.hpp:497: success, because the user can see the code | an event of the previous call answers the one that is still dialling |
| `silent_client` | config_server.hpp:161: a socket without any response for the timeout is closed | each heartbeat request that is sent counts as activity; a silent peer stays |

`HangupServesACall` of `two_channels` fails with the delay strategy as well, and sooner: the first echo
tone on a trunk that was never used, judged before the call is recorded, and an uninitialised
`m_hungup_by_echo_tone` are enough. The comment at 324 is about hang-ups that are repeated, so the
run `repeated_hangup` asks for one (`HangupIsNotRepeated`).

`EraseIsSafe` and `StartedIsRegistered` do not hold with two io threads: a failed read and a failed
send can both pass the unlocked test of `m_started_`, and the second erases `clients.end()`. The
number of io threads is a setting, and no comment says it must be one, so this is stated with the
properties and is no run of its own. For any number of threads both follow from `StopsExclude`
(`ExclusiveStopErases`, `ExclusiveStopRegisters`), so those two unlocked sections are the only way
to break them, but for the `push_back` that moves the vector under an iterator, which the model
leaves out.

### Bounds

Voice card: two calls on one channel are the least with which something that was decided about one
call can hit another. Two channels are the least with which one can be confused with another, or a
call retried on a different one. One driver thread is enough for stale events, since the timeout and strategy
threads race with it; the constructor starts `m_numChannelCount / 2 + 1` strategy threads and so
does the model. The elapses are 0 to 2 ticks and `MaxTime` 1 or 2: each comparison of the code has
both outcomes. Two channels with the strategy are several million states and no run of their own;
the proofs cover them.

Sessions: two io threads are the least with which two handlers of a session overlap, two clients
with one thread the least with which one's `stop()` can touch another's entry. One
message per peer and a timeout of one tick reach every handler with the timer in every phase.

Message stream: a header and a body of two units can each be cut in the middle. With three requests
and two threads one thread can be dealing with a request while the other reads on and deals with
the next two; three answers want more than the two buffers there are.

Codec: the pieces have tags of one and two bytes, on both sides of the change at field 16, neighbours
and not, the last field, unknown fields of both wire types, a known field with a wrong wire type, a byte 0 and the
end of a group; three of them put each one after each other and back. Written messages have strings of 0, 1, 127 and
128 bytes, around the second byte of their length; requests have a transid of 0, 127, 128, 496, 497, 498
or 501 bytes, around the longest that can be answered and up to the longest there is room for.

Server status: two channels tell a stale count from a true one.

Server: one buffer and one thread of each kind make everyone wait for everyone as soon as possible. Two
calls let one of them wait for the buffer with the channel's mutex held while the other is retried.

No run checks for deadlock: the process may end in `HangupCrash`, `main` and a parse return, a
session ends, and with all calls answered only time goes on.

### Fairness

Voice card: each thread runs: weak fairness of each call's `CallOut`, each thread's `HandlerStep`
and of time. Requests and card events are not fair, so a card that never reports anything is
covered: the timeout thread ends such calls. `lock()` in `deal_hungup_strategy` gets strong
fairness: the others hold the mutex for short, and a waiting thread is assumed to get it in the
end. `EveryCallIsAnswered` excepts the two cases that the violation runs show: a lost record and a
dead process.

Sessions and streams: every thread runs (weak fairness). The io_service hands completions out in
order, so each kind of completion gets its turn (strong fairness), and so does a thread in `Take()`
if buffers keep coming back. Peers may do nothing; in `CiaClient` they may also stop to read, and a send to such a peer is not
fair: it completes only when the socket is closed. In `MessageStream` the network delivers what was
sent while the connection lasts. `WriterGetsBuffer` therefore excepts a thread that waits for a
buffer of a stuck peer that has them all (`Clogged`), and `HungClientIsClosed`, which says that a peer that
neither reads nor sends is timed out, the case that the timeout check itself waits there, to send
its heartbeat request (`HeartbeatWaits`): then the session stays for good. All liveness properties
except `IoBlocked`, all io threads waiting for buffers of clients that have none: the buffers can then only come back through the threads that
wait, and nothing in the code prevents it. A process in which it happens does not recover: that is
`BlockedForGood`, an action property, since `IoBlocked` is reached in `one_io_thread` (one answer
on its way and one more to write are enough).

Server: each call and each thread runs (weak fairness), the handlers of the sends of a peer that
reads again and again get their turn, and a thread of the voice card that waits in `Take()` is not
overtaken by io threads for ever (strong fairness). Peers do what they like. `AnswersGetOut`
excepts a peer that stops to read for good with all of its client's buffers, and io threads that
wait for good. It does not except the voice card's own threads, and none of them needs another one to
get its buffer.

Codec: the parse is one call and runs until it returns. Server status: `main` and the timer run,
"quit" need never be typed, and ZooKeeper need not answer: the two liveness properties assume that
it does from some time on.

## Proofs

`VoiceCardProofs`, `VoiceCardRefinement` and `CallServiceProofs`: for any number of calls and
channels, any number of driver threads, any elapses, and the assumptions named in `VoiceCard`
(threads and calls are distinct, at least one channel, natural numbers for times, warning elapse
below the bound):

| theorem | states |
|---|---|
| `TypeCorrect` | the type invariant |
| `Consistent` | the inductive invariant `IndInv` |
| `ChannelConservation` | `ChannelHasOnePlace` |
| `AnsweredOnce` | `CallHasOneAnswer` |
| `DelayIsKept` | `DelayIsNotCutShort` |
| `ServingTrunksWatched` | `ServingTrunkIsWatched` |
| `SleepersPending` | `SleepIsPending` |
| `NoStrategyNoCrash` | `HangupServesACall`, if the delay strategy is off |
| `ControllerImplementsService` (`VoiceCardRefinement`) | `ImplementsService`: the controller implements `CallService` |
| `PromisesKept` (`VoiceCardRefinement`) | `ServicePromises` |
| `OneChannelEach`, `SoundAnswers` (`CallServiceProofs`) | the promises of `CallService`, if no call is `NoCall` and the statuses differ |

`ChannelHasOnePlace` and `CallHasOneAnswer` are not inductive. A second put of one channel is
impossible because `HangupRelease` only runs on a trunk that still serves a call; that it cannot
have been released meanwhile needs the mutex: `MutexDiscipline` says which step of which thread
holds it. That a released trunk's call was the one answered needs `TrunkRecordsCall`: a trunk
names a call exactly from `RecordCall` to the answer. `GuardsStillHold` carries what the guards of
`cti_hangUp` tested over `SsmHangup` to the writes. `IndInv` is the conjunction, and every action
is one case of the induction. `SleepIsPending`, `ServingTrunkIsWatched` and the case without the
strategy are inductions of their own on top of it.

The refinement rests on one lemma, `HolderNamesTheCall`: in a state of `IndInv` the mapped holder
of a channel is the one call that has it, by its trunk or by its `cti_callout`. With it each action
is a step of the service or leaves the mapped state alone, and the promises proved of
`CallService` carry over through the refinement.

`ServerProofs`, for any number of clients, io threads (finitely many), retry threads and buffers, and
any owner of each call:

| theorem | states |
|---|---|
| `ServerRunsController` | `ServerSpec => Spec`: waiting for buffers and threads only delays the controller |
| `ServerAnswersOnce` | `CallHasOneAnswer` and `ChannelHasOnePlace` |
| `ServerImplementsService` | `ImplementsService` and `ServicePromises` |
| `PoolsKeepTheirSize` | the type invariant |

The first one carries everything that is proved of `VoiceCard` over to the composition; the next two
say so of what matters to the clients.

`CiaClientProofs` proves about the sessions, for any number of clients, io threads, callers and
messages and any timeout, from the assumptions named in `CiaClient` (as many buffers as io
threads, at least one; callers are not io threads):

| theorem | states |
|---|---|
| `SessionsConsistent`, `SessionTypes` | the type invariant and the inductive invariant `SessionInv` |
| `StartedSessionsRead` | `SessionIsRead` |
| `StartedSessionsWatched` | `SessionIsWatched` |
| `TimeoutCheckIsAlone` | `TimerIsAlone` |
| `BlockedStays` | `BlockedForGood` |
| `SessionsImplementWriteBuffers` | `ImplementsWriteBuffers`: the sessions implement `WriteBuffers` |
| `ExclusiveStopErases`, `ExclusiveStopRegisters` | `EraseIsSafe` and `StartedIsRegistered`, as long as `StopsExclude` holds |

The type invariant needs `BuffersConserved`: a buffer can be put back without overfilling the queue
because the send that brings it had taken it. That a stopped session is never read as started
again needs `AbsentIsUntouched`: `start` runs once, before anything else happens for the client.
`HandlersHaveClients` says that a thread past the test in `stop()` works on a stopped session, so
that the thread cannot be lost as the one that was to stop a started one. `ExclusiveStopErases` adds
`VectorInv`: the vector holds exactly the started clients and those that a thread is leaving with
(`Leaving`), each once; no two threads leave with the same client; and an iterator points at its
own client (`HasItsPlace`). Both halves of `StopsExclude` are needed: the first keeps a thread at the
test from a client that another has just found started, the second keeps an `erase` from moving
the entries under an iterator. One io thread has both for nothing (`OneThreadExcludes`), since the
threads of the voice card never stop a session. `TimeoutCheckIsAlone` is an induction on top of
`SessionInv` with `CalloutIsLast`: a thread that handles a call request has not come from the timer,
so that the heartbeat's `do_write` and the answer's are told apart; start sets the first timer
because nobody can have a client that was not accepted. `BlockedStays` takes one step: only a send's
handler gives a buffer back, it needs an io thread, and a thread of the voice card can take from
the pools of other clients only. `SessionsImplementWriteBuffers` maps an io thread in `take` to one
that waits for its client; by `BuffersConserved` a send that is over finds room in the queue, and by
`HandlersHaveClients` whoever waits, waits for a client.

`MessageStreamProofs`, for any number of requests, io threads and buffers, from the assumption that
there are finitely many of the last two:

| theorem | states |
|---|---|
| `RequestsAreWhole` | `RequestsStayWhole` |
| `RequestsAreKept` | `NoRequestIsLost` |
| `SessionImplementsDialogue` | `ImplementsDialogue`: the session implements `Dialogue` |
| `RequestsStayInPlace` | `RequestsKeepTheirPlace` |
| `AnswersFollowRequests` | `AnswersMatchRequests` |
| `AnswersStayTogether` | `MessagesDoNotMix` |
| `SendsKeepTheirBuffers` | `SendKeepsItsBuffer` |
| `QueueImplementsWriteBuffers` | `ImplementsWriteBuffers`: the queue of buffers implements `WriteBuffers` |
| `StreamTypes` | the type invariant |

The inductive invariant `StreamInv` has five parts, each proved from the types and the parts before
it. `ReadIsAligned` says where the outstanding read is in the peer's stream and what `m_read_msg_`
holds; while a thread is between its copy and `do_read_header` nothing is being read, which is why
the copy is whole. `CopiesAreRequests` says that copies not dealt with are requests before that place,
each one different from the others and from those dealt with. `BuffersAreApart` has each buffer in
one place, and `AnswersAreApart` each answer: with a thread, the voice card, a send or the stream. A
new answer is different from all of them because its request was not dealt with before.
`NoRequestIsLost` says that what was read is dealt with or copied (`HeldStays`: a copy is never
overwritten before it was dealt with).

The refinement needs one count: the requests that `i` overtakes are all read and not dealt with, so by
`NoRequestIsLost` each is the copy of a thread, by `CopiesAreRequests` of a thread of its own, and
none of them is the thread that deals with `i` (`OvertakenAreWithThreads`). `RequestsStayInPlace`
counts once more: a request dealt with as the `k`-th has overtaken all earlier ones but `k - 1`.
The other refinement counts buffers: the one that a send puts back is in one place only, hence not
in the queue, which repeats none (`BuffersAreApart`) and is therefore shorter than the set of all
(`RoomForOneMore`).

`MessageCodecProofs`, for every message and for bodies of any bytes, from the assumption that the
reused objects have empty absent fields:

| theorem | states |
|---|---|
| `ClearForgets` | `Clear` makes a message with empty absent fields a new one: no mask leaves a field out |
| `OperationsKeepClean` | every operation leaves absent fields empty, which is what `ClearForgets` needs |
| `CopiesAreExact` | `CopyFrom` and the copy constructor give an equal message |
| `MergeIsAssociative` | `MergeFrom` is associative |
| `FieldSizeIsExact` | the size counted for a field is the number of bytes written for it, for each of the 22 |
| `AnnouncesWhatItWrites` | `ByteSize` is the length of what `Serialize` writes, for every message with strings of up to 16383 bytes |
| `AnswersFitTheirFrames` | `AnswersAreFramed`: whatever body was accepted, its answer is as long as its header says and fits the buffer exactly if its transid has at most 497 bytes |
| `ParserReadsWhatWasSent` | `ReadsWhatWasSent`, for bodies of any number of any pieces of the wire format, whole or cut, and any messages the server may write |
| `StaysWithinBody`, `NothingStaleIsRead`, `ParserTypes` | `ReadsWithinBody`, `AbsentFieldsAreEmpty` and the type invariant of the parser |

The parser's inductive invariant adds that `tag` is that of a field whenever one is read or was
just read (`AtAField`): the jumps set it as the loop does.

`AnnouncesWhatItWrites` and `ParserReadsWhatWasSent` are about functions defined by recursion on a number (the fields written so
far, the pieces read so far). That such a function exists is `Recursion`, what holds of all its values
`UpToInduction`; both are proved from the least number for which something fails. Then
`AnnouncesWhatItWrites` compares the two functions field by field. `ParserReadsWhatWasSent` has the
inductive invariant `Reads`: the parser stands between two pieces, having read the message that the
first `k` denote (`Between`), or behind the tag of the next one (`Within`), or it has left the loop
with the right outcome (`Decided`). Each action is shown to take one piece as the wire format
means it, or to fail at a piece that is cut, and at no other. A written message is such a body
(`WrittenInPieces`), if the message is `Sendable`: absent fields empty, strings of up to 16383 bytes,
unknown fields that were read from the wire. The first and the second are what the parser leaves
(`NothingStaleIsRead`, `StringsFit`). `AnswersFitTheirFrames` needs the same two, for the length of a
transid, and adds up the three fields of an answer (`AnswerSize`): nothing else gets into one, be it
built from the object that held the request or from a new one (`AnswersAreSmall`). The bodies of the run `message_codec` meet the hypotheses;
TLC evaluates that its pieces are of the wire format (`PiecesAssumption`).

`ServerStatusProofs`, for any number of channels, all compositions and settings: `StatusConsistent`
(the inductive invariant), `StatusTypes` and `StoppedIsClosed` (`ClosedWithoutTimer`). The invariant
says that with no timer the handler is never under way, so nothing comes between the writes of the
shutdown and the end (`Undisturbed`), and that the timer is armed in `Start` only (`NothingYet`).

Only model-checked: the liveness properties (`EveryCallIsAnswered`, `WriterGetsBuffer`,
`HungClientIsClosed`, `SessionEnds`, `StatusIsRestored`, `FreeNumFollows`, `RequestsAreAnswered`, `ParseEnds`,
`AnswersGetOut`), which are out of the prover's reach, and the counterexamples of the violation
runs. Every invariant and every action property of the passing runs is the subject of a theorem (`EraseIsSafe`,
`StartedIsRegistered` and `HangupServesACall` under the condition their theorems name). The
type invariant of each component is a theorem, too; the runs `one_channel` (in `IndInv`) and
`server_status` check one as well.

## Not modelled

- Constructor and destructor of `voice_card_control`: the timeout thread starts before the trunks
  exist, and the strategy threads may be interrupted with a mutex held. The model begins when the
  constructor is done and ends with the process. Both are races on memory that does not exist yet, or no
  longer; after them the program has no defined state to say anything about.
- What follows an answer that does not fit into `chat_message` (undefined; see `AnswersAreFramed`).
- Destructors of the sessions and of the server; the second never runs once the timer is armed.
- Data races on values that are only logged (`m_transId` at voice_card_control.hpp:404).
- A local clock that is set back (cia_client.hpp:195).
- `std::stoi` of a node that holds no number: it throws in the constructor or in the timer's handler
  and ends the process.
- `zoo_keeper.hpp`, which nothing includes; `cia_zookeeper.h`, which is included and not in the
  repository, is external.
- In the generated code: destructor, `Swap`, `release_` and `set_allocated_` accessors, the stream
  serializer, descriptors and reflection, which the server does not call. libprotobuf, boost::asio,
  the voice card's driver and ZooKeeper are external.
- Logging, phone numbers, `deal_e_rcv_ss7msu` (it only logs), `cti_callout_by_channel_ID`
  (declared, never defined), `m_is_login` (written, never read).

## Plan

Done: `VoiceCard`, `CallService`, the refinement and their proofs; `CiaClient` and its proofs;
`MessageStream`, `Dialogue`, the refinement and their proofs; `WriteBuffers`, which links `CiaClient` and
`MessageStream`, and the two refinements; `CiaMessage`, `ChatMessage`, `MessageCodec` and their proofs; `ServerStatus` and its
proofs; `Server` and its proofs. Left:

1. `Server` with two clients and two channels, to tell a buffer of one client from that of another;
   it is too large for TLC with the timer of the sessions, so the sessions would stay abstract.
2. The interruption of the strategy threads, if the destructor's order is ever relied on.
