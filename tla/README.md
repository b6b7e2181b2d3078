# Verification of the JaSmartObject stack

TLA+ models of the CoAP/OCF stack under `src/code`, the TLC runs that check them
on small instances, and TLAPS proofs of what matters most for every instance.
`PROJECT.json` maps each definition to the lines it models.

## 1. The system

JaSmartObject is a CoAP messaging stack for small devices with OCF resources on
top of it. Four kinds of thread meet in it: the **timer task** (OsalTimerMgr),
the **receive task** and the **sender task** of the IP adapter, and the **stack
task** (MsgStack), which handles one event at a time; applications call in from
threads of their own.

    datagram -> receive task --ENDPOINT_DATA-->  +------------+
    timer task --HEART_BEAT_TIMER-------------->  | stack task | --> resources
    resource, app --SERVER_SEND_RESPONSE------->  | (MsgStack) | --> MessageSender
                  --CLIENT_SEND_REQUEST-------->  +------------+        |
                                                     ring of 10         v
                                    sender task <-- ring of 10 <-- IP adapter

### Inventory

| component | code | state | operations | what is hard |
|---|---|---|---|---|
| server side of the messaging core | `stack/common/src`: MsgStack, InteractionStore, Exchange, BaseInteraction, ServerInteraction, MessageIdProvider | list of exchanges (a message received or sent, its expiry and retransmissions), list of interactions (one per endpoint and token, with its current exchanges and a count), id counter | request, duplicate, ACK, RST, ping, bad datagram, late answer, heart beat | repeated and reordered messages, ids of two devices that meet, objects freed from several places, late answers after expiry |
| client side | MsgStack, ClientInteraction, MulticastClientInteraction, TokenProvider | client exchanges and interactions, multicast requests | send request, receive response, ACK, RST | duplicate responses, no timeout, one request with many answers |
| blockwise transfer | ServerInteraction, ClientInteraction, BlockTransferStatus, BlockOption | block number, size and collected body on either side | next block, error, negotiation of the size | lost and repeated blocks, a stored response served to a new request |
| message queue | `base/export/PtrMsgQ.h` | ring of pointers, front, back | Enqueue, Dequeue, IsFull, IsEmpty | full and empty, wrap-around |
| task | `osal/common/src/TaskBase.cpp`, the ports' semaphores and threads | stop bit, semaphore, mutex, queue | Init, Start, Stop, Destroy, SendMsg, Run | wakeups, stop against wait, restart, destroy |
| timer manager | `osal/common/src/OsalTimerMgr.cpp` | sorted list of timers, clock | register, unregister, reset, task loop | callbacks that touch the list, a clock advanced by several tasks, wrap at 2^32 us |
| send path | `network/common/src/ip_adapter_base.cpp`, `base/export/SimpleList.h` | pool of ten messages, ring of ten pointers, sender task | post, send, delete, start, stop | pool against queue on every failure, restart on the same ring, destroy without join |
| adapter life cycle | adapter_mgr_impl.cpp, ip_adapter_base.cpp | selected adapters, started, servers started, sockets, receive task | initialize, start, stop, servers, terminate | a failing step half way, order of calls |
| CoAP codec | `network/common/src/coap` | none | parse, encode, options, block sizes | deltas and lengths at 13, 14 and 269, sizes at powers of two |
| CBOR codec | `stack/common/src/cbor` | none | encode and decode items | nesting, lengths |
| resources, resource manager | `stack/common/src/ResourceMgr.cpp`, BaseResource, QueryContainer, `resources/common/src/core` | list of resources | look-up by URI, queries | data handling |
| security resources | `resources/common/src/security` | ACL, credentials, owner, provisioning state | get, post | state of provisioning |
| DTLS | SecureContext*, SecureSession | mbedTLS contexts | wrappers | in mbedTLS |
| ports, memory, base, older stack, programs | the rest | | | I/O and value types |

What makes each modelled component correct:

* *server*: the store never dangles and never leaks; a request is handled once,
  a new one always; every reply belongs to a request; a late answer finds its
  interaction.
* *client*: pointers and counts of its store agree; each response is told to the
  callback of its own request, and to it once.
* *blockwise transfer*: the resource gets the whole body or nothing of it, the
  application a whole response of one version; what is not disturbed ends.
* *codec*: the message that is handled is the message that was sent, and both
  sides come to its end.
* *timer manager*: the list is in the order of expiry; a timer that was stopped
  stays quiet; a timer fires not before its time and not much after it.
* *queue and task*: the ring is a FIFO queue; accepted messages are handled once,
  in order and in the end; no wakeup is lost; a stopped worker exits.
* *send path*: a message of the pool is at one place at a time and comes back to
  the pool; what is lost is bounded; terminate leaves nothing behind.

## 2. Modules

| module | what it is | lines it rests on |
|---|---|---|
| `ServerStack` | the stack task of a server: one action per event | MsgStack, Exchange, BaseInteraction, ServerInteraction, InteractionStore, MessageIdProvider, the test resources (small slow, piggyback, NON) |
| `MCServerStack` | its workloads | |
| `ServerStack_proofs` | its theorems | |
| `MsgQueue` | what a queue promises: bounded FIFO | MsgQ.h |
| `PtrMsgQ` | the ring, and its refinement of `MsgQueue` | PtrMsgQ.h |
| `PtrMsgQ_proofs` | its theorems; `MCTaskBase` checks it | |
| `TaskBase` | senders, callers and workers around a `PtrMsgQ` | TaskBase.cpp, SemaphoreImpl* |
| `MCTaskBase`, `TaskBase_proofs` | its instance and theorems | |
| `SendPath` | pool, ring and sender task of the IP adapter, over the queue `MsgQueue` | ip_adapter_base.cpp, SimpleList.h, adapter_mgr_impl.cpp |
| `MCSendPath`, `SendPath_proofs` | its instance and theorems | |
| `TimerMgr` | the timer list, its task, its clock and those who use it | OsalTimerMgr.cpp, OsalTimer.cpp |
| `MCTimerMgr`, `TimerMgr_proofs` | its instance and theorems | |
| `ClientStack` | the stack task of a client, with servers that answer it | MsgStack, ClientInteraction, MulticastClientInteraction, Exchange, InteractionStore, MessageIdProvider |
| `MCClientStack`, `ClientStack_proofs` | its workload and theorems | |
| `Blockwise` | one client and one server transferring bodies in blocks | ClientInteraction, ServerInteraction, BlockTransferStatus |
| `MCBlockwise`, `Blockwise_proofs` | its workload and theorems | |
| `CoapCodec` | a message written into a datagram and read back | coap_msg_codec.cpp, coap_options_set.cpp, coap_option.cpp, coap_block_option.cpp |
| `MCCoapCodec`, `CoapCodec_proofs` | its messages and theorems | |

`SendPath` composes the adapter with the queue, `TaskBase` the task with the
ring, `Blockwise` a client with a server. `ClientStack` and `ServerStack` are two
halves of one class: a device of the stack runs both in the same task, but their
stores are disjoint, and an empty message, the only one both look at, is tried
with the server's exchanges first. The models have a device that is one or the
other.

### ServerStack

The stack task is single threaded, so a handler is one step. `exchanges` and
`interactions` are the two lists of InteractionStore. The numbers of exchanges
grow as they are appended, so "the first that matches" is the smallest; an
interaction points to its current exchanges by number, `Null` being the null
pointer. `midCounter` is the id counter, wrapping at `MaxMid + 1` instead of
2^16. `slow` holds the one-shot timers of the slow test resource and of the
events they post; `beat` is the period of the heart beat. Absolute times are
countdowns, which is equivalent as the code only compares a time with now.

| action | code |
|---|---|
| `ReceiveRequest` | server_receive_request_msg when no exchange matches, down to the reply (`HandleWithin`: piggybacked, empty ACK, or none; `HandleSeparately`: a CON or NON of its own) |
| `ReceiveDuplicate` | the same when one matches: resend_reply |
| `RejectDatagram` | the early returns of HANDLE_STACK_EVENT_receive_endpoint_data that answer RST |
| `PeerAnswers` | receive_empty_msg for an ACK or an RST of any CON or NON the server sent, at any later time and any number of times |
| `SendSeparateResponse` | HANDLE_STACK_EVENT_send_server_response, with the answer that finds no interaction |
| `HeartBeat` | expiry, retransmission, and freeing of idle interactions, in that order |
| `DropEvent` | send_stack_event when the task lags and its queue is full: a late answer or a heart beat is dropped |
| `Tick` | time passes; unless `Punctual`, also while events wait in the queue |

The network is the peers' choice of what to send: a request may come any number
of times and at any time, and a lost message is one that is not received. `wire`
keeps every message sent: a set suffices, as peers react to a message, never to
how often they got it. `received` and `fresh` are history; `fresh` counts
down the lifetime of the record of a request.

How resources answer (`target`) covers the ends handle_fully_downloaded_request
has: no such resource, an error, a response with no type, CON or NON, and a late
answer. An error of a multicast request is not sent.

### PtrMsgQ and TaskBase

`PtrMsgQ` is the ring as it is, with the queue it stands for (`Contents`). It
is not locked; TaskBase calls it with its mutex held, so in `TaskBase` each
section under the mutex is one step, and what Run does without the mutex (test
of the stop bit, wait, handler) is a step each. `sem` counts to `SemMax`: on
FreeRTOS and Windows the semaphore is created with the capacity of the queue as
its limit, on Linux it practically never ends. `Joined` says whether callers
wait for a worker before the next Start. The code has `Wait()` for that, but its
callers stop and start without it, which the second run allows.

### SendPath

A message is an entry of the pool (`used`), and is with a sender (`hand`), in
the ring (`queue`), or with a worker (`cur`). The ring is an instance of
`MsgQueue`, which `PtrMsgQ` is proved to implement; sections under a mutex are
one step. Pool and ring are members of the adapter, and each start makes a new
task on them: `to_stop`, `sem` and `worker` are functions of the task, `task` is
the pointer sender_task_.

| action | code |
|---|---|
| `CheckSelected`, `Allocate`, `AllocateFails`, `Post`, `PostFails` | send_unicast_data of the manager and of the adapter, create_new_send_msg, SendMsg of the task |
| `Start` | start_sending_thread, guarded by AdapterManager::start_adapter |
| `Stop` | stop_adapter of both: the bit, then TaskBase::Stop |
| `Terminate` | terminate, with the Destroy that empties the ring |
| `TestStop`, `Wait`, `SkipStopped`, `TakeOldest`, `Deliver` | TaskBase::Run with SEND_TASK_handle_msg and SEND_TASK_delete_msg |

Post and the semaphore: `sem` has no limit here; that it never passes the
capacity, where FreeRTOS and Windows stop counting, is part of `TypeOK`, and
proved. `TakeOldest` has no branch for an empty ring, as the theorem
`PathCounts` shows there is a message. A sender that the check of the
selected bit has let pass is assumed to be done before the next start or
terminate: the code has no lock for this (see the hazards), and the
repository starts its adapter once.

### TimerMgr

`list` is _timers_list, `trigger` and `duration` are kept per timer, `mutex` is
the owner of the recursive _list_mutex, `sem` counts _queue_sem. `real` is the
time, in units of which the code's is a microsecond, and `now` and `prev` are the
clock the code keeps from a platform clock that wraps at `ClockRange`. The clock
has no lock: `stage` says for each task how far it is in update_now_time, and
each load and each store of it is a step.

| action | code |
|---|---|
| `Sample`, `Add`, `StoreNow`, `StorePrev` | update_now_time: read the platform clock, add the difference, store the time, store the sample |
| `InitializeNow`, `InitializePrev` | initialize, behind the start of the timer task |
| `get_system_time`, `ReturnTime` | OsalTimerMgr::get_system_time |
| `register_timer`, `Arm` | start: the mutex; the trigger time, the sorted list and the post |
| `SetDuration`, `reset_timer`, `Arm` | restart: the duration, before the mutex; the look-up; the rest of it |
| `unregister_timer` | stop, and the destructor |
| `trigger_timers`, `CallbackReturns` | the first timer when it is due, up to its callback; what follows it |
| `NothingDue`, `ReadSize`, `WaitEnds` | the rest of the task loop |
| `Tick` | time passes |

A callback may start, stop and restart timers: the timer task then makes the
calls with the mutex it already has. Time passes only while the timer task waits
and nobody holds the mutex: what the tasks themselves do takes no time that
counts against a second. A store of 64 bits is one step, as on a processor of
64 bits. A post that finds the semaphore at its limit is ignored, as in
the code. The wait of the task loop looks for the next timer once in a second
when there are timers, and not after the time that is left: a timer may be as
much as `WaitSome` late. `Forget` clears the times of a timer that is not in the
list, which nobody reads, to have fewer states.

### ClientStack

The client's half of MsgStack, in the way of `ServerStack`: `exchanges`,
`interactions` and `multicasts` are three lists of the store, an interaction is
known by its place, an exchange by its number.

| action | code |
|---|---|
| `SendUnicast`, `SendMulticast` | HANDLE_STACK_EVENT_send_client_request, ClientInteraction::send_request, MulticastClientInteraction |
| `ReceiveResponse` | client_receive_response_msg and ClientInteraction::receive_response when no exchange matches |
| `ReceiveDuplicate` | the same when one matches |
| `ReceiveEmpty` | receive_empty_msg for an ACK or an RST |
| `PeerAcknowledges`, `PeerAnswers` | external: the servers |

A server answers a request it has received once: with an ACK that carries the
response, with an empty ACK and a response later, with a response of its own, or
with an RST. `answers` keeps what was sent, and any of it may be received any
number of times and in any order, or never. A client never repeats a request and
never gives one up: add_client_exchange sets an expiry nobody looks at, as the
heart beat runs over the exchanges of the server only. So there is no action
for time. A response in an ACK or a NON has no deduplication: each
repetition is notified again, which `NotifiedOnce` leaves out.

### Blockwise

One interaction on each side and one request. `client` and `server` hold the two
BlockTransferStatus each of them has; a server also keeps the response, and the
last request's id and reply, for its repetition. The content of a body is the
sequence of its units, so that a unit lost, repeated or out of place shows, and
a response is marked with the version of the resource it was made from. Offsets
are cut to `Width`, 2^16 in the code.

| action | code |
|---|---|
| `SendRequest` | send_request of the client: whole, or the first block |
| `ClientReceives` | receive_response, with client_handle_block1_transfer and client_handle_block2_transfer |
| `ServerReceives` | server_receive_request_msg and receive_request: a repetition, handle_request_download, get_next_res_block, handle_fully_downloaded_request |
| `Expire` | the heart beat frees the interaction and what it collected |
| `Lose`, `Change` | external: the network; another user of the resource |

PREFERRED_BLOCK_SIZE depends on the build, so that a client may have larger
blocks than its server: that is when the size has to be negotiated. Sizes are
lengths here; their three bits are in the codec.

### CoapCodec

`pdu` is the buffer the sender writes and the receiver reads; `left` are the
options not written yet, `got` is what has been read so far. One action is one
round of the option loop on either side.

| action | code |
|---|---|
| `Send`, `EncodeOption`, `EncodePayload` | encode_coap_msg and encode_empty_coap_msg: header and token; each option of get_sorted_options_list; the payload |
| `Refuse` | parse_coap_header and the early returns of HANDLE_STACK_EVENT_receive_endpoint_data |
| `Accept`, `DecodeOption`, `DecodePayload` | decode_coap_msg: header and token; each round of decode_coap_options; the payload |

A message is a record with the values of its options. Conversions are what they do:
`IntegerBytes` against `IntegerValue`, `BlockBytes` against `BlockValue`,
`Nibble` and `Extension` against `FieldValue`. A byte the decoder reads behind
the datagram is any of `PastEnd`.

## 3. Runs

All runs take seconds to about a minute. `CHECK_DEADLOCK FALSE` is used where the
system may stop: a server or a client whose bound on exchanges is used up, a task
that nobody calls, a clock at its bound, a transfer that is over. The codec is checked
for deadlock.

| run | question | answer |
|---|---|---|
| `MCServerStack_store` | do lists, pointers and counts agree, and do replies belong to requests, when ids and tokens collide, ids come again while they are in use, and the stack task lags and drops events? | yes (505 000 states) |
| `MCServerStack_dedup` | with errors, multicast and rejected datagrams among the rest: is a repeated request handled once, a new one always, is the interaction of a late answer kept, are two exchanges enough, when ids and tokens do not collide and the task is punctual? | yes |
| `MCServerStack_drain` | is everything freed in the end when no CON response is left unacknowledged? | yes |
| `MCServerStack_timeout` | ... and when one is left so? | no: finding 1 |
| `MCTaskBase` | is the ring a FIFO queue, and are messages handled once, in order and in the end, over stops, restarts and destroy? | yes |
| `MCTaskBase_two` | is each message handled or deleted once, and none forgotten, when a restart does not join the old worker? | yes |
| `MCSendPath` | over a restart and a terminate: is each message at one place, how many are lost, which wait without a post, are the others sent? | each is; one; those left from before the start; yes (37 000 states) |
| `MCTimerMgr` | is the list in order, a stopped timer quiet, and does a timer fire in its time, while a callback and a thread use timers, the clock wraps, and updates of it overlap? | yes; in its time unless updates overlapped (1 700 000 states) |
| `MCClientStack` | do pointers and counts agree, and does each callback hear of its own responses, when they are repeated and reordered? | yes (600 000 states) |
| `MCBlockwise` | does a body arrive whole or not at all, is a response whole and of one version, does an undisturbed transfer end? | yes (110 000 states) |
| `MCCoapCodec` | is what is handled what was sent, at every limit of the fields and values? | yes (8 200 states) |
| `MCCoapCodec_long` | ... and with a field of 16 bits? | no: finding 8 |

### Findings

1. A confirmable response nobody acknowledges is never removed: the count stops
   at 4 (Exchange.cpp:129), the time-out asks for more than 4 (Exchange.h:34).
   Run `MCServerStack_timeout`.
2. An ACK is matched with the oldest exchange of its id, also a received one
   (MsgStack.cpp:405), though the comment above it wants the one sent.
   `MCServerStack_dedup` with `Requests <- CollidingRequests`, `HandledOnce`.
3. A new request is matched with exchanges the server started (MsgStack.cpp:462)
   and dropped as a duplicate. `CrossingRequests`, `EveryRequestHandled`.
4. A new request on a token erases the record of the one before
   (ServerInteraction.cpp:115), whose repetition is then handled again.
   `RepeatedTokenRequests`, `HandledOnce`.
5. A second late answer does not replace the first one's exchange
   (ServerInteraction.cpp:508); the class promises two exchanges.
   `RepeatedSlowRequests`, `AtMostTwoExchanges`.
6. A 2.31 that arrives twice moves the client on by two blocks, at the end beyond
   the body (ClientInteraction.cpp:286), where the length of the block is
   negative. `NoOverrun` says that this needs a message received twice; without
   its condition on `faults.repeat` TLC shows the run to it.
7. A response to a multicast is given to any interaction of its endpoint
   (MsgStack.cpp:505), also to a request of its own. `MCClientStack` with
   `Members <- MCAllMembers`, `RightCallback`.
8. A field of 16 bits is read as one byte twice (coap_msg_codec.cpp:336): an
   option is not read under its number. Run `MCCoapCodec_long`.
9. A message refused for its format is answered by an RST whose id is 0
   (MsgStack.cpp:241), as the id is read after the checks. Read in the code;
   `RejectDatagram` of `ServerStack` has it so.

### Bounds

* Two peers, two tokens, and two to four distinct requests, each of which may
  arrive any number of times: enough for a request to meet another of its token,
  of its id on another endpoint, and the server's own ids.
* Ids are 0..7 and the counter starts at 4, which is among the peers' ids in the
  runs about colliding ids and apart from them in the others. The store run has the
  ids 0..5: the counter passes 5, wraps and is drawn to be 4 again, while the
  exchange of the first 4 may still be there.
* A tick is five seconds: lifetime and heart beat (10 s) are 2, the slow
  resource (5 s) is 1, the first retransmission time-out (2 to 3 s) is rounded
  up to 1. The heart beat acts on expiries with a delay of up to its period,
  as in the code.
* `MaxExchange` stops new requests after 2 to 6 exchanges: enough for a request,
  its answer, a second one on the same token and its answer, and a repetition of
  the first.
* `MaxRetransmit` is the code's 4 in the runs that find something, 1 or 2 in
  the others, where only its order matters.
* The ring has 3 or 4 slots, so that full, empty and wrap-around all occur with
  four messages; `Msg` has one message more than the ring holds.

* The pool and the ring have 3 entries, so the ring holds 2: two senders and a
  worker suffice to fill both and to have a post refused. Two starts give a task
  on a ring that is not empty while the old worker still sends. `MaxStarts`
  only bounds the number of tasks.

* Timers: the platform clock wraps at 5, the manager starts at 4 and the
  model ends at 7, so that the clock wraps while timers run. A wait is 1 with
  timers and 2 without; the semaphore holds one post, which makes a second one
  fail. One periodic and one one-shot timer, of durations 1 and 2, are used by a
  thread and by callbacks. Updates of the clock overlap in one period of a
  behaviour only (in the guard of `Sample` and `InitializeNow`).
* The client's ids are 2 to 4 before they wrap to those of the peers (0 and 1).
  Two requests go to one server, one to a group of two others; five exchanges are
  a response, its repetition and a new interaction for each of the group.
* Blocks are 4 units of the client and 2 of the server, a message takes 3, a body
  of the resource 5: three blocks after a change of size, or one that is too
  long. Offsets wrap at 10, in a response of 9 units. Two messages are
  repeated, one is lost, one interaction is forgotten, and the resource changes
  once: a transfer has six to eight messages, any of which may be the one.
* Options have lengths on both sides of 13, and the longest a field of one byte
  has (268); integers and block numbers are at the limits of their bytes; options
  are alone or many, segments up to three. A payload is 255, the marker, or ends
  with it. `LongMessages` has what a field of 16 bits is for.

### Fairness

* `ServerStack!FairSpec`: ticks, heart beats and late answers go on. The timer
  task and the stack task loop for ever and the heart beat timer is periodic.
  Nothing is assumed of the network or of the peers.
* `TaskBase!FairTaskSpec`: a worker that can run does. No caller has to send,
  start or stop.
* `SendPath!FairSpec`: the same, and a sender that has begun goes on.
* `Blockwise!FairSpec`: the application sends, and both stack tasks take the
  messages that reach them. Of the network nothing is assumed; `TransferEnds`
  speaks of transfers nothing has disturbed.
* `CoapCodec!FairSpec`: encoder and decoder run to the end. Nobody has to send.

## 4. Proofs

Each is a theorem for every value of the constants, under the assumptions named
in the modules (`ServerStackAssumption`, `NoMsgAssumption`, `RingAssumption`,
`TaskAssumption`, `SendPathAssumption`, `TimerAssumption`, `CodecAssumption`,
`ClientAssumption`, `BlockwiseAssumption`), which the runs evaluate. Every safety
invariant and every action property the passing runs check is proved. Some hold
for suitable workloads only; their theorems name the condition as a hypothesis,
and the paragraph "Hypotheses" below says what it is in the code.

* `StackTypeSafe`, `StackStoreConsistent`, `StackRepliesAnswer`
  (`ServerStack_proofs`). The inductive invariant `StackInv` adds to the three
  properties that numbers of exchanges are below the next one and finite in
  number (for the count of an interaction to be its cardinality), that a local
  exchange holds a message that was sent (for a retransmission to answer
  somebody), and that a slow timer belongs to a request that was received (for
  its late answer). Its core are four lemmas about the store (`StoreCreate`,
  `StoreAdd`, `StoreDelete`, `StoreExpire`); each action is one of them or two.
* `StackEveryRequestHandled`, `StackHandledOnce`, `StackSlowRequestKept`,
  `StackAtMostTwoExchanges`: how long the record of a request lives. `DedupInv`
  says that an exchange is that of a request or of a message of the server, that
  a request within its lifetime has the exchange that recognises its repetition,
  with an expiry that is not sooner, and that an interaction with a slow timer
  has an exchange that expires after the timer does. The exchange of a request
  could go with an ACK or RST for a message of the same id (`IdsApart`), or with
  a new request on its token (`FreshTokens`): these are findings 2 to 4, and the
  proof shows that there is no other way.
* `RingSafe`, `RingIsQueue` (`PtrMsgQ_proofs`): `Enqueue` appends to `Contents`,
  `Dequeue` takes its head, for a ring of any length: the step simulation of
  the refinement.
* `TaskTypeSafe`, `TaskIsQueue` (`TaskBase_proofs`) for any number of workers
  at once; `TaskLosesNoWakeup` and `TaskKeepsOrder` when callers join. The
  strengthening says where a worker can be: at most one is active, and none
  before Init; it owes the message of the post it has consumed. `TaskConserves`
  needs no assumption on callers: a message is at one place (`AtOnePlace`), and
  the places together are as many as the messages accepted (`PlacesConserve`).

* `PathTypeSafe`, `PathLosesOne`, `PathCounts`, `PathGivesBack`
  (`SendPath_proofs`) for any capacity, senders and number of starts, under
  `SendPathAssumption`. `PathInv` adds to the properties where control can be
  (`Control`), that a message is allocated exactly when it is at a place, and at
  one (`Apart`, `Placed`), and what a semaphore counts (`Counts`), stopped or
  not. That one message is lost at most is a count: a full ring and the message
  refused are the whole pool (`FullRingHoldsRest`), so nothing was lost before.
  `PathConservesSlots` adds the places up (`PlacesCount`).

* `TimerTypeSafe`, `TimerListInOrder`, `TimerStopIsFinal` (`TimerMgr_proofs`) for
  any timers, threads, durations and range of the clock. `TimerInv` adds who has
  the mutex and why (`Control`), that no timer is in the list twice, that the list
  is in order but while a periodic timer calls back (`InOrder`: it has its new time
  already and is sorted when the callback returns), and that a start under way
  is of a timer that is neither in the list nor stopped (`Starting`). The lemmas
  are about std::sort and about the list without a timer.
* `TimerNotEarly`, `TimerNotLate`: firing in time, while no two tasks update the
  clock at once. `TimeInv` says that the clock is behind the time by a constant
  K (`ClockOK`: a timer in the list is due K after its trigger time), that what
  a task is about to store is K behind the time of its sample (`Taken`), and
  how old the last sample may be (`Fresh`): exact while the timer task is at work,
  and less than a period of the platform's clock when its wait ends, so that the
  difference in 32 bits is the true one (`Wrapped`). Of the list it says that
  nothing in it was due when the wait began (`Late`), as the first timer was not
  and the list is in order, and that a start during the wait posts the semaphore.
  Before initialize has set the clock (`Boot`) there are no timers. The
  assumptions are that the waits of the loop, 1 and 10 seconds, are shorter than
  the period of the clock, 71 minutes, and that the semaphore counts at all.
* `ClientTypeSafe`, `ClientStoreConsistent` (`ClientStack_proofs`) for any servers,
  requests, tokens and range of ids. `ClientInv` is `StoreConsistent` and the
  types, written as a predicate of the two lists and the next number (`Store`), so
  that what an action does to the lists is said by lemmas (`StoreCreate`,
  `StoreReplace`, `StoreDelete`, `StoreAdd`), one to three for each action. The
  interaction a response is told to exists by `PlaceFound`: the one it is found in
  is a place of the list.
* `ClientResponsesHeard`, `ClientRightCallback`, `ClientNotifiedOnce`: the
  callbacks. `CallbackInv` says what is under way (`TrafficOK`: a response answers
  a request that was sent with its token, and has an id of its own) and what was
  told (`ToldOK`): a confirmable response that was told has its exchange, which no
  later response, ACK or RST deletes while ids are apart.
* `TransferTypes`, `TransferBodyIntact`, `TransferResponseIntact`,
  `TransferNoOverrun` (`Blockwise_proofs`) for any sizes of blocks, messages,
  bodies and offsets, any number of losses, repetitions and expiries.
  `TransferInv` has three parts. `DataInv`: every message under way carries the
  units its block names, what either side has collected is a prefix of the body
  or of the response, and a block of a response is asked for only when there is
  one; with it a body is given to the resource only when it is whole. `NotifiedOK`: the
  callback's response has every unit. `QuietInv`: as long as nothing was repeated,
  one message is under way, in step with the last block of the client, and all
  blocks of a response come from the one the server keeps; hence one version, and
  no offset beyond the end. The assumption is that a block is shorter than
  the width of an offset, 256 against 2^16 (StackConfig.h:23).
* `CodecTypeSafe`, `DecodesWhatWasSent` (`CoapCodec_proofs`) for any messages,
  with any number of options and segments; the second assumes `ShortMessages`,
  that no delta and no segment needs a field of 16 bits, without which it does not
  hold (finding 8); `MCShort` shows that the messages of the run satisfy it. The
  lemmas `IntegerRoundTrip`, `BlockRoundTrip` and `ValueRoundTrip` say that the
  reading of a value undoes its writing; `OptionRead` that one round of the decoder
  at the place where the encoder wrote an option steps over exactly that option.
  The invariant cuts the datagram into what each round of the encoder wrote: a
  chain of offsets, each with the last number and the options written so far.
  While the message is written the chain grows, and the decoder is always at one
  of its cuts, with the options of that cut. No induction over the datagram is
  needed: the behaviour is the induction.

With two workers a wakeup can be lost for good: a worker that finds the stop bit
set consumes the post of a message. That is why `NoLostWakeup` has the assumption
`Joined`.

Hypotheses. They are about peers and applications, not about the stack, except for
the last:

* `DistinctIds` (server): a peer gives each of its requests an id of its own, as
  RFC 7252 asks within the lifetime of an exchange; the code finds exchanges by
  peer and id.
* `FreshTokens` (server): and a token of its own; the code finds interactions by
  peer and token.
* `IdsApart` (server): no message of the server has the id of a request to come from
  the device it is sent to. (client): no response of a server's own has the id of a
  request the server got. The two ids are drawn by two devices, so this is
  likely, not certain; findings 2 and 3 are what happens otherwise. It is a
  condition on the behaviour so far, in the theorem and not in the model.
* `Separate` (client): a group is asked one thing, and its members nothing of their
  own (finding 7).
* `SlowConfirmable` (server): requests for slow resources are confirmable.
* `InTime` (server): the slow resource, 5 seconds, answers within the lifetime of
  an exchange, 10 seconds, and events are handled when they come.

The constants of `MCServerStack_dedup` and `MCClientStack` satisfy these, and the
behaviours of these runs `IdsApart`, so the runs check the properties without the
hypotheses in front of them.

Only model-checked: all liveness (`ExchangesRemoved`, `InteractionsRemoved`,
`AcceptedIsHandled`, `StoppedWorkerExits`, `SentInTheEnd`, `TransferEnds`,
`HandledEventually`), which is beyond this prover.

## 5. Not modelled

* In the server: observe (the code has none that runs), the memory of an event
  that is dropped, what a resource does with a message of which only a part was decoded.
* In the task: a port_create_task that fails, a SendMsg that races Destroy, the
  use of the freed mutex by a worker that was not joined.
* In the send path: a start that fails (the sender task pointer is then null), a
  sender that overlaps a restart, the choice of the socket.
* In the timer manager: a callback that frees its own timer, a failing initialize,
  two halves of a 64-bit store on a processor of 32 bits.
* In the client: two requests with one token, which eight random bytes make
  unlikely; servers that answer twice with two ids.
* In blockwise transfers: slow and failing resources, a request that begins with a
  Block2 option of its own, a second request on the token, and the 4.08 that a
  server of another make may send.
* In the codec: the first pass over the options (parse_coap_options), whose
  status is ignored and whose results nobody reads; the limit of 2048 bytes on a
  payload, which a receive buffer of 1400 never reaches; strings of paths and
  queries; datagrams of other encoders, of which `Refused` has those the header
  refuses.
* The life cycle of adapters and servers: one call after the other, whose
  failures leave flags that do not agree (four hazards). It is the next to model.
* CBOR, resources and security resources are sequential handling of data; DTLS is
  in mbedTLS; ports, memory and base are I/O and value types; `ocfstack` and
  `code/coap` are older versions of what is modelled.

## 6. Plan

In order of importance, what is left.

1. `AdapterLifecycle`: adapters, servers and their sockets when a step fails.
2. The queue of the stack task as a ring of its own (`DropEvent` now may drop
   whenever the task lags), and liveness with a task that lags.
3. Abstract specifications of the two stores, and the refinement as a theorem:
   a request handled once in its lifetime, a callback told once.
4. The heads of CBOR items, as operators against a reference definition; the
   provisioning state of the security resources.
