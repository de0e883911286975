# TLA+ models of Edukit-MW

Edukit-MW is a multi-channel video recorder middleware for a TI multi-core
SoC: a Linux host, two Cortex-M3 firmwares (VPSS: capture, scaling,
de-interlacing, display; video: encode, decode) and a DSP firmware. Its
backbone is the *link*: a task with a mailbox, which takes full frames from
the previous link, works on them, offers them to the next link and hands them
back when that link is done. What has to be right is the circulation: every
frame, message and semaphore token is in one place, nobody sleeps beside
work, and everything goes home. Little of that shows up in a test, because
the tasks interleave anywhere between two interrupt-disabled sections. This
directory models that backbone, checks it with TLC and proves, with TLAPS, the
safety of the queue, the mailboxes, the dup, select and encoder links, the
messages between cores and the lists to the host.

Paths below are relative to `src/mcfw/`; `bios6` stands for `src_bios6`.

## Inventory

| Component | State | Operations | Hard behaviour | What makes it correct | Status |
|---|---|---|---|---|---|
| Blocking queue, `bios6/utils/src/utils_que.c` | ring, two counting semaphores, `blockedOn*`, `forceUnblock*` flags | put, get (with minCount and timeout), unblock, reset | ring changed with interrupts off, semaphores and flags outside | bounded FIFO; no lost wake-up (on a forced queue: with at most two tasks a side); a forced unblock is consumed | modelled, proved |
| Mailboxes and link tasks, `utils_mbx.c`, `utils_tsk.c`, `links_common/system/system_linkApi_local.c` | message pool, receive queues, shared acknowledge queues | send with or without ack, receive, ack or free, flush, wait for a command, exit | senders compete for few ack queues; the message is its own ack | each message has one holder; acks reach their caller; calls return; the pool refills | modelled, proved |
| Dup link, `links_common/dup` | reference count in each original, pool of duplicates per output | process, get full, put empty | count set without the lock, counted down under it by other tasks; original goes home before its duplicates | count = loans; pool lasts; frames go home | modelled, proved |
| Select link, `links_common/select` | routing table, last command per queue, sizes | process, two routing commands, get full, put empty | rerouting with frames of the old routing in flight | channel restored; sizes known; reported routing = actual | modelled, proved |
| Encoder link, `links_m3video/iva_enc` | request objects, a queue per channel and per accelerator, buffers of the output | new data, finished requests, stop, delete; a process task per accelerator | three contexts; drops on lack of buffers or room; stop waits for all requests; a wake-up that reaches only a sleeper | requests, buffers, frames conserved; a channel encoded once at a time and in order; stop and delete end | modelled, proved |
| Decoder link, `links_m3video/iva_dec` | as the encoder, and reference counts, duplicates, one flag "tell me of a free frame", frames set aside for channels to be opened | new data, finished requests, open and close a channel, frames given back by the next link | the codec keeps frames it has shown; the flag is shared by three tasks without a lock; a channel closed and opened with frames out; commands that cannot be sent | counts = holders; a starving channel is told; assertions on closing and opening; buffers and commands come back unless a command is lost | partly |
| Cross-processor messages, `links_common/system/system_ipc_msgq.c`, `src_linux/links/system` | shared heap, two queues and a lock per core | send with or without waiting, message task, callbacks of the host | cores waiting for each other without a timeout; the message is its own reply; parameters inside the message | reply belongs to request; messages have one holder; parameters outlive their use; one message per core is waited for; no cycle of waiting unless an acknowledge is lost | partly, proved |
| IPC bits links, `links_common/ipcBitsOut`, `src_linux/links/ipcBitsIn` | two lists in shared memory, element states, a clock and a polling thread | process, release, poll, get, put | two cores; an unlocked counter; polling or notification | elements conserved and both cores agree on them; order; buffers go home | modelled, proved |
| Merge link, `links_common/merge` | static channel maps | process, put empty | relies on later links restoring the channel | frame returned to its own input queue | not modelled |
| IPC frames links | as the bits links | | same list protocol | | not modelled |
| Null, null source links | none to speak of | | | | not modelled |
| VPSS links (capture, display, dei, nsf, sclr, swMs, grpx, avsync) | driver queues | | the FVID2 drivers are not in the repository | | not modelled |
| DSP algorithm links | | | same protocol as above | | not modelled |
| Host OSA library, `src_linux/osa` | pthread queues, mailboxes, buffers | | counterpart of Utils | | not modelled |
| Host links, API; devices; kernel modules; algorithms; configuration; start-up | | | I/O, data processing, set-up sequences | | not modelled |

Links interact by calls through function tables (`System_getLinksFullFrames`,
`System_putLinksEmptyFrames` run *in the caller's task* on the callee's
queues) and by commands (`System_sendLinkCmd`, `System_linkControl`), which
travel through mailboxes. Queues lie below both. `PROJECT.json` lists the
hazards of this code, line by line, with the properties that watch them.

## Modules

```
BoundedFifo  <-- refined by --  UtilsQue    <-- proved in -- UtilsQueProofs
                                UtilsMbx    <-- proved in -- UtilsMbxProofs
                                            (uses a queue as one step: UtilsQue's result)
FrameLoan    <-- refined by --  DupLink     <-- proved in -- DupLinkProofs
             <-- refined by --  IpcBits     <-- proved in -- IpcBitsProofs
                                            (both cores, the way out and back)
                                SelectLink  <-- proved in -- SelectLinkProofs
                                IpcMsgQ     <-- proved in -- IpcMsgQProofs
                                            (uses mailboxes as bounded queues)
                                EncLink     <-- proved in -- EncLinkProofs
                                            (uses UtilsQue's unblock as one step)
                                DecLink
QueueLemmas  lists, and things that are in one place: used by all proofs but UtilsQue's
MC*          instances of the above for TLC
```

**UtilsQue.** One program counter per task. `PutElem` and `GetElem` are the
interrupt-disabled sections; `Post`, `SetBlocked`, `Pend`, `ClearBlocked`,
`TestForce` and `GiveUp` are the steps outside them, in the order of the code, so
any other task may come between; the force flag in particular is tested and
cleared in two steps, as in the code (342 and 344). A semaphore is a count and a set of waiters:
posting either raises the count or releases some waiter. `Expire` is a finite
timeout. The get side and the put side are the same code with the roles
swapped and share the actions. `UnBlock` and `Reset` are single steps: the
first runs with interrupts and the scheduler off, the second with interrupts
off. Data are two pointers. `IsBoundedFifo` maps the ring to the
sequence from `curRd`.

**UtilsMbx.** A caller's steps are those of `Utils_mbxSendMsg` and
`Utils_mbxSendCmd`; a server's those of `Utils_tskMain`, `Utils_mbxAckOrFreeMsg`,
`Utils_tskFlushMsg` and `Utils_mbxWaitCmd`. Commands are reduced to what the
transport distinguishes: exit, notifications that handlers flush or wait for,
and the rest. Queue operations are atomic steps: UtilsQue and BoundedFifo are
the justification.

**DupLink.** The link task (`DupLink_drvProcessFrames`) makes one duplicate a
step, without the lock; each next link fetches, counts down and gives back
under it. A duplicate is identified by its original, so "duplicate of f in the
hands of output o" is a set membership. `FrameLoan` is the promise to the
previous link: a frame is lent to all outputs at once and returns only after
each has given it back.

**SelectLink.** The routing table, the channel number a frame carries at each
point of its way, and the announcements of picture sizes (`rtChInfo`), against
which each next link's belief (`view`) is compared. The previous and the next
links are environment: they produce frames, change sizes, fetch what they are
notified of and return it. The link's lock is left out: it wraps single queue
operations.

**EncLink.** The link task's handlers are split where another task can see the
difference: per channel and turn while it submits, per finished request while
it collects. A process task's steps are its wait in `Utils_queGet` (which a
forced unblock reaches only while it sleeps), the preparation of a batch and its
end. The process tasks have a higher priority than the link task; `LinkMayRun`
says so, and the mutant without it breaks `CommandsReturn`: the code
reads `state` and unblocks without a lock. Requests and buffers are counted
where nothing tells them apart; a request in use is the list of the frames it carries. Errors of the codec are outcomes
like others, because the code only prints them.

**DecLink.** The circulation is the encoder's; what is new is that a frame has
several holders. The codec is a set of frames it holds and a bound on what it
may keep; each call frees any part of them and shows one or none.
`Release` is `DecLink_codecFreeProcessedFrames`: it is part of the process
task's, the link task's and the next link's steps. The flag
`newDataProcessOnFrameFree` is tested and set in steps of its own in the link
task, and cleared in a step of its own after the notification. A channel
is closed by a mark on its frames and a dummy request that passes the
process task behind the real ones; only then is the sender answered.
A command to the link task needs a message of the core's pool and a place in
the mailbox, and may always fail to be sent (`Sent`), because other links draw on
the same pool. `refused` remembers a command that could not be sent, until one
of its kind is. `leaked` counts the messages of the pool that nobody
will free: each `LATE_ACK` (`decLink_tsk.c:130`) is one. The periodic
command of the clock is not kept in the mailbox: it may come between any two
others when there is room for it.

**IpcMsgQ.** Senders of any core, a message task per core that hands commands
to the links' mailboxes and returns the message as its own acknowledge, links
that may send while they handle. `Handles` says which commands a link sends
for which; the instances take it from the links in the repository. `PrmIsLive`
follows the parameters, which are in the message, from the sender to their
reader. `MessageQ_put` may fail for the command (`PutFails`) and for its
acknowledge (`ReplyFails`): then the message is freed and its sender stays in
`MessageQ_get` with its core's lock for ever, at the point the model calls "lost".

**IpcBits.** The M3 side (a task, a clock, an interrupt callback), the host side
(a polling thread and a link task of the same real-time priority) and the
application's get and put, over two bounded lists of elements. `FrameLoan`
is again the promise to the encoder: a buffer handed over returns once, after the
application gave it back.

## Runs

| Run | Instance | Shows |
|---|---|---|
| `queue_many` | 2 getters, 2 putters, 5 calls, timeouts, unblocks | `NoLostWakeup`, `TokensCover`, `ForceHasTarget`, types |
| `queue_pair` | 1 getter, 1 putter, resets while idle, fair | `UnBlockSeesWaiters`, refinement of `BoundedFifo`, `SleeperServed`, `ForceConsumed` |
| `mailbox` | 2 callers, 2 servers, 2 messages, 1 ack queue, one-place mailboxes, exits and waiting handlers, fair | `MessagesOK`, `AckIsExpected`, `CallReturns`, `PoolRefills` |
| `dup` | 2 frames, 2 outputs, lists of 2, one output flushing, fair | `CountsOK`, `PoolLasts`, refinement of `FrameLoan`, `FramesGoHome` |
| `select_remap` | 2 channels, 2 outputs, 2 frames, 2 sizes, routing command 2 | `ChannelRestored`, `SizeIsKnown`, `RoutingOK` |
| `select_home` | 1 output of up to 2 channels, both commands, fair | `FramesGoHome` |
| `select_stale` | sizes change while rerouting | violation of `SizeIsKnown` |
| `enc` | 3 frames, 2 channels on one IVAHD, 3 requests and buffers, stop or delete at any moment, fair | `Conserved`, `ChannelEncodedOnce`, `NothingLeftInCodec`, `InOrder`, `FramesGoHome`, `CommandsReturn` |
| `dec` | 1 channel with 2 of 4 frames, 1 bit buffer, closed, opened once more and closed; 2 places in the mailbox, 2 messages, commands that are lost; fair | `FramesOK`, `StarvedIsFlagged`, `AssertionsHold`, `Returns` |
| `ipc_msgq` | 3 cores, 2 applications, 3 links that send to each other, 4 messages, sends and acknowledges that fail, fair | `MessagesOK`, `AckIsOwn`, `PrmIsLive`, `OneWaitedPerCore`, `CallsReturn` |
| `ipc_event` | an event with parameters that is not waited for | violation of `PrmIsLive` |
| `ipc_bits` | 2 buffers, 2 elements, lists of 1, polled and notified, fair | `ListsOK`, `PendingIsQueued`, `InOrder`, refinement of `FrameLoan`, `BufsGoHome` |

Type invariants are the first part of `MessagesOK`, `CountsOK`, `RoutingOK`,
`Conserved`, `FramesOK` and `ListsOK`.

*Bounds.* Every constant marked "bound" in a module is one. The queue has two
tasks a side, so that one can overtake the other, on a ring that is
both full and empty within the calls allowed; what a third task changes is under
*Limits* below. The mailbox has more callers than
ack queues and more messages under way than room, so every wait and every early
return of the code occurs. Two frames suffice for the select link's hazards,
which are about an old and a new routing. Two do for the dup link too: one is
lent again while the duplicates of its last loan are still out. `PoolSize`, the
duplicates of one output, is twice the previous link's frames; with one less
`PoolLasts` fails. The code's pool is `SYSTEM_LINK_FRAMES_PER_CH` times 64
channels, so the assertion is safe as long as the previous link has at most
half as many frames: 32 channels with 6 frames each still are; more frames than
that rely on the next links not being overtaken between giving an original home
and returning its duplicates.

The encoder's two channels share an accelerator and three frames: one more than
a queue of two places and one channel's batch, so that frames wait, are dropped
for lack of room or buffer, and share a batch. The decoder's one channel has
exactly what its hazards need: a frame in the codec, one shown and none left,
so that the next bit buffer starves; twice the frames of an opening, as in the
code. Its requests outnumber its bit buffers, as they do in the code. Its mailbox of two
places (1024 in the code) lets `NEW_DATA` wait in front of and behind the other
commands; its pool of two messages (10240) is what closing a channel takes, the
application's command and `LATE_ACK`. After one closing has leaked a message the
next cannot be answered, so the run shows the exhausted pool as well as, before
it, both answers to the first closing and to the opening. A second
channel, which would share the flag, exceeds three million states and was
not checked. The messages' heap has one message for each core, whose lock a
task that waits holds, and one for a notification. `MaxNews` bounds the
notifications under way, which nothing in the code does: without it the run
would meet an empty heap, where the code asserts. No property states
that the heap lasts, and no theorem rests on `MaxNews`. Mailboxes of one place make
message tasks wait. The lists between the
cores have one place for two buffers.

*Deadlock* is checked except in `mailbox`, where the calls end and callers of
an exited task wait for ever, as they do in the code; in `enc`, which ends
with the link deleted; and in `ipc_msgq` and `dec`, where a lost acknowledge or
`LATE_ACK` leaves a task waiting for ever with a lock that everybody else needs.
`CallsReturn` and `Returns` say that nothing else has this effect.

*Fairness.* A ready task eventually runs: weak fairness of the steps of a task
(SYS/BIOS schedules by priority and all tasks modelled block between
messages). Calls, commands, resizing, timeouts and resets are never fair. Next
links fetch what they are notified of and return what they hold; this is what
each link in the repository does. Strong fairness is used where a task is ready
again and again but others come first:

* DupLink: the lock may be taken whenever a next link tries, and
  `Semaphore_post` serves waiters in turn. `FramesGoHome` also assumes that the
  previous link goes on sending: a next link that flushes several `NEW_DATA`
  into one and takes at most `FVID2_MAX_FVID_FRAME_PTR` frames leaves the rest
  until the next one.
* SelectLink: routing commands compete with `TaskStep` for the task's mailbox,
  which is a FIFO.
* EncLink, DecLink: the link task has the lowest priority and runs when the
  others sleep, which they do again and again; the clock (`Tick`,
  `GetProcessedData`) is periodic. In DecLink the previous link need not send
  anything more, and the next link returns frames of every channel. The process task
and the next link's share one condition: neither can go on for long without the other.
* IpcMsgQ: `Semaphore_pend` on `msgQLock` and a full mailbox serve those that wait in turn.
* IpcBits: the host's link task competes with the polling thread, the
  notification with both.

The mailbox's liveness is conditional on `Serving`: no task exits for ever
before its mailbox, and no handler waits for ever for its one command. `CallsReturn`
of IpcMsgQ is conditional on no acknowledge's being lost (`AckLost`), `Returns` of
DecLink on no command's being lost. The codec returns from every call.

## What the violations say

* `select_stale`: a size announced while its channel is unrouted is dropped with
  the frame; on routing the channel again its first frame is stamped with the
  outdated size.
* `ipc_event`: the decoder sends its error event without waiting
  (`decLink_h264.c:367`), and the host's message task frees the message when it
  has put a pointer to its parameters into the system link's mailbox: the
  application's callback reads a freed message.

Limits that are stated as assumptions rather than runs:

* With two getters, the first to wake clears `blockedOnGet`, and
  `Utils_queUnBlock` overlooks the other, so `UnBlockSeesWaiters` is checked and
  proved for one getter and one putter. With getters of different minCount, one may absorb
  the token of an element it cannot use, so `NoLostWakeup` is claimed for
  minCount 1. All queues in `src_bios6` are used within both.
* On a queue that `Utils_queUnBlock` forces, `NoLostWakeup` and `TokensCover` hold for at
  most two getters and two putters. With three, a getter that was woken by a put
  may read the force flag meant for another before that one clears it:
  both return an error and the third sleeps beside the element. The code
  unblocks only the codec links' `processQue`, where one task waits for elements, and
  `processDoneQue`, where nobody waits (`BIOS_NO_WAIT` on both sides).
* A failed `MessageQ_put` of an acknowledge (`system_ipc_msgq.c:384`) is not told to
  anyone: the sender waits for ever and its core can send nothing more
  that has to be acknowledged. `CallsReturn` excepts it and shows it to be the only way.
* Closing a decoder's channel is never answered when its `LATE_ACK` cannot be sent, which
  is ignored (`decLink_common.c:2643`); and every `LATE_ACK` that is received is leaked
  (`decLink_tsk.c:130`), against `utils_mbx.h:188`, "User MUST call
  Utils_mbxAckOrFreeMsg() for every received message": some ten thousand
  closings use up the pool of the core, and no command is delivered any more.
  When skipped frames are given back and the `NEW_DATA` that this owes to the link itself
  cannot be sent, the assertion at line 1656 stops the core. `Returns` excepts
  these, and a lost `NEW_DATA`, after which nothing happens until the next; it shows
  that there are no others.
* With `SELECT_LINK_CMD_SET_OUT_QUE_CH_INFO` the channels of the previous
  command stay routed (the removal is compiled out) while
  `GET_OUT_QUE_CH_INFO` reports only the last command: `RoutingOK` and
  `SizeIsKnown` are claimed for `SET_OUT_QUE_CH_INFO2`.
* EncLink and DecLink rest on the process tasks' priority above the link task's,
  DecLink also on the next link's not being lower; IpcBits' `PendingIsQueued` on
  the equal real-time priority of thread and task on one processor. Each
  has a mutant that shows it.
* `AssertionsHold` is checked for one reopening. A channel has twice the frames
  of an opening; when it is opened a third time while frames of two openings are
  still with the next link, the assertion at `decLink_common.c:407` has nothing
  that guarantees it. Openings that fail for lack of memory lose frames for good
  (line 430), although the message at line 2486 advises to try again.
* An application that calls the SCD link from the callback of one of its events,
  as `ti_vsys_common_def.h:270` suggests, would close a cycle of waiting:
  `CallsReturn` is claimed for handlers of the host that send nothing back.

## Proofs

`UtilsQueProofs` proves, for any number of tasks, any capacity and any mix of
blocking flags, timeouts and unblocks:

* `TypeCorrect`: `Spec => []TypeOK`, with resets and any minCount;
* `TokensCoverAlways`, `NoLostWakeupAlways`, `ForceHasTargetAlways`: the three
  safety properties of `queue_many`. The third needs no hypothesis; the first two
  are proved under `OneAtATime` (minCount 0 or 1, which the code clamps to 1, and no
  reset under the callers' feet) and `FewWhenForced`: any number of tasks on a queue
  that is not forced, at most two getters and two putters on one that is.

`NoLostWakeup` is not inductive: that nobody sleeps beside an element says
nothing of the tokens on their way. The invariant is `QueInv`: `TypeOK`;
`BlockInv` (a task that waits does so on a blocking side, for one element);
`RestInv` (who is in a call of a side, and that a queue nobody forces has no flag up);
`SemInv` (no token lies unused while someone is on the pend list);
`ForceHasTarget`; and `TokensCover`, the accounting: as long as someone on a
side has seen nothing to take, the elements there, plus a pending forced
unblock (`Debt`, settled by the first task that reads the flag), are at most the
semaphore's tokens plus the tasks still on their way to look or to post. A second
task that reads the same flag gives up without anyone's owing it, which is
harmless when nobody else is parked on the side: there `FewWhenForced` comes in. Each action moves at most one unit between these terms;
the lemmas `PutElemCover`, `GetElemCover`, `CannotGoCover`, `PendCover`,
`PostCover`, `TestCover`, `GiveUpCover`, `UnBlockCover` and `QuietCover` do the counting, with
the finite-set theorems of the library, one per kind of step; `QueNext` puts
them together. The only assumption on the constants is `QueAssumption`.

It also proves `ImplementsBoundedFifo`, `Spec => IsBoundedFifo`,
under nothing but `QueAssumption`: resets may come in the middle of calls, any
task may move elements at any moment. The strengthening is `RingInv`: `curWr` is
`count` places after `curRd` modulo the length, and whoever is putting has a
datum. A put then appends to the sequence from `curRd`, a get takes its head
(`PutAppends`, `GetTakesHead`), and every other step leaves it alone. And
`UnBlockAlwaysSees`, under `Solo` (at most one getter and one putter, resets only
between calls): whoever sleeps has its side's `blockedOn` flag up. `WaitInv`
follows the flag from `SetBlocked` to `ClearBlocked`; nobody else of the side is
there to take it down.

`UtilsMbxProofs` proves `MessagesCorrect` and `AckAlwaysExpected`, for any number
of callers, servers, messages and acknowledge queues and any queue lengths.
`AckIsExpected` alone is not inductive: a server that is about to acknowledge
must know that the queue named in the message is still its sender's and empty.
`IInv` adds `CallerInv` (at each point of a call, what has been claimed and what
is in hand; at the free, that it is the message sent), `SlotInv` (one owner for
each claimed queue), `ServerInv` and `AnswerInv` (a message that wants an answer
and is with a server has a sender that waits on the queue it names). That the
queue is empty then follows from `OnePlace`: all it could hold is the message
the server still has. Every step that moves a message takes it from one place
to one other (`Moved`); `TakeFree`, `GiveFree`, `Send`, `Pull` and `Answered` are
the kinds of moves, each used by two or more actions.

`DupLinkProofs` proves `CountsCorrect`, `PoolAlwaysLasts` and `ImplementsFrameLoan`
(`Spec => IsFrameLoan`), for any number of frames and outputs and any lists.
They assume `BigPool`: each output has at least twice as many duplicates as the
previous link has frames; without it the link's assertion can fail, see *Bounds*.
The code's pool is `DUP_LINK_MAX_FRAMES_PER_OUT_QUE`, that is
`SYSTEM_LINK_FRAMES_PER_CH` (6, or 4 on small builds) times 64 channels. The
invariant is `TypeOK`; `Sharing`, which says who has what: `LoopInv` (how far the
link's loop over outputs and frames is), `Apart` (the hands of an output
are disjoint), `HomeInv` and `FreeInv` (a frame at home has no holder), `LockInv`
(one task between the count-down and the return); `CountInv`, the count of a
frame as the number of its holders, which is where the count is set before
the duplicates are made; `PoolConserved`; and `PoolLasts`. In the
refinement `GetFull` lends, `CountDown` gives back, `PutUp` returns a frame, or
nothing, and every other step is a stutter.

`SelectLinkProofs` proves `ChannelAlwaysRestored` under no hypothesis,
`RoutingAlwaysOK` under `Replacing` (no `SET_OUT_QUE_CH_INFO`) and
`SizeAlwaysKnown` under `Steady` (that, and sizes that do not change): what the
run `select_stale` and the two limits above show to be necessary. `IInv` has
`TypeOK`; `PlacesInv`, each frame in one place; `PointInv`; `MarkInv`, which number a
frame carries where (`Outer` on the previous link's side, `Inner` on a next
link's, where the number it will be given back is remembered in the frame, so a
new routing cannot touch it); and `MapInv`. For the routing, `InfoIsRouting` is
inductive beside it. For the sizes it is not enough to look at the head
of a next link's queue: `SizeInv` says of every frame in it, and of every
channel routed to it, that the size is what the next link will know by then from
the frames before (`Latest`), unless the frame itself tells it. Taking a frame
shifts this, routing one appends to it, and a command makes the next
frame of each channel tell its size.

`IpcMsgQProofs` proves `MessagesAlwaysOK`, `AckAlwaysOwn` and, under `NoEvents` (no
event is sent to another core; `ipc_event` shows what happens with one),
`PrmAlwaysLive`, for any cores, links, commands and queue lengths. `PlacesInv`
has each message in the heap, with a sender, on its way to a core, with that
core's message task or on its way back. `SenderInv`: a sender holds its core's lock from
the allocation to the acknowledge. `MsgInv` and `AckInv`: an allocated message that
is waited for names the sender that waits for it, and its acknowledge
goes to that sender's core; so what arrives is what the holder of the lock sent.
`LinkInv`: a link has at most one command to acknowledge, in its mailbox or in
hand, and the message task of its core waits for just that one, so the
parameters stay where they are.

`OneWaitedAlways` is what the code does guarantee about the heap: the commands
that are waited for hold one message for each core at most, however many tasks
send and whatever sends and acknowledges have failed. A sender of such a command
holds its core's lock from before `MessageQ_alloc` until the acknowledge is freed
(`SenderInv`, `MsgInv`), and keeps it when the acknowledge is lost. Whether the
assertion after `MessageQ_alloc` holds depends on the notifications under way, which
nothing in the code limits but how fast the receiving core frees them.

`EncLinkProofs` proves `ConservedAlways`, `ChannelAlwaysEncodedOnce`,
`NothingEverLeftInCodec` and `AlwaysInOrder` under nothing but `EncAssumption`, so for any
frames, channels, accelerators, request objects, buffers, batch sizes and lengths. `IInv` is
`TypeOK` and

* `PlacesInv`: each frame is in one spot of `Spots`, and once in it (`EachOnce` for
  queues of requests);
* `CountInv`: `reqQue` and the buffers make up for the requests that are out. These
  are counted as the cardinality of a *set*, `OutReqs`, which is right because
  `PlacesInv` has no two requests alike; so a step that moves requests leaves the
  count, one that makes or takes one changes it by one;
* `ChanInv`: a request holds frames of one channel and is with that channel's accelerator.
  `ChannelEncodedOnce` between two accelerators follows from it, within one from
  `BatchInv`;
* `BatchInv`: a batch has no channel twice, and is empty outside the codec;
* `EndInv`: past the wait of a delete nothing is out, and the link task's lists of
  buffers are empty whenever it is not collecting. `CountInv` turns `reqQue = MaxReq`, which
  is all the code tests, into "no request anywhere".

None of the three state properties is inductive: the counts need that requests differ,
the batches that a request is of one channel, the end that both hold. For
the order, `Line`, the queues on a channel's way, is a concatenation, and being
`Ahead` in it is taken apart along it (`AheadConcat`, `Precedence`). Requests go from
the head of a queue to the end of the next; each of the six actions that touch
the queues has a lemma (`QueueFramesKept`, `SubmitKept`, `DropKept`, `DrainKept`,
`PrepareBatchKept`, `PutDoneKept`) that two frames which stay keep their order
and one that comes in is behind. A task that finishes puts its batch in
`processDoneQue` before what other tasks still have; by `ChanInv` that is of other
channels.

`QueueLemmas` holds what all but the first share: heads, tails, joined and split lists,
and `InOnePlace`, with `MoveOne`, `MoveSome` and `MoveAll`, what a step that moves
things from one place to another preserves.

Only model-checked:

* liveness and everything that rests on fairness (out of the prover's reach);
* DecLink. A frame there has several holders, and `FramesOK` equates its reference
  count with a sum over them that several tasks change in steps of their own: a
  larger `IInv` than any of those above, which has not been worked out.
  `StarvedIsFlagged` and `AssertionsHold` rest on it.

## Not modelled

* Durations and, except between a codec link's tasks and the host's two, priorities (a
  handler may take any time; `Utils_tskDelete`'s sixteen ticks are not counted);
  contents of frames and parameters; drivers and codec libraries, which are
  not in the repository; creation failures, except of a decoder's channel.
  Statistics and printing have no effect on the protocol.
* Links are deleted only after all have been stopped, so a link's creation is
  `Init` and its deletion is left out; the encoder's, which must stop its
  process tasks, is in.
* Encoder: the commands that set codec parameters. Bit-stream buffers are one
  pool; in the code there is one per size, so a channel of one size cannot starve
  another of it.
* Decoder: batches (the build's batch is one request), several accelerators, stop
  and delete of the link, which are as in EncLink; trick play and channel
  disabling are free choices of which frames and bit buffers are skipped.
* Messages between cores: opening the remote queues, creating the heaps, and the
  host's send with a timeout, which nothing calls; and the failing `MessageQ_get` of an
  acknowledge (460 to 467): without a timeout it fails only when the queue is
  unblocked, and nobody calls `MessageQ_unblock` on an acknowledge queue.
* IPC bits: stopping, deletion and flushing of the lists, and the way of bit
  buffers to the decoder, the same code with the roles of the cores exchanged.
* Merge link (its maps never change after creation), IPC frames links, OSA, and
  the links above drivers, as listed in the inventory.

## Plan

1. **Proofs over DecLink**: its circulation as in EncLinkProofs, reference counts as
   in DupLinkProofs.
2. **A pipeline** of merge, dup and select links: a frame is back at its source
   under its own channel, whatever the chain did; the composition implements
   FrameLoan.
3. **DecLink with two channels** that share the flag, on a smaller codec; IPC
   frames over the lists of IpcBits.
4. **OsaMbx**: the host's counterpart, against the same abstract mailbox.
