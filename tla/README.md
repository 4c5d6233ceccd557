# Verification of the Source engine's networking and threading core

This directory holds TLA+ models of parts of the engine in `src/src`, the TLC
configurations that check them on small instances, and proofs that TLAPS
checks for every instance.  Paths below are relative to `src/src`; line numbers
are those of the commit beside this directory.

The engine is a game client and server: some 14,000 files, most of them
rendering, tools, SDKs and game content.  The part with the hardest protocol
logic is the network channel, which everything else that crosses the wire relies
on, so it is modelled first, with the layer below it that cuts large datagrams into
pieces and the most delicate protocol above it, the snapshots of the world that a server
sends its clients.  Second come the threads: events and the reader-writer lock, the
lock-free list and queue, and the thread pool that is built on them.

| section | modules | run | proved in |
|---|---|---|---|
| 2 network channel | `NetChan`, `ReliableStream`, `NetChanRounds` | `netchan_bits`, `netchan_reliable`, `netchan_clear`, `netchan_progress`, `netchan_two_streams` | `NetChanProofs` |
| 3 datagram layer | `SplitPacket` | `splits` | `SplitPacketProofs` |
| 4 snapshots | `EntityDelta`, `Snapshots` | `snapshots` | `SnapshotProofs` |
| 5 events and locks | `EventSpec`, `Event`, `EventUsers`, `RWLock` | `event`, `rwlock` | `EventProofs`, `RWLockProofs` |
| 6 lock-free containers | `AtomicStack`, `TSList`, `TSQueue` | `tslist`, `tsqueue` | `TSListProofs`, `TSQueueProofs` |
| 7 thread pool | `JobQueue`, `ThreadPool` | `jobs` | `ThreadPoolProofs` |

A property that no run lists is stated in its module with a comment like
the others.  The runs list the properties that say most; `TypeOK` of most modules, and those marked
"proved" or "also holds" below, were checked with the same configurations and are left out of them
to keep them short.

Section 8 lists where the code disagrees with its own comments, 9 what is not modelled
and what could come next.

## 1. Inventory

| component | files | state | operations |
|---|---|---|---|
| network channel | `engine/net_chan.cpp`, `.h` | sequence numbers, subchannel records and bits, waiting and receive lists, reliable buffer | SendData, SendNetMsg, SendFile, EnqueueVeryLargeAsyncTransfer, SendDatagram/Transmit, SetChoked, ProcessPacket, Clear, Setup |
| datagram layer | `engine/net_ws.cpp`, `engine/net_ws_queued_packet_sender.cpp` | one reassembly entry per remote address, queues of delayed pieces (one per host, one of the sender's thread), split number of each channel | NET_SendLong, NET_GetLong, NET_DiscardStaleSplitpackets, NET_SendQueuedPackets, the thread's QueuePacket and Run |
| client connections on the server | `engine/baseclient.cpp`, `sv_client.cpp`, `baseserver.cpp` | signon state, delta tick, baseline number and tick, force-wait tick | SetSignonState, Reconnect, Inactivate, SendSnapshot, UpdateAcknowledgedFramecount, OnRequestFullUpdate, CLCMsg_BaselineAck |
| client connection to the server | `engine/baseclientstate.cpp`, `client.cpp`, `cl_ents_parse.cpp` | the same, seen from the client | ProcessSignonState, ProcessPacketEntities, ForceFullUpdate |
| snapshots | `engine/sv_framesnapshot.cpp`, `clientframe.cpp`, `sv_packedentities.cpp`, `sv_ents_write.cpp` | packed entities with change ticks, the list of frames per client, reference counts | SV_PackEntity, AddClientFrame, DeleteClientFrames, WriteDeltaEntities, SV_WriteDeletions |
| string tables | `engine/networkstringtable.cpp` | items with tick stamps | SetTick, WriteUpdate, ParseUpdate |
| host state machine | `engine/host_state.cpp` | current and next state | FrameUpdate, the requests |
| events and locks | `tier0/threadtools.cpp`, `public/tier0/threadtools.h` | flags of the POSIX event, reader and writer counts, one word of the spin locks | Wait, Set, Reset, LockForRead, LockForWrite, ... |
| lock-free containers | `public/tier0/tslist.h` | list head with depth and sequence, queue head and tail with sequences | Push, Pop, Detach |
| thread pool | `vstdlib/jobthread.cpp`, `public/vstdlib/jobthread.h` | job states, locks and references, shared and direct queues, idle and suspended workers | AddJob, ChangePriority, Execute, Abort, YieldWait, SuspendExecution, ResumeExecution, AbortAll |
| resource handles | `tier1/datamanager.cpp` | handle table, lock counts, LRU | Lock, Unlock, Destroy, EnsureCapacity |
| game coordinator jobs | `gcsdk/job.cpp`, `jobmgr.cpp` | job states, timeouts, message routes | pause, resume, route, time out |
| matchmaking, game rules, demos, console, data cache, sound, rendering, user interface, tools, scripting | see `PROJECT.json` | | not planned: driven by outside services, numeric, sequential over content, or third-party |

How the parts interact.  The host runs frames.  Each frame reads datagrams
(`NET_ProcessSocket`), reassembles split ones in the datagram layer and gives
each to its channel's `ProcessPacket`, which acknowledges what the remote has
received, stores fragments, and calls the message handlers of the client or
server connection; those may call back into the channel (`SendNetMsg`, `Clear`).
Later in the frame the connection writes snapshots and messages into the channel
and calls `SendDatagram`, or `SetChoked` when the rate limit says no.  The
connections' protocols (signon, delta snapshots, baselines, string tables) rest
on two promises of the channel: reliable messages arrive once, in order; and an
acknowledged sequence number did arrive.  Threads appear below that: the split
sender's thread, the thread pool that packs entities, and the locks and lock-free
queues both use.

What is hard here, line by line, is the list `hazards` of `PROJECT.json`.  In
short: loss, duplication and reordering against single-bit acknowledgements;
`Clear` on one side while the other still holds half a transfer, and from inside
a handler; two streams that share one datagram and fail separately; counters in
one byte and three bits; updates that are relative to what the other end may have
forgotten; wake-ups that meet a timeout or another thread; addresses that come back
between a read and an exchange; and steps of threads between the two halves of a queue
operation.

What makes each component correct:

- *network channel*: the bit of a subchannel says the same at both ends; what is
  dropped as sent was handed over; each stream is in order, without repetition;
  data gets through while the network delivers now and then.
- *datagram layer*: a reassembled datagram is one whole datagram that was sent, and one
  whose pieces arrived together is not lost.
- *connections and snapshots*: a delta is only decoded against the frame and the
  baseline it was encoded against; lost messages cost a full update at most, never
  a wrong entity; a full update that is awaited arrives.
- *locks*: exclusion, no lost wake-up.  *Containers*: the list is an atomic stack; the
  queue loses nothing and gives nothing twice.  *Thread pool*: each job runs once or is
  aborted, its references are counted exactly, and every call that waits returns.

## 2. The network channel

### Modules

| module | what it is |
|---|---|
| `NetChan` | two `CNetChan` ends and the datagrams between them; properties at the end of the module |
| `ReliableStream` | abstract specification: one stream in one direction |
| `NetChanMC` | workloads and sequence bounds of the runs |
| `NetChanRounds` | `NetChan` under two hosts that run frames, with losses bounded, for liveness |
| `NetChanProofs` | lemmas on the operators, the inductive invariants and the theorems |

### How the model corresponds to the code

Each variable is a member of `CNetChan`, indexed by the peer that owns it (the
comments beside `VARIABLES` name it); `net` is what the network carries to each
peer; `delivered`, `confirmed`, `skipped`, `queued` and `clears` are history and
bounds.

| code | model |
|---|---|
| `SendData`, `SendNetMsg` | `SendReliable`, `OverflowReliable` |
| `SendFile`, `EnqueueVeryLargeAsyncTransfer` | `SendFile(p, n, isFile)` |
| `SendDatagram` with `CreateFragmentsFromBuffer`, `CompressFragments`, `UpdateSubChannels`, `SendSubChannelData` | `SendDatagram`, one action, built from operators of the same names |
| `SetChoked`, `Clear` (with `Reset`), `Setup` | `SetChoked`, `Clear`, `Init` |
| `ProcessPacket`, `ProcessPacketHeader`, `ReadSubChannelData`, `CheckReceivingList`, `CheckWaitingList` | `DiscardStale`, `ProcessHeaderOnly`, `ProcessReliable` |

A channel is used by one thread, so a handler is one action.  A reliable message
is its number in the order it was handed over; a transfer is an interval of
numbers with a size in bytes; a fragment is the transfer it was cut from, so a
receive buffer knows whether its fragments belong together (`Contents`).  Sizes
stay: they decide the number of fragments, merging, compression and whether a
chunk travels as a single block.  Compression replaces a size by any smaller one.
A file that `SendFile` rejects (missing, too large, already queued) is a call that
changes nothing and is left out.

A message handler may succeed, fail, or call `Clear` on the channel it is called
from; the choice is nondeterministic over the constant `Outcomes`.

The network may hand over any datagram it holds, in any order, any number of
times, or never.  `Arrive` forgets the datagrams that the accepted one
overtook: the sequence test would discard them (`DiscardStale` covers the
duplicates that remain).

Left out: the unreliable payload and voice, the TCP stream (off unless
the program is started with `-usetcp`, `net_ws.cpp:219` and `3902`), merging of split-screen users, the
checksum and encryption, rate and flow statistics, demo recording, channels with a
null address, deletion of a channel during processing.  None of them touches the
reliable state.

### Properties

- `SeqOrder`: nothing on the wire acknowledges what was not accepted; newer
  datagrams acknowledge no less.
- `ReliableBits`: for each subchannel and direction, the two bits and every
  acceptable datagram on the wire agree with the subchannel's state.  This is the
  heart of the protocol and the inductive invariant of the proof.
- `AssertsHold`: the asserts of `ProcessPacketHeader` and its error "reliable state
  invalid" are unreachable.
- `FragmentsAccounted`: the counters of the transfer being sent are exactly the
  fragments the subchannels carry.
- `HeaderComing`: a fragment that arrived before its header can be accepted
  later.  `FragmentsOfOneTransfer` and `DeliveredIntact` say that what is put together is one
  transfer; they also hold in `netchan_reliable`.
- `ConfirmedMeansDelivered`: what the sender drops as sent was handed to the
  remote's handler.
- `StreamsReliable`: each stream of each direction implements `ReliableStream`.
- `DropsCounted`: an accepted datagram's drop count is zero exactly when nothing
  was lost before it, choked sequence numbers not counting.
- `EventuallyConfirmed`: everything handed over is confirmed in the end.

### Runs and bounds

All runs use two or three subchannels instead of eight, fragments of one byte, and
two fragments per datagram; with two subchannels one can wait for an
acknowledgement while the next is loaded, resent or cleared, and with a transfer of
three fragments the header and the rest travel apart.  The bounds are on sequence
numbers spent (`MaxSeq`), messages (`MaxMessages`), calls of `Clear` and of
`SetChoked`.  `Setup` starts the numbers at 1, so that a bound of `MaxSeq` allows one datagram less: two or three one
way and one to three back.  Between two and three a loss, the answer that reports it, the retry and its confirmation
fit; `netchan_progress` goes on for longer.

| run | question | bounds |
|---|---|---|
| `netchan_bits` | do the bits, counters and asserts hold with both streams, background files, Clear on both sides and from handlers, and handlers that fail? | 1 message + 1 file of 3 fragments, `MaxSeq` 3/4 (2 and 3 datagrams), 1 Clear |
| `netchan_reliable` | is one stream of fragmented and compressible transfers reliable; are choked sequence numbers told from losses; does an overflow stop the sender? | 2 messages of 1 or 3 bytes in a buffer of 5, `MaxSeq` 4/3 (3 and 2 datagrams, or choked ticks), 1 choke |
| `netchan_clear` | does Clear lose only what was abandoned? | 2 messages of 2 fragments, which may be merged into one transfer of 4, and 1 file of 1 fragment; `MaxSeq` 4/2 (3 datagrams and 1); 1 Clear each |
| `netchan_progress` | does everything get through? | 3 messages of 2 fragments, handed over together or in 3 successive rounds, 2 losses, 16 rounds |
| `netchan_two_streams` | item 1 of section 8 | 1 message and 1 file of 3 fragments, 3 subchannels, 2 losses |

What these bounds leave out: the one choke does not reach the wrap of the byte that counts chokes (`DropsAreCounted`
says what it would do), and two messages are too few for one to be merged behind a head that is being sent:
`netchan_progress` does that, with messages handed over in three rounds.

Deadlock is not checked: with the bounds spent, a model has nothing left to do.

### Fairness

`NetChanRounds` assumes that hosts run their frames and that a network which has
lost `MaxLosses` datagrams delivers what it then carries: weak fairness of
`Progress`.  The code justifies the first half (each host sends a datagram per
frame, in `CL_Move` and `CBaseClient::SendSnapshot` as often as the rate allows, whether or not it has reliable data);
the second is the assumption under which any retransmission protocol works.  Frames
alternate, so that neither host runs ahead for ever; this restricts
interleavings and is used for liveness only.

`ConfirmedMeansDelivered` and `HeaderComing` are checked where one stream is used
(`netchan_reliable`), and `StreamsReliable` with `Clear` where no transfer that needs several datagrams is followed
by another of its stream
(`netchan_clear`): with both streams, or a fragmented transfer and `Clear` or a failing handler, they fail,
see items 1 and 2 of section 8.

### Proofs

Proved for all values of the constants that satisfy `NetChanAssumption` (any number
of subchannels, any fragment size and limits, any workload and handler outcomes):

- `TypeCorrect` : `Spec => []TypeOK`
- `SequencesOrdered` : `Spec => []SeqOrder`
- `BitsReliable` : `Spec => []ReliableBits`
- `AssertsNeverFail` : `Spec => []AssertsHold`
- `FragmentsCounted` : `Spec => []FragmentsAccounted`
- `DropsAreCounted` : `MaxClears = 0 /\ MaxChokes < CHOKE_WRAP => (Spec => DropsCounted)`
- `HeaderComes` : `OneStream /\ NullApart => (Spec => []HeaderComing)`
- `ConfirmedDelivered` : `OneStream /\ NullApart => (Spec => []ConfirmedMeansDelivered)`
- `StreamsImplemented` : `OneStream /\ NullApart => (Spec => StreamsReliable)`

The inductive invariant is `IInv == TypeOK /\ SeqOrder /\ ReliableBits`.
`ReliableBits` alone is not inductive: that a bit of a datagram in flight tells
the truth depends on what that datagram acknowledges compared with the sequence
number the subchannel was sent with, and a step that accepts one datagram must keep
this for all the newer ones, which needs that acknowledgements grow with sequence
numbers (`SeqOrder`).  `Agree` states the invariant for one subchannel in one
direction with everything it depends on as parameters, so each way a subchannel
can change (loaded, sent, acknowledged, lost, cleared, flipped back, the receiver
reading it) is one lemma about `Agree`, and each action is shown to do one of these
to each subchannel.  `HeaderValid` shows that `ReliableBits` makes a header valid,
which `AssertsNeverFail` needs and also the step for `ProcessReliable`.

`FragmentsCounted` has an invariant of its own, `FragmentsKept`, which needs nothing of
the bits: whichever subchannels a header names, those that are waiting go back to be sent or become free, and
what they carried is subtracted with them.  It says of each list of transfers that the subchannels with fragments carry
`pending` of them for the first transfer, in disjoint spans that end below `acked + pending`, and that nothing
was sent of the others.  `acked` is not the number of the first fragment outstanding: an answer may
confirm the second of two subchannels first, so a span may begin below it.  `Clear` empties
lists and subchannels alike, and a transfer leaves its list when `acked` is all it has, when nothing can be loaded.

`DropsAreCounted` rests on `ChokesKept`: the choke count of the sender, and that of every datagram on its way, is
the number of choked sequence numbers just before it, and no accepted datagram has a choked number.  Both hypotheses are
needed.  `Clear` zeroes the count of numbers already choked, which then look lost, and the count travels in one byte,
so 256 numbers choked in a row look like none.

The last three are about what the channel is for.  `OneStream` says that each end uses one of its two streams
(either one, chosen for each end), that nobody calls `Clear`, that no message handler fails and that no file is empty.
It is a real restriction, and each part is needed: with both streams in use (item 1 of section 8, the run
`netchan_two_streams`), with `Clear` during a fragmented transfer, or with a handler that fails (both item 2), the code mixes or
loses messages, and an empty file counts as sent without being sent.  The constants of the run
`netchan_reliable` satisfy it.  `NullApart` says that `NULL` is neither a receive buffer nor a chunk, which is true
of a model value.
Losses, duplicates, reordering, compression, merging, choking and any number of subchannels remain.

Their invariant is `StreamInv`, on top of `IInv` and `FragmentsKept`.  Per direction there is a number `n` such that

- the waiting list holds the messages after `n`, in order and without a gap, up to those still in the
  reliable buffer (`Follows`), and the confirmed ones are `1 .. n`;
- what the receiver has of the head of that list is what was handed to subchannels and is not carried by an unread one
  (`Got`): nothing, with no buffer; or some of it including the header, in a buffer; or everything, and then
  the buffer is gone and the transfer was handed over (`Holds`);
- a datagram on its way that would be accepted carries what the subchannel it names carries now (`Carries`).

The three are needed together.  That a subchannel acknowledged was read is `ReliableBits`; that everything acknowledged was
handed over is the last case of `Holds` once `FragmentsKept` has shown that `acked` counts everything; and a fragment
read without its header is excluded because the unread subchannels then include the one that carries it.
For the refinement, nothing is abandoned (`NothingAbandoned`), what was handed over is `Upto(a)` with `n <= a <= queued`
(`Reached`), and each step hands in a message, hands over the messages of one transfer, or settles (`StreamStep`).

Only model-checked: the refinement `StreamsReliable` with `Clear` (`netchan_clear`) and
the liveness property.  Liveness and `ENABLED` are outside
what the proof system supports, as is induction over data with the installed
provers.  No module uses `RECURSIVE`.

## 3. The datagram layer

A datagram larger than the routable size of its channel is cut by `NET_SendLong` into
pieces.  The first `net_splitrate` leave at once, the others later: from the thread of
`CQueuedPacketSender` when their delay has passed, or from `NET_SendQueuedPackets` in
the host's next frames.  `NET_GetLong` puts them together, in one entry per remote
address.  Nothing in this layer is acknowledged; the channel above sees a lost
piece as a lost datagram, which is why what it must *not* do is return a mixture.

| module | what it is |
|---|---|
| `SplitPacket` | one direction of one channel: sender, queue, network, the receiver's entry; properties at the end; its runs use it directly |
| `SplitPacketProofs` | lemmas, the inductive invariants and the theorems |

| code | model |
|---|---|
| `NET_SendLong` with `NET_QueuePacketForSend`, `QueuePacket` | `NET_SendLong(n, size)`: all sent or queued, or ended by the socket at a piece, or (thread) pieces dropped by a full queue |
| `CQueuedPacketSender::Run`, `NET_SendQueuedPackets` | `SendQueued` |
| `CNetChan::Clear` (`Reset`) | `Clear` |
| `NET_RemoveNetChannel`, then a new `CNetChan` to the address | `NewChannel`; the host's queue is cleared, the thread's is not |
| `NET_GetLong` | `TakePiece`, built from `Begin`, `Count`, `Store`, `Complete` in the order of the code; `RejectSize` |
| `NET_DiscardStaleSplitpackets` | `DiscardStale` |

A piece carries the number of the datagram it was cut from as its contents, so
`Contents` knows whether the buffer holds one whole datagram; sizes are counted in
pieces.  The network is a set that only grows: a lost piece is one that is never
taken, a duplicate one that is taken again.  Since it reorders anyway, the queue has
no order.  `received`, `seen`, `interrupted`, `reused` are history: what was
returned, what was taken since the entry was made, which datagrams were displaced
before they were complete, and whether two datagrams of one number met.  The
datagrams of a new channel to the same address are numbered on.

Left out: datagrams without a channel, whose numbers come from a counter per socket
and would share the receiver's entry (the code says they should never need to be
split, `net_ws.cpp:2506`); datagrams of more than 128 pieces; the header checks that
drop a malformed piece; loopback and simulated lag; compression and encryption.

Properties:

- `WholeUnlessReused`: as long as no two datagrams of one number met in the entry,
  what is returned is whole (`Intact`) and a datagram all of whose pieces arrived
  since the entry was made was returned or displaced by another (`Assembled`).  The
  count of missing pieces starts again with every change of number, the marks in
  `splitflags` never: that the two agree when an old datagram interrupts a new one is
  what could go wrong.
- `ReuseNeedsReset` (proved): two datagrams of one number meet only after a restart of
  the channel's numbers.

| run | question | bounds |
|---|---|---|
| `splits` | is what is returned whole, and all that arrived together returned? with the thread's queue | 2 datagrams of 2 or 3 pieces, 2 sizes, 1 restart |

Two datagrams are enough to interrupt each other, three pieces to be interrupted
between two of them and to be dropped, queued and sent at once.  Nothing has to
happen in this layer (pieces are not sent again), so there is no liveness property.
Deadlock is not checked: with the bounds spent nothing is left to do.

`Intact` alone fails after a restart of the numbers: item 3 of section 8.

Proved for every number of places, splitting rate, piece counts and sizes, and any
number of datagrams and restarts (`SplitAssumption`):

- `SplitTypeCorrect`: `Spec => []TypeOK`
- `SplitWholeUnlessReused`: `Spec => []WholeUnlessReused`
- `SplitReuseNeedsReset`: `Spec => []ReuseNeedsReset`
- `SplitWholeUntilReset`: `Spec => [](resets = 0 => Intact /\ Assembled)`, which combines
  the two: without a restart reassembly is exact.

`WholeUnlessReused` is not inductive: that a datagram is complete when the count of
missing pieces reaches zero needs to know which pieces were counted.  `WholeInv` adds,
as long as no number was reused: the pieces seen under one number are of one datagram
(`OneOfNumber`); a mark is left only by a piece with that place and number
(`FlagsSeen`); what the entry collects has been counted exactly since it began, lies in
its places, and is everything seen of its datagram unless that was displaced
(`Collecting`); and a datagram that was neither returned nor displaced is the one being
collected (`NotDisplaced`).  The step is that counting a piece adds one element to a
finite set of places, from the library's facts on cardinality.  `NumberInv` (before a
restart the numbers of the datagrams are consecutive, so all different) gives
`ReuseNeedsReset`.

## 4. Snapshots

Every tick the server packs the entities a client may see and sends what changed since the
last snapshot the client acknowledged, in the unreliable part of a datagram.  The client
keeps the frames the server may still refer to, answers with the tick of the last update
it read in each of its moves, and reads an update only against the frame it names.
Without a frame in common (at the start, after a request, after a loss of contact longer
than the frames kept) a full update travels as reliable data.  Entities that come into
view are written against a baseline; from time to time one update is chosen to replace it:
the client copies into the baseline that is not in use, says so in a reliable
message, and the server switches over when that arrives.

| module | what it is |
|---|---|
| `EntityDelta` | pure operators: what an update between two frames says, how it is read, how a baseline is merged |
| `Snapshots` | the server, one client and the messages between them; properties at the end; its run uses it directly |
| `SnapshotProofs` | lemmas, the inductive invariant and the theorems |

| code | model |
|---|---|
| `SV_ComputeClientPacks`, `SV_PackEntity`, `CreatePackedEntity`, edicts allocated, freed and reused | `NewFrame`, `PackEntity` and the fates of the slots in `ServerFrame` |
| `CBaseClient::SendSnapshot`, `GetDeltaFrame`, `OnRequestFullUpdate` | `ServerFrame`: `SendNothing`, `SendFull` or `SendDelta` |
| `WriteDeltaEntities`, `SV_WriteEnterPVS`, `SV_WriteDeletions` | `WriteEntities`, `Deletions` of `EntityDelta` |
| `CBaseClient::UpdateAcknowledgedFramecount` | `ServerReadTick`: `AckWhileWaiting`, `AckOfDelta` |
| `CLCMsg_BaselineAck` | `ServerReadBaselineAck` |
| `CL_SendMove` | `ClientSendTick` |
| `SVCMsg_PacketEntities`, `CL_ProcessPacketEntities` | `ClientRead`, one of `ClientIgnoresDelta`, `ClientReadsDelta`, `ClientReadsFull` |
| `ForceFullUpdate` | `ForceFullUpdate` |

A frame on either side is what a snapshot shows one client: the tick, the serial number in
every slot, the packed entities in view with the tick each property last changed.
Datagrams of one direction arrive in order or not at all, reliable messages in order and
once: what section 2 shows of the channel.  A loss is decided when a datagram is
sent; one that overflows is the same as a lost one.  `unacked` is the full update in
the channel's waiting list, for `HasPendingReliableData`; other reliable data that may be
pending at the same time is the parameter `other`.  `shown` is history: what the last update
read was meant to show.

Left out: several clients and shared snapshots (each client's frames are its own; the
reference counts that let them share packed data are not modelled), HLTV and replay
clients, local players, string tables, temporary entities and sounds, the reuse of packed
data of the previous tick, the widths of ticks and serial numbers, send proxies and
recipients.  One class per slot.

Properties:

- `ShowsServerState` (proved): after every update read, the client's view is the server's at that
  tick: the same entities with the same values, whatever was lost before and whichever
  frame the update was relative to.
- `UnmarkedIsUnchanged` (proved): between any two frames the server keeps, a property that is not marked as
  changed has not changed, although an entity may have left the slot and another come.
- `ClientCanRead` (proved): no update names a frame or an entity the client has not got.
- `NeverDisconnected`, and `FullAckNeverAhead` (proved): the two branches of `UpdateAcknowledgedFramecount`
  that speak of a broken client are not reached.
- `BaselinesAgree` (proved): the baseline an update is written against is the one it is read against,
  whenever the acknowledgement of it comes; `BaselineOfFrame` (proved): the entities noted
  for a baseline update are in the frame their packs are taken from.
- `FullOnlyWhenLate` (proved): a full update nobody asked for is sent only to a client that is
  `MaxFrames` behind.
- `FullUpdateCompletes`: no wait for a full update lasts for ever.

The run `snapshots` has one slot that comes, changes, leaves the view and is given to
another entity over four ticks, three frames kept, one request for a full update, and one
message on its way in each queue.  One slot is enough because the update has an
independent entry per slot; four ticks with three frames let the oldest frame be dropped
while an acknowledgement of it is on its way, and let the baseline be replaced while an older
update is unread.  With one message in a queue (`MaxQueue = 1`) the next update is sent when the one before was
read or lost; several in flight at a time are covered by the theorems below only.  `ImmediateReuse` is `FALSE`: no
slot is put among the explicit deletions, as
in a game that does not call `ED_AllowImmediateReuse` (item 5 of section 8).

Fairness: the client sends moves and reads what arrives (weak fairness of `ClientSendTick` and
`ClientReads`: its frame loop), and of the moves that reach the server it is not for ever the case that
each meets other reliable data still waiting (strong fairness of `ServerReadTick(FALSE)`).  The second is
needed because a client that asks again during the wait is answered only when `HasPendingReliableData` is
false: a channel that never empties would leave it waiting, which the comment in
`sv_client.cpp:366` ("the client may indeed be stuck") takes into account.

Proved for any slots, properties, values, number of ticks, frames and messages
(`EntityDeltaAssumption`, `SnapshotsAssumption`):

- `UpdateTransmits`, `UpdateRoundTrip`: about the operators alone.  A client that shows frame
  `from` shows frame `to` after it has read the update between them, provided that what `to`
  does not mark as changed since is the same in both (`ChangesMarked`).
- `SnapshotUnmarkedIsUnchanged`: `Spec => []UnmarkedIsUnchanged`, which is that condition for
  every two frames the server keeps.
- `SnapshotTypeCorrect`, `SnapshotNeverDisconnected`, `SnapshotFullAckNeverAhead`,
  `SnapshotBaselineOfFrame`: `Spec => []` of the properties of those names.

- `SnapshotFullOnlyWhenLate`, `SnapshotBaselinesAgree`: the same for `FullOnlyWhenLate` and `BaselinesAgree`.
- `SnapshotClientCanRead`, `SnapshotShowsServerState`, `SnapshotDeletedNotTransmitted`: the same for
  `ClientCanRead`, `ShowsServerState` and `DeletedNotTransmitted`, if slots are either not reused at once or
  all allocated from the start (`NoLateReuse`).  That is what the code provides except in item 5 of section 8:
  where it is not so `DeletedNotTransmitted` is false, and an update that shows an entity and deletes it leaves
  the client without it.

The invariant grows in five layers, each inductive relative to those before it.

- `IInv`: `TypeOK`, `NeverDisconnected`, `BaselineOfFrame`, `UnmarkedIsUnchanged` and four facts: the messages in
  the queues are sequences (`Queues`); updates on their way are newer than all that was acknowledged, and
  neither they nor the acknowledgements overtake each other (`TicksInOrder`); the full update that is awaited is the
  newest update there is (`AwaitedIsNewest`); and the last pack of a slot has its marks (`LastPackMarked`), which is why
  a property that changed while its entity was out of view is still marked when it returns.
- `Awaiting`: a full update on its way is the last message, and the one that is awaited.
- `FramesKept`: the frames the server keeps are those of consecutive ticks, at most `MaxFrames` of them, and a
  tick that is on its way, acknowledged or awaited and no longer kept is late.  `FullOnlyWhenLate` follows.
- `\E H : View(H)`: there is a history `H` of all frames ever made, of which those kept are a part, such that every update
  on its way was written between two of its frames.  The history is needed because the server
  may have dropped both frames by the time the update is read.  `View` also says which baseline the update was
  written against, and that an acknowledgement on its way, if the server can still use it, names the baseline the client now has
  (`Flagged`, `Acknowledged`).  `BaselinesAgree` follows.
- `FollowsServer`: the client's frames are frames of that history, read since its last full update; what it has
  acknowledged or will acknowledge is among those it keeps; and what it shows is the last of them.  `ClientCanRead` and
  `ShowsServerState` follow, the latter with `UpdateRoundTrip`.

Only model-checked: `FullUpdateCompletes`, a liveness property.

## 5. Events and the reader-writer lock

`CThreadEvent` is an event of the operating system on Windows; on POSIX (what is
modelled here) it is built in `threadtools.cpp` from a mutex, a condition variable and two
flags: `m_cSet`, the event is set, and `m_bWakeForEvent`, a thread in the wait may
leave it.  `CThreadRWLock` is built from a mutex, three counters and two events:
`m_CanRead`, manual, for all the readers that wait, and `m_CanWrite`, automatic, which
hands the lock to one writer.  Writers go first.

| module | what it is |
|---|---|
| `EventSpec` | abstract specification: what an event promises |
| `Event` | the operations of `CThreadEvent`, step by step; parameters: the threads, the kind of event, who waits with a time limit |
| `EventUsers` | any threads that set, reset and wait for one event at any time; properties; its runs use it directly |
| `RWLock` | `CThreadRWLock` over two instances of `Event`; properties; its run uses it directly |
| `EventProofs`, `RWLockProofs` | inductive invariants and theorems |

| code | model |
|---|---|
| `CThreadEvent::Set`, `Reset` | `Set`, `Reset` of `Event` |
| `CThreadSyncObject::Wait` | `TakeSet` (the event is set), `Block` (into `pthread_cond_timedwait`), `Expire`, `Again` (back into it), `Succeed`, `TimedOut` (the returns) |
| `pthread_cond_signal` | `Signal`: one of the threads that wait, if there is one |
| `LockForRead`, `WaitForRead` | `LockForRead`, `WaitForRead`, `EndWaitForRead` |
| `UnlockRead` | `UnlockRead` |
| `LockForWrite` | `LockForWrite`, `WaitForWrite` |
| `UnlockWrite` | `UnlockWrite` |

The event's mutex is free only inside `pthread_cond_timedwait`, so all the code from one
such call to the next is one action; `cond` says where a thread is in the condition
variable.  A wake-up without a signal, which POSIX allows, is modelled by `Succeed` being
possible for a thread that was not signalled; where it finds nothing it changes nothing.
The lock's counters are only used under its mutex, and between locking and unlocking it
the code does at most one operation of one event, so each such section is one action;
the mutex itself, and the threads that wait for it, need no state.  What
`m_CanRead.Wait()` returns is not looked at by `WaitForRead`, and the model keeps that.

Properties of `EventUsers`:

- `EventImplemented`: the event implements `EventSpec`: a wait returns true only
  while the event is set, and an automatic event is reset in that very step, so one `Set`
  lets one wait succeed at most.
- `WakeMeansSet` (proved): permission to leave the wait never outlives the `Set` it came from.
  (Otherwise a later wait would find `m_bWakeForEvent` without `m_cSet` and fail at once.)
- `SetReachesWaiters`: no wake-up of an automatic event is lost.  (That all the waiters of
  a manual event get on, though `Set` signals one, is part of `EveryoneServed` below.)
- `InfiniteWaitsSucceed`: a wait without time limit ends only with success.  Also holds of automatic
  events; of manual ones see item 4 of section 8.

Properties of `RWLock`:

- `Exclusion`: a writer is alone.
- `OnePermission`: while writers wait or write, exactly one of these exists: active
  readers, an active writer, or the set event `m_CanWrite`.  Two would let a writer in with
  others, none would leave everyone asleep.
- `EveryoneServed`: whoever asks for the lock gets it.

| run | question | bounds |
|---|---|---|
| `event` | automatic event: one `Set`, one wait; no lost wake-up | 3 threads, one with a limit; nothing else is bounded |
| `rwlock` | exclusion, permissions, progress | 3 threads, each locks 3 times |

Three threads are the fewest with which one can be signalled, another one wait and a
third set or reset; with three calls each, readers and writers meet in every order, and
a permission of one round could be left over for the next.  `MaxCalls` also stands for the
fact that new callers do not come for ever: with writers that keep coming, readers starve,
because writers go first by intention.  Deadlock is not checked in `rwlock` (its threads
stop when their calls are spent); `EveryoneServed` says that nobody is left waiting.

Fairness: a thread that is in a call runs on, which any scheduler provides, except
inside the condition variable, where it goes on when it was signalled or its time is
over (`Prompt`); a time limit does pass; whoever has the lock gives it back (`Unlocks`).
Wake-ups without a signal are possible but never relied on.

Assumptions about the platform.  POSIX allows a wait that times out to consume a signal
given at the same time; `TimeoutTakesSignal` says whether it may.  `event` has it
`FALSE` (glibc returns success if the thread was signalled): with `TRUE`,
`SetReachesWaiters` fails for an automatic event, because the thread that timed out returns
false and nobody else is told, while the event is set.  The lock's `m_CanRead`, a manual event,
has it `TRUE`: polling makes up for it.  The infinite wait of an automatic event is in the
code a limit of 2^32 - 1 ms, 49 days; the model has none.

Proved for any set of threads and limits, both kinds of event, any number of calls
(`EventAssumption`; for the lock `RWLockAssumption`, a finite set of threads):

- `EventTypeCorrect`: `Spec => []TypeOK`; `EventWakeMeansSet`: `Spec => []WakeMeansSet`
- `EventImplements`: `Spec => EventImplemented`, step by step: calls, `Set`, `Reset` and the
  returns of `Wait` map to the abstract actions, the rest, inside the condition variable, to
  a stutter.
  It needs `WakeMeansSet`: a thread leaves the loop because of `m_bWakeForEvent`, and the
  abstract wait may only succeed when the event is set.
- `RWLockTypeCorrect`: `Spec => []TypeOK`, where `TypeOK` says that each counter is the
  number of the threads it counts
- `RWLockExclusion`: `Spec => []Exclusion`; `RWLockOnePermission`: `Spec => []OnePermission`

`Exclusion` is not inductive: a writer enters because `m_CanWrite` is set, so it must be known that
nobody has the lock then.  The inductive invariant `IInv` of `RWLockProofs` joins: the
counters are the cardinalities (`CountersOK`), types of the events and where threads may be
in them (`EventsOK`, `WaitsOK`), the wake flag of `m_CanWrite` means that it is set (`WakeOK`), and
`Permission`, which is `OnePermission` and `Exclusion` in terms of sets of threads.  Each
step moves one thread from one set to another, so the lemmas are about cardinalities of
sets that gain or lose an element, from the library's facts.

Only model-checked: `SetReachesWaiters`, `EveryoneServed` (liveness).  Not modelled: the
Windows and PS3 variants, `WaitForMultiple`, semaphores, thread objects and the spin locks.

## 6. Lock-free containers

`CTSListBase` is a stack whose head word holds the address of the first node, the number of nodes and
a count of the pushes, and is exchanged as a whole.  `CTSQueue` is a linked queue with a dummy
node: `Push` links its node to the last one and then moves the tail, `Pop` moves the head
and frees the node it leaves, into a free list that is a `CTSListBase`.

| module | what it is |
|---|---|
| `AtomicStack` | abstract specification: a stack whose operations are one step each |
| `TSList` | `CTSListBase`, one action per access to shared memory; `TSListMC` adds symmetry |
| `TSListProofs` | the inductive invariant, the theorems, the refinement |
| `TSQueue` | `CTSQueue`, one action per access; its free list is atomic, which is what `TSList` is shown to implement |
| `TSQueueProofs` | what can be reached along a link, the inductive invariant and the theorems |

| code | model |
|---|---|
| the load `oldHead.value64x128 = m_Head.value64x128` | `ReadNext` and `ReadDepthAndSequence` in either order: an ordinary load of a double word may be torn |
| `pNode->Next = oldHead.value.Next`, `oldHead.value.Next->Next` | `LinkToOldHead`, `ReadSecond` |
| `ThreadInterlockedAssignIf64x128` | `CasPush`, `CasPop`, `CasDetach`, `CasFails`; `Pushed`, `Popped`, `Detached` are the arithmetic on the word of depth and sequence, with its carry |
| the owner of a node | `Use`: writes anything where `Next` lies |
| `CTSQueue::PushItem`, `Push`, `FinishPush` | the actions of `TSQueue` with these names, from taking a node out of the free list to the count |
| `CTSQueue::PopItem`, `Pop` | likewise, with the second look at the head's sequence and help for a push |

Properties of the list: `ListIntact` (head and links are the list, `Depth` its length) and
`StackImplemented` (refinement of `AtomicStack`: an operation takes effect at its exchange, and
a `Pop` that finds nothing when it reads the head).  Of the queue: `TailInQueue`, `NothingLost`
(each item is taken once, or in the queue, or behind a node that is not linked yet), `FreeListRespected`,
`CallsReturn`, `QuietMeansComplete` (with no thread inside a call the count is right too; proved, not in the run),
and, as long as no node was linked to one that has left the
queue (`stray`), `OrderKept` and `EmptyMeansEmpty`.  Without that condition order fails: item 6 of
section 8.  With a single thread that pushes it cannot happen: `OnePusherNeverStrays` (proved, not in the run).

| run | bounds | why they are enough |
|---|---|---|
| `tslist` | 2 threads, 3 nodes, any number of pushes, halves that hold 4 values instead of 2^16 | a node can come back to the head, at the same depth, with another successor, while the other thread holds what it read; the sequence wraps again and again, at every depth |
| `tsqueue` | 2 threads, 4 nodes, 3 pushes, 3 pops | the same for the queue's head, and a node that is linked to one in the free list |

Fairness of `tsqueue`: each thread runs on inside its call.

Two assumptions, both in `ListAssumption` as bounds below `HALF` and kept by the guard of `CasPush`:

- fewer than 2^16 nodes are in a list at a time (`MaxNodes`).  `Depth` and `Sequence` are the halves of one word that
  `Push` adds 0x10001 to and `Pop` subtracts 1 from: with 2^16 nodes the depth carries into the sequence.
- fewer than 2^16 pushes happen while one thread is between its read of `Sequence` and its exchange (`MaxSince`;
  `since` counts them per thread).  With exactly 65,536 in between the sequence is what it was, and the exchange can
  succeed with a stale link.

Neither bounds how many pushes a list sees in all.  Both are needed: without either of them TLC finds `ListIntact`
violated (`tslist.cfg` with the last conjunct taken out of `ListAssumption` and either `HALF = MaxSince = 3`
and `MaxNodes = 2`, or `HALF = 2`, `MaxNodes = 3` and `MaxSince = 1`).  The code checks neither.

The sequences of `TSQueue` are machine words and are taken as unbounded.  Memory of nodes is never given back while
threads use a list, as the allocators of both containers have it.

Proved for any set of threads and nodes (`ListAssumption`): `ListTypeCorrect`, `ListIsIntact` and the
refinement `ListImplementsStack`, for any number of pushes.  The inductive invariant adds to `ListIntact` what makes the
count useful: the list is short enough for `Depth` (`Short`); nodes being pushed are apart from each other and from
the list (`PushedApart`); the sequence is ahead of what a thread read by the pushes since then, modulo the width of its
half, and with no push since the list is no longer than the depth that was read (`ReadsOld`); and if the head is still
what a thread read, the link it read
is current (`ReadsCurrent`): a head with the same count and depth has seen neither a push nor a pop.  Torn reads are
part of the model, and the argument holds for each half by itself.

Proved of `TSQueue`, for any threads, any finite set of nodes and any number of pushes and pops
(`QueueAssumption`): `TypeOK`, `TailInQueue`, `NothingLost`, `OrderKept`, `FreeListRespected`,
`EmptyMeansEmpty`, `QuietMeansComplete` and `OnePusherNeverStrays`.  A push exchanges the link of the node it read as
the tail, and that node
may have left the queue, gone to the free list and come back in the hands of another thread that has not
linked it yet.  The exchange then succeeds, and the queue is no longer one list but several: the one behind
`m_Head`, and one behind each node that a thread has not linked.  The invariant is about all of them:

- `Apart`, `Covered`: these lists, the free list, the nodes being popped and those not made yet share
  nothing, and there is nothing else;
- `Linked`: each list ends with `End()` and does not run into itself; only their last nodes have that link, so an
  exchange that succeeds is always one at the end of some list;
- `Forest`: there is a strict order in which a thread that is about to link to the list behind another
  thread's node comes before that thread.  Without it two threads could link their nodes to each other's,
  and both lists would be lost in a circle; the order exists since a thread reads the tail before
  another takes the node it read out of the free list;
- `Ends`: the tail is in the queue, and what a thread read of an end whose sequence has not changed is still
  what is there (`TailRead`, `HeadRead`): the sequence grows at each exchange, so what was read with an
  older one will fail its exchange and nothing needs to be known of it;
- `Elements`: every element linked is in `popped` or in exactly one node of these lists;
- `Straight`, `SeenEmpty`: as long as nothing was linked outside the queue, the queue is a path whose
  elements are the rest of `order`, and a `Pop` that has seen `End()` behind an unmoved head has seen all
  taken.

`QuietMeansComplete` has an invariant of its own on top of these, `Counted`: `m_Count` is the number of items whose push
returned, less those popped, plus the threads that popped and have not counted yet, and an item that is linked
and not returned belongs to a push that is about to return.

`OnePusherIsEnough` (`Spec => []OnePusherNeverStrays`) needs nothing more: as long as one and the same thread has made all the
pushes, a node it links to that ends with `End()` is in the queue.  By `Covered` it would otherwise be behind a node that some
thread has not linked; that thread has pushed, so it is the one that links, and it would come before itself in the order of
`Forest`.  With it `OrderKept` and `EmptyMeansEmpty` hold without their condition for a queue with one
thread that pushes and any number that pop, which is how the thread pool uses its queues (section 7).

`From`, the nodes behind a node, is defined by the sets that links do not leave, so that the lemmas `ReachShut` and
`ReachLeast` are an induction over the length of a list without one.

Only model-checked: `CallsReturn` (liveness).  Not modelled: `Purge`, `RemoveAll`, `Validate`, `bTestOptimizer`, the native
lists of Windows and PS3.

## 7. The thread pool

`CThreadPool` has a queue of its own for each worker and one they share.  Only the main thread
calls it, as a comment in `YieldWait` says of the program (`jobthread.cpp:601`); it
helps with the shared queue while it waits for a job.  A `CJob` has a status, a lock,
a reference count and an event that tells its completion.

| module | what it is |
|---|---|
| `JobQueue` | `CJobQueue`: a queue per priority, the count of items, the event; `QueueSpec` is the queue by itself: one thread pushes, any number pop |
| `ThreadPool` | workers, jobs and the main thread's calls, over any number of `JobQueue`s |
| `ThreadPoolMC` | the order in which the run's program adds its jobs |
| `ThreadPoolProofs` | invariants of both, the theorems |

| code | model |
|---|---|
| `CJobQueue::Push` | `PushItem`, then `CountItem` (under the mutex, sets the event) |
| `CJobQueue::Pop` | `Reserve` (takes one off the count, under the mutex), `ScanLower` per priority, `TakeItem` |
| `CJobThread::Run`, `Wait` | `AnswerCall`, `Suspend`, `Resumed`, `WakeForItem`, `PopDirect`, `PopShared`, `CheckFinished` |
| `ServiceJobAndRelease`, `CJob::Execute` | `CheckFinished`, `TryLockFails`, `Begin` or `TooLate`, `Finish`, `Complete`, `LeaveExecute`, `Release` |
| `AddJob`, `InsertJobInQueue` | `AddInPlace`, `AddHandled`, or `AddToQueue`, `CountAdded`, `CountJob` |
| `ChangePriority` | `ChangePriority`, `CountAdded` |
| `CJob::Execute`, `Abort`, `Release` by the main thread | `CallExecute`, `Execute`, ...; `CallAbort`, `Abort`; `ReleaseOwned` |
| `WaitForFinish`, `YieldWait` | `CallYieldWait`, `YieldHelp`, `YieldDone` |
| `SuspendExecution`, `ResumeExecution` | `CallSuspend`, `CallWorker`, `WaitForSuspension`; `ResumeExecution` |
| `AbortAll` | `CallSuspend`, then `DrainPop`, `AbortPopped`, `DrainNext`, `DrainDone`, `ResumeExecution` |

A section under a mutex is one action.  The queue of one priority is a sequence whose steps take effect at once: since one
thread adds jobs, a `CTSQueue` keeps their order and an empty answer is true (`OnePusherIsEnough` in section 6).  With two
threads that push it would not be so (item 6 of section 8) and `ExpectedItem` would be in doubt, so `QueueSpec`
has the one thread `Main` that pushes, and what is shown of `CJobQueue` is shown for that use of it only.  `Reply`
and the event of a call are one
flag, since the caller waits for the reply; the 30 seconds of `WaitForReply` do not matter, because
`SuspendExecution` goes on to ask `IsSuspended`.  A reference that is taken and dropped under the
job's lock is one step with what it encloses.

Left out: starting and stopping the pool, `ExecuteToPriority`, per-frame jobs, pools that may execute
only on their threads or have none, jobs bound to a worker by `SetServiceThread`, `Flush`, `Yield`, the limit
`m_nMaxItems` (never below `INT_MAX`) and `m_MinPriority` (changed by disabled code only).

Properties:

- `ExpectedItem` (proved), the assertion of `Pop` ("Expected at least one queue item"): having taken one off the count, a
  thread finds an item before it runs out of priorities, although others push behind its
  back and take what it was about to find.
- `RunsOnce` (proved): a job is executed once at most, never after it was aborted, whoever has hold of it.
- `RefsAccounted` (proved): references are exactly those of the main thread, of queue entries and of threads
  that use the job: no use after free, no leak.
- `SuspendedMeansQuiet`, `AbortAllLeavesNothing` (both proved): what callers of `SuspendExecution` and `AbortAll` rely on.
- `SerialOrder` (proved): serial jobs of one priority that are queued are executed one after the other in the order of
  their addition.  A program may give its jobs any priorities (`GivenPriorities`); serial jobs of different ones, and those
  that are not queued, are executed out of order: item 7 of section 8.
- `JobsCounted` (proved, not in the run): `GetJobCount` between two calls, with the jobs raised by `ChangePriority` counted
  off.
- `JobsFinish`, `CallsReturn`: every job added is finished, every call returns.

The run `jobs`: two workers, three jobs (two serial ones that are queued, one plain), two priorities (the second serial
job has that of the first or a higher one; other assignments are left to the theorems), and besides the three
`AddJob`s two calls, at most one of them about a job.  Two workers are the fewest that
compete for the shared queue while a direct one is used; three jobs let one run, one wait and one be taken by the
main thread; the two calls combine suspension or `AbortAll` with any call about a job.  `CHECK_DEADLOCK FALSE`: a
pool whose jobs are
done is idle.

Fairness: each worker runs when it can, and the main thread goes on inside its calls and resumes what it suspended.

Proved for any number of workers, jobs, priorities and calls, any program and any priorities it gives its jobs
(`JobQueueAssumption`, `ThreadPoolAssumption`):

- `QueueKeepsPromise`: `QueueSpec => []ExpectedItem`, with one thread that pushes and any number that pop.  The
  invariant `QInv` counts: for every
  priority, the threads whose scan has come below it are no more than the items below it
  (`EnoughBelow`), because an item at the priority they looked at would have been found;
  and the count, the scans under way and the items not counted yet add up to the
  items in the queue (`AllPromised`).  The step that needs care is a scan that finds a
  priority empty: it goes below because all promised items are there.
- `PoolUsesQueues`: `Spec => QueueSpec`, the pool's steps are steps of its queues or leave them alone;
  hence `PopFindsItem`: `Spec => []ExpectedItem`.
- `ExecutedOnce`: `Spec => []RunsOnce`; `QuietWhenSuspended`: `Spec => []SuspendedMeansQuiet`.  Their
  invariant `PInv` says which threads have a job in hand (`InHand`), that the status of a job tells how often it
  ran (`RunsTold`), that a job being executed is locked by its thread (`LockHeld`), and that a worker whose event was reset is
  suspended, in a suspended pool all of them (`Asleep`).

- `ReferencesAccounted`: `Spec => []RefsAccounted`.  `RefInv` counts them: one if the main thread owns the job, one per
  entry of it in any queue, one per thread that took it from a queue and has not released it (`Holders`), one per thread inside
  its `Execute` (`Executors`).  A push and a pop change the number of entries by one (`PlacesIn`), every other
  step moves a reference from one of the four to another or changes both sides; `Placed` says where in a call the main thread
  can be, without which a reference could be dropped by a step that does not have it.
- `NothingLeftByAbortAll`: `Spec => []AbortAllLeavesNothing`.  `Pending` says where an added job may be: finished
  or aborted, in a queue, or in the hands of a thread that has not settled it.  `Emptied` says that the queues
  `AbortAll` has gone through have no items, which stays so because no other thread pushes, and the
  suspended workers hold no job (`Asleep`); `Owner` ties a job that is being executed to the thread that holds its lock.
- `SerialJobsInOrder`: `Spec => []SerialOrder`.  `SInv` follows a serial job that is always queued and was not taken
  out of line by a call: before it is added nobody has it (`Fresh`); it is queued with the first worker at its own priority only
  (`Lined`); there the jobs of each priority stand in the order in which they were added (`Ordered`); only that worker, or
  `AbortAll`, takes it (`Lone`, from `Uses`: who scans which queue); and when one is out of the queue those of its
  priority before it are finished (`InTurn`).
- `JobsAreCounted`: `Spec => []JobsCounted`.  `JobsInv` states the equation at every moment and not only between calls: a push
  of `AddJob` whose `++m_nJobs` is still to come is counted apart (`NotCounted`), and so is the time in which `AbortAll`
  takes entries out (`Draining`); when it sets the count to zero `AbortAllLeavesNothing` says that there is nothing left to count.

Only model-checked: the liveness properties `JobsFinish` and `CallsReturn`.

## 8. Where the code and its comments disagree

Item 1 is shown by the run `netchan_two_streams`, which TLC must find violated.  The others
are statements of the modules that no run checks; TLC finds each violated within seconds or minutes
with the configuration named.

1. *Confirmed but not delivered* (`NetChan`, `ConfirmedMeansDelivered`).  `ProcessPacket` reads the
   fragments of both streams and drops the datagram if the second cannot be read,
   but the first stream's fragments are already counted (`net_chan.cpp:1838`).  The
   retry counts them again; the transfer then has too many fragments, is refused by
   `CheckReceivingList` after the bit was flipped, and the sender drops it as sent.
   The same cause can block a stream: when it meets the last fragment of a transfer, the
   transfer is handed over with the next reliable datagram, the retry finds no buffer and is
   refused each time (`HeaderComing` fails in the same configuration with `MaxLosses = 1`).
2. *A file mixed from two* (`NetChan`, `DeliveredIntact`; `netchan_clear.cfg` with `MessageBytes = {1}`,
   `FileBytes = {3}`, `Outcomes = {"ok"}`, `NET_MAX_PAYLOAD = 8` and `MaxMessages <- TwoFiles`).
   After `Clear` on the sender the
   receiver keeps its half-filled buffer; when the header of the next file is lost,
   its later fragments go into that buffer, although the comment at `net_chan.cpp:1810` means them to wait for
   the header.
   So does a handler that fails without closing the connection: `CheckReceivingList` returns before it frees the
   buffer (`net_chan.cpp:2594`), fragments of the next message whose header is lost are counted in it, and
   that message is confirmed but never handed over (`ConfirmedMeansDelivered`; `netchan_reliable.cfg` with
   `Outcomes = {"ok", "fail"}`, `MessageBytes = {2}`, `MaxFragments = 1`, `MaxChokes = 0` and `MaxSeq` 6 and 4).
3. *Two datagrams put together* (`SplitPacket`, `Intact`; `splits.cfg`).  `Clear` sets the channel's
   split number back to 1 (`net_chan.cpp:3338`), and so does a new channel to the same
   address; the receiver's entry lives on for 15 seconds.  A piece of an old datagram
   and one of a new with the same number complete each other.
   The marks of completed datagrams stay too, so that pieces of a new datagram with an
   old number may be taken for duplicates, and it is not returned though all its pieces
   arrived (`Assembled` fails in the same configuration).
4. *An infinite wait returns false* (`EventUsers`, `InfiniteWaitsSucceed`; `event.cfg` with
   `m_bManualReset = TRUE`, `Limited = {}`, `TimeoutTakesSignal = TRUE`).  On a manual event the infinite wait polls
   every 10 ms.  `bRet = ( ret == 0 )` is set from the poll before the event is looked at, so a
   thread whose poll times out just after `Set` woke another one leaves the loop with
   false.  `CThreadRWLock` ignores the result and is not affected.
5. *Created and deleted by one update* (`Snapshots`, `DeletedNotTransmitted`; `snapshots.cfg` with
   `ImmediateReuse = TRUE`, `InitialSlots = {}`, `MaxTick = 3`, `MaxRequests = 0`, `MaxQueue = 2`). 
   `SV_WriteDeletions` spares a slot
   whose entity was replaced and is in the update (`sv_ents_write.cpp:781`), but only looks when the slot was in the
   snapshot the client acknowledged; for a slot beyond its `m_nNumEntities` the deletion is written behind the entity's
   creation, and the assert of line 796 fails.  It needs an edict that is allocated for the
   first time, freed and reused at once after `ED_AllowImmediateReuse` (callers:
   `game/server/entitylist.cpp:1835`, `game/shared/teamplayroundbased_gamerules.cpp:2177`) before the client acknowledged it.
6. *Not first in, first out* (`TSQueue`, `Fifo`; `tsqueue.cfg` with 5 nodes, `MaxPush = 4`, `MaxPop = 2`).  `tslist.h:6`
   calls `CTSQueue` "FIFO".  `Push` links its node with an exchange on `pNext` of what it read as the tail and
   neither looks again whether that node is the tail nor has a count.  When the node was popped, freed
   and taken by another push (which sets its `pNext` to `End()`), the exchange succeeds, and the item hangs
   behind a node that is in nobody's queue until that push links it: it is overtaken by later items of its own thread,
   and `PopItem` may return false meanwhile.  It takes two threads that push.
7. *A serial job overtakes* (`ThreadPool`, `SerialInOrder`; `jobs.cfg` with `Queued = {}` and `Program <- Program132`).
   `jobthread.h:86` says of `JF_SERIAL`: "Job cannot be executed out of order relative to other "strict" jobs".  `AddJob`
   executes a job without `JF_IO` and `JF_QUEUE` in place when no worker is idle (`jobthread.cpp:713`), before serial jobs
   that wait in the first worker's queue.  Queued serial jobs overtake too when their priorities differ (`SerialInOrder`
   fails in `jobs.cfg` as it is): `CJobQueue::Pop` looks at the highest priority first (`jobthread.cpp:139`), so a serial job of a
   higher priority is executed before one of a lower priority that was added earlier and still waits.  With three
   priorities a later one of a lower priority can overtake as well, if the earlier one is added behind the back of a scan that has
   passed its priority.

Smaller things met on the way, which no model shows: the overflow loop of `CJobQueue::Push` services the
job that is pushed instead of the one that was popped (`jobthread.cpp:108`; `m_nMaxItems` is never reached);
`ExecuteToPriority` does not look at the result of `Pop` (`jobthread.cpp:864`, `888`); a file of
0 bytes is taken off the waiting list as sent without anything being sent (`CreateFragmentsFromFile`,
`net_chan.cpp:1485`); a job is `IsFinished` before its cleanup
ran and its event is set (`jobthread.h:1383`).

## 9. Not modelled, and what could come next

`PROJECT.json` lists every component with what is left out of it.  Not modelled at all: rendering, sound,
user interface, game content and tools (numeric, device code or batch programs); matchmaking and the game
coordinator (driven by services outside the repository); the host's state machine and the console
(sequential, their steps load files); resource handles and the data cache (one mutex around a table).

In the order of use:

1. `Signon`: spawn counts and signon states of the two ends over `ReliableStream`.
2. String tables, whose updates ride on the acknowledgements of `Snapshots`.
3. Reference counts of snapshots and packed entities that clients share.
4. `CThreadSpinRWLock`, one compare-and-swap word for readers and the writer.
5. `ExecuteToPriority` and per-frame jobs of the thread pool.
6. Proofs: the refinement of `ReliableStream` with `Clear` where no transfer needs more than one datagram.
