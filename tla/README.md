# A specification of gonet

gonet is a user-space TCP/IP stack in Go: it reads IP packets from a TUN device,
dispatches them by protocol, fragments and reassembles them, answers ICMP echo
requests, and is growing a TCP. This directory holds TLA+ modules of its
stateful parts, configurations that check them with TLC, and proofs of their main
properties for TLAPS. Every definition is written from the source; file names
below are relative to `src/internal/`.

How the files are used, from this directory:

    tlc -config Handshake_safety.cfg MCHandshake     # one run
    tlapm HandshakeProofs.tla                        # the proofs of one component

`PROJECT.json` lists the runs with their modules, which definition stands for which
lines, and the theorems.

## 1. Inventory

| component | source | state | operations | modelled |
|---|---|---|---|---|
| TCP handshake | `tcp/conn.go`, `tcp/handshake.go` | the TCB: state, `sndISN/sndNXT/sndUNA/sndWND`, `rcvNXT/rcvWND`, `mss` | `sendSYN`, `handleSYN`, `handleSYNACK`, `handleACKInSynReceived` | `Handshake`, `HandshakeSteps`, `Session` |
| TCP state machine | `tcp/state.go` | current state, callback, lock | `Transition`, `SetOnTransition`, `Current`, `Is` | `TcpState`, `StateMachine` |
| connection table | `tcp/conn_table.go` | connections by 4-tuple, listeners by port, atomic port counter | `Register`, `Remove`, `Lookup`, `LookupOrListener`, `RegisterListener`, `RemoveListener`, `EphemeralPort` | `ConnTable`, `ConnTableTickets` |
| IP fragmentation | `ip/fragment.go` | none | `Fragment`, `NeedsFragmentation` | `Fragmentation` |
| IP reassembly | `ip/reassembly.go` | fragment groups by key, statistics | `Add`, `cleanup`, `Start`, `Stats` | partly: `Reassembly` |
| read loop | `tun/loop.go` | context, wait group, counters | `Start`, the loop, its handler goroutines, `Stop`, `Stats` | `ReadLoop` |
| dispatcher | `ip/dispatcher.go` | handlers by protocol, four atomic counters | `Register`, `Dispatch`, `Stats` | `Dispatcher` |
| ICMP echo | `icmp/icmp.go`, `icmp/handler.go` | none of its own; draws from the shared ID generator | `ParseEcho`, `NewEchoReply`, `Marshal`, `HandleIPPayload` | `Icmp` |
| TUN and raw devices | `tun/tun.go`, `tun/raw.go`, `tun/factory.go`, `tun/ioctl_linux.go` | file descriptors | `Open`, `Read`, `Write`, `Close` | partly: `Devices`, and their reads in `ReadLoop` |
| TCP header codec | `tcp/header.go` | none | `ParseHeader`, `ParseOptions`, `Marshal` | `TcpHeader` |
| checksums | `ip/checksum.go`, `tcp/checksum.go` | none | one's complement sums, computing, verifying, combining | `Checksums` |
| IP header, builder, parser | `ip/header.go`, `ip/builder.go`, `ip/parser.go` | the ID counter | `ParseHeader`, `Marshal`, `BuildWithOptions`, `Parse` | partly: `IpHeader` |
| configuration | `config/config.go` | the configuration being put together | `Load`, `Validate` | `Config` |
| command | `cmd/gonet/main.go` | none | start (the overlay by flags), version | partly: `Config` |
| logging | `log/log.go` | none | | no: nothing of its own to go wrong |

How they interact. The read loop calls `Dispatcher.HandlePacket` in a goroutine of
its own for every packet; the dispatcher calls the handler of the packet's
protocol, and the ICMP handler builds a reply with the IP builder and writes it to
the device the packet came from. The start command stops after the
configuration: `cmd/gonet/main.go:56` leaves putting the parts together as a
TODO. `Stack` puts them together the way their interfaces ask for
(`HandlePacket` "required by the read loop", `ip/dispatcher.go:55`).
`ReassemblyBuffer` and the TCP code are complete packages with tests, but
nothing calls them yet. So the owner of the loop and the device, and the callers
of `TCPConn`, `ConnectionTable` and `ReassemblyBuffer` are external in the models:
they use the operations as their comments and tests say, and each choice is
named below.
A `TCPConn` owns a `StateMachine`, sends through an output function it was given,
and is kept in a `ConnectionTable` under a key whose source is the local end.

What is hard in this code, and what makes each part correct:

* **Handshake.** Handlers change the TCB first and ask the state machine last.
  Segments are lost, duplicated, reordered, and left over from earlier
  connections; output may fail between the change of the TCB and the change of
  the state; sequence numbers wrap. Correct: two established ends agree on both
  initial numbers, on the MSS and on each other's window, and no end believes in
  a connection that the other never made.
* **State machine.** The callback runs under the lock, concurrently with other
  transitions and readers. Correct: callbacks form a chain, readers agree with it.
* **Connection table.** `EphemeralPort` interleaves an atomic add, a
  compare-and-swap and a scan under a read lock with other callers, and its
  answer is used only later, by `Register`. Correct: a port is not given out twice
  within a lap, the search ends, the table holds what was registered by whom.
* **Fragmentation and reassembly.** Completion is decided by counting bytes while
  fragments come in any order, more than once, and fragmented again. Correct:
  nothing but what was sent is delivered, a complete group does not wait,
  every group goes away.
* **Read loop.** `Stop` races with the loop, with the closing of the interface and
  with another `Start`. Correct: after a successful `Stop` nothing reads, a
  shutdown is not an error, `Stop` succeeds, loops end.
* **Dispatcher, ICMP and device.** Goroutines dispatch packets while handlers are
  registered and replaced, counters are read and the device is closed. The
  boundaries of a payload come from three lengths that may disagree (what was
  read, the header length, the total length). Correct: every packet has one
  outcome, goes to a handler in force, and every request that arrived whole is
  answered once, with the right bytes.
* **Codecs and checksums.** Padding, lengths in 4-byte units, fields that share a
  word, carries, checksums computed over a field that must be zero. Correct: what
  one end marshals the other one parses to the same, and a change is noticed.
* **Opening and configuring.** Any of six system calls may fail after a descriptor
  was opened; settings come from three places. Correct: nothing leaks, and what
  `Validate` accepts is taken by the other packages for what the user meant.

The complete list of hazards, each at its line, is in `PROJECT.json`.

## 2. The modules

Each module is one component. A definition named `X` directly above another one
that it could stand in for (`SuccUnwrapped` above `Succ`, `StoreAgain` above
`Store`) is a plausible wrong version of it: with the wrong version in its place
the properties that are meant to notice it fail. They are not part of any
specification otherwise.

### TCP: `TcpState`, `Handshake`, `HandshakeSteps`, `Session`

`TcpState` is `validTransitions`. `Handshake` has the two `TCPConn` as records
(`client`, `server`), the `wire` (every segment ever sent) and the initial
sequence numbers that each host has drawn. One handler call is one step, with
everything it does: changes, output, transition. `handleSYN` includes
`sendSYNACK`, `handleSYNACK` includes `sendACK`. In each of them either the
segment goes out and the transition is made if it is valid, or output fails and
the changes made before it stay.

* The wire never forgets: a segment may be delivered again at any time
  (duplication), late (reordering), or never (loss).
* `RestartClient` and `RestartServer` put a new `TCPConn` in place of the old one and
  leave the old segments on the wire.
* `uint32` arithmetic is modulo `SeqMod`. A segment without MSS option has
  `mss = 0`; `negotiateMSS` ignores both.
* *Assumptions.* (1) `FreshISN`: a host does not draw an initial sequence number
  twice. The code's numbers are random plus clock and repeat with small
  probability; without this no handshake can tell old segments from new ones.
  (2) One handler of a `TCPConn` runs at a time. (3) Callers call a handler in
  the state that its comment names (`ActiveOpen`, `Deliver...`); the handlers
  themselves check only the flags and the acknowledgment.

`HandshakeSteps` drops (2): the read loop gives every packet a goroutine of its own
and `TCPConn` has no lock. A handler is two steps: it changes the connection and
sends (`Start...`), and later makes its transition (`FinishHandler`), with other
handlers in between; a segment that no handler is for, or that the handler
refuses, is dropped and gone (`Drop`). `carried` says which segments have been handed
over; `MayDuplicate` allows one to come twice. The first step is still whole: `Is`,
`Transition(LISTEN)` and the changes of one handler, whose fields the code writes
without a lock, are not cut up further.

`Session` is the promise as seen from outside: sessions with names, a client that
opens one when nobody is in one, a server that only joins one a client opened,
never two different ones at a time. `Handshake` implements it with the pair of
numbers `<<client's next, server's next>>` as name. `HandshakeSteps` implements the same
`Session` on a wire that repeats nothing, where an end counts as in its session as
soon as its handler owes only the transition.

### `StateMachine`

`Transition` holds `mu` across the callback, so it is two steps, the change
(`Transition`) and the call (`Callback`, which ends with the unlock). Nothing but
`Current` and `Is` is read by others; `CanRead` is when they can. `believes` is what
each callback was last told. Callbacks do not use the `StateMachine` themselves:
`mu` is not reentrant and such a callback would block for ever.

### `ConnTable`, `ConnTableTickets`

Methods under `ct.mu` are one step. `EphemeralPort` is `Add` (the atomic add and the
comparison with 65535), `Wrap` (the compare-and-swap) and `Scan` (the look at the
table under the read lock). A caller (external) asks for a port, registers a
connection from it to some remote endpoint, and later removes that connection.
`ConnTableTickets` adds a history to it: how many additions there were, at
which of them each caller got its port, and how many a caller has made since
anyone else touched the counter or the table (`attempts`). `CounterBound` bounds the counter's
additions past the range; the code's bound is that of `uint32`.

### `Fragmentation`, `Reassembly`

A packet or fragment is its key, flags, offset and payload, in blocks of
8 bytes; an MTU is the number of blocks it leaves for payload. `Fragment` yields
the set of pieces. In `Reassembly` a sender cuts packets with it; a network, chosen in the initial
state, loses and reorders, has routers that cut fragments again (`Forward`) when it
has links with `mtus`, and duplicates when it `duplicates`. `Add` and `cleanup` are one step each. A group's
`createdAt` is an `age` in ticks of the cleanup: the ticker fires every 10 s and
evicts what is older than 30 s, so a group survives three ticks and goes at the
fourth (`MaxAge = 3`). Every packet has a key of its own: the reuse of a 16-bit ID
within 30 s is not modelled. Delivery to `onComplete` is part of `Add`'s step.

### `ReadLoop`

Each call of `Start` runs one loop (`Loops`), which is at the check of the context,
about to call `Read`, or blocked inside it. What a `Read` does depends on the
`device`: a TUN device waits for a packet, and goes on waiting when its descriptor
is closed (`Close` is a bare `close(2)` on a descriptor opened blocking); a raw
socket does not support `Read` and fails at once; any other `PacketIO` ("pipe", such as
those of the tests) may end a `Read` when it is closed. `Read` returns a packet, `EINTR`,
or another error. The count of a packet and the start of its goroutine
(`tun/loop.go:97-105`) are one step, so the moment in which a packet is counted and has
no goroutine yet is not seen. `wg` is the wait group. One flag `cancelled` stands for the
contexts because every loop looks at the current `r.ctx`: `Start` makes it a fresh
one for the loops before it as well. (The field is read and written without
synchronisation; reading the old value is reading it before `Start`'s step.) The
owner calls `Start`, `Stop` and `Close` in any order; `orderly` records whether it was a
careful one so far: one that closes the interface only after a `Stop` and starts
again only after a `Stop` that succeeded, on an open interface that did not fail.
`NoErrorOnShutdown` is about such owners. `StopTimesOut` needs a loop that is blocked in
`Read`: five seconds are enough for everything else.

### `Dispatcher`

One call of `Dispatch` a packet, in the steps that others can come between: the
atomic addition to `received`, the validation with the addition to `invalid`, the
lookup under the read lock, the addition to `dropped` or `dispatched`, the handler.
`Register` is one step under the lock. A call of `Stats` is its four loads, in their
order. `settled`, `registered` and `eligible` are history: how many outcomes there were
when `Stats` began, and which handlers a packet may go to.

The module has no bound on the packets; `Stack` has finitely many
(`FiniteAssumption` of `ReadLoop`).

A snapshot of `Stats` is no moment's: it may show more outcomes than packets
received, because `received` is loaded first. `SnapshotWithinCall` says what it is worth.

### `Icmp`, `Devices`

`Icmp` draws an identification and builds the reply (`BuildReply`), then writes it or
fails to; other handlers come between. `idGen` is `defaultIDGen`, which all builders
share. `Devices` is `Open` as a row of system calls, each of which may fail, with the
descriptors it opens and those the code closes when it fails; `Calls` is the row for
the kind of device, and the socket that `OpenTUN` configures the device with is
closed by `defer` on every way out.

### `Stack`

The device is opened, loops read from it, a goroutine a packet runs `Dispatch` and in
it the ICMP handler, which writes to the device. `Stack` extends `ReadLoop` and
instantiates the three others over its own variables; a step of `Stack` is a step
of one of them, or of the two that share it: the last step of a handler is also
the end of its goroutine (`Handle`), closing is a step of the loop's interface and of
the device. Packets are bytes: `Offered` is what the device has, `Raw` what the loop's
buffer of `BufSize` leaves of it. The owner registers handlers, starts, stops,
closes and reads statistics at any time after `Open` succeeded. What a peer asks
is told independently of the code's parsing: `Carries` says of the bytes offered that they are
a packet with an echo request in it (it looks at MF and the fragment offset as little as
`Dispatch` does; none of the run's packets is a fragment), `Meant` who asks whom for what, and `Asked` is
exactly the requests among the packets (`AskedAssumption`, which every run of the module
evaluates). The handlers are those that `icmp.Handler` registers (`HandlerAssumption`). `PacketsAccounted`
relates the two sets of counters: the dispatcher receives no packet that the loop
did not count, and when no goroutine is left every packet read has its outcome.

### `Bytes`, `Checksums`, `IpHeader`, `TcpHeader`, `Codecs`

Bytes are numbers below 256, packets sequences of them: `Bytes` has those types. `Checksums` has the sums as
the code folds them; `IpHeader` and `TcpHeader` the parsers, with each of their
errors, and the marshallers, with the padding and the shifts. A 32-bit number of a
TCP header is a pair of 16-bit ones. gopacket, which `Parse` uses for the upper
layers, is left out. `Codecs` is a channel: one end marshals an item, the network may
change a byte, the properties are what the other end makes of it. Its assumptions
are what the types and the lengths allow: bytes and words in their ranges, options
that fit into a header (`TcpHeadersAssumption`, `OptionFieldsAssumption`), a received
header whose options fill it (`IpHeadersAssumption`; its length may be below 20 bytes,
which `ParseHeader` accepts, and then `Marshal` panics at `ip/header.go:94-117`), and data of at most 65535 bytes
(`LengthAssumption`), so that the `uint32` in which the loops sum does not wrap.

### `Config`

`Load`, the overlay by flags and `Validate` are the three steps of the start command,
from files and flags that give any of the settings; decoding is the libraries'.
It has no state in common with the codecs and is as small, so `MCCodecs` runs the two
side by side. What the other packages make of an accepted configuration is
written from them: `BindAddress` is what `OpenRaw` binds to, `OpenModes` what `tun.Open` knows,
`ZapLevels` what the logger parses, `FragmentsFit` what `Fragment` needs. No code hands the settings to them yet;
that `DeviceIP` is for `tun.Config.BindIP` is taken from the comments, and it is the only address there is for it. `Validate`, which "ensures that all configuration
fields have valid values" (`config/config.go:76`), takes IPv6 addresses for it in every mode (line 84),
and `OpenRaw` refuses an address without an IPv4 form (`tun/raw.go:52-56`): raw mode with an IPv6 `DeviceIP`
is accepted here, in the run's states too, and cannot be opened. `AcceptedConfigMeant` says what is left: an
address that `OpenRaw` binds to is the one that was given, and not every address because it was not understood.

## 3. What is checked

All runs are exhaustive for their constants. Deadlock checking is on except where
the system may really stop (all ports used up, everything handled).

| run | bounds | shows |
|---|---|---|
| `Handshake_safety` | 3 initial numbers a host, failures, restarts | `SequenceAgreement`, `ParameterAgreement`, the inductive invariant `IInv`, that `Handshake` implements `Session`, and that without faults an active open completes (`HandshakeCompletes`) |
| `Handshake_steps` | the same, overlapping handlers, nothing duplicated | the same agreements, `StepsImplementSession`, `CompletesUnlessOvertaken` |
| `Handshake_overlap` | 3 numbers, duplicates, no faults | **violation**: overlapping handlers of a duplicated segment break the agreement |
| `StateMachine_callbacks` | 3 goroutines, 2 callbacks | `CallbacksChain`, `ReadersAgree` |
| `ConnTable_ports` | 3 callers, 3 ports, 9 additions (two wraps of the range) | `TableOwnership`, `LapApart`, `AttemptsBounded` |
| `ConnTable_first_port` | 1 caller, 3 ports | **violation**: the first port is never tried again after a wrap |
| `ConnTable_demux` | as above, a listener outside the range | **violation**: no orientation finds both connections and listeners |
| `Reassembly_network` | packets of 5 and 2 blocks, the second with DF; MTUs 1 to 4; a network that duplicates, and one that fragments again to 1 or 2 blocks | the type invariant, `DeliveredIntact`, `NoCompleteGroupWaits`, `GroupsExpire` |
| `Reassembly_overlap` | the same on a network that does both | **violation**: a packet with a hole is delivered |
| `Stack` | 2 starts, 5 packets (padded, with options, longer than the buffer, no request, no handler), 2 ICMP handlers, the three kinds of device, at most `MaxActivity` = 4 things going on | `QuietAfterStop`, `NoErrorOnShutdown`, `LoopsEnd`, `CountersBalance`, `SnapshotWithinCall`, `HandlerInForce`, `PacketsAccounted`, `NoDescriptorLeak`, `RepliesAnswer`, `EveryRequestAnswered` |
| `ReadLoop_stop` | 1 start, 1 packet | **violation**: `Stop` times out while the loop waits for a packet |
| `Codecs` | headers with values at both ends of their fields, all option fields of 4 bytes below 6 and the longest, all data of up to 4 bytes in {0, 1, 255}, every byte changed by 1, 128 or 255, configurations on both sides of every limit | `SegmentsArrive`, `ForeignOptionsKept`, `PacketsArrive`, `ChangesDetected`, `PartsCombine`, `AcceptedConfigMeant` |

Why the bounds are enough. A wrong handshake needs an old incarnation's segment
and a new one of each end, that is two or three initial numbers a host; with
three, every sequence number also wraps. Windows and MSS need two different values.
Three callers are what it takes for one to reset the counter late, after a second
wrapped it and a third took a port. Overlaps need a fragment of at least two
blocks that is cut again, beside an uncut copy. Two starts are enough to lose a
cancellation. In `Stack` the loops started, the packets read, the handlers registered, a
call of `Stats`, a cancellation and a `Close` count as activities, and any four of them
take place together, in every order: two packets race with a
registration and with the closing of the device, a handler is replaced under a
packet, two loops share a cancellation. `MaxPacket`, the longest packet of the builder,
is 40 instead of 65535 in `Codecs`, so that packets on both sides of it are built.
For the properties listed in the next section the size does not matter: they
are proved for every value of the constants.

Fairness. `Handshake_safety` assumes weak fairness of each delivery: a segment that
stays deliverable is delivered. The code retransmits nothing, so a lost SYN is
final; the property says that nothing but loss, failure or a restart can keep
the handshake from completing. `Handshake_steps` assumes that some segment under way is
handed over, and that handlers run on to their transition. `Reassembly_network` assumes the ticker,
which runs until the stack stops. `ConnTable_first_port` assumes that
a goroutine inside `EphemeralPort` keeps running. `Stack` assumes that goroutines that can run do:
loops come to their `Read`, a `Read` that must fail does (`LoopFairness`), and the
goroutine of a packet goes on. Nobody has to send, start, stop or close.

### What the violations say

* `Handshake_overlap`: a handler changes the connection and sends before it asks for
  its transition (`tcp/handshake.go:72-80`, `94-104`). Two handlers of the same SYN
  both find a listening server; the second overwrites the initial number that the
  first one has sent, and is refused only by `Transition`. Two SYN-ACKs with different
  numbers are under way, and two handlers of the client that overlap in the same way take
  one each. The acknowledgment of the later number establishes the server; the
  client is established too, but its second handler has put the earlier number in
  `rcvNXT`, so the two ends disagree. `TCPConn` needs a lock around each handler, or
  the transition has to come first. A caller that ignores the state of the
  connection gets the same without any concurrency.
* `ConnTable_first_port`: the wrap stores `49152+1` and retries
  (`tcp/conn_table.go:139-140`), so 49152 is left out from then on.
* `ConnTable_demux`: connections are found by the local orientation of the
  4-tuple and listeners by the packet's (`tcp/conn_table.go:102-106`).
* `Reassembly_overlap`: `received == totalLen` (`ip/reassembly.go:109`) counts
  overlapping bytes twice.
* `ReadLoop_stop`: cancelling the context does not end a blocked `Read`
  (`tun/loop.go:76`, `115`).

## 4. What is proved

Eight modules prove what follows for every value of the constants that satisfies
the named assumptions of the modules. Each proof goes by an inductive invariant,
with a step for each action. The subtle ones (`IInv` of `Handshake`, `StepsInv`, `RoundInv`) were
checked with TLC on the runs' instances before they were proved; `IInv` still is one of a
run's properties.

**`DispatcherProofs`**: `Balanced`, `SnapshotsBounded`, `LatestHandlerUsed`. `CountersBalance`
is not inductive because `received` runs ahead of the outcomes; `OneOutcome` says
by how many packets, those between the two additions. `SnapshotLags` follows a call of
`Stats` load by load: a loaded value is a lower bound of its counter, and with the counters
still to be loaded they reach what was settled when the call began. For handlers:
the map holds what was registered last (`MapHoldsLatest`), and what is registered is eligible for
the packets under way (`CurrentEligible`). The first two need finitely many
packets, which are `received`.

**`StackProofs`**, on the read loop alone: `TypeCorrect`, `StopQuiets`, `ShutdownIsNoError`. That nothing runs
after `Stop` returned follows from `LoopsCounted`: `wg` is the number of running loops,
those included whose context another `Start` replaced. (It also bounds the errors
counted by the loops that ended.) `PacketsOnce` says that no packet is in
two places. For the errors it takes `StopInForce`: an orderly owner closes the interface only
under a `Stop`, which is in force until the next `Start`, so an error that a `Read`
returns then finds the context cancelled.

On the stack: the composition implements its parts, `ImplementsReadLoop`,
`ImplementsDispatcher`, `ImplementsDevice`: every step of `Stack` is one of the part or leaves
the part alone. So what is proved of the parts holds of the whole:
`StackStopQuiets`, `StackShutdownIsNoError`, `StackBalanced`, `StackSnapshotsBounded`,
`StackLatestHandlerUsed`. Three theorems are about the parts together. `StackAccounts` is
`PacketsAccounted`, from `Together`, that the goroutine of a packet is over exactly when
its `Dispatch` is, and from packets read being those that left the interface. `StackLeaksNoDescriptor`
is `NoDescriptorLeak`, from an invariant of `Open` (`DescriptorsInv`): before its first
call nothing is open, and each later call closes the device if it fails.

`StackRepliesAnswer` is `RepliesAnswer`, for any packets and any bytes in them. It
has three parts. What the handler reads is what the sender meant (`RequestRead`):
from what `Dispatch` checks, header, total length and buffer bound the payload, so that options,
padding and the cut of the buffer take nothing from the request and add nothing to it. What it
writes answers that (`ReplyAnswers`): the message and the header are built as
`MessageVerifies` and `BuiltBytes` say, and `Dispatch` and `ParseEcho`, given the reply, would read
the same from it. And what is written was built by a handler (`RepliesInv`): only
packets that `Dispatch` accepted and that are ICMP come to one (`HandedInv`), and the
identifications drawn so far are 1, 2, 3 and so on modulo 2^16. The hypothesis, at most
65536 packets, is for the last conjunct alone: the counter of 16 bits comes round after that.

**`ReassemblyProofs`**: `FragmentsTile`, that the fragments of a packet, or of a fragment of one,
fit the MTU, do not overlap and cover it; `TypeCorrect`, with facts about `Add`, and
`IntegrityOfDelivery` and `CompletionNoticed`. What is delivered is intact because of `IntactInv`:
what the network carries was cut from packets that were sent and any two fragments
of one packet are the same or disjoint (`WireInv`); the fragments of a group are disjoint
parts of one packet and `received` counts the blocks they cover (`GroupsInv`); a fragment under way is disjoint from
those in its group, or a duplicate of one of them (`MeetInv`). Disjoint parts that
add up to the length leave no hole. Both theorems have the hypothesis `OneFaultEach`: no network both
duplicates and fragments again. `Reassembly_overlap` shows that it is needed.

**`HandshakeProofs`**, on `Handshake`: `TypeCorrect`, `SequencesAgree`, `ParametersAgree`, `Refinement`
(the last: `Handshake` implements `Session`). All follow from `Invariance`, that
`IInv` is inductive. Agreement alone is not inductive: it says nothing of the
segments under way that will establish an end later. `IInv` adds that each
segment carries the numbers of a real incarnation (`WireInv`), that an end which
is under way has its own segment on the wire (`ClientInv`, `ServerInv`), and
`NoLaterSession`, the heart of it: while the server is in, or about to enter, a
session that some client incarnation completed, no SYN-ACK on the wire
acknowledges a later incarnation. The server answers one SYN per incarnation,
and the later client's SYN was sent after the server's answer to the earlier
one, with a number never drawn before.
The arithmetic needed is that `Succ` is injective on `0 .. SeqMod - 1`.

On `HandshakeSteps`: `StepsTypeCorrect`, and on a wire that repeats nothing
(`~MayDuplicate`; `Handshake_overlap` shows that it is needed) `StepsAgreeOnSequences`,
`StepsAgreeOnParameters` and `StepsRefinement`. `StepsInv` is `IInv` told by steps: an end counts
from the first step of its handler on, `ClientEnd` and `ServerEnd` say what it has
sent and which transition it owes, `NoLaterStep` is `NoLaterSession` from there on.
New is `AnsweredOnce`: a segment that was answered has been handed over, and is not handed
over again, so each SYN has one SYN-ACK at most and no second handler of the same
segment replaces the number that the first one sent.

**`ConnTableProofs`**: `TypeCorrect`, `OwnershipHolds`, `LapsApart` and `AttemptsWithinALap`, for any number of
callers. The invariant of `LapsApart` is `TicketInv`: since a caller took its port
the counter has either only been added to, or it has come past the end of the
range, and then the additions since count at least that way. A reset in between
breaks neither, because the compare-and-swap fails if anyone has added.
That of `AttemptsWithinALap` is `RoundInv`: the ports an undisturbed caller has tried
without success are those from where it began to the end of the range (`FirstRound`), and then
those from the start (`SecondRound`), so a free port is still ahead of it.

**`StateMachineProofs`**: `TypeCorrect`, `CallbacksInOrder`, `ReadersAgreeWithCallback`.
The strengthening: whoever has a change to announce holds the lock, and what a
registered callback believes is the state before that change.

**`IpHeaderProofs`** has the lemmas on bytes, sums and the IP header and its builder that
`StackProofs` and `CodecsProofs` share, for any data.

**`CodecsProofs`**: `SegmentsParse`, `PacketsParse`, `ChangesShow`, `PartsSum`, `ForeignOptionsReadBack`. Here
the invariant is simple (`WireInv`: the wire holds what was marshalled from the item,
perhaps with a byte changed); the work is in lemmas about the operators, for
data of any length:

* the folded sum is the remainder of the sum modulo 65535, and 65535 rather than 0
  for data that are not all 0; so the order of pairs does not matter, parts combine, a
  field that holds the complement of the rest makes the whole verify, and a
  change of one byte changes the remainder;
* `Marshal` of an IP header writes the bytes (`Says`) that `ParseHeader` takes the same header
  from (`ParsedHeader`);
* the options of a TCP header, marshalled with their padding, are parsed to the same
  options; what `ParseOptions` finds in bytes of another implementation is well-formed,
  takes no more bytes marshalled again than it was found in, and so is found again.

`ConfigTakenAsMeant` is `AcceptedConfigMeant` of the start command, for any files and flags whose MTU and
address, where they give one, are of their types (`SettingsAssumption`): what is accepted is valid, and
nothing is overlaid after that; `Open` and the logger know what `Validate` lets through, `Fragment` and the
builder can work with the MTU, and `OpenRaw` binds to the address given or refuses it. That it
does not refuse it is not so (section 2): the theorem does not say that what is accepted can be opened.

Induction over data. The library's induction theorems take an operator as a
parameter, which the provers cannot instantiate. `IpHeaderProofs` therefore states
induction over sets: `LeastNumber`, from the library's theorem that the strict subset ordering
of finite sets is well-founded, gives `UpwardInduction` and `StrongInduction`, about a set of
numbers that is closed under successors. With them the recursive functions
of the sums and of the option parser, which TLA+ defines by `CHOOSE`, are shown to exist and
to satisfy their equations.

Only model-checked: liveness (`HandshakeCompletes`, `CompletesUnlessOvertaken`, `GroupsExpire`,
`LoopsEnd`, `EveryRequestAnswered`), which rests on fairness and so on `ENABLED`, outside the prover's
reach. Every safety property of a passing run is a theorem.

## 5. What is not modelled, and what is left

Not modelled within the components above:

* steps within a handler of `TCPConn` before it sends: the code writes the fields
  without a lock, and `HandshakeSteps` already shows what follows from handlers that
  overlap at all;
* retransmission, data transfer and closing of connections, and the path from the
  dispatcher to TCP or to `ReassemblyBuffer`: the code does not have them;
* padding behind a fragment: `Payload` (`ip/header.go:126-131`) runs to the end of the bytes as they were
  read and not to the total length, so `Add` (`ip/reassembly.go:94`) would count it. Behind the last
  fragment it would be delivered as part of the packet, whose total length is written anew; behind another one
  the count and the length would not meet. What `Reassembly` says is about fragments cut to their total length, as `Dispatch`
  cuts packets ("ignore ethernet padding if present", `ip/dispatcher.go:95`);
* an IPv4 header below 20 bytes in a fragment: `ParseHeader` accepts it, and `reassemble` would
  panic in `Marshal`. `Reassembly` has no header lengths; `Dispatch` refuses such packets;
* fragments in `Stack`: `Dispatch` gives them to the handlers as if they were packets, so the
  first fragment of an echo request is answered;
* a second `Remove` of a connection by an owner that no longer has it: `Remove` goes by the
  key and takes a later connection with the same key, in any behaviour;
* the end of a loop that is inside `Read` of a TUN device after `Close`: nothing ends it, and
  `LoopsEnd` leaves it out;
* a callback that uses its own state machine (it blocks for ever: `mu` is not
  reentrant); overflow of the port counter at 2^32, which needs that many additions
  between an `Add` and its compare-and-swap;
* reuse of a fragment's 16-bit ID within 30 s, which mixes two packets in one group in
  any implementation; the moment of `onComplete`, after the unlock, for which the code
  promises no order; the statistics of reassembly but `groupsActive`, and byte counts;
* the verification of received checksums: `Dispatch` and `ParseEcho` do none, although
  `ip/doc.go` and the repository's README speak of it, so in `Stack` the peer's checksums
  are not looked at either;
* TCP options of more than 40 bytes, which `Marshal` accepts and cannot express in the
  4 bits of the data offset (`newHeader` gives 4 bytes of options), and
  `ChecksumCombine` of a first part of odd length: the properties exclude both;
* what the kernel does with a closed descriptor's number (a handler may still write
  to it after `Close`), the arguments of the ioctls, gopacket's decoding, `ParseDebug`,
  the decoders of configuration files, logging and the wording of errors.

What is left. The fields that handlers of `TCPConn` write without a lock would need finer
steps than those of `HandshakeSteps`, and the reuse of a fragment's ID a `Reassembly` whose packets
share keys. Liveness waits for a prover that knows `ENABLED`. When the code starts the stack
(`cmd/gonet/main.go:56`), `Stack` is the module to compare it with, and TCP and
`ReassemblyBuffer` are the next parts to compose into it.
