# A TLA+ model of octopus-mahimahi

Mahimahi is a set of nested shells. Each one runs a command inside a network
namespace and does something to its packets: delay them, lose some, meter them,
record its HTTP traffic, or (mm-link) carry them over an emulated link that
follows a trace of delivery opportunities. This repository adds the router side
of Octopus to mm-link: a queue discipline that drops whole video frames when
their sender has said that they may be dropped.

These modules model the system as the C++ code implements it. Paths below are
relative to the repository's `src/` directory; `PROJECT.json` maps every
definition to the lines it stands for.

## 1. Inventory

| Part | State it keeps | Operations | Talks to |
|---|---|---|---|
| Link (`frontend/link_queue.cc`) | trace position, base of the trace, `finished_`, the packet in transit and its bytes left, `output_queue_`, the log | `read_packet`, `write_packets`, `wait_time`, `rationalize`, `use_a_delivery_opportunity` | called by the ferry loop; calls its queue discipline |
| Ferry loop (`packet/packetshell.cc`, `util/poller.cc`) | poll actions and their interest | poll, time-out, callbacks in the order they were added | TUN device, sibling TUN device, the queue |
| Disciplines (`packet/*_packet_queue*`, `drop_*_queue.cc`) | the queue and two size counters; for CoDel and PIE their controllers, for Octopus the frame table and the preempting frames, for ActiveNet the frame dropped last | `enqueue`, `dequeue` | called by the link, only through `AbstractPacketQueue` |
| Delay, loss, on/off, meter ferries (`frontend/{delay,loss,meter}_queue.cc`) | queues of packets and times, the state of the on/off link | the same three calls as the link | ferry loop, live graph |
| Live graphs (`graphing/binned_livegraph.cc`) | bins shared by two threads | add, advance, draw | ferry, display |
| Event loop and children (`util/event_loop.cc`, `child_process.cc`, `signalfd.cc`) | per child: running, terminated, exit status; pending signals | `handle_signal`, `wait`, `resume`, `~ChildProcess` | kernel, user at the terminal |
| Shell programs (`frontend/*shell.cc`, `meter.cc`, `packet/packetshell.cc`) | processes, privileges, environment, devices, firewall rules, files, web servers | set-up, fork, hand-over of descriptors, clean-up | kernel, each other |
| TCP relay and DNS proxy (`util/bytestream_queue.cc`, `dns_proxy.cc`) | ring buffers, end-of-file flags | push, pop, one poll loop per connection | sockets |
| HTTP parsers and proxy (`http/`, `httpserver/http_proxy.cc`) | message under way, queue of requests, chunk state | parse, pair, write, save | sockets, backing store |
| Replay (`frontend/replayserver.cc`) | the recorded pairs | best match | Apache, backing store |

What is hard to test here:

* The link is emulated lazily. Nothing happens at the time of a delivery
  opportunity; the next handler that runs, possibly late, makes up for all of
  them. PIE makes up for the periods of a timer it does not have in the same way.
* A discipline may drop several packets in one call, and the link learns of it
  only by comparing counters before and after.
* Octopus and ActiveNet recognise the rest of a dropped frame from one remembered
  number, while other frames, flows and resent packets come in between.
* CoDel's and PIE's state survives from call to call and uses unsigned differences.
* Children change state between any two system calls of the parent, and SIGCHLD
  is one bit for all of them.
* A shell is set up in some thirty steps by up to six processes, each of which may
  throw or be killed; everything is undone by destructors, some of which need
  privileges that another scope has given up.
* The thread of a live graph and the ferry move the same bins.
* A stream is cut into reads at any byte, also within a line break; where a response
  ends depends on a request that was written on the other connection.
* Either end of a connection closes, stalls or resets on its own.

What makes each part correct: the link sends every packet at exactly the
opportunity an ideal link would use, in order, and accounts for it in the log; the
other ferries release packets in order and on time and are never taken for a busy
wait; a discipline keeps its counters and limits exact, fails no assert and meets
the contract of the link; Octopus and ActiveNet keep frames whole; CoDel tolerates
a standing queue for an interval, PIE drops nothing before it has measured the link;
the parent misses no change of a child; a shell leaves neither a process nor a rule
nor a file behind, however it ends; a proxy is transparent, loses nothing it need not
and ends; what is recorded is paired right and found again.

`PROJECT.json` lists the single hazards with the properties that are about them.

## 2. Modules

```
PacketQueue          the contract of a discipline (AbstractPacketQueue)
  |-- LinkQueue          one direction of mm-link, over any such discipline
  |     |-- MC_LinkQueue     |-- LinkQueueProofs
  |-- DroppingQueue      infinite, droptail, drophead   -- MC_DroppingQueue
  |     |-- PieQueue  |-- ActiveNetQueue
  |           QueueDisciplines (all five)               -- MC_QueueDisciplines
  |                                                     -- QueueDisciplinesProofs
  |-- OctopusQueue       dropbitrate_dequeue            -- MC_OctopusQueue
  |                                                     -- OctopusQueueProofs
  |-- CodelQueue         codel                          -- CodelQueueProofs
BinnedLiveGraph      bins, lock and thread of a graph
  |-- FerryLoop          delay, loss, on/off and meter queues in their loop
  |                                                     -- FerryLoopProofs
EventLoop            parent, children and signals
        |-- MC_EventLoop     |-- EventLoopProofs
ShellSession         every program, its processes and what they acquire
        |-- ShellSessionProofs
ByteStream           what two peers may expect of a proxy
ByteStreamQueue      the ring buffer        HTTPParser   messages and bodies
                                              |-- ReplayServer  the best match
Proxy                one connection (Poller, sockets, DNS relay, HTTP proxy),
                     over the three above               -- MC_Proxy
Totals               sums of sequences, used by the disciplines
  |-- RecursionTheorems  induction, recursion, sums and quotients, for the proofs
```

`PacketQueue` and `ByteStream` are abstract specifications. `LinkQueue` uses the
first as the behaviour of its discipline (an arrival leaves any thinning of the
queue, a dequeue any choice the contract allows), and the discipline modules are
checked to implement it (`KeepsContract`, with the queue at the start of the call
standing in while a dequeue of several steps is under way). What is shown of the
link thus holds for every discipline that has been modelled. `Proxy` is checked to
implement `ByteStream` (`Transparent`).

**LinkQueue.** A ferry process is single-threaded, so a handler is a chain of steps
linked by `pc`, and only the clock moves between two of them (`Tick`, at most
`MaxLag` within a handler, freely in poll). `use_a_delivery_opportunity`,
`ContinuePacket`, `dequeue_packet` and `EndOpportunity` are the two loops of
`rationalize`; `wait_time`/`wait_time_returns` and `read_packet`/
`read_packet_enqueues` are its two callers before and after the call. `poll`,
`poll_timeout`, `write_packets` and `callbacks_done` are `Ferry::loop` with the
poller. `repeat` is chosen in `Init`, as the command line does. The log is kept as
history variables (`opportunities`, `departed`, `arrivals`, `drops`); `unlogged` counts
what a discipline discards in dequeue, which the link never hears of.

**DroppingQueue.** Every call is one action. `config` is chosen in `Init`. The loop of
drop head is one step: `HeadDrops` says how often it runs, and `failed` whether one
of its dequeues ends in a state that its `assert( good() )` rejects.

**PieQueue.** The controller is the record `pie`, with the names of the members. The
probability is an integer in units of its smallest step; the draw is any. `timer`
is the same controller driven by a timer, kept as history and restarted at each
dequeue: the comment at `pie_packet_queue.cc:139` is right about enqueues only, as
a dequeue removes its packet before it catches up.

**ActiveNetQueue.** Headers are drawn when a packet is offered, any from `Headers`,
whatever came before: the clean-up reads the same bytes of every packet, of any flow and
protocol (`drop_activenet_queue.cc:82`). So flows share message numbers, packets are
sent again and frames arrive in pieces or out of order. Whether there is a log matters,
because the clean-up writes to it without looking.

**OctopusQueue.** A sender puts the fragments of its frames on a flow in order, and may
send a packet again; headers are a function of the frame. `dequeuefront` is one
round of the loop in `dequeue`, since each round reads the clock again. The fair share,
which comes out of rate estimates, is any member of `FairShares`.

**CodelQueue.** The clock is read once per `dequeue`; entering the dropping state and
each round of its loop are steps. Unsigned differences are taken modulo `WORD`; a
count of 0, for which `control_law` is undefined behaviour, would allow any result.

**BinnedLiveGraph, FerryLoop.** A critical section of the graph's mutex is one action;
a value is the set of packets it is the sum of. The ferry is a chain of steps as in
`LinkQueue`: `wait_time` (with `switch` for each change of the on/off link that is made
up for), `poll`, `poll_returns`, `read_packet`, `write_packet`, `end_of_round`. Time
passes between any two of them, at most `MaxLag` from one `wait_time` to the next.
The thread of the graph starts before the member `initialize_new_bin_` that it calls is
constructed (`binned_livegraph.cc:28`). The model reaches that call and sets
`undefined`; no claim is made about the graph from there on.

**EventLoop.** The kernel's side is what the code relies on: a child has at most one
unreported change, SIGCHLD is pending or not. `search` and the three `wait_*` actions
are the loop of `handle_signal`, a system call each, so that children may change
state in between; `destroy`, `reap` and `all_destroyed` are the destructors. The
parent suspending itself is `wait_stopped`.

**ShellSession.** A program is the sequence of its steps, put together from one
sequence per function or constructor (`start_uplink`, `NAT`, `DNSProxy`, ...). `proc[p]` is
the state of a process: position, scopes it has entered, what it holds, its children.
`Call` takes a step, `Throw` starts unwinding at any of them, and the `Unwind*` and
`DestroyChild` actions run the destructors backwards. A block with a temporary
environment or without privileges ends in a step of its own (`ScopeEnds`, `LeaveScope`).
The event loop is abstracted to what `EventLoop` shows of it: `sigchld` holds the processes
with a SIGCHLD pending, one for all children that have ended (`Dies`), and
`LoopSeesChild` consumes it and looks at the first child it finds, no further, as
`event_loop.cc:62` does. A signal may leave the user's command running.

**ByteStreamQueue, HTTPParser, ReplayServer.** Pure operators on records that have the
members of the classes. A stream is a sequence of tokens: CR, LF and the bytes of
bodies one by one, while a first line, a header or a chunk size is one token. A header
has the number of spaces before its value, which the parser strips (`HTTPHeader`) and
`header_str` replaces by one. The two `while` loops of the parsers are recursive operators.

**Proxy.** `kind` chooses the DNS relay or the HTTP proxy. `poll` computes the interest
of the four actions and the state of the sockets, `serve` goes through them in order,
`write` is the blocking write of a message, one window at a time. `read_and_parse`,
`push`, `pop_and_write` and `write_message` with `sent` are the callbacks. Peers send,
close, reset and read when they like, and may stop in the middle of a message; a server
answers a request when it has all of it.

In all modules an `assert` that fails, or an exception that ends the process, sets
`failed` (EventLoop: `threw`; FerryLoop: `loop.thrown`; Proxy: `pc`), and the object takes
no further step.

## 3. Runs

| Run | Shows |
|---|---|
| Link | On a trace that starts at 0 and has two opportunities in a millisecond, repeated or with `--once`: `IdealLink` (in order, each packet leaves at the very opportunity of an ideal link computed from the packets alone, and none is held too long), `NoTimeTravel`, `SendAsserts`, `LogBalances`, `TypeOK`; and under fairness `OnceTerminates` (with nothing left unwritten) and `OpportunityIsUsed`. |
| LinkLog | *Violated*: the manual page calls a `#` line an unused opportunity. The code logs every opportunity before it knows. |
| Dropping | For the infinite queue, drop tail with both limits, drop head with a packet limit, PIE and ActiveNet: `QueueSound` (counters exact, limits met by all but ActiveNet, the newest packets survive in drop head) and `KeepsContract`. PIE: `DropsNeedRate` and `AsWithTimer`. ActiveNet: `DiesOnlyOverfilled` and `FrameNotTorn` (a frame under way loses a later packet only to another one with its number that gives way). |
| DropHeadBytes | *Violated*: with a byte limit an arrival may displace two packets; the first dequeue of the loop then fails its own `assert( good() )`. |
| Octopus | `CountersExact` (sizes, limits and frame counters, and no assert fails), `WholeFrames`, `PreemptedForNewer`, `KeepsContract`, with frames cut by the limits, preempted, dropped for their rate, and with the first or last packet of a frame sent again. |
| OctopusResend | *Violated*: a one-packet frame sent again while its first copy is queued fails an assert of `enqueue`. |
| Codel | `DropsLeaveOne` (and no assert fails), `DropsAfterInterval`, `CountsOrdered`, `KeepsContract`, through several dropping states. |
| Ferry | For the four simple ferries: `OnTime` (packets leave in order, neither early nor late, and the poller never takes the ferry for a busy wait), `SwitchedOnTime` (the on/off state is never staler than a round of the loop), `MeteredOnce` (each packet in one bin, the right one), and under fairness `SignalEnds`. |
| EventLoop | `MissedOnlyBehindFerry`, `ResumedTogether`, `RemembersTheTruth`, `NoOrphans`, and under fairness `ChildExitEndsShell`, `DestructionEnds`. |
| EventLoopFerries | *Violated*: two ferries that leave with status 77 behind one SIGCHLD; the search returns after the first and `NoMissedEvent` fails. |
| Session | With a failing step and a signal anywhere in any program: `NothingLeftBehind` (no process, rule, device, file or server), `StepsAreSafe` (privileges, environment and the device handed over are what each step needs), and under fairness `SessionEnds` (once any process has ended the shell ends, but for `FerryOverlooked`, the two ferries of EventLoopFerries, and `CommandStaysOn`, a command that was told to end and does not). |
| Proxy | `Transparent` (byte for byte through the relay, through the HTTP proxy but for the spaces before header values), `NothingLost` (a connection that ends by itself has delivered all, through the HTTP proxy but for a first line left unfinished), `PairedRight`, `AssertionsHold`, `ReplaysRecorded` (what the proxy has recorded, the replay server finds), and under fairness `EndsAfterClose`. |

Invariants that belong together are conjunctions of named parts; the type invariant
of a module is one of the parts (EventLoop's is proved, section 4). Deadlock is not checked:
every model ends at its bounds, and the programs end too.

### Bounds, and why they are enough

* Link: 3 packets of 2 or 3 bytes over opportunities of 3 bytes, so that a packet
  fills an opportunity, shares one or spans two; a trace of three entries gone
  through two and a half times by `MaxTime` 5; a handler that runs 1 ms late, which
  is enough to cross an opportunity. `--once` ends after the first round.
* Dropping: 5 packets against a limit of 3, sizes 1 to 3 against a byte limit of 5:
  each limit is met exactly, exceeded alone and together. PIE sees four periods of
  2 ms, a reference delay of 2 and samples of 2 bytes, so that the rate is measured and
  the probability rises and falls; ActiveNet's limit is 3 one-byte packets, its headers
  are first and middle packets of two message numbers and two priorities, and packets
  other than UDP that begin or end a frame of one of these numbers.
* Octopus: frames of 3, 2 and 1 fragments, two of them preempting with a threshold
  that does and one that does not reach the first; one flow of other traffic and a frame
  with slack; 4 packets and 4 bytes of room; one packet sent again; one clock tick,
  which is all that slack 1 can tell apart.
* CoDel: target and interval of 1 ms, 10 packets, 5 ms. Fewer packets never re-enter
  the dropping state with a count above 1. `WORD` is far above any time reached.
* Ferry: 2 packets, a delay and a longest sleep of 2 ms, rounds of at most 1 ms, bins of
  2 ms, on and off times of 0 to 3 ms so that several switches fall into one round.
* EventLoop: two ferries and one ordinary child, two suspensions: a ferry that leaves,
  another behind it in the search, and a child whose end ends the shell.
* Session: one failure and one signal; mm-delay stands for the four programs that set up
  the same way. A second failure during unwinding has nothing left to lead to but the
  leftover it causes itself, which `NothingLeftBehind` excludes.
* Proxy: a ring of 3 bytes for 3 bytes each way and a window of 2, so that it fills and
  wraps at each position; one reset. HTTP: two pipelined requests with one cut, or one
  request with two. A cut is a read that returns only a part, at any byte, or a peer that
  stops in a message at one of the places in `MCStops`: within the first line, between
  CR and LF, in the headers and in the body. Responses are of known length, chunked with
  and without trailers, ended by the connection, to HEAD, 304, and there is an interim
  one. Header values have none, one or two spaces before them, one is blank. The window
  of 6 is smaller than any message but the interim one.

### Fairness

* LinkQueue: a handler runs to its end and the clock goes on (weak fairness of `Step`
  and `Tick`); poll returns when its time-out has passed (weak fairness); the sibling
  TUN device is writable again and again, so poll eventually reports it (strong
  fairness, as the process leaves poll for other events in between).
* FerryLoop: the two threads run and the clock goes on (weak fairness).
* EventLoop: the parent runs unless it blocks or is suspended, and a child with the
  termination signal pending ends if it gets to run. Nothing is assumed of the user or
  of children that have not been told to end; the two liveness properties end in
  "or the parent is suspended" because only the user can end that.
* ShellSession: each process runs when it can (weak fairness of `Runs(p)`), and a trace
  with `--once` comes to its end. Nothing is assumed of failures, of signals or of the
  user's command, which may ignore what tells it to end (`child_process.cc:153`):
  `SessionEnds` then ends in `CommandStaysOn`.
* Proxy: the thread runs (weak fairness), and a peer that has not been reset reads when
  its window is full (weak fairness of `Take`). The second is about programs outside the
  repository: with a server that does not read while it sends, the blocking writes of the
  HTTP proxy can wait for ever. Nothing is assumed about answers or about closing.

## 4. Proofs

All proofs are checked by TLAPS, for every value of the constants under the named
assumptions of the modules.

`LinkAssumption`: the trace is non-empty, sorted and ends after 0, as the constructor
of `LinkQueue` demands; packets are between 1 byte and one opportunity long. Nothing is
assumed of the discipline beyond the contract.

* `Invariance`: `IInv == TypeOK /\ IncomingInv /\ TransitInv /\ TimelyInv /\
  NoTimeTravel` is inductive. `NoTimeTravel` by itself is not: it speaks of packets
  that have left. `TimelyInv` says the same of those that are still held, of the current
  opportunity while one is being used and of the next one otherwise. Its step for
  `read_packet_enqueues` is where the early `rationalize( now )` is needed, and its step for
  `use_a_delivery_opportunity` rests on `NextOpportunityIsLater` (the trace never steps
  back, at the wraparound included).
* `TypeCorrect`, `LinkNoTimeTravel` and `LinkSendAsserts` follow from it.
* `LogAccountsForAll`: `LogBalances` is inductive relative to `IInv`; the packet that is
  being sent is counted once, as in transit or as departed (`TransmitBalances`).
* `LinkIsIdeal`: the ideal link is a recursive definition over the packets that have
  left (`Service`), which says nothing of rounds of the trace, of packets in transit or
  of handlers. `IdealInv`, inductive relative to `IInv`, ties it to the variables of the
  code: `TraceInv` (the opportunity the trace stands at is number `Used + 1` of the ideal
  link), `RoomInv` (the room the ideal link has after the last packet is what
  `bytes_left_in_this_delivery` and `packet_in_transit_bytes_left_` say; everything queued
  has missed the last opportunity, or found it full), `DepartedInv` and `OrderInv`. It
  needs that the times of the opportunities never decrease and pass every bound
  (`OpportunityMonotonic`, `OpportunityComes`), so that the first one after an arrival
  exists and is the only one of its kind (`FirstAfterIs`).

`EventLoopAssumption`: at least one child. For any number of children and any
continue statuses:

* `Invariance` of `IInv` (types, `RemembersTheTruth`, and what the kernel and the indices
  of the loops guarantee), and from it `ObjectsRememberTheTruth` and
  `ParentLeavesNoOrphans`.
* `ParentMissesOnlyBehindFerry`: `Attentive => SearchInv` is inductive relative to
  `IInv`. `SearchInv` says that a child with something to report has SIGCHLD pending
  or is still ahead of the search. `AttentionIsLost` (a child that has left with
  its continue status stays so) lets the step assume both sides of it.

* `SuspendedAndResumedTogether` needs, besides these, that a stop the parent has taken
  from a child is followed by its own: no child stays stopped behind a parent that sleeps
  in poll.

`CodelAssumption`: a positive interval, packets of at most `PACKET_SIZE` bytes.

* `Invariance` of `IInv`: the three properties and what they rest on. `SizeInv` ties the
  counters to the queue, `VerdictInv` says that a verdict to drop leaves two packets,
  `TimeInv` that `first_above_time_` lies an interval after the last packet that waited
  little, `CallInv` that a call has taken a prefix of the queue it found. From it
  `CountsStayOrdered`, `CallsLeaveOne`, `IntervalIsTolerated` and `CodelKeepsContract`.

`OctopusAssumption`: the frames of a flow have increasing message numbers. For all flows,
limits and fair shares:

* `BaseInvariance` (types, the call has taken a prefix) gives `OctopusKeepsContract`.
* `FlowInvariance`, for a flow on which nothing is sent again: the queue is in the order of
  sending, a frame counter tells which ends of the frame are queued, and a dropper is
  queued behind every frame it may preempt. From it `FramesGiveWayToNewer`.
* `FramesDroppedAsAWhole`: `WholeInv` adds that packets leave once and in order, and that
  `msg_in_drop_` names a frame from its first packet dropped to its last.
* `CountersStayExact` assumes that no frame of one packet is sent again, without which it
  is false (run OctopusResend). A frame counter is the sum of the weights of the queued
  packets, whatever else is resent.

`DroppingAssumption`, `PieAssumption` and `ActiveNetAssumption`: sizes and the arguments
are positive, only the infinite queue has no limit.

* `QueueStaysSound`: `QueueSound` is inductive by itself. The loop of drop head ends
  because the packet that has arrived fits an empty queue or is dropped too.
* `DisciplinesKeepContract`: the clean-up of ActiveNet, which is a recursive function over
  the queue, leaves a thinning of it (`SweptThins`).
* `ActiveNetInvariance`, for packets with any headers: a packet is queued, sent or cut, and
  for every packet that was cut, it or another one that begins a frame of the same number
  gave way and was cut. From it `FramesNeverTorn` and, if no drop head queue has a byte limit (with
  one it is false, run DropHeadBytes), `DeathsExplained`.
* `PieInvariance`: before a rate has been measured the controller has nothing to act on,
  and the controller lags behind the timer by the updates due. The loop of
  `calculate_drop_prob` is a recursive function; that it runs as often as a timer would
  have fired is `TurnsFacts`. From it `UpdatesCatchUp` and, for a target delay of at most
  2^31 ms (beyond it the cast to int turns the difference around), `NoDropsBeforeARate`.

The ferries, for every delay, time-out, bin width, schedule of switches and lag:

* `BaseInvariance`: packets are read, kept and written in order and not early.
* `TimeInvariance`: the poll time-out is never later than the next release or switch, so
  that the lag of a round bounds how late anything is, and a callback that is called has
  something to write. With `BinInvariance`: `LinkSwitchesOnTime`, `PacketsLeaveOnTime`.
* `PacketsMeteredOnce`: every data point is the value of a bin that has ended, and a packet
  is in the bin that was current when it was added, in whatever order the two threads run.

`SessionAssumption`: the programs are among those of the repository; the numbers of
failures and of signals are arbitrary. For every interleaving of the processes:

* `SessionIsInvariant`. The proof has two parts. The first reads the programs: each
  sequence of a function or constructor is gone through step by step, and put together
  they give `ProgramFacts` for every process of every program (`StepFacts` at each step:
  how many scopes are open before and after it, whether privileges have been dropped for
  good, that children are started only once an event loop has blocked the signals, that
  only the main process makes what outlives it, what is waited for and who sends it).
  The second part is the inductive invariant `SessionInv`. `Local` is about one process:
  the stack of what it holds is well nested, `Standing` says that privileges and
  environment follow from the number of open scopes alone, and `OnTrack` that these are
  the scopes the program has open at `pc`. `Family` says that a child that lives is in
  the list of its parent, which is past the step that forks it, and `Local` that a
  process with children lives and has its event loop; `Talk` that the messages are sent
  in order, each before the step that relies on it; `Owed` that whatever exists is held
  by the main process, except a pair of devices that the kernel removes once one end has
  gone to the container. The two properties are not inductive: a destructor restores the
  privileges that were in force when the scope was entered, which only the nesting of
  the stack knows, and unwinding starts at any step.
* `SessionIsSafe` follows from `Standing`, `OnTrack` and `Talk` with the facts about the
  step that is next. `SessionCleansUp` follows from `Family` (no process lives without its
  parent) and `Owed`.

Induction over data. `RecursionTheorems` states induction for a *set* of numbers rather
than for a predicate, and derives it from the well-foundedness of `<` (`LeastElement`,
`SetInduction`); `RecursionExists` builds the function that a recursive definition chooses
from a sequence of step functions. With these the sums of `Totals`, the clean-up of
ActiveNet, the loop of PIE and the ideal link are reasoned about for every input.

Only model-checked:

* Liveness (`OnceTerminates`, `OpportunityIsUsed`, `SignalEnds`, `ChildExitEndsShell`,
  `DestructionEnds`, `SessionEnds`, `EndsAfterClose`), which needs ENABLED.
* The proxy (`Transparent`, `NothingLost`, `PairedRight`, `AssertionsHold`,
  `ReplaysRecorded`): the parsers are recursive operators, which the prover does not take,
  and what these properties say rests on what the parsers compute for each message.

## 5. Findings

Four runs are expected to fail; each states what the repository says of itself.

1. `man/mm-link.1:72` against `link_queue.cc:270` (LinkLog).
2. `assert( good() )` in `dropping_packet_queue.cc:64` against the loop in
   `drop_head_packet_queue.hh:28` (DropHeadBytes).
3. `assert` in `drop_bitrate_dequeue_queue.cc:55` against a resent one-packet message
   (OctopusResend).
4. The comment in `event_loop.cc:41` against the `return` at line 62 (EventLoopFerries).

Met while modelling, and excluded by name in the properties that would otherwise fail:

* An interim response (100 Continue) is taken for the answer to a request of its own. With
  a pipelined HEAD behind it the final response is cut off before its body, otherwise it
  ends the connection (`http_response_parser.cc:12`; `InterimBefore`).
* The thread of a live graph may call a member that is not constructed yet
  (`binned_livegraph.cc:28`; `undefined`).
* Traffic other than UDP overfills an ActiveNet queue until an assert ends the ferry, and
  a clean-up without a log file crashes it (`drop_activenet_queue.cc:12`;
  `DiesOnlyOverfilled` says that these are the only ways).
* Two flows that use the same message number, or a first packet sent again, tear a frame
  in ActiveNet: the clean-up compares message numbers only, so the rest of a frame whose
  beginning was sent goes with another frame of that number (`drop_activenet_queue.cc:82`;
  `GivesWay` in `FrameNotTorn`).
* With `--once` both ferries may end behind one SIGCHLD. The parent sees the first, which
  says to go on, and sleeps in poll (finding 4; `FerryOverlooked` in `SessionEnds`).
* A first line without its line break at the end of a connection is dropped silently
  (`http_message.cc:64`; the unfinished line in `NothingLost`).
* The HTTP proxy forwards `key: value` with one space, however many there were
  (`http_header.cc:29`, `http_header.hh:21`; `Unspaced` in `Transparent`, `NothingLost` and
  `PairedRight`).
* A client that closes its sending side after a request never gets the answer through the
  HTTP proxy, which stops reading the server then (`http_proxy.cc:54`; `~eof[p]` in
  `NothingLost`).

## 6. Not modelled, and the plan

Left out for good: rendering, the formats of addresses, calls into the kernel and into
OpenSSL, certificates, the Apache module. They keep no state that a property could be
about. The UDP thread of the DNS proxy is one exchange that shares nothing. Folding and
white space in headers, but for the spaces before a value, the parsing of arguments and
of traces, and the wording of logs are not modelled. Times are milliseconds, and overflow of the clock is not modelled.

The rate estimates of Octopus (`drop_bitrate_dequeue_queue.cc:27`, `link_queue.cc:298`)
are not modelled: nothing but the fair share depends on them, and that is arbitrary here.

Next:

1. **Proofs**: that the ring buffer is a FIFO queue for every size, and from it
   `NothingLost` for the TCP relay, which has no parser.
2. **Octopus over the link**: the rate estimates as numeric operators against a
   reference definition, then `OctopusQueue` composed with the link.
