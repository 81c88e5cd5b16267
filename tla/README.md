# TLA+ model of the CSE5462 TCP daemons

The repository is the work of a networking course: a file transfer program
(`ftpc`, `ftps`) over a home-made TCP. Its core is
`src/project1——ShuangLi, ZicongZheng/tcpd.c` (below just `tcpd.c`): two daemons
that carry blocks of 1000 bytes over UDP through *troll*, a relay that loses,
garbles, duplicates, delays and reorders datagrams. This directory models the
two daemons, their timer process, the length of the timers and the programs on
both sides, and the earlier programs of the course that have logic of their own;
it checks them with TLC and proves with TLAPS, for every size, what the two
daemons promise of a file that fits their buffers, and of any file over a network
that keeps order until a timer is too early, what the timer process promises the
driver, and the safety of the programs around them. The names of the code are kept (`lfr`, `laf`, `lar`,
`lfs`, `bufpos`, `checkEmpty`'s emptiness test, ...).

## The system

    ftpc --UDP--> tcpd client: driver ===UDP through troll===> tcpd server --UDP--> ftps
                   |  ^      ^                                      |
              pfds |  |      +===== acknowledgements, troll ========+
                   v  | pfds_back
              tcpd client: timer process

| component | state | operations | what makes it correct |
|---|---|---|---|
| server, `server()` | `recvbuf` (64 blocks), `lfr`, `laf` | one: receive a packet, test its checksum and window, store it, hand the run at the front to ftps, acknowledge | blocks come out once, in order, no gap; the window is always 20 wide; nothing is held outside it; every good packet is acknowledged |
| client's driver, `client()`, the child of the `fork` at tcpd.c:219 | `sendbuf` (64 blocks), `lar`, `lfs`, `bufpos`, the round trip estimate | one iteration of a loop around `select()`: resend, read from ftpc, take an acknowledgement, send the next frame | no frame is freed or overwritten before it is received; a frame the server lacks has a timer; the window is not exceeded; in the end all is sent and freed |
| timer process, `client()`, the parent | delta list, `timeout1`, `lasttime` | start, cancel, `update_time_list` when `select()` times out | one timer per frame; a timer fires once and neither early nor never; removing one does not move the others |
| round trip estimator (`tcp_rtt_estimator`, `__tcp_set_rto`, `calculate_rtt`) | `srtt`, `mdev`, `mdev_max`, `rttvar`, `rtt_seq` | one update per measurement | the estimate stays between its bounds; 32-bit arithmetic does not wrap |
| `ftpc`, `ftps` of project1 | blocks sent; bytes still to come | a datagram with size and name, then one for each block; count-down | a file that ftps finished is the one ftpc read |
| CRC, socket wrappers | tables | pure functions | a garbled packet is recognised |
| `proj1/timmer.c` | the first timer process: a doubly linked delta list, `lasttime` | start, cancel, stop, update at every wakeup | the times of the list add up to when each timer is due; the list holds the running timers |
| `lab2` | `ftpc` and `ftps` over TCP | information, blocks, finished message; `recv` loop | a finished file is whole, neither waits for ever |
| `lab1/count.c` | position in the file, count | a chunk at a time, sometimes going back | no occurrence counted twice, none missed |
| `lab3` | file transfer over troll without windows | unfinished | - |
| `lab4`, `lab5`, `proj2`, `Troll_Utils` | ns-3 scripts, trace filters, third-party examples | - | - |

How the parts interact: the driver writes "start" and "cancel" into the pipe
`pfds`, the timer process writes "resend" into `pfds_back`; everything else is a
datagram. The sequence number of a packet is the number of its buffer slot
(0..63), so numbers repeat after 64 blocks. A free slot is one with 1000 zero
bytes; there is no other mark.

What is hard here: three places compute the server's window limit, differently
at the end of the circular buffer; duplicate and late messages against a
sequence number space of buffer size; expiry, cancel and restart of a timer in
any order with acknowledgements; a delta list edited while `select()` holds a
pointer into it; emptiness known only from contents, and a send buffer that
starts as uninitialised stack; an estimate fed with old measurements, in words
that wrap; two processes joined by two pipes; sockets that drop what finds them
full; list pointers that are not kept. `PROJECT.json` lists these hazards line by line.

## The modules

| module | models | checked or proved in |
|---|---|---|
| `TcpdBase` | circular buffers, `checkEmpty`, sizes | all of the below |
| `ReorderWindow` | abstract: what a receiver promises | refined by `TcpdServer` |
| `TcpdServer` | `server()` | runs `programs`, `stall`; `TcpdEnds_proof` |
| `TcpdClient` | `client()`, driver and what the driver needs of the timer process | `Tcpd`, `TcpdFifo`, `TcpdEnds_proof` |
| `FileTransfer` | abstract: what the daemons promise ftpc and ftps | refined by `Tcpd` and `TcpdFifo` |
| `Tcpd` | both daemons, a troll that loses, garbles, duplicates, delays, reorders | runs `lossy`, `live`, `stale`; `Tcpd_proof` |
| `TcpdFifo` | both daemons, a network that keeps order; long files | runs `rounds`, `window`, `zero_block`, `hasty`; `TcpdFifo_proof` |
| `TimerService` | abstract: the timers `TcpdClient` counts on | refined by `TimerList` |
| `TimerList` | the timer process: delta list, `select()`, `timeval_subtract` | runs `programs`, `early`, `wait`; `TimerList_proof` |
| `MCTcpdServer` | bounds `TcpdServer` for TLC | run `stall` |
| `RttEstimator` | `tcp_rtt_estimator`, `__tcp_set_rto`, `calculate_rtt` | run `programs`, `RttEstimator_proof` |
| `FileSize` | the size as `strncpy` announces it | `FtpDatagram`, `FtpStream` |
| `FtpDatagram` | `ftpc` and `ftps` of project1 around the daemons | run `programs`, `Programs_proof` |
| `FtpStream` | `ftpc` and `ftps` of lab2 | runs `programs`, `sizes`; `Programs_proof` |
| `Timmer` | the timer process of `proj1/timmer.c` | run `programs`, `Timmer_proof` |
| `Count` | `lab1/count.c` | run `programs`, `Programs_proof` |
| `MCPrograms` | the seven parts that stand alone (`TcpdServer`, `TimerList`, `RttEstimator`, `FtpDatagram`, `FtpStream`, `Timmer`, `Count`), for TLC | run `programs` |
| `ModularLemmas` | lemmas on `%`, `\div` and smallest numbers | |
| `TcpdEnds_proof` | proofs about each end alone, the server first | |
| `Tcpd_proof`, `TcpdFifo_proof` | proofs about both ends together, over either network | |
| `TimerList_proof`, `Timmer_proof` | proofs about the timer process and the earlier one | |
| `RttEstimator_proof`, `Programs_proof` | proofs about the estimator; about both pairs of `ftpc` and `ftps`, and `count` | |

Operators whose comment begins with "Mutant:" are not part of the model. Each
is a plausible mistake in the definition that follows it, kept to show that the
properties notice it (`PROJECT.json`, "mutants").

### TcpdServer

A block is its number in the file, `Empty` the all-zero block. `ReceivePacket(p)`
is the whole handler after the checksum test (tcpd.c:820-914): either the packet
is stored and the front of the window slides (`Store`, with one operator for
each branch of the slide: no wrap; wrapped and stopping before the last slot;
wrapped and going round), or nothing changes (`Ignore`); an acknowledgement is
sent in both cases (`AckOf`). `delivered` is a history variable: what was sent
to ftps. The branch `if(lfr>63)` in `SlideStraight` is kept although no state
takes it. In `TcpdServer` alone any packet may come at any time.

`ReorderWindow` is the promise: `W` places in front of what was handed over, a
place filled at most once, blocks leaving only from the front. `ImplementsWindow`
maps place `o` to slot `(lfr + o) % N`.

### TcpdClient

One iteration of the driver is `Select` (what is readable is fixed then) and the
parts in their order in the code: `Resend`, `ReadFtpc` or `LeaveFtpc`,
`ReceiveAck` or `DiscardAck`, `SendNext` or `NothingToSend`; `todo` holds those
still to run. Between two parts the timer process and the network may act.

* `AdvanceLar` keeps the loop condition of tcpd.c:610 as C parses it: the scan
  for the first block not acknowledged is not bounded by `lfs`. When it reads
  past the array it is assumed to meet the saved registers and the return address
  of `client()`, which are not zero, and to stop. Nothing checks this assumption, and
  `ClientTypeOK` says nothing of that read.
* `Junk`: `sendbuf` is a local array without initialiser; the slots in
  `JunkSlots` may hold something that is not zero at the start.
* A "start" or "cancel" takes effect when it is written into `pfds`. In the
  program it takes effect when the timer process reads it, and the timer may
  expire in between. Such an expiry is, for the driver, one just before the
  message was written whose request arrives later: in the model `Timeout(id)`
  may come between any two parts of the iteration, and `Select` need not yet see
  a request that was written.
* A frame number fits a message of the pipes; copying the operation's name with
  `strncpy` loses nothing.
* The model's timers have no length: `Timeout(id)` may happen whenever frame
  `id` has a timer. So the round trip estimate does not matter to what is
  checked of the daemons; `RttEstimator` says what may be said of the length.

### Tcpd and TcpdFifo

`Tcpd` keeps messages in flight in two sets. A delivery consumes a message or
leaves it for a second one; `PacketLost` and `DriverBadAck` are loss and
garbling, which look the same to the daemons. `TcpdFifo` keeps them in sequences. It
loses or garbles at most `MaxLosses` messages: any acknowledgements (`AckLost`,
`DriverBadAck`), of the packets those of frames in `LossySlots`.

In both, timers expire at any time, as in tcpd.c:256-287, where no test asks what
became of the frame. In `TcpdFifo` the history variable `early` counts the expiries
that came while the frame's packet or its acknowledgement was still on its way
(`UnderWay`): the timer was shorter than the round trip. After one the code promises
little for a long file (run `hasty`), so the properties say what holds while `early`
is 0, and `ImplementsTransfer` maps `early > 0` to `broken` of `FileTransfer`, from where
anything may be received. `MaxEarly` bounds `early`.

### TimerList

Time goes in ticks, `Second` ticks in a second, so that `tv_sec`, `tv_usec` and
the carries of `timeval_subtract` occur with small numbers; as in the code the
carry is made in the second operand. `timeout1` is NULL (`None`), the frame
number of the node it points into, or `Stale` when that node is out of the list
(no node is ever freed, so reading it is defined). `Tick` is a tick spent in
`select()`, which on Linux writes the time left where `timeout1` points. `Update` is
`update_time_list`; `resent` holds the requests it wrote. A new node's `next` is
not initialised in the code and is taken as NULL: the process never frees
memory, so `malloc` returns fresh zero pages. `due` is history.

### RttEstimator

`Measure(x, y)` is an acknowledgement that came at `x` for a packet sent at `y`;
`Times` are arbitrary, so the clock may be set back. `Estimate` is what the driver
does at each send and resend: it feeds the last round trip time, new or not, to
the estimator and computes the timer's length. The `u32` fields wrap at `Word`; `m` is a
`long` and does not. `PeriodOver` keeps the comparison of tcpd.c:98 although
`snd_una` and `rtt_seq` are 0 for ever: `after(0, 0)` is false, so `rttvar` never
decays, and no lower bound on how fast the timer shrinks holds. `least`, `most`,
`elapsed` are history.

### FileSize, FtpDatagram, FtpStream

`Copied(n)` is what remains of size `n` when `strncpy` has stopped at its first
zero byte, `Announced(n)` the signed `int` these bytes are at the receiver, and
`Awaited(n)` what a loop that runs while it is positive waits for. `Announceable(n)`: no
byte below the highest is zero and the sign is not set, so that all of these are `n`. A
size has the four bytes the code copies (`SizeBytes`); `Weight` is written out for them,
so that no proof needs powers. In `FtpDatagram` a datagram is the
number of its block, 0 the one with size and name. The sockets of the daemon and
of ftps hold `DaemonRoom` and `FtpsRoom` datagrams and drop the rest: the
`usleep(1000)` of ftpc guarantees nothing. The two daemons are not translated here:
`DaemonTakes` and `DaemonGives` are the abstraction `FileTransfer`, a queue that keeps
order, with room for `CarryRoom` datagrams, from which each block comes padded to a
full buffer. `Tcpd` and `TcpdFifo` examine when they keep that promise, and the runs
`stale`, `stall`, `window`, `zero_block` and `hasty` show when not. So it may break at any
time (`PromiseBreaks`): from then on the daemons may stop for ever or give an old
block in the place of the next (`DaemonGivesOld`). In `FtpStream` the connection is known from how many bytes were
written and read; the server's reply and a closed connection are seen in its
state. Either program may end early at any point.

### Timmer

The list is kept with its pointers, since what can go wrong is in them:
`delete_timenode` leaves the `forward` pointer of the next node as it was, and
`update_time_list` leaves the new head's. `misled` becomes true when such a pointer is
followed (by a start before that node or its cancel): the write goes into a node
that is no longer in the list. From there on the process is not followed (`Followed`),
for then timers are lost and a cancelled one may come back. The two loops over the
list, the update's (`Remaining`) and a start's (`Place`), are recursive functions
along `next`, applied to a pointer and then to the time that is left. Amounts of time are
numbers here; the carries of `timeval_subtract`, the same function as in `tcpd.c`, are
in `TimerList`. The driver's fixed sequence of calls is replaced by any.
`CrashAtOnce`: `head` is not initialised when the first update reads it.

### Count

A line end is never part of a string searched for: `CountAssumption` says so, since
`fgets` never hands over what follows one. `Matches` are the occurrences
that lie wholly in the chunk; `GoesBack` is the condition for `fseek`, which fails
(and changes nothing) when it would lead before the beginning of the file. `found` is history.

## The runs

All with the actual code constants replaced by small ones (64 → `N`, 20 → `W`).
`TcpdBase` assumes what the window arithmetic needs of them, `2W <= N+1`
(40 <= 65).

| run | question | bounds and why they are enough |
|---|---|---|
| `lossy` | safety of both daemons over the worst network | N=6, W=2, K=4 = N-W blocks, 2 messages in flight each way, garbage in two slots of the send buffer, one beyond the file |
| `live` | does the whole file arrive, is everything acknowledged in the end? | N=5, W=2, K=3; `MaxInFlight` 6 is the number of distinct packets there are (three frames, each also as a zeroed slot), so it never bites (a bound that bites would lose messages for ever) |
| `rounds` | a file longer than the buffers | N=5, W=2, K=11: two wraps of both buffers, and into the third round; 2 losses among packets of slots 1, 2 and all acknowledgements; one early timer |
| `programs` | the parts that stand alone: do the three slides agree, and is the server a reorder window among arbitrary packets; is the delta list what the driver counts on; the estimator, the programs around | server: N=5, W=3 (the widest allowed), 7 blocks delivered: more than one round, so every slot is front, middle and end of a run, and each run length 0..W occurs at each position. timers: 3 frames, intervals 1, 2, 4 with 3 ticks a second (below, below and above a second), clock up to 5. estimator: words of 1024, a minimum of 4, three readings of the clock in three different seconds, 4 updates: measurements below and above the minimum, long enough to wrap, negative ones. timmer: 4 starts, 3 ids, lengths 1 and 2, 2 ticks: every place to insert, equal deltas, expiries between the messages. Transfers: bytes in base 2, sizes of 4 such bytes with and without zeros and with the sign set, buffers of 3 bytes, so files of 0 to 5 blocks, full and part-filled; room for fewer datagrams than the file has. Count: chunks of 4, all texts over three characters up to length 7 (two chunks), strings of 1, 2, 3 and a whole chunk |
| `stall`, `window`, `stale`, `zero_block`, `early`, `wait`, `hasty`, `sizes` | disagreements of code and documents, below | the smallest sizes that show them |

Deadlock is checked in `lossy`, `live`, `rounds`. In `programs` the server stops at its
bound, the timer process really may exit and the other programs end, so it is not
checked there.

`MCPrograms` chooses one part in the beginning; the others rest, so that the states of
all add up and do not multiply.

What the passing runs show:

* `lossy`: `InOrder` (what ftps gets is a prefix of the file), `WindowsAgree`
  (the sender's window inside the receiver's), `KeepsWhatIsLacking` (no frame is
  freed before the server has it), `TimerForWhatIsLacking` (a frame the server
  lacks has a timer or a request in the pipe), `OneRequestPerFrame` (never both, and
  never two requests). They hold for a file of at most
  `N - W` blocks. A longer file breaks `InOrder`: run `stale`.
* `live`: the two daemons implement `FileTransfer` with its liveness, and every
  slot of the send buffer is free in the end. `Transfer!Spec` needs liveness, so it is
  checked under `FairSpec`.
* `rounds`: over a network in order, for a long file. `NothingOverwritten`: no block of the
  send buffer is overwritten, whatever the timers do. As long as no timer was too early,
  none is lost between the two buffers (`NothingForgotten`) and the file arrives, in order
  and whole (`ImplementsTransfer`), although acknowledgements are lost and frames sent a
  second time. `RequestsFit`: timers and requests together are at most `W + 1`, and one
  more for each early timer at most: the request of an expiry is left in the pipe when
  the acknowledgement frees the slot, and the next frame of the slot has a timer beside it.
  The one more than `W` is the frame too many of run `window`. `LossySlots` is not for
  convenience: losing frame 0 or a frame from `N - W` on leads into the errors of `stall`
  and `window`, and the transfer stops. The run shows which losses the code survives:
  packets of frames `1..N-W-1`, and any acknowledgements.

  Whether the pipe back may fill and the two processes wait for each other follows only
  in part. A request has 1200 bytes, three of them fill a page, and a pipe of Linux has 16 pages: 48
  requests. A short
  file has one request per frame at most (`OneRequestPerFrame`), 44 in the code; a long
  file has 21 while no timer was too early. Then the timer process never blocks in its
  `write()`, comes back to read `pfds`, and the driver's `write()` does not block for ever
  either. For a long file with many early timers nothing is claimed.
* `programs`:
  * server: `WindowWidth`, `HeldInWindow`, `LfrCountsDelivered`, `FrontIsEmpty`
    and the refinement `ImplementsWindow`. `FrontIsEmpty` leaves out `lfr = N - 1`, which is
    run `stall`.
  * timers: one node per frame; `SleepsNoLonger` (the process never waits longer
    than the list's head, although `timeout1` may point to a node long gone);
    `NoneTooLong` (what the list adds up to is never later than the timer was
    started for); and the refinement of `TimerService`. A timer can still be
    *handled* late: after a cancel the process waits on the cancelled node, the
    head's delta is not counted down, and the next start points `timeout1` at the
    head again. No document of the repository bounds the lateness, so it is no
    finding.
  * estimator: `SmoothedBetween` and `RtoBounded` (however often an old measurement is
    fed, the estimate stays among the measurements and the timer between
    estimate plus deviation and five times the longest measurement);
    `MeasuresElapsed` (over the end of a second, too). The first two hold while
    eight times each measurement fits a word, 536 seconds in the code.
  * `timmer`: `TimesAddUp` and `ListsTheRunning`, until `misled`. That the process can be misled is
    a fault of the code; no document of the repository says otherwise, so it is no finding.
  * project1's `ftpc` and `ftps`: `DatagramWhole` (a file that ftps finished has the length that
    was announced; it is the file, even if sockets dropped blocks, when its size can be announced
    and the daemons kept their promise: the padding of the last block lets the
    count-down reach 0 only with the last block) and `DatagramEnds` (ftps waits for ever
    only for a dropped block or for daemons that broke their promise).
  * lab2: `StreamWhole` (what the server finished is what was announced, and at most a
    buffer more) and `StreamEnds`. A client that dies leaves the server
    going round `recv` for ever, which `StreamEnds` allows for. When the server
    fails, the client takes the empty read for the reply. That sizes exist that cannot be
    announced is run `sizes`.
  * `count`: `CountedOnce` and `CountEnds` (unless the string is as long as a
    chunk). What `count` misses is told below.

### Fairness

`MCPrograms` assumes weak fairness of each program's own steps, as the scheduler
gives it to a process that can go on, and none of a client's death, of a
server's failure, of daemons that break their promise or give old blocks, or of anything in
`TcpdServer`, `TimerList`, the estimator and `Timmer`, of which only safety is checked there.

Assumed in `FairSpec`:

* `WF(Driver)`, `WF(TimerExpires(id))` for each frame of the file, in `TcpdFifo` also
  `WF(ServerReceives)`: the three
  processes are loops that the scheduler keeps running. For the timer process this
  presupposes that it does not exit, which run `wait` shows it may: what is said of
  arrival and of acknowledgement in the end is said of runs in which it goes on.
* `SF(DriverSelect /\ "ftpc" \in todo')` and the same for `"ack"` and `"resend"`: what
  waits in a socket or in the pipe is seen by some later `select()`. Strong, because a
  `Select` that does not see it disables the action until the iteration is over.
* `Tcpd` only, `SF(NewsArrives)` and `SF(AckNewsArrives)`: a packet whose block is still
  to be acknowledged is sent again and again, and so is its acknowledgement;
  the troll may drop each many times, but not always. It drops with a
  probability below one. Nothing is assumed of messages that carry no news.

### What the code does and a document does not say

| run | what |
|---|---|
| `stall` | a slide that ends at slot 63 leaves `lfr = 63`; the test meant to bring it to -1 is `lfr>63`, and the branch for a wrapped window cannot pass the end from there: the server acknowledges for ever and delivers nothing more |
| `window` | after a wrap the sender's test is `63-lar+lfs<WINDOW`, one too wide: the server drops frame W+1 and acknowledges it |
| `stale` | in a file longer than N-W blocks a late duplicate of the round before is delivered as a new block |
| `zero_block` | a block of 1000 zeros counts as an empty slot: the file never arrives |
| `early` | a timer added to a list that is not empty may expire early: `lasttime` is older than its start, and the time `select()` already took off the head is taken off the nodes behind it again |
| `wait` | comparing a new timer with the head can leave a negative `tv_usec` in what `select()` is given; then the timer process exits |
| `hasty` | a timer that expires before its acknowledgement makes a frame be acknowledged twice; the second acknowledgement zeroes the slot (tcpd.c:605), which by then may hold a later block. The first timers are about 2 ms, and nothing need be lost or reordered |
| `sizes` | a size with a zero byte below its highest (256, 65537), or of 2^31 and above, is announced as another one, and the server finishes a file that is not the one sent; lab2 and project1 alike |

`count` disagrees with its documents too, without a run of its own: lab1/README:5 and
count.c:5 promise the "number of times the search-string ... appeared in the file". The
code misses an occurrence across the end of a full chunk of 1000 characters when the
chunk holds another one (line 44 goes back only if `c == 0`), and a string of one
character that is alone in a chunk, on the last line without a line end or as the rest
of a long line, which lines 36-39 take for one of the "empty lines" the comment wants
skipped. The texts of run `programs` hold such cases, and `CountedOnce` and `CountEnds` hold
of them all the same: nothing here shows that the count is right, only that no
occurrence is counted twice.

The counterexamples are of the small instances; the arithmetic that fails does
not depend on the size.

## Proofs

Checked by TLAPS for every value of the constants that satisfies the assumptions
named in the modules: `SizesAssumption` (`2W <= N+1`), `BlocksAssumption` (server) and
`FileAssumption` (client); `LossAssumption` (`TcpdFifo`: what may be lost are slots);
`TimeAssumption`; `TimmerAssumption`; `RttAssumption`; `FileSizeAssumption`, with
`SocketAssumption` and `RoomAssumption` for the buffers; `CountAssumption`. TLC
evaluates each of them in some run.

| property | theorem |
|---|---|
| `ServerTypeOK`, `WindowWidth`, `HeldInWindow`, `FrontIsEmpty`, `LfrCountsDelivered` | `TypeCorrect`, `WindowIsWide`, `HoldsInWindow`, `FrontStaysEmpty`, `LfrCounts` |
| `ImplementsWindow` | `WindowImplemented` |
| `ClientTypeOK`; `NothingOverwritten` for the driver alone | `ClientTypeCorrect`; `ClientReadsIntoFreeSlots` |
| `Tcpd`: `TypeOK`, `InOrder`, `WindowsAgree`, `KeepsWhatIsLacking`, `TimerForWhatIsLacking`, `OneRequestPerFrame` | `DaemonsType`, `DeliversInOrder`, `WindowsStayAgreed`, `LackingIsKept`, `LackingIsTimed`, `OneRequest` |
| `Tcpd`: safety part of `ImplementsTransfer` | `TransferIsSafe` |
| `TcpdFifo`: `TypeOK`, `NothingOverwritten`, `RequestsFit`, `NothingForgotten` | `FifoTypeCorrect`, `ReadsIntoFreeSlots`, `RequestsAreFew` (while `early = 0`), `NoneForgotten` |
| `TcpdFifo`: safety part of `ImplementsTransfer` | `FifoTransferIsSafe` |
| `TimerList`: `TypeOK`, `SleepsNoLonger`, `NoneTooLong`, `ImplementsService` | `ListType`, `WakesInTime`, `ExpiresNoLater`, `ServiceImplemented` |
| `TimmerTypeOK`, `TimesAddUp`, `ListsTheRunning` | `TimmerTypeCorrect`, `TimmerTimesAddUp`, `TimmerListsTheRunning` |
| `SmoothedBetween`, `RtoBounded`, `MeasuresElapsed` | `StaysBetween`, `TimerInBounds`, `RttIsElapsed` |
| `StreamWhole`, `DatagramWhole` | `StreamIsWhole`, `DatagramIsWhole` |
| `CountedOnce` | `CountsOnce` |

### The server

`TcpdEnds_proof`, for `ServerSpec` (arbitrary packets). All five invariants
follow from one inductive invariant

    Inv == ServerTypeOK /\ LafOfLfr /\ HeldInWindow /\ FrontIsEmpty /\ LfrCountsDelivered

None of the conjuncts alone is inductive. Where a slide ends is bounded by
`laf`, so `lfr` stays an index only if `laf` is known exactly (`LafOfLfr`, the modulus
written out as the two cases the code has). That the front is empty after a
slide that used up the window needs that nothing is held beyond it
(`HeldInWindow`). `HeldInWindow` after a wrapped slide needs `2W <= N+1`: otherwise
the new window would reach round into the old one. There is one lemma for each
of the three slides, since each has its own formula for `laf`; `Ignore` is stuttering.
`WindowImplemented` is the refinement of `ReorderWindow`: a stored packet fills one
place and takes the run at the front, whichever of the three slides it was.
`ModularLemmas` proves the facts on `%` and `\div` these proofs need
(uniqueness of quotient and remainder, and that adding the same number to
congruent ones keeps them congruent), because the SMT backend treats `%` by a
variable as uninterpreted.

### The client

`TcpdEnds_proof`, for `ClientSpec` (arbitrary acknowledgements and timeouts, any
contents of the stack). `ClientTypeCorrect`: `lar`, `lfs` and `bufpos` stay in their ranges,
and so every slot the driver sends, fills, frees or times, `lfs + 1` included, is one of the
array. It says nothing of what the scan of tcpd.c:610 reads, which is not bounded by `lfs`
and may be one slot past the end.

`ClientReadsIntoFreeSlots`, for `W + 1 < N`: a block from ftpc never goes over another one,
whatever acknowledgements come. The invariant is `FreeIsEmpty`: the slots the driver may
still fill before `lar` or `lfs` moves (`Free`, three intervals of the circle) hold no block; when
`lar` moves, it moves over empty slots only, because that is where its scan does not stop.
For `N = 3`, `W = 2`, which `SizesAssumption` allows, TLC finds `NothingOverwritten` violated: the
window is at times one too wide (run `window`), and beside `W + 1` frames a slot must be free.
In the code 21 < 64.

### The two daemons

`Tcpd_proof`, for `Spec` of `Tcpd`: any loss, garbling, duplication, delay and
reordering, timers of any length, any `MaxInFlight` and any `JunkSlots`. Its
theorems have one hypothesis,

    ShortFile == K <= N - W /\ ZeroBlocks = {} /\ 1 .. K \subseteq Blocks

that is, a file of at most 44 blocks in the code, none of them all zero. Both
restrictions are the code's: run `stale` finds `InOrder` broken for a longer file
and run `zero_block` loses one with a zero block. The bound is one block short of exact: small instances (`W = 2`, `N = 3` and `N = 5`,
`MaxInFlight = 2`) checked outside the listed runs still satisfy `InOrder` and `WindowsAgree`
for a file of `N - W + 1` blocks, and violate `InOrder` for one of `N - W + 2`.

The inductive invariant `DaemonsInv` is `TypeOK`, the server's `Inv` and `InOrder`,
strengthened by

* `CountersAgree`: in a short file nothing wraps, so `lfs`, `lfr` and `bufpos` are the
  counters themselves, and the sender is at most `W` ahead of what was delivered;
* `HoldsOwnFrames`, `KeepsOwnFrames`, `PacketsAreFrames`: slot `s` of either buffer, and a
  packet numbered `s`, hold block `s + 1` or nothing. Nothing only if the server has the
  block: a frame is sent again with a zeroed slot when its request was in the
  pipe while its acknowledgement came;
* `AcksAreTrue`: only what was received is acknowledged;
* `TimersAreFrames`, `TimerForFrames`: a timer or one request for each frame that
  lacks, never two;
* `LarIsSafe`: `lar` passes only what was received, or has run past all frames sent. The
  scan of tcpd.c:610 may do that over slots that are still empty; this is why `lar <= lfs`
  is not an invariant and cannot be used.

Each was needed: `InOrder` needs that packets hold their own frames, that needs
what the send buffer keeps, that needs what is acknowledged and freed, and the
room for the next frame needs where `lar` can be. TLC checked `DaemonsInv` on five
instances (`N`, `W`, `K` = 6,2,4; 5,3,2; 3,2,1; 5,1,4; 2,1,1, with and without garbage on the
stack) before it was proved. `TransferIsSafe` is the refinement of `FileTransfer`
but for its liveness (`SafeSpec`).

### The two daemons over a network that keeps order

`TcpdFifo_proof`, for `Spec` of `TcpdFifo`: a file of any length, so that numbers
repeat and both windows wrap again and again. All its theorems have the hypothesis

    Fits == W + 1 < N /\ ZeroBlocks = {} /\ 1 .. K + 1 \subseteq Blocks

(block `K + 1` stands for the garbage of the stack). Timers may expire at any time and any
packets and acknowledgements may be lost or garbled.

*Whatever the timers do.* `FifoTypeCorrect` is an induction of its own, from the types of
both ends. `ClientIsOne`: the driver of the composition is one among arbitrary
acknowledgements, so `ReadsIntoFreeSlots` is `ClientReadsIntoFreeSlots`.

The rest holds as long as no timer was too early, and must stop there (run `hasty`). Each of
the following invariants is `early = 0 => ...`; since `early` never decreases (`EarlyStays`), its
step need be shown only for steps within `early = 0` (`PatientUntil`).

*What the sender does, whatever is lost.* `SenderInv` says that there is a number `l`,
of frames and not of a slot, up to which all are acknowledged, such that

* `CountersAgree`: `lfs` and `bufpos` are `nsent` and `nread` on the circle of slots, and
  at most a buffer was read ahead of `l`;
* `LarPassed`: `lar` is `l` on the circle, and the frames after it up to `lfs` are at most
  `W`, or `W + 1` where the window goes round the end. Or `LarStuck`: in the first
  round the scan of tcpd.c:610, which nothing bounds, ran past all frames sent and up
  to a slot of garbage from the stack; there `lar` stays, for that slot is never filled;
* `SlotsHold`: what each slot of the send buffer holds. A frame after `l` is there
  exactly as long as it has a timer or a request (`Outstanding`), a frame read and not
  sent is there, and every other slot is free;
* `TimersFor`, `Underway`: timers, requests and messages are about frames after `l`,
  one each.

From it follows `RequestsAreFew`: timers and requests are of different slots between `lar` and
`lfs`, which are `W + 1` at most. It holds for any `LossySlots`. That a message is the only one
about its frame, and the frame has its timer, is what a timer that is not early gives: when
it expires, its packet or the acknowledgement was lost and nothing about the frame is on its
way any more.

*What arrives.* `NoneForgotten` and `FifoTransferIsSafe` need in addition

    Benign == 2 <= W /\ 2 * W < N /\ LossySlots \subseteq 1 .. N - W - 1

that is, in the code (40 < 64), of the packets only frames of slots 1 to 43 are lost. Losing
another one leads into the errors of runs `stall` and `window`. Any acknowledgement may be
lost or garbled: its frame, already received, is then sent and acknowledged again, and the
second acknowledgement comes before its slot is used again. `FifoInv` is `SenderInv` and

* `WindowHolds`: the receive buffer holds frames of the window, each in its slot, and
  `lfr` is never the last slot;
* `FramesKept`: what is not received is kept by the sender; an acknowledgement on its way
  to a slot that holds a frame is of that frame, which was received;
* `GuardedInOrder`: a frame that cannot be lost overtakes none and is overtaken by none.

The last one carries the argument. The server stalls with `lfr` on the last slot, and it gets
there only by a window that ends there and is delivered at once (`SlideToLast`): then the first
frame of that window, of slot `N - W`, came last. But that frame is one of
the guarded ones. Likewise a frame beyond the receiver's window (`HeadInWindow`) would have
overtaken the first frame of a window that goes round the end, which is guarded too. A
frame that was received and comes again, its acknowledgement lost, must not be taken for the
one `N` later: it lies in the `W` slots behind the window, and `2 * W < N` keeps these out of it
(`ReceivedIgnored`). A timer that is not early expires only when packet and acknowledgement
are gone, so a frame is never sent again with a zeroed slot.

TLC checked both invariants on small instances before they were proved. Run `rounds` meets
`Fits` and `Benign`.

### The timer process

`TimerList_proof`, for `Spec` of `TimerList`: any number of timers, any intervals, any
number of ticks in a second. The arithmetic comes first: `CarriedType` and `SubtractType`
say that the carry of `timeval_subtract` moves whole seconds and does not change the
time, and that its return value tells whether the difference is below 0 (a
field of it may be negative all the same: run `wait`). The walks down the list are
recursive functions over its positions, and the lists are of any length; `Schedule(l, t, f)` relates a
list to the times `f` its timers expire at, and the walk leaves what it began
with minus `f[k] - t` (`LeftTicks`, `WaitsOfSchedule`). So an operation on the list is an
operation on `f`: an insertion adds a value (`AddedLast`, `AddedBefore`), a cancel drops
one (`Cancelled`), an update drops the first ones (`Cut`), a tick lowers all (`HeadSooner`). The
inductive invariant is

    ListInv == types /\ ListOk(list, lasttime) /\ PointsRight(timeout1, stale, list)

`ListOk`: one node for each frame, no time below 0, `f[k] <= due`. `PointsRight`: `timeout1`
is NULL only if the list is empty, points at no node of the list but the head, and a
node it remembers has no longer to wait than the head. The two need each other: a tick
may take time off the head only because what `select()` counts down is the head's
time or less. TLC checked `ListInv` on the instance of the timer process in run `programs`.

`ServiceImplemented` is the refinement of `TimerService`, which is what `TcpdClient` assumes of
the timer process.

### The earlier timer

`Timmer_proof`, for `TimmerSpec`: any ids and intervals, any number of starts. The
inductive invariant is

    TimmerInv == /\ Typed
                 /\ ~misled => /\ Lists(head, next, forward, delta, due, lastUpdate, made)
                               /\ lastUpdate = 0 => head = Null

`Lists` says how the pointers make a list:

* `Ranked`: a number for each pointer goes down along `next`. It covers the nodes that
  left the list too, since they keep their pointers;
* `Linked`: a node that is not made yet is blank and no pointer leads to it;
* the running timers (`due`) are exactly the nodes reached from `head`;
* no two of these lead to the same node, and a `forward` pointer *into the list* leads
  to the node before. One out of the list may lead anywhere: following it is what makes
  `misled` true;
* `Follows`: each node is due its `delta` after the one before it, the head after
  `lastUpdate`. A timer may be overdue, so these are differences and not times to wait.

`AlongNext` is induction along the pointers and `WalkExists` says that a function defined
along them exists, both by the rank; so the recursive functions of the model are what
their equations say, and `RemainingDue` and `PlaceDue` tell what the two loops find in terms
of `due`. A start puts a node between two neighbours (`AddLists`) whichever of the four
places in the code does it, a cancel takes one out (`TakeLists`), an update drops the first ones
(`UpdateLists`). TLC checked `TimmerInv` with three ids, intervals 0, 1, 2 and four starts
before it was proved.

### The estimator

`RttEstimator_proof`, for `RttSpec`. The two bounds follow from

    Inv == /\ Words
           /\ estimates = 0 => srtt = 0 /\ most = 0
           /\ NoWrap => Bounds

`Bounds` is a chain: the length is `srtt \div 8 + rttvar`; `rttvar` is bounded by what
`mdev_max` ever was, that by `mdev`, and `mdev` stays below `4 * most` because the
error of the estimate does, which needs `srtt` between `8 * least` and `8 * most`. `mdev <= mdev_max
<= rttvar` is the lower bound, and holds only because `rttvar` never decays
(`NeverOver`); were `after()` to become true, the bound below `mdev` would be lost. None of
the sums wraps (`Fits`) since `8 * most < Word` and `2 * RtoMin <= Word`. In `LaterBounds` the
values after the step are given names first: the solver does arithmetic on
numbers, not on primed variables. `RttIsElapsed` has its own
induction; `Borrowing` shows the two branches of `calculate_rtt` equal.

### The programs

`Programs_proof`. `StreamInv`: while the server receives, what it wrote into the file and
what is still to come (`left`, negative from the start for a size of 2^31 or more, and otherwise
at most a buffer below 0 after the last block) are together the announced size. `DatagramInv`
follows the blocks through socket, daemons and socket: `NoneTwice` (what is stored and on the
way are together no more than was sent), `InTurn` (until something was dropped or the daemons
broke their promise the numbers go up one by one from socket to file) and `CountsDown`. A file that is finished had all its blocks,
since only the last one is part-filled. `SmallestByte`, `CopiedSize` and `AnnouncedSize` say when the
announced size is the size.

For `count`, `CountInv`: what was found lies before the position, and occurrences counted at
an earlier pass over the same characters are not counted again: going back happens only
after a chunk without any.

### How far it goes

Induction over data is not taken from the library, whose induction theorems the provers cannot
instantiate. Where it is needed (the walks of `TimerList` and `Timmer`, the smallest number of a
set) it is done by a smallest counterexample: `Smallest` and `UpTo` of `ModularLemmas`
rest on `<` being well-founded on `Nat`; `RecursionExists` builds the values of a recursive
function on an initial segment, of which its `CHOOSE` is then one.

Every other invariant of a passing run is proved. Model-checked only:

* the part of `RequestsFit` that speaks of `early > 0`;
* every liveness property (that of `Transfer!Spec`, over either network, all slots free in the end, `StreamEnds`, `DatagramEnds`,
  `CountEnds`): fairness and `ENABLED` are out of the prover's reach;
* the eight violations.

## Not modelled, and the plan

Left out for good:

* the CRC polynomial: the models use what it is for, that a garbled packet is
  recognised. Which garblings it misses is a question about polynomials;
* socket set-up, arguments and error exits, names of files, logging;
* `lab3`: its `tcpd.c` does not compile (a full-width comma in a call), `RECV` in
  `function.c` has an empty body, and its `ftpc` and `ftps` are those of lab2 with other calls;
* the ns-3 scripts (`lab4`, `lab5`, `proj2`): they set up a simulator that is not in the
  repository and have no behaviour of their own; the trace filter is one
  pass over a text;
* `totroll.c`, `fromtroll.c`: third-party examples that come with troll;
* a `write()` that blocks on a full pipe. For short files, and for long ones while no timer was
  too early, `OneRequestPerFrame` and `RequestsFit` show that the pipe which could start a deadlock
  has room. For long files with many early timers it is not settled;
* the delay in `pfds`: argued for above, under TcpdClient, not modelled.

Done, in this order: `TcpdBase`, `TcpdServer`, its abstract specification and
proofs; `TcpdClient`; the compositions and `FileTransfer`; the timer list and its
abstract specification; the estimator and its proofs; the file transfers, the
first timer and `count`; the pipe bound; the proofs about both daemons together, the timer
process and its refinement, the file transfers and `count`; the proofs about the
daemons over a network that keeps order and about the first timer.

What could come next: whether `ShortFile` can be one block longer, as the small instances
suggest; the delay of a message in `pfds` as a queue of its own, with `TimerService`
between the two processes in place of the argument above.
