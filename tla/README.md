# The concentrator, specified

TLA+ modules, model-checking configurations and machine-checked proofs for the
heat-metering concentrator in this repository (`src/src`): an ARM board that
talks to heat valves over a serial radio line (directly or through forwarders),
to heat meters, to a card reader, and over a GPRS modem to a portal server.

* [The system](#the-system) - components, state, operations, interactions
* [The modules](#the-modules) - what models what
* [The runs](#the-runs) - what is checked, with which bounds, and why they do
* [The proofs](#the-proofs)
* [Disagreements](#disagreements) between the code and what it says of itself
* [What is not modelled](#what-is-not-modelled)
* [Plan](#plan)

## The system

`main.cpp` starts the heat meters' thread, the portal thread, the card host's
thread, then either the forwarder thread or the valve thread, and runs the
screen's loop. Threads share memory and lock with `CLock`. A build for
the board defines `NDEBUG`.

| Component | State | Operations | Talks to | What makes it correct |
|---|---|---|---|---|
| `cbuffer` | two unsigned counters `w`, `r`; cells | `read`, `write`, `*_done` in place | every serial thread and its producers | bounded FIFO; no two threads in one cell; only whole packets leave: as long as no two producers are in it at once, which the code does not see to everywhere |
| `logqueue` | three files: data, index, pointer | `lqenqueue`, `lqfront`, `lqdequeue`, `lqempty` | the portal's queues | a durable FIFO, whatever fails half-way |
| `CPortal` | connection, registration, serial index, received packets, four queues | `Run`: connect, register, beat, receive commands, empty the queues; `Insert*Data` from other threads | `CGprs`, `logqueue`, valve or forwarder monitor (`ConfigValve`) | no reading is lost; readings arrive in order; commands are carried out, once |
| `CGprs` | modem state, buffers | AT dialogue, `SendData`, `ReceiveData`, `Disconnect` | the modem | an answer belongs to the packet it answers (checked in `CPortal`) |
| `CValveMonitor` (line) | `users`, session id, counters, `tx`/`htx`/`rx`, epoll state | registration by broadcast, hourly requests, the half-duplex loop | valves; portal, card host (packets in `htx`, `tx`) | every valve is found again; registration ends; packets go out whole |
| `CValveMonitor` (records) | `records`, readings | `Get*Data`, `Parse*Data` | portal queues, `logdb` | every record is fetched once; the loops end |
| `CCardHost` + `Recharge` | `cmdbuf`, `expires` | requests of the card reader, their expiry and replies | valve or forwarder monitor | each request is answered; a reply of success means the valve was recharged |
| `CForwarderMonitor` | forwarders, valves, command buffer | A1/A2/A3 dialogue, ctrl one by one, recharge | forwarders; portal; card host | who asked hears the truth; what is handed on is of this pass, or its exceptions are known; no lock is lost needlessly |
| `CHeatMonitor` | meters | poll, parse, pack | meters; portal | packets hold what was read |
| `logdb`, `sbtree` | files, size-balanced tree | `dbopen` (replay), `dbput`, `dbget`, `dbseq` | users and records of the valve monitor | last value wins, also after a restart |
| timers, threads, locks | intervals, mutexes | `Done`, `Start`, `Lock`/`TryLock` | everyone | an interval is never missed; threads never wait in a circle |
| screen, INI, CSV, serial ports, `main`, `Utils` | - | drawing, parsing, tty set-up | - | sequential or pure I/O |

Where the behaviour is hard:

* **Concurrency.** Several threads write the same circular buffers, under a
  mutex or (at some places) without; the thread that owns a line reads them
  without one. A queue's mutex is held over a whole sending loop, network waits
  included.
* **Crashes.** A queue's operation is several system calls on three files; the
  concentrator may be switched off between any two.
* **The network.** UDP datagrams are lost, delayed, duplicated and reordered;
  only a function code and a small wrapping serial index tell answers apart.
* **The radio line.** Half-duplex, any packet may be lost, broadcasts are
  answered by none or many; registration must converge all the same.
* **Boundaries.** Wrapping counters, narrow integers, full buffers.

`PROJECT.json` lists the hazards one by one, each at its line, with the
properties that would notice.

## The modules

### CBuffer, BoundedFifo, CBufferProofs (`cbuffer.c`, the writes of `CValveMonitor::Run`)

`w` and `r` are the two counters modulo `Wrap` (2^32 in the code), `cells` the
memory behind `start`. A producer goes through `WriteSlot` (`cbuffer_write` and
the first bytes), `Fill` (the rest), `Load` and `WriteDone` (the `w ++` of
`cbuffer_write_done`, a load and a store); `WriteFull` drops the packet. That a
packet is filled, and the counter incremented, in two steps is what makes a race
visible.

Most producers take the mutex first (`Lock`, released in `WriteDone`). The code
does not do so everywhere: the thread that owns the line writes to `tx` in
`ParseBroadcast` (`CValveMonitor.cpp:619`) and to `htx` in `Run` (231) without
`txlock` and `htxlock`, and nobody locks `cmdbuf` (`CCardHost.cpp:334`, 405,
474). The producers in `Unlocked` may start with or without the mutex; the
owner of the line (`Owner`) produces and sends by turns. `met` remembers that two
producers were between `cbuffer_write` and `cbuffer_write_done` at once. From then
on everything is possible that the code makes possible: two threads in one cell,
a mixture of two packets (`Blank`), a cell published before it is filled, `w`
stored twice or set back. The properties promise nothing then, and say so: what
they show is that nothing else, neither the missing lock of the consumer nor the
wrapping of the counters nor the short writes, breaks the buffer.

The owner sends as `Run` does (438-444): it arms EPOLLOUT if there is a packet and
`rc == wc` (`Arm`), and each `write` looks afresh which buffer comes first, `htx`
before `tx` (`FromThis`, `FromOther`). The module is one of the two buffers,
`urgent` says which; of the other it keeps only whether it holds a packet
(`other`). A write may be short (`BeginSend`, `BeginOther`); the rest is then
taken from the buffer that is first by that time (`EndSend`, `EndOther`), so that
`head`, the first part on the line, may come from a different packet than the
second. `Answered` is the answer, or the timeouts, that make `rc` equal `wc`
again. A packet of `tx` may wait behind `htx` for ever, and nothing is claimed
about that.

`BoundedFifo` is the abstract buffer, whose promise ends when it is `broken`;
`CBuffer` implements it with `queue <- Contents`, the published cells, and
`broken <- met`.

### LogQueue, DurableFifo, LogQueueProofs (`logqueue.c`, the loop of `CPortal::Send*Data`)

`data`, `idx`, `ptr` are the three files. One action per system call that
changes a file, so that `Crash` and the failing variants come between any two:
`EnqueueData`/`EnqueueShort`, `EnqueueIndex`/`EnqueueIndexFails`,
`Dequeue`/`DequeueFails`. `StartSending` to `SendOk` are the sending loop, which
holds the queue's lock (that is why no enqueue happens in it). A record's bytes
are cells `<<record, i>>`, enough to see a read that straddles two records.
`DurableFifo` is the abstract queue, implemented with `queue <- Contents`, the
records read back from the files.

### Portal, Uplink, PortalProofs (`CPortal.cpp`, the calls of `CGprs.cpp`)

`stage` is where `CPortal::Run` is, `phase` where `GPRS_Send` is: `SendPacket`,
`ReadTimesOut`, `ReadUnwanted`, `ReadAnswer`, `ExchangeFails`, with the code's
two nested loops (`attempt`, `reads`). Another function code is kept in
`stash` (`m_ReceivePacketMap`, where `insert` keeps an older entry); the right
code with another serial index is dropped. `Return` is what each caller does
with the result. `up` and `down` are the datagrams on their way, each with an
age in exchanges. The server is external and answers each packet; it may also
send commands, which `Receive`, `Execute` and `Reply` (`GPRS_Receive`,
`ConfigValve`) carry out. The queues are sequences here: `LogQueue` shows that
they behave so, and keeps over a crash exactly what `Restart` keeps
(`QueuesAreDurable` proves that `Portal` does with them nothing that
`DurableFifo` does not offer).

`Uplink` is what the portal's thread promises of each queue: records are offered,
the server gets the oldest one that is still kept, and one it has may be freed.
It knows no network, retry or restart. `Portal` implements it with
`offered <- inserted`, `got <- Got` (what the server received, repeats left out)
and `freed <- Freed` (how many have left the queue).

### ValveLine, ValveLineProofs (`CValveMonitor.cpp`: `Run`, `Broadcast*`, `ParseBroadcast`)

`at` is the place in `Run`'s loop: `timers` (`Query`, `Broadcast`,
`Rebroadcast`, `Punctual` or nothing), then `arm` (EPOLLOUT), then `wait`
(`epoll_wait`: `Read`, `Write*`, `Timeout`). `balance` is `rc - wc`. `quiet`
says that more than 120 + valveCount - 60 seconds have passed since the last
complete write (true at the start: `lastWrite` is 0), `recent` that the last
I/O is less than 50 ms ago. A valve's answer carries what `ParseBroadcast`
distinguishes by its length: a user (8 bytes) or "unregistered" (1 byte).
`valveSid` is the session each valve is in; valves are external. Packets sent
by other threads come as `Urgent`. Dropping a packet that finds no cell is part
of `Put`. The buffers are sequences: `CBuffer` shows that they behave so until two
producers meet in one of them, and what happens after that is in `CBuffer` and, for
the replies, in `CardRecharge`, not in this module.

`users[v]` is `unknown`, `nobody` (entered with an all-zero user) or `user`.
It lives in memory only: `LoadUsers` fills `lastUsers`, so a restart begins with
no users, which is why the session id must be new.

### CardRecharge, CardRechargeProofs (`CCardHost.cpp`, `Recharge`, `QueryUser` and the expiry walk of `CValveMonitor.cpp`)

`card` is where the card host's thread is: it takes a request (`Take`, which is
`ParseAndExecute`), looks the user up (`NoUserList`), takes the lock of `htx` or
`tx` (`LockBuffer`), finds a cell or not (`PutRequest`, `BufferFull`, which
returns with the lock held), and for a recharge enters the five seconds in
`expires` (`SetExpiry`, after the packet was published). `valve` is where the
valve thread is in its loop: `walk` over `expires` (`Expire`, `Erase`,
`WalkDone`), then `io` (`Send`, `Receive`). An entry of `expires` is `due` when
its time is past by the clock the walk read as it began, so `TimeUp` happens
outside the walk. `lost` is the iterator that was incremented at the end of an
empty map: libstdc++ then circles in the map's header until another thread
enters something (`Found`).

Both threads write replies to `cmdbuf` without a lock (`Ack`, `AckRead`,
`AckDone`: the cell, then `w ++` as a load and a store). While the other thread
is still writing, a cell may end up with either reply or a mixture of both, and
`w` may go back; `raced` remembers that it happened. `EachIsAccountedFor`
says where a recharge that took place can be: told to the reader (`reported`), in
a cell of `cmdbuf` (`OkCells`), on its way from the valve (`Answers`) or lost
(`gone`: a lost answer, or one that found `cmdbuf` full). The balance of reads and
writes and the splitting of packets on the line are in `ValveLine`.

### ValveRecords, ValveRecordsProofs, KeyLog, IndexTree, SbTree (`GetPunctualData`, `GetRechargeData`, `SaveRecords`; `logdb.c`; `sbtree.c`)

A valve numbers the cells of its last records in a ring. `records[v].last` is
the pointer it reported (`ParsePunctualData`), `records[v].sent` the code's
`sentRecharge`. Each hour `PunctualRound` asks for the pointers and saves the
map if it changed (`Save`); at `Noon` the loop goes over the valves: `While` is
the test and the difference, `SendCommand` and `WaitCmdAck`/`WaitTimeout` one
packet, `Fetched` the end of a valve. `WaitCmdAck` takes any packet, moves the
pointer and then parses, as the code does; the offset counts the packets
fetched before twice, as the code does. The history variables name where the
code leaves records behind (`skipped`: more than one packet; `mistaken`: a
packet taken for another; `overrun`: a full ring looks like an empty one), and
`phase = "spin"` is the loop that never ends because the full-memory flag makes
the two pointers differ for ever.

`KeyLog` is `logdb` as the monitor uses it: a save (`OpenNew`, then `PutData`
and `PutIndex` for each entry, `Close`), interrupted anywhere by `LogCrash`, and
`Loaded`, the map that a load makes of it: of the entries of a key the oldest.
`IndexTree` is how the code comes to that map: the replay into the tree of
`SbTree` and the walk through it in order. Two keys of the index may be equal or
in any order: `Hashes` are the functions from keys of the map to keys of the
index. `LoadIsWalkOfBalancedTree` says that the walk gives `Loaded` whatever the
function. `SbTree` is the size balanced tree with its rotations and the `size`
fields as the code writes them. These two are recursive, which is why they are
apart from `KeyLog`, whose proofs do not need them.

The sizes of the code (a ring of 20, 10 records to a packet, 0x80 for a full
memory) are `Cells`, `Payload` and `Overrun`; nothing is assumed of them but that
a pointer into the ring is less than `Overrun` (`SizesAssumption`).

### Forwarder, ForwarderProofs (`CForwarderMonitor.cpp`)

`phase` is where `Run` is, `call` where the portal's thread is in `ConfigValve`,
`step` where each of the two is in an exchange: `Write` (`SendCommand`),
`ReadAnswer` (an answer of the right command, A1, A2 or A3, is taken,
`ParseData`), `ReadTimeout`, with `SendA2A3`'s two attempts in `NextAttempt`.
`ClockSet` is the return from `SetValveTime`, which `ParseData` calls in the
middle of an exchange and which uses the line itself (`outer` is the command
that was interrupted). `Loop` is `SendValveCtrlOneByOne`, a valve at a time.
In the noon batch (`GetConsumeData` to `GetTempData`) the loop stays with a valve
until it fails or `behind` is 0. `behind[v]` is how far the pointer of what was
sent is behind the pointer the valve reported, on a ring of `Records`; each record
that is accepted reduces it by one (`Fetched`). The loops test
`sent != ptr & 0x7F`, which C takes as `(sent != ptr) & 0x7F`: a pointer with the
flag of a full memory is never reached. That is the distance `Endless`, which no
record reduces, and then the batch goes on, with the lock held, as long as the
valve answers.

`did` and `gave` are the valves whose time and whose temperatures were read in this
pass, `unread` those whose temperatures were not: a failed `GetPunctualData` is no
reason to leave the valve out (`IsDataMissing` is set by the time command only),
so temperatures of an earlier pass are sent. `SentIsFresh` says exactly that: what
is sent has a time of this pass, and temperatures of this pass but for the valves
in `unread`.

`lock` is `m_ForwarderLock`; the exchanges that the code makes without it are
made without it. `air` is the serial line towards the concentrator, `held` the
answer a forwarder has ready for A3, both external. `misread` remembers that
an answer was taken for another one: then the code can promise little, and the
properties say so.

### Threads, ThreadsProofs (locks of `CPortal`, `CHeatMonitor`, `CCardHost`, `CMainLoop`, `CForwarderMonitor`, `CValveMonitor`)

Each routine is the set of the sequences of lock operations through its code
(`Section`, `Tried`, `Keeps` for a return without release); a thread goes
through its routines again and again. `todo[t]` is the set of paths that share
what comes next, so that the state does not tell apart what the code has not
yet decided. `wireless` and `meters` are the two settings on which the locks
depend. The order of the locks is a circle (queue, GPRS, forwarder, queue); the
run shows that nobody ever waits in it (`OnlyLostStandStill`, which speaks of any
group of threads, so that a deadlock of two of the five counts), and what a kept
lock costs.

## The runs

| Run | Bounds | Shows |
|---|---|---|
| `cbuffer` | 2 producers, one of them the owner of the line, which also writes without the mutex; 2 cells, counters modulo 4, 2 packet contents; as `htx` and as `tx` | `TypeOK`, `NoCellShared`, `WholePacketsOnly`; implements `BoundedFifo`; all until two producers meet |
| `logqueue` | 4 records of 1 or 2 cells, 4 faults | `TypeOK` (no front past the index), `IndexedRecordsAreWhole`, `DequeuedWasSent`, `SentInOrder`, `RepeatsNeedFaults`; implements `DurableFifo` |
| `portal_uplink` | 2 queues of 2 records, serial index 0..1, 2 attempts, 2 faults | `NothingLost`, `RegisteredAtServer`; implements `Uplink`; `EventuallyDequeued` |
| `portal_downlink` | 1 queue of 1 record, 2 commands, 2 faults | `RepeatsNeedFaults`, `StashedIsExecuted` |
| `valve_line` | 2 valves, 1 cell in `htx` and `rx`, 9 in `tx`, 1 packet of another thread, 1 fault | `ConfirmedIsKnown`, `HalfWrittenStays`, `EventuallyConfirmed`, `NormalProcessResumes` |
| `card_recharge` | 2 users, 3 requests, 1 cell in `htx`, `tx` and `cmdbuf`, counters modulo 4, 1 fault | `AppliedOnce`, `EachIsAccountedFor`, `AppliedIsReported` |
| `valve_records` | 1 valve, an old entry on each side of its key, ring of 4 cells, 2 records to a packet, 4 recharges, 4 key functions, 1 fault | `FetchedUpToPointer`, `LoadedIsLastSave`, `LoadIsWalkOfBalancedTree`, `EventuallyFetched` |
| `forwarder` | 1 forwarder with 1 valve, ring of 2 records, 1 cell for requests, 1 request and 1 configuration; with one of them up to 2 faults, with both none | `SuccessWasApplied`, `SentIsFresh`, `ConfiguredValvesAreCounted`, `LostOnlyWhenNotReady`, `EventuallyAnswered` |
| `threads` | 5 threads, 12 locks, both settings; 1 packet to a queue's emptying, 2 valves | `UnlocksItsOwn`, `OnlyLostStandStill`, `LostHoldNothingWanted` |
| `portal_heat_time`, `valve_line_half_written`, `card_recharge_walk` | as above, up to 2 faults | see [Disagreements](#disagreements) |

Why these bounds are enough to be interesting: the counters of `cbuffer` wrap
after two rounds of the two cells, both producers contend for them with and
without the mutex, and the other buffer comes and goes between the two parts of a
packet; a short write, a
failed index write, a failed dequeue and a crash can all hit the same record
queue in one behaviour; the serial index wraps after two exchanges, so that an
old answer does meet a new packet with its index unless the lifetime forbids
it; two valves overflow the one-cell `rx` and `htx`, so that confirmations take
every route the code has. `tx` has nine cells because one punctual interval
queues nine packets for two valves; in the code it has 4096. In `CardRecharge`
three requests over single cells fill `htx`, `tx` and `cmdbuf`, overlap a late
answer with a second recharge of the same user, and let one entry of `expires`
be erased while another remains. In `ValveRecords` four records fill a ring of
four, so that the pointer wraps, the flag of a full memory is set and a full
ring meets an empty one; a packet of two makes the second packet of a fetch
happen; three keys in four orders make single and double rotations and equal
keys. (With two valves and two recharges, which is too slow to run each time,
TLC found no error either.) In `Forwarder` one valve is enough for a late answer
of one thread to meet the exchange of the other; two faults make both attempts
of `SendA2A3` fail. `MaxTrouble` counts two for each call and one for each fault:
four lets a request and a configuration meet on the line, or one of them with two
faults. A ring of two records has a batch that ends, after one record or two, and
one that does not.

**Bounded** are: records, commands and foreign packets (`MaxRecords`,
`MaxCommands`, `MaxUrgent`, `MaxRequests`, `MaxConfigs`), what a thread does in one
go (`MaxSends`, `MaxUsers` of `Threads`), and every misbehaviour of network, modem, line,
file system, valve or power supply (`MaxFaults`; `MaxTrouble` bounds calls and
faults of `Forwarder` together). `Retries` and `MaxRetry` are
smaller than in the code. In `ValveLine`, the punctual timer is done, and
silence falls, only when the buffers are empty: both take a minute or more, a
packet waits for at most a few seconds.

**Assumed.** A completed write survives a crash (nothing in the code syncs). A
datagram lives for fewer exchanges than there are serial indices
(`LifetimeAssumption`; the code has 20000 of them) and does not outlive a
restart (`Connect` sleeps for tens of seconds). The function codes of the queues
differ from those of commands, registration and heartbeat (`OrderAssumption`),
as the constants of `CPortal.cpp` do. `random()` gives a session id
the valves have not seen. A valve answers a broadcast or a query exactly if it
is not in the session they name. In `KeyLog` one entry is written or not. A
garbled packet in `ValveRecords` has both bytes of its checksum wrong (the code
compares with `&&`, and lets one wrong byte pass). In `Threads` a routine may
follow any other of its thread, where no lock is held.

**Deadlock** is not checked where the system really may stop: in `Forwarder`
and `Threads`, when a thread waits for a lock that was kept; in `ValveRecords`,
in the loop that does not end; and in `CardRecharge`. There the valve thread really may
circle for ever, and the card host's thread wait for a lock it kept. The
property `AppliedIsReported` excepts these two, the replies that raced, and the
answers that were lost or found `cmdbuf` full; it promises everything else.

**Fairness.** `CBuffer` has none: with the gate `rc == wc` and `htx` before `tx` the
code does not guarantee that a packet is sent, and `Threads` has none either, its
properties are about safety. `Portal`: weak fairness of the thread's steps and of
the server, and strong fairness of entering a queue emptied by
`m_FixHourTimer`, since that timer is done again and again while the thread
visits the queue only in passing. `ValveLine`: weak fairness of the thread and
of time passing, strong fairness of `Punctual` for the same reason. `CardRecharge`: weak fairness
of both threads, none of valves or of the end of a circle (`Found`).
`Forwarder`: weak fairness of the two threads, neither of which waits for
anything but the line (three seconds) and the lock. `EventuallyAnswered` excepts a
noon batch that never ends (`BatchIsEndless`), a lost lock and mixed up answers.
`ValveRecords`: weak
fairness of a save and of the fetch loop, strong fairness of the two timers, of
reading and of a valve's report, since each pass of `Run` looks at all of them
while the condition comes and goes. No run
assumes that faults happen or that they do not; the liveness properties hold
because there are finitely many.

Every property has a mutant in `PROJECT.json`: a plausible slip in a definition
that models code (a dropped guard, a counter that is not reset, a session id
kept over a restart) with which TLC finds that property violated. The mutated
forms stand before the definitions they mutate and are used nowhere else.

## The proofs

Eight modules prove the safety properties of the components whose data are
sequences, sets, counters and paths, for every value of the constants. Each proof
strengthens the property to an inductive invariant, shows that `Init`
establishes it and that each action keeps it, action by action and conjunct by
conjunct, and draws the theorem from it. TLC had checked each invariant first.

### CBufferProofs

For every number of cells, every counter modulus that is a proper multiple of
it, every set of packets and of producers, whichever of them do without the mutex
(`SizeAssumption`, `WrapAssumption`, `NamesAssumption`, `ThreadsAssumption`):

* `TypeCorrect` : `Spec => []TypeOK`
* `CellsNotShared` : `Spec => []NoCellShared`
* `PacketsLeaveWhole` : `Spec => []WholePacketsOnly`
* `BufferIsFifo` : `Spec => ImplementsFifo`, the refinement of `BoundedFifo`
* `DisciplineSuffices` : `Spec => []NeverMet`, two producers never meet where all
  take the mutex, nor where there is only one

The first four say what holds although some producers take no mutex: two in the
buffer at once are never two that hold it, and until that happens no producer
touches the cell being sent, packets leave whole, but for one whose beginning
`htx` cut off, and in order. `DisciplineSuffices` says for which buffers "until"
means for good: `m_CardCmdBuf` of the forwarder monitor and `rx`, which have one
producer each. For `tx`, `htx` and `cmdbuf` it does not: there the exception is
real.

None of these is inductive by itself. The inductive invariant `CBufferInv` has
a part that always holds, the types and that a producer that is neither idle nor
holds the mutex is one of `Unlocked` (`MutexInv`), and a part, `DisciplineInv`,
that holds until two producers meet: at most one works (`AloneInv`); the cell it
fills is the first behind the published ones, of which there are then fewer than
`Size`, and what it read of `w` is still `w` (`ProducerInv`); published cells hold
whole packets (`PublishedInv`); and the cell being sent is the oldest published one
and still as it was when its sending began, and a packet that the other buffer
began can only be ended from here if this is `htx`, or the other buffer still
holds it (`SendingInv`). The argument that no cell is shared is arithmetic on the
counters: the cell at `w` and the cells at `r .. w - 1` have distinct residues
modulo `Size` as long as there are fewer than `Size` of the latter, and `Size`
divides `Wrap`, so that wrapping changes no residue. That arithmetic, the lemma
`RingCounters`, is stated of any two counters that wrap: the gap between them, and
the cells of a row of values. The proof about `cmdbuf` uses it too. The refinement
shows that `WriteDone` is `Put`, `EndSend` is `Get`, the step in which two
producers meet breaks the promise, and every other step stutters.

### LogQueueProofs

For any number of records, of any lengths, and any number of faults
(`MaxRecordsAssumption`, `RecordLengthAssumption`, `MaxFaultsAssumption`):

* `TypeCorrect` : `Spec => []TypeOK`
* `RecordsAreWhole` : `Spec => []IndexedRecordsAreWhole`
* `NoneLeavesUnsent` : `Spec => []DequeuedWasSent`
* `OrderIsKept` : `Spec => []SentInOrder`
* `RepeatsArePaidFor` : `Spec => []RepeatsNeedFaults`
* `FilesAreFifo` : `Spec => ImplementsDurableFifo`, the refinement

`LogQueueInv` says what each file owes the others: every index entry names one
whole record that was offered, in the order they were offered (`IndexInv`,
`OrderInv`); the entry still to be written names the record just written
(`PendingInv`); what is being sent is the front (`FrontInv`); and the last
record the portal got is the one dequeued last or still the front (`LastInv`),
which is why at most one repeat is paid for by each fault. The argument is that
the data file only grows: what an entry names is never overwritten, whatever
fails afterwards, and bytes without an entry are never read. In the refinement
`EnqueueIndex` is `Enqueue`, `Dequeue` is `Dequeue`, and every other step, a
short write, a failure or a crash, stutters.

### PortalProofs

For any list of queues, any number of retries, records, commands and faults,
and any serial index and lifetime with `Lifetime <= MaxSerial`
(`OrderAssumption`, `NumbersAssumption`, `LifetimeAssumption`):

* `TypeCorrect` : `Spec => []TypeOK`
* `NoRecordIsLost` : `Spec => []NothingLost`
* `OrderIsKept` : `Spec => []DeliveredInOrder`
* `PortalIsReliable` : `Spec => ImplementsUplink`, the refinement of `Uplink`
* `QueuesAreDurable` : `Spec => Log(k)!Spec` for each queue k, where `Log(k)` is
  `DurableFifo` with `queue[k]`
* `RegistrationIsTrue` : `Spec => []RegisteredAtServer`
* `RepeatsArePaidFor` : `Spec => []RepeatsNeedFaults`
* `CommandsAreExecuted` : `Spec => StashedIsExecuted`

`PortalInv` carries all but the last two. Its heart is `StampedInv`: the serial index
of a datagram plus its age in exchanges is the current serial index, modulo
`MaxSerial + 1`. So an answer that bears the current serial index has age 0 and
belongs to the running exchange, and since the server got what it answers
(`AnsweredInv`), the record taken off its queue is one the server has. This is
where `LifetimeAssumption` is needed, and nowhere else; without it a late answer
may dequeue a record that was lost. `ExchangeInv` says that the packet being
sent is the front of the queue that `Run` has locked, `QueueInv` that a queue
holds the records inserted last, of which the server may have the first, and
that no packet of a queue bears the number of a record that is not its front or
older.

That last part is what the refinement needs: when a datagram arrives at the
server it is the front of its queue, which is `Deliver` if the server has not
seen it, or a copy of one that was seen, which stutters. `Insert` is `Offer`; the
answer that `GPRS_Send` accepts is `Free`, the only step that takes a record
away, and `PortalInv` says that the server has it. All other steps (timeouts,
retries, unwanted answers, failed connections, loss, repetition, ageing of
datagrams, the server's commands, restarts) stutter, since they leave the
queues, `inserted` and `received` alone. `StepsOfQueues` sorts the steps
accordingly, and both refinements and the invariant start from it. `QueuesAreDurable` meets
`FilesAreFifo` of `LogQueueProofs` at `DurableFifo`: the one uses a queue only as
that queue allows, the other shows that the files are such a queue. Together they
justify that `Portal` has sequences where the code has files; that step itself is
an argument of this text, not a theorem, since the two modules keep different
states.

`CommandInv` carries the last two. A number names one command, which is on its
way, in `m_ReceivePacketMap`, or neither (`NumbersInv`); between `Execute` and
`Reply` the command in hand has been executed (`InHandInv`). `Budget` counts:
how often a command was executed, and one more for each place from which it may
be executed again, never exceeds one more than the faults.

### ValveLineProofs

For any finite set of valves and any sizes of the three buffers
(`AddressAssumption`, `CellsAssumption`, `BoundsAssumption`):

* `TypeCorrect` : `Spec => []TypeOK`
* `ConfirmedAreKnown` : `Spec => []ConfirmedIsKnown`
* `WokenOnlyToWrite` : `Spec => []ArmedHasPacket`
* `FrontIsNotDisturbed` : `Spec => HalfWrittenStays`

`LineInv` adds that every confirmation in `tx` or `htx` and every answer in `rx`
is of a valve that is in the map (`BuffersInv`), that no valve has seen a
session that is still to come (`SessionInv`, so that a restart begins with no
confirmed valve), and that `counter` stays within its range while broadcasting.

The last two are about the loop. `Run` passes over an event for which it finds no
packet and listens on (`CValveMonitor.cpp:443`): it would be called again at once,
for ever. `ArmedHasPacket`, inductive over `LineInv`, says that this does not
happen, since only a complete write takes a packet away, and that write ends the
listening. `FrontStays` says that everything else, the answers that are parsed,
the timers and other threads, leaves the first packet of a buffer where it is
(`cbuffer_write` drops new packets, never old ones). So a packet of high priority
that was written in part is completed by itself, which is not so of one from
`tx` (see [Disagreements](#disagreements)). The run checks `HalfWrittenStays`; TLC
checked the properties of `WokenOnlyToWrite`, `NoRequestIsForgotten` and
`QueuesAreDurable` on the instances of the runs too, but no run repeats it.

### CardRechargeProofs

For any users and requests and any sizes of the buffers (`CellsAssumption`,
`ModulusAssumption`, `BoundsAssumption`):

* `TypeCorrect` : `Spec => []TypeOK`
* `AppliedAtMostOnce` : `Spec => []AppliedOnce`
* `NoneIsMislaid` : `Spec => []EachIsAccountedFor`
* `SuccessIsTrue` : `Spec => []SuccessWasApplied`, which follows from it

`RechargeInv` adds that the buffers hold requests that were taken, not yet
sent, in the order they were taken and so once (`WaitsOnce`); that the request
the card host's thread works on is in no buffer and was applied to no valve
(`WorkedOn`); and that those not yet taken were not either (`NotYetTaken`).
Expiries and the race in `cmdbuf` leave all of it alone: they change what the
reader is told, never what is sent.

`ReplyInv`, for the last two, is proved on top of `RechargeInv`. As long as no
two replies met in `cmdbuf` (`raced`), at most one thread is writing, what it read of `cw` is still
`cw`, and the published replies and the one being written fit into the cells
(`CmdbufInv`). Then the replies are in distinct cells, and a count balances for
every user: successes told, successes in those cells, answers on their way and
successes lost are together exactly the recharges that took place (`ToldInv`).
The valve carrying out a recharge adds one to both sides, `Receive` moves one
from the answers to the cells, `SendReply` from the cells to what was told, and a
full `cmdbuf` or a lost answer moves one to what is lost. That the balance is
exact, and not only an upper bound, needs that no reply is overwritten and that
no two replies share a cell, both of which rest on `RingCounters`. `HandsInv` and `AirInv` say that a thread
about to write a reply is not writing another, and that only what was carried
out is answered. The invariant was checked by TLC with one and with two cells
before it was proved.

### ForwarderProofs

For any finite set of valves, any number of cells, calls and faults
(`ValvesAssumption`, `BoundsAssumption`):

* `TypeCorrect` : `Spec => []TypeOK`
* `SuccessIsTrue` : `Spec => []SuccessWasApplied`
* `NoRequestIsForgotten` : `Spec => []UnansweredWait`, what `EventuallyAnswered`
  needs besides fairness: who was not answered is still in the buffer
* `SentDataIsFresh` : `Spec => []SentIsFresh`
* `CountIsTrue` : `Spec => []ConfiguredValvesAreCounted`
* `LockLostOnlyWhenNotReady` : `Spec => LostOnlyWhenNotReady`

`ForwarderInv` has a part that holds always and a part, `TruthInv`, that holds
until an answer is taken for another one (`~ misread`). Always: the data are
records of the code's shapes (`Shapes`); each thread's step, command and job fit
the place where it is, and each is in its section of the lock (`ControlInv`; the
action property follows from it); the requests wait in the order in which they
came, each once, none but the first was sent, and the valve of that one was
recharged no more often than A2 was written (`RequestsInv`). `RequestsInv` holds
whatever answers arrive, which is why nobody is recharged more than twice for
one request even when answers are mixed up.

Until then: at most one answer is on its way to each thread, it is to the
command that the thread waits for, and a good answer means that the valve did
what the job asks (`ExchangeIsTrue`). It needs to say the same of the answer a
forwarder holds for A3 (`IfHeldDone`), since A2 and A3 are two exchanges, and of
the job that `SetValveTime` interrupted. A request is open exactly while it waits
(`OpenInv`); every valve that may be sent did give its temperatures, or failed to, and its
time, in this pass, or is still to be asked in the loop over them, of which only
that of the times drops those that do not answer (`FreshInv`); and the count,
which is a byte, is no more than the valves that were visited and took the
configuration (`CountInv`, where the valves must be finite). The lemmas of the
module say what each building block of the exchanges (`Begin`, `Finish`,
`Return`, a thread's own step) leaves alone in the other thread, so that each
action needs to be looked at once. TLC had found the invariant kept on the run's
instance first.

### ThreadsProofs

For any queues of records whose names are not those of other locks, any number
of packets sent in one go and any number of valves (`QueuesAssumption`,
`BoundsAssumption`):

* `LocksAreReleasedByOwner` : `Spec => []UnlocksItsOwn`
* `NobodyWaitsInCircle` : `Spec => []NoCircularWait`
* `OnlyKeptLocksDeadlock` : `Spec => []OnlyLostStandStill`, which implies the former
* `LostBlockNothing` : `Spec => []LostHoldNothingWanted`

Here the work is in the routines, not in the steps. `Open(p, i, l)` says that a
path, from its i-th step on, releases l before it meets l otherwise: it holds l
there. `Conduct` says how each thread's paths are written: a lock is taken only
while the thread holds locks that `Order` allows outside of it, it is released
unless it is one of the three that may be kept, and no lock is released twice.
Lemmas show that `Then`, `Section` and `UpTo` make such paths from such paths,
whatever the number of repetitions, and that every routine is made so
(`RoutineConduct`). The invariant, `ThreadsInv`, then only says that a thread owns
what its paths have still to release, and besides at most locks that may be
kept. A circle of waiting threads would need portal and valves: each waits for
what the other holds by its `Order`, so the valves wait for a queue with
`m_ForwarderLock` held, and the portal, which holds that queue, waits for
`m_GPRSLock` or the log, and not for `m_ForwarderLock`. And a thread between two
routines owns nothing but kept locks (`IdleHoldsOnlyKept`); so threads that stand
still wait in a circle, which cannot be, or for a lock that was kept.

`UpTo` is a recursive function. That it exists and what its values are is shown
with a smallest counterexample (`Smallest`, from the well-foundedness of the
natural numbers), since the induction theorems of the library take an operator
and cannot be used.

### ValveRecordsProofs

For any set of valves and keys of the map, any ring, packet and pointer size and
any number of records and faults (`KeysAssumption`, `RecordsAssumption`,
`SizesAssumption`):

* `TypeCorrect` : `Spec => []TypeOK`
* `LoadFindsLastSave` : `Spec => []LoadedIsLastSave`
* `PointerIsBacked` : `Spec => []FetchedUpToPointer`

`RecordsInv` has three parts. `Types` adds to `TypeOK` the shapes of the log, of
the packets and of the fetch, and that a save in progress writes the records as
they are, since the thread does nothing else meanwhile. `LogInv`: unless a write
failed, the log holds one entry of each key the save has put, with that key's
value; so a load that takes the oldest entry of each key finds the last one.

`FetchInv` is about what the code never compares. `sentRecharge` and the pointer
a valve reports are cells of a ring, and a packet is asked for by its first cell;
that they stand for the right records follows only from how far apart they can
be. The invariant names, for each valve that is none of the exceptions
(`skipped`, `mistaken`, `overrun`), the number `b` of records it had made when it
reported last (`Knows`). Then the record in memory and each one in the log are
made of two numbers up to `b`: the pointer's and the last one handed over
(`Fits`); an answer on the line brings the records that follow the first one of
its cell, which is less than a ring before `b` (`Brings`); and fewer than
`Cells` records were made since the pointer. So the loop's `delta` is the number
of records between the two (`DeltaIsDistance`), the cells it asks for hold just
these (`StoredFromPointer`), and the awaited answer, if it is on the line, brings
those that the pointer is about to pass and not records of an earlier round
(`AnswerBrings`, from `SameCell`: numbers less than a ring apart are in different
cells). It needs to say the same of the log, entry by entry, because a crash
brings any of them back. The invariant was checked by TLC with two faults and
five records first.

### Only model-checked

`EventuallyDequeued`, `EventuallyConfirmed` and all other
liveness properties (under fairness, out of the prover's reach), and
`LoadIsWalkOfBalancedTree`: the tree and its walk are recursive, and what a
recursive definition computes for every input is induction over data, which the
prover cannot take.

## Disagreements

Each has a run in which TLC finds the stated property violated.

* `CPortal.cpp:800`: `GPRS_Receive` walks its list of three function codes in
  steps of two and never reaches `FUNCTION_CODE_VALVE_SET_HEAT_TIME_DOWN`, for
  which line 819 has a case (`HeatTimeIsExecuted`).
* `CValveMonitor.cpp:438`: the buffer to send from is chosen anew for each
  write, also in the middle of a packet (`HalfWrittenIsCompleted`).
* `CValveMonitor.cpp:216`: the walk over `expires` increments the iterator twice
  when it erases; if the erased entry was the only one, the thread never comes
  back (`WalkEnds`).

Seen while modelling, and part of the models, without a run of their own:

* `CValveMonitor.cpp:603`: a valve first heard of by its answer to a query is
  entered without its user, and its later answers never supply it.
* `CValveMonitor.cpp:915`: `& 0x7F` applies to the result of the comparison; with
  the flag of a full memory the loop goes round for ever. At 928 and 952 the
  offset counts fetched packets twice; the pointer moves before the packet is
  parsed, so a packet that is not the awaited one loses records; a ring
  written round exactly once since the last fetch looks like no record.
* `CValveMonitor.cpp:1011`: `GetConsumeData` subtracts `sentRecharge`, not
  `sentConsume`, and narrows it.
* `CForwarderMonitor.cpp:283`: a valve whose clock was set by `SetValveTime`
  repeats the command, for its answer is not handled; after a restart the ids
  are unknown and an answer to a recharge is rejected: the valve is recharged
  twice, and the reader is told of a failure of user zero.
* `CForwarderMonitor.cpp:1733`, `:1756`, `:1778`: `& 0x7F` applies to the result of
  the comparison here too: with the flag of a full memory the noon batch asks for
  records as long as the valve answers, with `m_ForwarderLock` held, and no
  request of the card reader is answered meanwhile.
* `CForwarderMonitor.cpp:1205`: a failed read of the temperatures marks nothing as
  missing (line 65 does so for the time only): what was read in an earlier pass is
  sent with the time of this one.
* `CValveMonitor.cpp:231`, `:619`, `CCardHost.cpp:405`: packets are written to `htx`,
  `tx` and `cmdbuf` without the mutex that other writers of `htx` and `tx` take;
  two threads can get one cell, and `w ++` can lose or repeat a packet.
* `CForwarderMonitor.cpp:1462`, `:1483`: the lock is kept when the data are not
  ready; the vector of users is walked without its lock by `Recharge`.
* `CHeatMonitor.cpp:239`: without meters the lock is released that was never
  taken. At 109 a meter that answered once is never offline again.
* `logdb.c`: with `DB_NEW` the pointer is written before the data, so that a
  crash in the middle of a save loses entries (`LoadedIsLastSave` says which);
  `DB_APPEND` opens the index write-only, and `dbget` reads it.
* `CTimer.cpp`: when the clock is set ahead, `CFixTimer` is done once for each
  interval passed; when it is set back, `CRepeatTimer` is done at once.

## What is not modelled

The AT dialogue of the modem inside `Connect` and `SwitchMode` (success,
failure or a lost connection is all its caller sees); the clock set from an
answer of the server; the log of sent packets; dead code (`CheckNewVersion`,
HTTP mode, `DB_APPEND`, `dbget`, `sbtree_delete`, `sbtree_search`,
`ITimerThread`); registration from `user_info.csv`; the faulty devices the card
reader reports (`HandleInfo`); recovery from a garbled packet on the valves'
line (it counts as lost); the text files written for people.

Of the valve records: `GetConsumeData` (the scheme of `GetRechargeData` with a
longer ring), the temperatures and heat values, the valves' clocks. Of the
forwarder: more than one forwarder, the frames; the consume, recharge and
temperature records, which are fetched in the same way, are one ring in the model. Of the heat meters: their protocol and the packing
of their data; only their lock is in `Threads`. Of the timers: the arithmetic
(a timer is done or not, as it likes). The screen, INI and CSV parsing, the tty
set-up and the start-up are sequential or pure I/O.

`lib`, `util` and `script` are third-party code and packaging, and they are most
of the repository: about 15,000 of its 54,000 lines of implementation are the
program's own, and of these a large part draws menus, opens ports, formats
frames and logs. The modules cover the control of the rest; a share of the whole
repository's lines much larger than this could only be had by specifying
zlib and protobuf.

## Plan

All modules above stand. What is left, the most valuable first:

1. **Gprs**: the mode of the modem (command, data) over `SendData`,
   `ReceiveData`, `SwitchMode`, `Disconnect`; then Portal over Gprs.
2. **HeatMeters** (`CHeatMonitor`): packing with an 8-bit position.
3. **Timers**: the three timers with the clock set under them.
