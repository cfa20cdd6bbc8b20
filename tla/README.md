# EdgeGateway in TLA+

EdgeGateway is a C program for an edge device. It polls RS485/modbus sensors, stores
readings in SQLite, publishes them over MQTT, speaks IEC 60870-5-104/101 to
downstream DTUs, and forwards raw bytes between TCP/UDP and a UART. It is built
from processes (one per sensor kind, one per publisher, forked in `Main.c`), threads
(two per 104 link, one per 101 port, four per transparent task), a System V semaphore, and static
variables that are shared without locks. The modules here model the parts in which
the order of events decides what is right. Paths are relative to `src/Source/`.

## 1. Inventory

| Component | State | Operations | Interacts through | Hard about it | Correct when | Status |
|---|---|---|---|---|---|---|
| **104 master** `IEC60870/master104/` | link counters NS, NR, NRACK, PeerNoAckNum; timer bits; STARTDT flag; request bits; receive assembly | one pass of `CS104_Master_Clock` per 20 ms: NetTest, ReadMISIData + Search/Decode, SendProcess, LinkOnTimer; callbacks `other*SendData` from other threads | byte queue (in), transmit buffer (out), `setClientCloseLink`, bits in sendDateType | connection replaced between passes; resets in mid-pass; wrap of sequence numbers; acknowledgement of the unexpected ends the process | counters agree with the station's; the station's window is opened in time; everything received is acknowledged; links start; no `exit(1)` | partly: link layer |
| **TCP client** `IEC60870/tcp_socket/client.c` | run flag, socket, transmit buffer and its length | connect, read, write, lose, be closed from the master thread | byte queue, transmit buffer (both unlocked) | the transmit buffer survives the connection; partial writes; descriptor closed by the other thread | each byte sent once, in order; no one else's socket closed; connected again | partly |
| **byte queue** `IEC60870/queue/` | In, Out, ring | QueueWrite, QueueRead | two threads, no lock | In points past the end between two stores; no test for full | FIFO | partly |
| **101 master** `IEC60870/master101/` | per link: flags, requests to send, FCB, retries, last frame | visit each link in turn: pack, send, wait, analyse, repeat, give up, set up anew | the serial line, shared by its stations | one link at a time; lost answers; stations restarted with an FCB in mind | no frame of an interrogation lost or doubled; one station talks at a time; each link is served and comes up | partly: unbalanced mode |
| **101 slave** `IEC60870/slave101/` | FCB, last answer, replies waiting | read a frame, answer once | the line | repeated requests; a flag that is never taken back | as above | partly: the other end of the master |
| **sensor store** `DeviceApp/*`, `DataStorage/*`, `MQTT/MqttPublish.c` | one SQLite file, one table per user name | sensor: CREATE, then for ever read registers, DELETE+INSERT; publisher: CREATE, then for ever SELECT, publish | the semaphore around the database; SQLite's own locks | DELETE and INSERT are two transactions; a publisher's CREATE is unguarded; errors are dropped | one row per device, its own values, seen by every poll | partly |
| **semaphore, signals** `ProcessCommunication/` | semaphore, SEM_UNDO counts, handlers | SetSemValue, P, V, SetProcessCloseSignal, death | all processes | death between P and V, between fork and prctl; restart of the parent | mutual exclusion, not lost by a death | modelled |
| **process tree** `Main.c`, `Creat*Process` | processes | fork per enabled worker, LED loop | return into `main`, signals | children return into `main` and fork again; nobody waits for them | one process per worker; none outlives the gateway | partly |
| **transparent transmission** `TransparentTransmission/` | sockets, UART, two pipes | 4 threads per TCP task, as client or server | pipes, a shared socket | reconnect while the other thread sends; `recv` = -1; shutdown loop | bytes forwarded in order; a reconnect in the end | partly: TCP |
| **104 slave, TCP server** `slave104/`, `server.c` | as the master, the other end | as above | server.c | not started by the gateway (`iec60870_interface.c` starts module types 3 and 4, the masters, only) | as above | not modelled |
| **IEC interface** `iec60870_interface.c`, `port/`, `list/` | list of links | create, start, pause | list shared by threads | pause racing with the pass | as many links as configured | not modelled |
| **DTU worker** `DeviceApp/SojoDtu/` | like a sensor process | starts the masters, saves measurands | measurands read unlocked | | | not modelled |
| configuration, serial, file, LED, modbus setup, web, payload list | none of its own | parsing, device input and output | | sequential | text and device I/O | not modelled |
| vendored: Paho MQTT, SQLite, libmodbus, struct2json | | | | | not this program; SQLite's locks are external in `SensorStore` | not modelled |

`PROJECT.json` lists each hazard at its line, with the properties that cover it, or
why none does.

## 2. Modules

| Module | What it is |
|---|---|
| `Cs104Master`, `MCCs104Master` | master thread, client thread and callbacks of one 104 link, with a standard station and a network that breaks; the MC module has what a comment of the code says |
| `Cs104Service` | abstract: what a 104 link promises in each direction. `Cs104Master` implements it by `Service == INSTANCE Cs104Service WITH ...` |
| `Cs104MasterProofs` | theorems `TypeCorrect`, `WindowAcknowledged`, `LinkSendsExactly`, `LinkReceivesExactly`, `LinkNoAbort`, `LinkImplementsService`, `LinkStationAccepts` |
| `PeriodicInterrogation`, `PeriodicInterrogationProofs` | several 104 master threads and the static flag they share; theorem `PeriodsAreWhole` |
| `TcpClient`, `TcpClientProofs` | the client's two threads, access by access; theorems `ClientTypeCorrect`, `ClosesOwnSocket`, `ClientSendsInOrder` |
| `ByteQueue`, `ByteQueueProofs` | the ring between two threads; theorems `QueueTypeCorrect`, `QueueOrder` |
| `Cs101Line`, `Cs101Master`, `Cs101Station` | the serial line, the 101 master, the 101 slave |
| `Cs101Polling`, `Cs101PollingProofs` | composes the three: one master, several stations, a line that loses frames; theorems `PollingTypeCorrect`, `PollingAnswersInOrder`, `PollingFcbAgree`, `PollingOneTalker` |
| `SensorStore`, `SensorStoreProofs` | processes, semaphore and database; theorems `StoreExclusive`, `StoreTypeCorrect`, `StoreOneRow`, `StorePolls`, `StoreRowsOwn` |
| `ProcessTree`, `MCProcessTree`, `ProcessTreeProofs` | forks, returns into `main`, signals, restarts; theorems `TreeTypeCorrect`, `NoWorkerForgotten`, `WorkersOnce`, `ExclusiveUntilSetOver` |
| `TransparentTransmission`, `TransparentTransmissionProofs` | the four threads of a TCP task; theorems `TransparentTypeCorrect`, `TransparentGreets`, `TransparentLosesAtUartOnly`, `TransparentPeersInOrder` |

How they fit: `Cs104Master` takes the transmit buffer and the receive queue for
sequences of frames; `TcpClient` and `ByteQueue` open those two up, byte by byte and access by
access. `SensorStore` looks into the critical sections of processes that are given;
`ProcessTree` has those processes come and go, with the critical section as one place.

### Cs104Master

The program counter `pc` follows one pass of `CS104_Master_Clock`:
`net` (NetTest) → `read` (ReadMISIData, SearchValidFrame, Decode*Frame) → `send`
(LinkSendProcess) → `timer` → `t1` → `ack` → `t3` → `app`, the tests of
`LinkOnTimer` in their order. Every step between two of them may be one of the client thread
(`ClientConnect/Read/Write/Lost`), of a callback (`OtherLoad`, `OtherStore`: the
unlocked `|=` taken apart), of the station or of the network. `exit` is the `exit(1)` of
`PeerNoAckNumProcess`.

| State | Code |
|---|---|
| `NS NR NRACK peerNoAckNum stopSendFlag` | `CS104_MASTER_LINKINFO` |
| `tick` | bits 1-3 of `Tick.Flag` |
| `appConnect firstInit firstAllData sendDateType` | `CS104_MASTER_APPINFO` |
| `rxdBuf rxdStatus` | `RxdBuf`, `RxdStatus` with the header seen |
| `txBuf rxQueue running` | `s_ethernet_client_tx_buf`, `_rxcb`, `_run` of `client.c` |
| `net toPeer toMaster p*` | TCP and the station: external |

What is abstracted, and why that keeps the properties' sense:

- *Time.* The code compares `gettimeofday` values, a clock that can be set. A timer whose
  bit is on may be found expired in any pass. That is more behaviour than a steady
  clock gives, so what holds here holds there. `SetTimer(1)` stamps all start times of T1 at
  once and each received frame clears the T1 bit, so T1 is one timer. T0 is never set.
- *Frames.* A frame is a record. Cutting by TCP segments is a `HEADER` token ahead of
  its frame (`SplitReads`): the first bytes, at least the six of the header. A reset
  in between leaves `rxdStatus = "void"`, and the next pass decodes zeros. The code
  fetches at most 256 bytes a pass, the model all there is.
- *Buffers.* The transmit buffer is never full, and `write()` takes all of it; the byte-level
  races are the subject of `TcpClient`.
- *Numbers.* `SeqMax` stands for 32767. The formulas that wrap add `SeqMax`, as the
  code adds 32767 (`ToAcknowledge` in 16 bits), and NR wraps from `SeqMax + 1`.
- *ASDUs.* Only what changes the link: end of initialisation (`reset`), end of
  interrogation (`icEnd`), `data`.
- *Connections.* `clean` marks a connection that began after `NetTest` had seen the
  previous one end, with both buffers of the client empty. The guarantees below are for
  such connections; section 6 says what happens on the others.
- *The station* follows the standard, with two liberties (`PeerMay`): it may report its
  reset, and it may confirm a STOPDT nobody sent, once per connection begun clean.

### PeriodicInterrogation

`sendI_InitFlg` (`cs104MasterApp.c:994`) is a `static` of a function that one thread per
device runs. Each thread makes one pass per 20 ms tick, in any order. The two reads of the flag
in one pass (`StartTiming`, `RequestPeriodic`) are two steps. `since` and
`meddled` are history: ticks since the last request; whether another thread has been
in `StartTiming` since this device's STARTDT act cleared the flag. How a link comes up is external here.

### TcpClient

| State | Code |
|---|---|
| `sock running buf len sending` | `client_sock`, `s_ethernet_client_run`, `_tx_buf`, `_len`, bit `CLIENT_SENDING` of `_flag` |
| `pc wrote lenRead` | where `thread_client` is, `err`, its copy of the length between load and store |
| `mpc mLenRead` | the same of the master's thread, in `ethernet_client_put` or `setClientCloseLink` |
| `owner broken` | the process's descriptors, external: `socket()` hands out any free one, to this link or to another |
| `dead` | the end of the process: SIGPIPE, or a copy past the end of the buffer |

The semaphores around the buffer are commented out in the code, so each access to a
variable of both threads is a step. `len -= err` and `len += n` are a load and a
store. A put is of one byte. The code compares the length of the put alone with the size of the
buffer (`client.c:261`), never what waits already, so nothing stops the length at `Size`: a put
past the end either ends the process (`CopyDies`) or goes on and spoils the bytes (`Copy`), and what lies behind the buffer
is not modelled. `MaxLen` bounds how far past the end the model goes. Bytes are numbered modulo `2 * Size`, which tells apart all that can be
waiting in the buffer, and are followed until `spoilt`.

Between `close()` and `client_sock = -1` in `setClientCloseLink` the number may be handed to another link. `connect`, `select` and `write` of
this thread then meet that link's socket and may succeed (`OnOther`); a write there spoils the bytes. `SelectTimesOut` may also happen without a socket: `select` then watches
descriptor -1 (see section 5, `crossed`). `WriteDies` is SIGPIPE, when the station has reset the connection between `select` and `write`.
Not modelled: what is read (`ByteQueue`), on whichever socket; the bits CLIENT_TCP_* of the flag, which nobody reads.

### ByteQueue

A step is one access to memory the other thread reads or writes as well: `Store`,
`Advance`, `WrapIn` of the writer, `FindByte`, `TakeByte` of the reader. A byte is its number
in the order of writing. The test for a full ring is commented out in `QueueWrite`, so
`Backlog`, the most bytes ever waiting, is a constant about the callers.

### Cs101Line, Cs101Master, Cs101Station, Cs101Polling

`iec101_init` sets `balanMode` to 0, so the unbalanced mode is the one that runs. The
master's `cur` is the link of `cs101_master_run_thread`, `pc` the step of its visit; `link[i]` has
`link_flag`, `pack_flag` (the requests that wait to be sent), `masterFCB`,
`retry_num_con`, `tx_re_frame`. A station's record has the bits of `LinkFlag`, the FCB and repetition
count, `Data1Flag`, and how many replies wait in its two stores (their sizes are
those of the code, less the cell a ring leaves empty).

- *Frames* are their function code and, for ASDUs, kind and position in an
  interrogation. A frame for someone else is read and thrown away, so each
  station has its own queue. Checksums stand behind `Lose`: a spoilt frame is a lost one.
- *Faults.* `Lose` takes any frame from the line; `Restart` is a power cycle of a
  station. They share the bound `MaxFaults`.
- *Time.* An answer is assumed to be faster than the master's time-outs: `Repeat`, `Relink` and
  `GivesUpWaiting` require `Idle(cur)`, that nothing from this station is owed or under way. Late answers are not
  modelled.
- *Retries* add up over a link's requests and are reset only in a pass that has nothing
  to send, as `retry_num_con` is; the third repetition is sent and its answer not awaited.
- `KnownFrom`: stations whose common address is configured rightly. One whose address is wrong answers
  commands with an error reply.
- Left out: balanced mode and remote control, which nothing in the repository calls; spontaneous data
  of the slave, behind which the data base is empty in this version; its timers, whose clock
  returns 0.

### SensorStore

One table per user name, one sensor process for it, with a row per device, and maybe a
publisher. A SQLite statement is two steps, begun and committed. Two writers exclude each
other, a writer cannot commit next to a reader, and the loser gets `SQLITE_BUSY` at once, since
no busy timeout is set (external). A publisher's CREATE, outside the semaphore, has the
states written with a capital. `Dies` is a kill, the null pointer that `pollAllRecord` reads after a failed
SELECT, or what it reads past the end of the result of an empty table, whose SELECT returns no names of columns (`PollData`; that one may also
do no harm). The kernel gives back what SEM_UNDO has counted. Processes are not started again
(see `ProcessTree`). Failure of `sqlite3_open` and of `semop` (EINTR) are left out.

### ProcessTree

`Workers` is the configuration: the kinds of enabled workers, sorted as `main` calls their
`Creat*Process` functions (`Main.c:51-65`). `pos[p]` is how far `p` is in these calls, `job[p]` which worker it was forked
to be. A worker of a kind in `Returns` may come back from its
function (without a UART, socket or modbus): it then returns from
`Creat*Process` into `main` and goes on with the *later* kinds. `Dies` is any end of a process, with what
the kernel does: SEM_UNDO, `PR_SET_PDEATHSIG` to children that had asked, children re-parented (`parent` 0).
`SetSemValue` is SETVAL, which clears every undo count. `stray`, `returned` and `setOver` are history, see section 5. The backup of
the data file, and what the indicator shows, are left out.

### TransparentTransmission

`recvPc` is the network receiver (receive, write the pipe, shut down, clear `socketFd`,
connect, greet, set `socketFd`), `sendPc` the network sender (read the pipe, load `socketFd`,
send), the other two threads two steps each. `UartSend` takes a chunk from the pipe (`UartTake`) and gives it to
`write()`, which may fail or take a part (`UartWrite`); the code prints an error, does not look at a count, and goes on, so the rest is lost. `refused` is history: the bytes lost so.
`write()` into a pipe blocks when the pipe is full, and does not fail, since its reader never closes it. `role` tells the client's task from the server's: the receivers differ in
what happens when no socket is left. A byte's number is its place in the order of
arrival, 0 the greeting. Sockets are never closed by the code, so `Len(tcp)` counts them to `MaxSockets`.
`err` is a pending `sk_err`, reported once to either thread; `dead` is SIGPIPE. The UART may deliver at any
speed. Left out: the start of the task (pipes, first connection, UART), UDP, and a failing
`gethostbyname` (`Net.c:37-41`): the configured address is an IP literal.

## 3. Runs

| Run | Bounds | Shows |
|---|---|---|
| `link_session` | K 3, W 2, station window 2, three I frames each way, split frames, 1 connection | `ReceivedExactly`: the counter equals frames sent less frames under way. `ServiceSpec`: the refinement of `Cs104Service`. Both windows fill, so `>= K` and `>= W` are met from both sides |
| `link_commands` | K 2, callbacks with REMOTECTL, station may reset | `SentExactly`: no gap in N(S), and no `exit(1)` before the first test frame, with requests that come before STARTDT con or race with the master thread |
| `link_stopdt` | W 1, unasked STOPDT con and test frames | `AcknowledgedByW`: the acknowledgement window, also across such a reset in mid-pass; `WindowAcknowledged` proves it for every W |
| `link_live` | two connections, each may break at any step, fairness | `StationAccepts` (the station never finds a protocol error on a clean connection), `Acknowledged`, and `LinkStarts`: both ends come to be started, with whatever the first connection left behind, except `Deceived` (section 5); 841 249 states |
| `interrogation` | two devices, period of three ticks, fairness | `WholePeriod`, `InterrogatedWhenAllStart` |
| `queue_order` | ring of 4, backlog 3, 12 bytes = three turns of the ring | `InOrder` until a read has raced with the wrap |
| `client` | 3 descriptors, a buffer of 2 that may be overrun by one, two closings by the master, one break, fairness | `TypeOK` (the length never falls below 0), `SentInOrder`, `OwnSocketOnly`, `Reconnects`; 1 302 759 states |
| `polling` | two stations, one with a wrong common address; one fault; one cyclic interrogation; the code's retry numbers and store sizes; fairness | `AnswersInOrder`, `FcbAgree`, `OneTalker`, `EveryoneServed`, `LinksComeUp`, `Interrogated`; 381 928 states |
| `store` | two sensors with two devices each, a publisher, any process killed at any step, fairness | `SemaphoreKept`, `OneRowEach`, `RowsOwn`, `PollsSeeSaved`, `KeepsPolling` |
| `process_tree` | room for 4 processes, a sensor worker that may come back and a publisher, failing forks, two starts | `OneCopyEach`, `NobodyForgotten`, `ExclusiveAcrossRestarts`, `EndsWithMain` |
| `transparent` | three connections, pipes of 2, three bytes from the network and two from the UART, a UART that takes a part or nothing, both roles, fairness | `PeersGetInOrder`, `GreetedFirst`, `LostOnlyAtUart`, `Reconnects`; 510 572 states |
| `doc_test_confirm` | the smallest that shows it | section 6 |

*Why the bounds suffice.*

- A 104 link's properties compare two counters and the frames between them. Three frames each
  way with windows of two and three give every relation of `<`, `=`, `>` to K and W, and frames of all kinds under way together.
  `MaxSend` and `MaxRecv` bound the history, `ChanCap` what is under way when a timer or
  the station may still add to it. `SeqMax = 7` is out of reach of the frames, so the runs are about
  counters before their wrap; what the wrap does is said in section 6.
- Two devices, or two tables with one publisher, are enough for each pair of actors to meet;
  a third is symmetric.
- `client`: a descriptor can be this link's, another's, or the one handed out next, hence three. Two closings are
  enough for one to cross and the next to find what that left; each crossing may leak a descriptor, and three are few enough to be used up
  (`Exhausted`). A buffer of two is overrun by the third byte, and `MaxLen` lets that put go on as well as end the process.
- `polling`: two stations are the least for turn-taking. One fault, a lost frame or a power cycle
  anywhere, is enough for repetition, and a link that is given up and set up anew. The
  invariants were also checked with two faults (4 860 215 states), which takes too long for a regular run.
- `process_tree`: a main process, both workers and the copy of the second that the
  first one forks when it comes back fill four places; the fifth fork fails.
- `transparent`: three connections, so that one is replaced by one that is replaced in turn; chunks of one and two
  bytes towards the UART, of which nothing, a part or all is taken; a pipe that is full before the third.

`CHECK_DEADLOCK FALSE` stands in `queue_order` (both threads stop after `Total`
bytes), `store` and `process_tree` (all processes may be dead, and started often enough),
and `transparent` (the process may have died of SIGPIPE, and peers and UART may have nothing left to send).

### Fairness

- `Cs104Master`: weak for a pass of the master thread (`usleep(20000)` in an endless
  loop), for the client thread's read, write and noticing of a lost connection
  (an endless `select` loop), and for the station's answers. Strong for `StartdtDue` and
  `AckDue`, timers that stay set and pass in the end. Nobody is obliged to connect or to send.
- `PeriodicInterrogation`: weak for each thread's pass and the tick. No link is obliged to change.
- `TcpClient`: weak for both threads (the client's loop is endless, a call of the master once begun is finished);
  strong for `Connect`, somebody listens now and then; strong for a master that sees the link up to go on sending, as
  STARTDT and test frames do every few seconds (`Copy`, or `CopyDies` where the buffer has overflowed). Only this last makes a thread that runs on without a
  socket notice it, by a write that fails.
- `Cs101Polling`: weak for the threads at both ends; strong, per link, for the times that the
  master looks at again and again. They come to pass while another link is visited, so weak fairness would not do.
- `SensorStore`: strong for each process, since `semop` wakes waiting processes in turn.
- `ProcessTree`: the kernel delivers signals. Nothing else: no process is obliged to go on.
- `TransparentTransmission`: weak for the receiver and the UART's sender; strong for `Connected`, since the code tries
  again every second and somebody listens, or connects, in the end.

## 4. What is proved

For every value of the constants, under the `ASSUME`s of the modules, and for four theorems
about the 104 link under hypotheses that they name:

| Theorem | Statement | Argument |
|---|---|---|
| `Cs104MasterProofs!TypeCorrect` | `Spec => []TypeOK` | inductive; `FlagsStep`, `NumbersStep`, `BuffersStep` take the three named parts of `TypeOK` through every action. What is not obvious: `NR` and `NRACK` stay in `0..SeqMax+1`, the acknowledged distances are natural numbers, and `rest` of a decoded buffer is a sequence of frames |
| `Cs104MasterProofs!WindowAcknowledged` | `Spec => []AcknowledgedByW` | `AcknowledgedByW` speaks of `pc = "net"` only and is not inductive. The strengthening adds that it holds already at `t3` and `app`, after the window test has been made; an action that resets the link zeroes both counters |
| `Cs104MasterProofs!LinkSendsExactly` | `Spec => []SentExactly` | for every window and any requests of other threads, wrap of the numbers included: `Connected` and the kinds of step `Move`, described below |
| `Cs104MasterProofs!LinkReceivesExactly` | `Spec /\ []HeadersWhole /\ []NotWrapped => []ReceivedExactly` | `RecvInStep`, with all that is on its way, from the socket to the decoder, as one sequence `Coming` |
| `Cs104MasterProofs!LinkNoAbort` | `Spec /\ []NumbersLeft => []NoAbortUntested` | `InAcks` and `OutOrder` |
| `Cs104MasterProofs!LinkImplementsService` | `Spec /\ []HeadersWhole /\ []NumbersLeft => ServiceSpec` | `InAcks`, `OutOrder`, `OutAcks`; each kind of step is a step of `Cs104Service` or a stutter |
| `Cs104MasterProofs!LinkStationAccepts` | for `Commands = {}`: `Spec /\ []HeadersWhole /\ []NumbersLeft => []StationAccepts` | `OutOrder`, `OutAcks`, and `AskedFirst`, `StartedFirst` for data before STARTDT |
| `ByteQueueProofs!QueueTypeCorrect` | `Spec => []TypeOK` | inductive: `In = Size` only between the two stores |
| `ByteQueueProofs!QueueOrder` | `Backlog < Size` implies `Spec => []InOrder` | `RingUnlessRaced`: the bytes not yet read lie from Out to In in one piece, in two, or there are none while In is End. `InOrder` says nothing of the ring's contents, so this layout is what makes it inductive |
| `TcpClientProofs!ClientTypeCorrect` | `Spec => []TypeOK` | that the length never falls below 0 is not inductive: it is computed from copies that may be old. `StaleLengths`: the client's copy is never more than there is, since the master only adds; the master's is never less, since the client only subtracts. So a lost update never takes the length below 0, where it would be added to the address of a copy. There is no upper bound to prove, as the code tests for none |
| `TcpClientProofs!ClosesOwnSocket` | `Spec => []OwnSocketOnly` | `SocketsUnlessCrossed`: outside a closing, `client_sock` is the link's descriptor or -1, and it is -1 wherever a `socket()` is about to overwrite it |
| `TcpClientProofs!ClientSendsInOrder` | `Spec => []SentInOrder` | `StreamUnlessSpoilt`: the bytes in the buffer are numbered on from the last one sent, shifted by what a write in progress has taken, and the copies of the length that both threads hold are up to date; a put that has copied its byte but not yet added it keeps that byte just behind the others |
| `PeriodicInterrogationProofs!PeriodsAreWhole` | `Spec => []WholePeriod` | for any number of threads: a thread whose flag nobody meddled with has counted its timer from its last request |
| `SensorStoreProofs!StoreExclusive` | `Spec => []SemaphoreKept` | `Held`: each process's undo count is 1 exactly in its critical section, so a death gives back what it held. Stated of three values rather than of the variables, so that entering, leaving and moving are lemmas about functions |
| `SensorStoreProofs!StoreOneRow`, `StorePolls`, `StoreRowsOwn` | `Spec => []OneRowEach`, `[]PollsSeeSaved`, `[]RowsOwn` | `RowsKept` says of each place of a save how many rows there are: none between DELETE and INSERT, which `Held` keeps a poll away from. `PollsSeeSaved` follows, since a poll reads under the semaphore and nobody but a CREATE writes meanwhile |
| `TransparentTransmissionProofs!TransparentLosesAtUartOnly` | `Spec => []LostOnlyAtUart` | `NetFlow`: what is on its way, from the sockets still to be read over the receiver's chunk, the pipe and the UART sender's chunk to the UART, is one ascending sequence of every byte sent that is not in `refused`, and a connection that is not the current one has nothing left to read. `PieceLost`: taking a piece out of an ascending sequence, as a failed or short write does, leaves one whose members are the others |
| `TransparentTransmissionProofs!TransparentPeersInOrder`, `TransparentGreets` | `Spec => []PeersGetInOrder`, `[]GreetedFirst` | `UartLine` (everything the peers got is less than what the sender holds, which is less than what is in the pipe) and `PeersBehind`: a sender that has loaded an old descriptor writes to a connection that has been shut down, so it adds nothing |
| `Cs101PollingProofs!PollingTypeCorrect`, `PollingAnswersInOrder`, `PollingFcbAgree`, `PollingOneTalker` | `Spec => []TypeOK`, `[]AnswersInOrder`, `[]FcbAgree`, `[]OneTalker` | one invariant, `Polling`, described below |
| `ProcessTreeProofs!TreeTypeCorrect`, `NoWorkerForgotten`, `WorkersOnce` | `Spec => []TypeOK`, `[]NobodyForgotten`, `[]OneCopyEach` | one invariant, `Tree`, for all three: beside them it says which states a main process and a worker can be in, that a worker in `main` has come back and has only later kinds before it, and that the main process is past the jobs of the workers it has forked (`Roles`, `CameBack`, `InTurn`). Without the last, nothing excludes that a process forks a job twice |
| `ProcessTreeProofs!ExclusiveUntilSetOver` | `Spec => []ExclusiveAcrossRestarts` | `Undone`: until a restart sets the semaphore over a process inside, undo counts are 1 inside and 0 elsewhere, as in `SensorStore`, but with processes that come, go and are forked meanwhile |

*The invariants of the 104 link.* `Connected` is what makes a connection begun clean different from
any other: the master knows its socket, both ends start from zero with empty buffers, and no pass is left
half done from the connection before. Given it, the many actions of `Next` do one of few things to what the
properties speak of, the counters and the two flows of frames, `Going` (transmit buffer and network) and `Coming`
(network, receive queue and receive buffer): nothing, the master sends, takes or decodes a frame,
the station sends or takes one, or the connection begins or ends. `MoveStep` proves that once, going
through all actions; each invariant is then proved over these kinds of step. `InAcks` says that the acknowledgements on their way to the master ascend from
what it knows (`Due`, computed from `peerNoAckNum`) to what the station has received. `OutAcks` says the same towards
the station. `OutOrder` says that the I frames on their way to the station are the next it expects, in order. None of
this is in the properties, which compare counters only, and without it no acknowledgement
can be shown to be in range. The refinement follows: with these, each kind of step is `Send`, `Deliver`,
`Acknowledge`, `Open` or `Close` of the service, or a stutter.

The hypotheses exclude what the code does wrong, or where the numbers stop telling frames apart, and no more:

| Hypothesis | Says | Why it is needed |
|---|---|---|
| `HeadersWhole` | no clean connection decodes a header cut off before it | a reset keeps `RxdStatus` (`cs104MasterApp.c:239`); the frame of zeros counts. True whenever segments do not cut frames (`SplitReads = FALSE`), and on the first connection |
| `NotWrapped` | `NR` has not become 32768 | it wraps one too late (`:554`) |
| `NumbersLeft` | neither side has sent 32767 frames on this connection | the properties of the acknowledgements compare numbers by `<=`, as the code does before a wrap |
| `Commands = {}` | no other module asks the master to send | the callbacks do not look at `App.Connect`: an interrogation before STARTDT is confirmed is data that a station must reject |

All of them hold throughout the runs that check the property in question; where they fail, `NotWrapped` and
`HeadersWhole` are the cases of section 6.

*The invariant of the 101 line.* None of the four properties is inductive: that the next frame of an
interrogation is the right one depends on where each link is in its life, on what is under way, and
on both FCBs. `Polling` says that each link is either `Abandoned` (given up, and
not asked for anew before its visit) or `Orderly`: at most one message, a request or the answer to it, is
on the line for it, nothing at all unless it is the link that is visited, whose visit then goes on, and
the link is in one of five phases (`ToRequest`, `Requesting`, `ToReset`, `Resetting`, `Running`). In
`Running`, `Agreed` relates the two FCBs to what is under way, and `InStep` relates the station's place in
the interrogation to what has been heard. So a step of any party, or a loss, leads from one phase to the same
or the next. Two conditions that one expects to need turn out not to: how many faults there are, and how
large the stores for replies. `Min`, by which the code's first match is modelled, has least elements by
`LeastExists`, from the library's well-foundedness of `<`. That lemma has no operator parameter, so it gives
induction over the naturals within the provers' reach. The proof also found a `CASE` of `Processed` with two
true guards, on which TLC takes the first and TLA+ says nothing; the guards are disjoint now.

*Only model-checked:* everything under fairness (`Acknowledged`, `LinkStarts`,
`InterrogatedWhenAllStart`, `Reconnects` of both modules, `EveryoneServed`, `LinksComeUp`, `Interrogated`,
`KeepsPolling`, `EndsWithMain`: TLAPS has no ENABLED). Every safety property of a passing run, and the
refinement, is a theorem.

## 5. Properties and the hazards behind them

Most properties hold up to an event the code does not survive. Such an event is a
history variable of its own, set exactly where it happens, so that a property says what is
promised *until* then, and section 6 what comes after.

| Property | Until | Where in the code |
|---|---|---|
| `ReceivedExactly SentExactly StationAccepts NoAbortUntested` | not `clean`: a connection the 20 ms sampling missed; or, for the last, `tested` | `cs104MasterApp.c:949`, `:517` |
| `WholePeriod` | `meddled`: another thread set the shared flag anew | `:994` |
| `InOrder` | a read has raced with the wrap | `queue.c:236` |
| `LinkStarts` | `Deceived`: a connection lost and replaced between two samples of NetTest is taken for the old one, and never sent STARTDT; so is one of which the master reads a confirmation left in the queue | `cs104MasterApp.c:949` |
| `SentInOrder` | `spoilt`: a put has met a write or gone past the end of the buffer, or a write was partial or went out on the socket of another link | `client.c:154`, `:261-266`, `:302` |
| `OwnSocketOnly` | `crossed`: `setClientCloseLink` has met a closing by the client thread, or its `socket()` | `client.c:300-305` |
| `EveryoneServed LinksComeUp Interrogated` | `Insists`: `CS101_SLAVE_HAVESTDATA1`, cleared by nothing but a reset, makes a station demand the next request for ever | `cs101SlaveApp.c:1711` |
| `OneRowEach` | a publisher's CREATE has met a DELETE | `MqttPublish.c:110` |
| `OneCopyEach NobodyForgotten EndsWithMain` | `returned`; `stray`: the parent died between fork and prctl | `NoiseSensor.c:92`, `ProcessSignal.c:118-124` |
| `ExclusiveAcrossRestarts` | `setOver`: SETVAL with a process of the last start in the database | `ProcessSignal.c:43` |
| `Reconnects` (client) | `dead`; `Exhausted`: crossing closings have leaked all descriptors but at most one | `client.c:150`, `:264`, `:300-305` |
| `LostOnlyAtUart` | `refused`: bytes that `write()` to the UART did not take | `Task.c:554` |
| `RowsOwn` | `ReadsFail = FALSE`: reads of the devices succeed | `NoiseSensor.c:149` |
| `Reconnects` (transparent) | reset before shutdown, no descriptor left, SIGPIPE | `Net.c:135`, `:43` |

`ReceivedExactly` and `SentExactly` relate the counters at both ends to every frame in
four buffers. They are what a lost rest of a buffer, a reset in mid-pass, or a
socket left open breaks. `NoAbortUntested` is why all of that matters: any disagreement ends in `exit(1)`, which takes
every link down. `AnswersInOrder` and `FcbAgree` do the same for 101, where the FCB is all that
tells a repetition from a new request. `PollsSeeSaved` states that the semaphore makes two SQLite transactions act as one to
a poll. `PeersGetInOrder` and `LostOnlyAtUart` are stated over all connections together, since the
reconnect is what could reorder or lose. `LinkStarts` asks for the station's own state (`pStarted`), not only for the master's
flag, which is stale exactly in the case it excepts.

## 6. Where code and comments disagree, and what else was met

With a run, `doc_test_confirm`. A test frame is counted among the unacknowledged frames when it is sent
(`cs104MasterApp.c:446`), and its confirmation takes one off (`:520`). These balance, unless an acknowledgement is handled in between: it
computes the count anew from N(S) (`:209`), which takes the test's share off as well. In the run, the master sends a test frame, handles
an acknowledgement, and sends an I frame; when the confirmation comes the count is 1 and stands for that frame, still on its
way, where the comment at `:516` says that only the test is timed. The confirmation takes it off. From there the count is one too small, and the next frame of the
station that acknowledges none of the outstanding ones finds more unacknowledged than the count says and
reaches `exit(1)` at `:206`. That end is what `tested` in `NoAbortUntested` leaves out.

Met while modelling; the models follow the code:

- *Numbers.* NR wraps at 32768, one too late (`cs104MasterApp.c:554`): after the first wrap it is one behind the
  station.
- *Shared timing.* A device that never confirms STARTDT clears the shared flag in each pass; the others restart timing
  for ever (`:994`, `:1006`, `:1109`). A `meddled` device also gets its first periodic
  request early, against `:1097`.
- *Window.* `StopSendFlag` is set at K frames and read nowhere: the master sends beyond K. The model has
  the flag, and no guard.
- *Old connection.* One lost and replaced within 20 ms keeps NS and NR, so the new station rejects
  the first frame: the reason for `noticed` in `clean`. After a reset between header and
  body, a frame of zeros is decoded and counted on the next connection: `ReceivedExactly` with `SplitReads` is checked with
  one connection only.
- *Byte queue.* A read between the increment and the wrap of `In` finds an empty ring full (`queue.c:236-239` against
  `:208`).
- *Transmit buffer.* After a partial write the length shrinks and the buffer is not moved
  (`client.c:154`): the head goes out again, and the tail never. Nothing asks whether a put still
  fits what waits already (`:261-266`): while a link is down and requests go on, the copy may go past the end of the buffer. Between `close` and `client_sock = -1` (`:302`)
  the thread may read from, and write to, another link's socket. After a crossing closing the client's loop may run on
  with descriptor -1, for which `FD_SET` is undefined; the model takes the outcome that `select` times out.
- *101 repetition.* The comments at `101master.c:1839` and `:1866` say that the master waits after sending; after the
  third repetition the count is used up, and the link is given up in the next pass without a wait for its answer. `link_time.enable_flag` is read without having been set (`:2216`): the
  first wait may last any time or none, which `Relink` covers.
- *Store.* A DELETE that met `SQLITE_BUSY` is followed by the INSERT and reported as success
  (`DataProcess.c:41-50`, `MqttPublish.c:110`): two rows. `modbus_read_registers` failing leaves the registers of the
  device before, which are saved under this one; `RowsOwn` is conditional on `~ReadsFail`. A poll of an empty table reads past the end of its result
  (`SqliteInterface.c:350-358`).
- *Process tree.* The comment at `Main.c:72` takes the loop for the parent's; a worker that came back runs it
  too, after forking the later workers again.
- *Transparent.* The loop around `shutdown()` never ends on a socket that was reset (`Net.c:135`). Sockets are shut down and
  never closed, so each reconnect costs a descriptor. A `write()` to the UART that fails is printed, and one
  that takes a part goes unnoticed; the chunk has left the pipe, and its rest is lost (`Task.c:554-557`).

## 7. Not modelled, and why

- *104 slave and TCP server*: the gateway starts the masters only, so no process runs them. The station of
  `Cs104Master` stands for any slave that follows the standard.
- *101 slave beyond polling*, balanced 101: parameter and file commands, and a mode that is not configured.
- *UDP task*: the receiver rewrites the remote address while the sender reads it, so that a datagram may go to
  either; no order is promised. *Start of a transparent task*: after an error the threads
  not created are joined by uninitialised numbers, undefined behaviour with no state to check.
- *IEC interface*: calls at the start of one thread. `thread_pause` (`iec_interface.c:314`) pauses slaves only.
- *T1 with start times*: `SetTimer(1)` restamps all frames (`cs104MasterApp.c:52`, against the comment at `:221`), so T1
  is late. Since timers are flags that may be due in any pass, lateness is not expressed.
- *ASDU decoding, modbus registers, JSON, SQL text, files, LED, web*: parsing and device I/O without an
  order of events to get wrong.
- *goahead*, started by `system()` in the web process, is not a node of `ProcessTree`: the guarantee that workers end with `main` is
  about the processes forked in `Main.c`.
- *`gethostbyname`* failing in a transparent client (`Net.c:37-41`): the configured address is an IP literal.
- *Vendored code* (SQLite, Paho MQTT, libmodbus and their headers) is a large part of the lines of
  the repository and not this program's.

Theorems still worth proving: the acknowledgements of a 104 link over a wrap of its numbers, by comparing
distances modulo the sequence space in place of `NumbersLeft`; and that what `TcpClient` and `ByteQueue`
promise of bytes is what `Cs104Master` takes for granted of frames.
