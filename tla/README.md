# A TLA+ model of smart-dashcam

smart-dashcam turns a Raspberry Pi 3 in a car (the main unit) and further
Raspberry Pis (auxiliary units) into a set of cameras.  The units talk over a
TCP connection between a *client service* on each auxiliary unit and a *server
service* on the main unit; other programs reach the services over DBUS.  The
main unit records, shows the streams of the auxiliary cameras, and watches the
lane.

This directory models the program in TLA+, checks the models with TLC, and
proves theorems about them with TLAPS.  `PROJECT.json` maps every definition to
the lines it stands for.

## 1. Inventory

Paths are relative to `src/`.

| Part | State | Operations | Talks to |
|---|---|---|---|
| **TCP server library** `Interfaces/1-Networking/socket_libs/server/socket_server.c` | the list `client_infos` of clients (descriptor, UUID, `recv_uuid`), `active_fd_set`, the three callbacks | `socket_server_init`, the execute thread (accept, receive, ping), `socket_server_send_data[_all]`, `close_client_conn`, `socket_server_quit` | clients by TCP, the server service by callbacks |
| **TCP client library** `.../client/socket_client.c` | `client_fd`, `isRunning`, the UUID | `socket_client_init`, the execute thread, `socket_client_send_data`, `close_and_notify` | the server by TCP, the client service by callbacks |
| **Message framing** `.../0-common/socket_commons.c` | static header buffer, two mutexes | `socket_send_data`, `socket_receive_data`, connecting and binding | sockets |
| **TCP client service** `Interfaces/2-Services/tcp_client_service...` | `ignore_disconnect` | main loop: connect, announce, execute, poll; DBUS method to send | both libraries, DBUS, systemd |
| **TCP server service** `Interfaces/2-Services/tcp_server_service...` | a table of connected clients | callbacks that emit signals; main loop; DBUS method to send | both libraries, DBUS |
| **DBUS server library** `Interfaces/0-DBUS/tcp_dbus_server` | server objects: connection, main loop, callback | create, init, execute, kill, delete, emit, method handler | GLib's main loop |
| **DBUS client library** `Interfaces/0-DBUS/tcp_dbus_client` | client objects, table of subscriptions | create, init, subscribe, unsubscribe, disconnect, send | GLib's main loop |
| **Data exchange programs** `Interfaces/2-Services/{recv_data_on_pi3,send_data_from_pi0}` | the selected client, message queue | DBUS callbacks, main loop | DBUS client library |
| **Video streamer** `main_module/dashRecording/Stream/dashcam_streamer` | ring buffer of bytes, NAL unit being collected, PPS and SPS, packet buffer | `record_bytes`, server loop, viewer threads | camera encoder, TCP |
| **Recorder** `main_module/dashRecording/DashcamRecorder.py` | queue of raw recordings, numbered files | recording thread, wrapping thread, reduction | camera, ffmpeg, file system |
| **GUI and main program** `main_module/{gui,start_main_dashcam}.py` | stack of views, command queue | push, pop, lane warning, retrieval mode | recorder, discovery, lane detection |
| **Discovery, auxiliary unit** `main_module/deviceDiscovery/Discover.py`, `aux_unit/start_aux_unit.py` | set of addresses heard of | discover request and reply | DBUS client library |
| **Lane detection** `Lane_Detection` | frame history | image processing, departure decision | camera, GPU |

Behaviours that are hard:

- *Races.*  The server's list of clients is walked and freed by the execute
  thread and by the DBUS loop with no lock.  The client's `client_fd` is closed
  and cleared by three threads with no lock.
- *Loss.*  An auxiliary unit loses power or the Wi-Fi link: no FIN arrives.
  Pings (server) and a timeout on them (client) must reveal it; neither can
  while the execute thread waits for the rest of a message in a `read` that has
  no timeout.
- *Reuse.*  Descriptor numbers are reused at once; a number that is stale in a
  set, a thread or a cell stands for another connection.
- *Failure in the middle.*  A send fails inside the loop that walks the list it
  makes `close_client_conn` edit.
- *Restart.*  systemd restarts a service that dies of an assert or exits; its
  subscribers live on with what they were told before.  A viewer that comes
  back gets a new session of the stream, in the middle of a recording.
- *Two threads that speak for one device.*  The server service changes its table
  and emits signals from the execute thread and from the DBUS loop.
- *Hand-over between threads.*  The viewer's two threads wait for each other on
  two semaphores while one of them enlarges the queue they share.
- *Power.*  The units have no battery: the recorder can stop between any two
  operations on its files, in the middle of a renumbering too.

What makes the parts correct: the list, the descriptor table and the select set
agree; each identified client is announced once, and withdrawn once, in that
order (with other threads sending, at least not before it was announced); data
carries the UUID of its sender; a loss is reported in the end;
no connection waits for ever; at most one thread reads a socket; the programs
that listen to the services know who is connected, and their requests go on and
do not multiply; the stream reaches the decoder byte for byte, beginning with
its parameter sets, with gaps that end in an IDR unit; the numbers of the
recordings follow their age, and only the oldest is removed.  The hazards in
`PROJECT.json` name the lines where each could go wrong, including those of
parts that have no module.

## 2. Modules

| Module | What it is |
|---|---|
| `SocketServer` | `socket_server.c` with its execute thread, any number of caller threads, the peers and the kernel's socket state |
| `SignalContract` | what the user of the server library is told of each connection, in a strict form (no other thread sends) and a loose one; `SocketServer` is shown to implement both |
| `MCSocketServer` | model values and symmetry for TLC |
| `SocketServerProofs` | theorems about `SocketServer` with any set of caller threads, and the refinement of the loose form |
| `SocketServerSerialProofs` | theorems about `SocketServer` with no caller thread, and the refinement of the strict form |
| `SocketClient` | `socket_client.c` inside the client service: main thread, execute thread, sender threads, restarts |
| `MCSocketClient` | model values for TLC |
| `SocketClientProofs` | theorems about `SocketClient` |
| `SocketCommons` | `socket_send_data` and `socket_receive_data`: messages cut out of a stream of bytes |
| `MessageChannel` | the channel of whole messages for which the libraries take a connection; `SocketCommons` is shown to implement it |
| `MCSocketCommons` | model values for TLC |
| `SocketCommonsProofs` | theorems about `SocketCommons` |
| `DbusServer` | the life of a server object of `tcp_dbus_server.c` (operators) |
| `DbusClient` | the subscriptions of a client of `tcp_dbus_client.c` (operators) |
| `ServerService` | `tcp_server_service.c`: the table of clients, and its two threads that emit signals, over the loose `SignalContract` |
| `Exchange` | `ServerService` composed with recv_data_on_pi3 and the devices' send_data_from_pi0 |
| `MCExchange` | model values for TLC |
| `ExchangeProofs` | theorems about `Exchange` |
| `Queue` | the ring of `queue.c` (operators) |
| `QueueProofs` | lemmas and theorems about the ring |
| `Streamer` | `streamer.c` and `network.c`, the camera's side and the viewer |
| `MCStreamer` | model values for TLC |
| `StreamerProofs` | theorems about `Streamer` |
| `Recorder` | `DashcamRecorder.py`: recording, wrapping, renumbering, and loss of power |
| `MCRecorder` | model values for TLC |
| `RecorderProofs` | theorems about `Recorder` |

They build on each other like the code: `SocketCommons` implements
`MessageChannel`, whose whole and broken messages `SocketServer` and
`SocketClient` read; `SocketServer` implements `SignalContract`; `ServerService`
uses `SignalContract` in its place, in the form for several sending threads,
because its DBUS loop sends; `Exchange` extends `ServerService`; `Streamer`
extends `Queue`.

### SocketServer

A *connection* names the list cell that `handle_conn_request` allocates for it.
`fd`, `uuid` and `recv_uuid` are the fields of the cell, `client_infos` the
list, `freed` the cells given back to malloc.  `file` is the descriptor table:
`accept` returns the lowest free number, so numbers are reused as early as
possible.  `peer`, `inbox` and `unacked` are the kernel's knowledge of the
connection: a peer that is `gone` has lost power and the server's kernel does
not know; it finds out (`Detect`) only when it retransmits something.

Every thread has a `pc` and the locals it holds across a preemption: `client`
(the cell its loop is at), `client_fd` (the argument of `close_client_conn` or
of `process_recv_msg`) and `ret` (who called).  `close_client_conn` is three
steps, `FindAndNotify`, `CloseFd` and `Unlink`, because a thread can be
preempted between the callback, `close()` and the edit of the list.  A step that
fails an assert, dereferences NULL or touches a freed cell sets `fault` and the
behaviour ends there.

`SignalContract` has the constant `Alone`.  When it is `TRUE` (`ContractSpec`) a
connection is announced once, then heard, then withdrawn once.  When it is
`FALSE` (`RacingSpec`) it is announced once, and data and disconnects follow in
any number and order: two threads can find the same cell before either has
closed it (245 to 254), and both report it.

Abstractions: freed cells are not recycled, and glibc's `free` leaves the `next`
field of a cell, so that a thread that has just freed a cell goes on to its old
successor (the loops at 260 and 442); a thread that meets a cell freed by
*another* thread is a fault.  Messages are items: `uuid`, `data`, `bad` (fails
the header check and is dropped) and `cut` (a header whose data never comes).
Sends do not block.  A device opens one connection at a time and sends its UUID
first, as `socket_client_init` does; a sender of the client service that saw
`isRunning` just before a reconnection can break that order, which is not
modelled.  A UUID message of the wrong length is
among the `bad` ones.

### SocketClient

The variable `file` says what the number in `client_fd` refers to; `client_fd`
is the C variable.  The three steps of `close_and_notify` are actions of every
thread (`CloseFd`, `ClearFd`, `Notify`), and `back` says where the thread goes
next.  `watched` is what the execute thread put into its descriptor set when it
began: the socket, nothing, or (after `FD_SET(-1)`, undefined) some other
descriptor.  `told` is what the subscribers heard last.  `Restart` is systemd
starting the service again after an exit or an assert; it keeps what the
subscribers were told.

`socket_receive_data` reads a header and then its data, and waits for these in a
`read` without a timeout.  So a message that is cut takes two steps:
`RecvHeader` leaves the execute thread at "body", and only the data
(`RecvBody`) or the end of the connection (`BodyDisconnect`) lets it go on.
`ServerSends` may send a cut message and `DataCome` its rest.  Linux keeps a
socket alive while a thread is blocked in `read` on it, though another thread
has closed the descriptor.

Abstractions: failed connection attempts change nothing and are left out; the
process has one socket at a time, so it always has the same number.  Emitting a signal does not fail.  `load_uuid` is
not modelled.  The DBUS loop is one thread and the service holds a mutex around
its sends, so the runs use one sender.

### SocketCommons

`header` is the static buffer of `socket_send_data`.  It is filled by four
actions before `Lock` takes `mutex_sendData`, because another thread can be
scheduled between any two of them; that a call passes its arguments in `call`
stands for its parameters.  `SendHeader` and `SendData` put bytes on `wire`, all
of them or, when the connection breaks, a part.  The receiver has read `rd`
bytes; `TakeHeader` and `DropHeader` are the two outcomes of reading a header
(the second loses what it read, 437 and 450), and `ReadData` takes any part of
what is left of a message.  `Verdict` is the comparison at 669, with the total
in 16 bits.  `sent` records, for the properties, what each call put on the wire,
and `got` what `socket_receive_data` returned.

Abstractions: a byte is the number of its message and its place in it, so data
never look like a header, and a header that is not one always fails the check
(in reality one in 2^16 passes).  The buffer of the connection has no bound, so
a send never blocks.  The libraries close the socket when a send fails, which
is part of the model (`Close`); one connection is modelled.

`MessageChannel` says what the users of the two functions rely on: a queue of
messages, of which only the last may lack its data.  `Deliver` returns the next
one as it was sent, or, once the stream is out of step (`Tear`), a later one;
one that the connection broke in the middle is never returned.  `queued` and
`returned` read this off `sent` and `got`.  `SocketServer` and `SocketClient`
take a connection for this channel: a message that is read whole, a bad header,
a loss, a header whose data come late or not at all.

### ServerService and Exchange

`session` is the state of the loose `SignalContract` for each connection,
`client_infos` the connections that have a cell in the list, and `fd` their
numbers, which are used again.  The execute thread reports a connection as that
contract lets it, by `Connect`, `Read` and `Lose`.  `clients` is the table of
`tcp_server_service.c`.

`close_client_conn` is several steps, in whichever thread runs it.  The cell is
found and the callback changes the table (`Notify`, in `Lose` and `SendFails`);
the callback emits the signal (`Tell`, or `TellLoss` in the DBUS loop); then the
number is closed and the cell that has it *by then* is unlinked (`Close`,
`CloseLate`).  The other thread can come in between any two of them.  So both
threads can report one loss, which takes two entries of that device from the
table if it has returned, and emits two signals; `again` counts these second
notices.  And the later of the two may close a connection that was accepted in
between and has the number now, without a report.  A send that fails while the
connect callback of its connection still runs (`Announcing`: `recv_uuid` is set
after it, at 381 to 385) closes the connection without a report as well; it
stays announced for ever.

A cell that was freed before the DBUS loop sends to it is `SendLate`;
`Receivers` are the connections that may get what was meant for it.  `bus` holds
the signals in the order in which they were emitted.  `svc` is where `main()` of
the service is; while it quits, the DBUS loop still answers (`HandleLate`), as
it does for two seconds.

In `Exchange`, `_connected_clients` is the list of strings that recv_data keeps
and `_specific_UUID` the address of one of them, whose `text` may be overwritten
when it is freed and which `malloc` may hand out again.  The callbacks run in
the thread `cb`, `main()` in `main`; each blocks in a call until the DBUS loop
has replied, or until 1000 ms have passed, which end the program in an assert
whatever the service does (`CallFails`).  Strings are numbered in the order in
which `malloc` first returns them.  `missed` are the devices of which a signal was emitted before the
program had subscribed to it, for subscribing takes three calls.

Abstractions: a step that only returns from a call is joined to the next one of
that thread, and a search to the send that follows; no other thread sees the
difference.  A request is counted in `asked`, its data in `arrived`.  A device
never answers HI, because the comparison at `test_send_data_from_pi0.cpp:188`
is inverted; nor does it send a message without data, for which the service
would exit (`tcp_dbus_server.c:654`).  The steps of `SocketServer` in which the
process dies of a race are `Crash` here.  Left out are Ctrl-C, which only ends
the program, the start of a new service by systemd after the end of one, and the
second GLib loop thread a client can have.

### Queue and Streamer

A ring is a record with the fields of `struct Queue`; `Contents` is what it
holds, in order.  `enqueue_all` and `dequeue_n` are loops that the code runs
with the lock held, so that they are one step.

A byte is the number of its NAL unit and its place in it.  `Keep` is
`record_bytes` at the end of a unit: the rule of the overrun, and
`need_to_send_I_frame`.  `entered` records what went into `server_queue` in this
session.  `server_loop_thread` goes through `spc`: it waits for a viewer,
sleeps until both sets are known, resets the queue and puts the sets in front,
then takes a chunk, packs it and sends each packet that is full.  A connection
is numbered; `dead` are those that broke or were closed, `wire` what TCP holds
of the current one.  The viewer has `client_thread` (`cpc`), which reads packets
into `client_queue` and doubles it when there is no room, and the main thread
(`dpc`), which takes `Handoff` bytes at a time for the decoder; `filled` and
`emptied` are their semaphores.

Abstractions: the search for start codes is left out (the encoder's units
arrive whole; the matcher at `streamer.c:491` does not try again with the byte
that broke a match, which matters only for a zero in front of a start code).
So are the code byte of a packet (`network.c:194` asks for an answer nobody
waits for), the set-up of OMX, and the moment between the start of the encoder
and `streamer_init`.

### Recorder

`files` is the folder of the numbered clips, `temp` the raw files; both survive
`Crash`, everything else is lost.  A file has a number, the clip in it (clips
are numbered by age; the code does not know it), and its size: whatever
`ffmpeg` had written when it failed, or when the power did.  `check_reduce`
removes a file (`ReduceOne`) and then renames the others one by one
(`RenameNext`), in the order of the listing it made (`file_paths`).  `picked`
is a name of the list that the GUI, another process, has shown.

Abstractions: `rename` is atomic and what was done is on the disk.  The camera
does not fail.  The loop that waits five seconds for a raw file (252) is left at
once, since `RawAccounted` shows that the file is there.

## 3. Runs

| Run | Question | Bounds |
|---|---|---|
| `server_serial` | Is the server right when only its own thread uses the list? `ServerStaysUp`, `DescriptorsMatchList`, `SignalsMatchList`, `RightSender`, and the refinement `ContractSpec` (the strict form) | 3 connections, 2 devices, 2 descriptors, 1 unread message beyond the UUID |
| `server_liveness` | Are losses reported, waiting connections served, pings continued, and what prevents it? `LostReported`, `EveryoneServed`, `PingsContinue` | 3 connections of 1 device, 1 descriptor, messages that may be cut |
| `server_racing` | What survives the races of a second thread? `AnnouncedFirst`, `UuidKept`, and the refinement `RacingSpec` (the loose form) | 2 connections, 2 devices, 2 descriptors, 1 caller, repeated UUIDs, bad and cut messages, failing accepts |
| `server_threads` | Are the send functions thread safe, as the header says? They are not. | as above, without cut messages and failing accepts |
| `client` | Is the client service right with its threads racing? `OneReader`, `AnnouncedGreeted`, `RxAfterConnect`, `LossBeforeConnect`, `LossReported` | 3 connections in a row, 1 sender, 1 unread message, which may be cut |
| `client_exit` | Does the loss of the connection end only the thread, as the header says? It does not. | 2 connections, no sender |
| `framing` | Does the receiver get what was sent? `Intact`, `NothingSkipped`, `Arrives`, and the refinement `ChannelSpec` | 1 sender, 3 messages, header of 3 bytes, sizes of 3 bits: 0, 2, 4 and 6 |
| `framing_max` | Are arrays of up to 2^16 bytes sent, as the header says? One of exactly that size is not. | as `framing`, with the size 8 |
| `framing_threads` | Is `socket_send_data` thread safe, as the header says? It is not. | 2 senders, else as `framing` |
| `streamer` | Does the stream arrive whole, in order, with its sets first, and do the threads go on? `SessionIntact`, `DecodedInOrder`, `SetsFirst`, `GapsEndInIDR`, `NoStandoff`, `SendEnds` | 5 units of lengths 1, 2 and 6, 2 connections, packets and handoffs of 3 bytes, a queue of 5, 2 bytes on the way |
| `exchange` | Do the program and the service agree on who is connected, and do the requests go on? `ListsAgree`, `LossesFound`, `FlowControlled`, `GoesOn` | 2 connections, numbered as they are announced, the second of the same device or of another, 2 numbers to reuse, 2 strings, 1 restart of the device's program |
| `recorder` | Are the clips numbered by age, removed oldest first, and the limit kept? `NamesFollowAge`, `RawAccounted`, `OldestFirst`, `LimitKept` | 5 clips, 2 starts, sizes 1 and 3, a limit of 2 |

Why the bounds suffice.  The list code distinguishes an empty list, the head,
the last and a middle cell: three cells.  Reuse of a number needs two
connections and one descriptor; a stale number served in the same round as its
reuse needs a second descriptor.  A ping round that removes the cell it is at
needs a successor.  The client handles one connection after another: the race
of a stale failure with a fresh connection needs two, and a third lets the
consequences of a restart meet another loss.  One unread message is enough for
a message to wait behind the handling of another; the bound is `InboxCap`. In
`framing` three messages let one be read out of step, the next be dropped and a
third be met in step again; a header of three bytes can be split in the middle,
the sizes 4 and 6 lie on the two sides of the wrap of the total; 8, only in
`framing_max`, is the documented maximum, which the 3 bits turn into 0.  In `streamer` a unit of 6
bytes spans packets, handoffs and the queue of 5, so that it overruns, is split
and wraps around; the sets of 2 do not fill a packet; the second connection is
the reconnection.  In `exchange` two connections let a device return before its
loss is noticed, let its second notice take the entry of the connection that
stands, let the number of the first be closed under the second, or let a second
device be the one that is not selected; a third would only repeat one of these.  In `recorder` three clips exceed the
limit, so that two are renamed and the power can fail between the two; the last
clip exceeds it by itself, so that one round of the reduction is not enough.
`Conns` bounds the length of behaviours; behaviours that end because every
connection is used up are why the racing and the client runs do not check
deadlock (and a process that has died does not move).  `streamer`, `exchange`
and `recorder` do not either: the recording is bounded and the server may be
closed, the program of `exchange` ends when its service does, and the process
of `recorder` may end.

What the runs show:

- With the execute thread alone the server is sound: the asserts at 320 and 523
  hold, no descriptor leaks, each identified client is announced once and
  withdrawn once, and data carries the UUID of its sender.  `server_serial`
  does not include a failing `accept` on a free descriptor, which would break
  the assert at 523.
- With a second thread that sends, the process can die in several ways; what
  holds until then is the loose form of the contract: a client is announced at
  most once, and data and disconnects are those of announced clients; and its
  UUID is kept, also when the client repeats it.  `RightSender` does *not* hold
  then: between `close()` and the removal from the list the number can be
  accepted again, and the search by descriptor finds the older cell.  Nor does
  the strict form: two threads report one loss, and a client closed during its
  announcement is never withdrawn.
- `server_threads` (finding): the shortest run empties the list between
  `accept` and the assert at 523.  (A failing `accept` alone breaks that assert
  too; it is a step of `server_racing`, and no document excludes it.)
- The pings go on, losses are found and waiting connections served, with one
  exception, which the code has and the three properties name (`Stalled`): a
  client lost between header and data holds the only thread that pings in
  `read`, for good if nothing is unacknowledged that could make TCP give up.
  Without the exception TLC finds each of the three violated.
- The client never has two readers, never announces a connection on which it
  did not send its UUID, and reports each loss before the next connection.  A
  silent loss is reported in the end by the timeout of `select`, but not one
  between header and data (`Held`): there no timeout runs, and the thread waits
  for good unless the kernel gives up on something the client sent.  The comment
  at `socket_client.c:266` ("if nothing received from server for 2 seconds,
  assume lost connection") is therefore not kept; TLC finds `LossReported`
  violated without the exception.  An assert (a thread that sends while
  `client_fd` is -1) is the second exception of both properties: the service
  restarts and nobody is told of the loss.
- `client_exit` (finding): when the UUID cannot be sent in answer to a ping,
  the execute thread goes on with a closed descriptor and exits the process.
- With one thread sending, a message that is returned is one that was sent
  whole, to the last byte that was passed to the call (`Intact` compares with the
  size before it is put in 16 bits), and in order, whatever parts the reads
  return.  A header that comes in two reads loses its
  message, and those that follow until the receiver is in step again; without
  that, and without a loss of the connection, every message arrives.
- `framing_threads` (finding): the header of one call is sent with the size or
  the command of another.
- `framing_max` (finding): of data as long as `MAX_MSG_SZ` nothing is sent, and
  the call succeeds, for 65536 is 0 in 16 bits.  Of the five sizes below it the
  call reports a failure, though all was sent, since the total wraps (`Verdict`
  models this; no property is about it).
- The stream arrives byte for byte up to where a connection broke, whatever the
  rings, chunks and packets, and a new viewer gets the sets first.  A gap that
  an overrun leaves ends in an IDR unit; of the gap that the reset at a
  reconnection leaves this is not promised, and `GapsEndInIDR` leaves it out.
  The two semaphores of the viewer
  never hold both threads up, whatever earlier rounds have left in them.
- While the program runs, its list, the table of the service and the
  connections differ by the signals under way, and by at most as many entries as
  there were second notices of one loss (`again`); without that slack TLC finds
  `ListsAgree` and `LossesFound` violated.  A connection closed without a report
  stays in all three for ever, so that they agree about a client that is gone.
  All this is said of devices of which the program was subscribed to every
  signal when it was emitted: two of its three subscriptions can be in place when
  a device comes and goes, and the list then keeps it.  A loss is heard after
  its connect, unless it is a second notice.
  Requests do not multiply.  What the selected device sends leads
  to the next request, with one exception that the code has and the property
  names: `main()` repeats a request that failed to another device, for as long
  as any client is selected (`Retries`).  It is said while the device is the
  selected one: a message lost to the dead cell of a device that has two is lost,
  and takes the selection with it.  The program may end at any time while a call
  waits.  A stronger form of `GoesOn`, from the
  connection instead of from the first data, does not hold: the disconnect
  callback frees the string that `_specific_UUID` points to and compares
  through it (`test_recv_data.cpp:144`, and the comment at 149 that says it
  sets the pointer to null); if the text is gone the pointer stays, and the
  string of the device that returns may get its address.
- The recordings keep their order through any loss of power in a renumbering,
  for a rename only moves a number down into a gap.  A name that the GUI has
  listed may have become that of a *later* clip when it is played, or of none,
  but never of an earlier one; that it plays a later one is what the code does,
  and `PickedOrLater` allows it.  Two things are not cleaned up, and
  `RawAccounted` does not promise it: raw files that a loss of power leaves in
  `temp_vid`, which only an orderly end removes, and the one that the recording
  thread begins when `cleanup` has already made its list.

Fairness.  `Arrives` assumes that the receiver comes back to the socket, which
the execute threads of both libraries do.  The other liveness runs assume weak
fairness of the execute thread, or of each thread of the client: the scheduler
of the kernel runs a thread that can run.  They assume that the clock advances
(`Tick`), that TCP gives up on a peer that does not acknowledge (`Detect`), and
that systemd restarts the service (`Restart`; the start limit of the unit is
not modelled).  Nothing is assumed of the peers: they need not connect, send or
leave.  The calls of other programs are not fair either, but a call that has
begun goes on.  In `streamer` the network thread's sends, `client_thread` and
the decoder are weakly fair; the encoder is not, nor is the viewer's
connecting.  In `exchange` the execute thread, the DBUS loop, the callbacks and
`main()` are; so is the discovery of a lost device (`Detect`), but not the
answer of a device that was asked.  In `recorder` the wrapping thread is,
which includes that `ffmpeg` ends; that the folder gets under its limit needs
that wrapping is faster than recording, which the bound on the clips stands
for.

## 4. Proofs

The theorems hold for any number of connections, devices, descriptors and
threads; they rest on `ServerAssumption` and `ClientAssumption`, which only say
that the constants are of the right kind and that threads are distinct.

`SocketServerProofs` proves `TypeOK`, `AnnouncedFirst`, the action property
`UuidKept` and the refinement `RacingSpec` of `SocketServer`, whatever the
caller threads do, and `DataAfterAnnounce`, that data is reported only of
announced clients.  The inductive
invariant is `AInv`: types (`TypeOK`); what each thread's locals are at each
`pc` (`FrameOK`; without it the callbacks could be made for no cell at all);
that a connection is in the backlog or has been accepted, once (`ArrivalOK`;
without it `Accept` could reset the UUID of a cell in use); and that `connects`,
`disconnects` and `recv_uuid` of a cell go together (`AnnounceOK`).  There is a
lemma for each action.

`DataAfterAnnounce` needs more, because it outlives the races: a caller may
close a descriptor of which the number goes to the next connection while the
old cell is still in the list, and that cell is then found in its place.  On
top of `AInv`, `RaceOK` says that a client says nothing before its UUID
(`SilentOK`), that a connection has one descriptor (`SocketOK`), that the cell
which is *first* in the list with its descriptor and is not announced can only
read a connection whose UUID is still to be read (`ReadOK`), and that the
execute thread serves such a first cell or one that has been freed meanwhile,
which ends the process before a callback is made (`ServedOK`).

`ServerImplementsRacing` maps each step to the loose form of the contract: only
three actions call back (`QuietSteps`), and with `heardOf`, the connections data
was reported of, each of them announces, reports or withdraws one connection
that was announced (`RacingStep`).  It has no hypothesis, and is what
`ServerService`, whose DBUS loop is such a caller, rests on.

`SocketClientProofs` proves every safety property of `SocketClient` that the run
checks.  The invariant `CInv` adds where each thread can be and where its
`close_and_notify` returns to (`PhaseOK`), that `isRunning` is true exactly
while there is an execute thread (`RunningOK`), that an open socket is that of
the last connection (`CurrentOK`), and that subscribers believe in a connection
only while some thread has still to notify them (`ToldOK`).

`SocketServerSerialProofs` proves every property that `server_serial` checks,
the refinement of the strict `SignalContract` included, under the hypothesis
`Serial`: there is no caller thread, and `accept` fails only when no descriptor
is free.  The hypothesis is part of each statement.  It describes a program that
only listens; no service of the repository is one, and no other theorem uses
these.  The invariant is `SInv`, which adds
to `AInv`:

- `ListOK`: no cell is in the list twice, none in it is freed, and cells have
  different descriptors.  Without it the second search of `close_client_conn`,
  after `close()`, could meet another cell than the first.
- `FileOK` and `WatchOK`: the descriptor table and `active_fd_set` are those of
  the list, in both directions, except for the cell `Shut`, whose descriptor
  `close_client_conn` has closed and which it has still to unlink.
- `LoopOK`: where the execute thread can be; that the descriptor it serves is no
  longer in `read_fd_set`, so that closing it leaves no stale number there; and
  that a failed ping has its cell as the doomed one, and nothing left to serve.
- `SignalOK`, `MailOK`, `HeardOK`: what has been said of each cell; that the
  UUID is the first unread message of every cell not announced yet, so that
  data cannot overtake it; and that data names its own connection.

There is again one lemma for each action, and four that refute actions
(`SelectFails`, `RecvOnFreed`, `SendToFreed`, `Quit`), which only a second
thread makes possible.

`SocketCommonsProofs` proves `TypeOK` for any number of threads, and `Intact`,
`InOrder`, `NothingSkipped` and the refinement of `MessageChannel` for one
sending thread (`Senders = {s}`, in each
statement), whatever the size of the header, the width of the sizes and the
sizes of the data, except that for `Intact` and the refinement the sizes of the
data must fit in the width (`SizesFit`, in the statement; `framing_max` shows
that it is needed).  `CommonsAssumption` says that a header fits in the width.
The invariant `CInv` adds to `TypeOK`:

- `WireOK`: every byte on the wire is where its message puts it, and each
  message begins where the one before it ends.  Without it the bytes that follow
  a good header could be other than its data.
- `LastOK`: while the connection is up the last message is whole, or its sender
  is about to send the data.
- `HeadOK`: the header in the buffer is that of the call, as far as it has been
  filled, and those sent were right.
- `RecvOK` and `GotOK`: the receiver is inside the data of the message whose
  header it took, and what it has returned lies before it.
- `StepOK`: until a header has been split the receiver is at the boundary of two
  messages.  It gives `NothingSkipped`, since `DropHeader` is then impossible.

`SentLemma`, `HeaderOnWire` and `DataOnWire` say how the wire grows, `GrowLemma`
that this leaves what has been received alone, and `OrderLemma` that messages
do not overlap.

For the refinement `WholeOK` is added: a message whose last byte is on the wire
was sent whole.  It gives that a message which is returned is whole, since it
ends before the receiver, and that a message begins only when all before it are
whole (`AllWhole`).  Then each step is mapped: a header that is sent begins a
message (`BeginStep`), its data complete it or the connection breaks
(`CompleteStep`), and what either read returns is the message the channel
delivers next (`DeliverStep`).

With any number of sending threads `MessagesStayApart` proves `WireOK`: headers
and data of different calls never mix on the wire.  Its invariant says that the
thread between its header and the end of its data holds the mutex (`MutexOK`),
and puts `LastOK` in terms of that thread (`TailOK`).  So what `framing_threads`
finds is due to the contents of the header alone, which is filled before the
mutex is taken.

`QueueProofs` proves that `enqueue_all` and `dequeue_n`, with which the models
move several items at once, are the loops of `enqueue` and `dequeue` of the
code, and what each does to `Contents`, the doubling included.  The ring is any
that satisfies `IsQueue`.

`StreamerProofs` proves every safety property of `streamer`, for all sizes,
lengths and bounds.  `StreamerInv` is `TypeOK`, `SessionIntact` and
`DecodedInOrder` themselves, and

- `LinkInv`: connections are accepted in the order of their numbers, older ones
  are dead, and bytes are on the way on an accepted one only.  Without it what
  is left of an old session could be read as part of the new one.
- `BeforeFirst`: until the first viewer the queue holds what was recorded.
- `HandoffInv`: a thread that waits on a semaphore nobody has posted has what
  it waits for still to come.  It gives `NoStandoff`, with an assumption on the
  sizes: two packets fit beside a handoff in the doubled queue.
- `GapInv`: the units that entered are whole and in order behind the sets, and
  the last one that entered is the last one recorded, unless an IDR unit is
  awaited.  It gives `GapsEndInIDR`.

`SetsFirst` is proved from these and three more, under the hypothesis `SetsFit`,
which is part of the statement: the length of a set fits in `SPS_sz` and
`PPS_sz`, and both sets together are smaller than the queue.  Sets have tens of
bytes; the queue has 100 in `DashStream.py` and 10000 in the recorder.  The
hypothesis is needed: TLC finds `SetsFirst` violated with a queue of 4 bytes and sets of 2,
because the PPS is then refused while the SPS waits, and the first viewer is
sent the SPS and what comes after.

- `KeptInv`: the sets that are kept are the first two units, whole.
- `RoomInv`: until the PPS is complete at most the SPS is queued, so that there
  is room for it.
- `BeginInv`: what enters the queue in a session begins with the sets known by
  then, put there by the encoder in the first session and by `insert_PPS_SPS` in
  the later ones.

`RecorderProofs` proves every safety property of `recorder`, for all sizes and
limits and any number of clips and starts.  `RInv` adds to `TypeOK` and
`AgeOrder`:

- `PhaseOK`: where the two threads can be, and that a clip is held only while it
  is wrapped.
- `HandOK`: what is stored, held, queued and recorded is in this order of age.
  Without it the largest number could be given to an old clip.
- `NumberOK`: a number is smaller than its clip, which bounds it, and older
  clips than the picked one have smaller numbers than it was picked with.
- `RenumberOK`: in a renumbering the files already renamed have the numbers
  below `cnt` and are the older ones, so that the next rename overwrites none.
- `RawOK`: `RawAccounted`, with the clips in hand as a set.

`ExchangeProofs` proves every safety property of `exchange`, for any devices,
connections, callers and strings, under `ServiceAssumption` and
`ExchangeAssumption`.  `TypeOK`, `ListsAgree` and `LossesFound` use two
invariants:

- `Shape`, which is inductive and implies `TypeOK`: a connection that is
  reported, or has a cell, is that of a device; the one that the execute thread
  announces is not withdrawn meanwhile; the DBUS loop is at some connection
  when it is not idle, and has a loss to tell exactly at "tell"; the list has
  each string once, and every string in it holds a UUID, whatever became of the
  freed ones.
- `Counts`, which holds while the program runs: for each device of which nothing
  was missed, `Balanced` is `ListsAgree` with the signals under way counted at
  their three places (on the bus, in the execute thread, in the DBUS loop) and
  the slack `again`; `Covered` is `LossesFound`: in every beginning of the bus
  there are no more losses than entries, connects and second notices; and
  `Trailing` says of every end of the bus that each connect in it is that of a
  connection that stands, or is followed by a loss.  The three need each other.
  A heard loss removes an entry that is there, by `Covered`, or it is a second
  notice and uses up the slack.  A loss that is emitted is covered, because by
  `Balanced` there are no more losses under way than entries, connects and
  slack.  And a second notice, which finds nothing to remove when it is heard,
  must not be mistaken for the loss of a connect that comes after it on the
  bus: `Trailing` excludes that.

There is a lemma for each step that changes a count, and lemmas for what
appending to the bus, hearing its first signal and freeing a string do to
`Covered`, `Trailing` and the entries of the list.

`FlowControlled` bounds a sum over the connections that the module writes as a
fold.  The proof counts tokens instead: a load of n at a connection is n pairs,
so that the sum is the cardinality of a set (`SumIs`), and a step that moves one
request moves one pair (`TokensAdd`).  `CallsInv` says who waits for which
answer, without which one answer could release two requests.  From both, no step
makes `Flow`, the sum of all that is under way or to come, grow
(`FlowNeverGrows`), which is stronger than the bound; `QueueStaysShort` draws
the consequence for `data_queue`, which the code leaves without a limit.

`Stages` says how far `main()` has come in its subscriptions
(`SubscribedSoFar`), what the two threads of the service do outside of its main
loop, and that a call gets an error only from a service that has ended
(`ServiceStage`), and how the program's stages follow those of the service
(`ProgramStage`).  It gives two theorems about what the other properties leave
out.  `ListsAgree` exempts the devices of which the program missed a signal: by
`MissesNothing` these are only those of the time before it had subscribed, and
of the step in which the service ends.  And `EndsInCall` says that the program
ends only while a call of it waits for an answer, or after the service has
ended.  The first half is the timeout of 1000 ms, which can pass while the
service is up and only slow, since the program asserts that every call is
answered (`tcp_dbus_client.c:80` and 87).

Only model-checked: liveness (`LostReported`, `EveryoneServed`, `PingsContinue`,
`LossReported`, `Arrives`, `SendEnds`, `GoesOn`, `LimitKept`), which is beyond
the prover, and what the violation runs refute.  Every other property of a
passing run is a theorem.

## 5. Plan

What would add most, in this order.

1. The server and the client library composed over one connection, so that a
   sender of the client service can overtake the UUID.
2. The GUI: the command queue, the stack of views, and the thread that closes
   the lane warning five seconds later.

## 6. Not modelled

- *GUI and main program.*  The GUI is views that push and pop each other,
  mostly Tk; the retrieval mode is a chain of shell commands that mount folders
  of other units, whose effects are outside the repository.
- *Discovery and auxiliary unit.*  A set that one thread fills and another reads
  after a sleep, which promises nothing that a sleep can miss.
- *Lane detection.*  Image processing and shaders: numeric, on the GPU.
- *Set-up scripts* for Wi-Fi, Samba and FTP, Makefiles, unit files, and the demo
  programs `test_socket_*` and `test_dbus_*`.
- Of the modelled parts: `load_uuid`, `socket_client_quit`, creating and binding
  sockets, a send that blocks on a full buffer, introspection and properties of
  the DBUS objects, unsubscribing and disconnecting, the queue of
  send_data_from_pi0, start codes and ping codes of the stream, a camera that
  fails.
