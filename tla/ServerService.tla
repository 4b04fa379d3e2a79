---------------------------- MODULE ServerService ----------------------------
(***************************************************************************)
(* The server service of the main unit: tcp_server_service.c between the   *)
(* socket library and the bus.                                             *)
(*                                                                         *)
(* Two of its threads speak on the bus.  The execute thread of the socket  *)
(* library makes the callbacks; what it may report of a connection is      *)
(* SignalContract, in the form for a program with other threads that send. *)
(* The DBUS loop is such a thread: it answers the calls of TCP_SEND_MSG,   *)
(* and a send that fails makes it call the disconnect callback itself.     *)
(* Both change the table of clients before they emit the signal.           *)
(*                                                                         *)
(* close_client_conn takes several steps: it finds the cell and the         *)
(* callback changes the table; the callback emits; the number is closed,   *)
(* with whatever cell has it by then.  So both threads may report one loss, *)
(* and the later of them may close a connection accepted in between.  A    *)
(* connection whose connect callback still runs is closed without a report *)
(* and stays announced for ever.                                           *)
(*                                                                         *)
(* Abstractions.  Of a message only the sender is kept.  A request that    *)
(* goes out on a connection is counted in asked, its greetings (HI) are    *)
(* not answered by the device and left out.  The list of cells is in the   *)
(* order of the connect callbacks.  A number is closed and its cell        *)
(* unlinked in one step, a message is read and handed on in one step.  A   *)
(* freed cell keeps its UUID, and is read as it was, or as the cell that   *)
(* has its number now; what else may come of it is Crash (SocketServer has *)
(* these steps).                                                           *)
(***************************************************************************)
EXTENDS Naturals, Sequences, FiniteSets, SequencesExt, DbusServer, DbusClient

CONSTANTS
  Conns,        \* connections, numbered in the order they are announced
  Devices,
  MayOpen,      \* the devices that may open each connection
  Callers,      \* threads of the subscriber that call tcp_dbus_send_msg
  NoDevice,     \* no device, and the empty UUID
  NoConn

ASSUME ServiceAssumption ==
  /\ IsFiniteSet(Conns) /\ Conns \subseteq Nat
  /\ MayOpen \in [Conns -> SUBSET Devices]
  /\ NoDevice \notin Devices
  /\ NoConn \notin Conns

VARIABLES
  session,       \* SignalContract: what was reported of each connection
  device,        \* the device that opened it
  fd,            \* its number; one that nobody had yet is named for it
  client_infos,  \* the connections reported that have a cell in the list
  peer,          \* the far end of each connection
  asked,         \* requests on their way to, or queued in, the device
  arrived,       \* number of its messages that the service has not read
  svc,           \* where main() is
  config,        \* its DBUS server
  clients,       \* its table of clients
  exec,          \* the callback the execute thread is in
  loop,          \* what the DBUS loop is doing
  call,          \* the call each thread of the subscriber waits for
  reply,         \* and its answer
  tcp_sbscr,     \* the subscriptions of the subscriber
  bus,           \* signals on their way to it
  missed,        \* devices of which it was not told something (history)
  again          \* second notices of one loss, for each device (history)

linkVars    == <<session, device, fd, client_infos, peer, asked, arrived>>
serviceVars == <<svc, config, clients, exec, loop, again>>
busVars     == <<call, reply, tcp_sbscr, bus, missed>>

Contract == INSTANCE SignalContract WITH heard <- {}, Alone <- FALSE

-----------------------------------------------------------------------------
(* The callback that runs in the execute thread, and the state of the loop *)

Signal(name, d) == [name |-> name, uuid |-> d]

Resting == [signal |-> Signal("NULL", NoDevice), conn |-> NoConn]
Telling(name, d, c) == [signal |-> Signal(name, d), conn |-> c]
Closing(c) == [Resting EXCEPT !.conn = c]

\* The call of a thread: a request to one device, or a greeting to all.
NoCall   == [to |-> NoDevice, kind |-> "none"]
Ask(d)   == [to |-> d, kind |-> "request"]
GreetAll == [to |-> NoDevice, kind |-> "hi"]
Calls    == {NoCall, GreetAll} \cup {Ask(d) : d \in Devices}

LoopIdle == [pc |-> "idle", thread |-> NoDevice, conn |-> NoConn,
             tell |-> NoDevice]
Loop(pc, t, c, d) == [pc |-> pc, thread |-> t, conn |-> c, tell |-> d]

SignalType == [name : Signals \cup {"NULL"}, uuid : Devices \cup {NoDevice}]

ServiceTypeOK ==
  /\ session \in [Conns -> {"absent", "present", "past"}]
  /\ device \in [Conns -> Devices \cup {NoDevice}]
  /\ fd \in [Conns -> Conns]
  /\ client_infos \subseteq Conns
  /\ peer \in [Conns -> {"up", "gone", "closed"}]
  /\ asked \in [Conns -> Nat]
  /\ arrived \in [Conns -> Nat]
  /\ svc \in {"init", "execute", "run", "kill", "down"}
  /\ config \in Configs
  /\ clients \in Seq(Devices)
  /\ exec \in [signal : SignalType, conn : Conns \cup {NoConn}]
  /\ loop \in [pc : {"idle", "send", "tell", "close"},
               thread : Callers \cup {NoDevice}, conn : Conns \cup {NoConn},
               tell : Devices \cup {NoDevice}]
  /\ call \in [Callers -> Calls]
  /\ reply \in [Callers -> {"none", "true", "false", "error"}]
  /\ tcp_sbscr \in [Slots -> Signals \cup {NoSignal}]
  /\ bus \in Seq(SignalType)
  /\ missed \subseteq Devices
  /\ again \in [Devices -> Nat]

ServiceInit ==
  /\ Contract!Init
  /\ device = [c \in Conns |-> NoDevice]
  /\ fd = [c \in Conns |-> c]
  /\ client_infos = {}
  /\ peer = [c \in Conns |-> "up"]
  /\ asked = [c \in Conns |-> 0]
  /\ arrived = [c \in Conns |-> 0]
  /\ svc = "init"
  /\ config = tcp_dbus_srv_create
  /\ clients = <<>>
  /\ exec = Resting
  /\ loop = LoopIdle
  /\ call = [t \in Callers |-> NoCall]
  /\ reply = [t \in Callers |-> "none"]
  /\ tcp_sbscr = NoSubscriptions
  /\ bus = <<>>
  /\ missed = {}
  /\ again = [d \in Devices |-> 0]

-----------------------------------------------------------------------------
(* The table of clients.                                                   *)

add_client(d) == Append(clients, d)

remove_client_all(d) == SelectSeq(clients, LAMBDA e : e # d)

\* The first entry with this UUID, if there is one.
remove_client(d) == RemoveFirst(clients, d)

\* The emit functions: the bus keeps a signal for those who have subscribed.
emit(signal) ==
  IF signal.name \in Subscribed(tcp_sbscr)
  THEN bus' = Append(bus, signal) /\ UNCHANGED missed
  ELSE /\ UNCHANGED bus
       /\ missed' = IF signal.name = "RECV" THEN missed
                    ELSE missed \cup {signal.uuid}

\* Devices with a connection that ends unreported if the process ends now.
Unreported ==
  {device[c] : c \in {k \in Conns : session[k] = "present"}}
  \cup ({exec.signal.uuid, loop.tell} \ {NoDevice})

\* The sockets are closed, no callback is made, and the list is forgotten.
ConnectionsEnd ==
  /\ session' = [c \in Conns |-> "past"]
  /\ device' = [c \in Conns |-> NoDevice]
  /\ fd' = [c \in Conns |-> c]
  /\ client_infos' = {}
  /\ peer' = [c \in Conns |-> "closed"]
  /\ asked' = [c \in Conns |-> 0]
  /\ arrived' = [c \in Conns |-> 0]
  /\ missed' = missed \cup Unreported

\* exit(), a fatal signal, or the end of main().  The bus answers a call that
\* nobody will answer with an error.
ProcessEnds ==
  /\ ConnectionsEnd
  /\ svc' = "down"
  /\ config' = tcp_dbus_srv_delete
  /\ clients' = <<>>
  /\ exec' = Resting
  /\ loop' = LoopIdle
  /\ reply' = [t \in Callers |->
                IF call[t] # NoCall /\ reply[t] = "none" THEN "error"
                ELSE reply[t]]
  /\ UNCHANGED <<again, call, tcp_sbscr, bus>>

-----------------------------------------------------------------------------
(* main() and systemd.                                                     *)

\* The comparison with EXIT_FAILURE lets DBUS_SRV_NAME_UNAVAILABLE pass.
\* socket_server_init may fail as well.
Initialize(answer) ==
  /\ svc = "init"
  /\ \/ ProcessEnds
     \/ /\ InitResult(config, answer) # "EXIT_FAILURE"
        /\ config' = tcp_dbus_srv_init(config, answer)
        /\ svc' = "execute"
        /\ UNCHANGED <<linkVars, clients, exec, loop, again, busVars>>

Execute ==
  /\ svc = "execute"
  /\ IF Initialized(config)
     THEN svc' = "run"
          /\ UNCHANGED <<linkVars, config, clients, exec, loop, again, busVars>>
     ELSE ProcessEnds

\* The execute thread has stopped; socket_server_quit, and then two seconds
\* in which the DBUS loop goes on.
Quit ==
  /\ svc = "run" /\ exec = Resting
  /\ svc' = "kill"
  /\ ConnectionsEnd
  /\ UNCHANGED <<config, clients, exec, loop, again, call, reply, tcp_sbscr, bus>>

\* tcp_dbus_srv_kill, which does nothing unless Initialized(config), delete and
\* return 1; nothing waits for the DBUS loop.
Kill == svc = "kill" /\ ProcessEnds

\* An assert or a fatal signal (see SocketServer), or no power for the Pi.
Crash == svc = "run" /\ ProcessEnds

-----------------------------------------------------------------------------
(* The devices and the links.                                              *)

linkFrame == <<session, device, fd, client_infos, serviceVars, busVars>>

\* Out of range or out of power: a send still succeeds, until the pings have
\* made the kernel give up; or closed in an orderly way.
Leave(c, how) ==
  /\ c \in client_infos /\ peer[c] = "up"
  /\ peer' = [peer EXCEPT ![c] = how]
  /\ asked' = [asked EXCEPT ![c] = 0]
  /\ UNCHANGED <<arrived, linkFrame>>

Detect(c) ==
  /\ c \in client_infos /\ peer[c] = "gone"
  /\ peer' = [peer EXCEPT ![c] = "closed"]
  /\ UNCHANGED <<asked, arrived, linkFrame>>

\* The device has sent a message, having taken n requests from its queue.
DeviceSends(c, n) ==
  /\ c \in client_infos /\ peer[c] = "up"
  /\ asked' = [asked EXCEPT ![c] = @ - n]
  /\ arrived' = [arrived EXCEPT ![c] = @ + 1]
  /\ UNCHANGED <<peer, linkFrame>>

-----------------------------------------------------------------------------
(* close_client_conn.                                                      *)

\* tcp_client_disconnect, up to its signal.  The other thread may have done
\* it before.
Notify(c) ==
  /\ Contract!Withdraw(c)
  /\ clients' = remove_client(device[c])
  /\ again' = IF session[c] = "past" THEN [again EXCEPT ![device[c]] = @ + 1]
              ELSE again

\* The cells with number n: one or none.
Holders(n) == {k \in client_infos : fd[k] = n}

\* close(), FD_CLR, and the unlinking of the cell that has the number now.
CloseFd(n) ==
  /\ client_infos' = client_infos \ Holders(n)
  /\ peer' = [k \in Conns |-> IF k \in Holders(n) THEN "closed" ELSE peer[k]]
  /\ asked' = [k \in Conns |-> IF k \in Holders(n) THEN 0 ELSE asked[k]]
  /\ arrived' = [k \in Conns |-> IF k \in Holders(n) THEN 0 ELSE arrived[k]]
  /\ UNCHANGED <<session, device, fd>>

-----------------------------------------------------------------------------
(* The execute thread.                                                     *)

\* A new number, or that of a connection that was closed.
FreeNumbers(c) ==
  ({c} \cup {fd[k] : k \in {j \in Conns : session[j] # "absent"}})
  \ {fd[k] : k \in client_infos}

\* socket_server.c calls tcp_client_connect, which adds to the table first.
\* A device has one client program and one socket.
Connect(c, d) ==
  /\ svc = "run" /\ exec = Resting
  /\ \A k \in Conns : session[k] = "absent" => c <= k
  /\ \A k \in Conns : device[k] = d => peer[k] # "up"
  /\ device' = [device EXCEPT ![c] = d]
  /\ \E n \in FreeNumbers(c) : fd' = [fd EXCEPT ![c] = n]
  /\ Contract!Announce(c)
  /\ client_infos' = client_infos \cup {c}
  /\ clients' = add_client(d)
  /\ exec' = Telling("CONNECT", d, c)
  /\ UNCHANGED <<peer, asked, arrived, svc, config, loop, again, busVars>>

\* A message is read, and tcp_recv_msg emits its signal; the service exits
\* when that fails.  (It fails for a message without data as well, which these
\* devices never send.)
Read(c) ==
  /\ svc = "run" /\ exec = Resting
  /\ c \in client_infos /\ arrived[c] > 0 /\ Contract!Known(c)
  /\ IF Initialized(config)
     THEN /\ emit(Signal("RECV", device[c]))
          /\ arrived' = [arrived EXCEPT ![c] = @ - 1]
          /\ UNCHANGED <<session, device, fd, client_infos, peer, asked,
                         serviceVars, call, reply, tcp_sbscr>>
     ELSE ProcessEnds

\* recv() or a ping fails; close_client_conn calls the callback.
Lose(c) ==
  /\ svc = "run" /\ exec = Resting
  /\ c \in client_infos /\ peer[c] = "closed"
  /\ Notify(c)
  /\ exec' = Telling("DISCONNECT", device[c], c)
  /\ UNCHANGED <<device, fd, client_infos, peer, asked, arrived, svc, config,
                 loop, busVars>>

\* The connect or disconnect callback emits its signal, and the service exits
\* when that fails.
Tell ==
  /\ exec.signal # Resting.signal
  /\ IF Initialized(config)
     THEN /\ emit(exec.signal)
          /\ exec' = IF exec.signal.name = "CONNECT" THEN Resting
                     ELSE Closing(exec.conn)
          /\ UNCHANGED <<linkVars, svc, config, clients, loop, again, call,
                         reply, tcp_sbscr>>
     ELSE ProcessEnds

\* The rest of close_client_conn.
Close ==
  /\ \E c \in Conns : exec = Closing(c) /\ CloseFd(fd[c])
  /\ exec' = Resting
  /\ UNCHANGED <<svc, config, clients, loop, again, busVars>>

-----------------------------------------------------------------------------
(* The DBUS loop: server_message_handler and the callback of the service.  *)

LoopRuns == svc \in {"run", "kill"}

loopFrame == <<svc, config, exec>>

\* The cells find_client_by_uuid may find, or the whole list for the empty UUID.
Targets(t) ==
  {c \in client_infos : call[t].to \in {NoDevice, device[c]}}

CallPending(t) == call[t] # NoCall /\ reply[t] = "none"

\* The answer to thread t, after the last client.
Answer(t, ok) ==
  /\ reply' = [reply EXCEPT ![t] = IF ok THEN "true" ELSE "false"]
  /\ loop' = LoopIdle
  /\ UNCHANGED <<call, tcp_sbscr>>

\* On to the first of these clients, if there are any.
GoTo(t, rest, ok) ==
  IF rest = {} THEN Answer(t, ok)
  ELSE /\ loop' = Loop("send", t, Min(rest), NoDevice)
       /\ UNCHANGED <<call, reply, tcp_sbscr>>

\* send_data_all goes on along the list.
Rest(t, c, list) == IF call[t] = GreetAll THEN {k \in list : k > c} ELSE {}

\* The next message of the bus is handled.  A request to a device without a
\* connection fails; the answer to a greeting is always true.
Handle(t) ==
  /\ svc = "run" /\ loop.pc = "idle" /\ CallPending(t)
  /\ GoTo(t, Targets(t), call[t] = GreetAll)
  /\ UNCHANGED <<linkVars, clients, again, loopFrame, bus, missed>>

\* The list that socket_server_quit has freed holds anything.
HandleLate(t) ==
  /\ svc = "kill" /\ loop.pc = "idle" /\ CallPending(t)
  /\ \/ /\ \E ok \in BOOLEAN : Answer(t, ok)
        /\ UNCHANGED <<linkVars, clients, again, loopFrame, bus, missed>>
     \/ ProcessEnds

\* socket_send_data to client c, which may be lost without a sign.
SendOk(t, c) ==
  /\ peer[c] # "closed"
  /\ asked' = IF call[t] = GreetAll \/ peer[c] = "gone" THEN asked
              ELSE [asked EXCEPT ![c] = @ + 1]
  /\ GoTo(t, Rest(t, c, client_infos), TRUE)
  /\ UNCHANGED <<session, device, fd, client_infos, peer, arrived, clients,
                 again, loopFrame, bus, missed>>

Announcing(c) == exec.signal.name = "CONNECT" /\ exec.conn = c

\* The send fails: close_client_conn, in this thread.  recv_uuid is set when
\* the connect callback returns.
SendFails(t, c) ==
  /\ peer[c] = "closed"
  /\ IF Announcing(c)
     THEN /\ loop' = Loop("close", t, c, NoDevice)
          /\ UNCHANGED <<session, clients, again>>
     ELSE /\ Notify(c)
          /\ loop' = Loop("tell", t, c, device[c])
  /\ UNCHANGED <<device, fd, client_infos, peer, asked, arrived, loopFrame,
                 busVars>>

\* The cell was freed before the send; what comes of it depends on what has the
\* number now.
SendLate(t, c) ==
  /\ c \notin client_infos
  /\ \E ok \in BOOLEAN :
       GoTo(t, Rest(t, c, client_infos), ok \/ call[t] = GreetAll)
  /\ UNCHANGED <<linkVars, clients, again, loopFrame, bus, missed>>

\* Who gets what is sent to c: c, or the connection that has its number now,
\* which may be one that is not announced yet.
Receivers(c) ==
  Holders(fd[c]) \cup
  (IF c \in client_infos THEN {} ELSE {k \in Conns : session[k] = "absent"})

Send ==
  /\ loop.pc = "send"
  /\ \/ \E c \in Receivers(loop.conn) :
          SendOk(loop.thread, c) \/ SendFails(loop.thread, c)
     \/ SendLate(loop.thread, loop.conn)

\* tcp_client_disconnect goes on to its signal, in this thread.
TellLoss ==
  /\ loop.pc = "tell"
  /\ IF Initialized(config)
     THEN /\ emit(Signal("DISCONNECT", loop.tell))
          /\ loop' = Loop("close", loop.thread, loop.conn, NoDevice)
          /\ UNCHANGED <<linkVars, clients, again, loopFrame, call, reply,
                         tcp_sbscr>>
     ELSE ProcessEnds

\* The rest of close_client_conn, and on along the list.
CloseLate ==
  /\ loop.pc = "close"
  /\ CloseFd(fd[loop.conn])
  /\ GoTo(loop.thread, Rest(loop.thread, loop.conn, client_infos'),
          call[loop.thread] = GreetAll)
  /\ UNCHANGED <<clients, again, loopFrame, bus, missed>>

LoopStep == Send \/ TellLoss \/ CloseLate \/ \E t \in Callers : Handle(t)

ExecStep ==
  \/ \E c \in Conns : Lose(c) \/ Read(c)
  \/ Tell \/ Close

ServiceNext ==
  \/ \E answer \in BusAnswers : Initialize(answer)
  \/ Execute \/ Quit \/ Kill \/ Crash
  \/ \E c \in Conns : \E d \in MayOpen[c] : Connect(c, d)
  \/ \E c \in Conns : Detect(c)
  \/ \E c \in Conns, how \in {"gone", "closed"} : Leave(c, how)
  \/ \E t \in Callers : HandleLate(t)
  \/ ExecStep \/ LoopStep

=============================================================================
