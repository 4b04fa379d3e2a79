---------------------------- MODULE SocketServer ----------------------------
(***************************************************************************)
(* The TCP server library, socket_server.c, as the server service runs it. *)
(*                                                                         *)
(* The execute thread selects over active_fd_set, serves the descriptors   *)
(* that are readable in ascending order, then pings every client.  The     *)
(* threads in Callers (the DBUS loop of the service) call                  *)
(* socket_server_send_data and socket_server_send_data_all at any time.    *)
(* All of them walk and edit the linked list client_infos with no lock.    *)
(*                                                                         *)
(* Abstractions.  A connection names the list cell malloc'ed for it, and a *)
(* freed cell is not recycled: the first use of a cell another thread has  *)
(* freed ends the behaviour with a fault.  glibc leaves a freed cell's     *)
(* `next' field alone, so the reads of a cell its own thread has just      *)
(* freed (the loops at 260 and 442) yield the old successor.  A message is *)
(* one item of inbox; "bad" fails the header checks, "cut" is a header     *)
(* whose data never arrives.  Sends do not block on a full socket buffer.  *)
(***************************************************************************)
EXTENDS Integers, Sequences, FiniteSets, Functions

CONSTANTS
  Conns,          \* connections that peers open, numbered in their order
  Devices,        \* client devices, one UUID each
  Fds,            \* descriptor numbers accept() may return
  ServerFd,       \* server_socket_fd
  Exec,           \* the execute thread
  Callers,        \* threads of the service that call the send functions
  InboxCap,       \* bound on the unread messages of a connection
  ClientMsgs,     \* messages an identified client may send
  CutMessages,    \* may a peer be lost between the header and the data?
  AcceptMayFail,  \* may accept() fail and drop the pending connection?
  NoConn,         \* NULL, and an unused descriptor
  NoDevice        \* the zeroed UUID of a client that has not identified

ASSUME ServerAssumption ==
  /\ Fds \subseteq Nat /\ Fds # {}
  /\ ServerFd \in Nat \ Fds
  /\ Exec \notin Callers
  /\ InboxCap \in Nat \ {0}
  /\ ClientMsgs \subseteq {"uuid", "data", "bad"}
  /\ CutMessages \in BOOLEAN
  /\ AcceptMayFail \in BOOLEAN
  /\ NoConn \notin Conns
  /\ NoDevice \notin Devices

ASSUME NumberedAssumption == Conns \subseteq Nat

VARIABLES
  backlog,        \* completed connections waiting for accept()
  peer,           \* what has become of the far end of each connection
  device,         \* the device that opened the connection
  greeted,        \* connections whose client has sent its UUID
  inbox,          \* received and unread messages of each connection
  unacked,        \* lost peers to which data is being retransmitted
  file,           \* descriptor table of the server process
  client_infos,   \* the linked list of clients, head first
  fd, uuid, recv_uuid,   \* fields of struct client_info
  freed,          \* cells given back to malloc
  active_fd_set,
  read_fd_set,    \* execute_thread: descriptors select() left to serve
  ping_due,       \* execute_thread: TIME_BETWEEN_PINGS has passed
  pc,             \* where each thread is
  client,         \* each thread's `client' pointer
  client_fd,      \* each thread's client_fd argument
  ret,            \* where close_client_conn returns to
  fault,          \* why the process has died, or "none"
  connects, disconnects, \* callbacks made for each cell
  rx              \* <<cell, connection>> of the rx callbacks made

kernelVars == <<backlog, peer, device, greeted, inbox, unacked>>
cellVars   == <<fd, uuid, recv_uuid, freed>>
loopVars   == <<read_fd_set, ping_due>>
frameVars  == <<client, client_fd, ret>>
toldVars   == <<connects, disconnects, rx>>
vars == <<kernelVars, file, client_infos, cellVars, active_fd_set, loopVars,
          pc, frameVars, fault, toldVars>>

Threads == {Exec} \cup Callers

Pcs ==
  {"copy", "select", "service", "accepted", "recv", "identify", "ping", "done",
   "quit",                                 \* the execute thread
   "idle", "send_one",                     \* a caller
   "send_all", "find", "close", "unlink"}  \* either

Faults == {"none", "assert_discrepancy", "assert_no_clients", "null_client",
           "freed_client", "list_corrupt"}

KernelTypeOK ==
  /\ backlog \in Seq(Conns)
  /\ peer \in [Conns -> {"unborn", "up", "gone", "closed"}]
  /\ device \in [Conns -> Devices \cup {NoDevice}]
  /\ greeted \subseteq Conns
  /\ inbox \in [Conns -> Seq({"uuid", "data", "bad", "cut"})]
  /\ unacked \subseteq Conns

CellTypeOK ==
  /\ file \in [Fds -> Conns \cup {NoConn}]
  /\ client_infos \in Seq(Conns)
  /\ fd \in [Conns -> Fds \cup {-1}]
  /\ uuid \in [Conns -> Devices \cup {NoDevice}]
  /\ recv_uuid \in [Conns -> BOOLEAN]
  /\ freed \subseteq Conns

ThreadTypeOK ==
  /\ active_fd_set \subseteq Fds \cup {ServerFd}
  /\ read_fd_set \subseteq Fds \cup {ServerFd}
  /\ ping_due \in BOOLEAN
  /\ pc \in [Threads -> Pcs]
  /\ client \in [Threads -> Conns \cup {NoConn}]
  /\ client_fd \in [Threads -> Fds \cup {-1}]
  /\ ret \in [Threads -> {"service", "idle", "send_all"}]
  /\ fault \in Faults

ToldTypeOK ==
  /\ connects \in [Conns -> Nat]
  /\ disconnects \in [Conns -> Nat]
  /\ rx \subseteq Conns \X Conns

TypeOK == KernelTypeOK /\ CellTypeOK /\ ThreadTypeOK /\ ToldTypeOK

\* socket_server_init has opened and listened on server_socket_fd and the
\* execute thread has initialised active_fd_set; lastPing is 0, so the first
\* ping is due at once.
Init ==
  /\ backlog = <<>>
  /\ peer = [c \in Conns |-> "unborn"]
  /\ device = [c \in Conns |-> NoDevice]
  /\ greeted = {}
  /\ inbox = [c \in Conns |-> <<>>]
  /\ unacked = {}
  /\ file = [f \in Fds |-> NoConn]
  /\ client_infos = <<>>
  /\ fd = [c \in Conns |-> -1]
  /\ uuid = [c \in Conns |-> NoDevice]
  /\ recv_uuid = [c \in Conns |-> FALSE]
  /\ freed = {}
  /\ active_fd_set = {ServerFd}
  /\ read_fd_set = {}
  /\ ping_due = TRUE
  /\ pc = [t \in Threads |-> IF t = Exec THEN "copy" ELSE "idle"]
  /\ client = [t \in Threads |-> NoConn]
  /\ client_fd = [t \in Threads |-> -1]
  /\ ret = [t \in Threads |-> "service"]
  /\ fault = "none"
  /\ connects = [c \in Conns |-> 0]
  /\ disconnects = [c \in Conns |-> 0]
  /\ rx = {}

-----------------------------------------------------------------------------
(* Peers and the network.                                                  *)

peerFrame == <<file, client_infos, cellVars, active_fd_set, loopVars, pc,
               frameVars, fault, toldVars>>

\* A device connects.  A device runs one client, with one socket.
Connect(c, d) ==
  /\ peer[c] = "unborn" /\ \A k \in Conns : k < c => peer[k] # "unborn"
  /\ pc[Exec] # "quit"
  /\ \A k \in Conns : device[k] = d => peer[k] # "up"
  /\ peer' = [peer EXCEPT ![c] = "up"]
  /\ device' = [device EXCEPT ![c] = d]
  /\ backlog' = Append(backlog, c)
  /\ UNCHANGED <<greeted, inbox, unacked>>
  /\ UNCHANGED peerFrame

\* socket_client_init sends the UUID before anything else.
Greet(c) ==
  /\ peer[c] = "up" /\ c \notin greeted
  /\ greeted' = greeted \cup {c}
  /\ inbox' = [inbox EXCEPT ![c] = Append(@, "uuid")]
  /\ UNCHANGED <<backlog, peer, device, unacked>>
  /\ UNCHANGED peerFrame

\* Later messages: the UUID again in answer to a ping, data of the user, or
\* bytes that fail the header check.
ClientSend(c, m) ==
  /\ peer[c] = "up" /\ c \in greeted
  /\ Len(inbox[c]) < InboxCap
  /\ inbox' = [inbox EXCEPT ![c] = Append(@, m)]
  /\ UNCHANGED <<backlog, peer, device, greeted, unacked>>
  /\ UNCHANGED peerFrame

\* The far end stops: in an orderly way ("closed", the kernel knows), or by
\* losing power or the Wi-Fi link ("gone", nobody is told).  A message may be
\* cut after its header.
Leave(c, how) ==
  /\ peer[c] = "up"
  /\ peer' = [peer EXCEPT ![c] = how]
  /\ \/ UNCHANGED inbox
     \/ /\ CutMessages /\ c \in greeted
        /\ inbox' = [inbox EXCEPT ![c] = Append(@, "cut")]
  /\ UNCHANGED <<backlog, device, greeted, unacked>>
  /\ UNCHANGED peerFrame

\* TCP gives up retransmitting to a lost peer.  Nothing is retransmitted to a
\* peer that is sent nothing.
Detect(c) ==
  /\ peer[c] = "gone" /\ c \in unacked
  /\ peer' = [peer EXCEPT ![c] = "closed"]
  /\ unacked' = unacked \ {c}
  /\ UNCHANGED <<backlog, device, greeted, inbox>>
  /\ UNCHANGED peerFrame

\* A second passes: TIME_BETWEEN_PINGS <= time(NULL) - lastPing.
Tick ==
  /\ ~ping_due
  /\ ping_due' = TRUE
  /\ UNCHANGED <<kernelVars, file, client_infos, cellVars, active_fd_set,
                 read_fd_set, pc, frameVars, fault, toldVars>>

-----------------------------------------------------------------------------
(* The list of clients.                                                    *)

\* Positions whose cell a search by descriptor stops at or goes past.
Matches(f) == {i \in DOMAIN client_infos : fd[client_infos[i]] = f}

FirstOf(I) == CHOOSE i \in I : \A j \in I : i <= j

find_client_by_fd_first(f) ==
  IF client_infos = <<>> THEN NoConn ELSE client_infos[1]

find_client_by_fd(f) ==
  IF Matches(f) = {} THEN NoConn ELSE client_infos[FirstOf(Matches(f))]

find_client_by_uuid(d) ==
  LET I == {i \in DOMAIN client_infos : uuid[client_infos[i]] = d}
  IN  IF I = {} THEN NoConn ELSE client_infos[FirstOf(I)]

NextIn_stuck(s, c) == c

\* client->next for a cell c of the list s.
NextIn(s, c) ==
  LET I == {i \in 1 .. Len(s) - 1 : s[i] = c}
  IN  IF I = {} THEN NoConn ELSE s[FirstOf(I) + 1]

Without(s, i) ==
  [j \in 1 .. Len(s) - 1 |-> IF j < i THEN s[j] ELSE s[j + 1]]

\* After socket_server_quit the list still points to the cells it freed.
ListDangles == \E i \in DOMAIN client_infos : client_infos[i] \in freed

Die(why) ==
  /\ fault' = why
  /\ UNCHANGED <<kernelVars, file, client_infos, cellVars, active_fd_set,
                 loopVars, pc, frameVars, toldVars>>

Goto(t, label) == pc' = [pc EXCEPT ![t] = label]

\* The locals of process_recv_msg and of the send functions end with them.
EndFrame(t) ==
  /\ client' = [client EXCEPT ![t] = NoConn]
  /\ client_fd' = [client_fd EXCEPT ![t] = -1]

CallClose_falls_through(t, f, back) ==
  /\ Goto(t, "find")
  /\ client_fd' = [client_fd EXCEPT ![t] = f]
  /\ ret' = [ret EXCEPT ![t] = pc[t]]

\* Enter close_client_conn(f).
CallClose(t, f, back) ==
  /\ Goto(t, "find")
  /\ client_fd' = [client_fd EXCEPT ![t] = f]
  /\ ret' = [ret EXCEPT ![t] = back]

-----------------------------------------------------------------------------
(* close_client_conn: the thread may be preempted between its steps.       *)

AfterNotify_unchecked(c) == [disconnects EXCEPT ![c] = @ + 1]

AfterNotify_inverted(c) ==
  IF recv_uuid[c] THEN disconnects ELSE [disconnects EXCEPT ![c] = @ + 1]

\* The disconnect callback, if the connect callback was called.
AfterNotify(c) ==
  IF recv_uuid[c] THEN [disconnects EXCEPT ![c] = @ + 1] ELSE disconnects

\* Search the client and call the disconnect callback.  The result of the
\* search is not checked for NULL.
FindAndNotify(t) ==
  /\ pc[t] = "find"
  /\ LET c == find_client_by_fd(client_fd[t])
     IN  IF ListDangles THEN Die("freed_client")
         ELSE IF c = NoConn THEN Die("null_client")
         ELSE /\ disconnects' = AfterNotify(c)
              /\ Goto(t, "close")
              /\ UNCHANGED <<kernelVars, file, client_infos, cellVars,
                             active_fd_set, loopVars, frameVars, fault,
                             connects, rx>>

\* close(client_fd) ends whatever connection the number stands for now.
CloseFd(t) ==
  /\ pc[t] = "close"
  /\ LET k == file[client_fd[t]]
     IN  /\ file' = [file EXCEPT ![client_fd[t]] = NoConn]
         /\ peer' = IF k = NoConn THEN peer
                    ELSE [peer EXCEPT ![k] = "closed"]
         /\ inbox' = IF k = NoConn THEN inbox
                     ELSE [inbox EXCEPT ![k] = <<>>]
         /\ unacked' = unacked \ {k}
  /\ Goto(t, "unlink")
  /\ UNCHANGED <<backlog, device, greeted, client_infos, cellVars,
                 active_fd_set, loopVars, frameVars, fault, toldVars>>

FdClr_forgotten(f) == active_fd_set

FdClr(f) == active_fd_set \ {f}

\* FD_CLR and the removal loop.  The loop runs on after it has freed a cell:
\* a second cell with the same descriptor is unlinked through the freed one.
\* send_data_all then reads client->next of the cell it is at.
Unlink(t) ==
  /\ pc[t] = "unlink"
  /\ LET I == Matches(client_fd[t])
         i == FirstOf(I)
         list == IF I = {} THEN client_infos ELSE Without(client_infos, i)
     IN  IF \E j, k \in I : j # k
         THEN Die("list_corrupt")
         ELSE IF ListDangles \/ (ret[t] = "send_all" /\ client[t] \in freed)
         THEN Die("freed_client")
         ELSE /\ active_fd_set' = FdClr(client_fd[t])
              /\ client_infos' = list
              /\ freed' = IF I = {} THEN freed ELSE freed \cup {client_infos[i]}
              /\ client' = [client EXCEPT ![t] =
                   IF ret[t] # "send_all" THEN NoConn
                   ELSE IF I # {} /\ client_infos[i] = @
                   THEN NextIn(client_infos, @)
                   ELSE NextIn(list, @)]
              /\ client_fd' = [client_fd EXCEPT ![t] = -1]
              /\ ret' = [ret EXCEPT ![t] = "service"]
              /\ Goto(t, ret[t])
              /\ UNCHANGED <<kernelVars, file, fd, uuid, recv_uuid, loopVars,
                             fault, toldVars>>

-----------------------------------------------------------------------------
(* Sending, by the execute thread's pings and by the callers.              *)

\* One call of socket_send_data.  A send to a peer that has closed may still
\* succeed; a send on a descriptor that is not open fails.
SendOk(t) ==
  LET c == client[t]
      k == file[fd[c]]
  IN  /\ pc[t] \in {"send_all", "send_one"}
      /\ c # NoConn /\ c \notin freed
      /\ k # NoConn
      /\ unacked' = IF peer[k] = "gone" THEN unacked \cup {k} ELSE unacked
      /\ client' = [client EXCEPT ![t] =
                     IF pc[t] = "send_one" THEN NoConn
                     ELSE NextIn(client_infos, c)]
      /\ IF pc[t] = "send_one" THEN Goto(t, "idle") ELSE UNCHANGED pc
      /\ UNCHANGED <<backlog, peer, device, greeted, inbox, file,
                     client_infos, cellVars, active_fd_set, loopVars,
                     client_fd, ret, fault, toldVars>>

SendFails(t) ==
  LET c == client[t]
      k == file[fd[c]]
  IN  /\ pc[t] \in {"send_all", "send_one"}
      /\ c # NoConn /\ c \notin freed
      /\ k # NoConn => peer[k] = "closed"
      /\ CallClose(t, fd[c], IF pc[t] = "send_one" THEN "idle" ELSE "send_all")
      /\ UNCHANGED <<kernelVars, file, client_infos, cellVars, active_fd_set,
                     loopVars, client, fault, toldVars>>

SendToFreed(t) ==
  /\ pc[t] \in {"send_all", "send_one"}
  /\ client[t] \in freed
  /\ Die("freed_client")

\* The end of the loop of send_data_all; the execute thread sets lastPing.
SendAllDone(t) ==
  /\ pc[t] = "send_all" /\ client[t] = NoConn
  /\ Goto(t, IF t = Exec THEN "copy" ELSE "idle")
  /\ ping_due' = IF t = Exec THEN FALSE ELSE ping_due
  /\ UNCHANGED <<kernelVars, file, client_infos, cellVars, active_fd_set,
                 read_fd_set, frameVars, fault, toldVars>>

callFrame == <<kernelVars, file, client_infos, cellVars, active_fd_set,
               loopVars, client_fd, ret, fault, toldVars>>

\* socket_server_send_data(uuid).  An unknown UUID returns RETURN_FAILED.
CallSendData(t, d) ==
  /\ pc[t] = "idle"
  /\ ~ListDangles
  /\ find_client_by_uuid(d) # NoConn
  /\ client' = [client EXCEPT ![t] = find_client_by_uuid(d)]
  /\ Goto(t, "send_one")
  /\ UNCHANGED callFrame

\* socket_server_send_data_all
CallSendDataAll(t) ==
  /\ pc[t] = "idle"
  /\ ~ListDangles /\ client_infos # <<>>
  /\ client' = [client EXCEPT ![t] = client_infos[1]]
  /\ Goto(t, "send_all")
  /\ UNCHANGED callFrame

CallOnDanglingList(t) ==
  /\ pc[t] = "idle"
  /\ ListDangles
  /\ Die("freed_client")

-----------------------------------------------------------------------------
(* The execute thread.                                                     *)

Copy ==
  /\ pc[Exec] = "copy"
  /\ read_fd_set' = active_fd_set
  /\ Goto(Exec, "select")
  /\ UNCHANGED <<kernelVars, file, client_infos, cellVars, active_fd_set,
                 ping_due, frameVars, fault, toldVars>>

Readable(f) ==
  IF f = ServerFd
  THEN backlog # <<>>
  ELSE /\ file[f] # NoConn
       /\ inbox[file[f]] # <<>> \/ peer[file[f]] = "closed"

\* select() returns: the readable descriptors, or none after 100 ms.  One that
\* is closed while select() waits never becomes readable.
Select ==
  /\ pc[Exec] = "select"
  /\ read_fd_set' = {f \in read_fd_set : Readable(f)}
  /\ Goto(Exec, "service")
  /\ UNCHANGED <<kernelVars, file, client_infos, cellVars, active_fd_set,
                 ping_due, frameVars, fault, toldVars>>

\* A descriptor closed before select() looked at it: EBADF, the thread ends.
SelectFails ==
  /\ pc[Exec] = "select"
  /\ \E f \in read_fd_set \ {ServerFd} : file[f] = NoConn
  /\ Goto(Exec, "done")
  /\ UNCHANGED <<kernelVars, file, client_infos, cellVars, active_fd_set,
                 loopVars, frameVars, fault, toldVars>>

NextReady == FirstOf(read_fd_set)

FreeFds == {f \in Fds : file[f] = NoConn}

FdSet_forgotten(f) == active_fd_set

FdSet(f) == active_fd_set \cup {f}

\* handle_conn_request: accept() returns the lowest free number.
Accept ==
  /\ pc[Exec] = "service"
  /\ read_fd_set # {} /\ NextReady = ServerFd
  /\ FreeFds # {}
  /\ LET c == Head(backlog)
         f == FirstOf(FreeFds)
     IN  /\ backlog' = Tail(backlog)
         /\ file' = [file EXCEPT ![f] = c]
         /\ fd' = [fd EXCEPT ![c] = f]
         /\ recv_uuid' = [recv_uuid EXCEPT ![c] = FALSE]
         /\ uuid' = [uuid EXCEPT ![c] = NoDevice]
         /\ active_fd_set' = FdSet(f)
         /\ client_infos' = Append(client_infos, c)
  /\ read_fd_set' = read_fd_set \ {ServerFd}
  /\ Goto(Exec, "accepted")
  /\ UNCHANGED <<peer, device, greeted, inbox, unacked, freed, ping_due,
                 frameVars, fault, toldVars>>

\* accept() fails: no descriptor is free, or the new connection had an error.
AcceptFails ==
  /\ pc[Exec] = "service"
  /\ read_fd_set # {} /\ NextReady = ServerFd
  /\ \/ FreeFds = {} /\ UNCHANGED <<backlog, peer>>
     \/ /\ AcceptMayFail
        /\ backlog' = Tail(backlog)
        /\ peer' = [peer EXCEPT ![Head(backlog)] = "closed"]
  /\ read_fd_set' = read_fd_set \ {ServerFd}
  /\ Goto(Exec, "accepted")
  /\ UNCHANGED <<device, greeted, inbox, unacked, file, client_infos,
                 cellVars, active_fd_set, ping_due, frameVars, fault, toldVars>>

\* assert(client_infos != NULL) after handle_conn_request, whatever it returned.
AssertClients ==
  /\ pc[Exec] = "accepted"
  /\ IF client_infos = <<>>
     THEN Die("assert_no_clients")
     ELSE /\ Goto(Exec, "service")
          /\ UNCHANGED <<kernelVars, file, client_infos, cellVars,
                         active_fd_set, loopVars, frameVars, fault, toldVars>>

\* process_recv_msg looks the client up and asserts that it is known.
FindSender ==
  /\ pc[Exec] = "service"
  /\ read_fd_set # {} /\ NextReady # ServerFd
  /\ LET c == find_client_by_fd(NextReady)
     IN  IF c = NoConn
         THEN Die("assert_discrepancy")
         ELSE /\ client' = [client EXCEPT ![Exec] = c]
              /\ client_fd' = [client_fd EXCEPT ![Exec] = NextReady]
              /\ read_fd_set' = read_fd_set \ {NextReady}
              /\ Goto(Exec, "recv")
              /\ UNCHANGED <<kernelVars, file, client_infos, cellVars,
                             active_fd_set, ping_due, ret, fault, toldVars>>

ServiceDone ==
  /\ pc[Exec] = "service" /\ read_fd_set = {}
  /\ Goto(Exec, "ping")
  /\ UNCHANGED <<kernelVars, file, client_infos, cellVars, active_fd_set,
                 loopVars, frameVars, fault, toldVars>>

\* What socket_receive_data finds on the descriptor.  It blocks while there is
\* nothing, or a header without its data, on a connection that is not closed.
Incoming == IF file[client_fd[Exec]] = NoConn THEN <<>>
            ELSE inbox[file[client_fd[Exec]]]

Has(m) == Incoming # <<>> /\ Head(Incoming) = m

TakeMessage ==
  LET k == file[client_fd[Exec]]
  IN  inbox' = [inbox EXCEPT ![k] = Tail(@)]

\* End of file or an error: FLAG_DISCONNECT.
RecvDisconnect ==
  /\ pc[Exec] = "recv"
  /\ LET k == file[client_fd[Exec]]
     IN  k # NoConn => peer[k] = "closed" /\ (Incoming = <<>> \/ Has("cut"))
  /\ CallClose(Exec, client_fd[Exec], "service")
  /\ UNCHANGED <<kernelVars, file, client_infos, cellVars, active_fd_set,
                 loopVars, client, fault, toldVars>>

\* FLAG_HEADER_ERROR: the bytes are dropped.
RecvBad ==
  /\ pc[Exec] = "recv" /\ Has("bad")
  /\ TakeMessage
  /\ EndFrame(Exec)
  /\ Goto(Exec, "service")
  /\ UNCHANGED <<backlog, peer, device, greeted, unacked, file, client_infos,
                 cellVars, active_fd_set, loopVars, ret, fault, toldVars>>

IsNew_unchecked(c) == TRUE

IsNew_never(c) == FALSE

\* The client has not identified itself yet.
IsNew(c) == ~recv_uuid[c]

\* COMMAND_UUID: the first one is stored and the connect callback is called.
RecvUuid ==
  /\ pc[Exec] = "recv" /\ Has("uuid")
  /\ client[Exec] \notin freed
  /\ TakeMessage
  /\ LET c == client[Exec]
     IN  IF ~IsNew(c)
         THEN /\ EndFrame(Exec)
              /\ Goto(Exec, "service")
              /\ UNCHANGED <<uuid, connects>>
         ELSE /\ uuid' = [uuid EXCEPT ![c] = device[file[client_fd[Exec]]]]
              /\ connects' = [connects EXCEPT ![c] = @ + 1]
              /\ Goto(Exec, "identify")
              /\ UNCHANGED <<client, client_fd>>
  /\ UNCHANGED <<backlog, peer, device, greeted, unacked, file, client_infos,
                 fd, recv_uuid, freed, active_fd_set, loopVars, ret, fault,
                 disconnects, rx>>

\* recv_uuid is set only after the connect callback has returned.
Identify ==
  /\ pc[Exec] = "identify"
  /\ client[Exec] \notin freed
  /\ recv_uuid' = [recv_uuid EXCEPT ![client[Exec]] = TRUE]
  /\ EndFrame(Exec)
  /\ Goto(Exec, "service")
  /\ UNCHANGED <<kernelVars, file, client_infos, fd, uuid, freed,
                 active_fd_set, loopVars, ret, fault, toldVars>>

\* COMMAND_NONE: the rx callback, with the UUID of the cell.
RecvData ==
  /\ pc[Exec] = "recv" /\ Has("data")
  /\ client[Exec] \notin freed
  /\ TakeMessage
  /\ rx' = rx \cup {<<client[Exec], file[client_fd[Exec]]>>}
  /\ EndFrame(Exec)
  /\ Goto(Exec, "service")
  /\ UNCHANGED <<backlog, peer, device, greeted, unacked, file, client_infos,
                 cellVars, active_fd_set, loopVars, ret, fault, connects,
                 disconnects>>

RecvOnFreed ==
  /\ \/ pc[Exec] = "recv" /\ (Has("uuid") \/ Has("data"))
     \/ pc[Exec] = "identify"
  /\ client[Exec] \in freed
  /\ Die("freed_client")

PingNow_several == ping_due /\ Len(client_infos) > 1

PingNow == ping_due /\ client_infos # <<>>

Ping ==
  /\ pc[Exec] = "ping"
  /\ IF PingNow
     THEN /\ client' = [client EXCEPT ![Exec] = client_infos[1]]
          /\ Goto(Exec, "send_all")
     ELSE Goto(Exec, "copy") /\ UNCHANGED client
  /\ UNCHANGED <<kernelVars, file, client_infos, cellVars, active_fd_set,
                 loopVars, client_fd, ret, fault, toldVars>>

\* The main thread sees that the execute thread has ended and calls
\* socket_server_quit, which frees every cell and leaves client_infos as it is.
Quit ==
  /\ pc[Exec] = "done"
  /\ LET open == {fd[client_infos[i]] : i \in DOMAIN client_infos}
         ended == {file[f] : f \in open} \cup Range(backlog)
     IN  /\ file' = [f \in Fds |-> IF f \in open THEN NoConn ELSE file[f]]
         /\ peer' = [c \in Conns |-> IF c \in ended THEN "closed" ELSE peer[c]]
         /\ active_fd_set' = active_fd_set \ open
  /\ backlog' = <<>>
  /\ freed' = freed \cup Range(client_infos)
  /\ Goto(Exec, "quit")
  /\ UNCHANGED <<device, greeted, inbox, unacked, client_infos, fd, uuid,
                 recv_uuid, loopVars, frameVars, fault, toldVars>>

-----------------------------------------------------------------------------

Subroutine(t) ==
  \/ FindAndNotify(t) \/ CloseFd(t) \/ Unlink(t)
  \/ SendOk(t) \/ SendFails(t) \/ SendToFreed(t) \/ SendAllDone(t)

ExecStep ==
  \/ Copy \/ Select \/ SelectFails
  \/ Accept \/ AcceptFails \/ AssertClients
  \/ FindSender \/ ServiceDone
  \/ RecvDisconnect \/ RecvBad \/ RecvUuid \/ Identify
  \/ RecvData \/ RecvOnFreed
  \/ Ping
  \/ Subroutine(Exec)

CallerStep(t) ==
  \/ \E d \in Devices : CallSendData(t, d)
  \/ CallSendDataAll(t) \/ CallOnDanglingList(t)
  \/ Subroutine(t)

PeerStep ==
  \/ \E c \in Conns, d \in Devices : Connect(c, d)
  \/ \E c \in Conns : Greet(c) \/ Detect(c)
  \/ \E c \in Conns, m \in ClientMsgs : ClientSend(c, m)
  \/ \E c \in Conns, how \in {"gone", "closed"} : Leave(c, how)

Next ==
  /\ fault = "none"
  /\ \/ PeerStep \/ Tick
     \/ ExecStep \/ Quit
     \/ \E t \in Callers : CallerStep(t)

Spec == Init /\ [][Next]_vars

\* The scheduler runs the execute thread, the clock advances, and TCP gives up
\* on a peer that does not acknowledge.
Fairness ==
  /\ WF_vars(fault = "none" /\ ExecStep)
  /\ WF_vars(fault = "none" /\ Tick)
  /\ \A c \in Conns : WF_vars(fault = "none" /\ Detect(c))

FairSpec == Spec /\ Fairness

-----------------------------------------------------------------------------
(* Properties of the server with no caller thread.                         *)

\* Connections the server has a cell for.
Clients == Range(client_infos)

\* The cell that the execute thread has begun to close, if it has.
Closing ==
  IF pc[Exec] \in {"close", "unlink"} THEN {find_client_by_fd(client_fd[Exec])}
                                     ELSE {}

\* The asserts at 320 and 523 hold, no search that must succeed returns NULL,
\* no freed cell is used, and select() is never given a descriptor that has
\* been closed, so the thread's loop never ends.
ServerStaysUp == fault = "none" /\ pc[Exec] \notin {"done", "quit"}

\* Every descriptor the process has open belongs to one cell of the list and
\* is watched by select(); nothing else is watched (handle_conn_request against
\* close_client_conn).  A cell being closed is the exception.
DescriptorsMatchList ==
  /\ \A i, j \in DOMAIN client_infos :
       i # j => fd[client_infos[i]] # fd[client_infos[j]]
  /\ active_fd_set = {ServerFd} \cup {fd[c] : c \in Clients}
  /\ \A c \in Clients \ Closing : file[fd[c]] = c
  /\ \A f \in Fds : file[f] # NoConn => file[f] \in Clients

\* The subscribers' view of the clients, made of the connect and disconnect
\* callbacks, is the list of identified clients: each is announced once, and
\* gets its one disconnect before its cell is freed (249 before 260).
SignalsMatchList ==
  \A c \in Conns :
    /\ c \in Clients \ Closing => disconnects[c] = 0
    /\ c \in Clients /\ pc[Exec] # "identify" =>
         connects[c] = IF recv_uuid[c] THEN 1 ELSE 0
    /\ c \in freed => connects[c] = disconnects[c] /\ connects[c] \in {0, 1}

\* Data is reported under the UUID of the device that sent it: a descriptor
\* number used again never gives a message to the cell of an earlier
\* connection.
RightSender == \A p \in rx : uuid[p[1]] = device[p[2]]

\* What the library promises its user, as SignalContract says it.
session == [c \in Conns |->
  IF disconnects[c] > 0 THEN "past" ELSE IF connects[c] > 0 THEN "present"
                                                           ELSE "absent"]

Contract ==
  INSTANCE SignalContract WITH heard <- {p[1] : p \in rx}, Alone <- TRUE

ContractSpec == Contract!Spec

\* The execute thread waits for the data of a message whose header it has read,
\* and nothing is on its way to the peer, which is gone: the read has no
\* timeout and nobody else pings, so it waits for good (socket_commons.c, 483).
Stalled ==
  /\ pc[Exec] = "recv" /\ Has("cut")
  /\ LET k == file[client_fd[Exec]]
     IN  peer[k] = "gone" /\ k \notin unacked

\* A client that was announced and is then lost, even by losing power, is
\* reported: the pings make TCP notice (587 to 593).  A client lost between a
\* header and its data can keep this, and the next two, from ever happening.
LostReported ==
  \A c \in Conns :
    (connects[c] = 1 /\ peer[c] # "up") ~> (disconnects[c] = 1 \/ Stalled)

\* A pending connection is accepted even when the process has no descriptor
\* left, because lost clients give theirs back: as many descriptors as devices
\* suffice.
EveryoneServed ==
  \A c \in Conns :
    (c \in Range(backlog)) ~> (c \notin Range(backlog) \/ Stalled)

\* pub_socket_server.h: pings are sent to the clients every TIME_BETWEEN_PINGS
\* seconds.  The execute thread comes round to its pings for ever, and no
\* client can hold it but in the one way of Stalled.
PingsContinue == []<>(pc[Exec] = "ping" \/ Stalled)

-----------------------------------------------------------------------------
(* Properties that hold whatever the callers do.                           *)

\* A client is announced at most once, and its disconnect is reported only
\* after that.
AnnouncedFirst ==
  \A c \in Conns :
    connects[c] <= 1 /\ (disconnects[c] > 0 => connects[c] = 1)

\* Data is reported only of clients that were announced, also when a race on
\* the list hands a connection to the cell of another.
DataAfterAnnounce == \A p \in rx : connects[p[1]] = 1

\* The UUID under which a client was announced is its UUID for good.
UuidKept ==
  [][\A c \in Conns : connects[c] > 0 => uuid'[c] = uuid[c]]_vars

\* What the library promises whatever other threads send: SignalContract in its
\* loose form.
Racing ==
  INSTANCE SignalContract WITH heard <- {p[1] : p \in rx}, Alone <- FALSE

RacingSpec == Racing!Spec

-----------------------------------------------------------------------------
(* What the headers say, and races refute.                                 *)

\* pub_socket_server.h: socket_server_send_data and socket_server_send_data_all
\* are "Thread Safe".
SendIsThreadSafe == fault = "none"

=============================================================================
