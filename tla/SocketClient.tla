---------------------------- MODULE SocketClient ----------------------------
(***************************************************************************)
(* The TCP client library, socket_client.c, inside the client service,     *)
(* tcp_client_service.c.                                                   *)
(*                                                                         *)
(* The main thread connects, emits the connect signal, spawns the execute  *)
(* thread and polls it.  The execute thread answers pings and forwards     *)
(* data until the connection is lost.  The threads in Senders (the DBUS    *)
(* loop) forward the send requests of the other programs.  All of them     *)
(* read and close the static variable client_fd with no lock.              *)
(*                                                                         *)
(* Abstractions.  The process opens one socket at a time, so socket() gives *)
(* the same number, SockFd, for each connection.  A failed connection      *)
(* attempt changes nothing and is left out, and so is load_uuid: the UUID  *)
(* is one value.  systemd starts the service again when it fails.  Linux   *)
(* keeps a socket alive while a thread is blocked in read() on it, though  *)
(* another has closed its descriptor.                                      *)
(***************************************************************************)
EXTENDS Integers, Sequences, FiniteSets

CONSTANTS
  Conns,      \* connections the service makes, numbered in their order
  Main, Exec, \* the main thread and the execute thread
  Senders,    \* threads that call dbus_method_send_tcp_msg_callback
  InboxCap,   \* bound on the unread messages of a connection
  SockFd,     \* the descriptor number of the socket
  NoConn      \* SockFd is not open, or there has been no connection

ASSUME ClientAssumption ==
  /\ Main # Exec /\ {Main, Exec} \cap Senders = {}
  /\ InboxCap \in Nat \ {0}
  /\ SockFd \in Nat
  /\ Conns \subseteq Nat /\ NoConn \notin Conns

VARIABLES
  link,       \* each connection, as the kernel of the client sees it
  inbox,      \* messages of the server that are received and unread
  file,       \* what SockFd refers to
  client_fd,
  isRunning,
  watched,    \* what the execute thread put into client_fd_set
  pc, back,   \* where each thread is; where its close_and_notify returns to
  down,       \* "no", or how the process ended
  current,    \* the last connection made
  greeted,    \* connections on which the UUID was sent
  told,       \* the last signal emitted to the subscribers
  announced,  \* connections for which the connect signal was emitted
  rx,         \* connections of which data was reported
  aborted     \* has an assert ended the process since the last signal?

netVars  == <<link, inbox>>
fdVars   == <<file, client_fd>>
runVars  == <<isRunning, watched, down, current>>
toldVars == <<greeted, told, announced, rx, aborted>>
vars == <<netVars, fdVars, runVars, pc, back, toldVars>>

Threads == {Main, Exec} \cup Senders

\* A ping, data, bytes that fail the header check, and the header of data of
\* which not all have come.
Whole    == {"ping", "data", "bad"}
Received == Whole \cup {"cut"}

TypeOK ==
  /\ link \in [Conns -> {"unborn", "up", "lost", "closed"}]
  /\ inbox \in [Conns -> Seq(Received)]
  /\ file \in Conns \cup {NoConn}
  /\ client_fd \in {-1, SockFd}
  /\ isRunning \in BOOLEAN
  /\ watched \in {"socket", "nothing", "stray"}
  /\ pc \in [Threads -> {"init", "greet", "emit", "execute", "poll", "none",
                         "start", "select", "recv", "body", "stop", "exit",
                         "idle", "send", "close", "clear", "notify", "again"}]
  /\ back \in [Threads -> {"again", "init", "select", "stop", "exit", "idle"}]
  /\ down \in {"no", "exited", "aborted"}
  /\ current \in Conns \cup {NoConn}
  /\ greeted \subseteq Conns
  /\ told \in {"nothing", "connected", "disconnected"}
  /\ announced \subseteq Conns
  /\ rx \subseteq Conns
  /\ aborted \in BOOLEAN

StartPc == [t \in Threads |->
  IF t = Main THEN "init" ELSE IF t = Exec THEN "none" ELSE "idle"]

Init ==
  /\ link = [c \in Conns |-> "unborn"]
  /\ inbox = [c \in Conns |-> <<>>]
  /\ file = NoConn
  /\ client_fd = -1
  /\ isRunning = FALSE
  /\ watched = "nothing"
  /\ pc = StartPc
  /\ back = [t \in Threads |-> "idle"]
  /\ down = "no"
  /\ current = NoConn
  /\ greeted = {}
  /\ told = "nothing"
  /\ announced = {}
  /\ rx = {}
  /\ aborted = FALSE

-----------------------------------------------------------------------------
(* The server and the network.                                             *)

processVars == <<fdVars, runVars, pc, back, toldVars>>

AtCut(c) == inbox[c] # <<>> /\ inbox[c][Len(inbox[c])] = "cut"

ServerSends(c, m) ==
  /\ link[c] = "up" /\ c \in greeted
  /\ Len(inbox[c]) < InboxCap /\ ~AtCut(c)
  /\ inbox' = [inbox EXCEPT ![c] = Append(@, m)]
  /\ UNCHANGED link
  /\ UNCHANGED processVars

\* The rest of the data comes.
DataCome(c) ==
  /\ link[c] = "up" /\ AtCut(c)
  /\ inbox' = [inbox EXCEPT ![c][Len(inbox[c])] = "data"]
  /\ UNCHANGED link
  /\ UNCHANGED processVars

\* The server closes the connection, or it or the Wi-Fi link goes silent.
Lose(c, how) ==
  /\ link[c] = "up"
  /\ link' = [link EXCEPT ![c] = how]
  /\ UNCHANGED inbox
  /\ UNCHANGED processVars

\* The kernel gives up on what was sent and never acknowledged.
GiveUp(c) ==
  /\ link[c] = "lost"
  /\ link' = [link EXCEPT ![c] = "closed"]
  /\ UNCHANGED inbox
  /\ UNCHANGED processVars

\* The last descriptor of the connection, and the last read on it, are gone.
Released(c) ==
  /\ link' = [link EXCEPT ![c] = "closed"]
  /\ inbox' = [inbox EXCEPT ![c] = <<>>]

-----------------------------------------------------------------------------
(* socket_send_data and close_and_notify, called by any thread.            *)

Goto(t, label) == pc' = [pc EXCEPT ![t] = label]

\* assert(socket_fd >= 0) in socket_commons.c
Abort ==
  /\ down' = "aborted"
  /\ aborted' = TRUE
  /\ UNCHANGED <<netVars, fdVars, isRunning, watched, current, pc, back,
                 greeted, told, announced, rx>>

CloseAndNotify_no_return(t, label) ==
  /\ Goto(t, "close")
  /\ back' = [back EXCEPT ![t] = pc[t]]

CloseAndNotify(t, label) ==
  /\ Goto(t, "close")
  /\ back' = [back EXCEPT ![t] = label]

CloseFd(t) ==
  /\ pc[t] = "close"
  /\ IF client_fd = -1 \/ file = NoConn
     THEN UNCHANGED <<file, netVars>>
     ELSE /\ file' = NoConn
          /\ IF pc[Exec] = "body" THEN UNCHANGED netVars ELSE Released(file)
  /\ Goto(t, "clear")
  /\ UNCHANGED <<client_fd, runVars, back, toldVars>>

ClearFd(t) ==
  /\ pc[t] = "clear"
  /\ client_fd' = -1
  /\ Goto(t, "notify")
  /\ UNCHANGED <<netVars, file, runVars, back, toldVars>>

\* _discont_callback is tcp_disconnect, which emits the disconnect signal.
Notify(t) ==
  /\ pc[t] = "notify"
  /\ told' = "disconnected"
  /\ Goto(t, back[t])
  /\ UNCHANGED <<netVars, fdVars, runVars, back, greeted, announced, rx,
                 aborted>>

\* Where a thread goes when its send has succeeded, and when it has failed.
\* process_recv_msg returns the RETURN_FAILED of send_uuid, which is not the
\* FLAG_DISCONNECT that would end the loop of the execute thread.
AfterSend_unannounced(t) ==
  CASE t = Main -> "execute" [] t = Exec -> "select" [] OTHER -> "idle"

AfterSend(t) ==
  CASE t = Main -> "emit" [] t = Exec -> "select" [] OTHER -> "idle"

AfterFail_unchecked(t) ==
  CASE t = Main -> "emit" [] t = Exec -> "select" [] OTHER -> "idle"

AfterFail(t) ==
  CASE t = Main -> "again" [] t = Exec -> "select" [] OTHER -> "idle"

Sending(t) == pc[t] \in {"greet", "send"}

\* The main and the execute thread send the UUID, the others data.
SendOk(t) ==
  /\ Sending(t)
  /\ client_fd # -1 /\ file # NoConn
  /\ greeted' = IF t \in Senders THEN greeted ELSE greeted \cup {file}
  /\ Goto(t, AfterSend(t))
  /\ UNCHANGED <<netVars, fdVars, runVars, back, told, announced, rx,
                 aborted>>

SendFails(t) ==
  /\ Sending(t)
  /\ client_fd # -1
  /\ file # NoConn => link[file] = "closed"
  /\ CloseAndNotify(t, AfterFail(t))
  /\ UNCHANGED <<netVars, fdVars, runVars, toldVars>>

SendAborts(t) == Sending(t) /\ client_fd = -1 /\ Abort

-----------------------------------------------------------------------------
(* The main thread of the service.                                         *)

\* socket_client_init connects and sends the UUID.
Connect(c) ==
  /\ pc[Main] = "init" /\ ~isRunning
  /\ link[c] = "unborn" /\ \A b \in Conns : b < c => link[b] # "unborn"
  /\ link' = [link EXCEPT ![c] = "up"]
  /\ file' = c
  /\ client_fd' = SockFd
  /\ current' = c
  /\ Goto(Main, "greet")
  /\ UNCHANGED <<inbox, isRunning, watched, down, back, toldVars>>

\* After the failure of send_uuid, which has already closed and notified.
CloseAgain ==
  /\ pc[Main] = "again"
  /\ CloseAndNotify(Main, "init")
  /\ UNCHANGED <<netVars, fdVars, runVars, toldVars>>

EmitConnect ==
  /\ pc[Main] = "emit"
  /\ told' = "connected"
  /\ announced' = announced \cup {current}
  /\ aborted' = FALSE
  /\ Goto(Main, "execute")
  /\ UNCHANGED <<netVars, fdVars, runVars, back, greeted, rx>>

\* socket_client_execute
Execute ==
  /\ pc[Main] = "execute"
  /\ isRunning' = TRUE
  /\ pc' = [pc EXCEPT ![Main] = "poll", ![Exec] = "start"]
  /\ UNCHANGED <<netVars, fdVars, watched, down, current, back, toldVars>>

Poll_hasty ==
  /\ pc[Main] = "poll"
  /\ Goto(Main, "init")
  /\ UNCHANGED <<netVars, fdVars, runVars, back, toldVars>>

Poll ==
  /\ pc[Main] = "poll" /\ ~isRunning
  /\ Goto(Main, "init")
  /\ UNCHANGED <<netVars, fdVars, runVars, back, toldVars>>

-----------------------------------------------------------------------------
(* The execute thread.                                                     *)

\* FD_SET(client_fd).  With -1 it sets no bit, or one of another descriptor.
StartExec ==
  /\ pc[Exec] = "start"
  /\ watched' \in IF client_fd = -1 THEN {"nothing", "stray"} ELSE {"socket"}
  /\ Goto(Exec, "select")
  /\ UNCHANGED <<netVars, fdVars, isRunning, down, current, back, toldVars>>

Readable == file # NoConn /\ (inbox[file] # <<>> \/ link[file] = "closed")

\* FD_ISSET(-1) reads a bit of something else.
SelectReady ==
  /\ pc[Exec] = "select"
  /\ watched = "socket" /\ Readable
  /\ \/ Goto(Exec, "recv") /\ UNCHANGED back
     \/ client_fd = -1 /\ CloseAndNotify(Exec, "exit")
  /\ UNCHANGED <<netVars, fdVars, runVars, toldVars>>

\* A descriptor that is not open: EBADF.
SelectError ==
  /\ pc[Exec] = "select"
  /\ watched = "stray" \/ (watched = "socket" /\ file = NoConn)
  /\ CloseAndNotify(Exec, "exit")
  /\ UNCHANGED <<netVars, fdVars, runVars, toldVars>>

SelectTimeout_silent ==
  /\ pc[Exec] = "select"
  /\ watched = "socket" => ~Readable
  /\ Goto(Exec, "stop")
  /\ UNCHANGED <<netVars, fdVars, runVars, back, toldVars>>

SelectTimeout_retries ==
  /\ pc[Exec] = "select"
  /\ watched = "socket" => ~Readable
  /\ UNCHANGED vars

\* SERVER_PING_TIMEOUT without a message.
SelectTimeout ==
  /\ pc[Exec] = "select"
  /\ watched = "socket" => ~Readable
  /\ CloseAndNotify(Exec, "stop")
  /\ UNCHANGED <<netVars, fdVars, runVars, toldVars>>

RecvDisconnect ==
  /\ pc[Exec] = "recv" /\ client_fd # -1
  /\ file # NoConn => inbox[file] = <<>> /\ link[file] = "closed"
  /\ CloseAndNotify(Exec, "stop")
  /\ UNCHANGED <<netVars, fdVars, runVars, toldVars>>

RecvMsg(m) ==
  /\ pc[Exec] = "recv" /\ client_fd # -1
  /\ file # NoConn /\ inbox[file] # <<>> /\ Head(inbox[file]) = m
  /\ inbox' = [inbox EXCEPT ![file] = Tail(@)]
  /\ rx' = IF m = "data" THEN rx \cup {file} ELSE rx
  /\ Goto(Exec, IF m = "ping" THEN "send" ELSE "select")
  /\ UNCHANGED <<link, fdVars, runVars, back, greeted, told, announced,
                 aborted>>

\* socket_receive_data has read a header and waits for the data, without a
\* timeout.  The connection is the last one made: no other is made while the
\* execute thread runs.
RecvHeader ==
  /\ pc[Exec] = "recv" /\ client_fd # -1
  /\ file # NoConn /\ inbox[file] # <<>> /\ Head(inbox[file]) = "cut"
  /\ Goto(Exec, "body")
  /\ UNCHANGED <<netVars, fdVars, runVars, back, toldVars>>

RecvBody ==
  /\ pc[Exec] = "body" /\ inbox[current] # <<>> /\ Head(inbox[current]) = "data"
  /\ IF file = NoConn
     THEN Released(current)
     ELSE inbox' = [inbox EXCEPT ![current] = Tail(@)] /\ UNCHANGED link
  /\ rx' = rx \cup {current}
  /\ Goto(Exec, "select")
  /\ UNCHANGED <<fdVars, runVars, back, greeted, told, announced, aborted>>

BodyDisconnect ==
  /\ pc[Exec] = "body" /\ AtCut(current) /\ link[current] = "closed"
  /\ CloseAndNotify(Exec, "stop")
  /\ UNCHANGED <<netVars, fdVars, runVars, toldVars>>

RecvAborts == pc[Exec] = "recv" /\ client_fd = -1 /\ Abort

StopExec ==
  /\ pc[Exec] = "stop"
  /\ isRunning' = FALSE
  /\ Goto(Exec, "none")
  /\ UNCHANGED <<netVars, fdVars, watched, down, current, back, toldVars>>

\* exit(EXIT_FAILURE)
ExitProcess ==
  /\ pc[Exec] = "exit"
  /\ down' = "exited"
  /\ UNCHANGED <<netVars, fdVars, isRunning, watched, current, pc, back,
                 toldVars>>

-----------------------------------------------------------------------------
(* The DBUS loop, and systemd.                                             *)

CallSend(t) ==
  /\ pc[t] = "idle"
  /\ isRunning
  /\ Goto(t, "send")
  /\ UNCHANGED <<netVars, fdVars, runVars, back, toldVars>>

Restart ==
  /\ down # "no"
  /\ down' = "no"
  /\ link' = [c \in Conns |-> IF c = current THEN "closed" ELSE link[c]]
  /\ inbox' = [c \in Conns |-> IF c = current THEN <<>> ELSE inbox[c]]
  /\ file' = NoConn
  /\ client_fd' = -1
  /\ isRunning' = FALSE
  /\ watched' = "nothing"
  /\ pc' = StartPc
  /\ back' = [t \in Threads |-> "idle"]
  /\ UNCHANGED <<current, toldVars>>

Shared(t) ==
  \/ CloseFd(t) \/ ClearFd(t) \/ Notify(t)
  \/ SendOk(t) \/ SendFails(t) \/ SendAborts(t)

MainStep ==
  \/ \E c \in Conns : Connect(c)
  \/ CloseAgain \/ EmitConnect \/ Execute \/ Poll
  \/ Shared(Main)

ExecStep ==
  \/ StartExec \/ SelectReady \/ SelectError \/ SelectTimeout
  \/ RecvDisconnect \/ RecvAborts
  \/ \E m \in Whole : RecvMsg(m)
  \/ RecvHeader \/ RecvBody \/ BodyDisconnect
  \/ StopExec \/ ExitProcess
  \/ Shared(Exec)

SenderStep(t) == CallSend(t) \/ Shared(t)

NetStep ==
  \E c \in Conns :
    \/ \E m \in Received : ServerSends(c, m)
    \/ DataCome(c) \/ GiveUp(c)
    \/ \E how \in {"lost", "closed"} : Lose(c, how)

Next ==
  \/ NetStep
  \/ down = "no" /\ (MainStep \/ ExecStep \/ \E t \in Senders : SenderStep(t))
  \/ Restart

Spec == Init /\ [][Next]_vars

\* The scheduler runs each thread that can run; systemd restarts the service.
Fairness ==
  /\ WF_vars(down = "no" /\ MainStep)
  /\ WF_vars(down = "no" /\ ExecStep)
  /\ \A t \in Senders : WF_vars(down = "no" /\ Shared(t))
  /\ WF_vars(Restart)

FairSpec == Spec /\ Fairness

-----------------------------------------------------------------------------
(* Properties.                                                             *)

\* The main thread spawns an execute thread only when the last one has ended,
\* so that one thread reads the socket (isRunning, 306 against 321).
OneReader == pc[Main] \in {"init", "greet", "again", "emit", "execute"}
               => pc[Exec] = "none" /\ ~isRunning

\* The connect signal is emitted for connections on which the UUID was sent,
\* though a sender may close the socket, or clear client_fd, in between.
AnnouncedGreeted == announced \subseteq greeted

\* Data of a connection is reported after its connect signal.
RxAfterConnect == rx \subseteq announced

\* Subscribers are told of the loss of a connection before they are told of
\* the next, unless an assert has killed the service: every way out of the
\* execute thread notifies before it clears isRunning, and exit() comes after
\* the callback.
LossBeforeConnect == pc[Main] = "emit" => told # "connected" \/ aborted

\* The execute thread waits for the rest of the data of a connection that has
\* gone silent, in a read() without a timeout.
Held(c) == pc[Exec] = "body" /\ current = c /\ link[c] = "lost" /\ AtCut(c)

\* When the connection is lost the subscribers are told of it, or the service
\* ends; a silent loss too, by the timeout of select(), but for one that comes
\* between a header and its data: that holds the execute thread, for good
\* unless the kernel gives up on something that was sent.  socket_client.c
\* promises more ("if nothing received from server for 2 seconds, assume lost
\* connection", 266).  After an assert nobody tells the subscribers: one may
\* wait for a disconnect that never comes.
LossReported ==
  \A c \in Conns :
    (told = "connected" /\ ~aborted /\ current = c /\ link[c] # "up")
      ~> (told = "disconnected" \/ down # "no" \/ Held(c))

\* pub_socket_client.h: the thread quits when the connection to the server is
\* lost, and the user is notified by the callback.
LossEndsOnlyTheThread == down # "exited"

=============================================================================
