------------------------------ MODULE Exchange ------------------------------
(***************************************************************************)
(* The exchange of data between recv_data_on_pi3 on the main unit, which   *)
(* subscribes to the signals of the server service, and send_data_from_pi0 *)
(* on the devices.                                                         *)
(*                                                                         *)
(* recv_data selects one client, requests data of it, writes what comes to *)
(* a file and requests again.  Its callbacks run in the thread of the main *)
(* loop of GLib ("cb"); main() takes messages from a queue ("main").       *)
(*                                                                         *)
(* _specific_UUID is the address of a string that _connected_clients owns, *)
(* so strings are numbered, in the order malloc first returns them, and a  *)
(* freed one is compared like any other: free() may leave its text or      *)
(* overwrite it, and malloc may return it.                                 *)
(***************************************************************************)
EXTENDS ServerService, FiniteSetsExt

CONSTANTS
  Strings,     \* the places malloc may return for a UUID
  NULL,
  Junk,        \* a text that is no UUID
  MayGreet,    \* connections on which the device's program may start again
  MaxHellos    \* bound on these starts

ASSUME ExchangeAssumption ==
  /\ Callers = {"cb", "main"}
  /\ Strings \subseteq Nat
  /\ NULL \notin Strings \cup Devices
  /\ Junk \notin Devices \cup {NULL}
  /\ MayGreet \subseteq Conns
  /\ MaxHellos \in Nat

VARIABLES
  hellos,              \* starts of the programs on the devices so far
  text,                \* what each string holds; NULL before its first use
  _connected_clients,
  _specific_UUID,
  data_queue,
  main,                \* where main() is
  cb,                  \* where the thread of the callbacks is
  lost,                \* the argument of its tcp_clnt_disconnect_callback
  msg                  \* the sender of the message main() processes

programVars == <<text, _connected_clients, _specific_UUID, data_queue, main,
                 cb, lost, msg>>
serverVars  == <<linkVars, serviceVars, busVars>>
vars == <<serverVars, hellos, programVars>>

TypeOK ==
  /\ ServiceTypeOK
  /\ hellos \in 0 .. MaxHellos
  /\ text \in [Strings -> Devices \cup {Junk, NULL}]
  /\ _connected_clients \in Seq(Strings)
  /\ \A i, j \in DOMAIN _connected_clients :
       _connected_clients[i] = _connected_clients[j] => i = j
  /\ _specific_UUID \in Strings \cup {NULL}
  /\ data_queue \in Seq(Devices)
  /\ main \in {"init", "recv", "connect", "disconnect", "idle", "request",
               "ended"}
  /\ cb \in {"idle", "select", "request", "greet", "deselect"}
  /\ lost \in Devices \cup {NoDevice}
  /\ msg \in Devices \cup {NoDevice}

Init ==
  /\ ServiceInit
  /\ hellos = 0
  /\ text = [s \in Strings |-> NULL]
  /\ _connected_clients = <<>>
  /\ _specific_UUID = NULL
  /\ data_queue = <<>>
  /\ main = "init"
  /\ cb = "idle"
  /\ lost = NoDevice
  /\ msg = NoDevice

-----------------------------------------------------------------------------
(* send_data_from_pi0, behind the client service of its device.            *)

GiveData_unasked(c) ==
  /\ DeviceSends(c, 1)
  /\ UNCHANGED <<hellos, programVars>>

\* main() takes a request from its queue and sends DATA_SZ bytes.
GiveData(c) ==
  /\ asked[c] > 0
  /\ DeviceSends(c, 1)
  /\ UNCHANGED <<hellos, programVars>>

\* The program starts (again): the requests it had not answered are lost.
SayHi(c) ==
  /\ c \in MayGreet /\ hellos < MaxHellos
  /\ hellos' = hellos + 1
  /\ DeviceSends(c, asked[c])
  /\ UNCHANGED programVars

-----------------------------------------------------------------------------
(* tcp_dbus_send_msg.                                                      *)

\* abort(): nothing of the program is left.
ProgramEnds ==
  /\ main' = "ended"
  /\ text' = [s \in Strings |-> NULL]
  /\ _connected_clients' = <<>>
  /\ _specific_UUID' = NULL
  /\ data_queue' = <<>>
  /\ cb' = "idle"
  /\ lost' = NoDevice
  /\ msg' = NoDevice
  /\ UNCHANGED <<serverVars, hellos>>

\* A thread calls the service and waits for the answer, first having taken
\* the one to its last call.  With no owner of the name there is an error at
\* once.
tcp_dbus_send_msg(t, what) ==
  /\ Initialized(config)
  /\ call' = [call EXCEPT ![t] = what]
  /\ reply' = [reply EXCEPT ![t] = "none"]
  /\ UNCHANGED <<linkVars, serviceVars, tcp_sbscr, bus, missed>>

\* The last call of this round.
Return(t) ==
  /\ call' = [call EXCEPT ![t] = NoCall]
  /\ reply' = [reply EXCEPT ![t] = "none"]
  /\ UNCHANGED <<linkVars, serviceVars, tcp_sbscr, bus, missed>>

Succeeded(t) == reply[t] = "true"
Failed(t)    == reply[t] = "false"
Answered(t)  == Succeeded(t) \/ Failed(t)

\* mutex_specific_clnt, which the callback thread keeps during its request.
CanLock == cb # "request"

-----------------------------------------------------------------------------
(* The callbacks.                                                          *)

\* SubscriberCallback hands over the next signal.
Hear(name) ==
  /\ cb = "idle" /\ bus # <<>> /\ Head(bus).name = name
  /\ bus' = Tail(bus)
  /\ UNCHANGED <<linkVars, serviceVars, call, reply, tcp_sbscr, missed, hellos,
                 main, msg>>

Allocated == Range(_connected_clients)

\* What malloc may return: what was freed, or the next new place.
MayReturn(s) ==
  /\ s \notin Allocated
  /\ text[s] = NULL => \A u \in Strings : u < s => text[u] # NULL

\* tcp_clnt_connect_callback: the UUID is copied and appended.
OnConnect(s) ==
  /\ Hear("CONNECT")
  /\ MayReturn(s)
  /\ text' = [text EXCEPT ![s] = Head(bus).uuid]
  /\ _connected_clients' = Append(_connected_clients, s)
  /\ cb' = "select"
  /\ UNCHANGED <<_specific_UUID, data_queue, lost>>

\* The first client is selected and asked, if there is no selected one.
SelectClient ==
  /\ cb = "select" /\ _specific_UUID = NULL
  /\ _specific_UUID' = _connected_clients[1]
  /\ tcp_dbus_send_msg("cb", Ask(text[_connected_clients[1]]))
  /\ cb' = "request"
  /\ UNCHANGED <<hellos, text, _connected_clients, data_queue, main, lost, msg>>

\* HI to all.  The result of the request is ignored.
Greet ==
  /\ \/ cb = "select" /\ _specific_UUID # NULL
     \/ cb = "request" /\ Answered("cb")
  /\ tcp_dbus_send_msg("cb", GreetAll)
  /\ cb' = "greet"
  /\ UNCHANGED <<hellos, text, _connected_clients, _specific_UUID, data_queue,
                 main, lost, msg>>

Greeted ==
  /\ cb = "greet" /\ Answered("cb")
  /\ Return("cb")
  /\ cb' = "idle"
  /\ UNCHANGED <<hellos, text, _connected_clients, _specific_UUID, data_queue,
                 main, lost, msg>>

FirstWith(d) == SelectInSeq(_connected_clients, LAMBDA s : text[s] = d)

OnDisconnect_all ==
  /\ Hear("DISCONNECT")
  /\ _connected_clients' =
       SelectSeq(_connected_clients, LAMBDA s : text[s] # Head(bus).uuid)
  /\ cb' = "deselect"
  /\ lost' = Head(bus).uuid
  /\ UNCHANGED <<text, _specific_UUID, data_queue>>

\* tcp_clnt_disconnect_callback: the first string with this text is freed.
OnDisconnect ==
  /\ Hear("DISCONNECT")
  /\ LET d == Head(bus).uuid
         i == FirstWith(d)
     IN  /\ IF i = 0 THEN UNCHANGED <<_connected_clients, text>>
            ELSE /\ _connected_clients' = RemoveAt(_connected_clients, i)
                 /\ \E left \in {d, Junk} :
                      text' = [text EXCEPT ![_connected_clients[i]] = left]
  /\ cb' = "deselect"
  /\ lost' = Head(bus).uuid
  /\ UNCHANGED <<_specific_UUID, data_queue>>

\* The selected client is compared with the lost one, by its text.
Deselect ==
  /\ cb = "deselect"
  /\ _specific_UUID' = IF _specific_UUID # NULL /\ text[_specific_UUID] = lost
                       THEN NULL ELSE _specific_UUID
  /\ cb' = "idle"
  /\ lost' = NoDevice
  /\ UNCHANGED <<serverVars, hellos, text, _connected_clients, data_queue, main,
                 msg>>

OnData_one_place ==
  /\ Hear("RECV")
  /\ data_queue' = IF data_queue # <<>> THEN data_queue
                   ELSE <<Head(bus).uuid>>
  /\ UNCHANGED <<text, _connected_clients, _specific_UUID, cb, lost>>

\* tcp_rx_data_callback
OnData ==
  /\ Hear("RECV")
  /\ data_queue' = Append(data_queue, Head(bus).uuid)
  /\ UNCHANGED <<text, _connected_clients, _specific_UUID, cb, lost>>

Callback ==
  \/ \E s \in Strings : OnConnect(s)
  \/ SelectClient \/ Greet \/ Greeted
  \/ OnDisconnect \/ Deselect \/ OnData

-----------------------------------------------------------------------------
(* main().                                                                 *)

callbackFrame == <<hellos, text, _connected_clients, _specific_UUID, cb, lost>>

\* tcp_dbus_client_init reads the version of the service, and is repeated
\* until the DBUS loop answers.
InitClient ==
  /\ main = "init" /\ LoopRuns
  /\ main' = "recv"
  /\ UNCHANGED <<serverVars, callbackFrame, data_queue, msg>>

Subscribe(at, signal, next) ==
  /\ main = at
  /\ IF CanSubscribe(tcp_sbscr, signal)
     THEN /\ tcp_sbscr' = tcp_dbus_client_Subscribe2Recv(tcp_sbscr, signal)
          /\ main' = next
          /\ UNCHANGED <<linkVars, serviceVars, call, reply, bus, missed,
                         callbackFrame, data_queue, msg>>
     ELSE ProgramEnds

SubscribeAll ==
  \/ Subscribe("recv", "RECV", "connect")
  \/ Subscribe("connect", "CONNECT", "disconnect")
  \/ Subscribe("disconnect", "DISCONNECT", "idle")

\* The sender is the selected client.  The text is compared.
FromSelected(d) == _specific_UUID # NULL /\ text[_specific_UUID] = d

\* process_recv_data: what the selected client sends, data (which goes to the
\* file) as well as its greeting, is answered with a request.
Process ==
  /\ main = "idle" /\ data_queue # <<>> /\ CanLock
  /\ FromSelected(Head(data_queue))
  /\ msg' = Head(data_queue)
  /\ data_queue' = Tail(data_queue)
  /\ tcp_dbus_send_msg("main", Ask(msg'))
  /\ main' = "request"
  /\ UNCHANGED callbackFrame

\* A message of another client is printed.
Ignore ==
  /\ main = "idle" /\ data_queue # <<>> /\ CanLock
  /\ ~FromSelected(Head(data_queue))
  /\ data_queue' = Tail(data_queue)
  /\ UNCHANGED <<serverVars, callbackFrame, main, msg>>

Retry_always ==
  /\ main = "request" /\ Answered("main")
  /\ CanLock /\ _specific_UUID # NULL
  /\ tcp_dbus_send_msg("main", Ask(msg))
  /\ UNCHANGED <<callbackFrame, data_queue, main, msg>>

\* The request has failed, and some client is selected.
Retry ==
  /\ main = "request" /\ Failed("main")
  /\ CanLock /\ _specific_UUID # NULL
  /\ tcp_dbus_send_msg("main", Ask(msg))
  /\ UNCHANGED <<callbackFrame, data_queue, main, msg>>

Done ==
  /\ main = "request"
  /\ Succeeded("main") \/ (Failed("main") /\ CanLock /\ _specific_UUID = NULL)
  /\ Return("main")
  /\ main' = "idle"
  /\ msg' = NoDevice
  /\ UNCHANGED <<callbackFrame, data_queue>>

MainLoop == Process \/ Ignore \/ Retry \/ Done

-----------------------------------------------------------------------------
\* g_assert_no_error: no answer within 1000 ms, or the service has ended before
\* its answer, or before the call.
CallFails ==
  /\ \/ \E t \in Callers : CallPending(t) \/ reply[t] = "error"
     \/ /\ ~Initialized(config)
        /\ \/ cb = "select"
           \/ cb = "request" /\ Answered("cb")
           \/ main = "request" /\ Failed("main") /\ _specific_UUID # NULL
           \/ /\ main = "idle" /\ data_queue # <<>>
              /\ FromSelected(Head(data_queue))
  /\ ProgramEnds

-----------------------------------------------------------------------------
\* The behaviours end with the program.
Next ==
  /\ main # "ended"
  /\ \/ ServiceNext /\ UNCHANGED <<hellos, programVars>>
     \/ \E c \in Conns : GiveData(c) \/ SayHi(c)
     \/ Callback
     \/ InitClient \/ SubscribeAll \/ MainLoop
     \/ CallFails

Spec == Init /\ [][Next]_vars

\* The threads run, and the pings reveal a lost device.  Nothing is assumed of
\* the devices.
Fairness ==
  /\ WF_vars(ExecStep /\ UNCHANGED <<hellos, programVars>>)
  /\ WF_vars(LoopStep /\ UNCHANGED <<hellos, programVars>>)
  /\ WF_vars(Callback)
  /\ WF_vars(SubscribeAll \/ MainLoop)
  /\ WF_vars((\E c \in Conns : Detect(c)) /\ UNCHANGED <<hellos, programVars>>)

FairSpec == Spec /\ Fairness

-----------------------------------------------------------------------------
(* Properties.                                                             *)

Count(s, x) == Cardinality({i \in DOMAIN s : s[i] = x})

\* Signals of this kind about d that the callbacks have not heard yet.
Pending(name, d) ==
  Count(bus, Signal(name, d))
  + (IF exec.signal = Signal(name, d) THEN 1 ELSE 0)
  + (IF name = "DISCONNECT" /\ loop.tell = d THEN 1 ELSE 0)

Entries(d) ==
  Cardinality({i \in DOMAIN _connected_clients : text[_connected_clients[i]] = d})

Sessions(d) ==
  Cardinality({c \in Conns : session[c] = "present" /\ device[c] = d})

\* While the program runs, and of a device of which it has missed nothing: the
\* table of the service, the connections, and the program's list differ by the
\* signals under way only, also when the device is connected twice, and though
\* two threads of the service remove clients and emit signals.  A second notice
\* of one loss may take an entry too many from either, and is all that may; a
\* connection that was closed without a notice stays in both for ever.
ListsAgree ==
  main # "ended" =>
    \A d \in Devices \ missed :
      /\ svc # "down" => Count(clients, d) \in Sessions(d) - again[d] .. Sessions(d)
      /\ Entries(d) + Pending("CONNECT", d) - Pending("DISCONNECT", d)
           \in Sessions(d) - again[d] .. Sessions(d)

\* A disconnect signal reaches the program after the connect signal it takes
\* back, so that its callback finds a string to free, unless it is the second
\* notice of one loss.
LossesFound ==
  main # "ended" =>
    \A d \in Devices \ missed : \A i \in DOMAIN bus :
      LET heard == SubSeq(bus, 1, i)
      IN  Count(heard, Signal("DISCONNECT", d))
            <= Entries(d) + Count(heard, Signal("CONNECT", d)) + again[d]

\* A request of thread t that has not gone out.
Unsent(t) == call[t].kind = "request" /\ reply[t] \notin {"true", "error"}

\* Requests, answers and greetings under way, and what can start a new round of
\* them: connections, and starts of the programs on the devices.
UnderWay ==
  MapThenSumSet(LAMBDA c : asked[c] + arrived[c], Conns)
  + (IF exec.signal.name = "CONNECT" THEN 1 ELSE 0)
  + Cardinality({i \in DOMAIN bus : bus[i].name \in {"RECV", "CONNECT"}})
  + Len(data_queue)
  + (IF cb = "select" THEN 1 ELSE 0)
  + Cardinality({t \in Callers : Unsent(t)})

ToCome ==
  Cardinality({c \in Conns : session[c] = "absent"}) + MaxHellos - hellos

\* No step multiplies requests, retries and reconnections included, so that
\* data_queue, which has no limit, stays short.
FlowControlled == UnderWay + ToCome <= Cardinality(Conns) + MaxHellos

\* The device of c is connected and the selected one, and its losses were all
\* heard.
Chosen(c) ==
  /\ session[c] = "present" /\ c \in client_infos /\ peer[c] = "up"
  /\ svc = "run" /\ main # "ended"
  /\ _specific_UUID # NULL /\ text[_specific_UUID] = device[c]
  /\ device[c] \notin missed

\* main() repeats a request to another device.
Retries(c) == main = "request" /\ msg # device[c]

\* What the selected device has sent leads to the next request to it, for as
\* long as it stays connected and selected; unless main() repeats a request to
\* another device, which it may do for ever.
GoesOn ==
  (\E c \in Conns : arrived[c] > 0 /\ Chosen(c) /\ ~Retries(c))
    ~> (\A c \in Conns : Chosen(c) => asked[c] > 0)

=============================================================================
