------------------------- MODULE SocketClientProofs -------------------------
(***************************************************************************)
(* Theorems about SocketClient, for any number of connections and sender   *)
(* threads.                                                                *)
(***************************************************************************)
EXTENDS SocketClient, SequenceTheorems, TLAPS

-----------------------------------------------------------------------------
(* The inductive invariant.                                                *)

Leaving == {"close", "clear", "notify"}

\* Each thread keeps to its own program, and close_and_notify returns to it.
PhaseOK ==
  /\ pc[Main] \in {"init", "greet", "again", "emit", "execute", "poll"}
                    \cup Leaving
  /\ pc[Main] \in Leaving => back[Main] \in {"again", "init"}
  /\ pc[Exec] \in {"none", "start", "select", "recv", "body", "send", "stop",
                   "exit"} \cup Leaving
  /\ pc[Exec] \in Leaving => back[Exec] \in {"select", "stop", "exit"}
  /\ \A t \in Senders :
       /\ pc[t] \in {"idle", "send"} \cup Leaving
       /\ pc[t] \in Leaving => back[t] = "idle"

\* isRunning tells the main thread the truth.
RunningOK ==
  /\ isRunning <=> pc[Exec] # "none"
  /\ isRunning => pc[Main] = "poll"

\* The socket, if any thread has left it open, is that of the last connection;
\* the main thread gets past the UUID only on it.
CurrentOK ==
  /\ file # NoConn => file = current
  /\ pc[Main] = "emit" => current \in greeted
  /\ pc[Main] \in {"execute", "poll"} => current \in announced

\* The subscribers believe in a connection only while the execute thread has
\* still to notify them, or since an assert ended the service.
ToldOK ==
  /\ told = "connected" /\ ~aborted =>
       \/ pc[Main] = "execute"
       \/ pc[Main] = "poll" /\ pc[Exec] \notin {"none", "stop", "exit"}
  /\ down = "aborted" => aborted
  /\ down = "exited" => pc[Exec] = "exit"

CInv == /\ TypeOK /\ PhaseOK /\ RunningOK /\ CurrentOK
        /\ AnnouncedGreeted /\ RxAfterConnect /\ ToldOK

-----------------------------------------------------------------------------
(* Lemmas.                                                                 *)

\* The main thread, the execute thread and the senders are different threads.
LEMMA ThreadFacts ==
  /\ Main \in Threads /\ Exec \in Threads /\ Main # Exec
  /\ Main \notin Senders /\ Exec \notin Senders
  /\ \A t \in Threads : t = Main \/ t = Exec \/ t \in Senders
  /\ \A t \in Senders : t \in Threads
BY ClientAssumption DEF Threads

\* Unread messages: adding one at the end and taking the first.
LEMMA InboxFacts ==
  ASSUME NEW S, NEW s \in Seq(S), NEW m \in S
  PROVE  /\ Append(s, m) \in Seq(S)
         /\ s # <<>> => Tail(s) \in Seq(S)
         /\ <<>> \in Seq(S)
OBVIOUS

-----------------------------------------------------------------------------
(* Each action preserves the invariant.                                    *)

\* A message of the server arrives.
LEMMA CInvServerSends ==
  ASSUME NEW c \in Conns, NEW m \in Received, CInv,
         ServerSends(c, m)
  PROVE  CInv'
<1> USE ThreadFacts DEF CInv, netVars, fdVars, runVars, toldVars, processVars,
     Goto
<1>1. TypeOK'
  BY InboxFacts, ClientAssumption DEF ServerSends, TypeOK, PhaseOK, Leaving
<1>2. PhaseOK'
  BY DEF ServerSends, TypeOK, PhaseOK, Leaving
<1>3. RunningOK'
  BY DEF ServerSends, TypeOK, PhaseOK, RunningOK, Leaving
<1>4. CurrentOK'
  BY DEF ServerSends, TypeOK, PhaseOK, RunningOK, CurrentOK, AnnouncedGreeted,
     Leaving
<1>5. AnnouncedGreeted' /\ RxAfterConnect'
  BY DEF ServerSends, TypeOK, PhaseOK, RunningOK, CurrentOK, AnnouncedGreeted,
     RxAfterConnect, Leaving
<1>6. ToldOK'
  BY DEF ServerSends, TypeOK, PhaseOK, RunningOK, ToldOK, Leaving
<1> QED
  BY <1>1, <1>2, <1>3, <1>4, <1>5, <1>6

\* The connection is lost.
LEMMA CInvLose ==
  ASSUME NEW c \in Conns, NEW how \in {"lost", "closed"}, CInv, Lose(c, how)
  PROVE  CInv'
<1> USE ThreadFacts DEF CInv, netVars, fdVars, runVars, toldVars, processVars,
     Goto
<1>1. TypeOK'
  BY InboxFacts, ClientAssumption DEF Lose, TypeOK, PhaseOK, Leaving
<1>2. PhaseOK'
  BY DEF Lose, TypeOK, PhaseOK, Leaving
<1>3. RunningOK'
  BY DEF Lose, TypeOK, PhaseOK, RunningOK, Leaving
<1>4. CurrentOK'
  BY DEF Lose, TypeOK, PhaseOK, RunningOK, CurrentOK, AnnouncedGreeted,
     Leaving
<1>5. AnnouncedGreeted' /\ RxAfterConnect'
  BY DEF Lose, TypeOK, PhaseOK, RunningOK, CurrentOK, AnnouncedGreeted,
     RxAfterConnect, Leaving
<1>6. ToldOK'
  BY DEF Lose, TypeOK, PhaseOK, RunningOK, ToldOK, Leaving
<1> QED
  BY <1>1, <1>2, <1>3, <1>4, <1>5, <1>6

\* The rest of some data comes.
LEMMA CInvDataCome ==
  ASSUME NEW c \in Conns, CInv, DataCome(c)
  PROVE  CInv'
<1> USE ThreadFacts DEF CInv, netVars, fdVars, runVars, toldVars, processVars,
     Goto
<1>1. TypeOK'
  <2>1. PICK k : k = Len(inbox[c])
    OBVIOUS
  <2>2. inbox[c] \in Seq(Received) /\ "data" \in Received /\ inbox[c] # <<>>
    BY DEF TypeOK, Received, Whole, DataCome, AtCut
  <2>3. [inbox[c] EXCEPT ![k] = "data"] \in Seq(Received)
    <3>1. k \in 1 .. Len(inbox[c])
      BY <2>1, <2>2, EmptySeq, LenProperties
    <3> QED
      BY <2>2, <3>1, ExceptSeq
  <2>4. inbox' = [inbox EXCEPT ![c] = [inbox[c] EXCEPT ![k] = "data"]]
    BY <2>1 DEF DataCome
  <2>5. inbox' \in [Conns -> Seq(Received)]
    BY <2>3, <2>4 DEF TypeOK
  <2> QED
    BY <2>5 DEF DataCome, TypeOK
<1>2. PhaseOK'
  BY DEF DataCome, AtCut, TypeOK, PhaseOK, Leaving
<1>3. RunningOK'
  BY DEF DataCome, AtCut, TypeOK, PhaseOK, RunningOK, Leaving
<1>4. CurrentOK'
  BY DEF DataCome, AtCut, TypeOK, PhaseOK, RunningOK, CurrentOK,
     AnnouncedGreeted, Leaving
<1>5. AnnouncedGreeted' /\ RxAfterConnect'
  BY DEF DataCome, AtCut, TypeOK, PhaseOK, RunningOK, CurrentOK,
     AnnouncedGreeted, RxAfterConnect, Leaving
<1>6. ToldOK'
  BY DEF DataCome, AtCut, TypeOK, PhaseOK, RunningOK, ToldOK, Leaving
<1> QED
  BY <1>1, <1>2, <1>3, <1>4, <1>5, <1>6

\* The kernel gives up.
LEMMA CInvGiveUp ==
  ASSUME NEW c \in Conns, CInv, GiveUp(c)
  PROVE  CInv'
<1> USE ThreadFacts DEF CInv, netVars, fdVars, runVars, toldVars, processVars,
     Goto
<1>1. TypeOK'
  BY InboxFacts, ClientAssumption DEF GiveUp, TypeOK, PhaseOK, Leaving
<1>2. PhaseOK'
  BY DEF GiveUp, TypeOK, PhaseOK, Leaving
<1>3. RunningOK'
  BY DEF GiveUp, TypeOK, PhaseOK, RunningOK, Leaving
<1>4. CurrentOK'
  BY DEF GiveUp, TypeOK, PhaseOK, RunningOK, CurrentOK,
     AnnouncedGreeted, Leaving
<1>5. AnnouncedGreeted' /\ RxAfterConnect'
  BY DEF GiveUp, TypeOK, PhaseOK, RunningOK, CurrentOK,
     AnnouncedGreeted, RxAfterConnect, Leaving
<1>6. ToldOK'
  BY DEF GiveUp, TypeOK, PhaseOK, RunningOK, ToldOK, Leaving
<1> QED
  BY <1>1, <1>2, <1>3, <1>4, <1>5, <1>6

\* close(client_fd).
LEMMA CInvCloseFd ==
  ASSUME NEW t \in Threads, CInv, down = "no", CloseFd(t)
  PROVE  CInv'
<1> USE ThreadFacts DEF CInv, netVars, fdVars, runVars, toldVars, processVars,
     Goto
<1>1. TypeOK'
  <2>1. CASE client_fd = -1 \/ file = NoConn
    BY <2>1 DEF CloseFd, TypeOK
  <2>2. CASE ~ (client_fd = -1 \/ file = NoConn)
    <3>1. /\ file \in Conns /\ file' = NoConn
          /\ \/ UNCHANGED <<link, inbox>>
             \/ /\ link' = [link EXCEPT ![file] = "closed"]
                /\ inbox' = [inbox EXCEPT ![file] = <<>>]
          /\ pc' = [pc EXCEPT ![t] = "clear"]
      BY <2>2 DEF CloseFd, Released, TypeOK
    <3>2. link' \in [Conns -> {"unborn", "up", "lost", "closed"}]
      BY <3>1 DEF TypeOK
    <3>3. inbox' \in [Conns -> Seq(Received)]
      <4>1. <<>> \in Seq(Received) /\ inbox \in [Conns -> Seq(Received)]
        BY DEF TypeOK
      <4> QED
        BY <3>1, <4>1
    <3> QED
      BY <3>1, <3>2, <3>3 DEF CloseFd, TypeOK
  <2> QED
    BY <2>1, <2>2
<1>2. PhaseOK'
  BY DEF CloseFd, TypeOK, PhaseOK, Leaving
<1>3. RunningOK'
  BY DEF CloseFd, TypeOK, PhaseOK, RunningOK, Leaving
<1>4. CurrentOK'
  BY DEF CloseFd, TypeOK, PhaseOK, RunningOK, CurrentOK, AnnouncedGreeted,
     Leaving
<1>5. AnnouncedGreeted' /\ RxAfterConnect'
  BY DEF CloseFd, TypeOK, PhaseOK, RunningOK, CurrentOK, AnnouncedGreeted,
     RxAfterConnect, Leaving
<1>6. ToldOK'
  BY DEF CloseFd, TypeOK, PhaseOK, RunningOK, ToldOK, Leaving
<1> QED
  BY <1>1, <1>2, <1>3, <1>4, <1>5, <1>6

\* client_fd = -1.
LEMMA CInvClearFd ==
  ASSUME NEW t \in Threads, CInv, down = "no", ClearFd(t)
  PROVE  CInv'
<1> USE ThreadFacts DEF CInv, netVars, fdVars, runVars, toldVars, processVars,
     Goto
<1>1. TypeOK'
  BY InboxFacts, ClientAssumption DEF ClearFd, TypeOK, PhaseOK, Leaving
<1>2. PhaseOK'
  BY DEF ClearFd, TypeOK, PhaseOK, Leaving
<1>3. RunningOK'
  BY DEF ClearFd, TypeOK, PhaseOK, RunningOK, Leaving
<1>4. CurrentOK'
  BY DEF ClearFd, TypeOK, PhaseOK, RunningOK, CurrentOK, AnnouncedGreeted,
     Leaving
<1>5. AnnouncedGreeted' /\ RxAfterConnect'
  BY DEF ClearFd, TypeOK, PhaseOK, RunningOK, CurrentOK, AnnouncedGreeted,
     RxAfterConnect, Leaving
<1>6. ToldOK'
  BY DEF ClearFd, TypeOK, PhaseOK, RunningOK, ToldOK, Leaving
<1> QED
  BY <1>1, <1>2, <1>3, <1>4, <1>5, <1>6

\* The disconnect signal.
LEMMA CInvNotify ==
  ASSUME NEW t \in Threads, CInv, down = "no", Notify(t)
  PROVE  CInv'
<1> USE ThreadFacts DEF CInv, netVars, fdVars, runVars, toldVars, processVars,
     Goto
<1>1. TypeOK'
  BY InboxFacts, ClientAssumption DEF Notify, TypeOK, PhaseOK, Leaving
<1>2. PhaseOK'
  BY DEF Notify, TypeOK, PhaseOK, Leaving
<1>3. RunningOK'
  BY DEF Notify, TypeOK, PhaseOK, RunningOK, Leaving
<1>4. CurrentOK'
  BY DEF Notify, TypeOK, PhaseOK, RunningOK, CurrentOK, AnnouncedGreeted,
     Leaving
<1>5. AnnouncedGreeted' /\ RxAfterConnect'
  BY DEF Notify, TypeOK, PhaseOK, RunningOK, CurrentOK, AnnouncedGreeted,
     RxAfterConnect, Leaving
<1>6. ToldOK'
  BY DEF Notify, TypeOK, PhaseOK, RunningOK, ToldOK, Leaving
<1> QED
  BY <1>1, <1>2, <1>3, <1>4, <1>5, <1>6

\* A send succeeds.
LEMMA CInvSendOk ==
  ASSUME NEW t \in Threads, CInv, down = "no", SendOk(t)
  PROVE  CInv'
<1> USE ThreadFacts DEF CInv, netVars, fdVars, runVars, toldVars, processVars,
     Goto
<1>1. TypeOK'
  BY InboxFacts, ClientAssumption DEF SendOk, Sending, AfterSend, TypeOK,
     PhaseOK, Leaving
<1>2. PhaseOK'
  BY DEF SendOk, Sending, AfterSend, TypeOK, PhaseOK, Leaving
<1>3. RunningOK'
  BY DEF SendOk, Sending, AfterSend, TypeOK, PhaseOK, RunningOK, Leaving
<1>4. CurrentOK'
  BY DEF SendOk, Sending, AfterSend, TypeOK, PhaseOK, RunningOK, CurrentOK,
     AnnouncedGreeted,
     Leaving
<1>5. AnnouncedGreeted' /\ RxAfterConnect'
  BY DEF SendOk, Sending, AfterSend, TypeOK, PhaseOK, RunningOK, CurrentOK,
     AnnouncedGreeted,
     RxAfterConnect, Leaving
<1>6. ToldOK'
  BY DEF SendOk, Sending, AfterSend, TypeOK, PhaseOK, RunningOK, ToldOK,
     Leaving
<1> QED
  BY <1>1, <1>2, <1>3, <1>4, <1>5, <1>6

\* A send fails.
LEMMA CInvSendFails ==
  ASSUME NEW t \in Threads, CInv, down = "no", SendFails(t)
  PROVE  CInv'
<1> USE ThreadFacts DEF CInv, netVars, fdVars, runVars, toldVars, processVars,
     Goto
<1>1. TypeOK'
  BY InboxFacts, ClientAssumption DEF SendFails, Sending, AfterFail,
     CloseAndNotify, TypeOK, PhaseOK, Leaving
<1>2. PhaseOK'
  BY DEF SendFails, Sending, AfterFail, CloseAndNotify, TypeOK, PhaseOK,
     Leaving
<1>3. RunningOK'
  BY DEF SendFails, Sending, AfterFail, CloseAndNotify, TypeOK, PhaseOK,
     RunningOK, Leaving
<1>4. CurrentOK'
  BY DEF SendFails, Sending, AfterFail, CloseAndNotify, TypeOK, PhaseOK,
     RunningOK, CurrentOK, AnnouncedGreeted,
     Leaving
<1>5. AnnouncedGreeted' /\ RxAfterConnect'
  BY DEF SendFails, Sending, AfterFail, CloseAndNotify, TypeOK, PhaseOK,
     RunningOK, CurrentOK, AnnouncedGreeted,
     RxAfterConnect, Leaving
<1>6. ToldOK'
  BY DEF SendFails, Sending, AfterFail, CloseAndNotify, TypeOK, PhaseOK,
     RunningOK, ToldOK, Leaving
<1> QED
  BY <1>1, <1>2, <1>3, <1>4, <1>5, <1>6

\* A send with no descriptor ends the process.
LEMMA CInvSendAborts ==
  ASSUME NEW t \in Threads, CInv, down = "no", SendAborts(t)
  PROVE  CInv'
<1> USE ThreadFacts DEF CInv, netVars, fdVars, runVars, toldVars, processVars,
     Goto
<1>1. TypeOK'
  BY InboxFacts, ClientAssumption DEF SendAborts, Sending, Abort, TypeOK,
     PhaseOK, Leaving
<1>2. PhaseOK'
  BY DEF SendAborts, Sending, Abort, TypeOK, PhaseOK, Leaving
<1>3. RunningOK'
  BY DEF SendAborts, Sending, Abort, TypeOK, PhaseOK, RunningOK, Leaving
<1>4. CurrentOK'
  BY DEF SendAborts, Sending, Abort, TypeOK, PhaseOK, RunningOK, CurrentOK,
     AnnouncedGreeted,
     Leaving
<1>5. AnnouncedGreeted' /\ RxAfterConnect'
  BY DEF SendAborts, Sending, Abort, TypeOK, PhaseOK, RunningOK, CurrentOK,
     AnnouncedGreeted,
     RxAfterConnect, Leaving
<1>6. ToldOK'
  BY DEF SendAborts, Sending, Abort, TypeOK, PhaseOK, RunningOK, ToldOK,
     Leaving
<1> QED
  BY <1>1, <1>2, <1>3, <1>4, <1>5, <1>6

\* A new connection.
LEMMA CInvConnect ==
  ASSUME NEW c \in Conns, CInv, down = "no", Connect(c)
  PROVE  CInv'
<1> USE ThreadFacts DEF CInv, netVars, fdVars, runVars, toldVars, processVars,
     Goto
<1>1. TypeOK'
  BY InboxFacts, ClientAssumption DEF Connect, TypeOK, PhaseOK, Leaving
<1>2. PhaseOK'
  BY DEF Connect, TypeOK, PhaseOK, Leaving
<1>3. RunningOK'
  BY DEF Connect, TypeOK, PhaseOK, RunningOK, Leaving
<1>4. CurrentOK'
  BY DEF Connect, TypeOK, PhaseOK, RunningOK, CurrentOK, AnnouncedGreeted,
     Leaving
<1>5. AnnouncedGreeted' /\ RxAfterConnect'
  BY DEF Connect, TypeOK, PhaseOK, RunningOK, CurrentOK, AnnouncedGreeted,
     RxAfterConnect, Leaving
<1>6. ToldOK'
  BY DEF Connect, TypeOK, PhaseOK, RunningOK, ToldOK, Leaving
<1> QED
  BY <1>1, <1>2, <1>3, <1>4, <1>5, <1>6

\* The main thread gives up a connection it could not identify on.
LEMMA CInvCloseAgain ==
  ASSUME CInv, down = "no", CloseAgain
  PROVE  CInv'
<1> USE ThreadFacts DEF CInv, netVars, fdVars, runVars, toldVars, processVars,
     Goto
<1>1. TypeOK'
  BY InboxFacts, ClientAssumption DEF CloseAgain, CloseAndNotify, TypeOK,
     PhaseOK, Leaving
<1>2. PhaseOK'
  BY DEF CloseAgain, CloseAndNotify, TypeOK, PhaseOK, Leaving
<1>3. RunningOK'
  BY DEF CloseAgain, CloseAndNotify, TypeOK, PhaseOK, RunningOK, Leaving
<1>4. CurrentOK'
  BY DEF CloseAgain, CloseAndNotify, TypeOK, PhaseOK, RunningOK, CurrentOK,
     AnnouncedGreeted,
     Leaving
<1>5. AnnouncedGreeted' /\ RxAfterConnect'
  BY DEF CloseAgain, CloseAndNotify, TypeOK, PhaseOK, RunningOK, CurrentOK,
     AnnouncedGreeted,
     RxAfterConnect, Leaving
<1>6. ToldOK'
  BY DEF CloseAgain, CloseAndNotify, TypeOK, PhaseOK, RunningOK, ToldOK,
     Leaving
<1> QED
  BY <1>1, <1>2, <1>3, <1>4, <1>5, <1>6

\* The connect signal.
LEMMA CInvEmitConnect ==
  ASSUME CInv, down = "no", EmitConnect
  PROVE  CInv'
<1> USE ThreadFacts DEF CInv, netVars, fdVars, runVars, toldVars, processVars,
     Goto
<1>1. TypeOK'
  BY DEF EmitConnect, TypeOK, PhaseOK, CurrentOK
<1>2. PhaseOK'
  BY DEF EmitConnect, TypeOK, PhaseOK, Leaving
<1>3. RunningOK'
  BY DEF EmitConnect, TypeOK, PhaseOK, RunningOK, Leaving
<1>4. CurrentOK'
  BY DEF EmitConnect, TypeOK, PhaseOK, RunningOK, CurrentOK, AnnouncedGreeted,
     Leaving
<1>5. AnnouncedGreeted' /\ RxAfterConnect'
  BY DEF EmitConnect, TypeOK, PhaseOK, RunningOK, CurrentOK, AnnouncedGreeted,
     RxAfterConnect, Leaving
<1>6. ToldOK'
  BY DEF EmitConnect, TypeOK, PhaseOK, RunningOK, ToldOK, Leaving
<1> QED
  BY <1>1, <1>2, <1>3, <1>4, <1>5, <1>6

\* The execute thread is spawned.
LEMMA CInvExecute ==
  ASSUME CInv, down = "no", Execute
  PROVE  CInv'
<1> USE ThreadFacts DEF CInv, netVars, fdVars, runVars, toldVars, processVars,
     Goto
<1>1. TypeOK'
  BY InboxFacts, ClientAssumption DEF Execute, TypeOK, PhaseOK, Leaving
<1>2. PhaseOK'
  BY DEF Execute, TypeOK, PhaseOK, Leaving
<1>3. RunningOK'
  BY DEF Execute, TypeOK, PhaseOK, RunningOK, Leaving
<1>4. CurrentOK'
  BY DEF Execute, TypeOK, PhaseOK, RunningOK, CurrentOK, AnnouncedGreeted,
     Leaving
<1>5. AnnouncedGreeted' /\ RxAfterConnect'
  BY DEF Execute, TypeOK, PhaseOK, RunningOK, CurrentOK, AnnouncedGreeted,
     RxAfterConnect, Leaving
<1>6. ToldOK'
  BY DEF Execute, TypeOK, PhaseOK, RunningOK, ToldOK, Leaving
<1> QED
  BY <1>1, <1>2, <1>3, <1>4, <1>5, <1>6

\* The main thread sees that the execute thread has ended.
LEMMA CInvPoll ==
  ASSUME CInv, down = "no", Poll
  PROVE  CInv'
<1> USE ThreadFacts DEF CInv, netVars, fdVars, runVars, toldVars, processVars,
     Goto
<1>1. TypeOK'
  BY InboxFacts, ClientAssumption DEF Poll, TypeOK, PhaseOK, Leaving
<1>2. PhaseOK'
  BY DEF Poll, TypeOK, PhaseOK, Leaving
<1>3. RunningOK'
  BY DEF Poll, TypeOK, PhaseOK, RunningOK, Leaving
<1>4. CurrentOK'
  BY DEF Poll, TypeOK, PhaseOK, RunningOK, CurrentOK, AnnouncedGreeted,
     Leaving
<1>5. AnnouncedGreeted' /\ RxAfterConnect'
  BY DEF Poll, TypeOK, PhaseOK, RunningOK, CurrentOK, AnnouncedGreeted,
     RxAfterConnect, Leaving
<1>6. ToldOK'
  BY DEF Poll, TypeOK, PhaseOK, RunningOK, ToldOK, Leaving
<1> QED
  BY <1>1, <1>2, <1>3, <1>4, <1>5, <1>6

\* The execute thread begins.
LEMMA CInvStartExec ==
  ASSUME CInv, down = "no", StartExec
  PROVE  CInv'
<1> USE ThreadFacts DEF CInv, netVars, fdVars, runVars, toldVars, processVars,
     Goto
<1>1. TypeOK'
  BY InboxFacts, ClientAssumption DEF StartExec, TypeOK, PhaseOK, Leaving
<1>2. PhaseOK'
  BY DEF StartExec, TypeOK, PhaseOK, Leaving
<1>3. RunningOK'
  BY DEF StartExec, TypeOK, PhaseOK, RunningOK, Leaving
<1>4. CurrentOK'
  BY DEF StartExec, TypeOK, PhaseOK, RunningOK, CurrentOK, AnnouncedGreeted,
     Leaving
<1>5. AnnouncedGreeted' /\ RxAfterConnect'
  BY DEF StartExec, TypeOK, PhaseOK, RunningOK, CurrentOK, AnnouncedGreeted,
     RxAfterConnect, Leaving
<1>6. ToldOK'
  BY DEF StartExec, TypeOK, PhaseOK, RunningOK, ToldOK, Leaving
<1> QED
  BY <1>1, <1>2, <1>3, <1>4, <1>5, <1>6

\* The execute thread waits for a message.
LEMMA CInvSelect ==
  ASSUME CInv, down = "no", SelectReady \/ SelectError \/ SelectTimeout
  PROVE  CInv'
<1> USE ThreadFacts DEF CInv, netVars, fdVars, runVars, toldVars, processVars,
     Goto
<1>1. TypeOK'
  <2>1. ASSUME NEW label \in {"exit", "stop"}, CloseAndNotify(Exec, label),
               UNCHANGED <<netVars, fdVars, runVars, toldVars>>
        PROVE  TypeOK'
    BY <2>1 DEF CloseAndNotify, TypeOK
  <2>2. CASE Goto(Exec, "recv") /\ UNCHANGED back
    BY <2>2 DEF SelectReady, SelectError, SelectTimeout, TypeOK
  <2> QED
    BY <2>1, <2>2 DEF SelectReady, SelectError, SelectTimeout
<1>2. PhaseOK'
  BY DEF SelectReady, SelectError, SelectTimeout, CloseAndNotify, TypeOK,
     PhaseOK, Leaving
<1>3. RunningOK'
  BY DEF SelectReady, SelectError, SelectTimeout, CloseAndNotify, TypeOK,
     PhaseOK, RunningOK, Leaving
<1>4. CurrentOK'
  BY DEF SelectReady, SelectError, SelectTimeout, CloseAndNotify, TypeOK,
     PhaseOK, RunningOK, CurrentOK, AnnouncedGreeted,
     Leaving
<1>5. AnnouncedGreeted' /\ RxAfterConnect'
  BY DEF SelectReady, SelectError, SelectTimeout, CloseAndNotify, TypeOK,
     PhaseOK, RunningOK, CurrentOK, AnnouncedGreeted,
     RxAfterConnect, Leaving
<1>6. ToldOK'
  BY DEF SelectReady, SelectError, SelectTimeout, CloseAndNotify, TypeOK,
     PhaseOK, RunningOK, ToldOK, Leaving
<1> QED
  BY <1>1, <1>2, <1>3, <1>4, <1>5, <1>6

\* The execute thread finds no connection.
LEMMA CInvRecvEnds ==
  ASSUME CInv, down = "no", RecvDisconnect \/ RecvAborts
  PROVE  CInv'
<1> USE ThreadFacts DEF CInv, netVars, fdVars, runVars, toldVars, processVars,
     Goto
<1>1. TypeOK'
  BY InboxFacts, ClientAssumption DEF RecvDisconnect, RecvAborts,
     CloseAndNotify, Abort, TypeOK, PhaseOK, Leaving
<1>2. PhaseOK'
  BY DEF RecvDisconnect, RecvAborts, CloseAndNotify, Abort, TypeOK, PhaseOK,
     Leaving
<1>3. RunningOK'
  BY DEF RecvDisconnect, RecvAborts, CloseAndNotify, Abort, TypeOK, PhaseOK,
     RunningOK, Leaving
<1>4. CurrentOK'
  BY DEF RecvDisconnect, RecvAborts, CloseAndNotify, Abort, TypeOK, PhaseOK,
     RunningOK, CurrentOK, AnnouncedGreeted,
     Leaving
<1>5. AnnouncedGreeted' /\ RxAfterConnect'
  BY DEF RecvDisconnect, RecvAborts, CloseAndNotify, Abort, TypeOK, PhaseOK,
     RunningOK, CurrentOK, AnnouncedGreeted,
     RxAfterConnect, Leaving
<1>6. ToldOK'
  BY DEF RecvDisconnect, RecvAborts, CloseAndNotify, Abort, TypeOK, PhaseOK,
     RunningOK, ToldOK, Leaving
<1> QED
  BY <1>1, <1>2, <1>3, <1>4, <1>5, <1>6

\* The execute thread takes a message.
LEMMA CInvRecvMsg ==
  ASSUME NEW m \in Whole, CInv, down = "no", RecvMsg(m)
  PROVE  CInv'
<1> USE ThreadFacts DEF CInv, netVars, fdVars, runVars, toldVars, processVars,
     Goto
<1>1. TypeOK'
  BY InboxFacts, ClientAssumption DEF RecvMsg, TypeOK, PhaseOK, Leaving
<1>2. PhaseOK'
  BY DEF RecvMsg, TypeOK, PhaseOK, Leaving
<1>3. RunningOK'
  BY DEF RecvMsg, TypeOK, PhaseOK, RunningOK, Leaving
<1>4. CurrentOK'
  BY DEF RecvMsg, TypeOK, PhaseOK, RunningOK, CurrentOK, AnnouncedGreeted,
     Leaving
<1>5. AnnouncedGreeted' /\ RxAfterConnect'
  BY DEF RecvMsg, TypeOK, PhaseOK, RunningOK, CurrentOK, AnnouncedGreeted,
     RxAfterConnect, Leaving
<1>6. ToldOK'
  BY DEF RecvMsg, TypeOK, PhaseOK, RunningOK, ToldOK, Leaving
<1> QED
  BY <1>1, <1>2, <1>3, <1>4, <1>5, <1>6

\* The execute thread reads a header.
LEMMA CInvRecvHeader ==
  ASSUME CInv, down = "no", RecvHeader
  PROVE  CInv'
<1> USE ThreadFacts DEF CInv, netVars, fdVars, runVars, toldVars, processVars,
     Goto
<1>1. TypeOK'
  BY InboxFacts, ClientAssumption DEF RecvHeader, TypeOK, PhaseOK, Leaving
<1>2. PhaseOK'
  BY DEF RecvHeader, TypeOK, PhaseOK, Leaving
<1>3. RunningOK'
  BY DEF RecvHeader, TypeOK, PhaseOK, RunningOK, Leaving
<1>4. CurrentOK'
  BY DEF RecvHeader, TypeOK, PhaseOK, RunningOK, CurrentOK,
     AnnouncedGreeted, Leaving
<1>5. AnnouncedGreeted' /\ RxAfterConnect'
  BY DEF RecvHeader, TypeOK, PhaseOK, RunningOK, CurrentOK,
     AnnouncedGreeted, RxAfterConnect, Leaving
<1>6. ToldOK'
  BY DEF RecvHeader, TypeOK, PhaseOK, RunningOK, ToldOK, Leaving
<1> QED
  BY <1>1, <1>2, <1>3, <1>4, <1>5, <1>6

\* It reads the data.
LEMMA CInvRecvBody ==
  ASSUME CInv, down = "no", RecvBody
  PROVE  CInv'
<1> USE ThreadFacts DEF CInv, netVars, fdVars, runVars, toldVars, processVars,
     Goto
<1>1. TypeOK'
  <2>1. current \in Conns
    BY DEF RecvBody, TypeOK, PhaseOK, RunningOK, CurrentOK
  <2>2. link' \in [Conns -> {"unborn", "up", "lost", "closed"}]
    BY <2>1 DEF RecvBody, Released, TypeOK
  <2>3. inbox' \in [Conns -> Seq(Received)]
    <3>1. \E w \in Seq(Received) : inbox' = [inbox EXCEPT ![current] = w]
      <4>1. inbox[current] \in Seq(Received) /\ inbox[current] # <<>>
        BY <2>1 DEF RecvBody, TypeOK
      <4>2. Tail(inbox[current]) \in Seq(Received) /\ <<>> \in Seq(Received)
        BY <4>1
      <4> QED
        BY <4>2 DEF RecvBody, Released
    <3> QED
      BY <3>1 DEF TypeOK
  <2> QED
    BY <2>1, <2>2, <2>3 DEF RecvBody, TypeOK
<1>2. PhaseOK'
  BY DEF RecvBody, Released, TypeOK, PhaseOK, Leaving
<1>3. RunningOK'
  BY DEF RecvBody, Released, TypeOK, PhaseOK, RunningOK, Leaving
<1>4. CurrentOK'
  BY DEF RecvBody, Released, TypeOK, PhaseOK, RunningOK, CurrentOK,
     AnnouncedGreeted, Leaving
<1>5. AnnouncedGreeted' /\ RxAfterConnect'
  BY DEF RecvBody, Released, TypeOK, PhaseOK, RunningOK, CurrentOK,
     AnnouncedGreeted, RxAfterConnect, Leaving
<1>6. ToldOK'
  BY DEF RecvBody, Released, TypeOK, PhaseOK, RunningOK, ToldOK, Leaving
<1> QED
  BY <1>1, <1>2, <1>3, <1>4, <1>5, <1>6

\* The connection is closed before the data have come.
LEMMA CInvBodyDisconnect ==
  ASSUME CInv, down = "no", BodyDisconnect
  PROVE  CInv'
<1> USE ThreadFacts DEF CInv, netVars, fdVars, runVars, toldVars, processVars,
     Goto
<1>1. TypeOK'
  BY InboxFacts, ClientAssumption DEF BodyDisconnect, CloseAndNotify, TypeOK, PhaseOK, Leaving
<1>2. PhaseOK'
  BY DEF BodyDisconnect, CloseAndNotify, TypeOK, PhaseOK, Leaving
<1>3. RunningOK'
  BY DEF BodyDisconnect, CloseAndNotify, TypeOK, PhaseOK, RunningOK, Leaving
<1>4. CurrentOK'
  BY DEF BodyDisconnect, CloseAndNotify, TypeOK, PhaseOK, RunningOK, CurrentOK,
     AnnouncedGreeted, Leaving
<1>5. AnnouncedGreeted' /\ RxAfterConnect'
  BY DEF BodyDisconnect, CloseAndNotify, TypeOK, PhaseOK, RunningOK, CurrentOK,
     AnnouncedGreeted, RxAfterConnect, Leaving
<1>6. ToldOK'
  BY DEF BodyDisconnect, CloseAndNotify, TypeOK, PhaseOK, RunningOK, ToldOK, Leaving
<1> QED
  BY <1>1, <1>2, <1>3, <1>4, <1>5, <1>6

\* The execute thread, or the process, ends.
LEMMA CInvStop ==
  ASSUME CInv, down = "no", StopExec \/ ExitProcess
  PROVE  CInv'
<1> USE ThreadFacts DEF CInv, netVars, fdVars, runVars, toldVars, processVars,
     Goto
<1>1. TypeOK'
  BY InboxFacts, ClientAssumption DEF StopExec, ExitProcess, TypeOK, PhaseOK,
     Leaving
<1>2. PhaseOK'
  BY DEF StopExec, ExitProcess, TypeOK, PhaseOK, Leaving
<1>3. RunningOK'
  BY DEF StopExec, ExitProcess, TypeOK, PhaseOK, RunningOK, Leaving
<1>4. CurrentOK'
  BY DEF StopExec, ExitProcess, TypeOK, PhaseOK, RunningOK, CurrentOK,
     AnnouncedGreeted,
     Leaving
<1>5. AnnouncedGreeted' /\ RxAfterConnect'
  BY DEF StopExec, ExitProcess, TypeOK, PhaseOK, RunningOK, CurrentOK,
     AnnouncedGreeted,
     RxAfterConnect, Leaving
<1>6. ToldOK'
  BY DEF StopExec, ExitProcess, TypeOK, PhaseOK, RunningOK, ToldOK, Leaving
<1> QED
  BY <1>1, <1>2, <1>3, <1>4, <1>5, <1>6

\* A sender begins.
LEMMA CInvCallSend ==
  ASSUME NEW t \in Senders, CInv, down = "no", CallSend(t)
  PROVE  CInv'
<1> USE ThreadFacts DEF CInv, netVars, fdVars, runVars, toldVars, processVars,
     Goto
<1>1. TypeOK'
  BY InboxFacts, ClientAssumption DEF CallSend, TypeOK, PhaseOK, Leaving
<1>2. PhaseOK'
  BY DEF CallSend, TypeOK, PhaseOK, Leaving
<1>3. RunningOK'
  BY DEF CallSend, TypeOK, PhaseOK, RunningOK, Leaving
<1>4. CurrentOK'
  BY DEF CallSend, TypeOK, PhaseOK, RunningOK, CurrentOK, AnnouncedGreeted,
     Leaving
<1>5. AnnouncedGreeted' /\ RxAfterConnect'
  BY DEF CallSend, TypeOK, PhaseOK, RunningOK, CurrentOK, AnnouncedGreeted,
     RxAfterConnect, Leaving
<1>6. ToldOK'
  BY DEF CallSend, TypeOK, PhaseOK, RunningOK, ToldOK, Leaving
<1> QED
  BY <1>1, <1>2, <1>3, <1>4, <1>5, <1>6

\* systemd starts the service again.
LEMMA CInvRestart ==
  ASSUME CInv, Restart
  PROVE  CInv'
<1> USE ThreadFacts DEF CInv, netVars, fdVars, runVars, toldVars, processVars,
     Goto
<1>1. TypeOK'
  <2>1. /\ <<>> \in Seq(Received) /\ \A c \in Conns : inbox[c] \in Seq(Received)
        /\ \A c \in Conns : link[c] \in {"unborn", "up", "lost", "closed"}
    BY DEF TypeOK
  <2>2. /\ link' \in [Conns -> {"unborn", "up", "lost", "closed"}]
        /\ inbox' \in [Conns -> Seq(Received)]
    BY <2>1 DEF Restart
  <2> QED
    BY <2>2, ClientAssumption DEF Restart, StartPc, TypeOK
<1>2. PhaseOK'
  BY DEF Restart, StartPc, TypeOK, PhaseOK, Leaving
<1>3. RunningOK'
  BY DEF Restart, StartPc, TypeOK, PhaseOK, RunningOK, Leaving
<1>4. CurrentOK'
  BY DEF Restart, StartPc, TypeOK, PhaseOK, RunningOK, CurrentOK,
     AnnouncedGreeted,
     Leaving
<1>5. AnnouncedGreeted' /\ RxAfterConnect'
  BY DEF Restart, StartPc, TypeOK, PhaseOK, RunningOK, CurrentOK,
     AnnouncedGreeted,
     RxAfterConnect, Leaving
<1>6. ToldOK'
  BY DEF Restart, StartPc, TypeOK, PhaseOK, RunningOK, ToldOK, Leaving
<1> QED
  BY <1>1, <1>2, <1>3, <1>4, <1>5, <1>6

\* A stuttering step changes nothing.
LEMMA CInvStutter ==
  ASSUME CInv, UNCHANGED vars
  PROVE  CInv'
<1> USE ThreadFacts DEF CInv, netVars, fdVars, runVars, toldVars, processVars,
     Goto
<1>1. TypeOK'
  BY InboxFacts, ClientAssumption DEF vars, TypeOK, PhaseOK, Leaving
<1>2. PhaseOK'
  BY DEF vars, TypeOK, PhaseOK, Leaving
<1>3. RunningOK'
  BY DEF vars, TypeOK, PhaseOK, RunningOK, Leaving
<1>4. CurrentOK'
  BY DEF vars, TypeOK, PhaseOK, RunningOK, CurrentOK, AnnouncedGreeted,
     Leaving
<1>5. AnnouncedGreeted' /\ RxAfterConnect'
  BY DEF vars, TypeOK, PhaseOK, RunningOK, CurrentOK, AnnouncedGreeted,
     RxAfterConnect, Leaving
<1>6. ToldOK'
  BY DEF vars, TypeOK, PhaseOK, RunningOK, ToldOK, Leaving
<1> QED
  BY <1>1, <1>2, <1>3, <1>4, <1>5, <1>6

-----------------------------------------------------------------------------
(* Theorems.                                                               *)

\* The service starts with no thread but the main one at work.
THEOREM CInvInit == Init => CInv
<1> SUFFICES ASSUME Init  PROVE CInv
  OBVIOUS
<1>1. /\ pc[Main] = "init" /\ pc[Exec] = "none"
      /\ \A t \in Senders : pc[t] = "idle"
  BY ThreadFacts DEF Init, StartPc
<1>2. TypeOK
  <2>1. inbox \in [Conns -> Seq(Received)]
    BY DEF Init
  <2>2. pc \in [Threads -> {"init", "none", "idle"}]
    BY DEF Init, StartPc
  <2> QED
    BY <2>1, <2>2, ClientAssumption DEF Init, TypeOK
<1> QED
  BY <1>1, <1>2 DEF Init, CInv, PhaseOK, RunningOK, CurrentOK,
     AnnouncedGreeted, RxAfterConnect, ToldOK, Leaving

\* Every step keeps it.
THEOREM CInvStep == CInv /\ [Next]_vars => CInv'
<1> SUFFICES ASSUME CInv, [Next]_vars  PROVE CInv'
  OBVIOUS
<1>1. CASE NetStep
  BY <1>1, CInvServerSends, CInvDataCome, CInvGiveUp, CInvLose DEF NetStep
<1>2. ASSUME NEW t \in Threads, down = "no", Shared(t)  PROVE CInv'
  BY <1>2, CInvCloseFd, CInvClearFd, CInvNotify, CInvSendOk, CInvSendFails,
     CInvSendAborts DEF Shared
<1>3. CASE down = "no" /\ MainStep
  BY <1>2, <1>3, ThreadFacts, CInvConnect, CInvCloseAgain, CInvEmitConnect,
     CInvExecute, CInvPoll DEF MainStep
<1>4. CASE down = "no" /\ ExecStep
  BY <1>2, <1>4, ThreadFacts, CInvStartExec, CInvSelect, CInvRecvEnds,
     CInvRecvMsg, CInvRecvHeader, CInvRecvBody, CInvBodyDisconnect, CInvStop
     DEF ExecStep
<1>5. CASE down = "no" /\ \E t \in Senders : SenderStep(t)
  BY <1>2, <1>5, ThreadFacts, CInvCallSend DEF SenderStep
<1>6. CASE Restart
  BY <1>6, CInvRestart
<1>7. CASE UNCHANGED vars
  BY <1>7, CInvStutter
<1> QED
  BY <1>1, <1>3, <1>4, <1>5, <1>6, <1>7 DEF Next

\* CInv is an invariant of the service.
THEOREM CInvAlways == Spec => []CInv
BY CInvInit, CInvStep, PTL DEF Spec

\* Type correctness.
THEOREM TypeCorrect == Spec => []TypeOK
<1>1. CInv => TypeOK
  BY DEF CInv
<1> QED
  BY <1>1, CInvAlways, PTL

\* There is never more than one thread reading the socket.
THEOREM OneReaderAlways == Spec => []OneReader
<1>1. CInv => OneReader
  BY DEF CInv, RunningOK, OneReader
<1> QED
  BY <1>1, CInvAlways, PTL

\* No connection is announced on which the UUID was not sent, however the
\* senders race on client_fd.
THEOREM AnnouncedGreetedAlways == Spec => []AnnouncedGreeted
<1>1. CInv => AnnouncedGreeted
  BY DEF CInv
<1> QED
  BY <1>1, CInvAlways, PTL

\* Data is reported only of connections that were announced.
THEOREM RxAfterConnectAlways == Spec => []RxAfterConnect
<1>1. CInv => RxAfterConnect
  BY DEF CInv
<1> QED
  BY <1>1, CInvAlways, PTL

\* The loss of a connection is reported before the next is announced, unless
\* an assert has ended the service.
THEOREM LossBeforeConnectAlways == Spec => []LossBeforeConnect
<1>1. CInv => LossBeforeConnect
  BY DEF CInv, ToldOK, LossBeforeConnect
<1> QED
  BY <1>1, CInvAlways, PTL

=============================================================================
