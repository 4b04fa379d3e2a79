--------------------- MODULE SocketServerSerialProofs ---------------------
(***************************************************************************)
(* Theorems about SocketServer when no other thread calls the send         *)
(* functions and accept() fails only for lack of a descriptor, for any     *)
(* number of connections, devices and descriptors: the server stays up,    *)
(* its list, descriptors and callbacks agree, and it implements the strict *)
(* form of SignalContract.                                                 *)
(***************************************************************************)
EXTENDS SocketServerProofs

\* The assumption of every theorem here.
Serial == Callers = {} /\ AcceptMayFail = FALSE

-----------------------------------------------------------------------------
(* The inductive invariant.                                                *)

InClose == pc[Exec] \in {"find", "close", "unlink"}

\* The cell that the execute thread is closing, from the search on.
Doomed == IF InClose THEN {c \in Clients : fd[c] = client_fd[Exec]} ELSE {}

\* The cell whose disconnect callback has been called.
Reported == IF pc[Exec] \in {"close", "unlink"} THEN Doomed ELSE {}

\* The cell whose descriptor has been closed.
Shut == IF pc[Exec] = "unlink" THEN Doomed ELSE {}

\* The list holds no cell twice and none that is freed; cells have different
\* descriptors.  Without it the second search of close_client_conn could meet
\* another cell than the first.
ListOK ==
  /\ \A i, j \in DOMAIN client_infos :
       i # j => client_infos[i] # client_infos[j]
  /\ \A c, k \in Clients : c # k => fd[c] # fd[k]
  /\ Clients \cap freed = {}
  /\ \A c \in freed : fd[c] # -1

\* The descriptor table is that of the list.
FileOK ==
  /\ \A c \in Clients \ Shut : file[fd[c]] = c
  /\ \A f \in Fds : file[f] # NoConn =>
       file[f] \in Clients \ Shut /\ fd[file[f]] = f

\* select() watches the cells of the list, and serves what is left of them.
WatchOK ==
  /\ active_fd_set = {ServerFd} \cup {fd[c] : c \in Clients}
  /\ read_fd_set \subseteq active_fd_set
  /\ pc[Exec] \in {"copy", "ping", "send_all"} => read_fd_set = {}

\* The execute thread serves a cell of the list, and does not come back to a
\* descriptor in the same round; so it may close it.
LoopOK ==
  /\ fault = "none"
  /\ pc[Exec] \in {"copy", "select", "service", "accepted", "recv",
                   "identify", "ping", "send_all", "find", "close", "unlink"}
  /\ pc[Exec] \in {"recv", "identify"} =>
       /\ client[Exec] \in Clients
       /\ fd[client[Exec]] = client_fd[Exec]
       /\ client_fd[Exec] \notin read_fd_set
  /\ pc[Exec] = "send_all" => client[Exec] \in Clients \cup {NoConn}
  /\ InClose =>
       /\ Doomed # {}
       /\ client_fd[Exec] \notin read_fd_set
       /\ ret[Exec] \in {"service", "send_all"}
       /\ ret[Exec] = "send_all" =>
            client[Exec] \in Doomed /\ read_fd_set = {}
  /\ pc[Exec] = "accepted" => client_infos # <<>>

\* What has been said of each cell.
SignalOK ==
  /\ \A c \in Clients \ Reported : disconnects[c] = 0
  /\ \A c \in Reported : disconnects[c] = connects[c]
  /\ \A c \in freed : disconnects[c] = connects[c]

\* The UUID is the first message of every connection, and is still unread on
\* those that have not been announced.
MailOK ==
  \A c \in Conns :
    /\ c \notin greeted => inbox[c] = <<>>
    /\ peer[c] = "unborn" => c \notin greeted
    /\ connects[c] = 0 /\ inbox[c] # <<>> => Head(inbox[c]) = "uuid"
    /\ connects[c] = 0 /\ c \in greeted /\ peer[c] = "up" => inbox[c] # <<>>

\* Data was reported of announced cells, under the UUID of their device.
HeardOK ==
  /\ \A c \in Conns : connects[c] = 1 => uuid[c] = device[c]
  /\ \A p \in rx : p[1] = p[2] /\ connects[p[1]] = 1

SInv == /\ AInv /\ ListOK /\ FileOK /\ WatchOK /\ LoopOK
        /\ SignalOK /\ MailOK /\ HeardOK

-----------------------------------------------------------------------------
(* Lemmas.                                                                 *)

\* What the steps have to preserve beyond AInv, which AInvStep preserves.
SOK == ListOK /\ FileOK /\ WatchOK /\ LoopOK /\ SignalOK /\ MailOK /\ HeardOK

\* The execute thread is the only thread, and cells of the list have
\* descriptors.
LEMMA SerialFacts ==
  ASSUME Serial, SInv
  PROVE  /\ Threads = {Exec}
         /\ Clients \subseteq Conns
         /\ \A c \in Clients : fd[c] \in Fds
         /\ ~ListDangles
         /\ -1 \notin Fds /\ ServerFd \notin Fds /\ NoConn \notin Conns
<1> USE DEF SInv
<1>1. Threads = {Exec}
  BY DEF Threads, Serial
<1>2. ASSUME NEW c \in Clients
      PROVE  c \in Conns /\ fd[c] \in Fds
  <2>1. PICK i \in DOMAIN client_infos : c = client_infos[i]
    BY DEF Clients, Range
  <2> QED
    BY <2>1, SeqFacts DEF AInv, FrameOK
<1>3. ~ListDangles
  BY DEF ListDangles, ListOK, Clients, Range
<1> QED
  BY <1>1, <1>2, <1>3, ServerAssumption

\* While a cell is being closed, both searches of close_client_conn meet it
\* and no other.
LEMMA DoomedFacts ==
  ASSUME Serial, SInv, InClose
  PROVE  \E i \in DOMAIN client_infos :
           /\ Matches(client_fd[Exec]) = {i}
           /\ FirstOf({i}) = i
           /\ Doomed = {client_infos[i]}
           /\ client_infos[i] \in Clients
           /\ fd[client_infos[i]] = client_fd[Exec]
           /\ find_client_by_fd(client_fd[Exec]) = client_infos[i]
<1> USE DEF SInv
<1>1. PICK c \in Doomed : c \in Clients /\ fd[c] = client_fd[Exec]
  BY DEF LoopOK, Doomed
<1>2. PICK i \in DOMAIN client_infos : c = client_infos[i]
  BY <1>1 DEF Clients, Range
<1>3. \A j \in DOMAIN client_infos : client_infos[j] \in Clients
  BY DEF Clients, Range
<1>4. Matches(client_fd[Exec]) = {i}
  BY <1>1, <1>2, <1>3 DEF Matches, ListOK
<1>5. Doomed = {c}
  BY <1>1 DEF Doomed, ListOK
<1>6. FirstOf({i}) = i
  <2>1. DOMAIN client_infos \subseteq Nat
    BY SeqFacts DEF AInv
  <2>2. {i} \in SUBSET Nat /\ {i} # {}
    BY <2>1
  <2> QED
    BY <2>2, FirstOfLemma
<1> QED
  BY <1>1, <1>2, <1>3, <1>4, <1>5, <1>6 DEF find_client_by_fd

\* The number served next is in the set, and is a descriptor of a cell unless
\* it is the server socket.
LEMMA ReadyFacts ==
  ASSUME Serial, SInv, read_fd_set # {}
  PROVE  /\ NextReady \in read_fd_set
         /\ NextReady # ServerFd => \E c \in Clients : fd[c] = NextReady
<1>1. read_fd_set \in SUBSET Nat
  BY ServerAssumption DEF SInv, AInv, TypeOK, ThreadTypeOK
<1>2. NextReady \in read_fd_set
  BY <1>1, FirstOfLemma DEF NextReady
<1> QED
  BY <1>2 DEF SInv, WatchOK

\* The list has a head exactly if it has a cell.
LEMMA HeadFacts ==
  ASSUME SInv
  PROVE  /\ client_infos # <<>> => client_infos[1] \in Clients
         /\ Clients # {} => client_infos # <<>>
<1> USE SeqFacts DEF SInv, AInv, Clients, Range
<1>1. client_infos # <<>> => 1 \in DOMAIN client_infos
  BY EmptySeq DEF TypeOK, CellTypeOK
<1> QED
  BY <1>1

\* An inbox keeps its first message when another arrives.
LEMMA ArrivalFacts ==
  ASSUME NEW S, NEW s \in Seq(S), NEW m \in S
  PROVE  /\ Append(s, m) # <<>>
         /\ s # <<>> => Head(Append(s, m)) = Head(s)
         /\ s = <<>> => Head(Append(s, m)) = m
<1>1. Len(s) \in Nat /\ (s # <<>> => Len(s) > 0) /\ (s = <<>> => Len(s) = 0)
  BY EmptySeq
<1>2. Append(s, m) # <<>> /\ Head(Append(s, m)) = Append(s, m)[1]
  BY AppendProperties
<1>3. s # <<>> => Head(s) = s[1] /\ Append(s, m)[1] = s[1]
  BY <1>1, AppendProperties
<1>4. s = <<>> => Append(s, m)[1] = m
  BY <1>1, AppendProperties
<1> QED
  BY <1>2, <1>3, <1>4

-----------------------------------------------------------------------------
(* Each step keeps it.                                                     *)

\* A device connects.
LEMMA SerialConnect ==
  ASSUME Serial, SInv, AInv', NEW c \in Conns, NEW d \in Devices,
         Connect(c, d)
  PROVE  SOK'
<1> USE SerialFacts DEF Connect, Goto, vars, kernelVars, cellVars, loopVars,
    frameVars, toldVars, peerFrame
<1>1. /\ Clients' = Clients /\ Doomed' = Doomed
      /\ Reported' = Reported /\ Shut' = Shut /\ InClose' = InClose
  BY DEF SInv, AInv, TypeOK, ThreadTypeOK, Clients, Doomed, Reported, Shut,
     InClose
<1>2. ListOK'
  BY <1>1 DEF SInv, ListOK
<1>3. FileOK'
  BY <1>1 DEF SInv, FileOK, AInv, TypeOK, CellTypeOK
<1>4. WatchOK'
  BY <1>1 DEF SInv, WatchOK, AInv, TypeOK, ThreadTypeOK
<1>5. LoopOK'
  BY <1>1 DEF SInv, LoopOK, AInv, TypeOK, ThreadTypeOK, InClose
<1>6. SignalOK'
  BY <1>1 DEF SInv, SignalOK, AInv, TypeOK, ToldTypeOK
<1>7. MailOK'
  BY <1>1 DEF SInv, MailOK, AInv, TypeOK, KernelTypeOK, ToldTypeOK
<1>8. HeardOK'
  <2>1. connects[c] = 0
    <3>1. fd[c] = -1
      BY DEF SInv, AInv, ArrivalOK
    <3> QED
      BY <3>1 DEF SInv, AInv, AnnounceOK, TypeOK, ToldTypeOK
  <2> QED
    BY <1>1, <2>1 DEF SInv, HeardOK, AInv, TypeOK, KernelTypeOK, CellTypeOK,
       ToldTypeOK
<1> QED
  BY <1>2, <1>3, <1>4, <1>5, <1>6, <1>7, <1>8 DEF SOK

\* The UUID arrives.
LEMMA SerialGreet ==
  ASSUME Serial, SInv, AInv', NEW c \in Conns, Greet(c)
  PROVE  SOK'
<1> USE SerialFacts DEF Greet, Goto, vars, kernelVars, cellVars, loopVars,
    frameVars, toldVars, peerFrame
<1>1. /\ Clients' = Clients /\ Doomed' = Doomed
      /\ Reported' = Reported /\ Shut' = Shut /\ InClose' = InClose
  BY DEF SInv, AInv, TypeOK, ThreadTypeOK, Clients, Doomed, Reported, Shut,
     InClose
<1>2. ListOK'
  BY <1>1 DEF SInv, ListOK
<1>3. FileOK'
  BY <1>1 DEF SInv, FileOK, AInv, TypeOK, CellTypeOK
<1>4. WatchOK'
  BY <1>1 DEF SInv, WatchOK, AInv, TypeOK, ThreadTypeOK
<1>5. LoopOK'
  BY <1>1 DEF SInv, LoopOK, AInv, TypeOK, ThreadTypeOK, InClose
<1>6. SignalOK'
  BY <1>1 DEF SInv, SignalOK, AInv, TypeOK, ToldTypeOK
<1>7. MailOK'
  BY <1>1 DEF SInv, MailOK, AInv, TypeOK, KernelTypeOK, ToldTypeOK
<1>8. HeardOK'
  BY <1>1 DEF SInv, HeardOK, AInv, TypeOK, KernelTypeOK, CellTypeOK,
     ToldTypeOK
<1> QED
  BY <1>2, <1>3, <1>4, <1>5, <1>6, <1>7, <1>8 DEF SOK

\* A message arrives.
LEMMA SerialClientSend ==
  ASSUME Serial, SInv, AInv', NEW c \in Conns, NEW m \in ClientMsgs,
         ClientSend(c, m)
  PROVE  SOK'
<1> USE SerialFacts DEF ClientSend, Goto, vars, kernelVars, cellVars,
    loopVars, frameVars, toldVars, peerFrame
<1>1. /\ Clients' = Clients /\ Doomed' = Doomed
      /\ Reported' = Reported /\ Shut' = Shut /\ InClose' = InClose
  BY DEF SInv, AInv, TypeOK, ThreadTypeOK, Clients, Doomed, Reported, Shut,
     InClose
<1>2. ListOK'
  BY <1>1 DEF SInv, ListOK
<1>3. FileOK'
  BY <1>1 DEF SInv, FileOK, AInv, TypeOK, CellTypeOK
<1>4. WatchOK'
  BY <1>1 DEF SInv, WatchOK, AInv, TypeOK, ThreadTypeOK
<1>5. LoopOK'
  BY <1>1 DEF SInv, LoopOK, AInv, TypeOK, ThreadTypeOK, InClose
<1>6. SignalOK'
  BY <1>1 DEF SInv, SignalOK, AInv, TypeOK, ToldTypeOK
<1>7. MailOK'
  <2>1. connects[c] = 0 => inbox[c] # <<>> /\ Head(inbox[c]) = "uuid"
    BY DEF SInv, MailOK
  <2>2. inbox[c] \in Seq({"uuid", "data", "bad", "cut"}) /\ m \in {"uuid",
  "data", "bad", "cut"}
    BY ServerAssumption DEF SInv, AInv, TypeOK, KernelTypeOK
  <2>3. connects[c] = 0 => /\ Append(inbox[c], m) # <<>>
                           /\ Head(Append(inbox[c], m)) = "uuid"
    BY <2>1, <2>2, ArrivalFacts
  <2> QED
    BY <1>1, <2>3 DEF SInv, MailOK, AInv, TypeOK, KernelTypeOK, ToldTypeOK
<1>8. HeardOK'
  BY <1>1 DEF SInv, HeardOK, AInv, TypeOK, KernelTypeOK, CellTypeOK,
     ToldTypeOK
<1> QED
  BY <1>2, <1>3, <1>4, <1>5, <1>6, <1>7, <1>8 DEF SOK

\* A peer goes.
LEMMA SerialLeave ==
  ASSUME Serial, SInv, AInv', NEW c \in Conns, NEW how \in {"gone", "closed"},
         Leave(c, how)
  PROVE  SOK'
<1> USE SerialFacts DEF Leave, Goto, vars, kernelVars, cellVars, loopVars,
    frameVars, toldVars, peerFrame
<1>1. /\ Clients' = Clients /\ Doomed' = Doomed
      /\ Reported' = Reported /\ Shut' = Shut /\ InClose' = InClose
  BY DEF SInv, AInv, TypeOK, ThreadTypeOK, Clients, Doomed, Reported, Shut,
     InClose
<1>2. ListOK'
  BY <1>1 DEF SInv, ListOK
<1>3. FileOK'
  BY <1>1 DEF SInv, FileOK, AInv, TypeOK, CellTypeOK
<1>4. WatchOK'
  BY <1>1 DEF SInv, WatchOK, AInv, TypeOK, ThreadTypeOK
<1>5. LoopOK'
  BY <1>1 DEF SInv, LoopOK, AInv, TypeOK, ThreadTypeOK, InClose
<1>6. SignalOK'
  BY <1>1 DEF SInv, SignalOK, AInv, TypeOK, ToldTypeOK
<1>7. MailOK'
  <2>1. peer' = [peer EXCEPT ![c] = how] /\ peer[c] = "up"
    OBVIOUS
  <2>2. CASE UNCHANGED inbox
    BY <1>1, <2>1, <2>2 DEF SInv, MailOK, AInv, TypeOK, KernelTypeOK
  <2>3. CASE c \in greeted /\ inbox' = [inbox EXCEPT ![c] = Append(@, "cut")]
    <3>1. connects[c] = 0 => inbox[c] # <<>> /\ Head(inbox[c]) = "uuid"
      BY <2>1, <2>3 DEF SInv, MailOK
    <3>2. inbox[c] \in Seq({"uuid", "data", "bad", "cut"})
      BY DEF SInv, AInv, TypeOK, KernelTypeOK
    <3>3. connects[c] = 0 => /\ Append(inbox[c], "cut") # <<>>
                             /\ Head(Append(inbox[c], "cut")) = "uuid"
      BY <3>1, <3>2, ArrivalFacts
    <3> QED
      BY <1>1, <2>1, <2>3, <3>3 DEF SInv, MailOK, AInv, TypeOK, KernelTypeOK
  <2> QED
    BY <2>2, <2>3
<1>8. HeardOK'
  BY <1>1 DEF SInv, HeardOK, AInv, TypeOK, KernelTypeOK, CellTypeOK,
     ToldTypeOK
<1> QED
  BY <1>2, <1>3, <1>4, <1>5, <1>6, <1>7, <1>8 DEF SOK

\* The kernel gives a peer up.
LEMMA SerialDetect ==
  ASSUME Serial, SInv, AInv', NEW c \in Conns, Detect(c)
  PROVE  SOK'
<1> USE SerialFacts DEF Detect, Goto, vars, kernelVars, cellVars, loopVars,
    frameVars, toldVars, peerFrame
<1>1. /\ Clients' = Clients /\ Doomed' = Doomed
      /\ Reported' = Reported /\ Shut' = Shut /\ InClose' = InClose
  BY DEF SInv, AInv, TypeOK, ThreadTypeOK, Clients, Doomed, Reported, Shut,
     InClose
<1>2. ListOK'
  BY <1>1 DEF SInv, ListOK
<1>3. FileOK'
  BY <1>1 DEF SInv, FileOK, AInv, TypeOK, CellTypeOK
<1>4. WatchOK'
  BY <1>1 DEF SInv, WatchOK, AInv, TypeOK, ThreadTypeOK
<1>5. LoopOK'
  BY <1>1 DEF SInv, LoopOK, AInv, TypeOK, ThreadTypeOK, InClose
<1>6. SignalOK'
  BY <1>1 DEF SInv, SignalOK, AInv, TypeOK, ToldTypeOK
<1>7. MailOK'
  BY <1>1 DEF SInv, MailOK, AInv, TypeOK, KernelTypeOK, ToldTypeOK
<1>8. HeardOK'
  BY <1>1 DEF SInv, HeardOK, AInv, TypeOK, KernelTypeOK, CellTypeOK,
     ToldTypeOK
<1> QED
  BY <1>2, <1>3, <1>4, <1>5, <1>6, <1>7, <1>8 DEF SOK

\* Time passes.
LEMMA SerialTick ==
  ASSUME Serial, SInv, AInv', Tick
  PROVE  SOK'
<1> USE SerialFacts DEF Tick, Goto, vars, kernelVars, cellVars, loopVars,
    frameVars, toldVars, peerFrame
<1>1. /\ Clients' = Clients /\ Doomed' = Doomed
      /\ Reported' = Reported /\ Shut' = Shut /\ InClose' = InClose
  BY DEF SInv, AInv, TypeOK, ThreadTypeOK, Clients, Doomed, Reported, Shut,
     InClose
<1>2. ListOK'
  BY <1>1 DEF SInv, ListOK
<1>3. FileOK'
  BY <1>1 DEF SInv, FileOK, AInv, TypeOK, CellTypeOK
<1>4. WatchOK'
  BY <1>1 DEF SInv, WatchOK, AInv, TypeOK, ThreadTypeOK
<1>5. LoopOK'
  BY <1>1 DEF SInv, LoopOK, AInv, TypeOK, ThreadTypeOK, InClose
<1>6. SignalOK'
  BY <1>1 DEF SInv, SignalOK, AInv, TypeOK, ToldTypeOK
<1>7. MailOK'
  BY <1>1 DEF SInv, MailOK, AInv, TypeOK, KernelTypeOK, ToldTypeOK
<1>8. HeardOK'
  BY <1>1 DEF SInv, HeardOK, AInv, TypeOK, KernelTypeOK, CellTypeOK,
     ToldTypeOK
<1> QED
  BY <1>2, <1>3, <1>4, <1>5, <1>6, <1>7, <1>8 DEF SOK

\* A new round begins.
LEMMA SerialCopy ==
  ASSUME Serial, SInv, AInv', Copy
  PROVE  SOK'
<1> USE SerialFacts DEF Copy, Goto, vars, kernelVars, cellVars, loopVars,
    frameVars, toldVars, peerFrame
<1>1. /\ Clients' = Clients /\ Doomed' = Doomed
      /\ Reported' = Reported /\ Shut' = Shut /\ InClose' = InClose
  BY DEF SInv, AInv, TypeOK, ThreadTypeOK, Clients, Doomed, Reported, Shut,
     InClose
<1>2. ListOK'
  BY <1>1 DEF SInv, ListOK
<1>3. FileOK'
  BY <1>1 DEF SInv, FileOK, AInv, TypeOK, CellTypeOK
<1>4. WatchOK'
  BY <1>1 DEF SInv, WatchOK, AInv, TypeOK, ThreadTypeOK
<1>5. LoopOK'
  BY <1>1 DEF SInv, LoopOK, AInv, TypeOK, ThreadTypeOK, InClose
<1>6. SignalOK'
  BY <1>1 DEF SInv, SignalOK, AInv, TypeOK, ToldTypeOK
<1>7. MailOK'
  BY <1>1 DEF SInv, MailOK, AInv, TypeOK, KernelTypeOK, ToldTypeOK
<1>8. HeardOK'
  BY <1>1 DEF SInv, HeardOK, AInv, TypeOK, KernelTypeOK, CellTypeOK,
     ToldTypeOK
<1> QED
  BY <1>2, <1>3, <1>4, <1>5, <1>6, <1>7, <1>8 DEF SOK

\* select() returns.
LEMMA SerialSelect ==
  ASSUME Serial, SInv, AInv', Select
  PROVE  SOK'
<1> USE SerialFacts DEF Select, Goto, vars, kernelVars, cellVars, loopVars,
    frameVars, toldVars, peerFrame
<1>1. /\ Clients' = Clients /\ Doomed' = Doomed
      /\ Reported' = Reported /\ Shut' = Shut /\ InClose' = InClose
  BY DEF SInv, AInv, TypeOK, ThreadTypeOK, Clients, Doomed, Reported, Shut,
     InClose
<1>2. ListOK'
  BY <1>1 DEF SInv, ListOK
<1>3. FileOK'
  BY <1>1 DEF SInv, FileOK, AInv, TypeOK, CellTypeOK
<1>4. WatchOK'
  BY <1>1 DEF SInv, WatchOK, AInv, TypeOK, ThreadTypeOK
<1>5. LoopOK'
  BY <1>1 DEF SInv, LoopOK, AInv, TypeOK, ThreadTypeOK, InClose
<1>6. SignalOK'
  BY <1>1 DEF SInv, SignalOK, AInv, TypeOK, ToldTypeOK
<1>7. MailOK'
  BY <1>1 DEF SInv, MailOK, AInv, TypeOK, KernelTypeOK, ToldTypeOK
<1>8. HeardOK'
  BY <1>1 DEF SInv, HeardOK, AInv, TypeOK, KernelTypeOK, CellTypeOK,
     ToldTypeOK
<1> QED
  BY <1>2, <1>3, <1>4, <1>5, <1>6, <1>7, <1>8 DEF SOK

\* The end of service_sockets.
LEMMA SerialServiceDone ==
  ASSUME Serial, SInv, AInv', ServiceDone
  PROVE  SOK'
<1> USE SerialFacts DEF ServiceDone, Goto, vars, kernelVars, cellVars,
    loopVars, frameVars, toldVars, peerFrame
<1>1. /\ Clients' = Clients /\ Doomed' = Doomed
      /\ Reported' = Reported /\ Shut' = Shut /\ InClose' = InClose
  BY DEF SInv, AInv, TypeOK, ThreadTypeOK, Clients, Doomed, Reported, Shut,
     InClose
<1>2. ListOK'
  BY <1>1 DEF SInv, ListOK
<1>3. FileOK'
  BY <1>1 DEF SInv, FileOK, AInv, TypeOK, CellTypeOK
<1>4. WatchOK'
  BY <1>1 DEF SInv, WatchOK, AInv, TypeOK, ThreadTypeOK
<1>5. LoopOK'
  BY <1>1 DEF SInv, LoopOK, AInv, TypeOK, ThreadTypeOK, InClose
<1>6. SignalOK'
  BY <1>1 DEF SInv, SignalOK, AInv, TypeOK, ToldTypeOK
<1>7. MailOK'
  BY <1>1 DEF SInv, MailOK, AInv, TypeOK, KernelTypeOK, ToldTypeOK
<1>8. HeardOK'
  BY <1>1 DEF SInv, HeardOK, AInv, TypeOK, KernelTypeOK, CellTypeOK,
     ToldTypeOK
<1> QED
  BY <1>2, <1>3, <1>4, <1>5, <1>6, <1>7, <1>8 DEF SOK

\* The assert after accept() holds.
LEMMA SerialAssertClients ==
  ASSUME Serial, SInv, AInv', AssertClients
  PROVE  SOK'
<1> USE SerialFacts DEF AssertClients, Die, Goto, vars, kernelVars, cellVars,
    loopVars, frameVars, toldVars, peerFrame
<1>1. /\ Clients' = Clients /\ Doomed' = Doomed
      /\ Reported' = Reported /\ Shut' = Shut /\ InClose' = InClose
  BY DEF SInv, AInv, TypeOK, ThreadTypeOK, Clients, Doomed, Reported, Shut,
     InClose
<1>2. ListOK'
  BY <1>1 DEF SInv, ListOK
<1>3. FileOK'
  BY <1>1 DEF SInv, FileOK, AInv, TypeOK, CellTypeOK
<1>4. WatchOK'
  BY <1>1 DEF SInv, WatchOK, AInv, TypeOK, ThreadTypeOK
<1>5. LoopOK'
  BY <1>1 DEF SInv, LoopOK, AInv, TypeOK, ThreadTypeOK, InClose
<1>6. SignalOK'
  BY <1>1 DEF SInv, SignalOK, AInv, TypeOK, ToldTypeOK
<1>7. MailOK'
  BY <1>1 DEF SInv, MailOK, AInv, TypeOK, KernelTypeOK, ToldTypeOK
<1>8. HeardOK'
  BY <1>1 DEF SInv, HeardOK, AInv, TypeOK, KernelTypeOK, CellTypeOK,
     ToldTypeOK
<1> QED
  BY <1>2, <1>3, <1>4, <1>5, <1>6, <1>7, <1>8 DEF SOK

\* No descriptor is free: the table is full of cells of the list.
LEMMA SerialAcceptFails ==
  ASSUME Serial, SInv, AInv', AcceptFails
  PROVE  SOK'
<1> USE SerialFacts DEF AcceptFails, Serial, Goto, vars, kernelVars, cellVars,
    loopVars, frameVars, toldVars, peerFrame
<1>1. /\ Clients' = Clients /\ Doomed' = Doomed
      /\ Reported' = Reported /\ Shut' = Shut /\ InClose' = InClose
  BY DEF SInv, AInv, TypeOK, ThreadTypeOK, Clients, Doomed, Reported, Shut,
     InClose
<1>2. ListOK'
  BY <1>1 DEF SInv, ListOK
<1>3. FileOK'
  BY <1>1 DEF SInv, FileOK, AInv, TypeOK, CellTypeOK
<1>4. WatchOK'
  BY <1>1 DEF SInv, WatchOK, AInv, TypeOK, ThreadTypeOK
<1>5. LoopOK'
  <2>1. client_infos # <<>>
    <3>1. PICK f \in Fds : file[f] # NoConn
      BY ServerAssumption DEF FreeFds
    <3> QED
      BY <3>1, HeadFacts DEF SInv, FileOK
  <2> QED
    BY <1>1, <2>1 DEF SInv, LoopOK, AInv, TypeOK, ThreadTypeOK, InClose
<1>6. SignalOK'
  BY <1>1 DEF SInv, SignalOK, AInv, TypeOK, ToldTypeOK
<1>7. MailOK'
  BY <1>1 DEF SInv, MailOK, AInv, TypeOK, KernelTypeOK, ToldTypeOK
<1>8. HeardOK'
  BY <1>1 DEF SInv, HeardOK, AInv, TypeOK, KernelTypeOK, CellTypeOK,
     ToldTypeOK
<1> QED
  BY <1>2, <1>3, <1>4, <1>5, <1>6, <1>7, <1>8 DEF SOK

\* A bad message is dropped.
LEMMA SerialRecvBad ==
  ASSUME Serial, SInv, AInv', RecvBad
  PROVE  SOK'
<1> USE SerialFacts DEF RecvBad, TakeMessage, EndFrame, Has, Incoming, Goto,
    vars, kernelVars, cellVars, loopVars, frameVars, toldVars, peerFrame
<1>1. /\ Clients' = Clients /\ Doomed' = Doomed
      /\ Reported' = Reported /\ Shut' = Shut /\ InClose' = InClose
  BY DEF SInv, AInv, TypeOK, ThreadTypeOK, Clients, Doomed, Reported, Shut,
     InClose
<1>2. ListOK'
  BY <1>1 DEF SInv, ListOK
<1>3. FileOK'
  BY <1>1 DEF SInv, FileOK, AInv, TypeOK, CellTypeOK
<1>4. WatchOK'
  BY <1>1 DEF SInv, WatchOK, AInv, TypeOK, ThreadTypeOK
<1>5. LoopOK'
  BY <1>1 DEF SInv, LoopOK, AInv, TypeOK, ThreadTypeOK, InClose
<1>6. SignalOK'
  BY <1>1 DEF SInv, SignalOK, AInv, TypeOK, ToldTypeOK
<1>7. MailOK'
  BY <1>1 DEF SInv, MailOK, AInv, TypeOK, KernelTypeOK, ToldTypeOK
<1>8. HeardOK'
  BY <1>1 DEF SInv, HeardOK, AInv, TypeOK, KernelTypeOK, CellTypeOK,
     ToldTypeOK
<1> QED
  BY <1>2, <1>3, <1>4, <1>5, <1>6, <1>7, <1>8 DEF SOK

\* The first UUID is that of the device at the other end.
LEMMA SerialRecvUuid ==
  ASSUME Serial, SInv, AInv', RecvUuid
  PROVE  SOK'
<1> USE SerialFacts DEF RecvUuid, IsNew, TakeMessage, EndFrame, Has, Incoming,
    Goto, vars, kernelVars, cellVars, loopVars, frameVars, toldVars, peerFrame
<1>1. /\ Clients' = Clients /\ Doomed' = Doomed
      /\ Reported' = Reported /\ Shut' = Shut /\ InClose' = InClose
  BY DEF SInv, AInv, TypeOK, ThreadTypeOK, Clients, Doomed, Reported, Shut,
     InClose
<1>a. file[client_fd[Exec]] = client[Exec] /\ client[Exec] \in Clients
  BY DEF SInv, LoopOK, FileOK, Shut
<1>2. ListOK'
  BY <1>1 DEF SInv, ListOK
<1>3. FileOK'
  BY <1>1 DEF SInv, FileOK, AInv, TypeOK, CellTypeOK
<1>4. WatchOK'
  BY <1>1 DEF SInv, WatchOK, AInv, TypeOK, ThreadTypeOK
<1>5. LoopOK'
  BY <1>1 DEF SInv, LoopOK, AInv, TypeOK, ThreadTypeOK, InClose
<1>6. SignalOK'
  <2>1. \A c \in freed : connects'[c] = connects[c]
    BY <1>a DEF SInv, ListOK, AInv, TypeOK, CellTypeOK, ToldTypeOK
  <2>2. Reported = {}
    BY DEF Reported
  <2> QED
    BY <1>1, <2>1, <2>2 DEF SInv, SignalOK
<1>7. MailOK'
  <2>1. connects'[client[Exec]] # 0
    BY <1>a DEF SInv, AInv, AnnounceOK, TypeOK, CellTypeOK, ToldTypeOK
  <2>2. \A c \in Conns \ {client[Exec]} :
          connects'[c] = connects[c] /\ inbox'[c] = inbox[c]
    BY <1>a DEF SInv, AInv, TypeOK, KernelTypeOK, ToldTypeOK
  <2>3. client[Exec] \in greeted /\ peer[client[Exec]] # "unborn"
    BY <1>a DEF SInv, MailOK
  <2> QED
    BY <2>1, <2>2, <2>3 DEF SInv, MailOK
<1>8. HeardOK'
  <2>1. \A c \in Conns \ {client[Exec]} :
          connects'[c] = connects[c] /\ uuid'[c] = uuid[c]
    BY <1>a DEF SInv, AInv, TypeOK, CellTypeOK, ToldTypeOK
  <2>2. \/ /\ uuid'[client[Exec]] = device[client[Exec]]
           /\ connects'[client[Exec]] = 1
        \/ UNCHANGED <<uuid, connects>>
    BY <1>a DEF SInv, AInv, AnnounceOK, TypeOK, CellTypeOK, ToldTypeOK
  <2>3. \A p \in rx : p[1] \in Conns
    BY DEF SInv, AInv, TypeOK, ToldTypeOK
  <2> QED
    BY <2>1, <2>2, <2>3 DEF SInv, HeardOK
<1> QED
  BY <1>2, <1>3, <1>4, <1>5, <1>6, <1>7, <1>8 DEF SOK

\* recv_uuid becomes true.
LEMMA SerialIdentify ==
  ASSUME Serial, SInv, AInv', Identify
  PROVE  SOK'
<1> USE SerialFacts DEF Identify, EndFrame, Goto, vars, kernelVars, cellVars,
    loopVars, frameVars, toldVars, peerFrame
<1>1. /\ Clients' = Clients /\ Doomed' = Doomed
      /\ Reported' = Reported /\ Shut' = Shut /\ InClose' = InClose
  BY DEF SInv, AInv, TypeOK, ThreadTypeOK, Clients, Doomed, Reported, Shut,
     InClose
<1>2. ListOK'
  BY <1>1 DEF SInv, ListOK
<1>3. FileOK'
  BY <1>1 DEF SInv, FileOK, AInv, TypeOK, CellTypeOK
<1>4. WatchOK'
  BY <1>1 DEF SInv, WatchOK, AInv, TypeOK, ThreadTypeOK
<1>5. LoopOK'
  BY <1>1 DEF SInv, LoopOK, AInv, TypeOK, ThreadTypeOK, InClose
<1>6. SignalOK'
  BY <1>1 DEF SInv, SignalOK, AInv, TypeOK, ToldTypeOK
<1>7. MailOK'
  BY <1>1 DEF SInv, MailOK, AInv, TypeOK, KernelTypeOK, ToldTypeOK
<1>8. HeardOK'
  BY <1>1 DEF SInv, HeardOK, AInv, TypeOK, KernelTypeOK, CellTypeOK,
     ToldTypeOK
<1> QED
  BY <1>2, <1>3, <1>4, <1>5, <1>6, <1>7, <1>8 DEF SOK

\* Data comes from the connection of the cell, which has been announced.
LEMMA SerialRecvData ==
  ASSUME Serial, SInv, AInv', RecvData
  PROVE  SOK'
<1> USE SerialFacts DEF RecvData, TakeMessage, EndFrame, Has, Incoming, Goto,
    vars, kernelVars, cellVars, loopVars, frameVars, toldVars, peerFrame
<1>1. /\ Clients' = Clients /\ Doomed' = Doomed
      /\ Reported' = Reported /\ Shut' = Shut /\ InClose' = InClose
  BY DEF SInv, AInv, TypeOK, ThreadTypeOK, Clients, Doomed, Reported, Shut,
     InClose
<1>a. file[client_fd[Exec]] = client[Exec] /\ client[Exec] \in Clients
  BY DEF SInv, LoopOK, FileOK, Shut
<1>b. connects[client[Exec]] = 1
  BY <1>a DEF SInv, MailOK, AInv, AnnounceOK, TypeOK, ToldTypeOK
<1>2. ListOK'
  BY <1>1 DEF SInv, ListOK
<1>3. FileOK'
  BY <1>1 DEF SInv, FileOK, AInv, TypeOK, CellTypeOK
<1>4. WatchOK'
  BY <1>1 DEF SInv, WatchOK, AInv, TypeOK, ThreadTypeOK
<1>5. LoopOK'
  BY <1>1 DEF SInv, LoopOK, AInv, TypeOK, ThreadTypeOK, InClose
<1>6. SignalOK'
  BY <1>1 DEF SInv, SignalOK, AInv, TypeOK, ToldTypeOK
<1>7. MailOK'
  <2>1. \A c \in Conns \ {client[Exec]} : inbox'[c] = inbox[c]
    BY <1>a DEF SInv, AInv, TypeOK, KernelTypeOK
  <2>2. client[Exec] \in greeted /\ peer[client[Exec]] # "unborn"
    BY <1>a DEF SInv, MailOK
  <2> QED
    BY <1>b, <2>1, <2>2 DEF SInv, MailOK
<1>8. HeardOK'
  <2>1. rx' = rx \cup {<<client[Exec], client[Exec]>>}
    BY <1>a
  <2> QED
    BY <1>b, <2>1 DEF SInv, HeardOK
<1> QED
  BY <1>2, <1>3, <1>4, <1>5, <1>6, <1>7, <1>8 DEF SOK

\* The ping round begins.
LEMMA SerialPing ==
  ASSUME Serial, SInv, AInv', Ping
  PROVE  SOK'
<1> USE SerialFacts DEF Ping, Goto, vars, kernelVars, cellVars, loopVars,
    frameVars, toldVars, peerFrame
<1>1. /\ Clients' = Clients /\ Doomed' = Doomed
      /\ Reported' = Reported /\ Shut' = Shut /\ InClose' = InClose
  BY DEF SInv, AInv, TypeOK, ThreadTypeOK, Clients, Doomed, Reported, Shut,
     InClose
<1>2. ListOK'
  BY <1>1 DEF SInv, ListOK
<1>3. FileOK'
  BY <1>1 DEF SInv, FileOK, AInv, TypeOK, CellTypeOK
<1>4. WatchOK'
  BY <1>1 DEF SInv, WatchOK, AInv, TypeOK, ThreadTypeOK
<1>5. LoopOK'
  <2>1. CASE PingNow
    BY <1>1, <2>1, HeadFacts DEF PingNow, SInv, LoopOK, AInv, TypeOK,
       ThreadTypeOK, InClose
  <2>2. CASE ~PingNow
    BY <1>1, <2>2 DEF SInv, LoopOK, AInv, TypeOK, ThreadTypeOK, InClose
  <2> QED
    BY <2>1, <2>2
<1>6. SignalOK'
  BY <1>1 DEF SInv, SignalOK, AInv, TypeOK, ToldTypeOK
<1>7. MailOK'
  BY <1>1 DEF SInv, MailOK, AInv, TypeOK, KernelTypeOK, ToldTypeOK
<1>8. HeardOK'
  BY <1>1 DEF SInv, HeardOK, AInv, TypeOK, KernelTypeOK, CellTypeOK,
     ToldTypeOK
<1> QED
  BY <1>2, <1>3, <1>4, <1>5, <1>6, <1>7, <1>8 DEF SOK

\* The ping round ends.
LEMMA SerialSendAllDone ==
  ASSUME Serial, SInv, AInv', SendAllDone(Exec)
  PROVE  SOK'
<1> USE SerialFacts DEF SendAllDone, Goto, vars, kernelVars, cellVars,
    loopVars, frameVars, toldVars, peerFrame
<1>1. /\ Clients' = Clients /\ Doomed' = Doomed
      /\ Reported' = Reported /\ Shut' = Shut /\ InClose' = InClose
  BY DEF SInv, AInv, TypeOK, ThreadTypeOK, Clients, Doomed, Reported, Shut,
     InClose
<1>2. ListOK'
  BY <1>1 DEF SInv, ListOK
<1>3. FileOK'
  BY <1>1 DEF SInv, FileOK, AInv, TypeOK, CellTypeOK
<1>4. WatchOK'
  BY <1>1 DEF SInv, WatchOK, AInv, TypeOK, ThreadTypeOK
<1>5. LoopOK'
  BY <1>1 DEF SInv, LoopOK, AInv, TypeOK, ThreadTypeOK, InClose
<1>6. SignalOK'
  BY <1>1 DEF SInv, SignalOK, AInv, TypeOK, ToldTypeOK
<1>7. MailOK'
  BY <1>1 DEF SInv, MailOK, AInv, TypeOK, KernelTypeOK, ToldTypeOK
<1>8. HeardOK'
  BY <1>1 DEF SInv, HeardOK, AInv, TypeOK, KernelTypeOK, CellTypeOK,
     ToldTypeOK
<1> QED
  BY <1>2, <1>3, <1>4, <1>5, <1>6, <1>7, <1>8 DEF SOK

\* A ping is sent; the next cell is in the list.
LEMMA SerialSendOk ==
  ASSUME Serial, SInv, AInv', SendOk(Exec)
  PROVE  SOK'
<1> USE SerialFacts DEF SendOk, Goto, vars, kernelVars, cellVars, loopVars,
    frameVars, toldVars, peerFrame
<1>1. /\ Clients' = Clients /\ Doomed' = Doomed
      /\ Reported' = Reported /\ Shut' = Shut /\ InClose' = InClose
  BY DEF SInv, AInv, TypeOK, ThreadTypeOK, Clients, Doomed, Reported, Shut,
     InClose
<1>2. ListOK'
  BY <1>1 DEF SInv, ListOK
<1>3. FileOK'
  BY <1>1 DEF SInv, FileOK, AInv, TypeOK, CellTypeOK
<1>4. WatchOK'
  BY <1>1 DEF SInv, WatchOK, AInv, TypeOK, ThreadTypeOK
<1>5. LoopOK'
  <2>1. NextIn(client_infos, client[Exec]) \in Clients \cup {NoConn}
    BY NextInLemma DEF SInv, AInv, TypeOK, CellTypeOK, Clients, Range
  <2> QED
    BY <1>1, <2>1 DEF SInv, LoopOK, AInv, TypeOK, ThreadTypeOK, InClose
<1>6. SignalOK'
  BY <1>1 DEF SInv, SignalOK, AInv, TypeOK, ToldTypeOK
<1>7. MailOK'
  BY <1>1 DEF SInv, MailOK, AInv, TypeOK, KernelTypeOK, ToldTypeOK
<1>8. HeardOK'
  BY <1>1 DEF SInv, HeardOK, AInv, TypeOK, KernelTypeOK, CellTypeOK,
     ToldTypeOK
<1> QED
  BY <1>2, <1>3, <1>4, <1>5, <1>6, <1>7, <1>8 DEF SOK

\* The descriptor served is found in the list.
LEMMA SerialFindSender ==
  ASSUME Serial, SInv, AInv', FindSender
  PROVE  SOK'
<1> USE SerialFacts DEF FindSender, Die, Goto, vars, kernelVars, cellVars,
    loopVars, frameVars, toldVars, peerFrame
<1>1. /\ Clients' = Clients /\ Doomed' = Doomed
      /\ Reported' = Reported /\ Shut' = Shut /\ InClose' = InClose
  BY DEF SInv, AInv, TypeOK, ThreadTypeOK, Clients, Doomed, Reported, Shut,
     InClose
<1>a. /\ find_client_by_fd(NextReady) # NoConn
      /\ find_client_by_fd(NextReady) \in Clients
      /\ fd[find_client_by_fd(NextReady)] = NextReady
  <2>1. PICK c \in Clients : fd[c] = NextReady
    BY ReadyFacts
  <2>2. PICK i \in DOMAIN client_infos : c = client_infos[i]
    BY DEF Clients, Range
  <2>3. i \in Matches(NextReady) /\ Matches(NextReady) \in SUBSET Nat
    BY <2>1, <2>2, SeqFacts DEF Matches, SInv, AInv
  <2>4. FirstOf(Matches(NextReady)) \in Matches(NextReady)
    BY <2>3, FirstOfLemma
  <2> QED
    BY <2>3, <2>4 DEF find_client_by_fd, Matches, Clients, Range
<1>b. /\ client' = [client EXCEPT ![Exec] = find_client_by_fd(NextReady)]
      /\ client_fd' = [client_fd EXCEPT ![Exec] = NextReady]
      /\ read_fd_set' = read_fd_set \ {NextReady}
      /\ pc' = [pc EXCEPT ![Exec] = "recv"]
      /\ UNCHANGED <<fd, ret, fault>>
  BY <1>a
<1>2. ListOK'
  BY <1>1 DEF SInv, ListOK
<1>3. FileOK'
  BY <1>1 DEF SInv, FileOK, AInv, TypeOK, CellTypeOK
<1>4. WatchOK'
  BY <1>1 DEF SInv, WatchOK, AInv, TypeOK, ThreadTypeOK
<1>5. LoopOK'
  <2>1. /\ client'[Exec] \in Clients /\ fd'[client'[Exec]] = client_fd'[Exec]
        /\ client_fd'[Exec] \notin read_fd_set' /\ pc'[Exec] = "recv"
    BY <1>a, <1>b DEF SInv, AInv, TypeOK, ThreadTypeOK
  <2> QED
    BY <1>1, <1>b, <2>1 DEF SInv, LoopOK, InClose
<1>6. SignalOK'
  BY <1>1 DEF SInv, SignalOK, AInv, TypeOK, ToldTypeOK
<1>7. MailOK'
  BY <1>1 DEF SInv, MailOK, AInv, TypeOK, KernelTypeOK, ToldTypeOK
<1>8. HeardOK'
  BY <1>1 DEF SInv, HeardOK, AInv, TypeOK, KernelTypeOK, CellTypeOK,
     ToldTypeOK
<1> QED
  BY <1>2, <1>3, <1>4, <1>5, <1>6, <1>7, <1>8 DEF SOK

\* The end of a connection makes its cell the doomed one.
LEMMA SerialRecvDisconnect ==
  ASSUME Serial, SInv, AInv', RecvDisconnect
  PROVE  SOK'
<1> USE SerialFacts DEF RecvDisconnect, CallClose, Goto, vars, kernelVars,
    cellVars, loopVars, frameVars, toldVars, peerFrame
<1>0. /\ Clients' = Clients /\ InClose' /\ Reported' = {} /\ Shut' = {}
      /\ Reported = {} /\ Shut = {}
      /\ client[Exec] \in Doomed'
  BY DEF SInv, LoopOK, AInv, TypeOK, ThreadTypeOK, Clients, Doomed, Reported,
     Shut, InClose
<1>2. ListOK'
  BY <1>0 DEF SInv, ListOK
<1>3. FileOK'
  BY <1>0 DEF SInv, FileOK, AInv, TypeOK, CellTypeOK
<1>4. WatchOK'
  BY <1>0 DEF SInv, WatchOK, AInv, TypeOK, ThreadTypeOK
<1>5. LoopOK'
  BY <1>0 DEF SInv, LoopOK, AInv, TypeOK, ThreadTypeOK, InClose
<1>6. SignalOK'
  BY <1>0 DEF SInv, SignalOK, AInv, TypeOK, ToldTypeOK
<1>7. MailOK'
  BY <1>0 DEF SInv, MailOK, AInv, TypeOK, KernelTypeOK, ToldTypeOK
<1>8. HeardOK'
  BY <1>0 DEF SInv, HeardOK, AInv, TypeOK, KernelTypeOK, CellTypeOK,
     ToldTypeOK
<1> QED
  BY <1>2, <1>3, <1>4, <1>5, <1>6, <1>7, <1>8 DEF SOK

\* A ping that fails makes the cell it is for the doomed one.
LEMMA SerialSendFails ==
  ASSUME Serial, SInv, AInv', SendFails(Exec)
  PROVE  SOK'
<1> USE SerialFacts DEF SendFails, CallClose, Goto, vars, kernelVars,
    cellVars, loopVars, frameVars, toldVars, peerFrame
<1>a. client[Exec] \in Clients
  BY DEF SInv, LoopOK
<1>0. /\ Clients' = Clients /\ InClose' /\ Reported' = {} /\ Shut' = {}
      /\ Reported = {} /\ Shut = {}
      /\ client[Exec] \in Doomed'
  BY <1>a DEF SInv, LoopOK, AInv, TypeOK, ThreadTypeOK, Clients, Doomed,
     Reported, Shut, InClose
<1>2. ListOK'
  BY <1>0 DEF SInv, ListOK
<1>3. FileOK'
  BY <1>0 DEF SInv, FileOK, AInv, TypeOK, CellTypeOK
<1>4. WatchOK'
  BY <1>0 DEF SInv, WatchOK, AInv, TypeOK, ThreadTypeOK
<1>5. LoopOK'
  <2>1. /\ ret'[Exec] = "send_all" /\ read_fd_set' = {} /\ pc'[Exec] = "find"
        /\ fault' = fault /\ client'[Exec] = client[Exec]
    BY <1>a DEF SInv, LoopOK, WatchOK, AInv, TypeOK, ThreadTypeOK
  <2> QED
    BY <1>0, <2>1 DEF SInv, LoopOK
<1>6. SignalOK'
  BY <1>0 DEF SInv, SignalOK, AInv, TypeOK, ToldTypeOK
<1>7. MailOK'
  BY <1>0 DEF SInv, MailOK, AInv, TypeOK, KernelTypeOK, ToldTypeOK
<1>8. HeardOK'
  BY <1>0 DEF SInv, HeardOK, AInv, TypeOK, KernelTypeOK, CellTypeOK,
     ToldTypeOK
<1> QED
  BY <1>2, <1>3, <1>4, <1>5, <1>6, <1>7, <1>8 DEF SOK

\* The doomed cell is withdrawn if it was announced.
LEMMA SerialFindAndNotify ==
  ASSUME Serial, SInv, AInv', FindAndNotify(Exec)
  PROVE  SOK'
<1> USE SerialFacts, DoomedFacts DEF FindAndNotify, Die, Goto, vars,
    kernelVars, cellVars, loopVars, frameVars, toldVars, peerFrame
<1>a. PICK c \in Clients : /\ Doomed = {c} /\ fd[c] = client_fd[Exec]
                           /\ find_client_by_fd(client_fd[Exec]) = c
  BY DEF InClose
<1>b. disconnects' = AfterNotify(c) /\ pc' = [pc EXCEPT ![Exec] = "close"]
      /\ UNCHANGED <<kernelVars, file, client_infos, cellVars, active_fd_set,
                     loopVars, frameVars, fault, connects, rx>>
  BY <1>a
<1>0. /\ Clients' = Clients /\ Doomed' = Doomed /\ Shut' = Shut
      /\ InClose' /\ InClose
      /\ Reported' = {c} /\ Reported = {}
  BY <1>a, <1>b DEF SInv, AInv, TypeOK, ThreadTypeOK, Clients, Doomed,
     Reported, Shut, InClose
<1>2. ListOK'
  BY <1>0 DEF SInv, ListOK
<1>3. FileOK'
  BY <1>0 DEF SInv, FileOK, AInv, TypeOK, CellTypeOK
<1>4. WatchOK'
  BY <1>0 DEF SInv, WatchOK, AInv, TypeOK, ThreadTypeOK
<1>5. LoopOK'
  <2>1. /\ pc[Exec] = "find" /\ pc'[Exec] = "close"
        /\ UNCHANGED <<read_fd_set, client, client_fd, ret, fault>>
    BY <1>b DEF SInv, AInv, TypeOK, ThreadTypeOK
  <2> QED
    BY <1>0, <2>1 DEF SInv, LoopOK
<1>6. SignalOK'
  <2>1. c \in Conns /\ c \notin freed /\ disconnects[c] = 0
    BY <1>0 DEF SInv, ListOK, SignalOK
  <2>2. connects[c] = IF recv_uuid[c] THEN 1 ELSE 0
    BY <2>1 DEF SInv, AInv, AnnounceOK, TypeOK, ToldTypeOK
  <2>3. disconnects'[c] = connects[c]
    BY <1>b, <2>1, <2>2 DEF AfterNotify, SInv, AInv, TypeOK, ToldTypeOK
  <2>4. \A k \in Conns \ {c} : disconnects'[k] = disconnects[k]
    BY <1>b DEF AfterNotify, SInv, AInv, TypeOK, ToldTypeOK
  <2>5. freed \subseteq Conns
    BY DEF SInv, AInv, TypeOK, CellTypeOK
  <2> QED
    BY <1>0, <1>b, <2>1, <2>3, <2>4, <2>5 DEF SInv, SignalOK
<1>7. MailOK'
  BY <1>b DEF SInv, MailOK
<1>8. HeardOK'
  BY <1>b DEF SInv, HeardOK
<1> QED
  BY <1>2, <1>3, <1>4, <1>5, <1>6, <1>7, <1>8 DEF SOK

\* The descriptor of the doomed cell is closed, and no other.
LEMMA SerialCloseFd ==
  ASSUME Serial, SInv, AInv', CloseFd(Exec)
  PROVE  SOK'
<1> USE SerialFacts, DoomedFacts DEF CloseFd, Goto, vars, kernelVars,
    cellVars, loopVars, frameVars, toldVars, peerFrame
<1>a. PICK c \in Clients : Doomed = {c} /\ fd[c] = client_fd[Exec]
  BY DEF InClose
<1>0. /\ Clients' = Clients /\ Doomed' = Doomed /\ InClose' /\ InClose
      /\ Reported' = Reported /\ Shut' = {c} /\ Shut = {}
      /\ Doomed = {c} /\ fd[c] = client_fd[Exec]
  BY <1>a DEF SInv, AInv, TypeOK, ThreadTypeOK, Clients, Doomed, Reported,
     Shut, InClose
<1>b. file[client_fd[Exec]] = c
  BY <1>0 DEF SInv, FileOK
<1>2. ListOK'
  BY <1>0 DEF SInv, ListOK
<1>3. FileOK'
  <2>1. file' = [file EXCEPT ![fd[c]] = NoConn] /\ fd' = fd /\ fd[c] \in Fds
    BY <1>0
  <2> QED
    BY <1>0, <2>1 DEF SInv, FileOK, ListOK, AInv, TypeOK, CellTypeOK
<1>4. WatchOK'
  BY <1>0 DEF SInv, WatchOK, AInv, TypeOK, ThreadTypeOK
<1>5. LoopOK'
  BY <1>0 DEF SInv, LoopOK, AInv, TypeOK, ThreadTypeOK, InClose
<1>6. SignalOK'
  BY <1>0 DEF SInv, SignalOK, AInv, TypeOK, ToldTypeOK
<1>7. MailOK'
  <2>1. /\ peer' = [peer EXCEPT ![c] = "closed"]
        /\ inbox' = [inbox EXCEPT ![c] = <<>>]
        /\ UNCHANGED <<greeted, connects>>
    BY <1>b
  <2> QED
    BY <2>1 DEF SInv, MailOK, AInv, TypeOK, KernelTypeOK
<1>8. HeardOK'
  BY <1>0 DEF SInv, HeardOK, AInv, TypeOK, KernelTypeOK, CellTypeOK,
     ToldTypeOK
<1> QED
  BY <1>2, <1>3, <1>4, <1>5, <1>6, <1>7, <1>8 DEF SOK

\* The doomed cell leaves the list, the select set and memory.
LEMMA SerialUnlink ==
  ASSUME Serial, SInv, AInv', Unlink(Exec)
  PROVE  SOK'
<1> USE SerialFacts, DoomedFacts DEF Unlink, FdClr, Die, Goto, vars,
    kernelVars, cellVars, loopVars, frameVars, toldVars, peerFrame
<1>a. PICK i \in DOMAIN client_infos :
        /\ Matches(client_fd[Exec]) = {i} /\ FirstOf({i}) = i
        /\ Doomed = {client_infos[i]} /\ client_infos[i] \in Clients
        /\ fd[client_infos[i]] = client_fd[Exec]
  BY DEF InClose
<1> DEFINE c == client_infos[i]
           list == Without(client_infos, i)
<1>b. /\ InClose /\ ret[Exec] \in {"service", "send_all"}
      /\ client_fd[Exec] \notin read_fd_set
      /\ ret[Exec] = "send_all" => client[Exec] = c /\ read_fd_set = {}
  BY <1>a DEF SInv, LoopOK, InClose
<1>c. c \in Conns /\ c \notin freed
  BY <1>a DEF SInv, ListOK
<1>d. /\ active_fd_set' = active_fd_set \ {fd[c]}
      /\ client_infos' = list /\ freed' = freed \cup {c}
      /\ client' = [client EXCEPT ![Exec] =
           IF ret[Exec] = "send_all" THEN NextIn(client_infos, c) ELSE NoConn]
      /\ client_fd' = [client_fd EXCEPT ![Exec] = -1]
      /\ ret' = [ret EXCEPT ![Exec] = "service"]
      /\ pc' = [pc EXCEPT ![Exec] = ret[Exec]]
      /\ UNCHANGED <<kernelVars, file, fd, uuid, recv_uuid, loopVars, fault,
                     toldVars>>
  BY <1>a, <1>b, <1>c DEF SInv, AInv, TypeOK, ThreadTypeOK
<1>e. /\ DOMAIN list = 1 .. Len(client_infos) - 1
      /\ \A j \in DOMAIN list :
           list[j] = IF j < i THEN client_infos[j] ELSE client_infos[j + 1]
      /\ Len(client_infos) \in Nat
      /\ DOMAIN client_infos = 1 .. Len(client_infos)
  <2>1. client_infos \in Seq(Conns) /\ i \in DOMAIN client_infos
    BY DEF SInv, AInv, TypeOK, CellTypeOK
  <2> HIDE DEF c
  <2>2. /\ DOMAIN Without(client_infos, i) = 1 .. Len(client_infos) - 1
        /\ \A j \in 1 .. Len(client_infos) - 1 : Without(client_infos, i)[j] =
             IF j < i THEN client_infos[j] ELSE client_infos[j + 1]
    BY ONLY <2>1, WithoutLemma
  <2>3. /\ Len(client_infos) \in Nat
        /\ DOMAIN client_infos = 1 .. Len(client_infos)
    BY ONLY <2>1, LenProperties
  <2> QED
    BY ONLY <2>2, <2>3
<1>f. \A j, k \in DOMAIN client_infos :
        j # k => client_infos[j] # client_infos[k]
  BY DEF SInv, ListOK
<1>g. Clients' = Clients \ {c}
  <2>1. ASSUME NEW k \in DOMAIN list PROVE list[k] \in Clients \ {c}
    <3>1. CASE k < i
      BY <1>e, <1>f, <3>1 DEF Clients, Range
    <3>2. CASE ~ (k < i)
      <4>1. /\ list[k] = client_infos[k + 1]
            /\ k + 1 \in DOMAIN client_infos /\ k + 1 # i
        BY <1>e, <3>2
      <4> QED
        BY <1>f, <4>1 DEF Clients, Range
    <3> QED
      BY <3>1, <3>2
  <2>2. ASSUME NEW k \in DOMAIN client_infos, k # i
        PROVE  \E j \in DOMAIN list : list[j] = client_infos[k]
    <3>1. CASE k < i
      <4>1. k \in DOMAIN list /\ list[k] = client_infos[k]
        BY <1>e, <3>1
      <4> QED
        BY <4>1
    <3>2. CASE ~ (k < i)
      <4>1. k - 1 \in DOMAIN list /\ list[k - 1] = client_infos[k]
        BY <1>e, <2>2, <3>2
      <4> QED
        BY <4>1
    <3> QED
      BY <3>1, <3>2
  <2>3. /\ Clients = {client_infos[k] : k \in DOMAIN client_infos}
        /\ Clients' = {list[k] : k \in DOMAIN list}
    BY <1>d DEF Clients, Range
  <2> QED
    BY <2>1, <2>2, <2>3
<1>0. /\ ~InClose' /\ Doomed' = {} /\ Reported' = {} /\ Shut' = {}
      /\ Reported = {c} /\ Shut = {c} /\ pc'[Exec] = ret[Exec]
  BY <1>a, <1>b, <1>d DEF SInv, AInv, TypeOK, ThreadTypeOK, Doomed, Reported,
     Shut, InClose
<1> HIDE DEF c, list
<1>2. ListOK'
  <2>1. ASSUME NEW j \in DOMAIN list, NEW k \in DOMAIN list, j # k
        PROVE  list[j] # list[k]
    <3> DEFINE At(n) == IF n < i THEN n ELSE n + 1
    <3>1. /\ At(j) \in DOMAIN client_infos /\ At(k) \in DOMAIN client_infos
          /\ At(j) # At(k)
      BY <1>e, <2>1
    <3>2. list[j] = client_infos[At(j)] /\ list[k] = client_infos[At(k)]
      BY <1>e
    <3> QED
      BY <1>f, <3>1, <3>2
  <2>2. fd[c] # -1
    BY <1>a DEF c
  <2> QED
    BY <1>d, <1>g, <2>1, <2>2 DEF SInv, ListOK
<1>3. FileOK'
  BY <1>0, <1>d, <1>g DEF SInv, FileOK
<1>4. WatchOK'
  <2>1. active_fd_set' = {ServerFd} \cup {fd[k] : k \in Clients \ {c}}
    BY <1>a, <1>d DEF SInv, WatchOK, ListOK, c
  <2>2. client_fd[Exec] = fd[c]
    BY <1>a DEF c
  <2> QED
    BY <1>0, <1>b, <1>d, <1>g, <2>1, <2>2 DEF SInv, WatchOK
<1>5. LoopOK'
  <2>1. NextIn(client_infos, c) \in (Clients \ {c}) \cup {NoConn}
    <3> DEFINE I == {j \in 1 .. Len(client_infos) - 1 : client_infos[j] = c}
    <3>1. I \subseteq {i} /\ I \in SUBSET Nat
      BY <1>e, <1>f DEF c
    <3>2. CASE I = {}
      BY <3>2 DEF NextIn
    <3>3. CASE I # {}
      <4>1. FirstOf(I) = i /\ i \in I
        BY <3>1, <3>3, FirstOfLemma
      <4>2. i + 1 \in DOMAIN client_infos /\ NextIn(client_infos,
      c) = client_infos[i + 1]
        BY <1>e, <3>3, <4>1 DEF NextIn
      <4>3. i \in Nat
        BY <3>1, <4>1
      <4> QED
        BY <1>f, <4>2, <4>3 DEF c, Clients, Range
    <3> QED
      BY <3>2, <3>3
  <2>2. ret[Exec] = "send_all" => client'[Exec] = NextIn(client_infos, c)
    BY <1>d DEF SInv, AInv, TypeOK, ThreadTypeOK
  <2> QED
    BY <1>0, <1>b, <1>d, <1>g, <2>1, <2>2 DEF SInv, LoopOK
<1>6. SignalOK'
  BY <1>0, <1>d, <1>g DEF SInv, SignalOK
<1>7. MailOK'
  BY <1>d DEF SInv, MailOK
<1>8. HeardOK'
  BY <1>d DEF SInv, HeardOK
<1> QED
  BY <1>2, <1>3, <1>4, <1>5, <1>6, <1>7, <1>8 DEF SOK

\* A new cell gets a descriptor that no cell has.
LEMMA SerialAccept ==
  ASSUME Serial, SInv, AInv', Accept
  PROVE  SOK'
<1> USE SerialFacts DEF Accept, FdSet, Goto, vars, kernelVars, cellVars,
    loopVars, frameVars, toldVars, peerFrame
<1> DEFINE c == Head(backlog)
           f == FirstOf(FreeFds)
<1>a. backlog # <<>> /\ c = backlog[1] /\ 1 \in DOMAIN backlog /\ c \in Conns
  <2>1. backlog # <<>>
    BY ReadyFacts DEF SInv, AInv, FrameOK
  <2> QED
    BY <2>1, EmptySeq, SeqFacts DEF SInv, AInv, TypeOK, KernelTypeOK
<1>b. f \in Fds /\ file[f] = NoConn
  <2>1. FreeFds \in SUBSET Nat
    BY ServerAssumption DEF FreeFds
  <2> QED
    BY <2>1, FirstOfLemma DEF FreeFds
<1>c. fd[c] = -1 /\ connects[c] = 0 /\ disconnects[c] = 0
  <2>1. fd[c] = -1
    BY <1>a DEF SInv, AInv, ArrivalOK
  <2> QED
    BY <1>a, <2>1 DEF SInv, AInv, AnnounceOK, TypeOK, ToldTypeOK
<1>d. c \notin Clients /\ c \notin freed
  BY <1>c DEF SInv, ListOK
<1>e. /\ file' = [file EXCEPT ![f] = c] /\ fd' = [fd EXCEPT ![c] = f]
      /\ uuid' = [uuid EXCEPT ![c] = NoDevice]
      /\ active_fd_set' = active_fd_set \cup {f}
      /\ client_infos' = Append(client_infos, c)
      /\ read_fd_set' = read_fd_set \ {ServerFd}
      /\ pc' = [pc EXCEPT ![Exec] = "accepted"]
      /\ UNCHANGED <<peer, device, greeted, inbox, freed, client, client_fd,
                     ret, fault, toldVars>>
  OBVIOUS
<1> DEFINE n == Len(client_infos) + 1
<1>f. /\ DOMAIN client_infos = 1 .. n - 1 /\ DOMAIN client_infos' = 1 .. n
      /\ n \in Nat /\ client_infos'[n] = c
      /\ \A i \in DOMAIN client_infos : client_infos'[i] = client_infos[i]
      /\ client_infos' # <<>>
  BY <1>a, <1>e, SeqFacts, AppendProperties, LenProperties DEF SInv, AInv,
     TypeOK, CellTypeOK
<1>g. Clients' = Clients \cup {c}
  <2>1. /\ Clients = {client_infos[i] : i \in DOMAIN client_infos}
        /\ Clients' = {client_infos'[i] : i \in DOMAIN client_infos'}
    BY DEF Clients, Range
  <2>2. \A i \in DOMAIN client_infos' : i \in DOMAIN client_infos \/ i = n
    BY ONLY <1>f
  <2>3. /\ n \in DOMAIN client_infos'
        /\ DOMAIN client_infos \subseteq DOMAIN client_infos'
    BY ONLY <1>f
  <2> HIDE DEF n, c
  <2> QED
    BY ONLY <1>f, <2>1, <2>2, <2>3
<1>h. \A k \in Clients : fd'[k] = fd[k] /\ fd[k] # f
  BY <1>a, <1>b, <1>d, <1>e DEF SInv, FileOK, Shut, AInv, TypeOK, CellTypeOK
<1>i. fd'[c] = f /\ (\A k \in freed : fd'[k] = fd[k])
  BY <1>a, <1>d, <1>e DEF SInv, AInv, TypeOK, CellTypeOK
<1>0. /\ ~InClose' /\ Doomed' = {} /\ Reported' = {} /\ Shut' = {}
      /\ Reported = {} /\ Shut = {} /\ pc'[Exec] = "accepted"
  BY <1>e DEF SInv, AInv, TypeOK, ThreadTypeOK, Doomed, Reported, Shut,
     InClose
<1> HIDE DEF c, f, n
<1>2. ListOK'
  <2>1. \A i,
  j \in DOMAIN client_infos' : i # j => client_infos'[i] # client_infos'[j]
    <3>1. \A i \in DOMAIN client_infos : client_infos'[i] # c
      BY <1>d, <1>f DEF Clients, Range
    <3>2. \A i,
    j \in DOMAIN client_infos : i # j => client_infos'[i] # client_infos'[j]
      BY <1>f DEF SInv, ListOK
    <3>3. \A i \in DOMAIN client_infos' : i \in DOMAIN client_infos \/ i = n
      BY ONLY <1>f
    <3> QED
      BY ONLY <1>f, <3>1, <3>2, <3>3
  <2>2. \A i, j \in Clients' : i # j => fd'[i] # fd'[j]
    BY <1>g, <1>h, <1>i DEF SInv, ListOK
  <2>3. Clients' \cap freed' = {}
    BY <1>d, <1>e, <1>g DEF SInv, ListOK
  <2>4. \A k \in freed' : fd'[k] # -1
    BY <1>e, <1>i DEF SInv, ListOK
  <2> QED
    BY <2>1, <2>2, <2>3, <2>4 DEF ListOK
<1>3. FileOK'
  <2>1. file'[f] = c /\ \A g \in Fds \ {f} : file'[g] = file[g]
    BY <1>b, <1>e DEF SInv, AInv, TypeOK, CellTypeOK
  <2> QED
    BY <1>0, <1>g, <1>h, <1>i, <2>1 DEF SInv, FileOK
<1>4. WatchOK'
  <2>1. {fd'[k] : k \in Clients'} = {f} \cup {fd[k] : k \in Clients}
    BY <1>g, <1>h, <1>i
  <2>2. active_fd_set' = {ServerFd} \cup {fd'[k] : k \in Clients'}
    BY <1>e, <2>1 DEF SInv, WatchOK
  <2> QED
    BY <1>0, <1>e, <2>2 DEF SInv, WatchOK
<1>5. LoopOK'
  BY <1>0, <1>e, <1>f DEF SInv, LoopOK
<1>6. SignalOK'
  BY <1>0, <1>c, <1>e, <1>g DEF SInv, SignalOK
<1>7. MailOK'
  BY <1>e DEF SInv, MailOK
<1>8. HeardOK'
  BY <1>a, <1>c, <1>e DEF SInv, HeardOK, AInv, TypeOK, CellTypeOK
<1> QED
  BY <1>2, <1>3, <1>4, <1>5, <1>6, <1>7, <1>8 DEF SOK

\* select() is given no descriptor that has been closed.
LEMMA SerialSelectFails ==
  ASSUME Serial, SInv, SelectFails
  PROVE  FALSE
<1> USE SerialFacts DEF SelectFails, SInv
<1>1. PICK f \in read_fd_set \ {ServerFd} : file[f] = NoConn
  OBVIOUS
<1>2. PICK c \in Clients : f = fd[c]
  BY <1>1 DEF WatchOK
<1>3. Shut = {}
  BY DEF Shut
<1> QED
  BY <1>1, <1>2, <1>3 DEF FileOK

\* The cell that is served has not been freed.
LEMMA SerialRecvOnFreed ==
  ASSUME Serial, SInv, RecvOnFreed
  PROVE  FALSE
BY DEF RecvOnFreed, SInv, LoopOK, ListOK

\* The loop of the pings comes to no freed cell.
LEMMA SerialSendToFreed ==
  ASSUME Serial, SInv, SendToFreed(Exec)
  PROVE  FALSE
BY SerialFacts DEF SendToFreed, SInv, LoopOK, ListOK, WatchOK, AInv, TypeOK,
   CellTypeOK

\* The main thread finds the execute thread running.
LEMMA SerialQuit ==
  ASSUME Serial, SInv, Quit
  PROVE  FALSE
BY DEF Quit, SInv, LoopOK

-----------------------------------------------------------------------------
(* The theorems.                                                           *)

\* SInv holds when the service starts.
LEMMA SInvInit == Serial /\ Init => SInv
<1> SUFFICES ASSUME Serial, Init PROVE SInv
  OBVIOUS
<1> USE ServerAssumption DEF Init
<1>1. AInv
  BY AInvInit
<1>2. Exec \in Threads /\ Clients = {} /\ DOMAIN client_infos = {}
  BY DEF Threads, Clients, Range
<1>3. Doomed = {} /\ Reported = {} /\ Shut = {} /\ ~InClose
  BY <1>2 DEF Doomed, Reported, Shut, InClose
<1>4. ListOK /\ FileOK /\ WatchOK
  BY <1>2, <1>3 DEF ListOK, FileOK, WatchOK
<1>5. LoopOK /\ SignalOK
  BY <1>2, <1>3 DEF LoopOK, SignalOK
<1>6. MailOK /\ HeardOK
  BY DEF MailOK, HeardOK
<1> QED
  BY <1>1, <1>4, <1>5, <1>6 DEF SInv

\* Every step keeps it.
LEMMA SInvStep == Serial /\ SInv /\ [Next]_vars => SInv'
<1> SUFFICES ASSUME Serial, SInv, [Next]_vars PROVE SInv'
  OBVIOUS
<1>0. AInv'
  BY AInvStep DEF SInv
<1>1. CASE UNCHANGED vars
  <2> USE <1>1 DEF vars, kernelVars, cellVars, loopVars, frameVars, toldVars
  <2>1. /\ Clients' = Clients /\ Doomed' = Doomed
        /\ Reported' = Reported /\ Shut' = Shut /\ InClose' = InClose
    BY DEF Clients, Doomed, Reported, Shut, InClose
  <2>2. ListOK' /\ FileOK' /\ WatchOK'
    BY <2>1 DEF SInv, ListOK, FileOK, WatchOK
  <2>3. LoopOK' /\ SignalOK'
    BY <2>1 DEF SInv, LoopOK, SignalOK
  <2>4. MailOK' /\ HeardOK'
    BY DEF SInv, MailOK, HeardOK
  <2> QED
    BY <1>0, <2>2, <2>3, <2>4 DEF SInv
<1>2. CASE PeerStep \/ Tick
  <2>1. SOK'
    BY <1>0, <1>2, SerialConnect, SerialGreet, SerialDetect, SerialClientSend,
       SerialLeave, SerialTick DEF PeerStep
  <2> QED
    BY <1>0, <2>1 DEF SOK, SInv
<1>3. CASE Subroutine(Exec)
  <2>1. SOK'
    BY <1>0, <1>3, SerialFindAndNotify, SerialCloseFd, SerialUnlink,
       SerialSendOk, SerialSendFails, SerialSendToFreed, SerialSendAllDone
       DEF Subroutine
  <2> QED
    BY <1>0, <2>1 DEF SOK, SInv
<1>4. CASE ExecStep /\ ~Subroutine(Exec)
  <2>1. SOK'
    BY <1>0, <1>4, SerialCopy, SerialSelect, SerialSelectFails, SerialAccept,
       SerialAcceptFails, SerialAssertClients, SerialFindSender,
       SerialServiceDone, SerialRecvDisconnect, SerialRecvBad, SerialRecvUuid,
       SerialIdentify, SerialRecvData, SerialRecvOnFreed, SerialPing
       DEF ExecStep
  <2> QED
    BY <1>0, <2>1 DEF SOK, SInv
<1>5. CASE Quit \/ \E t \in Callers : CallerStep(t)
  BY <1>5, SerialQuit DEF Serial
<1> QED
  BY <1>1, <1>2, <1>3, <1>4, <1>5 DEF Next

\* SInv is an invariant of the server that no other thread uses.
THEOREM SInvAlways == ASSUME Serial PROVE Spec => []SInv
<1>1. Init => SInv
  BY SInvInit
<1>2. SInv /\ [Next]_vars => SInv'
  BY SInvStep
<1> QED
  BY <1>1, <1>2, PTL DEF Spec

\* A server whose list only its own thread uses never dies: the assert that a
\* readable descriptor has a client (320), the unchecked search of
\* close_client_conn (243), the assert after accept() (523) and select() on a
\* closed descriptor (484) all go well.
THEOREM ServerStaysUpAlways == ASSUME Serial PROVE Spec => []ServerStaysUp
<1>1. SInv => ServerStaysUp
  BY DEF SInv, LoopOK, ServerStaysUp
<1> QED
  BY <1>1, SInvAlways, PTL

\* The cell the execute thread is closing is the one the search finds.
LEMMA ClosingFacts == ASSUME Serial, SInv PROVE Closing = Reported
<1>1. CASE pc[Exec] \in {"close", "unlink"}
  BY <1>1, DoomedFacts DEF InClose, Closing, Reported
<1>2. CASE pc[Exec] \notin {"close", "unlink"}
  BY <1>2 DEF Closing, Reported
<1> QED
  BY <1>1, <1>2

\* No descriptor leaks and none is watched in vain: the list, the descriptor
\* table and active_fd_set agree, but for the cell close_client_conn is at.
THEOREM DescriptorsMatchListAlways ==
  ASSUME Serial PROVE Spec => []DescriptorsMatchList
<1>1. SInv => DescriptorsMatchList
  <2> SUFFICES ASSUME SInv PROVE DescriptorsMatchList
    OBVIOUS
  <2> USE SerialFacts, ClosingFacts DEF SInv
  <2>1. \A i, j \in DOMAIN client_infos :
          i # j => fd[client_infos[i]] # fd[client_infos[j]]
    BY DEF ListOK, Clients, Range
  <2>2. Shut \subseteq Closing
    BY DEF Shut, Reported
  <2> QED
    BY <2>1, <2>2 DEF DescriptorsMatchList, WatchOK, FileOK
<1> QED
  BY <1>1, SInvAlways, PTL

\* The subscribers' view is the list: each identified client is announced
\* once, and withdrawn once before its cell is freed.
THEOREM SignalsMatchListAlways ==
  ASSUME Serial PROVE Spec => []SignalsMatchList
<1>1. SInv => SignalsMatchList
  <2> SUFFICES ASSUME SInv, NEW c \in Conns
               PROVE  /\ c \in Clients \ Closing => disconnects[c] = 0
                      /\ c \in Clients /\ pc[Exec] # "identify" =>
                           connects[c] = IF recv_uuid[c] THEN 1 ELSE 0
                      /\ c \in freed => connects[c] = disconnects[c]
                                          /\ connects[c] \in {0, 1}
    BY DEF SignalsMatchList
  <2>1. connects[c] \in {0, 1} /\ connects[c] \in Nat
    BY DEF SInv, AInv, AnnounceOK, TypeOK, ToldTypeOK
  <2>2. pc[Exec] # "identify" => connects[c] = IF recv_uuid[c] THEN 1 ELSE 0
    BY <2>1 DEF SInv, AInv, AnnounceOK
  <2>3. Closing = Reported
    BY ClosingFacts
  <2> QED
    BY <2>1, <2>2, <2>3 DEF SInv, SignalOK
<1> QED
  BY <1>1, SInvAlways, PTL

\* Data is reported under the UUID of the device that sent it, however often
\* descriptor numbers are used again.
THEOREM RightSenderAlways == ASSUME Serial PROVE Spec => []RightSender
<1>1. SInv => RightSender
  BY DEF SInv, HeardOK, AInv, TypeOK, ToldTypeOK, RightSender
<1> QED
  BY <1>1, SInvAlways, PTL

-----------------------------------------------------------------------------
(* The refinement.                                                         *)

\* Each step of the server announces, reports or withdraws one connection of
\* the contract, or does nothing there.
LEMMA ContractStep ==
  Serial /\ SInv /\ [Next]_vars =>
    [Contract!Next]_<<session, heardOf>>
<1> SUFFICES ASSUME Serial, SInv, [Next]_vars
             PROVE  [Contract!Next]_<<session, heardOf>>
  OBVIOUS
<1> USE SerialFacts DEF heardOf
<1>0. UNCHANGED toldVars => UNCHANGED <<session, heardOf>>
  BY DEF toldVars, session
<1>1. CASE RecvUuid
  <2> DEFINE c == client[Exec]
  <2>1. c \in Conns /\ c \in Clients /\ UNCHANGED <<disconnects, rx>>
    BY <1>1 DEF RecvUuid, SInv, LoopOK
  <2>2. CASE ~IsNew(c)
    BY <1>0, <1>1, <2>1, <2>2 DEF RecvUuid, toldVars
  <2>3. CASE IsNew(c)
    <3>1. connects' = [connects EXCEPT ![c] = @ + 1]
      BY <1>1, <2>3 DEF RecvUuid
    <3>2. connects[c] = 0 /\ disconnects[c] = 0
      BY <1>1, <2>1, <2>3
         DEF RecvUuid, IsNew, SInv, AInv, AnnounceOK, TypeOK, ToldTypeOK
    <3>3. session[c] = "absent"
      BY <2>1, <3>2 DEF session
    <3>4. session' = [session EXCEPT ![c] = "present"]
      <4>1. /\ connects'[c] = 1 /\ disconnects'[c] = 0
            /\ \A k \in Conns \ {c} : connects'[k] = connects[k]
        BY <2>1, <3>1, <3>2 DEF SInv, AInv, TypeOK, ToldTypeOK
      <4>2. ASSUME NEW k \in Conns
            PROVE  session'[k] = [session EXCEPT ![c] = "present"][k]
        BY <2>1, <4>1 DEF session
      <4> HIDE DEF c
      <4> QED
        BY <4>2 DEF session
    <3> QED
      BY <2>1, <3>3, <3>4 DEF Contract!Next, Contract!Announce
  <2> QED
    BY <2>2, <2>3
<1>2. CASE RecvData
  <2> DEFINE c == client[Exec]
  <2>1. /\ c \in Clients /\ c \in Conns /\ file[client_fd[Exec]] = c
        /\ Reported = {}
    BY <1>2 DEF RecvData, SInv, LoopOK, FileOK, Shut, Reported
  <2>2. /\ UNCHANGED <<connects, disconnects>>
        /\ rx' = rx \cup {<<c, c>>}
    BY <1>2, <2>1 DEF RecvData
  <2>3. connects[c] = 1 /\ disconnects[c] = 0
    BY <1>2, <2>1 DEF RecvData, Has, Incoming, SInv, MailOK, SignalOK, AInv,
       AnnounceOK, TypeOK, ToldTypeOK
  <2>4. session[c] = "present" /\ UNCHANGED session
    BY <2>1, <2>2, <2>3 DEF session
  <2>5. heardOf' = heardOf \cup {c}
    <3>1. <<c, c>>[1] = c
      OBVIOUS
    <3>2. {p[1] : p \in rx'} = {p[1] : p \in rx} \cup {c}
      BY <2>2, <3>1, Zenon
    <3> QED
      BY <3>2
  <2> QED
    BY <2>1, <2>4, <2>5 DEF Contract!Next, Contract!Report, Contract!Known
<1>3. CASE FindAndNotify(Exec)
  <2>0. InClose
    BY <1>3 DEF FindAndNotify, InClose
  <2>1. PICK c \in Clients : /\ Doomed = {c}
                             /\ find_client_by_fd(client_fd[Exec]) = c
    BY <2>0, DoomedFacts
  <2>2. disconnects' = AfterNotify(c) /\ UNCHANGED <<connects, rx>>
    BY <1>3, <2>1 DEF FindAndNotify
  <2>3. CASE ~recv_uuid[c]
    BY <1>0, <2>2, <2>3 DEF AfterNotify, toldVars
  <2>4. CASE recv_uuid[c]
    <3>1. disconnects' = [disconnects EXCEPT ![c] = @ + 1]
      BY <2>2, <2>4 DEF AfterNotify
    <3>2. connects[c] = 1 /\ disconnects[c] = 0
      BY <1>3, <2>1, <2>4
         DEF FindAndNotify, Reported, SInv, SignalOK, AInv, AnnounceOK
    <3>3. session[c] = "present"
      BY <2>1, <3>2 DEF session
    <3>4. session' = [session EXCEPT ![c] = "past"]
      <4>1. /\ disconnects'[c] = 1
            /\ \A k \in Conns \ {c} : disconnects'[k] = disconnects[k]
        BY <2>1, <3>1, <3>2 DEF SInv, AInv, TypeOK, ToldTypeOK
      <4>2. ASSUME NEW k \in Conns
            PROVE  session'[k] = [session EXCEPT ![c] = "past"][k]
        BY <2>1, <2>2, <4>1 DEF session
      <4> QED
        BY <4>2 DEF session
    <3> QED
      BY <2>1, <2>2, <3>3, <3>4
         DEF Contract!Next, Contract!Withdraw, Contract!Known
  <2> QED
    BY <2>3, <2>4
<1>4. CASE UNCHANGED vars
  BY <1>0, <1>4 DEF vars, toldVars
<1> QED
  BY <1>0, <1>1, <1>2, <1>3, <1>4, QuietSteps

\* Alone, the execute thread implements the strict form of SignalContract: of
\* every connection the user hears one connect, then data, then one disconnect,
\* or nothing.  ServerImplementsRacing is about the server with its callers.
THEOREM ServerImplementsContract == ASSUME Serial PROVE Spec => ContractSpec
<1>1. Init => Contract!Init
  BY DEF Init, Contract!Init, session
<1>2. SInv /\ [Next]_vars => [Contract!Next]_<<session, heardOf>>
  BY ContractStep
<1> QED
  BY <1>1, <1>2, SInvAlways, PTL
     DEF Spec, ContractSpec, Contract!Spec, heardOf

=============================================================================
