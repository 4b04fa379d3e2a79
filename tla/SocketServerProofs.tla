------------------------- MODULE SocketServerProofs -------------------------
(***************************************************************************)
(* Theorems about SocketServer, for any number of connections, devices,    *)
(* descriptors and caller threads.                                         *)
(***************************************************************************)
EXTENDS SocketServer, SequenceTheorems, WellFoundedInduction, TLAPS

-----------------------------------------------------------------------------
(* Lemmas about the operators of the model.                                *)

\* A non-empty set of numbers has a first: a search of the list, or of a
\* descriptor set, stops at an element it looks for.
LEMMA FirstOfLemma ==
  ASSUME NEW I \in SUBSET Nat, I # {}
  PROVE  FirstOf(I) \in I /\ \A j \in I : FirstOf(I) <= j
<1>1. \E i \in I : \A j \in I : ~ (<<j, i>> \in OpToRel(<, Nat))
  BY NatLessThanWellFounded, WFMin
<1>2. \E i \in I : \A j \in I : i <= j
  <2>1. PICK i \in I : \A j \in I : ~ (<<j, i>> \in OpToRel(<, Nat))
    BY <1>1
  <2>2. ASSUME NEW j \in I, ~ (i <= j)  PROVE FALSE
    <3>1. j \in Nat /\ i \in Nat /\ j < i
      BY <2>2
    <3>2. <<j, i>> \in OpToRel(<, Nat)
      BY <3>1 DEF OpToRel
    <3> QED
      BY <2>1, <3>2
  <2> QED
    BY <2>2
<1> QED
  BY <1>2 DEF FirstOf

\* Unlinking one cell leaves a list of cells that were there before.
LEMMA WithoutLemma ==
  ASSUME NEW S, NEW s \in Seq(S), NEW i \in DOMAIN s
  PROVE  /\ Without(s, i) \in Seq(S)
         /\ DOMAIN Without(s, i) = 1 .. Len(s) - 1
         /\ \A j \in 1 .. Len(s) - 1 :
              Without(s, i)[j] = IF j < i THEN s[j] ELSE s[j + 1]
         /\ \A j \in DOMAIN Without(s, i) : \E k \in DOMAIN s :
              Without(s, i)[j] = s[k]
<1>1. /\ Len(s) \in Nat /\ DOMAIN s = 1 .. Len(s) /\ i \in 1 .. Len(s)
      /\ \A j \in 1 .. Len(s) : s[j] \in S
  BY LenProperties, ElementOfSeq
<1>2. Without(s, i) \in [1 .. Len(s) - 1 -> S]
  BY <1>1 DEF Without
<1>3. Without(s, i) \in Seq(S)
  BY <1>1, <1>2, SeqDef, Len(s) - 1 \in Nat
<1>4. \A j \in 1 .. Len(s) - 1 :
        /\ Without(s, i)[j] = IF j < i THEN s[j] ELSE s[j + 1]
        /\ j \in DOMAIN s /\ j + 1 \in DOMAIN s
  BY <1>1 DEF Without
<1> QED
  BY <1>2, <1>3, <1>4

\* client->next is NULL or a cell of the list.
LEMMA NextInLemma ==
  ASSUME NEW S, NEW s \in Seq(S), NEW c
  PROVE  NextIn(s, c) # NoConn => \E j \in DOMAIN s : NextIn(s, c) = s[j]
<1> DEFINE I == {i \in 1 .. Len(s) - 1 : s[i] = c}
<1>1. Len(s) \in Nat /\ DOMAIN s = 1 .. Len(s)
  BY LenProperties
<1>2. CASE I # {}
  <2>0. I \in SUBSET Nat
    BY <1>1
  <2>1. FirstOf(I) \in I
    BY <2>0, <1>2, FirstOfLemma
  <2>2. NextIn(s, c) = s[FirstOf(I) + 1] /\ FirstOf(I) + 1 \in DOMAIN s
    BY <1>1, <1>2, <2>1 DEF NextIn
  <2> QED
    BY <2>2
<1>3. CASE I = {}
  BY <1>3 DEF NextIn
<1> QED
  BY <1>2, <1>3

\* A search by descriptor or by UUID returns NULL or a cell of the list.
LEMMA FindLemma ==
  ASSUME client_infos \in Seq(Conns)
  PROVE  /\ \A f : find_client_by_fd(f) # NoConn =>
              \E i \in DOMAIN client_infos :
                 find_client_by_fd(f) = client_infos[i] /\ i \in Matches(f)
         /\ \A d : find_client_by_uuid(d) # NoConn =>
              \E i \in DOMAIN client_infos :
                 find_client_by_uuid(d) = client_infos[i]
<1>1. DOMAIN client_infos \subseteq Nat
  BY LenProperties
<1>2. ASSUME NEW f, find_client_by_fd(f) # NoConn
      PROVE  \E i \in DOMAIN client_infos :
                find_client_by_fd(f) = client_infos[i] /\ i \in Matches(f)
  <2>1. Matches(f) # {} /\ Matches(f) \in SUBSET Nat
    BY <1>1, <1>2 DEF find_client_by_fd, Matches
  <2>2. FirstOf(Matches(f)) \in Matches(f)
    BY <2>1, FirstOfLemma
  <2> QED
    BY <2>1, <2>2 DEF find_client_by_fd, Matches
<1>3. ASSUME NEW d, find_client_by_uuid(d) # NoConn
      PROVE  \E i \in DOMAIN client_infos :
                find_client_by_uuid(d) = client_infos[i]
  <2> DEFINE I == {i \in DOMAIN client_infos : uuid[client_infos[i]] = d}
  <2>1. I # {} /\ I \in SUBSET Nat
    BY <1>1, <1>3 DEF find_client_by_uuid
  <2>2. FirstOf(I) \in I
    BY <2>1, FirstOfLemma
  <2> QED
    BY <2>1, <2>2 DEF find_client_by_uuid
<1> QED
  BY <1>2, <1>3


-----------------------------------------------------------------------------
(* The inductive invariant behind the theorems for any set of callers.     *)

\* The locals of each thread are what its next step needs: descriptors that
\* accept() once returned, a connection to accept, a client to serve.
FrameOK ==
  /\ \A i \in DOMAIN client_infos : fd[client_infos[i]] \in Fds
  /\ \A t \in Threads : client[t] # NoConn => fd[client[t]] \in Fds
  /\ \A t \in Threads :
       pc[t] \in {"find", "close", "unlink"} => client_fd[t] \in Fds
  /\ pc[Exec] \in {"recv", "identify"} =>
       client[Exec] # NoConn /\ client_fd[Exec] \in Fds
  /\ pc[Exec] \notin {"copy", "select", "done", "quit"}
       /\ ServerFd \in read_fd_set => backlog # <<>>

\* A connection waits for accept() once, before it has a descriptor.
ArrivalOK ==
  /\ \A i, j \in DOMAIN backlog : i # j => backlog[i] # backlog[j]
  /\ \A i \in DOMAIN backlog : fd[backlog[i]] = -1
  /\ \A c \in Conns : peer[c] = "unborn" =>
       fd[c] = -1 /\ \A i \in DOMAIN backlog : backlog[i] # c

\* A client is announced in the step that makes the execute thread set its
\* recv_uuid next, and nothing clears recv_uuid before the cell is freed.
AnnounceOK ==
  /\ pc[Exec] = "identify" => connects[client[Exec]] = 1
  /\ \A c \in Conns :
       /\ connects[c] <= 1
       /\ recv_uuid[c] => connects[c] = 1
       /\ connects[c] > 0 =>
            /\ fd[c] # -1
            /\ recv_uuid[c] \/ (pc[Exec] = "identify" /\ client[Exec] = c)
       /\ disconnects[c] > 0 => connects[c] = 1

AInv == TypeOK /\ FrameOK /\ ArrivalOK /\ AnnounceOK

\* The list and the backlog are sequences of connections.
LEMMA SeqFacts ==
  ASSUME TypeOK
  PROVE  /\ Len(client_infos) \in Nat
         /\ DOMAIN client_infos = 1 .. Len(client_infos)
         /\ \A i \in DOMAIN client_infos : client_infos[i] \in Conns
         /\ Len(backlog) \in Nat /\ DOMAIN backlog = 1 .. Len(backlog)
         /\ \A i \in DOMAIN backlog : backlog[i] \in Conns
BY LenProperties, ElementOfSeq DEF TypeOK, KernelTypeOK, CellTypeOK

\* The execute thread is a thread and no caller; -1 and the server socket are no
\* descriptors of clients.
LEMMA ThreadFacts ==
  /\ \A t \in Callers : t \in Threads /\ t # Exec
  /\ Exec \in Threads
  /\ -1 \notin Fds /\ ServerFd \notin Fds
BY ServerAssumption DEF Threads

\* The invariant holds when the service starts.
THEOREM AInvInit == Init => AInv
<1> SUFFICES ASSUME Init PROVE AInv
  OBVIOUS
<1> USE ServerAssumption DEF Init
<1>1. TypeOK
  BY EmptySeq DEF TypeOK, KernelTypeOK, CellTypeOK, ThreadTypeOK, ToldTypeOK,
     Pcs, Faults, Threads
<1>2. FrameOK
  BY DEF FrameOK, Threads
<1>3. ArrivalOK
  BY DEF ArrivalOK
<1>4. AnnounceOK
  BY DEF AnnounceOK, Threads
<1> QED
  BY <1>1, <1>2, <1>3, <1>4 DEF AInv

\* The death of the process changes nothing but fault.
LEMMA AInvDie ==
  ASSUME AInv, NEW why \in Faults, Die(why)
  PROVE  AInv'
<1> USE DEF AInv, Die, kernelVars, cellVars, loopVars, frameVars, toldVars
<1>1. TypeOK'
  BY DEF TypeOK, KernelTypeOK, CellTypeOK, ThreadTypeOK, ToldTypeOK
<1>2. FrameOK' /\ ArrivalOK' /\ AnnounceOK'
  BY DEF FrameOK, ArrivalOK, AnnounceOK
<1> QED
  BY <1>1, <1>2

\* A new connection joins the backlog, which did not hold it.
LEMMA AInvConnect ==
  ASSUME AInv, NEW c \in Conns, NEW d \in Devices, Connect(c, d)
  PROVE  AInv'
<1> USE ServerAssumption, SeqFacts, ThreadFacts DEF AInv, Connect, vars,
    kernelVars, cellVars, loopVars, frameVars, toldVars, peerFrame, callFrame
<1>1. KernelTypeOK' /\ CellTypeOK'
  BY AppendProperties DEF TypeOK, KernelTypeOK, CellTypeOK
<1>2. ThreadTypeOK' /\ ToldTypeOK'
  BY AppendProperties DEF TypeOK, CellTypeOK, ThreadTypeOK, ToldTypeOK, Pcs,
     Faults
<1>3. FrameOK'
  <2>1. backlog' # <<>>
    BY AppendProperties DEF TypeOK, KernelTypeOK
  <2> QED
    BY <2>1 DEF FrameOK
<1>4. ArrivalOK'
  <2> DEFINE n == Len(backlog) + 1
  <2>1. /\ backlog \in Seq(Conns) /\ Len(backlog) \in Nat
        /\ DOMAIN backlog = 1 .. Len(backlog)
    BY DEF TypeOK, KernelTypeOK
  <2>2. /\ DOMAIN backlog' = 1 .. n /\ backlog'[n] = c
        /\ \A i \in DOMAIN backlog : backlog'[i] = backlog[i]
    BY <2>1, AppendProperties
  <2>3. /\ fd[c] = -1 /\ fd' = fd
        /\ \A i \in DOMAIN backlog : backlog[i] # c
        /\ peer' = [peer EXCEPT ![c] = "up"]
    BY DEF ArrivalOK
  <2>4. \A i, j \in DOMAIN backlog' : i # j => backlog'[i] # backlog'[j]
    BY <2>1, <2>2, <2>3 DEF ArrivalOK
  <2>5. \A i \in DOMAIN backlog' : fd'[backlog'[i]] = -1
    BY <2>1, <2>2, <2>3 DEF ArrivalOK
  <2>6. ASSUME NEW k \in Conns, peer'[k] = "unborn"
        PROVE  fd'[k] = -1 /\ \A i \in DOMAIN backlog' : backlog'[i] # k
    <3>1. k # c /\ peer[k] = "unborn"
      BY <2>3, <2>6 DEF TypeOK, KernelTypeOK
    <3> QED
      BY <2>1, <2>2, <2>3, <3>1 DEF ArrivalOK
  <2> QED
    BY <2>4, <2>5, <2>6 DEF ArrivalOK
<1>5. AnnounceOK'
  BY AppendProperties DEF TypeOK, ThreadTypeOK, AnnounceOK
<1> QED
  BY <1>1, <1>2, <1>3, <1>4, <1>5 DEF TypeOK

\* The UUID arrives in an inbox.
LEMMA AInvGreet ==
  ASSUME AInv, NEW c \in Conns, Greet(c)
  PROVE  AInv'
<1> USE ServerAssumption, SeqFacts, ThreadFacts DEF AInv, Greet, vars,
    kernelVars, cellVars, loopVars, frameVars, toldVars, peerFrame, callFrame
<1>1. KernelTypeOK' /\ CellTypeOK'
  BY DEF TypeOK, KernelTypeOK, CellTypeOK
<1>2. ThreadTypeOK' /\ ToldTypeOK'
  BY DEF TypeOK, CellTypeOK, ThreadTypeOK, ToldTypeOK, Pcs, Faults
<1>3. FrameOK'
  BY DEF TypeOK, CellTypeOK, ThreadTypeOK, FrameOK
<1>4. ArrivalOK'
  BY DEF TypeOK, KernelTypeOK, CellTypeOK, ArrivalOK
<1>5. AnnounceOK'
  BY DEF TypeOK, ThreadTypeOK, AnnounceOK
<1> QED
  BY <1>1, <1>2, <1>3, <1>4, <1>5 DEF TypeOK

\* A message arrives in an inbox.
LEMMA AInvClientSend ==
  ASSUME AInv, NEW c \in Conns, NEW m \in ClientMsgs, ClientSend(c, m)
  PROVE  AInv'
<1> USE ServerAssumption, SeqFacts, ThreadFacts DEF AInv, ClientSend, vars,
    kernelVars, cellVars, loopVars, frameVars, toldVars, peerFrame, callFrame
<1>1. KernelTypeOK' /\ CellTypeOK'
  BY DEF TypeOK, KernelTypeOK, CellTypeOK
<1>2. ThreadTypeOK' /\ ToldTypeOK'
  BY DEF TypeOK, CellTypeOK, ThreadTypeOK, ToldTypeOK, Pcs, Faults
<1>3. FrameOK'
  BY DEF TypeOK, CellTypeOK, ThreadTypeOK, FrameOK
<1>4. ArrivalOK'
  BY DEF TypeOK, KernelTypeOK, CellTypeOK, ArrivalOK
<1>5. AnnounceOK'
  BY DEF TypeOK, ThreadTypeOK, AnnounceOK
<1> QED
  BY <1>1, <1>2, <1>3, <1>4, <1>5 DEF TypeOK

\* A peer goes; its last message may be cut.
LEMMA AInvLeave ==
  ASSUME AInv, NEW c \in Conns, NEW how \in {"gone", "closed"}, Leave(c, how)
  PROVE  AInv'
<1> USE ServerAssumption, SeqFacts, ThreadFacts DEF AInv, Leave, vars,
    kernelVars, cellVars, loopVars, frameVars, toldVars, peerFrame, callFrame
<1>1. KernelTypeOK' /\ CellTypeOK'
  <2>1. peer' \in [Conns -> {"unborn", "up", "gone", "closed"}]
    BY DEF TypeOK, KernelTypeOK
  <2>2. inbox' \in [Conns -> Seq({"uuid", "data", "bad", "cut"})]
    <3>1. Append(inbox[c], "cut") \in Seq({"uuid", "data", "bad", "cut"})
      BY AppendProperties DEF TypeOK, KernelTypeOK
    <3> QED
      BY <3>1 DEF TypeOK, KernelTypeOK
  <2> QED
    BY <2>1, <2>2 DEF TypeOK, KernelTypeOK, CellTypeOK
<1>2. ThreadTypeOK' /\ ToldTypeOK'
  BY DEF TypeOK, CellTypeOK, ThreadTypeOK, ToldTypeOK, Pcs, Faults
<1>3. FrameOK'
  BY DEF TypeOK, CellTypeOK, ThreadTypeOK, FrameOK
<1>4. ArrivalOK'
  BY DEF TypeOK, KernelTypeOK, CellTypeOK, ArrivalOK
<1>5. AnnounceOK'
  BY DEF TypeOK, ThreadTypeOK, AnnounceOK
<1> QED
  BY <1>1, <1>2, <1>3, <1>4, <1>5 DEF TypeOK

\* The kernel gives a peer up.
LEMMA AInvDetect ==
  ASSUME AInv, NEW c \in Conns, Detect(c)
  PROVE  AInv'
<1> USE ServerAssumption, SeqFacts, ThreadFacts DEF AInv, Detect, vars,
    kernelVars, cellVars, loopVars, frameVars, toldVars, peerFrame, callFrame
<1>1. KernelTypeOK' /\ CellTypeOK'
  BY DEF TypeOK, KernelTypeOK, CellTypeOK
<1>2. ThreadTypeOK' /\ ToldTypeOK'
  BY DEF TypeOK, CellTypeOK, ThreadTypeOK, ToldTypeOK, Pcs, Faults
<1>3. FrameOK'
  BY DEF TypeOK, CellTypeOK, ThreadTypeOK, FrameOK
<1>4. ArrivalOK'
  BY DEF TypeOK, KernelTypeOK, CellTypeOK, ArrivalOK
<1>5. AnnounceOK'
  BY DEF TypeOK, ThreadTypeOK, AnnounceOK
<1> QED
  BY <1>1, <1>2, <1>3, <1>4, <1>5 DEF TypeOK

\* Time passes.
LEMMA AInvTick ==
  ASSUME AInv, Tick
  PROVE  AInv'
<1> USE ServerAssumption, SeqFacts, ThreadFacts DEF AInv, Tick, vars,
    kernelVars, cellVars, loopVars, frameVars, toldVars, peerFrame, callFrame
<1>1. KernelTypeOK' /\ CellTypeOK'
  BY DEF TypeOK, KernelTypeOK, CellTypeOK
<1>2. ThreadTypeOK' /\ ToldTypeOK'
  BY DEF TypeOK, CellTypeOK, ThreadTypeOK, ToldTypeOK, Pcs, Faults
<1>3. FrameOK'
  BY DEF TypeOK, CellTypeOK, ThreadTypeOK, FrameOK
<1>4. ArrivalOK'
  BY DEF TypeOK, KernelTypeOK, CellTypeOK, ArrivalOK
<1>5. AnnounceOK'
  BY DEF TypeOK, ThreadTypeOK, AnnounceOK
<1> QED
  BY <1>1, <1>2, <1>3, <1>4, <1>5 DEF TypeOK

\* close() touches the descriptor table and the kernel only.
LEMMA AInvCloseFd ==
  ASSUME AInv, NEW t \in Threads, CloseFd(t)
  PROVE  AInv'
<1> USE ServerAssumption, SeqFacts, ThreadFacts DEF AInv, CloseFd, Goto, vars,
    kernelVars, cellVars, loopVars, frameVars, toldVars, peerFrame, callFrame
<1>1. KernelTypeOK' /\ CellTypeOK'
  BY EmptySeq DEF TypeOK, KernelTypeOK, CellTypeOK
<1>2. ThreadTypeOK' /\ ToldTypeOK'
  BY EmptySeq DEF TypeOK, CellTypeOK, ThreadTypeOK, ToldTypeOK, Pcs, Faults
<1>3. FrameOK'
  BY EmptySeq DEF TypeOK, CellTypeOK, ThreadTypeOK, FrameOK
<1>4. ArrivalOK'
  BY EmptySeq DEF TypeOK, KernelTypeOK, CellTypeOK, ArrivalOK
<1>5. AnnounceOK'
  BY EmptySeq DEF TypeOK, ThreadTypeOK, AnnounceOK
<1> QED
  BY <1>1, <1>2, <1>3, <1>4, <1>5 DEF TypeOK

\* A send succeeds; the loop goes on to a cell of the list or to its end.
LEMMA AInvSendOk ==
  ASSUME AInv, NEW t \in Threads, SendOk(t)
  PROVE  AInv'
<1> USE ServerAssumption, SeqFacts, ThreadFacts DEF AInv, SendOk, Goto, vars,
    kernelVars, cellVars, loopVars, frameVars, toldVars, peerFrame, callFrame
<1>1. KernelTypeOK' /\ CellTypeOK'
  <2>1. client[t] \in Conns /\ fd[client[t]] \in Fds
    BY DEF TypeOK, ThreadTypeOK, FrameOK
  <2>2. file[fd[client[t]]] \in Conns
    BY <2>1 DEF TypeOK, CellTypeOK
  <2> QED
    BY <2>2 DEF TypeOK, KernelTypeOK, CellTypeOK
<1>2. ThreadTypeOK' /\ ToldTypeOK'
  <2>1. NextIn(client_infos, client[t]) \in Conns \cup {NoConn}
    BY NextInLemma DEF TypeOK, CellTypeOK
  <2> QED
    BY <2>1 DEF TypeOK, ThreadTypeOK, ToldTypeOK, Pcs
<1>3. FrameOK'
  BY NextInLemma DEF TypeOK, CellTypeOK, ThreadTypeOK, FrameOK
<1>4. ArrivalOK'
  BY NextInLemma DEF TypeOK, KernelTypeOK, CellTypeOK, ArrivalOK
<1>5. AnnounceOK'
  BY NextInLemma DEF TypeOK, ThreadTypeOK, AnnounceOK
<1> QED
  BY <1>1, <1>2, <1>3, <1>4, <1>5 DEF TypeOK

\* A send fails; the descriptor of a cell, not -1, is handed to
\* close_client_conn.
LEMMA AInvSendFails ==
  ASSUME AInv, NEW t \in Threads, SendFails(t)
  PROVE  AInv'
<1> USE ServerAssumption, SeqFacts, ThreadFacts DEF AInv, SendFails, Goto,
    CallClose, vars, kernelVars, cellVars, loopVars, frameVars, toldVars,
    peerFrame, callFrame
<1>1. KernelTypeOK' /\ CellTypeOK'
  BY DEF TypeOK, KernelTypeOK, CellTypeOK
<1>2. ThreadTypeOK' /\ ToldTypeOK'
  BY DEF TypeOK, CellTypeOK, ThreadTypeOK, ToldTypeOK, Pcs, Faults
<1>3. FrameOK'
  BY DEF TypeOK, CellTypeOK, ThreadTypeOK, FrameOK
<1>4. ArrivalOK'
  BY DEF TypeOK, KernelTypeOK, CellTypeOK, ArrivalOK
<1>5. AnnounceOK'
  BY DEF TypeOK, ThreadTypeOK, AnnounceOK
<1> QED
  BY <1>1, <1>2, <1>3, <1>4, <1>5 DEF TypeOK

\* The end of the loop; the execute thread goes back to its start.
LEMMA AInvSendAllDone ==
  ASSUME AInv, NEW t \in Threads, SendAllDone(t)
  PROVE  AInv'
<1> USE ServerAssumption, SeqFacts, ThreadFacts DEF AInv, SendAllDone, Goto,
    vars, kernelVars, cellVars, loopVars, frameVars, toldVars, peerFrame,
    callFrame
<1>1. KernelTypeOK' /\ CellTypeOK'
  BY DEF TypeOK, KernelTypeOK, CellTypeOK
<1>2. ThreadTypeOK' /\ ToldTypeOK'
  BY DEF TypeOK, CellTypeOK, ThreadTypeOK, ToldTypeOK, Pcs, Faults
<1>3. FrameOK'
  BY DEF TypeOK, CellTypeOK, ThreadTypeOK, FrameOK
<1>4. ArrivalOK'
  BY DEF TypeOK, KernelTypeOK, CellTypeOK, ArrivalOK
<1>5. AnnounceOK'
  BY DEF TypeOK, ThreadTypeOK, AnnounceOK
<1> QED
  BY <1>1, <1>2, <1>3, <1>4, <1>5 DEF TypeOK

\* A caller begins to send to one client.
LEMMA AInvCallSendData ==
  ASSUME AInv, NEW t \in Callers, NEW d \in Devices, CallSendData(t, d)
  PROVE  AInv'
<1> USE ServerAssumption, SeqFacts, ThreadFacts DEF AInv, CallSendData, Goto,
    vars, kernelVars, cellVars, loopVars, frameVars, toldVars, peerFrame,
    callFrame
<1>1. KernelTypeOK' /\ CellTypeOK'
  BY FindLemma DEF TypeOK, KernelTypeOK, CellTypeOK
<1>2. ThreadTypeOK' /\ ToldTypeOK'
  BY FindLemma DEF TypeOK, CellTypeOK, ThreadTypeOK, ToldTypeOK, Pcs, Faults
<1>3. FrameOK'
  BY FindLemma DEF TypeOK, CellTypeOK, ThreadTypeOK, FrameOK
<1>4. ArrivalOK'
  BY FindLemma DEF TypeOK, KernelTypeOK, CellTypeOK, ArrivalOK
<1>5. AnnounceOK'
  BY FindLemma DEF TypeOK, ThreadTypeOK, AnnounceOK
<1> QED
  BY <1>1, <1>2, <1>3, <1>4, <1>5 DEF TypeOK

\* A caller begins to send to all.
LEMMA AInvCallSendDataAll ==
  ASSUME AInv, NEW t \in Callers, CallSendDataAll(t)
  PROVE  AInv'
<1> USE ServerAssumption, SeqFacts, ThreadFacts DEF AInv, CallSendDataAll,
    Goto, vars, kernelVars, cellVars, loopVars, frameVars, toldVars, peerFrame,
    callFrame
<1>1. KernelTypeOK' /\ CellTypeOK'
  BY DEF TypeOK, KernelTypeOK, CellTypeOK
<1>2. ThreadTypeOK' /\ ToldTypeOK'
  <2>1. client_infos[1] \in Conns
    BY EmptySeq DEF TypeOK, CellTypeOK
  <2> QED
    BY <2>1 DEF TypeOK, ThreadTypeOK, ToldTypeOK, Pcs
<1>3. FrameOK'
  BY DEF TypeOK, CellTypeOK, ThreadTypeOK, FrameOK
<1>4. ArrivalOK'
  BY DEF TypeOK, KernelTypeOK, CellTypeOK, ArrivalOK
<1>5. AnnounceOK'
  BY DEF TypeOK, ThreadTypeOK, AnnounceOK
<1> QED
  BY <1>1, <1>2, <1>3, <1>4, <1>5 DEF TypeOK

\* The copy of the descriptor set is of descriptors.
LEMMA AInvCopy ==
  ASSUME AInv, Copy
  PROVE  AInv'
<1> USE ServerAssumption, SeqFacts, ThreadFacts DEF AInv, Copy, Goto, vars,
    kernelVars, cellVars, loopVars, frameVars, toldVars, peerFrame, callFrame
<1>1. KernelTypeOK' /\ CellTypeOK'
  BY DEF TypeOK, KernelTypeOK, CellTypeOK
<1>2. ThreadTypeOK' /\ ToldTypeOK'
  BY DEF TypeOK, CellTypeOK, ThreadTypeOK, ToldTypeOK, Pcs, Faults
<1>3. FrameOK'
  BY DEF TypeOK, CellTypeOK, ThreadTypeOK, FrameOK
<1>4. ArrivalOK'
  BY DEF TypeOK, KernelTypeOK, CellTypeOK, ArrivalOK
<1>5. AnnounceOK'
  BY DEF TypeOK, ThreadTypeOK, AnnounceOK
<1> QED
  BY <1>1, <1>2, <1>3, <1>4, <1>5 DEF TypeOK

\* select() only removes descriptors; the server socket stays only if a
\* connection is waiting.
LEMMA AInvSelect ==
  ASSUME AInv, Select
  PROVE  AInv'
<1> USE ServerAssumption, SeqFacts, ThreadFacts DEF AInv, Select, Goto,
    Readable, vars, kernelVars, cellVars, loopVars, frameVars, toldVars,
    peerFrame, callFrame
<1>1. KernelTypeOK' /\ CellTypeOK'
  BY DEF TypeOK, KernelTypeOK, CellTypeOK
<1>2. ThreadTypeOK' /\ ToldTypeOK'
  BY DEF TypeOK, CellTypeOK, ThreadTypeOK, ToldTypeOK, Pcs, Faults
<1>3. FrameOK'
  BY DEF TypeOK, CellTypeOK, ThreadTypeOK, FrameOK
<1>4. ArrivalOK'
  BY DEF TypeOK, KernelTypeOK, CellTypeOK, ArrivalOK
<1>5. AnnounceOK'
  BY DEF TypeOK, ThreadTypeOK, AnnounceOK
<1> QED
  BY <1>1, <1>2, <1>3, <1>4, <1>5 DEF TypeOK

\* The loop of the execute thread ends.
LEMMA AInvSelectFails ==
  ASSUME AInv, SelectFails
  PROVE  AInv'
<1> USE ServerAssumption, SeqFacts, ThreadFacts DEF AInv, SelectFails, Goto,
    vars, kernelVars, cellVars, loopVars, frameVars, toldVars, peerFrame,
    callFrame
<1>1. KernelTypeOK' /\ CellTypeOK'
  BY DEF TypeOK, KernelTypeOK, CellTypeOK
<1>2. ThreadTypeOK' /\ ToldTypeOK'
  BY DEF TypeOK, CellTypeOK, ThreadTypeOK, ToldTypeOK, Pcs, Faults
<1>3. FrameOK'
  BY DEF TypeOK, CellTypeOK, ThreadTypeOK, FrameOK
<1>4. ArrivalOK'
  BY DEF TypeOK, KernelTypeOK, CellTypeOK, ArrivalOK
<1>5. AnnounceOK'
  BY DEF TypeOK, ThreadTypeOK, AnnounceOK
<1> QED
  BY <1>1, <1>2, <1>3, <1>4, <1>5 DEF TypeOK

\* The end of service_sockets.
LEMMA AInvServiceDone ==
  ASSUME AInv, ServiceDone
  PROVE  AInv'
<1> USE ServerAssumption, SeqFacts, ThreadFacts DEF AInv, ServiceDone, Goto,
    vars, kernelVars, cellVars, loopVars, frameVars, toldVars, peerFrame,
    callFrame
<1>1. KernelTypeOK' /\ CellTypeOK'
  BY DEF TypeOK, KernelTypeOK, CellTypeOK
<1>2. ThreadTypeOK' /\ ToldTypeOK'
  BY DEF TypeOK, CellTypeOK, ThreadTypeOK, ToldTypeOK, Pcs, Faults
<1>3. FrameOK'
  BY DEF TypeOK, CellTypeOK, ThreadTypeOK, FrameOK
<1>4. ArrivalOK'
  BY DEF TypeOK, KernelTypeOK, CellTypeOK, ArrivalOK
<1>5. AnnounceOK'
  BY DEF TypeOK, ThreadTypeOK, AnnounceOK
<1> QED
  BY <1>1, <1>2, <1>3, <1>4, <1>5 DEF TypeOK

\* The descriptor being served is handed to close_client_conn.
LEMMA AInvRecvDisconnect ==
  ASSUME AInv, RecvDisconnect
  PROVE  AInv'
<1> USE ServerAssumption, SeqFacts, ThreadFacts DEF AInv, RecvDisconnect,
    CallClose, Goto, vars, kernelVars, cellVars, loopVars, frameVars, toldVars,
    peerFrame, callFrame
<1>1. KernelTypeOK' /\ CellTypeOK'
  BY DEF TypeOK, KernelTypeOK, CellTypeOK
<1>2. ThreadTypeOK' /\ ToldTypeOK'
  BY DEF TypeOK, CellTypeOK, ThreadTypeOK, ToldTypeOK, Pcs, Faults
<1>3. FrameOK'
  BY DEF TypeOK, CellTypeOK, ThreadTypeOK, FrameOK
<1>4. ArrivalOK'
  BY DEF TypeOK, KernelTypeOK, CellTypeOK, ArrivalOK
<1>5. AnnounceOK'
  BY DEF TypeOK, ThreadTypeOK, AnnounceOK
<1> QED
  BY <1>1, <1>2, <1>3, <1>4, <1>5 DEF TypeOK

\* recv_uuid becomes true of a client that was just announced.
LEMMA AInvIdentify ==
  ASSUME AInv, Identify
  PROVE  AInv'
<1> USE ServerAssumption, SeqFacts, ThreadFacts DEF AInv, Identify, Goto,
    EndFrame, vars, kernelVars, cellVars, loopVars, frameVars, toldVars,
    peerFrame, callFrame
<1>1. KernelTypeOK' /\ CellTypeOK'
  BY DEF TypeOK, KernelTypeOK, CellTypeOK
<1>2. ThreadTypeOK' /\ ToldTypeOK'
  BY DEF TypeOK, CellTypeOK, ThreadTypeOK, ToldTypeOK, Pcs, Faults
<1>3. FrameOK'
  BY DEF TypeOK, CellTypeOK, ThreadTypeOK, FrameOK
<1>4. ArrivalOK'
  BY DEF TypeOK, KernelTypeOK, CellTypeOK, ArrivalOK
<1>5. AnnounceOK'
  <2>1. pc'[Exec] = "service" /\ client[Exec] \in Conns
    BY DEF TypeOK, ThreadTypeOK, FrameOK
  <2>2. ASSUME NEW c \in Conns
        PROVE  /\ connects[c] <= 1
               /\ recv_uuid'[c] => connects[c] = 1
               /\ connects[c] > 0 => fd[c] # -1 /\ recv_uuid'[c]
               /\ disconnects[c] > 0 => connects[c] = 1
    <3>1. CASE c = client[Exec]
      BY <2>1, <3>1 DEF AnnounceOK, TypeOK, CellTypeOK
    <3>2. CASE c # client[Exec]
      BY <3>2 DEF AnnounceOK, TypeOK, CellTypeOK
    <3> QED
      BY <3>1, <3>2
  <2> QED
    BY <2>1, <2>2 DEF AnnounceOK
<1> QED
  BY <1>1, <1>2, <1>3, <1>4, <1>5 DEF TypeOK

\* The ping round begins at the head of the list.
LEMMA AInvPing ==
  ASSUME AInv, Ping
  PROVE  AInv'
<1> USE ServerAssumption, SeqFacts, ThreadFacts DEF AInv, Ping, Goto, PingNow,
    vars, kernelVars, cellVars, loopVars, frameVars, toldVars, peerFrame,
    callFrame
<1>1. KernelTypeOK' /\ CellTypeOK'
  BY DEF TypeOK, KernelTypeOK, CellTypeOK
<1>2. ThreadTypeOK' /\ ToldTypeOK'
  <2>1. client_infos # <<>> => client_infos[1] \in Conns
    BY EmptySeq DEF TypeOK, CellTypeOK
  <2> QED
    BY <2>1 DEF TypeOK, ThreadTypeOK, ToldTypeOK, Pcs
<1>3. FrameOK'
  BY DEF TypeOK, CellTypeOK, ThreadTypeOK, FrameOK
<1>4. ArrivalOK'
  BY DEF TypeOK, KernelTypeOK, CellTypeOK, ArrivalOK
<1>5. AnnounceOK'
  BY DEF TypeOK, ThreadTypeOK, AnnounceOK
<1> QED
  BY <1>1, <1>2, <1>3, <1>4, <1>5 DEF TypeOK

\* socket_server_quit frees the cells.
LEMMA AInvQuit ==
  ASSUME AInv, Quit
  PROVE  AInv'
<1> USE ServerAssumption, SeqFacts, ThreadFacts DEF AInv, Quit, Goto, vars,
    kernelVars, cellVars, loopVars, frameVars, toldVars, peerFrame, callFrame
<1>1. KernelTypeOK' /\ CellTypeOK'
  <2>1. file' \in [Fds -> Conns \cup {NoConn}]
    BY DEF TypeOK, CellTypeOK
  <2>2. peer' \in [Conns -> {"unborn", "up", "gone", "closed"}]
    BY DEF TypeOK, KernelTypeOK
  <2>3. freed' \subseteq Conns
    BY DEF TypeOK, CellTypeOK, Range
  <2> QED
    BY <2>1, <2>2, <2>3, EmptySeq DEF TypeOK, KernelTypeOK, CellTypeOK
<1>2. ThreadTypeOK' /\ ToldTypeOK'
  BY DEF TypeOK, CellTypeOK, ThreadTypeOK, ToldTypeOK, Pcs, Faults
<1>3. FrameOK'
  BY DEF TypeOK, CellTypeOK, ThreadTypeOK, FrameOK
<1>4. ArrivalOK'
  BY DEF TypeOK, KernelTypeOK, CellTypeOK, ArrivalOK
<1>5. AnnounceOK'
  BY DEF TypeOK, ThreadTypeOK, AnnounceOK
<1> QED
  BY <1>1, <1>2, <1>3, <1>4, <1>5 DEF TypeOK

\* The disconnect callback is called for a client that was announced.
LEMMA AInvFindAndNotify ==
  ASSUME AInv, NEW t \in Threads, FindAndNotify(t)
  PROVE  AInv'
<1> DEFINE c == find_client_by_fd(client_fd[t])
<1>1. CASE ListDangles
  BY <1>1, AInvDie DEF FindAndNotify, Faults
<1>2. CASE ~ListDangles /\ c = NoConn
  BY <1>2, AInvDie DEF FindAndNotify, Faults
<1>3. CASE ~ListDangles /\ c # NoConn
  <2> USE ServerAssumption, SeqFacts, ThreadFacts DEF AInv, vars, kernelVars,
      cellVars, loopVars, frameVars, toldVars
  <2>1. /\ disconnects' = AfterNotify(c)
        /\ Goto(t, "close")
        /\ UNCHANGED <<kernelVars, file, client_infos, cellVars, active_fd_set,
                       loopVars, frameVars, fault, connects, rx>>
    BY <1>3 DEF FindAndNotify
  <2>2. c \in Conns
    BY <1>3, FindLemma DEF TypeOK, CellTypeOK
  <2>3. TypeOK'
    <3>1. disconnects' \in [Conns -> Nat]
      BY <2>1, <2>2 DEF TypeOK, ToldTypeOK, AfterNotify
    <3>2. pc' \in [Threads -> Pcs]
      BY <2>1 DEF TypeOK, ThreadTypeOK, Pcs, Goto
    <3> QED
      BY <2>1, <3>1, <3>2
         DEF TypeOK, KernelTypeOK, CellTypeOK, ThreadTypeOK, ToldTypeOK
  <2>4. FrameOK'
    BY <1>3, <2>1 DEF TypeOK, ThreadTypeOK, FrameOK, Goto, FindAndNotify
  <2>5. ArrivalOK'
    BY <2>1 DEF ArrivalOK
  <2>6. AnnounceOK'
    <3>1. disconnects' = disconnects
            \/ /\ recv_uuid[c]
               /\ disconnects' = [disconnects EXCEPT ![c] = @ + 1]
      BY <2>1 DEF AfterNotify
    <3>2. pc'[Exec] = "identify" <=> pc[Exec] = "identify"
      BY <1>3, <2>1 DEF FindAndNotify, Goto, TypeOK, ThreadTypeOK
    <3> QED
      BY <2>1, <2>2, <3>1, <3>2 DEF AnnounceOK, TypeOK, ToldTypeOK
  <2> QED
    BY <2>3, <2>4, <2>5, <2>6
<1> QED
  BY <1>1, <1>2, <1>3

\* One cell leaves the list; the loop goes on to a cell that was in it.
LEMMA AInvUnlink ==
  ASSUME AInv, NEW t \in Threads, Unlink(t)
  PROVE  AInv'
<1> DEFINE I == Matches(client_fd[t])
           i == FirstOf(I)
           list == IF I = {} THEN client_infos ELSE Without(client_infos, i)
<1>1. CASE \E j, k \in I : j # k
  BY <1>1, AInvDie DEF Unlink, Faults
<1>2. CASE /\ ~ \E j, k \in I : j # k
           /\ ListDangles \/ (ret[t] = "send_all" /\ client[t] \in freed)
  BY <1>2, AInvDie DEF Unlink, Faults
<1>3. CASE /\ ~ \E j, k \in I : j # k
           /\ ~ (ListDangles \/ (ret[t] = "send_all" /\ client[t] \in freed))
  <2> USE ServerAssumption, SeqFacts, ThreadFacts DEF AInv, vars, kernelVars,
      cellVars, loopVars, frameVars, toldVars
  <2>1. /\ active_fd_set' = FdClr(client_fd[t])
        /\ client_infos' = list
        /\ freed' = IF I = {} THEN freed ELSE freed \cup {client_infos[i]}
        /\ client' = [client EXCEPT ![t] =
             IF ret[t] # "send_all" THEN NoConn
             ELSE IF I # {} /\ client_infos[i] = @
             THEN NextIn(client_infos, @)
             ELSE NextIn(list, @)]
        /\ client_fd' = [client_fd EXCEPT ![t] = -1]
        /\ ret' = [ret EXCEPT ![t] = "service"]
        /\ Goto(t, ret[t])
        /\ UNCHANGED <<kernelVars, file, fd, uuid, recv_uuid, loopVars, fault,
                       toldVars>>
    BY <1>3 DEF Unlink
  <2>2. I # {} => i \in DOMAIN client_infos
    <3>1. I \in SUBSET Nat
      BY DEF Matches
    <3> QED
      BY <3>1, FirstOfLemma DEF Matches
  <2>3. /\ list \in Seq(Conns)
        /\ \A j \in DOMAIN list : \E k \in DOMAIN client_infos :
             list[j] = client_infos[k]
    BY <2>2, WithoutLemma DEF TypeOK, CellTypeOK
  <2>4. \A c : /\ NextIn(client_infos, c) # NoConn =>
                    \E k \in DOMAIN client_infos :
                       NextIn(client_infos, c) = client_infos[k]
               /\ NextIn(list, c) # NoConn =>
                    \E k \in DOMAIN list : NextIn(list, c) = list[k]
    <3>1. client_infos \in Seq(Conns)
      BY DEF TypeOK, CellTypeOK
    <3>2. ASSUME NEW c
          PROVE  NextIn(client_infos, c) # NoConn =>
                   \E k \in DOMAIN client_infos :
                      NextIn(client_infos, c) = client_infos[k]
      BY ONLY <3>1, NextInLemma
    <3>3. ASSUME NEW c
          PROVE  NextIn(list, c) # NoConn =>
                   \E k \in DOMAIN list : NextIn(list, c) = list[k]
      BY ONLY <2>3, NextInLemma
    <3> QED
      BY ONLY <3>2, <3>3
  <2>5. client'[t] # NoConn =>
          \E k \in DOMAIN client_infos : client'[t] = client_infos[k]
    <3>1. client'[t] = IF ret[t] # "send_all" THEN NoConn
                       ELSE IF I # {} /\ client_infos[i] = client[t]
                       THEN NextIn(client_infos, client[t])
                       ELSE NextIn(list, client[t])
      BY <2>1 DEF TypeOK, ThreadTypeOK
    <3>2. CASE client'[t] = NextIn(client_infos, client[t])
      BY <2>4, <3>2
    <3>3. CASE client'[t] = NextIn(list, client[t])
      BY <2>3, <2>4, <3>3
    <3> QED
      BY <3>1, <3>2, <3>3
  <2>6. KernelTypeOK' /\ ToldTypeOK'
    BY <2>1 DEF TypeOK, KernelTypeOK, ToldTypeOK
  <2>7. CellTypeOK'
    BY <2>1, <2>2, <2>3 DEF TypeOK, CellTypeOK
  <2>8. client' \in [Threads -> Conns \cup {NoConn}]
    <3>1. client'[t] \in Conns \cup {NoConn}
      BY <2>5
    <3> QED
      BY <2>1, <3>1 DEF TypeOK, ThreadTypeOK
  <2>9. ThreadTypeOK'
    BY <2>1, <2>8 DEF TypeOK, ThreadTypeOK, FdClr, Goto, Pcs
  <2>10. FrameOK'
    <3>1. \A k \in DOMAIN client_infos' : fd'[client_infos'[k]] \in Fds
      BY <2>1, <2>3 DEF FrameOK
    <3>2. ASSUME NEW u \in Threads, client'[u] # NoConn
          PROVE  fd'[client'[u]] \in Fds
      <4>1. CASE u = t
        BY <2>1, <2>5, <3>2, <4>1 DEF FrameOK
      <4>2. CASE u # t
        BY <2>1, <3>2, <4>2 DEF FrameOK, TypeOK, ThreadTypeOK
      <4> QED
        BY <4>1, <4>2
    <3>3. ASSUME NEW u \in Threads, pc'[u] \in {"find", "close", "unlink"}
          PROVE  client_fd'[u] \in Fds
      BY <2>1, <3>3 DEF FrameOK, TypeOK, ThreadTypeOK, Goto
    <3>4. pc'[Exec] \in {"recv", "identify"} =>
            client'[Exec] # NoConn /\ client_fd'[Exec] \in Fds
      BY <2>1 DEF FrameOK, TypeOK, ThreadTypeOK, Goto
    <3>5. pc'[Exec] \notin {"copy", "select", "done", "quit"}
            /\ ServerFd \in read_fd_set' => backlog' # <<>>
      <4>1. pc[Exec] \in {"copy", "select", "done", "quit"} => t # Exec
        BY <1>3 DEF Unlink
      <4> QED
        BY <2>1, <4>1 DEF FrameOK, TypeOK, ThreadTypeOK, Goto
    <3> QED
      BY <3>1, <3>2, <3>3, <3>4, <3>5 DEF FrameOK
  <2>11. ArrivalOK'
    BY <2>1 DEF ArrivalOK
  <2>12. AnnounceOK'
    <3>1. pc[Exec] = "identify" => t # Exec
      BY <1>3 DEF Unlink
    <3>2. (pc'[Exec] = "identify" <=> pc[Exec] = "identify")
            /\ (pc[Exec] = "identify" => client'[Exec] = client[Exec])
      BY <2>1, <3>1 DEF Goto, TypeOK, ThreadTypeOK
    <3> QED
      BY <2>1, <3>2 DEF AnnounceOK
  <2> QED
    BY <2>6, <2>7, <2>9, <2>10, <2>11, <2>12 DEF TypeOK
<1> QED
  BY <1>1, <1>2, <1>3

\* A send through a freed cell ends the process.
LEMMA AInvSendToFreed ==
  ASSUME AInv, NEW t \in Threads, SendToFreed(t)
  PROVE  AInv'
BY AInvDie DEF SendToFreed, Faults

\* A call after socket_server_quit ends the process.
LEMMA AInvCallOnDanglingList ==
  ASSUME AInv, NEW t \in Callers, CallOnDanglingList(t)
  PROVE  AInv'
BY AInvDie DEF CallOnDanglingList, Faults

\* A message for a freed cell ends the process.
LEMMA AInvRecvOnFreed ==
  ASSUME AInv, RecvOnFreed
  PROVE  AInv'
BY AInvDie DEF RecvOnFreed, Faults

\* The assert after accept().
LEMMA AInvAssertClients ==
  ASSUME AInv, AssertClients
  PROVE  AInv'
<1>1. CASE client_infos = <<>>
  BY <1>1, AInvDie DEF AssertClients, Faults
<1>2. CASE client_infos # <<>>
  <2> USE <1>2, ServerAssumption, ThreadFacts DEF AInv, AssertClients, Goto,
      vars, kernelVars, cellVars, loopVars, frameVars, toldVars
  <2>1. TypeOK'
    <3>1. KernelTypeOK' /\ CellTypeOK' /\ ToldTypeOK'
      BY DEF TypeOK, KernelTypeOK, CellTypeOK, ToldTypeOK
    <3>2. ThreadTypeOK'
      BY DEF TypeOK, ThreadTypeOK, Pcs
    <3> QED
      BY <3>1, <3>2 DEF TypeOK
  <2>2. FrameOK' /\ ArrivalOK' /\ AnnounceOK'
    BY DEF TypeOK, ThreadTypeOK, FrameOK, ArrivalOK, AnnounceOK
  <2> QED
    BY <2>1, <2>2
<1> QED
  BY <1>1, <1>2

\* process_recv_msg has a client of the list, or ends the process.
LEMMA AInvFindSender ==
  ASSUME AInv, FindSender
  PROVE  AInv'
<1> DEFINE c == find_client_by_fd(NextReady)
<1>1. CASE c = NoConn
  BY <1>1, AInvDie DEF FindSender, Faults
<1>2. CASE c # NoConn
  <2> USE ServerAssumption, SeqFacts, ThreadFacts DEF AInv, vars, kernelVars,
      cellVars, loopVars, frameVars, toldVars
  <2>1. /\ pc[Exec] = "service"
        /\ read_fd_set # {} /\ NextReady # ServerFd
        /\ client' = [client EXCEPT ![Exec] = c]
        /\ client_fd' = [client_fd EXCEPT ![Exec] = NextReady]
        /\ read_fd_set' = read_fd_set \ {NextReady}
        /\ Goto(Exec, "recv")
        /\ UNCHANGED <<kernelVars, file, client_infos, cellVars,
                       active_fd_set, ping_due, ret, fault, toldVars>>
    BY <1>2 DEF FindSender
  <2>2. NextReady \in Fds
    <3>1. read_fd_set \in SUBSET Nat
      BY DEF TypeOK, ThreadTypeOK
    <3>2. NextReady \in read_fd_set
      BY <2>1, <3>1, FirstOfLemma DEF NextReady
    <3> QED
      BY <2>1, <3>2 DEF TypeOK, ThreadTypeOK
  <2>3. c \in Conns /\ fd[c] \in Fds
    BY <1>2, FindLemma DEF TypeOK, CellTypeOK, FrameOK
  <2>4. TypeOK'
    BY <2>1, <2>2, <2>3
       DEF TypeOK, KernelTypeOK, CellTypeOK, ThreadTypeOK, ToldTypeOK, Pcs, Goto
  <2>5. FrameOK'
    BY <2>1, <2>2, <2>3 DEF FrameOK, TypeOK, ThreadTypeOK, Goto
  <2>6. ArrivalOK' /\ AnnounceOK'
    BY <2>1 DEF ArrivalOK, AnnounceOK, TypeOK, ThreadTypeOK, Goto
  <2> QED
    BY <2>4, <2>5, <2>6
<1> QED
  BY <1>1, <1>2

\* The head of the backlog gets a cell, and was never announced before.
LEMMA AInvAccept ==
  ASSUME AInv, Accept
  PROVE  AInv'
<1> USE ServerAssumption, SeqFacts, ThreadFacts DEF AInv, vars, kernelVars,
    cellVars, loopVars, frameVars, toldVars
<1> DEFINE c == Head(backlog)
           f == FirstOf(FreeFds)
<1>1. /\ pc[Exec] = "service" /\ ServerFd \in read_fd_set
      /\ backlog' = Tail(backlog)
      /\ file' = [file EXCEPT ![f] = c]
      /\ fd' = [fd EXCEPT ![c] = f]
      /\ recv_uuid' = [recv_uuid EXCEPT ![c] = FALSE]
      /\ uuid' = [uuid EXCEPT ![c] = NoDevice]
      /\ active_fd_set' = FdSet(f)
      /\ client_infos' = Append(client_infos, c)
      /\ read_fd_set' = read_fd_set \ {ServerFd}
      /\ Goto(Exec, "accepted")
      /\ UNCHANGED <<peer, device, greeted, inbox, unacked, freed, ping_due,
                     frameVars, fault, toldVars>>
  <2>1. read_fd_set \in SUBSET Nat
    BY DEF TypeOK, ThreadTypeOK
  <2>2. ServerFd \in read_fd_set
    BY <2>1, FirstOfLemma DEF Accept, NextReady
  <2> QED
    BY <2>2 DEF Accept
<1>2. f \in Fds
  <2>1. FreeFds \in SUBSET Nat /\ FreeFds # {}
    BY DEF FreeFds, Accept
  <2> QED
    BY <2>1, FirstOfLemma DEF FreeFds
<1>3. /\ backlog # <<>> /\ c \in Conns /\ c = backlog[1]
      /\ 1 \in DOMAIN backlog /\ fd[c] = -1
      /\ Tail(backlog) \in Seq(Conns)
      /\ Len(Tail(backlog)) = Len(backlog) - 1
      /\ DOMAIN Tail(backlog) = 1 .. Len(backlog) - 1
      /\ \A i \in DOMAIN Tail(backlog) :
           i + 1 \in DOMAIN backlog /\ Tail(backlog)[i] = backlog[i + 1]
  <2>1. backlog # <<>>
    BY <1>1 DEF FrameOK
  <2>2. /\ c \in Conns /\ Tail(backlog) \in Seq(Conns)
        /\ Len(Tail(backlog)) = Len(backlog) - 1
        /\ \A i \in 1 .. Len(Tail(backlog)) : Tail(backlog)[i] = backlog[i + 1]
    BY <2>1, HeadTailProperties DEF TypeOK, KernelTypeOK
  <2>3. DOMAIN Tail(backlog) = 1 .. Len(Tail(backlog))
    BY <2>2, LenProperties
  <2>4. Len(backlog) > 0
    BY <2>1, EmptySeq DEF TypeOK, KernelTypeOK
  <2> QED
    BY <2>1, <2>2, <2>3, <2>4 DEF ArrivalOK
<1>4. /\ Append(client_infos, c) \in Seq(Conns)
      /\ DOMAIN Append(client_infos, c) = 1 .. Len(client_infos) + 1
      /\ \A i \in 1 .. Len(client_infos) :
           Append(client_infos, c)[i] = client_infos[i]
      /\ Append(client_infos, c)[Len(client_infos) + 1] = c
  <2>1. Append(client_infos, c) \in Seq(Conns)
          /\ Len(Append(client_infos, c)) = Len(client_infos) + 1
    BY <1>3, AppendProperties DEF TypeOK, CellTypeOK
  <2>2. DOMAIN Append(client_infos, c) = 1 .. Len(Append(client_infos, c))
    BY <2>1, LenProperties
  <2> QED
    BY <1>3, <2>1, <2>2, AppendProperties DEF TypeOK, CellTypeOK
<1>5. TypeOK'
  <2>1. KernelTypeOK' /\ ToldTypeOK'
    BY <1>1, <1>3 DEF TypeOK, KernelTypeOK, ToldTypeOK
  <2>2. CellTypeOK'
    BY <1>1, <1>2, <1>3, <1>4 DEF TypeOK, CellTypeOK
  <2>3. ThreadTypeOK'
    BY <1>1, <1>2 DEF TypeOK, ThreadTypeOK, Pcs, Goto, FdSet
  <2> QED
    BY <2>1, <2>2, <2>3 DEF TypeOK
<1>6. FrameOK'
  <2>1. \A k \in Conns : fd[k] \in Fds => fd'[k] \in Fds
    BY <1>1, <1>2, <1>3 DEF TypeOK, CellTypeOK
  <2>2. fd'[c] \in Fds
    BY <1>1, <1>2, <1>3 DEF TypeOK, CellTypeOK
  <2>3. \A i \in DOMAIN client_infos' : fd'[client_infos'[i]] \in Fds
    BY <1>1, <1>4, <2>1, <2>2 DEF FrameOK
  <2>4. \A t \in Threads : client'[t] # NoConn => fd'[client'[t]] \in Fds
    BY <1>1, <2>1 DEF FrameOK, TypeOK, ThreadTypeOK
  <2> QED
    BY <1>1, <2>3, <2>4 DEF FrameOK, Goto, TypeOK, ThreadTypeOK
<1>7. ArrivalOK'
  <2>1. \A k \in Conns : k # c => fd'[k] = fd[k]
    BY <1>1, <1>3 DEF TypeOK, CellTypeOK
  <2>2. ASSUME NEW i \in DOMAIN backlog'
        PROVE  backlog'[i] # c /\ fd'[backlog'[i]] = -1
    <3>1. /\ backlog'[i] = backlog[i + 1] /\ i \in Nat \ {0}
          /\ i + 1 \in DOMAIN backlog /\ i + 1 # 1
      BY <1>1, <1>3
    <3>2. backlog'[i] \in Conns /\ backlog'[i] # c /\ fd[backlog'[i]] = -1
      BY <1>3, <3>1 DEF ArrivalOK
    <3> QED
      BY <2>1, <3>2
  <2>3. \A k \in Conns : peer[k] = "unborn" => k # c
    BY <1>3 DEF ArrivalOK
  <2> QED
    BY <1>1, <1>3, <2>1, <2>2, <2>3 DEF ArrivalOK
<1>8. AnnounceOK'
  <2>1. connects[c] = 0 /\ pc'[Exec] = "accepted"
    BY <1>1, <1>3
       DEF AnnounceOK, TypeOK, ToldTypeOK, ThreadTypeOK, Goto
  <2>2. ASSUME NEW k \in Conns
        PROVE  /\ connects[k] <= 1
               /\ recv_uuid'[k] => connects[k] = 1
               /\ connects[k] > 0 => fd'[k] # -1 /\ recv_uuid'[k]
               /\ disconnects[k] > 0 => connects[k] = 1
    <3>1. CASE k = c
      BY <1>1, <1>3, <2>1, <3>1 DEF AnnounceOK, TypeOK, CellTypeOK
    <3>2. CASE k # c
      BY <1>1, <1>3, <3>2 DEF AnnounceOK, TypeOK, CellTypeOK
    <3> QED
      BY <3>1, <3>2
  <2> QED
    BY <1>1, <2>1, <2>2 DEF AnnounceOK
<1> QED
  BY <1>5, <1>6, <1>7, <1>8

\* The backlog only shrinks.
LEMMA AInvAcceptFails ==
  ASSUME AInv, AcceptFails
  PROVE  AInv'
<1> USE ServerAssumption, SeqFacts, ThreadFacts DEF AInv, vars, kernelVars,
    cellVars, loopVars, frameVars, toldVars
<1>1. /\ pc[Exec] = "service" /\ ServerFd \in read_fd_set
      /\ read_fd_set' = read_fd_set \ {ServerFd}
      /\ Goto(Exec, "accepted")
      /\ UNCHANGED <<device, greeted, inbox, unacked, file, client_infos,
                     cellVars, active_fd_set, ping_due, frameVars, fault,
                     toldVars>>
  <2>1. read_fd_set \in SUBSET Nat
    BY DEF TypeOK, ThreadTypeOK
  <2>2. ServerFd \in read_fd_set
    BY <2>1, FirstOfLemma DEF AcceptFails, NextReady
  <2> QED
    BY <2>2 DEF AcceptFails
<1>2. \/ UNCHANGED <<backlog, peer>>
      \/ /\ backlog' = Tail(backlog)
         /\ peer' = [peer EXCEPT ![Head(backlog)] = "closed"]
  BY DEF AcceptFails
<1>3. /\ Head(backlog) \in Conns
      /\ Tail(backlog) \in Seq(Conns)
      /\ DOMAIN Tail(backlog) = 1 .. Len(backlog) - 1
      /\ \A i \in DOMAIN Tail(backlog) :
           i + 1 \in DOMAIN backlog /\ Tail(backlog)[i] = backlog[i + 1]
  <2>1. backlog # <<>>
    BY <1>1 DEF FrameOK
  <2>2. /\ Head(backlog) \in Conns /\ Tail(backlog) \in Seq(Conns)
        /\ Len(Tail(backlog)) = Len(backlog) - 1
        /\ \A i \in 1 .. Len(Tail(backlog)) : Tail(backlog)[i] = backlog[i + 1]
    BY <2>1, HeadTailProperties DEF TypeOK, KernelTypeOK
  <2>3. DOMAIN Tail(backlog) = 1 .. Len(Tail(backlog))
    BY <2>2, LenProperties
  <2> QED
    BY <2>2, <2>3
<1>4. TypeOK'
  <2>1. KernelTypeOK'
    BY <1>1, <1>2, <1>3 DEF TypeOK, KernelTypeOK
  <2>2. CellTypeOK' /\ ToldTypeOK'
    BY <1>1 DEF TypeOK, CellTypeOK, ToldTypeOK
  <2>3. ThreadTypeOK'
    BY <1>1 DEF TypeOK, ThreadTypeOK, Pcs, Goto
  <2> QED
    BY <2>1, <2>2, <2>3 DEF TypeOK
<1>5. FrameOK'
  BY <1>1 DEF FrameOK, Goto, TypeOK, ThreadTypeOK
<1>6. ArrivalOK'
  <2>1. CASE UNCHANGED <<backlog, peer>>
    BY <1>1, <2>1 DEF ArrivalOK
  <2>2. CASE /\ backlog' = Tail(backlog)
             /\ peer' = [peer EXCEPT ![Head(backlog)] = "closed"]
    BY <1>1, <1>3, <2>2 DEF ArrivalOK, TypeOK, KernelTypeOK
  <2> QED
    BY <1>2, <2>1, <2>2
<1>7. AnnounceOK'
  BY <1>1 DEF AnnounceOK, Goto, TypeOK, ThreadTypeOK
<1> QED
  BY <1>4, <1>5, <1>6, <1>7

\* Taking a message off a connection that has one.
LEMMA TakeLemma ==
  ASSUME AInv, NEW m \in {"uuid", "data", "bad"},
         pc[Exec] = "recv", Has(m), TakeMessage
  PROVE  /\ client[Exec] \in Conns
         /\ file[client_fd[Exec]] \in Conns
         /\ inbox' \in [Conns -> Seq({"uuid", "data", "bad", "cut"})]
<1> USE ThreadFacts DEF AInv
<1> DEFINE k == file[client_fd[Exec]]
<1>1. client[Exec] \in Conns /\ client_fd[Exec] \in Fds
  BY DEF FrameOK, TypeOK, ThreadTypeOK
<1>2. k \in Conns /\ inbox[k] # <<>>
  BY <1>1 DEF Has, Incoming, TypeOK, CellTypeOK
<1>3. Tail(inbox[k]) \in Seq({"uuid", "data", "bad", "cut"})
  BY <1>2, HeadTailProperties DEF TypeOK, KernelTypeOK
<1> QED
  BY <1>1, <1>2, <1>3 DEF TakeMessage, TypeOK, KernelTypeOK

\* A bad message is dropped.
LEMMA AInvRecvBad ==
  ASSUME AInv, RecvBad
  PROVE  AInv'
<1> USE ThreadFacts DEF AInv, RecvBad, Goto, EndFrame, vars, kernelVars,
    cellVars, loopVars, frameVars, toldVars
<1>1. TypeOK'
  BY TakeLemma
     DEF TypeOK, KernelTypeOK, CellTypeOK, ThreadTypeOK, ToldTypeOK, Pcs
<1>2. FrameOK'
  BY DEF FrameOK, TypeOK, ThreadTypeOK
<1>3. ArrivalOK' /\ AnnounceOK'
  BY DEF ArrivalOK, AnnounceOK, TypeOK, ThreadTypeOK
<1> QED
  BY <1>1, <1>2, <1>3

\* The rx callback names a cell and a connection.
LEMMA AInvRecvData ==
  ASSUME AInv, RecvData
  PROVE  AInv'
<1> USE ThreadFacts DEF AInv, RecvData, Goto, EndFrame, vars, kernelVars,
    cellVars, loopVars, frameVars, toldVars
<1>1. TypeOK'
  <2>1. rx' \subseteq Conns \X Conns
    BY TakeLemma DEF TypeOK, ToldTypeOK
  <2>2. KernelTypeOK' /\ CellTypeOK'
    BY TakeLemma DEF TypeOK, KernelTypeOK, CellTypeOK
  <2>3. ThreadTypeOK'
    BY DEF TypeOK, ThreadTypeOK, Pcs
  <2> QED
    BY <2>1, <2>2, <2>3 DEF TypeOK, ToldTypeOK
<1>2. FrameOK'
  BY DEF FrameOK, TypeOK, ThreadTypeOK
<1>3. ArrivalOK' /\ AnnounceOK'
  BY DEF ArrivalOK, AnnounceOK, TypeOK, ThreadTypeOK
<1> QED
  BY <1>1, <1>2, <1>3

\* A client that is not identified is announced, for the first time.
LEMMA AInvRecvUuid ==
  ASSUME AInv, RecvUuid
  PROVE  AInv'
<1> DEFINE c == client[Exec]
<1> USE ThreadFacts DEF AInv, vars, kernelVars, cellVars, loopVars, frameVars,
    toldVars
<1>1. /\ pc[Exec] = "recv"
      /\ c \in Conns /\ file[client_fd[Exec]] \in Conns
      /\ inbox' \in [Conns -> Seq({"uuid", "data", "bad", "cut"})]
      /\ UNCHANGED <<backlog, peer, device, greeted, unacked, file,
                     client_infos, fd, recv_uuid, freed, active_fd_set,
                     loopVars, ret, fault, disconnects, rx>>
  BY TakeLemma DEF RecvUuid
<1>2. CASE recv_uuid[c]
  <2>1. EndFrame(Exec) /\ Goto(Exec, "service") /\ UNCHANGED <<uuid, connects>>
    BY <1>2 DEF RecvUuid, IsNew
  <2>2. TypeOK'
    BY <1>1, <2>1 DEF TypeOK, KernelTypeOK, CellTypeOK, ThreadTypeOK,
       ToldTypeOK, Pcs, Goto, EndFrame
  <2>3. FrameOK'
    BY <1>1, <2>1 DEF FrameOK, TypeOK, ThreadTypeOK, Goto, EndFrame
  <2>4. ArrivalOK' /\ AnnounceOK'
    BY <1>1, <2>1 DEF ArrivalOK, AnnounceOK, TypeOK, ThreadTypeOK, Goto
  <2> QED
    BY <2>2, <2>3, <2>4
<1>3. CASE ~recv_uuid[c]
  <2>1. /\ uuid' = [uuid EXCEPT ![c] = device[file[client_fd[Exec]]]]
        /\ connects' = [connects EXCEPT ![c] = @ + 1]
        /\ Goto(Exec, "identify")
        /\ UNCHANGED <<client, client_fd>>
    BY <1>3 DEF RecvUuid, IsNew
  <2>2. KernelTypeOK' /\ ThreadTypeOK'
    BY <1>1, <2>1 DEF TypeOK, KernelTypeOK, ThreadTypeOK, Pcs, Goto
  <2>3. CellTypeOK' /\ ToldTypeOK'
    <3>1. uuid' \in [Conns -> Devices \cup {NoDevice}]
      BY <1>1, <2>1 DEF TypeOK, KernelTypeOK, CellTypeOK
    <3>2. connects' \in [Conns -> Nat]
      BY <1>1, <2>1 DEF TypeOK, ToldTypeOK
    <3> QED
      BY <1>1, <3>1, <3>2 DEF TypeOK, CellTypeOK, ToldTypeOK
  <2>4. FrameOK'
    BY <1>1, <2>1 DEF FrameOK, TypeOK, ThreadTypeOK, Goto
  <2>5. ArrivalOK'
    BY <1>1 DEF ArrivalOK
  <2>6. AnnounceOK'
    <3>1. connects[c] = 0 /\ fd[c] \in Fds /\ pc'[Exec] = "identify"
      BY <1>1, <1>3, <2>1
         DEF AnnounceOK, FrameOK, TypeOK, ToldTypeOK, ThreadTypeOK, Goto
    <3>2. /\ connects'[c] = 1
          /\ \A k \in Conns : k # c => connects'[k] = connects[k]
      BY <1>1, <2>1, <3>1 DEF TypeOK, ToldTypeOK
    <3>3. ASSUME NEW k \in Conns
          PROVE  /\ connects'[k] <= 1
                 /\ recv_uuid[k] => connects'[k] = 1
                 /\ connects'[k] > 0 => fd[k] # -1 /\ (recv_uuid[k] \/ c = k)
                 /\ disconnects[k] > 0 => connects'[k] = 1
      <4>1. CASE k = c
        BY <3>1, <3>2, <4>1
      <4>2. CASE k # c
        BY <1>1, <3>2, <4>2 DEF AnnounceOK
      <4> QED
        BY <4>1, <4>2
    <3> QED
      BY <1>1, <2>1, <3>1, <3>2, <3>3 DEF AnnounceOK
  <2> QED
    BY <2>2, <2>3, <2>4, <2>5, <2>6 DEF TypeOK
<1> QED
  BY <1>2, <1>3

-----------------------------------------------------------------------------
(* The theorems.                                                           *)

\* Every step of any thread, peer or timer keeps it.
THEOREM AInvStep == AInv /\ [Next]_vars => AInv'
<1>1. ASSUME AInv, UNCHANGED vars PROVE AInv'
  <2> USE <1>1 DEF AInv, vars, kernelVars, cellVars, loopVars, frameVars,
      toldVars
  <2>1. KernelTypeOK' /\ CellTypeOK'
    BY DEF TypeOK, KernelTypeOK, CellTypeOK
  <2>2. ThreadTypeOK' /\ ToldTypeOK'
    BY DEF TypeOK, ThreadTypeOK, ToldTypeOK
  <2>3. FrameOK'
    BY DEF FrameOK
  <2>4. ArrivalOK' /\ AnnounceOK'
    BY DEF ArrivalOK, AnnounceOK
  <2> QED
    BY <2>1, <2>2, <2>3, <2>4 DEF TypeOK
<1>2. ASSUME AInv, PeerStep PROVE AInv'
  BY <1>2, AInvConnect, AInvGreet, AInvDetect, AInvClientSend, AInvLeave
     DEF PeerStep
<1>3. ASSUME AInv, NEW t \in Threads, Subroutine(t) PROVE AInv'
  BY <1>3, AInvFindAndNotify, AInvCloseFd, AInvUnlink, AInvSendOk,
     AInvSendFails, AInvSendToFreed, AInvSendAllDone DEF Subroutine
<1>4. ASSUME AInv, ExecStep PROVE AInv'
  BY <1>3, <1>4, ThreadFacts, AInvCopy, AInvSelect, AInvSelectFails,
     AInvAccept, AInvAcceptFails, AInvAssertClients, AInvFindSender,
     AInvServiceDone, AInvRecvDisconnect, AInvRecvBad, AInvRecvUuid,
     AInvIdentify, AInvRecvData, AInvRecvOnFreed, AInvPing DEF ExecStep
<1>5. ASSUME AInv, NEW t \in Callers, CallerStep(t) PROVE AInv'
  BY <1>3, <1>5, ThreadFacts, AInvCallSendData, AInvCallSendDataAll,
     AInvCallOnDanglingList DEF CallerStep
<1> QED
  BY <1>1, <1>2, <1>4, <1>5, AInvTick, AInvQuit DEF Next

\* AInv is an invariant of the server.
THEOREM AInvAlways == Spec => []AInv
BY AInvInit, AInvStep, PTL DEF Spec

\* Every variable keeps to its type: no step of a caller leaves the execute
\* thread with a descriptor that accept() never returned, with no connection
\* to accept, or with a NULL client to serve.
THEOREM TypeCorrect == Spec => []TypeOK
<1>1. AInv => TypeOK
  BY DEF AInv
<1> QED
  BY <1>1, AInvAlways, PTL

\* The connect callback is called at most once for a client, and the
\* disconnect callback only after it, whatever the callers of the send
\* functions do (379 to 385 against 246).
THEOREM AnnouncedFirstAlways == Spec => []AnnouncedFirst
<1>1. AInv => AnnouncedFirst
  BY DEF AInv, AnnounceOK, AnnouncedFirst
<1> QED
  BY <1>1, AInvAlways, PTL

\* Only accepting a client and its first UUID message write a UUID.
LEMMA UuidChanges == Next => Accept \/ RecvUuid \/ uuid' = uuid
<1> USE DEF Die, kernelVars, cellVars, loopVars, frameVars, toldVars, peerFrame,
    callFrame
<1>1. PeerStep \/ Tick \/ Quit => uuid' = uuid
  BY DEF PeerStep, Connect, Greet, Detect, ClientSend, Leave, Tick, Quit
<1>2. ASSUME NEW t \in Threads, Subroutine(t) PROVE uuid' = uuid
  BY <1>2 DEF Subroutine, FindAndNotify, CloseFd, Unlink, SendOk, SendFails,
     SendToFreed, SendAllDone
<1>3. ExecStep => Accept \/ RecvUuid \/ uuid' = uuid
  BY <1>2, ThreadFacts DEF ExecStep, Copy, Select, SelectFails, AcceptFails,
     AssertClients, FindSender, ServiceDone, RecvDisconnect, RecvBad, Identify,
     RecvData, RecvOnFreed, Ping
<1>4. ASSUME NEW t \in Callers, CallerStep(t) PROVE uuid' = uuid
  BY <1>2, <1>4, ThreadFacts DEF CallerStep, CallSendData, CallSendDataAll,
     CallOnDanglingList
<1> QED
  BY <1>1, <1>3, <1>4 DEF Next

\* The UUID under which a client was announced is never replaced.
THEOREM UuidKeptAlways == Spec => UuidKept
<1> DEFINE Kept == \A c \in Conns : connects[c] > 0 => uuid'[c] = uuid[c]
<1>1. ASSUME AInv, Accept PROVE Kept
  <2> DEFINE c == Head(backlog)
  <2>1. uuid' = [uuid EXCEPT ![c] = NoDevice]
    BY <1>1 DEF Accept
  <2>2. backlog # <<>>
    <3>1. read_fd_set \in SUBSET Nat
      BY <1>1, ServerAssumption DEF AInv, TypeOK, ThreadTypeOK
    <3>2. ServerFd \in read_fd_set
      BY <1>1, <3>1, FirstOfLemma DEF Accept, NextReady
    <3> QED
      BY <1>1, <3>2 DEF Accept, AInv, FrameOK
  <2>3. 1 \in DOMAIN backlog /\ c = backlog[1] /\ c \in Conns
    BY <1>1, <2>2, EmptySeq, SeqFacts DEF AInv, TypeOK, KernelTypeOK
  <2>4. ~ (connects[c] > 0)
    BY <1>1, <2>3 DEF AInv, ArrivalOK, AnnounceOK
  <2> QED
    BY <1>1, <2>1, <2>4 DEF AInv, TypeOK, CellTypeOK
<1>2. ASSUME AInv, RecvUuid PROVE Kept
  <2>1. CASE recv_uuid[client[Exec]]
    BY <1>2, <2>1 DEF RecvUuid, IsNew
  <2>2. CASE ~recv_uuid[client[Exec]]
    <3>1. uuid' = [uuid EXCEPT ![client[Exec]] = device[file[client_fd[Exec]]]]
      BY <1>2, <2>2 DEF RecvUuid, IsNew
    <3>2. client[Exec] \in Conns /\ ~ (connects[client[Exec]] > 0)
      BY <1>2, <2>2, ThreadFacts
         DEF RecvUuid, AInv, TypeOK, ThreadTypeOK, FrameOK, AnnounceOK
    <3> QED
      BY <1>2, <3>1, <3>2 DEF AInv, TypeOK, CellTypeOK
  <2> QED
    BY <2>1, <2>2
<1>3. AInv /\ [Next]_vars => [Kept]_vars
  BY <1>1, <1>2, UuidChanges
<1> QED
  BY <1>3, AInvAlways, PTL DEF Spec, UuidKept

-----------------------------------------------------------------------------
(* Data after the announcement, whatever the callers do.                   *)

\* The UUID is the next message that k has for the server.
Fresh(k) ==
  IF inbox[k] = <<>> THEN k \notin greeted \/ peer[k] # "up"
  ELSE Head(inbox[k]) = "uuid"

\* A search by its descriptor meets the cell at i of the list.
FirstAt(i) ==
  \A j \in DOMAIN client_infos :
    fd[client_infos[j]] = fd[client_infos[i]] => i <= j

\* A device says nothing before its UUID.
SilentOK ==
  /\ \A c \in Conns : c \notin greeted => inbox[c] = <<>>
  /\ \A c \in Conns : peer[c] = "unborn" => c \notin greeted
  /\ \A i \in DOMAIN backlog : Fresh(backlog[i])

\* A connection has one descriptor, once it has left the backlog.
SocketOK ==
  /\ \A f, g \in Fds : file[f] # NoConn /\ file[f] = file[g] => f = g
  /\ \A f \in Fds : \A i \in DOMAIN backlog : file[f] # backlog[i]
  /\ \A f \in Fds : file[f] # NoConn => peer[file[f]] # "unborn"

\* A cell that is not announced reads a connection, its own or one that has
\* got its descriptor, of which the UUID has not been read.
ReadOK ==
  \A i \in DOMAIN client_infos :
    LET c == client_infos[i]
    IN  FirstAt(i) /\ connects[c] = 0 /\ file[fd[c]] # NoConn =>
          Fresh(file[fd[c]])

\* The execute thread serves the cell that it would find again, or one that has
\* been freed meanwhile.
ServedOK ==
  pc[Exec] = "recv" =>
    \/ client[Exec] \in freed
    \/ \E i \in DOMAIN client_infos :
         /\ FirstAt(i)
         /\ client_infos[i] = client[Exec]
         /\ fd[client_infos[i]] = client_fd[Exec]

RaceOK == SilentOK /\ SocketOK /\ ReadOK /\ ServedOK /\ DataAfterAnnounce

\* A step that leaves the list alone keeps the first three parts when it only
\* closes descriptors, takes from the backlog and reads no UUID.
LEMMA RaceKeep ==
  ASSUME AInv, AInv', RaceOK,
         UNCHANGED <<client_infos, fd, connects>>,
         \A f \in Fds : file'[f] \in {file[f], NoConn},
         \A i \in DOMAIN backlog' : \E j \in DOMAIN backlog :
           backlog'[i] = backlog[j],
         \A c \in Conns : peer'[c] = "unborn" => peer[c] = "unborn",
         \A c \in Conns : Fresh(c) => Fresh(c)',
         \A c \in Conns : c \notin greeted' => inbox'[c] = <<>>,
         \A c \in Conns : peer'[c] = "unborn" => c \notin greeted'
  PROVE  SilentOK' /\ SocketOK' /\ ReadOK'
<1> USE SeqFacts DEF AInv, RaceOK
<1>1. \A i \in DOMAIN backlog : backlog[i] \in Conns
  OBVIOUS
<1>2. /\ file \in [Fds -> Conns \cup {NoConn}] /\ NoConn \notin Conns
      /\ file' \in [Fds -> Conns \cup {NoConn}]
  BY ServerAssumption DEF TypeOK, CellTypeOK
<1>3. SilentOK'
  <2>1. ASSUME NEW i \in DOMAIN backlog'  PROVE Fresh(backlog[i])'
    <3>1. PICK j \in DOMAIN backlog : backlog'[i] = backlog[j]
      OBVIOUS
    <3>2. backlog[j] \in Conns /\ Fresh(backlog[j])
      BY <1>1 DEF SilentOK
    <3>3. \A c \in Conns : c = backlog[j] => Fresh(c)'
      BY <3>2
    <3>4. backlog'[i] \in Conns
      BY <3>1, <3>2
    <3> QED
      BY <3>1, <3>3, <3>4
  <2> QED
    BY <2>1 DEF SilentOK
<1>4. SocketOK'
  <2>1. ASSUME NEW f \in Fds, NEW g \in Fds, file'[f] # NoConn,
               file'[f] = file'[g]
        PROVE  f = g
    BY <1>2, <2>1 DEF SocketOK
  <2>2. ASSUME NEW f \in Fds, NEW i \in DOMAIN backlog', file'[f] = backlog'[i]
        PROVE  FALSE
    <3>1. PICK j \in DOMAIN backlog : backlog'[i] = backlog[j]
      OBVIOUS
    <3>2. file'[f] = file[f]
      BY <1>1, <1>2, <2>2, <3>1
    <3> QED
      BY <2>2, <3>1, <3>2 DEF SocketOK
  <2>3. ASSUME NEW f \in Fds, file'[f] # NoConn, peer'[file'[f]] = "unborn"
        PROVE  FALSE
    <3>1. file'[f] = file[f] /\ file[f] \in Conns
      BY <1>2, <2>3
    <3> QED
      BY <2>3, <3>1 DEF SocketOK
  <2> QED
    BY <2>1, <2>2, <2>3 DEF SocketOK
<1>5. ReadOK'
  <2> SUFFICES ASSUME NEW i \in DOMAIN client_infos', FirstAt(i)',
                      connects'[client_infos'[i]] = 0,
                      file'[fd'[client_infos'[i]]] # NoConn
               PROVE  Fresh(file[fd[client_infos[i]]])'
    BY DEF ReadOK
  <2> DEFINE c == client_infos[i]
  <2>1. /\ i \in DOMAIN client_infos /\ fd[c] \in Fds
        /\ FirstAt(i) /\ connects[c] = 0
    BY DEF FrameOK, FirstAt
  <2>2. /\ file'[fd[c]] = file[fd[c]]
        /\ file[fd[c]] # NoConn /\ file[fd[c]] \in Conns
    BY <1>2, <2>1
  <2>3. Fresh(file[fd[c]])
    BY <2>1, <2>2 DEF ReadOK
  <2>4. \A k \in Conns : k = file[fd[c]] => Fresh(k)'
    BY <2>3
  <2>5. file'[fd'[client_infos'[i]]] = file[fd[c]]
    BY <2>2
  <2>6. file'[fd'[client_infos'[i]]] \in Conns
    BY <2>5, <2>2
  <2> QED
    BY <2>4, <2>5, <2>6
<1> QED
  BY <1>3, <1>4, <1>5

\* The thread that serves goes on with the cell it serves.
LEMMA ServedKeep ==
  ASSUME ServedOK,
         UNCHANGED <<client_infos, fd>>,
         freed \subseteq freed',
         pc'[Exec] = "recv" =>
           /\ pc[Exec] = "recv"
           /\ client'[Exec] = client[Exec] /\ client_fd'[Exec] = client_fd[Exec]
  PROVE  ServedOK'
BY DEF ServedOK, FirstAt

\* A step that touches no connection keeps everything.
LEMMA RaceFrame ==
  ASSUME AInv, AInv', RaceOK,
         UNCHANGED <<backlog, peer, greeted, inbox, file, client_infos, fd,
                     freed, connects, rx>>,
         pc'[Exec] = "recv" =>
           /\ pc[Exec] = "recv"
           /\ client'[Exec] = client[Exec] /\ client_fd'[Exec] = client_fd[Exec]
  PROVE  RaceOK'
<1>1. \A c \in Conns : Fresh(c) => Fresh(c)'
  BY DEF Fresh
<1>2. SilentOK' /\ SocketOK' /\ ReadOK'
  BY <1>1, RaceKeep DEF RaceOK, SilentOK
<1>3. ServedOK'
  BY ServedKeep DEF RaceOK
<1> QED
  BY <1>2, <1>3 DEF RaceOK, DataAfterAnnounce

\* The death of the process changes nothing but fault.
LEMMA RaceDie ==
  ASSUME AInv, AInv', RaceOK, NEW why, Die(why)
  PROVE  RaceOK'
BY RaceFrame DEF Die, kernelVars, cellVars, loopVars, frameVars, toldVars

\* The steps that only move a thread or look something up.
LEMMA RaceQuiet ==
  ASSUME AInv, AInv', RaceOK,
         \/ Tick \/ Copy \/ Select \/ SelectFails \/ ServiceDone \/ Ping
         \/ RecvDisconnect
         \/ \E t \in Callers :
              CallSendDataAll(t) \/ \E d \in Devices : CallSendData(t, d)
         \/ \E t \in Threads : SendOk(t) \/ SendFails(t) \/ SendAllDone(t)
  PROVE  RaceOK'
<1> USE ThreadFacts, RaceFrame DEF AInv, TypeOK, ThreadTypeOK, Goto, CallClose,
    kernelVars, cellVars, loopVars, frameVars, toldVars, callFrame
<1>1. CASE Tick \/ Copy \/ Select \/ SelectFails \/ ServiceDone
  BY <1>1 DEF Tick, Copy, Select, SelectFails, ServiceDone
<1>2. CASE Ping \/ RecvDisconnect
  BY <1>2 DEF Ping, RecvDisconnect
<1>3. ASSUME NEW t \in Callers,
             CallSendDataAll(t) \/ \E d \in Devices : CallSendData(t, d)
      PROVE  RaceOK'
  BY <1>3 DEF CallSendDataAll, CallSendData
<1>4. ASSUME NEW t \in Threads, SendOk(t) PROVE RaceOK'
  BY <1>4 DEF SendOk
<1>5. ASSUME NEW t \in Threads, SendFails(t) \/ SendAllDone(t) PROVE RaceOK'
  BY <1>5 DEF SendFails, SendAllDone
<1> QED
  BY <1>1, <1>2, <1>3, <1>4, <1>5

\* The disconnect callback, or the end of the process.
LEMMA RaceFindAndNotify ==
  ASSUME AInv, AInv', RaceOK, NEW t \in Threads, FindAndNotify(t)
  PROVE  RaceOK'
<1>1. CASE \E why : Die(why)
  BY <1>1, RaceDie
<1>2. CASE /\ Goto(t, "close")
           /\ UNCHANGED <<kernelVars, file, client_infos, cellVars,
                          active_fd_set, loopVars, frameVars, fault, connects,
                          rx>>
  BY <1>2, RaceFrame, ThreadFacts
     DEF AInv, TypeOK, ThreadTypeOK, Goto, kernelVars, cellVars, frameVars
<1> QED
  BY <1>1, <1>2 DEF FindAndNotify

\* The assert holds and the thread goes on, or the process ends.
LEMMA RaceAssertClients ==
  ASSUME AInv, AInv', RaceOK, AssertClients
  PROVE  RaceOK'
<1>1. CASE \E why : Die(why)
  BY <1>1, RaceDie
<1>2. CASE /\ Goto(Exec, "service")
           /\ UNCHANGED <<kernelVars, file, client_infos, cellVars,
                          active_fd_set, loopVars, frameVars, fault, toldVars>>
  BY <1>2, RaceFrame, ThreadFacts
     DEF AInv, TypeOK, ThreadTypeOK, Goto, kernelVars, cellVars, frameVars,
         toldVars
<1> QED
  BY <1>1, <1>2 DEF AssertClients

\* A freed cell is met, and the process ends.
LEMMA RaceFault ==
  ASSUME AInv, AInv', RaceOK,
         \/ RecvOnFreed
         \/ \E t \in Callers : CallOnDanglingList(t)
         \/ \E t \in Threads : SendToFreed(t)
  PROVE  RaceOK'
BY RaceDie DEF RecvOnFreed, CallOnDanglingList, SendToFreed

\* recv_uuid is no part of it.
LEMMA RaceIdentify ==
  ASSUME AInv, AInv', RaceOK, Identify
  PROVE  RaceOK'
BY RaceFrame, ThreadFacts
   DEF Identify, AInv, TypeOK, ThreadTypeOK, Goto, kernelVars, loopVars, toldVars

\* A message behind the first one leaves the first one where it is.
LEMMA AppendLemma ==
  ASSUME NEW S, NEW s \in Seq(S), NEW m \in S
  PROVE  /\ Append(s, m) # <<>>
         /\ s # <<>> => Head(Append(s, m)) = Head(s)
         /\ s = <<>> => Head(Append(s, m)) = m
<1>1. /\ Append(s, m) \in Seq(S) /\ Len(Append(s, m)) = Len(s) + 1
      /\ Append(s, m)[Len(s) + 1] = m
      /\ \A i \in 1 .. Len(s) : Append(s, m)[i] = s[i]
  BY AppendProperties
<1>2. Len(s) \in Nat
  BY LenProperties
<1>3. Append(s, m) # <<>>
  BY <1>1, <1>2, EmptySeq
<1>4. s = <<>> => Len(s) = 0
  BY EmptySeq
<1>5. s # <<>> => 1 \in 1 .. Len(s)
  BY <1>2, EmptySeq
<1>6. \A q \in Seq(S) : q # <<>> => Head(q) = q[1]
  BY HeadTailProperties
<1> QED
  BY <1>1, <1>2, <1>3, <1>4, <1>5, <1>6

\* The UUID is the first message of a client.
LEMMA RaceGreet ==
  ASSUME AInv, AInv', RaceOK, NEW c \in Conns, Greet(c)
  PROVE  RaceOK'
<1> USE DEF AInv, TypeOK, KernelTypeOK
<1>1. /\ UNCHANGED <<client_infos, fd, connects, file, backlog, peer, freed, rx,
                     pc, client, client_fd>>
      /\ greeted' = greeted \cup {c} /\ peer[c] = "up" /\ c \notin greeted
      /\ inbox' = [inbox EXCEPT ![c] = Append(@, "uuid")]
  BY DEF Greet, peerFrame, cellVars, frameVars, toldVars
<1>2. inbox[c] = <<>> /\ peer[c] # "unborn"
  BY <1>1 DEF RaceOK, SilentOK
<1>3. inbox'[c] # <<>> /\ Head(inbox'[c]) = "uuid"
  BY <1>1, <1>2, AppendLemma
<1>4. \A k \in Conns : k # c => inbox'[k] = inbox[k]
  BY <1>1
<1>5. \A k \in Conns : Fresh(k) => Fresh(k)'
  BY <1>1, <1>3, <1>4 DEF Fresh
<1>6. /\ \A k \in Conns : k \notin greeted' => inbox'[k] = <<>>
      /\ \A k \in Conns : peer'[k] = "unborn" => k \notin greeted'
  BY <1>1, <1>4 DEF RaceOK, SilentOK
<1>7. SilentOK' /\ SocketOK' /\ ReadOK'
  BY <1>1, <1>5, <1>6, RaceKeep
<1>8. ServedOK'
  BY <1>1, ServedKeep DEF RaceOK
<1> QED
  BY <1>1, <1>7, <1>8 DEF RaceOK, DataAfterAnnounce

\* A message of a client that has greeted.
LEMMA RaceMessage ==
  ASSUME AInv, AInv', RaceOK, NEW c \in Conns, NEW how,
         peer[c] = "up",
         peer' = [peer EXCEPT ![c] = how], how # "unborn",
         \/ UNCHANGED inbox /\ (how = "up" => UNCHANGED peer)
         \/ /\ c \in greeted
            /\ \E m \in {"uuid", "data", "bad", "cut"} :
                 inbox' = [inbox EXCEPT ![c] = Append(@, m)],
         UNCHANGED <<backlog, greeted, file, client_infos, fd, connects, freed,
                     rx, pc, client, client_fd>>
  PROVE  RaceOK'
<1> USE DEF AInv, TypeOK, KernelTypeOK
<1>1. \A k \in Conns : k # c => peer'[k] = peer[k] /\ inbox'[k] = inbox[k]
  OBVIOUS
<1>2. Fresh(c) => Fresh(c)'
  <2>1. CASE UNCHANGED inbox
    BY <2>1 DEF Fresh
  <2>2. CASE /\ c \in greeted
             /\ \E m \in {"uuid", "data", "bad", "cut"} :
                  inbox' = [inbox EXCEPT ![c] = Append(@, m)]
    <3>1. PICK m \in {"uuid", "data", "bad", "cut"} :
            inbox'[c] = Append(inbox[c], m)
      BY <2>2
    <3>2. inbox'[c] # <<>>
            /\ (inbox[c] # <<>> => Head(inbox'[c]) = Head(inbox[c]))
      BY <3>1, AppendLemma
    <3> QED
      BY <2>2, <3>2 DEF Fresh
  <2> QED
    BY <2>1, <2>2
<1>3. \A k \in Conns : Fresh(k) => Fresh(k)'
  BY <1>1, <1>2 DEF Fresh
<1>4. /\ \A k \in Conns : k \notin greeted' => inbox'[k] = <<>>
      /\ \A k \in Conns : peer'[k] = "unborn" => peer[k] = "unborn"
      /\ \A k \in Conns : peer'[k] = "unborn" => k \notin greeted'
  BY <1>1 DEF RaceOK, SilentOK
<1>5. SilentOK' /\ SocketOK' /\ ReadOK'
  BY <1>3, <1>4, RaceKeep
<1>6. ServedOK'
  BY ServedKeep DEF RaceOK
<1> QED
  BY <1>5, <1>6 DEF RaceOK, DataAfterAnnounce

\* Data comes after the UUID, and a cut message last.
LEMMA RaceSendLeave ==
  ASSUME AInv, AInv', RaceOK, NEW c \in Conns,
         \/ \E m \in ClientMsgs : ClientSend(c, m)
         \/ \E how \in {"gone", "closed"} : Leave(c, how)
  PROVE  RaceOK'
<1> USE RaceMessage DEF peerFrame, cellVars, frameVars, toldVars
<1>1. ASSUME NEW m \in ClientMsgs, ClientSend(c, m) PROVE RaceOK'
  <2>1. m \in {"uuid", "data", "bad", "cut"}
    BY ServerAssumption
  <2>2. peer' = [peer EXCEPT ![c] = "up"]
    BY <1>1 DEF ClientSend, AInv, TypeOK, KernelTypeOK
  <2> QED
    BY <1>1, <2>1, <2>2 DEF ClientSend
<1>2. ASSUME NEW how \in {"gone", "closed"}, Leave(c, how) PROVE RaceOK'
  BY <1>2 DEF Leave
<1> QED
  BY <1>1, <1>2

\* The kernel gives a peer up; nothing it has sent is lost.
LEMMA RaceDetect ==
  ASSUME AInv, AInv', RaceOK, NEW c \in Conns, Detect(c)
  PROVE  RaceOK'
<1> USE DEF AInv, TypeOK, KernelTypeOK
<1>1. /\ UNCHANGED <<client_infos, fd, connects, file, backlog, inbox, greeted,
                     freed, rx, pc, client, client_fd>>
      /\ peer[c] = "gone" /\ peer' = [peer EXCEPT ![c] = "closed"]
  BY DEF Detect, peerFrame, cellVars, frameVars, toldVars
<1>2. \A k \in Conns : Fresh(k) => Fresh(k)'
  BY <1>1 DEF Fresh
<1>3. SilentOK' /\ SocketOK' /\ ReadOK'
  BY <1>1, <1>2, RaceKeep DEF RaceOK, SilentOK
<1>4. ServedOK'
  BY <1>1, ServedKeep DEF RaceOK
<1> QED
  BY <1>1, <1>3, <1>4 DEF RaceOK, DataAfterAnnounce

\* A new connection has said nothing.
LEMMA RaceConnect ==
  ASSUME AInv, AInv', RaceOK, NEW c \in Conns, NEW d \in Devices, Connect(c, d)
  PROVE  RaceOK'
<1> USE SeqFacts, ServerAssumption DEF AInv, TypeOK, KernelTypeOK, CellTypeOK
<1>1. /\ UNCHANGED <<client_infos, fd, connects, file, inbox, greeted, freed,
                     rx, pc, client, client_fd>>
      /\ peer[c] = "unborn" /\ peer' = [peer EXCEPT ![c] = "up"]
      /\ backlog' = Append(backlog, c)
  BY DEF Connect, peerFrame, cellVars, frameVars, toldVars
<1>2. c \notin greeted /\ inbox[c] = <<>> /\ Fresh(c)'
  BY <1>1 DEF RaceOK, SilentOK, Fresh
<1>3. \A k \in Conns : Fresh(k) => Fresh(k)'
  BY <1>1, <1>2 DEF Fresh
<1>4. \A i \in DOMAIN backlog' :
        backlog'[i] = c \/ \E j \in DOMAIN backlog : backlog'[i] = backlog[j]
  <2>1. Len(backlog') = Len(backlog) + 1 /\ backlog' \in Seq(Conns)
    BY <1>1, AppendProperties
  <2>2. DOMAIN backlog' = 1 .. Len(backlog) + 1
    BY <2>1, LenProperties
  <2>3. /\ backlog'[Len(backlog) + 1] = c
        /\ \A i \in 1 .. Len(backlog) : backlog'[i] = backlog[i]
    BY <1>1, AppendProperties
  <2>4. Len(backlog) \in Nat /\ DOMAIN backlog = 1 .. Len(backlog)
    OBVIOUS
  <2>5. ASSUME NEW i \in DOMAIN backlog', backlog'[i] # c
        PROVE  \E j \in DOMAIN backlog : backlog'[i] = backlog[j]
    <3>1. i \in DOMAIN backlog
      BY ONLY <2>2, <2>3, <2>4, <2>5
    <3>2. backlog'[i] = backlog[i]
      BY ONLY <2>3, <2>4, <3>1
    <3> QED
      BY ONLY <3>1, <3>2
  <2> QED
    BY <2>5
<1>5. SilentOK'
  <2>1. ASSUME NEW i \in DOMAIN backlog' PROVE Fresh(backlog[i])'
    <3>1. \A j \in DOMAIN backlog : backlog[j] \in Conns /\ Fresh(backlog[j])
      BY DEF RaceOK, SilentOK
    <3>2. CASE backlog'[i] = c
      BY <1>2, <3>2
    <3>3. ASSUME NEW j \in DOMAIN backlog, backlog'[i] = backlog[j]
          PROVE  Fresh(backlog[i])'
      <4>1. backlog[j] \in Conns /\ Fresh(backlog[j])
        BY <3>1
      <4>2. \A k \in Conns : k = backlog[j] => Fresh(k)'
        BY <1>3, <4>1
      <4> QED
        BY <3>3, <4>1, <4>2
    <3> QED
      BY <1>4, <3>2, <3>3
  <2>2. /\ \A k \in Conns : k \notin greeted' => inbox'[k] = <<>>
        /\ \A k \in Conns : peer'[k] = "unborn" => k \notin greeted'
    BY <1>1 DEF RaceOK, SilentOK
  <2> QED
    BY <2>1, <2>2 DEF SilentOK
<1>6. SocketOK'
  <2>1. ASSUME NEW f \in Fds PROVE file[f] # c
    <3>1. file[f] # NoConn => peer[file[f]] # "unborn"
      BY DEF RaceOK, SocketOK
    <3> QED
      BY <1>1, <3>1
  <2>2. \A f \in Fds : \A i \in DOMAIN backlog' : file[f] # backlog'[i]
    BY <1>4, <2>1 DEF RaceOK, SocketOK
  <2>3. \A f \in Fds : file[f] # NoConn => peer'[file[f]] # "unborn"
    BY <1>1, <2>1 DEF RaceOK, SocketOK
  <2> QED
    BY <1>1, <2>2, <2>3 DEF RaceOK, SocketOK
<1>7. ReadOK'
  <2> SUFFICES ASSUME NEW i \in DOMAIN client_infos, FirstAt(i),
                      connects[client_infos[i]] = 0,
                      file[fd[client_infos[i]]] # NoConn
               PROVE  Fresh(file[fd[client_infos[i]]])'
    BY <1>1 DEF ReadOK, FirstAt
  <2>1. fd[client_infos[i]] \in Fds /\ Fresh(file[fd[client_infos[i]]])
    BY DEF RaceOK, ReadOK, FrameOK
  <2>2. file[fd[client_infos[i]]] \in Conns
    BY <2>1
  <2>3. \A k \in Conns : k = file[fd[client_infos[i]]] => Fresh(k)'
    BY <1>3, <2>1
  <2> QED
    BY <1>1, <2>2, <2>3
<1>8. ServedOK'
  BY <1>1, ServedKeep DEF RaceOK
<1> QED
  BY <1>1, <1>5, <1>6, <1>7, <1>8 DEF RaceOK, DataAfterAnnounce

\* A descriptor is closed, and whatever its connection had to say is dropped.
LEMMA RaceCloseFd ==
  ASSUME AInv, AInv', RaceOK, NEW t \in Threads, CloseFd(t)
  PROVE  RaceOK'
<1> USE ThreadFacts, ServerAssumption
    DEF AInv, TypeOK, KernelTypeOK, CellTypeOK, ThreadTypeOK
<1> DEFINE f == client_fd[t]
           k == file[f]
<1>1. /\ file' = [file EXCEPT ![f] = NoConn]
      /\ peer' = IF k = NoConn THEN peer ELSE [peer EXCEPT ![k] = "closed"]
      /\ inbox' = IF k = NoConn THEN inbox ELSE [inbox EXCEPT ![k] = <<>>]
      /\ pc[t] = "close" /\ Goto(t, "unlink")
      /\ UNCHANGED <<backlog, greeted, client_infos, fd, freed, connects, rx,
                     client, client_fd>>
  BY DEF CloseFd, cellVars, frameVars, toldVars
<1>2. f \in Fds
  BY <1>1 DEF FrameOK
<1>3. \A c \in Conns : /\ Fresh(c) => Fresh(c)'
                       /\ peer'[c] = "unborn" => peer[c] = "unborn"
                       /\ inbox[c] = <<>> => inbox'[c] = <<>>
  BY <1>1, <1>2 DEF Fresh
<1>4. \A g \in Fds : file'[g] \in {file[g], NoConn}
  BY <1>1, <1>2
<1>5. SilentOK' /\ SocketOK' /\ ReadOK'
  BY <1>1, <1>3, <1>4, RaceKeep DEF RaceOK, SilentOK
<1>6. ServedOK'
  BY <1>1, ServedKeep DEF RaceOK, Goto
<1> QED
  BY <1>1, <1>5, <1>6 DEF RaceOK, DataAfterAnnounce

\* socket_server_quit closes, drops and frees.
LEMMA RaceQuit ==
  ASSUME AInv, AInv', RaceOK, Quit
  PROVE  RaceOK'
<1> USE ThreadFacts, ServerAssumption
    DEF AInv, TypeOK, KernelTypeOK, CellTypeOK, ThreadTypeOK
<1>1. /\ \A f \in Fds : file'[f] \in {file[f], NoConn}
      /\ \A c \in Conns : peer'[c] \in {peer[c], "closed"}
      /\ backlog' = <<>> /\ freed \subseteq freed'
      /\ pc'[Exec] = "quit"
      /\ UNCHANGED <<greeted, inbox, client_infos, fd, connects, rx>>
  BY DEF Quit, Goto, frameVars, toldVars
<1>2. \A c \in Conns : /\ Fresh(c) => Fresh(c)'
                       /\ peer'[c] = "unborn" => peer[c] = "unborn"
  BY <1>1 DEF Fresh
<1>3. SilentOK' /\ SocketOK' /\ ReadOK'
  <2>1. DOMAIN backlog' = {}
    BY <1>1
  <2> QED
    BY <1>1, <1>2, <2>1, RaceKeep DEF RaceOK, SilentOK
<1>4. ServedOK'
  BY <1>1 DEF ServedOK
<1> QED
  BY <1>1, <1>3, <1>4 DEF RaceOK, DataAfterAnnounce

\* What takes the head of the backlog leaves the rest.
LEMMA HeadLemma ==
  ASSUME TypeOK, backlog # <<>>
  PROVE  /\ Head(backlog) \in Conns /\ 1 \in DOMAIN backlog
         /\ Head(backlog) = backlog[1]
         /\ DOMAIN Tail(backlog) = 1 .. Len(backlog) - 1
         /\ \A i \in DOMAIN Tail(backlog) :
              /\ i + 1 \in DOMAIN backlog /\ i + 1 # 1
              /\ Tail(backlog)[i] = backlog[i + 1]
<1>1. /\ Head(backlog) \in Conns /\ Tail(backlog) \in Seq(Conns)
      /\ Len(Tail(backlog)) = Len(backlog) - 1
      /\ \A i \in 1 .. Len(Tail(backlog)) : Tail(backlog)[i] = backlog[i + 1]
  BY HeadTailProperties DEF TypeOK, KernelTypeOK
<1>2. DOMAIN Tail(backlog) = 1 .. Len(Tail(backlog))
  BY <1>1, LenProperties
<1>3. Len(backlog) > 0 /\ Len(backlog) \in Nat
      /\ DOMAIN backlog = 1 .. Len(backlog)
  BY EmptySeq, SeqFacts DEF TypeOK, KernelTypeOK
<1> QED
  BY <1>1, <1>2, <1>3

\* A connection that is dropped by accept() is closed.
LEMMA RaceAcceptFails ==
  ASSUME AInv, AInv', RaceOK, AcceptFails
  PROVE  RaceOK'
<1> USE ThreadFacts DEF AInv, TypeOK, KernelTypeOK, ThreadTypeOK
<1>1. /\ ServerFd \in read_fd_set /\ pc[Exec] = "service"
      /\ pc'[Exec] = "accepted"
      /\ UNCHANGED <<greeted, inbox, file, client_infos, fd, freed, connects,
                     rx>>
  <2>1. read_fd_set \in SUBSET Nat
    BY ServerAssumption
  <2>2. ServerFd \in read_fd_set
    BY <2>1, FirstOfLemma DEF AcceptFails, NextReady
  <2> QED
    BY <2>2 DEF AcceptFails, Goto, cellVars, toldVars
<1>2. backlog # <<>>
  BY <1>1 DEF FrameOK
<1>3. \/ UNCHANGED <<backlog, peer>>
      \/ /\ backlog' = Tail(backlog)
         /\ peer' = [peer EXCEPT ![Head(backlog)] = "closed"]
  BY DEF AcceptFails
<1>4. \A i \in DOMAIN backlog' : \E j \in DOMAIN backlog :
        backlog'[i] = backlog[j]
  BY <1>2, <1>3, HeadLemma
<1>5. \A c \in Conns : /\ Fresh(c) => Fresh(c)'
                       /\ peer'[c] = "unborn" => peer[c] = "unborn"
  BY <1>1, <1>3 DEF Fresh
<1>6. SilentOK' /\ SocketOK' /\ ReadOK'
  BY <1>1, <1>4, <1>5, RaceKeep DEF RaceOK, SilentOK
<1>7. ServedOK'
  BY <1>1 DEF ServedOK
<1> QED
  BY <1>1, <1>6, <1>7 DEF RaceOK, DataAfterAnnounce

\* Taking a message that is no UUID: its connection has been heard already.
LEMMA RaceTake ==
  ASSUME AInv, AInv', RaceOK, NEW m \in {"data", "bad"},
         pc[Exec] = "recv", Has(m), TakeMessage, Goto(Exec, "service"),
         UNCHANGED <<backlog, peer, greeted, file, client_infos, fd, freed,
                     connects>>
  PROVE  SilentOK' /\ SocketOK' /\ ReadOK' /\ ServedOK'
<1> USE ThreadFacts DEF AInv, TypeOK, KernelTypeOK, ThreadTypeOK
<1> DEFINE k == file[client_fd[Exec]]
<1>1. k \in Conns
  BY TakeLemma
<1>2. /\ ~ Fresh(k) /\ inbox[k] # <<>>
      /\ \A c \in Conns : c # k => inbox'[c] = inbox[c]
  BY <1>1, ServerAssumption DEF Has, Incoming, TakeMessage, Fresh
<1>3. \A c \in Conns : Fresh(c) => Fresh(c)'
  BY <1>2 DEF Fresh
<1>4. \A c \in Conns : c \notin greeted => inbox'[c] = <<>>
  BY <1>2 DEF RaceOK, SilentOK
<1>5. SilentOK' /\ SocketOK' /\ ReadOK'
  BY <1>3, <1>4, RaceKeep DEF RaceOK, SilentOK
<1>6. ServedOK'
  BY DEF ServedOK, Goto
<1> QED
  BY <1>5, <1>6

\* A bad message is dropped.
LEMMA RaceRecvBad ==
  ASSUME AInv, AInv', RaceOK, RecvBad
  PROVE  RaceOK'
BY RaceTake DEF RecvBad, RaceOK, DataAfterAnnounce, cellVars, toldVars

\* Data is reported for the cell that is served, and its connection has been
\* heard before.
LEMMA RaceRecvData ==
  ASSUME AInv, AInv', RaceOK, RecvData
  PROVE  RaceOK'
<1> DEFINE c == client[Exec]
           k == file[client_fd[Exec]]
<1>1. /\ pc[Exec] = "recv" /\ Has("data") /\ c \notin freed
      /\ TakeMessage /\ Goto(Exec, "service")
      /\ rx' = rx \cup {<<c, k>>}
      /\ UNCHANGED <<backlog, peer, greeted, file, client_infos, fd, freed,
                     connects>>
  BY DEF RecvData, cellVars
<1>2. c \in Conns /\ k \in Conns /\ k # NoConn
  BY <1>1, TakeLemma, ServerAssumption
<1>3. ~ Fresh(k)
  BY <1>1, <1>2 DEF Has, Incoming, Fresh
<1>4. PICK i \in DOMAIN client_infos :
        /\ FirstAt(i) /\ client_infos[i] = c
        /\ fd[client_infos[i]] = client_fd[Exec]
  BY <1>1 DEF RaceOK, ServedOK
<1>5. connects[c] # 0
  BY <1>2, <1>3, <1>4 DEF RaceOK, ReadOK
<1>6. connects[c] = 1
  BY <1>2, <1>5 DEF AInv, TypeOK, ToldTypeOK, AnnounceOK
<1>7. DataAfterAnnounce'
  BY <1>1, <1>6 DEF RaceOK, DataAfterAnnounce
<1>8. SilentOK' /\ SocketOK' /\ ReadOK' /\ ServedOK'
  BY <1>1, RaceTake
<1> QED
  BY <1>7, <1>8 DEF RaceOK

\* The first cell with the descriptor is served.
LEMMA RaceFindSender ==
  ASSUME AInv, AInv', RaceOK, FindSender
  PROVE  RaceOK'
<1> DEFINE c == find_client_by_fd(NextReady)
           I == Matches(NextReady)
<1>1. CASE c = NoConn
  BY <1>1, RaceDie DEF FindSender
<1>2. CASE c # NoConn
  <2>1. /\ client'[Exec] = c /\ client_fd'[Exec] = NextReady
        /\ UNCHANGED <<backlog, peer, greeted, inbox, file, client_infos, fd,
                       freed, connects, rx>>
    BY <1>2, ThreadFacts DEF FindSender, AInv, TypeOK, ThreadTypeOK, kernelVars,
       cellVars, toldVars
  <2>2. \A k \in Conns : Fresh(k) => Fresh(k)'
    BY <2>1 DEF Fresh
  <2>3. SilentOK' /\ SocketOK' /\ ReadOK'
    BY <2>1, <2>2, RaceKeep DEF RaceOK, SilentOK
  <2>4. I # {} /\ I \in SUBSET Nat
    BY <1>2, SeqFacts DEF find_client_by_fd, Matches, AInv
  <2>5. FirstOf(I) \in I /\ \A j \in I : FirstOf(I) <= j
    BY <2>4, FirstOfLemma
  <2>6. /\ FirstOf(I) \in DOMAIN client_infos
        /\ fd[client_infos[FirstOf(I)]] = NextReady
        /\ client_infos[FirstOf(I)] = c
        /\ FirstAt(FirstOf(I))
    BY <2>4, <2>5 DEF find_client_by_fd, Matches, FirstAt
  <2>7. ServedOK'
    <3> DEFINE i == FirstOf(I)
    <3> HIDE DEF I
    <3>1. \E j \in DOMAIN client_infos :
            FirstAt(j) /\ client_infos[j] = c /\ fd[client_infos[j]] = NextReady
      BY <2>6
    <3>2. PICK j \in DOMAIN client_infos :
            FirstAt(j) /\ client_infos[j] = c /\ fd[client_infos[j]] = NextReady
      BY <3>1
    <3>3. /\ j \in DOMAIN client_infos' /\ FirstAt(j)'
          /\ client_infos'[j] = client'[Exec]
          /\ fd'[client_infos'[j]] = client_fd'[Exec]
      BY <2>1, <3>2 DEF FirstAt
    <3> QED
      BY <3>3 DEF ServedOK
  <2> QED
    BY <2>1, <2>3, <2>7 DEF RaceOK, DataAfterAnnounce
<1> QED
  BY <1>1, <1>2

\* The UUID is taken, and the only cell that could read it is announced.
LEMMA RaceRecvUuid ==
  ASSUME AInv, AInv', RaceOK, RecvUuid
  PROVE  RaceOK'
<1> USE SeqFacts, ThreadFacts, ServerAssumption DEF AInv
<1> DEFINE c == client[Exec]
           k == file[client_fd[Exec]]
<1>1. /\ pc[Exec] = "recv" /\ Has("uuid") /\ c \notin freed
      /\ TakeMessage
      /\ pc'[Exec] \in {"service", "identify"}
      /\ UNCHANGED <<backlog, peer, greeted, file, client_infos, fd, freed, rx>>
  BY DEF RecvUuid, Goto, TypeOK, ThreadTypeOK
<1>2. /\ c \in Conns /\ k \in Conns
      /\ \A n \in Conns : n # k => inbox'[n] = inbox[n]
      /\ k # NoConn /\ client_fd[Exec] \in Fds
      /\ inbox[k] # <<>>
  BY <1>1, TakeLemma
     DEF TakeMessage, TypeOK, KernelTypeOK, FrameOK, Has, Incoming
<1>3. connects'[c] = 1 /\ \A n \in Conns : n # c => connects'[n] = connects[n]
  <2>1. CASE recv_uuid[c]
    BY <1>2, <2>1 DEF RecvUuid, IsNew, AnnounceOK
  <2>2. CASE ~recv_uuid[c]
    <3>1. connects' = [connects EXCEPT ![c] = @ + 1]
      BY <2>2 DEF RecvUuid, IsNew
    <3>2. connects[c] = 0
      BY <1>1, <1>2, <2>2 DEF AnnounceOK, TypeOK, ToldTypeOK
    <3> QED
      BY <1>2, <3>1, <3>2 DEF TypeOK, ToldTypeOK
  <2> QED
    BY <2>1, <2>2
<1>4. PICK i \in DOMAIN client_infos :
        /\ FirstAt(i) /\ client_infos[i] = c
        /\ fd[client_infos[i]] = client_fd[Exec]
  BY <1>1 DEF RaceOK, ServedOK
<1>5. k \in greeted /\ \A j \in DOMAIN backlog : backlog[j] # k
  BY <1>2 DEF RaceOK, SilentOK, SocketOK
<1>6. \A n \in Conns : n # k => (Fresh(n) => Fresh(n)')
  BY <1>1, <1>2 DEF Fresh
<1>7. SilentOK'
  <2>1. \A n \in Conns : n \notin greeted' => inbox'[n] = <<>>
    BY <1>1, <1>2, <1>5 DEF RaceOK, SilentOK
  <2>2. \A n \in Conns : peer'[n] = "unborn" => n \notin greeted'
    BY <1>1 DEF RaceOK, SilentOK
  <2>3. ASSUME NEW j \in DOMAIN backlog' PROVE Fresh(backlog[j])'
    <3>1. /\ j \in DOMAIN backlog /\ backlog[j] \in Conns /\ backlog[j] # k
          /\ Fresh(backlog[j])
      BY <1>1, <1>5 DEF RaceOK, SilentOK
    <3>2. \A n \in Conns : n = backlog[j] => Fresh(n)'
      BY <1>6, <3>1
    <3> QED
      BY <1>1, <3>1, <3>2
  <2> QED
    BY <2>1, <2>2, <2>3 DEF SilentOK
<1>8. SocketOK'
  BY <1>1 DEF RaceOK, SocketOK
<1>9. ReadOK'
  <2> SUFFICES ASSUME NEW j \in DOMAIN client_infos, FirstAt(j),
                      connects'[client_infos[j]] = 0,
                      file[fd[client_infos[j]]] # NoConn
               PROVE  Fresh(file[fd[client_infos[j]]])'
    BY <1>1 DEF ReadOK, FirstAt
  <2> DEFINE n == file[fd[client_infos[j]]]
  <2>1. /\ client_infos[j] # c /\ connects[client_infos[j]] = 0
        /\ fd[client_infos[j]] \in Fds
    BY <1>3 DEF FrameOK
  <2>2. n \in Conns /\ Fresh(n)
    BY <2>1 DEF RaceOK, ReadOK, TypeOK, CellTypeOK
  <2>3. n # k
    <3>1. SUFFICES ASSUME n = k PROVE FALSE
      OBVIOUS
    <3>2. fd[client_infos[j]] = client_fd[Exec]
      BY <1>2, <2>1, <3>1 DEF RaceOK, SocketOK
    <3>3. i <= j /\ j <= i
      BY <1>4, <3>2 DEF FirstAt
    <3> QED
      BY <1>4, <2>1, <3>3
  <2>4. \A q \in Conns : q = n => Fresh(q)'
    BY <1>6, <2>2, <2>3
  <2> QED
    BY <1>1, <2>2, <2>4
<1>10. ServedOK'
  BY <1>1 DEF ServedOK
<1>11. DataAfterAnnounce'
  BY <1>1, <1>3 DEF RaceOK, DataAfterAnnounce, TypeOK, ToldTypeOK
<1> QED
  BY <1>7, <1>8, <1>9, <1>10, <1>11 DEF RaceOK

\* The new cell is last, and its connection has read nothing.
LEMMA RaceAccept ==
  ASSUME AInv, AInv', RaceOK, Accept
  PROVE  RaceOK'
<1> USE SeqFacts, ThreadFacts, ServerAssumption DEF AInv
<1> DEFINE c == Head(backlog)
           f == FirstOf(FreeFds)
           n == Len(client_infos) + 1
<1>1. /\ pc[Exec] = "service" /\ ServerFd \in read_fd_set
      /\ backlog' = Tail(backlog)
      /\ file' = [file EXCEPT ![f] = c]
      /\ fd' = [fd EXCEPT ![c] = f]
      /\ client_infos' = Append(client_infos, c)
      /\ pc'[Exec] = "accepted"
      /\ UNCHANGED <<peer, greeted, inbox, freed, connects, rx>>
  <2>1. read_fd_set \in SUBSET Nat
    BY DEF TypeOK, ThreadTypeOK
  <2>2. ServerFd \in read_fd_set
    BY <2>1, FirstOfLemma DEF Accept, NextReady
  <2> QED
    BY <2>2 DEF Accept, Goto, TypeOK, ThreadTypeOK, toldVars
<1>2. f \in Fds /\ file[f] = NoConn
  <2>1. FreeFds \in SUBSET Nat /\ FreeFds # {}
    BY DEF FreeFds, Accept
  <2> QED
    BY <2>1, FirstOfLemma DEF FreeFds
<1>3. backlog # <<>>
  BY <1>1 DEF FrameOK
<1>4. /\ c \in Conns /\ 1 \in DOMAIN backlog /\ c = backlog[1] /\ fd[c] = -1
      /\ \A i \in DOMAIN backlog' : \E j \in DOMAIN backlog :
           j # 1 /\ backlog'[i] = backlog[j]
  BY <1>1, <1>3, HeadLemma DEF ArrivalOK
<1>5. /\ Fresh(c) /\ peer[c] # "unborn"
      /\ \A g \in Fds : file[g] # c
  BY <1>4 DEF RaceOK, SilentOK, SocketOK, ArrivalOK
<1>6. \A k \in Conns : Fresh(k)' <=> Fresh(k)
  BY <1>1 DEF Fresh
<1>7. /\ file'[f] = c
      /\ \A g \in Fds : g # f => file'[g] = file[g]
      /\ \A g \in Fds : file[g] \in Conns \cup {NoConn}
      /\ c # NoConn
  BY <1>1, <1>2, <1>4 DEF TypeOK, CellTypeOK
<1>8. SilentOK'
  <2>1. ASSUME NEW i \in DOMAIN backlog' PROVE Fresh(backlog[i])'
    <3>1. PICK j \in DOMAIN backlog : backlog'[i] = backlog[j]
      BY <1>4
    <3>2. backlog[j] \in Conns /\ Fresh(backlog[j])
      BY DEF RaceOK, SilentOK
    <3>3. \A k \in Conns : k = backlog[j] => Fresh(k)'
      BY <1>6, <3>2
    <3> QED
      BY <3>1, <3>2, <3>3
  <2> QED
    BY <1>1, <2>1 DEF RaceOK, SilentOK
<1>9. SocketOK'
  <2>1. \A g, h \in Fds : file'[g] # NoConn /\ file'[g] = file'[h] => g = h
    BY <1>5, <1>7 DEF RaceOK, SocketOK
  <2>2. ASSUME NEW g \in Fds, NEW i \in DOMAIN backlog'
        PROVE  file'[g] # backlog'[i]
    <3>1. PICK j \in DOMAIN backlog : j # 1 /\ backlog'[i] = backlog[j]
      BY <1>4
    <3>2. backlog[j] # c /\ file[g] # backlog[j]
      BY <1>4, <3>1 DEF ArrivalOK, RaceOK, SocketOK
    <3> QED
      BY <1>7, <3>1, <3>2
  <2>3. \A g \in Fds : file'[g] # NoConn => peer'[file'[g]] # "unborn"
    BY <1>1, <1>5, <1>7 DEF RaceOK, SocketOK
  <2> QED
    BY <2>1, <2>2, <2>3 DEF SocketOK
<1>10. /\ DOMAIN client_infos' = 1 .. n
       /\ client_infos'[n] = c
       /\ \A i \in DOMAIN client_infos : client_infos'[i] = client_infos[i]
  <2>1. client_infos \in Seq(Conns)
    BY DEF TypeOK, CellTypeOK
  <2>2. client_infos' \in Seq(Conns) /\ Len(client_infos') = n
    BY <1>1, <1>4, <2>1, AppendProperties
  <2> QED
    BY <1>1, <1>4, <2>1, <2>2, AppendProperties, LenProperties
<1>11. \A i \in DOMAIN client_infos :
         /\ client_infos[i] # c
         /\ fd'[client_infos[i]] = fd[client_infos[i]]
  BY <1>1, <1>4 DEF FrameOK, TypeOK, CellTypeOK
<1>12. fd'[c] = f
  BY <1>1, <1>4 DEF TypeOK, CellTypeOK
<1>13. ReadOK'
  <2> SUFFICES ASSUME NEW i \in DOMAIN client_infos', FirstAt(i)',
                      connects'[client_infos'[i]] = 0,
                      file'[fd'[client_infos'[i]]] # NoConn
               PROVE  Fresh(file[fd[client_infos[i]]])'
    BY DEF ReadOK
  <2>1. CASE fd'[client_infos'[i]] = f
    <3>1. c \in Conns /\ \A k \in Conns : k = c => Fresh(k)'
      BY <1>4, <1>5, <1>6
    <3>2. file'[fd'[client_infos'[i]]] = c
      BY <1>7, <2>1
    <3> QED
      BY <3>1, <3>2
  <2>2. CASE fd'[client_infos'[i]] # f
    <3>1. i \in DOMAIN client_infos
      BY <1>10, <1>12, <2>2
    <3>2. client_infos'[i] = client_infos[i]
            /\ fd'[client_infos'[i]] = fd[client_infos[i]]
            /\ fd[client_infos[i]] \in Fds
      BY <1>10, <1>11, <3>1 DEF FrameOK
    <3>3. FirstAt(i)
      BY <1>10, <1>11, <3>1, <3>2 DEF FirstAt
    <3>4. file'[fd'[client_infos'[i]]] = file[fd[client_infos[i]]]
      BY <1>7, <2>2, <3>2
    <3>5. Fresh(file[fd[client_infos[i]]])
            /\ file[fd[client_infos[i]]] \in Conns
      BY <1>1, <1>7, <3>1, <3>2, <3>3, <3>4 DEF RaceOK, ReadOK
    <3>6. \A k \in Conns : k = file[fd[client_infos[i]]] => Fresh(k)'
      BY <1>6, <3>5
    <3> QED
      BY <3>4, <3>5, <3>6
  <2> QED
    BY <2>1, <2>2
<1>14. ServedOK'
  BY <1>1 DEF ServedOK
<1> QED
  BY <1>1, <1>8, <1>9, <1>13, <1>14 DEF RaceOK, DataAfterAnnounce

\* The one cell with its descriptor leaves the list; no search of another
\* descriptor notices.
LEMMA RaceUnlink ==
  ASSUME AInv, AInv', RaceOK, NEW t \in Threads, Unlink(t)
  PROVE  RaceOK'
<1> DEFINE I == Matches(client_fd[t])
           i == FirstOf(I)
           N == Len(client_infos)
           Old(j) == IF j < i THEN j ELSE j + 1
<1> USE SeqFacts, ThreadFacts, ServerAssumption DEF AInv
<1>1. CASE \E why : Die(why)
  BY <1>1, RaceDie
<1>2. CASE ~ \E why : Die(why)
  <2>1. /\ ~ \E j, k \in I : j # k
        /\ client_infos' = IF I = {} THEN client_infos
                           ELSE Without(client_infos, i)
        /\ freed' = IF I = {} THEN freed ELSE freed \cup {client_infos[i]}
        /\ pc[t] = "unlink" /\ Goto(t, ret[t])
        /\ \A u \in Threads : u # t => client'[u] = client[u]
                                       /\ client_fd'[u] = client_fd[u]
        /\ UNCHANGED <<backlog, peer, greeted, inbox, file, fd, connects, rx>>
    BY <1>2 DEF Unlink, TypeOK, ThreadTypeOK, kernelVars, toldVars
  <2>2. pc'[Exec] = "recv" =>
          /\ pc[Exec] = "recv"
          /\ client'[Exec] = client[Exec] /\ client_fd'[Exec] = client_fd[Exec]
    <3>1. pc'[t] # "recv" /\ \A u \in Threads : u # t => pc'[u] = pc[u]
      BY <2>1 DEF Goto, TypeOK, ThreadTypeOK
    <3> QED
      BY <2>1, <3>1
  <2>3. CASE I = {}
    BY <2>1, <2>2, <2>3, RaceFrame
  <2>4. CASE I # {}
    <3>1. i \in DOMAIN client_infos /\ fd[client_infos[i]] = client_fd[t]
            /\ \A j \in DOMAIN client_infos :
                 fd[client_infos[j]] = fd[client_infos[i]] => j = i
      <4>1. I \in SUBSET Nat
        BY DEF Matches
      <4>2. i \in I
        BY <2>4, <4>1, FirstOfLemma
      <4> QED
        BY <2>1, <4>2 DEF Matches
    <3>2. client_infos \in Seq(Conns)
      BY DEF TypeOK, CellTypeOK
    <3>3. /\ DOMAIN client_infos' = 1 .. N - 1
          /\ \A j \in 1 .. N - 1 : client_infos'[j] = client_infos[Old(j)]
      BY <2>1, <2>4, <3>1, <3>2, WithoutLemma
    <3>4. /\ N \in Nat /\ DOMAIN client_infos = 1 .. N /\ i \in 1 .. N
          /\ \A j \in 1 .. N - 1 : Old(j) \in 1 .. N /\ Old(j) # i
          /\ \A j, k \in 1 .. N - 1 : j <= k <=> Old(j) <= Old(k)
          /\ \A m \in 1 .. N : m # i => \E j \in 1 .. N - 1 : m = Old(j)
      <4>1. N \in Nat /\ DOMAIN client_infos = 1 .. N /\ i \in 1 .. N
        BY <3>1
      <4>2. \A j \in 1 .. N - 1 : Old(j) \in 1 .. N /\ Old(j) # i
        BY <4>1
      <4>3. \A j, k \in 1 .. N - 1 : j <= k <=> Old(j) <= Old(k)
        BY <4>1
      <4>4. ASSUME NEW m \in 1 .. N, m # i
            PROVE  \E j \in 1 .. N - 1 : m = Old(j)
        <5>1. CASE m < i
          <6>1. m \in 1 .. N - 1 /\ m = Old(m)
            BY <4>1, <5>1
          <6> QED
            BY <6>1
        <5>2. CASE ~ (m < i)
          <6>1. m - 1 \in 1 .. N - 1 /\ m = Old(m - 1)
            BY <4>1, <4>4, <5>2
          <6> QED
            BY <6>1
        <5> QED
          BY <5>1, <5>2
      <4> QED
        BY <4>1, <4>2, <4>3, <4>4
    <3> HIDE DEF Old, N, i, I
    <3>5. ASSUME NEW j \in 1 .. N - 1
          PROVE  FirstAt(j)' <=> FirstAt(Old(j))
      <4>1. ASSUME FirstAt(j)', NEW m \in DOMAIN client_infos,
                   fd[client_infos[m]] = fd[client_infos[Old(j)]]
            PROVE  Old(j) <= m
        <5>1. m # i
          BY <3>1, <3>4, <4>1
        <5>2. PICK k \in 1 .. N - 1 : m = Old(k)
          BY <3>4, <4>1, <5>1
        <5>3. fd'[client_infos'[k]] = fd'[client_infos'[j]]
          BY <2>1, <3>3, <4>1, <5>2
        <5>4. j <= k
          BY <3>3, <4>1, <5>3 DEF FirstAt
        <5> QED
          BY <3>4, <5>2, <5>4
      <4>2. ASSUME FirstAt(Old(j)), NEW k \in DOMAIN client_infos',
                   fd'[client_infos'[k]] = fd'[client_infos'[j]]
            PROVE  j <= k
        <5>1. fd[client_infos[Old(k)]] = fd[client_infos[Old(j)]]
          BY <2>1, <3>3, <4>2
        <5>2. Old(j) <= Old(k)
          BY <3>3, <3>4, <4>2, <5>1 DEF FirstAt
        <5> QED
          BY <3>3, <3>4, <5>2
      <4>3. FirstAt(j)' => FirstAt(Old(j))
        BY <4>1 DEF FirstAt
      <4>4. FirstAt(Old(j)) => FirstAt(j)'
        BY <4>2 DEF FirstAt
      <4> QED
        BY <4>3, <4>4
    <3>6. \A k \in Conns : Fresh(k)' <=> Fresh(k)
      BY <2>1 DEF Fresh
    <3>7. SilentOK' /\ SocketOK'
      <4>1. SilentOK'
        BY <2>1 DEF RaceOK, SilentOK, Fresh
      <4>2. SocketOK'
        BY <2>1 DEF RaceOK, SocketOK
      <4> QED
        BY <4>1, <4>2
    <3>8. ReadOK'
      <4> SUFFICES ASSUME NEW j \in DOMAIN client_infos', FirstAt(j)',
                          connects'[client_infos'[j]] = 0,
                          file'[fd'[client_infos'[j]]] # NoConn
                   PROVE  Fresh(file[fd[client_infos[j]]])'
        BY DEF ReadOK
      <4>1. /\ j \in 1 .. N - 1 /\ Old(j) \in DOMAIN client_infos
            /\ FirstAt(Old(j)) /\ client_infos'[j] = client_infos[Old(j)]
        BY <3>3, <3>4, <3>5
      <4> DEFINE k == file[fd[client_infos[Old(j)]]]
      <4>2. k # NoConn /\ Fresh(k)
        BY <2>1, <4>1 DEF RaceOK, ReadOK
      <4>3. k \in Conns
        BY <4>1, <4>2 DEF FrameOK, TypeOK, CellTypeOK
      <4>4. \A m \in Conns : m = k => Fresh(m)'
        BY <3>6, <4>2
      <4>5. file'[fd'[client_infos'[j]]] = k
        BY <2>1, <4>1
      <4> QED
        BY <4>3, <4>4, <4>5
    <3>9. ServedOK'
      <4> SUFFICES ASSUME pc'[Exec] = "recv", client'[Exec] \notin freed'
                   PROVE  \E j \in DOMAIN client_infos' :
                            /\ FirstAt(j)'
                            /\ client_infos'[j] = client'[Exec]
                            /\ fd'[client_infos'[j]] = client_fd'[Exec]
        BY DEF ServedOK
      <4>1. /\ client'[Exec] = client[Exec]
            /\ client_fd'[Exec] = client_fd[Exec]
            /\ pc[Exec] = "recv" /\ client[Exec] \notin freed
            /\ client[Exec] # client_infos[i]
        BY <2>1, <2>2, <2>4
      <4>2. PICK m \in DOMAIN client_infos :
              /\ FirstAt(m) /\ client_infos[m] = client[Exec]
              /\ fd[client_infos[m]] = client_fd[Exec]
        BY <4>1 DEF RaceOK, ServedOK
      <4>3. PICK j \in 1 .. N - 1 : m = Old(j)
        BY <3>4, <4>1, <4>2
      <4>4. /\ j \in DOMAIN client_infos' /\ FirstAt(j)'
            /\ client_infos'[j] = client_infos[m]
        BY <3>3, <3>5, <4>2, <4>3
      <4> QED
        BY <2>1, <4>1, <4>2, <4>4
    <3> QED
      BY <2>1, <3>7, <3>8, <3>9 DEF RaceOK, DataAfterAnnounce
  <2> QED
    BY <2>3, <2>4
<1> QED
  BY <1>1, <1>2

\* A server with no client is not in danger.
LEMMA RaceInit == Init => RaceOK
<1> SUFFICES ASSUME Init PROVE RaceOK
  OBVIOUS
<1> USE ServerAssumption DEF Init
<1>1. SilentOK /\ SocketOK
  BY DEF SilentOK, SocketOK, Fresh
<1>2. ReadOK /\ ServedOK /\ DataAfterAnnounce
  BY ThreadFacts DEF ReadOK, ServedOK, DataAfterAnnounce
<1> QED
  BY <1>1, <1>2 DEF RaceOK

\* Every step of any thread, peer or timer keeps it.
LEMMA RaceStep == AInv /\ AInv' /\ RaceOK /\ [Next]_vars => RaceOK'
<1> SUFFICES ASSUME AInv, AInv', RaceOK, [Next]_vars PROVE RaceOK'
  OBVIOUS
<1>1. CASE UNCHANGED vars
  BY <1>1, RaceFrame DEF vars, kernelVars, cellVars, frameVars, toldVars
<1>2. CASE PeerStep
  BY <1>2, RaceConnect, RaceGreet, RaceDetect, RaceSendLeave DEF PeerStep
<1>3. ASSUME NEW t \in Threads, Subroutine(t) PROVE RaceOK'
  BY <1>3, RaceFindAndNotify, RaceCloseFd, RaceUnlink, RaceQuiet, RaceFault
     DEF Subroutine
<1>4. CASE ExecStep
  BY <1>3, <1>4, ThreadFacts, RaceQuiet, RaceFault, RaceAccept,
     RaceAcceptFails, RaceAssertClients, RaceFindSender, RaceRecvBad,
     RaceRecvUuid, RaceIdentify, RaceRecvData DEF ExecStep
<1>5. ASSUME NEW t \in Callers, CallerStep(t) PROVE RaceOK'
  BY <1>3, <1>5, ThreadFacts, RaceQuiet, RaceFault DEF CallerStep
<1>6. CASE Tick \/ Quit
  BY <1>6, RaceQuiet, RaceQuit
<1> QED
  BY <1>1, <1>2, <1>4, <1>5, <1>6 DEF Next

\* Data is reported only of clients that were announced, although the threads
\* race on the list and a descriptor may pass to another connection while a
\* cell still holds its number: a cell that is not announced never gets at a
\* connection of which the UUID has been read (304 to 398 against 236 to 281).
THEOREM DataAfterAnnounceAlways == Spec => []DataAfterAnnounce
<1>1. AInv /\ RaceOK /\ [Next]_vars => RaceOK'
  BY RaceStep, AInvStep
<1>2. RaceOK => DataAfterAnnounce
  BY DEF RaceOK
<1> QED
  BY RaceInit, <1>1, <1>2, AInvAlways, PTL DEF Spec

-----------------------------------------------------------------------------
(* What the user is told, whatever the callers do.                         *)

\* Only RecvUuid, RecvData and FindAndNotify call back, and not on death.
LEMMA QuietSteps ==
  Next => RecvUuid \/ RecvData
            \/ (\E t \in Threads : FindAndNotify(t)) \/ UNCHANGED toldVars
<1> USE DEF Die, peerFrame, callFrame, toldVars
<1>1. PeerStep \/ Tick \/ Quit => UNCHANGED toldVars
  BY DEF PeerStep, Connect, Greet, Detect, ClientSend, Leave, Tick, Quit
<1>2. ASSUME NEW t \in Threads, Subroutine(t)
      PROVE  FindAndNotify(t) \/ UNCHANGED toldVars
  BY <1>2 DEF Subroutine, CloseFd, Unlink, SendOk, SendFails, SendToFreed,
     SendAllDone
<1>3. ExecStep => RecvUuid \/ RecvData \/ FindAndNotify(Exec)
                    \/ UNCHANGED toldVars
  BY <1>2, ThreadFacts DEF ExecStep, Copy, Select, SelectFails, Accept,
     AcceptFails, AssertClients, FindSender, ServiceDone, RecvDisconnect,
     RecvBad, Identify, RecvOnFreed, Ping
<1>4. ASSUME NEW t \in Callers, CallerStep(t)
      PROVE  FindAndNotify(t) \/ UNCHANGED toldVars
  BY <1>2, <1>4, ThreadFacts DEF CallerStep, CallSendData, CallSendDataAll,
     CallOnDanglingList
<1> QED
  BY <1>1, <1>3, <1>4, ThreadFacts DEF Next

heardOf == {p[1] : p \in rx}

\* Each step of any thread announces, reports or withdraws one connection of
\* the loose contract, or does nothing there.
LEMMA RacingStep ==
  ASSUME AInv, AInv', RaceOK', [Next]_vars
  PROVE  [Racing!Next]_<<session, heardOf>>
<1> USE DEF heardOf
<1>0. UNCHANGED toldVars => UNCHANGED <<session, heardOf>>
  BY DEF toldVars, session
<1>1. CASE RecvUuid
  <2>1. PICK c : c = client[Exec]
    OBVIOUS
  <2>2. c \in Conns /\ UNCHANGED <<disconnects, rx>>
    BY <1>1, <2>1, ThreadFacts DEF RecvUuid, AInv, TypeOK, ThreadTypeOK, FrameOK
  <2>3. CASE ~IsNew(c)
    BY <1>0, <1>1, <2>1, <2>2, <2>3 DEF RecvUuid, toldVars
  <2>4. CASE IsNew(c)
    <3>1. connects' = [connects EXCEPT ![c] = @ + 1]
      BY <1>1, <2>1, <2>4 DEF RecvUuid
    <3>2. connects[c] = 0 /\ disconnects[c] = 0
      BY <1>1, <2>2, <2>4
         DEF RecvUuid, IsNew, AInv, AnnounceOK, TypeOK, ToldTypeOK
    <3>3. session[c] = "absent"
      BY <2>2, <3>2 DEF session
    <3>4. session' = [session EXCEPT ![c] = "present"]
      <4>1. /\ connects'[c] = 1 /\ disconnects'[c] = 0
            /\ \A k \in Conns \ {c} : connects'[k] = connects[k]
        BY <2>2, <3>1, <3>2 DEF AInv, TypeOK, ToldTypeOK
      <4>2. ASSUME NEW k \in Conns
            PROVE  session'[k] = [session EXCEPT ![c] = "present"][k]
        BY <2>2, <4>1 DEF session
      <4> QED
        BY <4>2 DEF session
    <3> QED
      BY <2>2, <3>3, <3>4 DEF Racing!Next, Racing!Announce
  <2> QED
    BY <2>3, <2>4
<1>2. CASE RecvData
  <2>1. PICK c, k : c = client[Exec] /\ k = file[client_fd[Exec]]
    OBVIOUS
  <2>2. c \in Conns /\ UNCHANGED <<connects, disconnects>>
    BY <1>2, <2>1, ThreadFacts DEF RecvData, AInv, TypeOK, ThreadTypeOK, FrameOK
  <2>3. rx' = rx \cup {<<c, k>>} /\ <<c, k>>[1] = c
    BY <1>2, <2>1 DEF RecvData
  <2>4. connects[c] = 1
    BY <2>2, <2>3 DEF RaceOK, DataAfterAnnounce
  <2>5. session[c] \in {"present", "past"} /\ UNCHANGED session
    BY <2>2, <2>4 DEF session
  <2>6. heardOf' = heardOf \cup {c}
    BY <2>3, Zenon
  <2> QED
    BY <2>2, <2>5, <2>6 DEF Racing!Next, Racing!Report, Racing!Known
<1>3. ASSUME NEW t \in Threads, FindAndNotify(t)
      PROVE  [Racing!Next]_<<session, heardOf>>
  <2>1. PICK c : c = find_client_by_fd(client_fd[t])
    OBVIOUS
  <2>2. CASE UNCHANGED toldVars
    BY <1>0, <2>2
  <2>3. CASE ~ UNCHANGED toldVars
    <3>1. /\ disconnects' = AfterNotify(c) /\ c # NoConn
          /\ UNCHANGED <<connects, rx>>
      BY <1>3, <2>1, <2>3 DEF FindAndNotify, Die, toldVars
    <3>2. c \in Conns
      BY <2>1, <3>1, FindLemma, SeqFacts DEF AInv, TypeOK, CellTypeOK
    <3>3. recv_uuid[c] /\ disconnects' = [disconnects EXCEPT ![c] = @ + 1]
      BY <2>3, <3>1 DEF AfterNotify, toldVars
    <3>4. connects[c] = 1 /\ disconnects[c] \in Nat
      BY <3>2, <3>3 DEF AInv, AnnounceOK, TypeOK, ToldTypeOK
    <3>5. session[c] \in {"present", "past"}
      BY <3>2, <3>4 DEF session
    <3>6. session' = [session EXCEPT ![c] = "past"]
      <4>1. /\ disconnects'[c] > 0
            /\ \A k \in Conns \ {c} : disconnects'[k] = disconnects[k]
        BY <3>2, <3>3, <3>4 DEF AInv, TypeOK, ToldTypeOK
      <4>2. ASSUME NEW k \in Conns
            PROVE  session'[k] = [session EXCEPT ![c] = "past"][k]
        BY <3>1, <3>2, <4>1 DEF session
      <4> QED
        BY <4>2 DEF session
    <3> QED
      BY <3>1, <3>2, <3>5, <3>6 DEF Racing!Next, Racing!Withdraw, Racing!Known
  <2> QED
    BY <2>2, <2>3
<1>4. CASE UNCHANGED vars
  BY <1>0, <1>4 DEF vars, toldVars
<1> QED
  BY <1>0, <1>1, <1>2, <1>3, <1>4, QuietSteps

\* With any number of threads that send, and accept() failing or not, the
\* library implements the loose form of SignalContract, which is all that the
\* service above it may rely on: of every connection its user hears one connect
\* first, or nothing.
THEOREM ServerImplementsRacing == Spec => RacingSpec
<1>1. Init => Racing!Init
  BY DEF Init, Racing!Init, session
<1>2. AInv /\ AInv' /\ RaceOK' /\ [Next]_vars
        => [Racing!Next]_<<session, heardOf>>
  BY RacingStep
<1>3. AInv /\ RaceOK /\ [Next]_vars => RaceOK'
  BY RaceStep, AInvStep
<1>4. Spec => []RaceOK
  BY RaceInit, <1>3, AInvAlways, PTL DEF Spec
<1> QED
  BY <1>1, <1>2, <1>4, AInvAlways, PTL
     DEF Spec, RacingSpec, Racing!Spec, heardOf

=============================================================================
