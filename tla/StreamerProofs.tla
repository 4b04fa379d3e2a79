--------------------------- MODULE StreamerProofs ---------------------------
(***************************************************************************)
(* Safety of the video stream, for every size of packet, handoff and       *)
(* buffer, every number of units and connections and every unit length;    *)
(* SetsFirst for those with which both parameter sets fit in the queue.    *)
(***************************************************************************)
EXTENDS Streamer, QueueProofs

-----------------------------------------------------------------------------
(* The inductive invariant.                                                *)

\* Connections are numbered in the order in which the viewer makes them and
\* accepted in that order; bytes are on the way on the last one only, and only
\* once it has been accepted.
LinkInv ==
  /\ client_socket = conns
  /\ \A c \in 1 .. conns : c < conns => c \in dead
  /\ \A i \in 1 .. Len(backlog) : server_socket < backlog[i]
  /\ \A i, j \in 1 .. Len(backlog) : i < j => backlog[i] < backlog[j]
  /\ client_socket # server_socket \/ spc \in {"connect", "callback"} =>
       got = <<>> /\ wire = <<>>
  /\ spc = "connect" => server_socket = 0
  /\ spc # "connect" => server_socket >= 1
  /\ spc = "callback" => server_socket > 1

\* Before the first viewer the queue holds all that was recorded.
BeforeFirst == spc = "connect" => entered = Contents(server_queue)

\* A thread that waits on a semaphore nobody has posted has what it waits for
\* still to come from the other thread, which has work to do.
HandoffInv ==
  /\ client_queue.capacity >= Handoff + 1
  /\ emptied = 0 \/ cpc = "emptied" => client_queue.capacity >= 2 * (Handoff + 1)
  /\ dpc = "filled" /\ filled = 0 => client_queue.size <= Handoff
  /\ cpc = "emptied" /\ emptied = 0 => client_queue.size > Handoff

\* Behind position i a session e of units of kinds ks holds bytes of completed
\* units only, without a gap that does not end in an IDR unit, up to the end of
\* a unit, which is the last one completed unless an IDR unit is awaited.
Follows(b, c, ks) ==
  \/ c = <<b[1], b[2] + 1>>
  \/ /\ b[2] = UnitLen[ks[b[1]]] /\ c[2] = 1
     /\ \/ c[1] = b[1] + 1
        \/ c[1] > b[1] /\ ks[c[1]] = "IDR"
WholeFrom(i, e, ks, awaited) ==
  /\ \A j \in i + 1 .. Len(e) : e[j][1] \in 1 .. Len(ks) - 1
  /\ \A j \in i + 1 .. Len(e) - 1 : Follows(e[j], e[j + 1], ks)
  /\ Len(e) > i => /\ e[Len(e)][2] = UnitLen[ks[e[Len(e)][1]]]
                   /\ ~awaited => e[Len(e)][1] = Len(ks) - 1
GapInv ==
  InSession \/ spc = "connect" =>
    WholeFrom(Inserted, entered, kinds, need_to_send_I_frame)

StreamerInv ==
  TypeOK /\ LinkInv /\ SessionIntact /\ BeforeFirst /\ DecodedInOrder
         /\ HandoffInv /\ GapInv

-----------------------------------------------------------------------------
(* Sequences.                                                              *)

\* A sequence is the concatenation of a beginning and the rest.
LEMMA SplitAt ==
  ASSUME NEW S, NEW s \in Seq(S), NEW m \in 0 .. Len(s)
  PROVE  /\ SubSeq(s, 1, m) \in Seq(S) /\ Len(SubSeq(s, 1, m)) = m
         /\ SubSeq(s, m + 1, Len(s)) \in Seq(S)
         /\ Len(SubSeq(s, m + 1, Len(s))) = Len(s) - m
         /\ s = SubSeq(s, 1, m) \o SubSeq(s, m + 1, Len(s))
<1>1. SubSeq(s, 1, m) \in Seq(S) /\ Len(SubSeq(s, 1, m)) = m
      /\ \A i \in 1 .. m : SubSeq(s, 1, m)[i] = s[i]
  OBVIOUS
<1>2. SubSeq(s, m + 1, Len(s)) \in Seq(S)
      /\ Len(SubSeq(s, m + 1, Len(s))) = Len(s) - m
      /\ \A i \in 1 .. Len(s) - m : SubSeq(s, m + 1, Len(s))[i] = s[m + i]
  OBVIOUS
<1> DEFINE a == SubSeq(s, 1, m)
           b == SubSeq(s, m + 1, Len(s))
<1>3. a \in Seq(S) /\ b \in Seq(S) /\ Len(a) = m /\ Len(b) = Len(s) - m
  BY <1>1, <1>2
<1>4. \A i \in 1 .. m : a[i] = s[i]
  BY <1>1
<1>5. \A i \in 1 .. Len(s) - m : b[i] = s[m + i]
  BY <1>2
<1> HIDE DEF a, b
<1>6. /\ a \o b \in Seq(S) /\ Len(a \o b) = Len(s)
      /\ \A i \in 1 .. m : (a \o b)[i] = a[i]
      /\ \A i \in 1 .. Len(s) - m : (a \o b)[m + i] = b[i]
  <2>0. Len(s) \in Nat /\ m \in Nat /\ m + (Len(s) - m) = Len(s)
    OBVIOUS
  <2>1. Len(a \o b) = Len(a) + Len(b) /\ a \o b \in Seq(S)
    BY <1>3, Concat
  <2>2. \A i \in 1 .. Len(a) : (a \o b)[i] = a[i]
    BY <1>3, Concat
  <2>3. \A i \in 1 .. Len(b) : (a \o b)[Len(a) + i] = b[i]
    BY <1>3, Concat
  <2> QED
    BY <1>3, <2>0, <2>1, <2>2, <2>3
<1>7. ASSUME NEW i \in 1 .. Len(s) PROVE s[i] = (a \o b)[i]
  <2>1. CASE i \in 1 .. m
    BY <2>1, <1>4, <1>6
  <2>2. CASE i \notin 1 .. m
    <3>1. i - m \in 1 .. Len(s) - m /\ m + (i - m) = i
      BY <2>2
    <3>2. (a \o b)[m + (i - m)] = s[m + (i - m)]
      BY <3>1, <1>5, <1>6
    <3> QED
      BY <3>1, <3>2
  <2> QED
    BY <2>1, <2>2
<1>8. s = a \o b
  BY <1>6, <1>7, SeqEqual
<1> QED
  BY <1>3, <1>8 DEF a, b

\* Concatenation is associative.
LEMMA Assoc ==
  ASSUME NEW S, NEW r \in Seq(S), NEW s \in Seq(S), NEW t \in Seq(S)
  PROVE  (r \o s) \o t = r \o (s \o t)
OBVIOUS

\* What was concatenated begins with the first part.
LEMMA PrefixOfConcat ==
  ASSUME NEW S, NEW s \in Seq(S), NEW t \in Seq(S)
  PROVE  IsPrefixOf(s, s \o t)
BY DEF IsPrefixOf

\* A beginning stays one when more follows.
LEMMA PrefixGrows ==
  ASSUME NEW S, NEW s \in Seq(S), NEW t \in Seq(S), NEW u \in Seq(S),
         IsPrefixOf(s, t)
  PROVE  IsPrefixOf(s, t \o u)
BY DEF IsPrefixOf

\* The beginning of a beginning.
LEMMA PrefixTrans ==
  ASSUME NEW S, NEW s \in Seq(S), NEW t \in Seq(S), NEW u \in Seq(S),
         IsPrefixOf(s, t), IsPrefixOf(t, u)
  PROVE  IsPrefixOf(s, u)
BY DEF IsPrefixOf

\* Cutting bytes off the end leaves a beginning.
LEMMA PrefixCut ==
  ASSUME NEW S, NEW g \in Seq(S), NEW w \in Seq(S), NEW t \in Seq(S),
         IsPrefixOf(g \o w, t), NEW m \in 0 .. Len(w)
  PROVE  IsPrefixOf(g \o SubSeq(w, 1, m), t)
<1> DEFINE a == SubSeq(w, 1, m)
           b == SubSeq(w, m + 1, Len(w))
<1>1. a \in Seq(S) /\ b \in Seq(S) /\ w = a \o b
  BY SplitAt, Zenon
<1> HIDE DEF a, b
<1>2. g \o w = (g \o a) \o b
  BY <1>1, Assoc
<1>3. IsPrefixOf(g \o a, g \o w)
  BY <1>1, <1>2, PrefixOfConcat, g \o a \in Seq(S)
<1>4. g \o a \in Seq(S) /\ g \o w \in Seq(S)
  BY <1>1
<1> QED
  BY <1>3, <1>4, PrefixTrans DEF a

\* What a sequence of units is made of.
LEMMA UnitBytes ==
  ASSUME TypeOK, NEW k \in 1 .. Len(kinds)
  PROVE  /\ UnitLen[kinds[k]] \in Nat \ {0}
         /\ Unit(k) \in Seq(Bytes) /\ Len(Unit(k)) = UnitLen[kinds[k]]
         /\ \A i \in 1 .. UnitLen[kinds[k]] : Unit(k)[i] = <<k, i>>
<1>1. UnitLen[kinds[k]] \in Nat \ {0}
  BY StreamerAssumption DEF TypeOK, RecordOK
<1>2. k \in Nat /\ \A i \in 1 .. UnitLen[kinds[k]] : i \in Nat
  BY <1>1
<1>3. \A i \in 1 .. UnitLen[kinds[k]] : <<k, i>> \in Bytes
  BY <1>2 DEF Bytes
<1> QED
  BY <1>1, <1>3 DEF Unit

-----------------------------------------------------------------------------
(* What the operations do to the queues and buffers.                       *)

\* A completed unit enters both the queue and the session, which ends the wait
\* for an IDR unit, or neither, which begins one.
LEMMA CompleteStep ==
  ASSUME TypeOK, kinds # <<>>, Complete(Len(kinds))
  PROVE  LET k == Len(kinds) IN
         /\ IsQueue(server_queue') /\ Contents(server_queue') \in Seq(Bytes)
         /\ chosen_server_buffer_size' = server_queue'.capacity
         /\ \/ /\ Contents(server_queue') = Contents(server_queue) \o Unit(k)
               /\ entered' = entered \o Unit(k)
               /\ need_to_send_I_frame' = FALSE
               /\ need_to_send_I_frame => kinds[k] = "IDR"
            \/ /\ Contents(server_queue') = Contents(server_queue)
               /\ entered' = entered /\ need_to_send_I_frame' = TRUE
<1> DEFINE k == Len(kinds)
           n == UnitLen[kinds[k]]
           q == Expanded(n)
<1>1. k \in 1 .. Len(kinds)
  BY DEF TypeOK, RecordOK
<1>2. n \in Nat \ {0} /\ Unit(k) \in Seq(Bytes) /\ Len(Unit(k)) = n
  BY <1>1, UnitBytes
<1>3. /\ IsQueue(server_queue) /\ Contents(server_queue) \in Seq(Bytes)
      /\ chosen_server_buffer_size = server_queue.capacity
      /\ server_queue.capacity \in Nat \ {0}
      /\ server_queue.size \in 0 .. server_queue.capacity
      /\ need_to_send_I_frame \in BOOLEAN
  BY DEF TypeOK, RecordOK, IsQueue
<1> HIDE DEF k, n
<1>4. /\ IsQueue(q) /\ Contents(q) = Contents(server_queue)
      /\ q.capacity = IF n > chosen_server_buffer_size
                      THEN 2 * n ELSE chosen_server_buffer_size
  <2>1. CASE n > chosen_server_buffer_size
    <3>1. 2 * n \in Nat \ {0} /\ server_queue.size <= 2 * n
      BY <1>2, <1>3, <2>1
    <3>2. q = expand_queue(server_queue, 2 * n)
      BY <2>1 DEF Expanded
    <3> QED
      BY <1>3, <2>1, <3>1, <3>2, ExpandKeeps
  <2>2. CASE ~(n > chosen_server_buffer_size)
    BY <1>3, <2>2 DEF Expanded
  <2> QED
    BY <2>1, <2>2
<1> DEFINE in == Enters(q, k, n)
<1>5. /\ server_queue' = IF in THEN enqueue_all(q, Unit(k)) ELSE q
      /\ chosen_server_buffer_size' = q.capacity
      /\ need_to_send_I_frame' = (Space(q) <= n \/ (need_to_send_I_frame /\ ~in))
      /\ entered' = IF in THEN entered \o Unit(k) ELSE entered
  BY <1>4 DEF Complete, k, n
<1>6. Space(q) \in Int
  BY <1>4 DEF IsQueue, Space
<1> HIDE DEF q
<1>7. CASE in
  <2>1. Len(Unit(k)) <= Space(q) /\ ~(Space(q) <= n)
    BY <1>2, <1>6, <1>7 DEF Enters
  <2>2. /\ IsQueue(enqueue_all(q, Unit(k)))
        /\ enqueue_all(q, Unit(k)).capacity = q.capacity
        /\ Contents(enqueue_all(q, Unit(k))) \in Seq(Bytes)
        /\ Contents(enqueue_all(q, Unit(k))) = Contents(q) \o Unit(k)
    BY <1>2, <1>3, <1>4, <2>1, EnqueueAppends
  <2>3. need_to_send_I_frame' = FALSE
    BY <1>5, <1>7, <2>1
  <2>4. need_to_send_I_frame => kinds[k] = "IDR"
    BY <1>7 DEF Enters
  <2> QED
    BY <1>4, <1>5, <1>7, <2>2, <2>3, <2>4 DEF k
<1>8. CASE ~in
  <2>1. Space(q) <= n \/ (need_to_send_I_frame /\ ~in)
    <3>1. Space(q) <= n \/ Space(q) > n
      BY <1>2, <1>6
    <3> QED
      BY <3>1, <1>8, Zenon DEF Enters
  <2>2. need_to_send_I_frame' = TRUE
    <3> HIDE DEF in
    <3> QED
      BY <1>5, <2>1, Zenon
  <2> QED
    BY <1>3, <1>4, <1>5, <1>8, <2>2
<1> QED
  BY <1>7, <1>8

\* The kept sets are sequences of bytes that never get shorter.
LEMMA KeepStep ==
  ASSUME TypeOK, kinds # <<>>, NEW kind, NEW kept \in Seq(Bytes)
  PROVE  LET k == Len(kinds)
             new == Keep(kind, kept, k, UnitLen[kinds[k]])
         IN  new \in Seq(Bytes) /\ Len(new) >= Len(kept)
<1> DEFINE k == Len(kinds)
           n == UnitLen[kinds[k]]
           m == n % SizeMod
<1>1. k \in 1 .. Len(kinds)
  BY DEF TypeOK, RecordOK
<1>2. n \in Nat \ {0} /\ Unit(k) \in Seq(Bytes) /\ Len(Unit(k)) = n
  BY <1>1, UnitBytes
<1>3. m \in 0 .. n
  <2> HIDE DEF n
  <2> QED
    BY <1>2, StreamerAssumption
<1>4. SubSeq(Unit(k), 1, m) \in Seq(Bytes) /\ Len(SubSeq(Unit(k), 1, m)) = m
  <2> HIDE DEF n, m, k
  <2> QED
    BY <1>2, <1>3, SplitAt
<1> QED
  BY <1>3, <1>4 DEF Keep

\* prepare_buffer loses nothing, and fills the packet before it leaves a rest.
LEMMA PackStep ==
  ASSUME NEW packet \in Seq(Bytes), NEW rest \in Seq(Bytes),
         Len(packet) < Payload, Pack(packet, rest)
  PROVE  /\ packet_buf' \in Seq(Bytes) /\ chunk_buffer' \in Seq(Bytes)
         /\ spc' \in {"send", "while"}
         /\ spc' = "send" => Len(packet_buf') = Payload
         /\ spc' = "while" => Len(packet_buf') < Payload /\ chunk_buffer' = <<>>
         /\ packet_buf' \o chunk_buffer' = packet \o rest
<1> DEFINE room == Payload - Len(packet)
           m == IF Len(rest) < room THEN Len(rest) ELSE room
           a == SubSeq(rest, 1, m)
           b == SubSeq(rest, m + 1, Len(rest))
<1>1. Payload \in Nat
  BY StreamerAssumption DEF Payload
<1>2. m \in 0 .. Len(rest) /\ m <= room /\ (m # room => m = Len(rest))
      /\ room \in Nat /\ Len(packet) + room = Payload
  BY <1>1
<1>3. packet_buf' = packet \o a /\ chunk_buffer' = b
      /\ spc' = IF m = room THEN "send" ELSE "while"
  BY DEF Pack
<1> HIDE DEF m
<1>4. a \in Seq(Bytes) /\ b \in Seq(Bytes) /\ rest = a \o b /\ Len(a) = m
      /\ Len(b) = Len(rest) - m
  BY <1>2, SplitAt
<1> HIDE DEF a, b, room
<1>5. packet \o a \in Seq(Bytes) /\ Len(packet \o a) = Len(packet) + m
  BY <1>4, Concat
<1>6. (packet \o a) \o b = packet \o rest
  BY <1>4, Assoc
<1>7. m = room => Len(packet \o a) = Payload
  BY <1>2, <1>5
<1>8. m # room => Len(packet \o a) < Payload /\ b = <<>>
  <2> SUFFICES ASSUME m # room PROVE Len(packet \o a) < Payload /\ b = <<>>
    OBVIOUS
  <2>1. Len(b) = 0
    BY <1>2, <1>4
  <2>2. b = <<>>
    BY <1>4, <2>1
  <2>3. Len(packet \o a) < Payload
    BY <1>1, <1>2, <1>5
  <2> QED
    BY <2>2, <2>3
<1> QED
  BY <1>3, <1>4, <1>5, <1>6, <1>7, <1>8

-----------------------------------------------------------------------------
(* Type correctness.                                                       *)

\* The initial state.
LEMMA InitInv == Init => StreamerInv
<1> SUFFICES ASSUME Init PROVE StreamerInv
  OBVIOUS
<1>0. /\ BufferSize \in Nat \ {0} /\ Handoff \in Nat /\ Handoff + 1 \in Nat \ {0}
      /\ Payload \in Nat \ {0} /\ SemMax \in Nat \ {0} /\ Handoff + 1 >= 1
  BY StreamerAssumption DEF Payload
<1>1. /\ IsQueue(server_queue) /\ Contents(server_queue) = <<>>
      /\ server_queue.capacity = BufferSize
  BY <1>0, CreateEmpty DEF Init
<1>2. /\ IsQueue(client_queue) /\ Contents(client_queue) = <<>>
      /\ client_queue.capacity = Handoff + 1
  BY <1>0, CreateEmpty DEF Init
<1>3. TypeOK
  <2>0. <<>> \in Seq(Bytes) /\ <<>> \in Seq(Kinds)
    OBVIOUS
  <2>1. RecordOK
    <3>1. server_buf_ready \in 0 .. SemMax
      BY <1>0 DEF Init
    <3>2. Contents(server_queue) \in Seq(Bytes)
      BY <1>1, <2>0
    <3> QED
      BY <1>1, <2>0, <3>1, <3>2 DEF Init, RecordOK
  <2>2. ServerOK
    BY <1>0 DEF Init, ServerOK
  <2>3. LinkOK
    BY DEF Init, LinkOK
  <2>4. ViewerOK
    <3>1. Contents(client_queue) \in Seq(Bytes)
      BY <1>2, <2>0
    <3> QED
      BY <1>0, <1>2, <2>0, <3>1 DEF Init, ViewerOK
  <2> QED
    BY <2>1, <2>2, <2>3, <2>4 DEF TypeOK
<1>4. LinkInv
  BY DEF Init, LinkInv
<1>5. SessionIntact /\ BeforeFirst /\ DecodedInOrder
  BY <1>1, <1>2 DEF Init, SessionIntact, BeforeFirst, DecodedInOrder, InSession
<1>6. HandoffInv
  BY <1>0, <1>2 DEF Init, HandoffInv
<1>7. GapInv
  BY DEF Init, GapInv, WholeFrom, Inserted, InSession
<1> QED
  BY <1>3, <1>4, <1>5, <1>6, <1>7 DEF StreamerInv

\* A step of record_bytes, and what others do to its state.
LEMMA RecordStep ==
  ASSUME TypeOK, Next
  PROVE  RecordOK'
<1>0. RecordOK /\ ServerOK /\ SemMax \in Nat \ {0}
  BY StreamerAssumption DEF TypeOK
<1>1. ASSUME NEW n \in Nat, Post(n) PROVE server_buf_ready' \in 0 .. SemMax
  BY <1>0, <1>1 DEF Post, RecordOK
<1>2. ASSUME NEW kind \in Kinds, StartCode(kind) PROVE RecordOK'
  <2>1. kinds' \in Seq(Kinds) /\ NAL_buf_cnt' \in Nat /\ running' \in BOOLEAN
    BY <1>0, <1>2 DEF StartCode, RecordOK
  <2>2. server_buf_ready' \in 0 .. SemMax
    BY <1>1, <1>2 DEF StartCode
  <2>3. CASE kinds = <<>>
    BY <1>0, <1>2, <2>1, <2>2, <2>3 DEF StartCode, RecordOK
  <2>4. CASE kinds # <<>>
    <3>1. Complete(Len(kinds))
      BY <1>2, <2>4 DEF StartCode
    <3>2. /\ IsQueue(server_queue') /\ Contents(server_queue') \in Seq(Bytes)
          /\ chosen_server_buffer_size' = server_queue'.capacity
          /\ need_to_send_I_frame' \in BOOLEAN
          /\ entered' = entered \o Unit(Len(kinds)) \/ entered' = entered
      BY <2>4, <3>1, CompleteStep
    <3>3. Unit(Len(kinds)) \in Seq(Bytes)
      BY <1>0, <2>4, UnitBytes DEF RecordOK
    <3>4. SPS_buffer' \in Seq(Bytes) /\ PPS_buffer' \in Seq(Bytes)
      BY <1>0, <2>4, <3>1, KeepStep DEF Complete, RecordOK
    <3>5. entered' \in Seq(Bytes)
      <4>1. entered \in Seq(Bytes)
        BY <1>0 DEF RecordOK
      <4> QED
        BY <4>1, <3>2, <3>3, Concat
    <3> QED
      BY <2>1, <2>2, <3>2, <3>4, <3>5 DEF RecordOK
  <2> QED
    BY <2>3, <2>4
<1>3. CASE OtherBytes
  <2>1. NAL_buf_cnt' \in Nat /\ NAL_buf_cnt' - NAL_buf_cnt \in Nat
    <3>1. UnitLen[kinds[Len(kinds)]] \in Nat
      <4>1. Len(kinds) \in 1 .. Len(kinds)
        BY <1>0, <1>3 DEF OtherBytes, RecordOK
      <4> QED
        BY <4>1, UnitBytes
    <3> QED
      BY <1>0, <1>3, <3>1 DEF OtherBytes, RecordOK
  <2>2. server_buf_ready' \in 0 .. SemMax
    BY <1>1, <1>3, <2>1 DEF OtherBytes
  <2> QED
    BY <1>0, <1>3, <2>1, <2>2 DEF OtherBytes, RecordOK
<1>4. CASE CloseServer
  BY <1>0, <1>4 DEF CloseServer, RecordOK, recordVars
<1>5. CASE Accept
  BY <1>0, <1>5 DEF Accept, RecordOK, recordVars
<1>6. CASE InsertPpsSps
  <2> DEFINE r == reset_queue(server_queue)
             e == enqueue_all(r, SPS_buffer)
  <2>1. IsQueue(r) /\ Contents(r) \in Seq(Bytes)
        /\ r.capacity = server_queue.capacity
    <3>1. <<>> \in Seq(Bytes) /\ IsQueue(server_queue)
      BY <1>0 DEF RecordOK
    <3> QED
      BY <3>1, ResetEmpties
  <2>2. SPS_buffer \in Seq(Bytes) /\ PPS_buffer \in Seq(Bytes)
    BY <1>0 DEF RecordOK
  <2>3. server_queue' = enqueue_all(e, PPS_buffer)
    BY <1>6 DEF InsertPpsSps
  <2> HIDE DEF r
  <2>4. IsQueue(e) /\ Contents(e) \in Seq(Bytes) /\ e.capacity = r.capacity
    BY <2>1, <2>2, EnqueueSome
  <2> HIDE DEF e
  <2>5. /\ IsQueue(server_queue') /\ Contents(server_queue') \in Seq(Bytes)
        /\ server_queue'.capacity = e.capacity
    BY <2>2, <2>3, <2>4, EnqueueSome
  <2> QED
    BY <1>0, <1>6, <2>1, <2>4, <2>5 DEF InsertPpsSps, RecordOK, recordVars
<1>7. CASE TakeChunk
  <2>1. server_buf_ready' \in 0 .. SemMax
    BY <1>0, <1>7 DEF TakeChunk, RecordOK
  <2>2. /\ IsQueue(server_queue') /\ Contents(server_queue') \in Seq(Bytes)
        /\ server_queue'.capacity = server_queue.capacity
    <3>1. CASE server_queue.size > PACKET_SIZE
      <4>1. PACKET_SIZE \in 0 .. server_queue.size
        BY <1>0, <3>1, StreamerAssumption DEF RecordOK, IsQueue
      <4>2. server_queue' = dequeue_n(server_queue, PACKET_SIZE)
        BY <1>7, <3>1 DEF TakeChunk
      <4> QED
        BY <1>0, <4>1, <4>2, DequeueTakesFirst DEF RecordOK
    <3>2. CASE ~(server_queue.size > PACKET_SIZE)
      BY <1>0, <1>7, <3>2 DEF TakeChunk, RecordOK
    <3> QED
      BY <3>1, <3>2
  <2> QED
    BY <1>0, <1>7, <2>1, <2>2 DEF TakeChunk, RecordOK, recordVars
<1>8. CASE UNCHANGED <<recordVars, server_queue, server_buf_ready, running, entered>>
  BY <1>0, <1>8 DEF RecordOK, recordVars
<1>9. While \/ SendPacket \/ SendFails \/ StartViewer \/ Client \/ Decoder \/ Break =>
        UNCHANGED <<recordVars, server_queue, server_buf_ready, running, entered>>
  BY DEF While, SendPacket, SendFails, StartViewer, Client, Recv, RecvFails,
         Store, Expand, WaitEmptied, Decoder, Decode, WaitFilled, Break
<1> QED
  BY <1>2, <1>3, <1>4, <1>5, <1>6, <1>7, <1>8, <1>9 DEF Next, Server

\* What get_next_chunk takes out of the queue is its beginning.
LEMMA ChunkTaken ==
  ASSUME RecordOK, TakeChunk, server_queue.size > PACKET_SIZE
  PROVE  LET c == SubSeq(Contents(server_queue), 1, PACKET_SIZE) IN
         /\ Contents(server_queue') \in Seq(Bytes) /\ c \in Seq(Bytes)
         /\ Contents(server_queue) = c \o Contents(server_queue')
         /\ Pack(packet_buf, c)
<1> DEFINE q == server_queue
           c == SubSeq(Contents(q), 1, PACKET_SIZE)
           d == dequeue_n(q, PACKET_SIZE)
<1>1. IsQueue(q) /\ Contents(q) \in Seq(Bytes)
  BY DEF RecordOK
<1>2. PACKET_SIZE \in 0 .. q.size
  BY <1>1, StreamerAssumption DEF IsQueue
<1>3. Len(Contents(q)) = q.size
  BY <1>1, ContentsSeq
<1>4. /\ c \in Seq(Bytes)
      /\ Contents(q) = c \o SubSeq(Contents(q), PACKET_SIZE + 1, q.size)
  <2>1. PACKET_SIZE \in 0 .. Len(Contents(q))
    BY <1>2, <1>3
  <2> QED
    BY <1>1, <1>3, <2>1, SplitAt
<1>5. /\ Contents(d) \in Seq(Bytes)
      /\ Contents(d) = SubSeq(Contents(q), PACKET_SIZE + 1, q.size)
  BY <1>1, <1>2, DequeueTakesFirst
<1>6. server_queue' = d /\ Pack(packet_buf, c)
  BY DEF TakeChunk
<1> QED
  BY <1>4, <1>5, <1>6

\* A step of server_loop_thread.
LEMMA ServerStep ==
  ASSUME TypeOK, Next
  PROVE  ServerOK'
<1>0. ServerOK /\ RecordOK /\ Payload \in Nat \ {0}
  BY StreamerAssumption DEF TypeOK, Payload
<1>1. CASE Accept
  BY <1>0, <1>1 DEF Accept, ServerOK
<1>2. CASE InsertPpsSps
  BY <1>0, <1>2 DEF InsertPpsSps, ServerOK
<1>3. CASE While
  BY <1>0, <1>3 DEF While, ServerOK
<1>p. ASSUME NEW packet \in Seq(Bytes), NEW rest \in Seq(Bytes),
             Len(packet) < Payload, Pack(packet, rest)
      PROVE  ServerOK'
  <2>1. /\ packet_buf' \in Seq(Bytes) /\ chunk_buffer' \in Seq(Bytes)
        /\ spc' \in {"send", "while"}
        /\ spc' = "send" => Len(packet_buf') = Payload
        /\ spc' = "while" => Len(packet_buf') < Payload /\ chunk_buffer' = <<>>
    BY <1>p, PackStep
  <2> QED
    BY <2>1 DEF ServerOK
<1>4. CASE TakeChunk
  <2>1. packet_buf \in Seq(Bytes) /\ Len(packet_buf) < Payload
    BY <1>0, <1>4 DEF TakeChunk, ServerOK
  <2>2. CASE server_queue.size > PACKET_SIZE
    <3>1. /\ SubSeq(Contents(server_queue), 1, PACKET_SIZE) \in Seq(Bytes)
          /\ Pack(packet_buf, SubSeq(Contents(server_queue), 1, PACKET_SIZE))
      BY <1>0, <1>4, <2>2, ChunkTaken
    <3> QED
      BY <1>p, <2>1, <3>1
  <2>3. CASE ~(server_queue.size > PACKET_SIZE)
    BY <1>0, <1>4, <2>3 DEF TakeChunk, ServerOK
  <2> QED
    BY <2>2, <2>3
<1>5. CASE SendPacket
  <2>1. <<>> \in Seq(Bytes) /\ chunk_buffer \in Seq(Bytes) /\ Len(<<>>) < Payload
    BY <1>0 DEF ServerOK
  <2>2. Pack(<<>>, chunk_buffer)
    BY <1>5 DEF SendPacket
  <2> QED
    BY <1>p, <2>1, <2>2
<1>6. CASE SendFails
  <2>1. <<>> \in Seq(Bytes) /\ Len(<<>>) < Payload
    BY <1>0
  <2> QED
    BY <1>6, <2>1 DEF SendFails, ServerOK
<1>7. CASE UNCHANGED serverVars
  BY <1>0, <1>7 DEF ServerOK, serverVars
<1>8. (\E kind \in Kinds : StartCode(kind)) \/ OtherBytes \/ CloseServer
        \/ StartViewer \/ Client \/ Decoder \/ Break => UNCHANGED serverVars
  BY DEF StartCode, OtherBytes, CloseServer, StartViewer, Client, Recv, RecvFails,
         Store, Expand, WaitEmptied, Decoder, Decode, WaitFilled, Break
<1> QED
  BY <1>1, <1>2, <1>3, <1>4, <1>5, <1>6, <1>7, <1>8 DEF Next, Server

\* The viewer makes a new connection.
LEMMA Connects ==
  ASSUME LinkOK, LinkInv, ServerOK, NewConnection, UNCHANGED spc
  PROVE  LinkOK' /\ LinkInv'
<1>1. LinkOK'
  <2>1. backlog' \in Seq(1 .. conns')
    <3>1. backlog \in Seq(1 .. conns + 1) /\ conns + 1 \in 1 .. conns + 1
      BY DEF LinkOK
    <3> QED
      BY <3>1 DEF NewConnection
  <2>2. <<>> \in Seq(Bytes)
    OBVIOUS
  <2> QED
    BY <2>1, <2>2 DEF LinkOK, NewConnection
<1>2. LinkInv'
  <2>1. \A c \in 1 .. conns' : c < conns' => c \in dead'
    BY DEF LinkOK, LinkInv, NewConnection
  <2>2. /\ \A i \in 1 .. Len(backlog') : server_socket' < backlog'[i]
        /\ \A i, j \in 1 .. Len(backlog') : i < j => backlog'[i] < backlog'[j]
    <3>1. /\ Len(backlog') = Len(backlog) + 1 /\ Len(backlog) \in Nat
          /\ backlog'[Len(backlog) + 1] = conns + 1
          /\ \A i \in 1 .. Len(backlog) :
               backlog'[i] = backlog[i] /\ backlog[i] \in 1 .. conns
      BY DEF LinkOK, NewConnection
    <3>2. server_socket \in 0 .. conns /\ server_socket' = server_socket
          /\ conns \in Nat
      BY DEF LinkOK, NewConnection
    <3> QED
      BY <3>1, <3>2 DEF LinkInv
  <2>3. client_socket' = conns' /\ got' = <<>> /\ wire' = <<>>
        /\ server_socket' = server_socket
    BY DEF NewConnection
  <2> QED
    BY <2>1, <2>2, <2>3 DEF LinkInv
<1> QED
  BY <1>1, <1>2

\* A step of the connections.
LEMMA LinkStep ==
  ASSUME TypeOK, LinkInv, Next
  PROVE  LinkOK' /\ LinkInv'
<1>0. LinkOK /\ ServerOK /\ RecordOK /\ Payload \in Nat \ {0}
  BY StreamerAssumption DEF TypeOK, Payload
<1>c. ASSUME NEW m \in 0 .. Len(wire), wire' = SubSeq(wire, 1, m)
      PROVE  wire' \in Seq(Bytes) /\ (wire = <<>> => wire' = <<>>)
  BY <1>0, <1>c DEF LinkOK
<1>1. CASE Accept
  <2>1. /\ Len(backlog') = Len(backlog) - 1 /\ Len(backlog) \in Nat \ {0}
        /\ server_socket' = backlog[1] /\ backlog' \in Seq(1 .. conns)
        /\ \A i \in 1 .. Len(backlog) - 1 : backlog'[i] = backlog[i + 1]
    BY <1>0, <1>1 DEF Accept, LinkOK
  <2>2. backlog[1] \in 1 .. conns /\ server_socket < backlog[1]
        /\ conns \in Nat /\ server_socket \in 0 .. conns
    BY <1>0, <2>1 DEF LinkOK, LinkInv
  <2>3. LinkOK'
    BY <1>0, <1>1, <2>1, <2>2 DEF Accept, LinkOK
  <2>4. got' = <<>> /\ wire' = <<>>
    BY <1>1, <2>2 DEF Accept, LinkInv
  <2>5. \A i \in 1 .. Len(backlog') : server_socket' < backlog'[i]
    <3> SUFFICES ASSUME NEW i \in 1 .. Len(backlog')
                 PROVE  server_socket' < backlog'[i]
      OBVIOUS
    <3>1. 1 \in 1 .. Len(backlog) /\ i + 1 \in 1 .. Len(backlog) /\ 1 < i + 1
      BY <2>1
    <3> QED
      BY <2>1, <3>1 DEF LinkInv
  <2>6. \A i, j \in 1 .. Len(backlog') : i < j => backlog'[i] < backlog'[j]
    BY <2>1 DEF LinkInv
  <2>7. /\ spc' # "connect" /\ server_socket' >= 1
        /\ spc' = "callback" => server_socket' > 1
    BY <1>1, <2>1, <2>2 DEF Accept, LinkInv
  <2>8. client_socket' = conns' /\ \A c \in 1 .. conns' : c < conns' => c \in dead'
    BY <1>1 DEF Accept, LinkInv
  <2> QED
    BY <2>3, <2>4, <2>5, <2>6, <2>7, <2>8 DEF LinkInv
<1>2. CASE InsertPpsSps
  BY <1>0, <1>2 DEF InsertPpsSps, LinkOK, LinkInv, linkVars
<1>3. CASE While
  <2>1. wire' \in Seq(Bytes) /\ (wire = <<>> => wire' = <<>>)
    BY <1>0, <1>3, <1>c DEF While, LinkOK
  <2>2. server_socket \in 1 .. conns
    BY <1>0, <1>3 DEF While, LinkOK, LinkInv
  <2> QED
    BY <1>0, <1>3, <2>1, <2>2 DEF While, LinkOK, LinkInv
<1>4. CASE TakeChunk
  <2>1. spc \notin {"connect", "callback"} /\ spc' \notin {"connect", "callback"}
    BY <1>4 DEF TakeChunk, Pack
  <2> QED
    BY <1>0, <1>4, <2>1 DEF TakeChunk, LinkOK, LinkInv, linkVars
<1>5. CASE SendPacket
  <2>1. spc \notin {"connect", "callback"} /\ spc' \notin {"connect", "callback"}
    BY <1>5 DEF SendPacket, Pack
  <2>2. wire' \in Seq(Bytes)
    <3>1. wire \in Seq(Bytes) /\ packet_buf \in Seq(Bytes)
      BY <1>0 DEF LinkOK, ServerOK
    <3>2. wire' = wire \/ wire' = wire \o packet_buf
      BY <1>5 DEF SendPacket
    <3>3. wire \o packet_buf \in Seq(Bytes)
      BY <3>1, Concat
    <3> QED
      BY <3>1, <3>2, <3>3
  <2>3. client_socket # server_socket => wire' = wire
    <3> SUFFICES ASSUME client_socket # server_socket PROVE server_socket \in dead
      BY <1>5 DEF SendPacket
    <3> QED
      BY <1>0, <1>5 DEF SendPacket, LinkInv, LinkOK
  <2> QED
    BY <1>0, <1>5, <2>1, <2>2, <2>3 DEF SendPacket, LinkOK, LinkInv, linkVars
<1>6. CASE SendFails
  BY <1>0, <1>6 DEF SendFails, LinkOK, LinkInv, linkVars
<1>7. CASE NewConnection /\ UNCHANGED spc
  BY <1>0, <1>7, Connects
<1>8. CASE Recv
  <2> DEFINE a == SubSeq(wire, 1, Payload)
             b == SubSeq(wire, Payload + 1, Len(wire))
  <2>1. Payload \in 0 .. Len(wire) /\ wire # <<>> /\ wire \in Seq(Bytes)
    BY <1>0, <1>8 DEF Recv, LinkOK
  <2>2. a \in Seq(Bytes) /\ b \in Seq(Bytes)
    BY <2>1, SplitAt
  <2>3. got' = got \o a /\ wire' = b
    BY <1>8 DEF Recv
  <2> HIDE DEF a, b
  <2>4. got' \in Seq(Bytes) /\ wire' \in Seq(Bytes)
    BY <1>0, <2>2, <2>3, Concat DEF LinkOK
  <2>5. client_socket = server_socket /\ spc \notin {"connect", "callback"}
    BY <2>1 DEF LinkInv
  <2>6. UNCHANGED linkVars /\ UNCHANGED spc
    BY <1>8 DEF Recv, serverVars
  <2> QED
    BY <1>0, <2>4, <2>5, <2>6 DEF LinkOK, LinkInv, linkVars
<1>9. CASE Break
  <2>1. wire' \in Seq(Bytes) /\ (wire = <<>> => wire' = <<>>)
    BY <1>0, <1>9, <1>c DEF Break, LinkOK
  <2>2. client_socket \in 1 .. conns
    BY <1>0, <1>9 DEF Break, LinkOK
  <2> QED
    BY <1>0, <1>9, <2>1, <2>2 DEF Break, LinkOK, LinkInv, serverVars
<1>10. CASE UNCHANGED <<spc, linkVars, wire, got>>
  BY <1>0, <1>10 DEF LinkOK, LinkInv, linkVars
<1>11. (\E kind \in Kinds : StartCode(kind)) \/ OtherBytes \/ CloseServer
         \/ Store \/ Expand \/ WaitEmptied \/ Decoder =>
            UNCHANGED <<spc, linkVars, wire, got>>
  BY DEF StartCode, OtherBytes, CloseServer, Store, Expand, WaitEmptied, Decoder,
         Decode, WaitFilled, serverVars
<1>12. StartViewer \/ RecvFails => NewConnection /\ UNCHANGED spc
  BY DEF StartViewer, RecvFails, serverVars
<1> QED
  BY <1>1, <1>2, <1>3, <1>4, <1>5, <1>6, <1>7, <1>8, <1>9, <1>10, <1>11, <1>12
  DEF Next, Server, Client

\* The numbers of a queue.
LEMMA QueueNumbers ==
  ASSUME NEW q, IsQueue(q)
  PROVE  /\ q.capacity \in Nat \ {0} /\ q.size \in Nat /\ q.size <= q.capacity
         /\ 2 * q.capacity \in Nat \ {0} /\ q.size <= 2 * q.capacity
<1>1. q.capacity \in Nat \ {0} /\ q.size \in 0 .. q.capacity
  BY DEF IsQueue
<1> QED
  BY <1>1

\* A step of the viewer's threads.
LEMMA ViewerStep ==
  ASSUME TypeOK, Next
  PROVE  ViewerOK'
<1>0. ViewerOK /\ LinkOK /\ Payload \in Nat \ {0} /\ Handoff \in Nat
      /\ <<>> \in Seq(Bytes)
  BY StreamerAssumption DEF TypeOK, Payload
<1>1. CASE StartViewer
  <2>1. /\ IsQueue(client_queue') /\ Contents(client_queue') = <<>>
        /\ client_queue'.capacity = Handoff + 1
    <3>1. Handoff + 1 \in Nat \ {0}
      BY <1>0
    <3> QED
      BY <1>1, <3>1, CreateEmpty DEF StartViewer
  <2>2. Contents(client_queue') \in Seq(Bytes)
    BY <1>0, <2>1
  <2> QED
    BY <1>0, <1>1, <2>1, <2>2 DEF StartViewer, ViewerOK
<1>2. CASE Recv
  <2>1. Payload \in 0 .. Len(wire) /\ wire \in Seq(Bytes)
    BY <1>0, <1>2 DEF Recv, LinkOK
  <2>2. buffer' \in Seq(Bytes) /\ Len(buffer') = Payload
    BY <1>2, <2>1, SplitAt DEF Recv
  <2> QED
    BY <1>0, <1>2, <2>2 DEF Recv, ViewerOK
<1>3. CASE RecvFails
  BY <1>0, <1>3 DEF RecvFails, ViewerOK
<1>4. CASE Store
  <2>1. Len(buffer) <= Space(client_queue) /\ buffer \in Seq(Bytes)
        /\ received \in Seq(Bytes)
    BY <1>0, <1>4 DEF Store, HasRoom, ViewerOK, Space, IsQueue
  <2>2. IsQueue(client_queue') /\ Contents(client_queue') \in Seq(Bytes)
    BY <1>0, <1>4, <2>1, EnqueueAppends DEF Store, ViewerOK
  <2>3. received' \in Seq(Bytes)
    BY <1>4, <2>1, Concat DEF Store
  <2> QED
    BY <1>0, <1>4, <2>2, <2>3 DEF Store, ViewerOK
<1>5. CASE Expand
  <2>1. 2 * client_queue.capacity \in Nat \ {0}
        /\ client_queue.size <= 2 * client_queue.capacity
    BY <1>0, QueueNumbers DEF ViewerOK
  <2>2. IsQueue(client_queue') /\ Contents(client_queue') \in Seq(Bytes)
    BY <1>0, <1>5, <2>1, ExpandKeeps DEF Expand, ViewerOK
  <2> QED
    BY <1>0, <1>5, <2>2 DEF Expand, ViewerOK
<1>6. CASE WaitEmptied
  BY <1>0, <1>6 DEF WaitEmptied, ViewerOK
<1>7. CASE Decode
  <2>1. CASE client_queue.size > Handoff
    <3>1. Handoff \in 0 .. client_queue.size
      BY <1>0, <2>1 DEF ViewerOK, IsQueue
    <3>2. IsQueue(client_queue') /\ Contents(client_queue') \in Seq(Bytes)
      BY <1>0, <1>7, <2>1, <3>1, DequeueTakesFirst DEF Decode, ViewerOK
    <3>3. SubSeq(Contents(client_queue), 1, Handoff) \in Seq(Bytes)
      <4>1. Handoff \in 0 .. Len(Contents(client_queue))
        BY <1>0, <3>1, ContentsSeq DEF ViewerOK
      <4> QED
        BY <1>0, <4>1, SplitAt DEF ViewerOK
    <3>4. decoded' \in Seq(Bytes)
      <4>1. decoded \in Seq(Bytes)
            /\ decoded' = decoded \o SubSeq(Contents(client_queue), 1, Handoff)
        BY <1>0, <1>7, <2>1 DEF Decode, ViewerOK
      <4> QED
        BY <3>3, <4>1, Concat
    <3> QED
      BY <1>0, <1>7, <2>1, <3>2, <3>4 DEF Decode, ViewerOK
  <2>2. CASE ~(client_queue.size > Handoff)
    BY <1>0, <1>7, <2>2 DEF Decode, ViewerOK
  <2> QED
    BY <2>1, <2>2
<1>8. CASE WaitFilled
  BY <1>0, <1>8 DEF WaitFilled, ViewerOK
<1>9. CASE UNCHANGED viewerVars
  BY <1>0, <1>9 DEF ViewerOK, viewerVars
<1>10. (\E kind \in Kinds : StartCode(kind)) \/ OtherBytes \/ CloseServer
         \/ Server \/ Break => UNCHANGED viewerVars
  BY DEF StartCode, OtherBytes, CloseServer, Server, Accept, InsertPpsSps, While,
         TakeChunk, SendPacket, SendFails, Break
<1> QED
  BY <1>1, <1>2, <1>3, <1>4, <1>5, <1>6, <1>7, <1>8, <1>9, <1>10
  DEF Next, Client, Decoder

-----------------------------------------------------------------------------
(* The viewer's queue.                                                     *)

\* client_queue loses no byte and changes no order.
LEMMA OrderStep ==
  ASSUME TypeOK, DecodedInOrder, Next
  PROVE  DecodedInOrder'
<1>0. ViewerOK /\ Payload \in Nat \ {0} /\ Handoff \in Nat
  BY StreamerAssumption DEF TypeOK, Payload
<1>1. CASE StartViewer
  <2>1. Handoff + 1 \in Nat \ {0}
    BY <1>0
  <2>2. Contents(client_queue') = <<>>
    BY <1>1, <2>1, CreateEmpty DEF StartViewer
  <2> QED
    BY <1>1, <2>2 DEF StartViewer, DecodedInOrder
<1>2. CASE Store
  <2>1. Len(buffer) <= Space(client_queue) /\ buffer \in Seq(Bytes)
        /\ decoded \in Seq(Bytes) /\ Contents(client_queue) \in Seq(Bytes)
    BY <1>0, <1>2 DEF Store, HasRoom, ViewerOK, Space, IsQueue
  <2>2. Contents(client_queue') = Contents(client_queue) \o buffer
    BY <1>0, <1>2, <2>1, EnqueueAppends DEF Store, ViewerOK
  <2>3. received' = (decoded \o Contents(client_queue)) \o buffer
        /\ decoded' = decoded
    BY <1>2 DEF Store, DecodedInOrder
  <2>4. (decoded \o Contents(client_queue)) \o buffer =
          decoded \o (Contents(client_queue) \o buffer)
    BY <2>1, Assoc
  <2> QED
    BY <2>2, <2>3, <2>4, Zenon DEF DecodedInOrder
<1>3. CASE Expand
  <2>1. 2 * client_queue.capacity \in Nat \ {0}
        /\ client_queue.size <= 2 * client_queue.capacity
    BY <1>0, QueueNumbers DEF ViewerOK
  <2>2. Contents(client_queue') = Contents(client_queue)
    BY <1>0, <1>3, <2>1, ExpandKeeps DEF Expand, ViewerOK
  <2> QED
    BY <1>3, <2>2 DEF Expand, DecodedInOrder
<1>4. CASE Decode
  <2>1. CASE client_queue.size > Handoff
    <3> DEFINE c == Contents(client_queue)
               a == SubSeq(c, 1, Handoff)
               b == SubSeq(c, Handoff + 1, client_queue.size)
    <3>1. Handoff \in 0 .. client_queue.size /\ Len(c) = client_queue.size
          /\ c \in Seq(Bytes) /\ decoded \in Seq(Bytes)
      BY <1>0, <2>1, ContentsSeq, QueueNumbers DEF ViewerOK
    <3>2. Contents(client_queue') = b
      BY <1>0, <1>4, <2>1, <3>1, DequeueTakesFirst DEF Decode, ViewerOK
    <3>3. a \in Seq(Bytes) /\ b \in Seq(Bytes) /\ c = a \o b
      BY <3>1, SplitAt
    <3>4. received' = decoded \o c /\ decoded' = decoded \o a
      BY <1>4, <2>1 DEF Decode, DecodedInOrder
    <3> HIDE DEF a, b, c
    <3>5. (decoded \o a) \o b = decoded \o (a \o b)
      BY <3>1, <3>3, Assoc
    <3> QED
      BY <3>2, <3>3, <3>4, <3>5, Zenon DEF DecodedInOrder
  <2>2. CASE ~(client_queue.size > Handoff)
    BY <1>4, <2>2 DEF Decode, DecodedInOrder
  <2> QED
    BY <2>1, <2>2
<1>5. CASE UNCHANGED <<client_queue, received, decoded>>
  BY <1>5 DEF DecodedInOrder
<1>6. (\E kind \in Kinds : StartCode(kind)) \/ OtherBytes \/ CloseServer
        \/ Server \/ Recv \/ RecvFails \/ WaitEmptied \/ WaitFilled \/ Break =>
           UNCHANGED <<client_queue, received, decoded>>
  BY DEF StartCode, OtherBytes, CloseServer, Server, Accept, InsertPpsSps, While,
         TakeChunk, SendPacket, SendFails, Recv, RecvFails, WaitEmptied,
         WaitFilled, Break, viewerVars
<1> QED
  BY <1>1, <1>2, <1>3, <1>4, <1>5, <1>6 DEF Next, Client, Decoder

\* What keeps the two threads from waiting for each other.
LEMMA HandoffStep ==
  ASSUME TypeOK, HandoffInv, Next
  PROVE  HandoffInv'
<1>0. /\ ViewerOK /\ Payload \in Nat \ {0} /\ Handoff \in Nat
      /\ Handoff + 2 > 2 * Payload
      /\ client_queue.size \in Nat /\ client_queue.capacity \in Nat \ {0}
      /\ client_queue.size <= client_queue.capacity
      /\ filled \in Nat /\ emptied \in Nat
  BY StreamerAssumption, QueueNumbers DEF TypeOK, Payload, ViewerOK
<1>1. CASE StartViewer
  <2>1. Handoff + 1 \in Nat \ {0}
    BY <1>0
  <2>2. client_queue'.capacity = Handoff + 1
    BY <1>1, <2>1, CreateEmpty DEF StartViewer
  <2> QED
    BY <1>0, <1>1, <2>2 DEF StartViewer, HandoffInv
<1>2. CASE Store
  <2>1. Len(buffer) <= Space(client_queue) /\ buffer \in Seq(Bytes)
    BY <1>0, <1>2 DEF Store, HasRoom, ViewerOK, Space
  <2>2. client_queue'.capacity = client_queue.capacity
    BY <1>0, <1>2, <2>1, EnqueueAppends DEF Store, ViewerOK
  <2> QED
    BY <1>0, <1>2, <2>2 DEF Store, HandoffInv
<1>3. CASE Expand
  <2>1. 2 * client_queue.capacity \in Nat \ {0}
        /\ client_queue.size <= 2 * client_queue.capacity
    BY <1>0
  <2>2. client_queue'.capacity = 2 * client_queue.capacity
        /\ client_queue'.size = client_queue.size
    BY <1>0, <1>3, <2>1, ExpandKeeps DEF Expand, ViewerOK
  <2>3. client_queue.capacity - client_queue.size <= 2 * Payload
    BY <1>0, <1>3 DEF Expand, HasRoom, Space, ViewerOK
  <2>4. emptied = 0 => client_queue.size > Handoff
    BY <1>0, <2>3 DEF HandoffInv
  <2> QED
    BY <1>0, <1>3, <2>2, <2>4 DEF Expand, HandoffInv
<1>4. CASE WaitEmptied
  BY <1>0, <1>4 DEF WaitEmptied, HandoffInv
<1>5. CASE Decode
  <2>1. CASE client_queue.size > Handoff
    <3>1. Handoff \in 0 .. client_queue.size
      BY <1>0, <2>1
    <3>2. client_queue'.capacity = client_queue.capacity
      BY <1>0, <1>5, <2>1, <3>1, DequeueTakesFirst DEF Decode, ViewerOK
    <3> QED
      BY <1>0, <1>5, <2>1, <3>2 DEF Decode, HandoffInv
  <2>2. CASE ~(client_queue.size > Handoff)
    BY <1>0, <1>5, <2>2 DEF Decode, HandoffInv
  <2> QED
    BY <2>1, <2>2
<1>6. CASE WaitFilled
  BY <1>0, <1>6 DEF WaitFilled, HandoffInv
<1>7. CASE Recv \/ RecvFails
  BY <1>0, <1>7 DEF Recv, RecvFails, HandoffInv
<1>8. CASE UNCHANGED viewerVars
  BY <1>0, <1>8 DEF viewerVars, HandoffInv
<1>9. (\E kind \in Kinds : StartCode(kind)) \/ OtherBytes \/ CloseServer
        \/ Server \/ Break => UNCHANGED viewerVars
  BY DEF StartCode, OtherBytes, CloseServer, Server, Accept, InsertPpsSps, While,
         TakeChunk, SendPacket, SendFails, Break
<1> QED
  BY <1>1, <1>2, <1>3, <1>4, <1>5, <1>6, <1>7, <1>8, <1>9
  DEF Next, Client, Decoder

-----------------------------------------------------------------------------
(* The session's bytes.                                                    *)

\* Concatenation of bytes, in the form in which the steps below cite it.
LEMMA Join ==
  \A r, s, t \in Seq(Bytes) :
    /\ r \o s \in Seq(Bytes)
    /\ (r \o s) \o t = r \o (s \o t)
<1> SUFFICES ASSUME NEW r \in Seq(Bytes), NEW s \in Seq(Bytes), NEW t \in Seq(Bytes)
             PROVE  r \o s \in Seq(Bytes) /\ (r \o s) \o t = r \o (s \o t)
  OBVIOUS
<1> QED
  BY Assoc, Concat

\* No byte of a session is lost, doubled or moved.
LEMMA SessionStep ==
  ASSUME TypeOK, LinkInv, SessionIntact, BeforeFirst, Next
  PROVE  SessionIntact' /\ BeforeFirst'
<1> DEFINE A == got \o wire
           C == Contents(server_queue)
           Open == InSession /\ server_socket \notin dead
<1>0. RecordOK /\ ServerOK /\ LinkOK /\ Payload \in Nat \ {0}
  BY StreamerAssumption DEF TypeOK, Payload
<1>t. /\ got \in Seq(Bytes) /\ wire \in Seq(Bytes) /\ A \in Seq(Bytes)
      /\ packet_buf \in Seq(Bytes) /\ chunk_buffer \in Seq(Bytes)
      /\ C \in Seq(Bytes) /\ entered \in Seq(Bytes) /\ <<>> \in Seq(Bytes)
  BY <1>0 DEF RecordOK, ServerOK, LinkOK
<1>a. A \in Seq(Bytes)
  BY <1>t
<1>c. C \in Seq(Bytes)
  BY <1>t
<1>g. got \in Seq(Bytes)
  BY <1>t
<1>w. wire \in Seq(Bytes)
  BY <1>t
<1>p. packet_buf \in Seq(Bytes)
  BY <1>t
<1>k. chunk_buffer \in Seq(Bytes)
  BY <1>t
<1>1. ASSUME NEW kind \in Kinds, StartCode(kind)
      PROVE  SessionIntact' /\ BeforeFirst'
  <2>1. CASE kinds = <<>>
    BY <1>1, <2>1 DEF StartCode, SessionIntact, BeforeFirst, InSession, serverVars,
                      linkVars
  <2>2. CASE kinds # <<>>
    <3> DEFINE U == Unit(Len(kinds))
    <3>1. Complete(Len(kinds)) /\ UNCHANGED <<serverVars, linkVars, wire, got>>
      BY <1>1, <2>2 DEF StartCode
    <3>2. \/ Contents(server_queue') = C \o U /\ entered' = entered \o U
          \/ Contents(server_queue') = C /\ entered' = entered
      BY <2>2, <3>1, CompleteStep
    <3>3. U \in Seq(Bytes)
      <4>1. Len(kinds) \in 1 .. Len(kinds)
        BY <1>0, <2>2 DEF RecordOK
      <4> QED
        BY <4>1, UnitBytes
    <3> HIDE DEF U
    <3>4. CASE Contents(server_queue') = C /\ entered' = entered
      BY <3>1, <3>4 DEF SessionIntact, BeforeFirst, InSession, serverVars, linkVars
    <3>5. CASE Contents(server_queue') = C \o U /\ entered' = entered \o U
      <4> DEFINE B == A \o packet_buf \o chunk_buffer
      <4>1. B \in Seq(Bytes)
        BY <1>t, Concat
      <4>2. B \o (C \o U) = (B \o C) \o U
        <5> HIDE DEF B, C
        <5> QED
          BY <1>c, <3>3, <4>1, Join
      <4>3. Open => B \o (C \o U) = entered'
        BY <3>5, <4>2 DEF SessionIntact
      <4>4. InSession /\ server_socket = client_socket => IsPrefixOf(A, entered')
        BY <1>t, <3>3, <3>5, PrefixGrows DEF SessionIntact
      <4>5. BeforeFirst'
        BY <3>1, <3>5 DEF BeforeFirst, serverVars
      <4> QED
        BY <3>1, <3>5, <4>3, <4>4, <4>5
        DEF SessionIntact, InSession, serverVars, linkVars
    <3> QED
      BY <3>2, <3>4, <3>5
  <2> QED
    BY <2>1, <2>2
<1>2. CASE Accept
  <2>1. CASE spc = "connect"
    <3>1. got = <<>> /\ wire = <<>> /\ packet_buf = <<>> /\ chunk_buffer = <<>>
          /\ entered = C
      BY <1>0, <2>1 DEF LinkInv, ServerOK, BeforeFirst
    <3>2. UNCHANGED <<got, wire, packet_buf, chunk_buffer, server_queue, entered>>
          /\ spc' = "while"
      BY <1>2, <2>1 DEF Accept
    <3>3. <<>> \o <<>> \o <<>> \o <<>> \o C = C /\ IsPrefixOf(<<>> \o <<>>, C)
      BY <1>t DEF IsPrefixOf
    <3> QED
      BY <3>1, <3>2, <3>3 DEF SessionIntact, BeforeFirst
  <2>2. CASE spc # "connect"
    BY <1>2, <2>2 DEF Accept, SessionIntact, BeforeFirst, InSession
  <2> QED
    BY <2>1, <2>2
<1>3. CASE InsertPpsSps
  <2>1. got = <<>> /\ wire = <<>> /\ packet_buf = <<>> /\ chunk_buffer = <<>>
    BY <1>0, <1>3 DEF InsertPpsSps, LinkInv, ServerOK
  <2>2. UNCHANGED <<got, wire, packet_buf, chunk_buffer>> /\ spc' = "while"
        /\ entered' = Contents(server_queue')
    BY <1>3 DEF InsertPpsSps
  <2>3. entered' \in Seq(Bytes)
    BY RecordStep DEF RecordOK
  <2>4. <<>> \o <<>> \o <<>> \o <<>> \o entered' = entered'
        /\ IsPrefixOf(<<>> \o <<>>, entered')
    BY <2>3 DEF IsPrefixOf
  <2> QED
    BY <2>1, <2>2, <2>4 DEF SessionIntact, BeforeFirst
<1>4. CASE While
  BY <1>4 DEF While, SessionIntact, BeforeFirst, InSession
<1>5. CASE TakeChunk
  <2>1. CASE server_queue.size > PACKET_SIZE
    <3> DEFINE c == SubSeq(Contents(server_queue), 1, PACKET_SIZE)
               D == Contents(server_queue')
    <3>1. D \in Seq(Bytes) /\ c \in Seq(Bytes) /\ C = c \o D /\ Pack(packet_buf, c)
      BY <1>0, <1>5, <2>1, ChunkTaken
    <3>2. Len(packet_buf) < Payload /\ chunk_buffer = <<>>
      BY <1>0, <1>5 DEF TakeChunk, ServerOK
    <3> HIDE DEF c
    <3>3. /\ packet_buf' \in Seq(Bytes) /\ chunk_buffer' \in Seq(Bytes)
          /\ packet_buf' \o chunk_buffer' = packet_buf \o c
          /\ spc' \in {"send", "while"}
      BY <1>t, <3>1, <3>2, PackStep
    <3>4. UNCHANGED <<linkVars, wire, got, entered>> /\ InSession
      BY <1>5 DEF TakeChunk, InSession
    <3> HIDE DEF A, C, D
    <3>5. (A \o packet_buf') \o chunk_buffer' = A \o (packet_buf' \o chunk_buffer')
      <4>1. packet_buf' \in Seq(Bytes) /\ chunk_buffer' \in Seq(Bytes)
        BY <3>3
      <4> QED
        BY <1>a, <4>1, Join
    <3>6. (A \o packet_buf) \o c = A \o (packet_buf \o c)
      <4>1. c \in Seq(Bytes)
        BY <3>1
      <4> QED
        BY <1>a, <1>p, <4>1, Join
    <3>7. ((A \o packet_buf) \o c) \o D = (A \o packet_buf) \o (c \o D)
          /\ (A \o packet_buf) \o <<>> = A \o packet_buf
      <4> DEFINE B == A \o packet_buf
      <4>1. B \in Seq(Bytes)
        BY <1>a, <1>p, Concat
      <4>2. c \in Seq(Bytes) /\ D \in Seq(Bytes)
        BY <3>1
      <4> HIDE DEF B
      <4>3. (B \o c) \o D = B \o (c \o D)
        BY <4>1, <4>2, Join
      <4>4. B \o <<>> = B
        BY <4>1
      <4> QED
        BY <4>3, <4>4 DEF B
    <3>8. A \o packet_buf' \o chunk_buffer' \o D
            = A \o packet_buf \o chunk_buffer \o C
      BY <3>1, <3>2, <3>3, <3>5, <3>6, <3>7, Zenon
    <3> USE DEF A, C, D
    <3>9. server_socket \notin dead =>
            A \o packet_buf' \o chunk_buffer' \o D = entered
      BY <3>4, <3>8 DEF SessionIntact
    <3> QED
      BY <3>3, <3>4, <3>9
      DEF SessionIntact, BeforeFirst, InSession, linkVars
  <2>2. CASE ~(server_queue.size > PACKET_SIZE)
    BY <1>5, <2>2 DEF TakeChunk, SessionIntact, BeforeFirst, InSession, linkVars
  <2> QED
    BY <2>1, <2>2
<1>6. CASE SendPacket
  <2>1. /\ packet_buf' \in Seq(Bytes) /\ chunk_buffer' \in Seq(Bytes)
        /\ packet_buf' \o chunk_buffer' = <<>> \o chunk_buffer
        /\ spc' \in {"send", "while"}
    <3>1. Pack(<<>>, chunk_buffer) /\ Len(<<>>) < Payload
      BY <1>0, <1>6 DEF SendPacket
    <3> QED
      BY <1>t, <3>1, PackStep
  <2>2. UNCHANGED <<linkVars, got, entered, server_queue>> /\ InSession
    BY <1>6 DEF SendPacket, InSession
  <2>3. CASE server_socket \in dead
    BY <1>6, <2>1, <2>2, <2>3 DEF SendPacket, SessionIntact, BeforeFirst, linkVars
  <2>4. CASE server_socket \notin dead
    <3> DEFINE B == A \o packet_buf
    <3>1. wire' = wire \o packet_buf
      BY <1>6, <2>4 DEF SendPacket
    <3>2. got \o wire' = B /\ B \in Seq(Bytes)
      BY <1>g, <1>w, <1>p, <3>1, Join
    <3>3. (B \o chunk_buffer) \o C = entered
      BY <2>2, <2>4 DEF SessionIntact
    <3> HIDE DEF B, C, A
    <3>4. (B \o packet_buf') \o chunk_buffer' = B \o (packet_buf' \o chunk_buffer')
      BY <2>1, <3>2, Join
    <3>5. <<>> \o chunk_buffer = chunk_buffer
      BY <1>t
    <3>6. ((B \o packet_buf') \o chunk_buffer') \o C = entered
      BY <2>1, <3>3, <3>4, <3>5, Zenon
    <3>7. (B \o chunk_buffer) \o C = B \o (chunk_buffer \o C)
      BY <1>k, <1>c, <3>2, Join
    <3>8. chunk_buffer \o C \in Seq(Bytes)
      BY <1>t, Concat
    <3>9. IsPrefixOf(B, entered)
      BY <3>2, <3>3, <3>7, <3>8, PrefixOfConcat
    <3> USE DEF C
    <3> QED
      BY <2>1, <2>2, <3>2, <3>6, <3>9 DEF SessionIntact, BeforeFirst, linkVars
  <2> QED
    BY <2>3, <2>4
<1>7. CASE SendFails
  BY <1>7 DEF SendFails, SessionIntact, BeforeFirst, InSession
<1>8. CASE NewConnection /\ UNCHANGED <<spc, server_queue, entered>>
  <2>1. InSession => server_socket \in dead' /\ server_socket # client_socket'
    BY <1>0, <1>8 DEF NewConnection, LinkOK, LinkInv, InSession
  <2> QED
    BY <1>8, <2>1 DEF NewConnection, SessionIntact, BeforeFirst, InSession
<1>9. CASE Recv
  <2>1. Payload \in 0 .. Len(wire) /\ buffer' = SubSeq(wire, 1, Payload)
        /\ wire' = SubSeq(wire, Payload + 1, Len(wire)) /\ got' = got \o buffer'
    BY <1>0, <1>9 DEF Recv
  <2>2. /\ buffer' \in Seq(Bytes) /\ wire' \in Seq(Bytes)
        /\ wire = buffer' \o wire'
    BY <1>t, <2>1, SplitAt
  <2>3. got' \o wire' = got \o wire
    <3>1. buffer' \in Seq(Bytes) /\ wire' \in Seq(Bytes)
      BY <2>2
    <3>2. (got \o buffer') \o wire' = got \o (buffer' \o wire')
      BY <1>g, <3>1, Join
    <3> QED
      BY <2>1, <2>2, <3>2, Zenon
  <2>4. UNCHANGED <<serverVars, linkVars, server_queue, entered>>
    BY <1>9 DEF Recv
  <2> QED
    BY <2>3, <2>4 DEF SessionIntact, BeforeFirst, InSession, serverVars, linkVars
<1>10. CASE Break
  <2>1. PICK m \in 0 .. Len(wire) : wire' = SubSeq(wire, 1, m)
    BY <1>10 DEF Break
  <2>2. UNCHANGED <<serverVars, server_queue, server_socket, client_socket, got,
                    entered>> /\ dead' = dead \cup {client_socket}
    BY <1>10 DEF Break
  <2>3. InSession => server_socket \in dead'
    BY <1>0, <2>2 DEF LinkOK, LinkInv, InSession
  <2>4. InSession /\ server_socket = client_socket => IsPrefixOf(got \o wire', entered)
    BY <1>t, <2>1, PrefixCut DEF SessionIntact
  <2> QED
    BY <2>2, <2>3, <2>4 DEF SessionIntact, BeforeFirst, InSession, serverVars
<1>11. CASE UNCHANGED <<serverVars, linkVars, wire, got, server_queue, entered>>
  BY <1>11 DEF SessionIntact, BeforeFirst, InSession, serverVars, linkVars
<1>12. OtherBytes \/ CloseServer \/ Store \/ Expand \/ WaitEmptied \/ Decoder =>
         UNCHANGED <<serverVars, linkVars, wire, got, server_queue, entered>>
  BY DEF OtherBytes, CloseServer, Store, Expand, WaitEmptied, Decoder, Decode,
         WaitFilled
<1>13. StartViewer \/ RecvFails =>
         NewConnection /\ UNCHANGED <<spc, server_queue, entered>>
  BY DEF StartViewer, RecvFails, serverVars
<1> QED
  BY <1>1, <1>2, <1>3, <1>4, <1>5, <1>6, <1>7, <1>8, <1>9, <1>10, <1>11, <1>12,
     <1>13
  DEF Next, Server, Client

-----------------------------------------------------------------------------
(* The units of a session.                                                 *)

\* Ignoring more of the beginning.
LEMMA WholeLater ==
  ASSUME NEW e \in Seq(Bytes), NEW ks \in Seq(Kinds), NEW i \in Nat, NEW j \in Nat,
         i <= j, NEW awaited, WholeFrom(i, e, ks, awaited)
  PROVE  WholeFrom(j, e, ks, awaited)
<1>1. j + 1 .. Len(e) \subseteq i + 1 .. Len(e)
      /\ j + 1 .. Len(e) - 1 \subseteq i + 1 .. Len(e) - 1
      /\ (Len(e) > j => Len(e) > i)
  OBVIOUS
<1> QED
  BY <1>1 DEF WholeFrom

\* A unit that was not taken is followed by the wait for an IDR unit.
LEMMA WholeWithout ==
  ASSUME NEW e \in Seq(Bytes), NEW ks \in Seq(Kinds), NEW i \in Nat, NEW kind,
         NEW awaited, WholeFrom(i, e, ks, awaited)
  PROVE  WholeFrom(i, e, Append(ks, kind), TRUE)
<1> DEFINE k == Len(ks)
           t == Append(ks, kind)
<1>1. k \in Nat /\ Len(t) = k + 1 /\ \A n \in 1 .. k : t[n] = ks[n]
  OBVIOUS
<1>2. Len(e) \in Nat
  OBVIOUS
<1> HIDE DEF k, t
<1>3. \A j \in i + 1 .. Len(e) : e[j][1] \in 1 .. k - 1
  BY DEF WholeFrom, k
<1>4. \A j \in i + 1 .. Len(e) : t[e[j][1]] = ks[e[j][1]] /\ e[j][1] \in 1 .. Len(t) - 1
  <2> SUFFICES ASSUME NEW j \in i + 1 .. Len(e)
               PROVE  t[e[j][1]] = ks[e[j][1]] /\ e[j][1] \in 1 .. Len(t) - 1
    OBVIOUS
  <2>1. e[j][1] \in 1 .. k - 1
    BY <1>3
  <2>2. e[j][1] \in 1 .. k /\ e[j][1] \in 1 .. Len(t) - 1
    BY <1>1, <2>1
  <2> QED
    BY <1>1, <2>2
<1>5. ASSUME NEW j \in i + 1 .. Len(e) - 1 PROVE Follows(e[j], e[j + 1], t)
  <2>1. j \in i + 1 .. Len(e) /\ j + 1 \in i + 1 .. Len(e)
    BY <1>2
  <2>2. Follows(e[j], e[j + 1], ks)
    BY DEF WholeFrom
  <2>3. t[e[j][1]] = ks[e[j][1]] /\ t[e[j + 1][1]] = ks[e[j + 1][1]]
    BY <1>4, <2>1
  <2> QED
    BY <2>2, <2>3 DEF Follows
<1>6. Len(e) > i => e[Len(e)][2] = UnitLen[t[e[Len(e)][1]]]
  <2> SUFFICES ASSUME Len(e) > i PROVE e[Len(e)][2] = UnitLen[t[e[Len(e)][1]]]
    OBVIOUS
  <2>1. Len(e) \in i + 1 .. Len(e)
    BY <1>2
  <2> QED
    BY <1>4, <2>1 DEF WholeFrom
<1> QED
  BY <1>4, <1>5, <1>6 DEF WholeFrom, t

\* A unit that was taken follows the previous one, or is an IDR unit.
LEMMA WholeWith ==
  ASSUME NEW e \in Seq(Bytes), NEW ks \in Seq(Kinds), NEW i \in Nat, NEW kind,
         NEW awaited, WholeFrom(i, e, ks, awaited), ks # <<>>,
         awaited => ks[Len(ks)] = "IDR",
         NEW u \in Seq(Bytes), Len(u) = UnitLen[ks[Len(ks)]], u # <<>>,
         \A x \in 1 .. Len(u) : u[x] = <<Len(ks), x>>
  PROVE  WholeFrom(i, e \o u, Append(ks, kind), FALSE)
<1> DEFINE k == Len(ks)
           t == Append(ks, kind)
           f == e \o u
           L == Len(e)
           n == Len(u)
<1>1. k \in Nat \ {0} /\ Len(t) = k + 1 /\ \A x \in 1 .. k : t[x] = ks[x]
  OBVIOUS
<1>2. L \in Nat /\ n \in Nat \ {0} /\ n = UnitLen[ks[k]]
  OBVIOUS
<1>3. Len(f) = L + n /\ \A j \in 1 .. L : f[j] = e[j]
  BY Concat
<1>4. \A x \in 1 .. n : f[L + x] = <<k, x>>
  BY Concat
<1>5. WholeFrom(i, e, t, TRUE)
  BY WholeWithout
<1>6. /\ \A j \in i + 1 .. L : e[j][1] \in 1 .. k - 1
      /\ L > i => (~awaited => e[L][1] = k - 1)
  BY DEF WholeFrom
<1>a. awaited => ks[k] = "IDR"
  OBVIOUS
<1> HIDE DEF k, t, f, L, n
<1>7. \A j \in L + 1 .. L + n : f[j] = <<k, j - L>>
  <2> SUFFICES ASSUME NEW j \in L + 1 .. L + n PROVE f[j] = <<k, j - L>>
    OBVIOUS
  <2>1. j - L \in 1 .. n /\ L + (j - L) = j
    BY <1>2
  <2> QED
    BY <1>4, <2>1
<1>8. ASSUME NEW j \in i + 1 .. L + n PROVE f[j][1] \in 1 .. k
  <2>1. CASE j \in i + 1 .. L
    <3>1. j \in 1 .. L
      BY <1>2, <2>1
    <3> QED
      BY <1>1, <1>3, <1>6, <2>1, <3>1
  <2>2. CASE j \notin i + 1 .. L
    <3>1. j \in L + 1 .. L + n
      BY <1>2, <2>2
    <3>2. f[j] = <<k, j - L>>
      BY <1>7, <3>1
    <3> QED
      BY <1>1, <3>2
  <2> QED
    BY <2>1, <2>2
<1>9. ASSUME NEW j \in i + 1 .. L + n - 1 PROVE Follows(f[j], f[j + 1], t)
  <2>1. CASE j \in i + 1 .. L - 1
    <3>1. j \in 1 .. L /\ j + 1 \in 1 .. L
      BY <1>2, <2>1
    <3>2. Follows(e[j], e[j + 1], t)
      BY <1>5, <2>1 DEF WholeFrom, L
    <3> QED
      BY <1>3, <3>1, <3>2
  <2>2. CASE j = L
    <3>1. L > i /\ L \in i + 1 .. L /\ L \in 1 .. L /\ L + 1 \in L + 1 .. L + n
          /\ (L + 1) - L = 1
      BY <1>2, <2>2
    <3>2. f[L] = e[L] /\ f[L + 1] = <<k, 1>>
      BY <1>3, <1>7, <3>1
    <3>3. e[L][2] = UnitLen[t[e[L][1]]]
      BY <1>5, <3>1 DEF WholeFrom, L
    <3>4. e[L][1] \in 1 .. k - 1 /\ t[k] = ks[k]
      BY <1>1, <1>6, <3>1
    <3>5. k = e[L][1] + 1 \/ (k > e[L][1] /\ t[k] = "IDR")
      <4>1. k > e[L][1]
        BY <1>1, <3>4
      <4>2. CASE awaited
        BY <1>a, <3>4, <4>1, <4>2
      <4>3. CASE ~awaited
        <5>1. e[L][1] = k - 1
          BY <1>6, <3>1, <4>3
        <5> QED
          BY <1>1, <5>1
      <4> QED
        BY <4>2, <4>3
    <3> QED
      BY <2>2, <3>2, <3>3, <3>5 DEF Follows
  <2>3. CASE j \in L + 1 .. L + n - 1
    <3>1. j \in L + 1 .. L + n /\ j + 1 \in L + 1 .. L + n
          /\ (j + 1) - L = (j - L) + 1
      BY <1>2, <2>3
    <3>2. f[j] = <<k, j - L>> /\ f[j + 1] = <<k, (j - L) + 1>>
      BY <1>7, <3>1
    <3> QED
      BY <3>2 DEF Follows
  <2>4. j \in i + 1 .. L - 1 \/ j = L \/ j \in L + 1 .. L + n - 1
    BY <1>2
  <2> QED
    BY <2>1, <2>2, <2>3, <2>4
<1>10. Len(f) > i => f[Len(f)][2] = UnitLen[t[f[Len(f)][1]]] /\ f[Len(f)][1] = Len(t) - 1
  <2>1. L + n \in L + 1 .. L + n /\ (L + n) - L = n /\ k \in 1 .. k
    BY <1>1, <1>2
  <2>2. f[L + n] = <<k, n>> /\ t[k] = ks[k]
    BY <1>1, <1>7, <2>1
  <2> QED
    BY <1>1, <1>2, <1>3, <2>2
<1>11. \A j \in i + 1 .. Len(f) : f[j][1] \in 1 .. Len(t) - 1
  <2>1. Len(t) - 1 = k
    BY <1>1
  <2> QED
    BY <1>3, <1>8, <2>1
<1>12. \A j \in i + 1 .. Len(f) - 1 : Follows(f[j], f[j + 1], t)
  <2> SUFFICES ASSUME NEW j \in i + 1 .. Len(f) - 1
               PROVE  Follows(f[j], f[j + 1], t)
    OBVIOUS
  <2>0. Len(f) = L + n
    BY <1>3
  <2>1. j \in i + 1 .. L + n - 1
    BY <1>2, <2>0
  <2> QED
    BY <1>9, <2>1
<1> QED
  BY <1>10, <1>11, <1>12 DEF WholeFrom, f, t

\* A step keeps the units of a session whole and its gaps ending in IDR units.
LEMMA GapStep ==
  ASSUME TypeOK, LinkInv, GapInv, Next
  PROVE  GapInv'
<1> DEFINE k == Len(kinds)
           n == UnitLen[kinds[k]]
<1>0. RecordOK /\ ServerOK /\ LinkOK /\ RecordOK'
  BY RecordStep DEF TypeOK
<1>t. /\ kinds \in Seq(Kinds) /\ entered \in Seq(Bytes)
      /\ SPS_buffer \in Seq(Bytes) /\ PPS_buffer \in Seq(Bytes)
      /\ Inserted \in Nat
  BY <1>0 DEF RecordOK, Inserted
<1>1. ASSUME NEW kind \in Kinds, StartCode(kind)
      PROVE  GapInv'
  <2>1. /\ kinds' = Append(kinds, kind) /\ spc' = spc
        /\ server_socket' = server_socket
    BY <1>1 DEF StartCode, serverVars, linkVars
  <2>2. CASE ~(InSession \/ spc = "connect")
    BY <2>1, <2>2 DEF GapInv, InSession
  <2>3. CASE (InSession \/ spc = "connect") /\ kinds = <<>>
    <3>1. Inserted' = Inserted /\ entered' = entered
          /\ need_to_send_I_frame' = need_to_send_I_frame
      BY <1>1, <2>1, <2>3 DEF StartCode, Inserted
    <3>2. \A i \in Nat : WholeFrom(i, entered, <<>>, need_to_send_I_frame) =>
                          Len(entered) <= i
      <4> SUFFICES ASSUME NEW i \in Nat, Len(entered) > i
                   PROVE  ~WholeFrom(i, entered, <<>>, need_to_send_I_frame)
        BY <1>t
      <4>1. Len(entered) \in i + 1 .. Len(entered)
        BY <1>t
      <4> QED
        BY <4>1 DEF WholeFrom
    <3>3. \A i \in Nat : Len(entered) <= i =>
                          WholeFrom(i, entered, kinds', need_to_send_I_frame)
      BY <1>t DEF WholeFrom
    <3>4. WholeFrom(Inserted, entered, <<>>, need_to_send_I_frame)
      BY <2>3 DEF GapInv
    <3>5. WholeFrom(Inserted, entered, kinds', need_to_send_I_frame)
      BY <1>t, <3>2, <3>3, <3>4, Zenon
    <3> QED
      BY <3>1, <3>5 DEF GapInv
  <2>4. CASE (InSession \/ spc = "connect") /\ kinds # <<>>
    <3>1. Complete(k)
      BY <1>1, <2>4 DEF StartCode
    <3>2. Inserted' \in Nat /\ Inserted <= Inserted'
      <4>1. /\ SPS_buffer' = Keep("SPS", SPS_buffer, k, n)
            /\ PPS_buffer' = Keep("PPS", PPS_buffer, k, n)
        BY <3>1 DEF Complete
      <4>2. /\ SPS_buffer' \in Seq(Bytes) /\ Len(SPS_buffer') >= Len(SPS_buffer)
            /\ PPS_buffer' \in Seq(Bytes) /\ Len(PPS_buffer') >= Len(PPS_buffer)
        BY <1>t, <2>4, <4>1, KeepStep
      <4> QED
        BY <1>t, <2>1, <4>2 DEF Inserted
    <3>3. /\ n \in Nat \ {0} /\ Unit(k) \in Seq(Bytes) /\ Len(Unit(k)) = n
          /\ \A x \in 1 .. n : Unit(k)[x] = <<k, x>>
      <4>1. k \in 1 .. k
        BY <1>t, <2>4
      <4> QED
        BY <4>1, UnitBytes
    <3>4. WholeFrom(Inserted, entered, kinds, need_to_send_I_frame)
      BY <2>4 DEF GapInv
    <3>5. CASE /\ entered' = entered \o Unit(k) /\ need_to_send_I_frame' = FALSE
               /\ need_to_send_I_frame => kinds[k] = "IDR"
      <4>1. Unit(k) # <<>>
        BY <3>3
      <4>2. WholeFrom(Inserted, entered \o Unit(k), Append(kinds, kind), FALSE)
        <5>1. \A x \in 1 .. Len(Unit(k)) : Unit(k)[x] = <<Len(kinds), x>>
          BY <3>3
        <5>2. Unit(k) \in Seq(Bytes) /\ Len(Unit(k)) = UnitLen[kinds[Len(kinds)]]
          BY <3>3
        <5>3. need_to_send_I_frame => kinds[Len(kinds)] = "IDR"
          BY <3>5
        <5> QED
          BY <1>t, <2>4, <3>4, <4>1, <5>1, <5>2, <5>3, WholeWith
      <4>3. WholeFrom(Inserted, entered', kinds', need_to_send_I_frame')
        BY <2>1, <3>5, <4>2
      <4> QED
        BY <1>0, <1>t, <3>2, <4>3, WholeLater DEF GapInv, RecordOK
    <3>6. CASE entered' = entered /\ need_to_send_I_frame' = TRUE
      <4>1. WholeFrom(Inserted, entered, Append(kinds, kind), TRUE)
        BY <1>t, <3>4, WholeWithout
      <4>2. WholeFrom(Inserted, entered', kinds', need_to_send_I_frame')
        BY <2>1, <3>6, <4>1
      <4> QED
        BY <1>0, <1>t, <3>2, <4>2, WholeLater DEF GapInv, RecordOK
    <3> QED
      BY <2>4, <3>1, <3>5, <3>6, CompleteStep
  <2> QED
    BY <2>2, <2>3, <2>4
<1>2. CASE Accept
  <2>1. CASE spc = "connect"
    <3>1. Inserted = 0 /\ UNCHANGED <<kinds, entered, need_to_send_I_frame>>
      BY <1>2, <2>1 DEF Accept, LinkInv, Inserted, recordVars
    <3>2. Inserted' \in Nat
      BY <1>0 DEF RecordOK, Inserted
    <3>3. WholeFrom(0, entered, kinds, need_to_send_I_frame)
      BY <2>1, <3>1 DEF GapInv
    <3>4. \A i \in Nat : WholeFrom(i, entered, kinds, need_to_send_I_frame)
      BY <1>t, <3>3, WholeLater
    <3>5. WholeFrom(Inserted', entered, kinds, need_to_send_I_frame)
      BY <3>2, <3>4
    <3> QED
      BY <3>1, <3>5 DEF GapInv
  <2>2. CASE spc # "connect"
    BY <1>2, <2>2 DEF Accept, GapInv, InSession
  <2> QED
    BY <2>1, <2>2
<1>3. CASE InsertPpsSps
  <2> DEFINE r == reset_queue(server_queue)
             e == enqueue_all(r, SPS_buffer)
  <2>1. IsQueue(r) /\ Contents(r) \in Seq(Bytes) /\ r.size = 0
    <3>1. <<>> \in Seq(Bytes) /\ IsQueue(server_queue)
      BY <1>0 DEF RecordOK
    <3> QED
      BY <3>1, ResetEmpties DEF reset_queue, Ring
  <2>2. server_queue' = enqueue_all(e, PPS_buffer) /\ entered' = Contents(server_queue')
    BY <1>3 DEF InsertPpsSps
  <2> HIDE DEF r
  <2>3. IsQueue(e) /\ Contents(e) \in Seq(Bytes) /\ e.size <= r.size + Len(SPS_buffer)
    BY <1>t, <2>1, EnqueueSome
  <2> HIDE DEF e
  <2>4. IsQueue(server_queue') /\ server_queue'.size <= e.size + Len(PPS_buffer)
    BY <1>t, <2>2, <2>3, EnqueueSome
  <2>5. Len(entered') = server_queue'.size /\ server_queue'.size \in Nat /\ e.size \in Nat
    BY <2>2, <2>3, <2>4, ContentsSeq, QueueNumbers
  <2>6. Inserted' = Len(SPS_buffer) + Len(PPS_buffer)
    BY <1>3 DEF InsertPpsSps, LinkInv, Inserted, recordVars, linkVars
  <2>7. Len(entered') <= Len(SPS_buffer) + Len(PPS_buffer)
        /\ Len(SPS_buffer) + Len(PPS_buffer) \in Nat
    BY <1>t, <2>1, <2>3, <2>4, <2>5
  <2>8. \A i \in Nat : Len(entered') <= i =>
                        WholeFrom(i, entered', kinds', need_to_send_I_frame')
    BY <2>5 DEF WholeFrom
  <2>9. WholeFrom(Inserted', entered', kinds', need_to_send_I_frame')
    BY <2>6, <2>7, <2>8
  <2> QED
    BY <2>9 DEF GapInv
<1>4. CASE /\ UNCHANGED <<kinds, entered, need_to_send_I_frame, server_socket,
                        SPS_buffer, PPS_buffer>>
           /\ InSession' \/ spc' = "connect" => InSession \/ spc = "connect"
  BY <1>4 DEF GapInv, Inserted
<1>5. While \/ TakeChunk \/ SendPacket \/ SendFails =>
        /\ UNCHANGED <<kinds, entered, need_to_send_I_frame, server_socket,
                       SPS_buffer, PPS_buffer>>
        /\ InSession
  BY DEF While, TakeChunk, SendPacket, SendFails, InSession, recordVars, linkVars
<1>6. OtherBytes \/ CloseServer \/ StartViewer \/ Client \/ Decoder \/ Break =>
        UNCHANGED <<kinds, entered, need_to_send_I_frame, server_socket,
                    SPS_buffer, PPS_buffer, spc>>
  BY DEF OtherBytes, CloseServer, StartViewer, NewConnection, Client, Recv, RecvFails,
         Store, Expand, WaitEmptied, Decoder, Decode, WaitFilled, Break, recordVars,
         linkVars, serverVars
<1>7. CASE While \/ TakeChunk \/ SendPacket \/ SendFails
  BY <1>4, <1>5, <1>7
<1>8. CASE OtherBytes \/ CloseServer \/ StartViewer \/ Client \/ Decoder \/ Break
  BY <1>4, <1>6, <1>8 DEF InSession
<1> QED
  BY <1>1, <1>2, <1>3, <1>7, <1>8 DEF Next, Server

-----------------------------------------------------------------------------
(* The theorems.                                                           *)

\* Every reachable state satisfies the invariant.
THEOREM Invariant == Spec => []StreamerInv
<1>1. Init => StreamerInv
  BY InitInv
<1>2. StreamerInv /\ [Next]_vars => StreamerInv'
  <2> SUFFICES ASSUME StreamerInv, [Next]_vars PROVE StreamerInv'
    OBVIOUS
  <2>0. TypeOK /\ LinkInv /\ SessionIntact /\ BeforeFirst /\ DecodedInOrder
        /\ HandoffInv /\ GapInv
    BY DEF StreamerInv
  <2>1. CASE Next
    <3>1. TypeOK'
      BY <2>0, <2>1, RecordStep, ServerStep, LinkStep, ViewerStep DEF TypeOK
    <3>2. LinkInv'
      BY <2>0, <2>1, LinkStep
    <3>3. SessionIntact' /\ BeforeFirst'
      BY <2>0, <2>1, SessionStep
    <3>4. DecodedInOrder' /\ HandoffInv' /\ GapInv'
      BY <2>0, <2>1, OrderStep, HandoffStep, GapStep
    <3> QED
      BY <3>1, <3>2, <3>3, <3>4 DEF StreamerInv
  <2>2. CASE UNCHANGED vars
    <3>1. UNCHANGED recordVars /\ UNCHANGED serverVars /\ UNCHANGED linkVars
          /\ UNCHANGED viewerVars /\ UNCHANGED <<server_queue, server_buf_ready,
                                                running, wire, got, entered>>
      BY <2>2 DEF vars
    <3>2. RecordOK' /\ ServerOK'
      BY <2>0, <3>1 DEF TypeOK, RecordOK, ServerOK, recordVars, serverVars
    <3>3. LinkOK' /\ LinkInv'
      BY <2>0, <3>1 DEF TypeOK, LinkOK, LinkInv, linkVars, serverVars
    <3>4. ViewerOK' /\ DecodedInOrder' /\ HandoffInv'
      BY <2>0, <3>1 DEF TypeOK, ViewerOK, DecodedInOrder, HandoffInv, viewerVars
    <3>5. SessionIntact' /\ BeforeFirst'
      BY <2>0, <3>1
      DEF SessionIntact, BeforeFirst, InSession, linkVars, serverVars
    <3>6. GapInv'
      BY <2>0, <3>1 DEF GapInv, InSession, Inserted, recordVars, linkVars, serverVars
    <3> QED
      BY <3>2, <3>3, <3>4, <3>5, <3>6 DEF StreamerInv, TypeOK
  <2> QED
    BY <2>1, <2>2
<1> QED
  BY <1>1, <1>2, PTL DEF Spec

\* The variables keep their types, the packet its size.
THEOREM TypeCorrect == Spec => []TypeOK
<1>1. StreamerInv => TypeOK
  BY DEF StreamerInv
<1> QED
  BY <1>1, Invariant, PTL

\* The bytes of a session reach the viewer as they entered the queue, whatever
\* the sizes of packets, chunks and buffers (prepare_buffer, get_next_chunk,
\* record_bytes, network_server_write).
THEOREM SessionsIntact == Spec => []SessionIntact
<1>1. StreamerInv => SessionIntact
  BY DEF StreamerInv
<1> QED
  BY <1>1, Invariant, PTL

\* The decoder gets the bytes that were read, in order (client_thread,
\* video_decode, expand_queue).
THEOREM DecodesInOrder == Spec => []DecodedInOrder
<1>1. StreamerInv => DecodedInOrder
  BY DEF StreamerInv
<1> QED
  BY <1>1, Invariant, PTL

\* A gap in a session ends in an IDR unit (need_to_send_I_frame).
THEOREM GapsEnd == Spec => []GapsEndInIDR
<1>1. StreamerInv => GapsEndInIDR
  <2> SUFFICES ASSUME StreamerInv, InSession,
                      NEW j \in Inserted + 1 .. Len(entered) - 1
               PROVE  Follows(entered[j], entered[j + 1], kinds)
    BY DEF GapsEndInIDR, Follows
  <2> QED
    BY DEF StreamerInv, GapInv, WholeFrom
<1> QED
  BY <1>1, Invariant, PTL

\* client_thread and video_decode never wait for each other (emptied, filled),
\* because two packets fit beside a handoff in a queue that was doubled.
THEOREM NeverStandoff == Spec => []NoStandoff
<1>1. StreamerInv => NoStandoff
  <2> SUFFICES ASSUME StreamerInv PROVE NoStandoff
    OBVIOUS
  <2>1. client_queue.size \in Nat /\ Handoff \in Nat
    BY StreamerAssumption, QueueNumbers DEF StreamerInv, TypeOK, ViewerOK
  <2> QED
    BY <2>1 DEF StreamerInv, HandoffInv, NoStandoff
<1> QED
  BY <1>1, Invariant, PTL
-----------------------------------------------------------------------------
(* The SPS and the PPS come first.                                         *)

\* What the recorder's settings give: a length fits in SPS_sz and in PPS_sz,
\* and the queue given to streamer_init holds both sets with room to spare, so
\* that the PPS enters although nobody has taken the SPS out.
SetsFit ==
  /\ UnitLen["SPS"] < SizeMod /\ UnitLen["PPS"] < SizeMod
  /\ UnitLen["SPS"] + UnitLen["PPS"] < BufferSize

\* The sets kept are the first two units, whole, from their completion on.
KeptInv ==
  /\ Len(kinds) >= 1 => kinds[1] = "SPS"
  /\ Len(kinds) >= 2 => kinds[2] = "PPS"
  /\ SPS_buffer = IF Len(kinds) >= 2 THEN Unit(1) ELSE <<>>
  /\ PPS_buffer = IF Len(kinds) >= 3 THEN Unit(2) ELSE <<>>

\* Until the PPS is complete at most the SPS is queued, and nothing was refused.
RoomInv ==
  /\ server_queue.capacity >= BufferSize
  /\ Len(kinds) <= 2 => ~need_to_send_I_frame
  /\ Len(kinds) <= 1 => server_queue.size = 0
  /\ Len(kinds) = 2 => server_queue.size <= UnitLen["SPS"]

\* What enters the queue in a session begins with the sets known by then.
BeginInv ==
  spc = "connect" \/ InSession =>
    LET sets == SPS_buffer \o PPS_buffer
    IN  /\ IsPrefixOf(sets, entered)
        /\ Len(kinds) <= 2 => entered = sets

SetsInv == KeptInv /\ RoomInv /\ BeginInv

\* Units that have begun are not changed by the next start code.
LEMMA UnitStays ==
  ASSUME kinds \in Seq(Kinds), NEW kind \in Kinds, kinds' = Append(kinds, kind),
         NEW k \in 1 .. Len(kinds)
  PROVE  kinds'[k] = kinds[k] /\ Unit(k)' = Unit(k)
<1>1. kinds'[k] = kinds[k]
  OBVIOUS
<1> QED
  BY <1>1 DEF Unit

\* One of the sets, once complete, is kept whole; later ones do not replace it.
LEMMA KeepWhole ==
  ASSUME TypeOK, SetsFit, NEW k \in 1 .. Len(kinds),
         NEW kind \in {"SPS", "PPS"}, NEW kept
  PROVE  LET new == Keep(kind, kept, k, UnitLen[kinds[k]]) IN
         /\ kept = <<>> /\ kinds[k] = kind => new = Unit(k)
         /\ kept # <<>> \/ kinds[k] # kind => new = kept
<1> DEFINE n == UnitLen[kinds[k]]
<1>1. ASSUME kept = <<>>, kinds[k] = kind PROVE Keep(kind, kept, k, n) = Unit(k)
  <2>1. n \in Nat \ {0} /\ Unit(k) \in Seq(Bytes) /\ Len(Unit(k)) = n
    BY UnitBytes
  <2>2. n < SizeMod /\ SizeMod \in Nat \ {0}
    BY <1>1, StreamerAssumption DEF SetsFit
  <2> HIDE DEF n
  <2>3. n % SizeMod = n
    BY <2>1, <2>2
  <2>4. SubSeq(Unit(k), 1, n) = Unit(k)
    BY <2>1
  <2> QED
    BY <1>1, <2>3, <2>4 DEF Keep
<1>2. ASSUME kept # <<>> \/ kinds[k] # kind PROVE Keep(kind, kept, k, n) = kept
  BY <1>2 DEF Keep
<1> QED
  BY <1>1, <1>2

\* A step keeps the first two units in SPS_buffer and PPS_buffer.
LEMMA KeptStep ==
  ASSUME TypeOK, SetsFit, KeptInv, Next
  PROVE  KeptInv'
<1>0. RecordOK
  BY DEF TypeOK
<1>s. kinds \in Seq(Kinds)
  BY <1>0 DEF RecordOK
<1>l. Len(kinds) \in Nat
  BY <1>s
<1>t. kinds \in Seq(Kinds) /\ Len(kinds) \in Nat
  BY <1>0 DEF RecordOK
<1>1. ASSUME NEW kind \in Kinds, StartCode(kind) PROVE KeptInv'
  <2>1. kinds' = Append(kinds, kind) /\ kind \in NextKinds(Len(kinds))
    BY <1>1 DEF StartCode
  <2>2. Len(kinds') = Len(kinds) + 1 /\ kinds'[Len(kinds) + 1] = kind
    BY <1>t, <2>1
  <2>3. CASE kinds = <<>>
    <3>1. Len(kinds) = 0 /\ kind = "SPS" /\ Len(kinds') = 1
      BY <2>1, <2>2, <2>3 DEF NextKinds
    <3>2. SPS_buffer' = <<>> /\ PPS_buffer' = <<>>
      BY <1>1, <2>3, <3>1 DEF StartCode, KeptInv
    <3> QED
      BY <2>2, <3>1, <3>2 DEF KeptInv
  <2>4. CASE kinds # <<>>
    <3> DEFINE k == Len(kinds)
               n == UnitLen[kinds[k]]
    <3>1. k \in 1 .. Len(kinds) /\ 1 \in 1 .. Len(kinds)
      BY <1>t, <2>4
    <3>2. /\ SPS_buffer' = Keep("SPS", SPS_buffer, k, n)
          /\ PPS_buffer' = Keep("PPS", PPS_buffer, k, n)
      BY <1>1, <2>4 DEF StartCode, Complete
    <3>3. kinds'[1] = "SPS" /\ kinds[1] = "SPS" /\ Unit(1)' = Unit(1)
      BY <1>t, <2>1, <3>1, UnitStays DEF KeptInv
    <3>4. \A i \in 1 .. k : Unit(i) # <<>>
      <4> SUFFICES ASSUME NEW i \in 1 .. k PROVE Unit(i) # <<>>
        OBVIOUS
      <4>1. Unit(i) \in Seq(Bytes) /\ Len(Unit(i)) \in Nat \ {0}
        BY UnitBytes
      <4> QED
        BY <4>1
    <3>5. CASE k = 1
      <4>1. kind = "PPS" /\ kinds'[2] = "PPS" /\ Len(kinds') = 2
        BY <2>1, <2>2, <3>5 DEF NextKinds
      <4>2. SPS_buffer = <<>> /\ PPS_buffer = <<>>
        BY <3>5 DEF KeptInv
      <4>3. SPS_buffer' = Unit(1)
        BY <3>1, <3>2, <3>3, <3>5, <4>2, KeepWhole
      <4>4. PPS_buffer' = <<>>
        BY <3>1, <3>2, <3>3, <3>5, <4>2, KeepWhole
      <4> QED
        BY <3>3, <4>1, <4>3, <4>4 DEF KeptInv
    <3>6. CASE k >= 2
      <4>1. /\ 2 \in 1 .. Len(kinds) /\ kinds[2] = "PPS" /\ Len(kinds') >= 3
            /\ k \in 1 .. Len(kinds) /\ k \in Nat
        BY <1>t, <2>2, <3>1, <3>6 DEF KeptInv
      <4>2. kinds'[2] = "PPS" /\ Unit(2)' = Unit(2)
        BY <1>t, <2>1, <4>1, UnitStays
      <4>3. SPS_buffer = Unit(1) /\ SPS_buffer # <<>>
        BY <3>1, <3>4, <3>6 DEF KeptInv
      <4>4. SPS_buffer' = Unit(1)
        <5>1. Keep("SPS", SPS_buffer, k, n) = SPS_buffer
          <6>1. SPS_buffer # <<>>
            BY <4>3
          <6>2. k \in 1 .. Len(kinds)
            BY <4>1
          <6> QED
            BY <6>1, <6>2, KeepWhole
        <5> QED
          BY <3>2, <4>3, <5>1
      <4>5. PPS_buffer' = Unit(2)
        <5>1. CASE k = 2
          <6>1. PPS_buffer = <<>> /\ kinds[k] = "PPS"
            BY <4>1, <5>1 DEF KeptInv
          <6> QED
            BY <3>2, <4>1, <5>1, <6>1, KeepWhole
        <5>2. CASE k # 2
          <6>1. k >= 3
            BY <1>t, <3>6, <5>2
          <6>2. PPS_buffer = Unit(2) /\ PPS_buffer # <<>>
            BY <3>4, <4>1, <6>1 DEF KeptInv
          <6> QED
            BY <3>2, <4>1, <6>2, KeepWhole
        <5> QED
          BY <5>1, <5>2
      <4> QED
        BY <1>t, <2>2, <3>3, <3>6, <4>1, <4>2, <4>4, <4>5 DEF KeptInv
    <3>7. k = 1 \/ k >= 2
      <4>1. Len(kinds) >= 1
        BY <1>t, <2>4
      <4> QED
        BY <1>s, <4>1
    <3> QED
      BY <3>5, <3>6, <3>7
  <2> QED
    BY <2>3, <2>4
<1>2. CASE UNCHANGED <<kinds, SPS_buffer, PPS_buffer>>
  BY <1>2 DEF KeptInv, Unit
<1>3. OtherBytes \/ CloseServer \/ Server \/ StartViewer \/ Client \/ Decoder \/ Break =>
        UNCHANGED <<kinds, SPS_buffer, PPS_buffer>>
  BY DEF OtherBytes, CloseServer, Server, Accept, InsertPpsSps, While, TakeChunk,
         SendPacket, SendFails, StartViewer, Client, Recv, RecvFails, Store, Expand,
         WaitEmptied, Decoder, Decode, WaitFilled, Break, recordVars
<1> QED
  BY <1>1, <1>2, <1>3 DEF Next

\* The first two units both enter the queue, which is not enlarged for them.
LEMMA SetsEnter ==
  ASSUME TypeOK, SetsFit, KeptInv, RoomInv, NEW k, k = Len(kinds), k \in {1, 2},
         Complete(k)
  PROVE  /\ entered' = entered \o Unit(k)
         /\ need_to_send_I_frame' = FALSE
         /\ server_queue'.capacity = server_queue.capacity
         /\ server_queue'.size = server_queue.size + Len(Unit(k))
<1> DEFINE n == UnitLen[kinds[k]]
           q == server_queue
<1>1. /\ IsQueue(q) /\ Contents(q) \in Seq(Bytes)
      /\ chosen_server_buffer_size = q.capacity /\ need_to_send_I_frame = FALSE
  <2>1. Len(kinds) <= 2
    OBVIOUS
  <2> QED
    BY <2>1 DEF TypeOK, RecordOK, RoomInv
<1>2. q.capacity \in Nat \ {0} /\ q.size \in Nat
  BY <1>1, QueueNumbers
<1>3. k \in 1 .. Len(kinds)
  OBVIOUS
<1>4. /\ n \in Nat \ {0} /\ Unit(k) \in Seq(Bytes) /\ Len(Unit(k)) = n
  BY <1>3, UnitBytes
<1>5. UnitLen["SPS"] \in Nat \ {0} /\ UnitLen["PPS"] \in Nat \ {0} /\ BufferSize \in Nat
  BY StreamerAssumption DEF Kinds
<1>6. q.size + n < q.capacity
  <2>1. CASE k = 1
    <3>1. kinds[k] = "SPS" /\ q.size = 0 /\ q.capacity >= BufferSize
      BY <2>1 DEF KeptInv, RoomInv
    <3> QED
      BY <1>2, <1>5, <3>1 DEF SetsFit
  <2>2. CASE k = 2
    <3>1. kinds[k] = "PPS" /\ q.size <= UnitLen["SPS"] /\ q.capacity >= BufferSize
      BY <2>2 DEF KeptInv, RoomInv
    <3> QED
      BY <1>2, <1>5, <3>1 DEF SetsFit
  <2> QED
    BY <2>1, <2>2
<1> HIDE DEF n
<1>7. /\ ~(n > q.capacity) /\ Space(q) > n /\ ~(Space(q) <= n)
      /\ Len(Unit(k)) <= Space(q)
  BY <1>2, <1>4, <1>6 DEF Space
<1>8. Expanded(n) = q /\ Enters(q, k, n)
  BY <1>1, <1>7 DEF Expanded, Enters
<1>9. /\ server_queue' = enqueue_all(q, Unit(k)) /\ entered' = entered \o Unit(k)
      /\ need_to_send_I_frame' = FALSE
  BY <1>1, <1>7, <1>8, Zenon DEF Complete, n
<1>10. /\ enqueue_all(q, Unit(k)).capacity = q.capacity
       /\ enqueue_all(q, Unit(k)).size = q.size + Len(Unit(k))
  BY <1>1, <1>4, <1>7, EnqueueAppends
<1> QED
  BY <1>9, <1>10

\* A step leaves room for the PPS until it is complete.
LEMMA RoomStep ==
  ASSUME TypeOK, SetsFit, KeptInv, RoomInv, Next
  PROVE  RoomInv'
<1>0. RecordOK /\ RecordOK'
  BY RecordStep DEF TypeOK
<1>s. kinds \in Seq(Kinds)
  BY <1>0 DEF RecordOK
<1>l. Len(kinds) \in Nat
  BY <1>s
<1>t. /\ kinds \in Seq(Kinds) /\ Len(kinds) \in Nat /\ BufferSize \in Nat
      /\ IsQueue(server_queue) /\ Contents(server_queue) \in Seq(Bytes)
      /\ server_queue.capacity \in Nat \ {0} /\ server_queue.size \in Nat
  BY <1>0, StreamerAssumption, QueueNumbers DEF RecordOK
<1>1. ASSUME NEW kind \in Kinds, StartCode(kind) PROVE RoomInv'
  <2>1. Len(kinds') = Len(kinds) + 1
    BY <1>t, <1>1 DEF StartCode
  <2>2. CASE kinds = <<>>
    <3>1. UNCHANGED <<server_queue, need_to_send_I_frame>> /\ Len(kinds) = 0
      BY <1>1, <2>2 DEF StartCode
    <3> QED
      BY <2>1, <3>1 DEF RoomInv
  <2>3. CASE kinds # <<>>
    <3> DEFINE k == Len(kinds)
    <3>1. Complete(k) /\ k \in 1 .. Len(kinds)
      BY <1>t, <1>1, <2>3 DEF StartCode
    <3>2. CASE k \in {1, 2}
      <4>1. /\ need_to_send_I_frame' = FALSE
            /\ server_queue'.capacity = server_queue.capacity
            /\ server_queue'.size = server_queue.size + Len(Unit(k))
        BY <3>1, <3>2, SetsEnter
      <4>2. Len(Unit(k)) = UnitLen[kinds[k]]
        BY <3>1, UnitBytes
      <4>3. k = 1 => /\ Len(kinds') = 2 /\ kinds[k] = "SPS"
                     /\ server_queue.size = 0
        BY <2>1 DEF KeptInv, RoomInv
      <4>4. k = 2 => Len(kinds') = 3
        BY <2>1
      <4>5. UnitLen["SPS"] \in Nat
        BY StreamerAssumption DEF Kinds
      <4>6. server_queue'.capacity >= BufferSize
        BY <4>1 DEF RoomInv
      <4>7. k = 1 => server_queue'.size = UnitLen["SPS"]
        BY <4>1, <4>2, <4>3, <4>5
      <4> QED
        <5>1. CASE k = 1
          <6>1. Len(kinds') = 2
            BY <4>3, <5>1
          <6>2. server_queue'.size <= UnitLen["SPS"]
            BY <4>5, <4>7, <5>1
          <6> QED
            BY <4>1, <4>6, <6>1, <6>2 DEF RoomInv
        <5>2. CASE k = 2
          <6>1. Len(kinds') = 3
            BY <4>4, <5>2
          <6> QED
            BY <4>1, <4>6, <6>1 DEF RoomInv
        <5> QED
          BY <3>2, <5>1, <5>2
    <3>3. CASE k \notin {1, 2}
      <4>1. Len(kinds') > 3
        <5>1. Len(kinds) # 1 /\ Len(kinds) # 2 /\ Len(kinds) # 0
          BY <1>s, <2>3, <3>3
        <5>2. \A m \in Nat : m # 0 /\ m # 1 /\ m # 2 => m >= 3
          OBVIOUS
        <5>3. Len(kinds) >= 3
          BY <1>l, <5>1, <5>2, Zenon
        <5> QED
          BY <1>s, <2>1, <5>3
      <4>2. /\ chosen_server_buffer_size = server_queue.capacity
            /\ chosen_server_buffer_size' = server_queue'.capacity
        BY <1>0 DEF RecordOK
      <4> DEFINE n == UnitLen[kinds[k]]
      <4>3. n \in Nat
        BY <3>1, UnitBytes
      <4>4. chosen_server_buffer_size' =
              IF n > chosen_server_buffer_size THEN 2 * n
                                               ELSE chosen_server_buffer_size
        BY <3>1 DEF Complete
      <4> HIDE DEF n
      <4>5. server_queue'.capacity >= BufferSize
        BY <1>t, <4>2, <4>3, <4>4 DEF RoomInv
      <4> QED
        BY <2>1, <4>1, <4>5, <1>t DEF RoomInv
    <3> QED
      BY <3>2, <3>3
  <2> QED
    BY <2>2, <2>3
<1>2. CASE InsertPpsSps
  <2>1. ~(Len(kinds) <= 2) /\ UNCHANGED kinds
    <3>1. Len(kinds) >= 3
      BY <1>2 DEF InsertPpsSps, KeptInv
    <3> QED
      BY <1>t, <1>2, <3>1 DEF InsertPpsSps, recordVars
  <2>2. chosen_server_buffer_size' = chosen_server_buffer_size
    BY <1>2 DEF InsertPpsSps, recordVars
  <2>3. server_queue'.capacity = server_queue.capacity
    BY <1>0, <2>2 DEF RecordOK
  <2> QED
    <3>1. server_queue'.capacity >= BufferSize
      BY <2>3 DEF RoomInv
    <3>2. ~(Len(kinds) <= 2) /\ ~(Len(kinds) <= 1) /\ ~(Len(kinds) = 2)
      <4>1. \A m \in Nat : ~(m <= 2) => ~(m <= 1) /\ ~(m = 2)
        OBVIOUS
      <4> QED
        BY <1>l, <2>1, <4>1, Zenon
    <3> QED
      BY <2>1, <3>1, <3>2 DEF RoomInv
<1>3. CASE TakeChunk
  <2>1. UNCHANGED <<kinds, need_to_send_I_frame, chosen_server_buffer_size>>
    BY <1>3 DEF TakeChunk, recordVars
  <2>2. server_queue'.capacity = server_queue.capacity
    BY <1>0, <2>1 DEF RecordOK
  <2>3. server_queue'.size <= server_queue.size /\ server_queue'.size \in Nat
    <3>1. IsQueue(server_queue')
      BY <1>0 DEF RecordOK
    <3>2. server_queue'.size \in Nat
      BY <3>1, QueueNumbers
    <3>3. CASE server_queue.size > PACKET_SIZE
      <4>1. server_queue' = dequeue_n(server_queue, PACKET_SIZE)
        BY <1>3, <3>3 DEF TakeChunk
      <4>2. server_queue'.size = server_queue.size - PACKET_SIZE
        BY <4>1 DEF dequeue_n, Ring
      <4> QED
        BY <1>t, <3>2, <4>2, StreamerAssumption
    <3>4. CASE ~(server_queue.size > PACKET_SIZE)
      BY <1>t, <1>3, <3>4 DEF TakeChunk
    <3> QED
      BY <3>3, <3>4
  <2>4. UnitLen["SPS"] \in Nat
    BY StreamerAssumption DEF Kinds
  <2> QED
    BY <1>t, <2>1, <2>2, <2>3, <2>4 DEF RoomInv
<1>4. CASE UNCHANGED <<kinds, server_queue, need_to_send_I_frame>>
  BY <1>4 DEF RoomInv
<1>5. OtherBytes \/ CloseServer \/ Accept \/ While \/ SendPacket \/ SendFails
        \/ StartViewer \/ Client \/ Decoder \/ Break =>
        UNCHANGED <<kinds, server_queue, need_to_send_I_frame>>
  BY DEF OtherBytes, CloseServer, Accept, While, SendPacket, SendFails,
         StartViewer, Client, Recv, RecvFails, Store, Expand, WaitEmptied,
         Decoder, Decode, WaitFilled, Break, recordVars
<1> QED
  BY <1>1, <1>2, <1>3, <1>4, <1>5 DEF Next, Server

\* A session goes on beginning with the sets; a new one begins with them.
LEMMA BeginStep ==
  ASSUME TypeOK, SetsFit, KeptInv, RoomInv, BeginInv, Next
  PROVE  BeginInv'
<1>0. RecordOK /\ RecordOK' /\ KeptInv'
  BY RecordStep, KeptStep DEF TypeOK
<1>s. kinds \in Seq(Kinds)
  BY <1>0 DEF RecordOK
<1>l. Len(kinds) \in Nat
  BY <1>s
<1>t. /\ kinds \in Seq(Kinds) /\ Len(kinds) \in Nat /\ <<>> \in Seq(Bytes)
      /\ SPS_buffer \in Seq(Bytes) /\ PPS_buffer \in Seq(Bytes)
      /\ entered \in Seq(Bytes)
  BY <1>0 DEF RecordOK
<1>1. ASSUME NEW kind \in Kinds, StartCode(kind) PROVE BeginInv'
  <2>1. Len(kinds') = Len(kinds) + 1 /\ kinds' = Append(kinds, kind) /\ spc' = spc
    BY <1>t, <1>1 DEF StartCode, serverVars
  <2>2. CASE ~(spc = "connect" \/ InSession)
    BY <2>1, <2>2 DEF BeginInv, InSession
  <2>3. CASE (spc = "connect" \/ InSession) /\ kinds = <<>>
    <3>1. UNCHANGED <<entered, SPS_buffer, PPS_buffer>> /\ Len(kinds) = 0
      BY <1>1, <2>3 DEF StartCode
    <3> QED
      BY <2>1, <2>3, <3>1 DEF BeginInv
  <2>4. CASE (spc = "connect" \/ InSession) /\ kinds # <<>>
    <3> DEFINE k == Len(kinds)
               sets == SPS_buffer \o PPS_buffer
    <3>1. Complete(k) /\ k \in 1 .. Len(kinds)
      BY <1>t, <1>1, <2>4 DEF StartCode
    <3>2. IsPrefixOf(sets, entered) /\ (k <= 2 => entered = sets)
      BY <2>4 DEF BeginInv
    <3>3. \A i \in 1 .. Len(kinds) : Unit(i) \in Seq(Bytes) /\ Unit(i)' = Unit(i)
      <4>1. \A i \in 1 .. Len(kinds) : Unit(i) \in Seq(Bytes)
        BY UnitBytes
      <4>2. \A i \in 1 .. Len(kinds) : Unit(i)' = Unit(i)
        BY <1>s, <2>1, UnitStays
      <4> QED
        BY <4>1, <4>2
    <3>4. CASE k \in {1, 2}
      <4>1. entered' = sets \o Unit(k)
        <5>1. entered' = entered \o Unit(k)
          BY <3>1, <3>4, SetsEnter
        <5>2. entered = sets
          BY <3>2, <3>4
        <5> QED
          BY <5>1, <5>2
      <4>2. sets \o Unit(k) = SPS_buffer' \o PPS_buffer'
        <5>1. CASE k = 1
          <6>1. SPS_buffer = <<>> /\ PPS_buffer = <<>>
            BY <5>1 DEF KeptInv
          <6>2. SPS_buffer' = Unit(1) /\ PPS_buffer' = <<>>
            <7>1. Len(kinds') = 2 /\ Unit(1)' = Unit(1)
              BY <2>1, <3>1, <3>3, <5>1
            <7> QED
              BY <1>0, <7>1 DEF KeptInv
          <6>3. (<<>> \o <<>>) \o Unit(1) = Unit(1) \o <<>>
            BY <3>3, <5>1
          <6> QED
            BY <5>1, <6>1, <6>2, <6>3
        <5>2. CASE k = 2
          <6>1. SPS_buffer = Unit(1) /\ PPS_buffer = <<>>
            BY <5>2 DEF KeptInv
          <6>2. Unit(1)' = Unit(1) /\ Unit(1) \in Seq(Bytes)
            <7>1. 1 \in 1 .. Len(kinds)
              BY <5>2
            <7> QED
              BY <1>t, <2>1, <7>1, UnitBytes, UnitStays
          <6>3. SPS_buffer' = Unit(1) /\ PPS_buffer' = Unit(2)
            <7>1. Len(kinds') = 3 /\ Unit(2)' = Unit(2)
              BY <2>1, <3>1, <3>3, <5>2
            <7> QED
              BY <1>0, <6>2, <7>1 DEF KeptInv
          <6>4. (Unit(1) \o <<>>) \o Unit(2) = Unit(1) \o Unit(2)
            BY <6>2
          <6> QED
            BY <5>2, <6>1, <6>3, <6>4
        <5> QED
          BY <3>4, <5>1, <5>2
      <4>3. entered' = SPS_buffer' \o PPS_buffer' /\ entered' \in Seq(Bytes)
        BY <1>0, <4>1, <4>2 DEF RecordOK
      <4>4. IsPrefixOf(entered', entered')
        BY <4>3 DEF IsPrefixOf
      <4> QED
        BY <4>3, <4>4 DEF BeginInv
    <3>5. CASE k \notin {1, 2}
      <4>1. k >= 3 /\ ~(Len(kinds') <= 2) /\ Len(kinds') >= 3
        <5>1. Len(kinds) # 1 /\ Len(kinds) # 2 /\ Len(kinds) # 0
          BY <1>s, <2>4, <3>5
        <5>2. \A m \in Nat : m # 0 /\ m # 1 /\ m # 2 => m >= 3
          OBVIOUS
        <5>3. Len(kinds) >= 3
          BY <1>l, <5>1, <5>2, Zenon
        <5> QED
          BY <1>s, <2>1, <5>3
      <4>2. /\ Unit(1)' = Unit(1) /\ Unit(2)' = Unit(2)
        <5>1. 1 \in 1 .. Len(kinds) /\ 2 \in 1 .. Len(kinds)
          BY <1>t, <4>1
        <5> QED
          BY <1>t, <2>1, <5>1, UnitStays
      <4>3. SPS_buffer = Unit(1) /\ PPS_buffer = Unit(2)
        BY <1>t, <4>1 DEF KeptInv
      <4>4. SPS_buffer' = Unit(1) /\ PPS_buffer' = Unit(2)
        <5>1. Len(kinds') >= 2 /\ Len(kinds') >= 3
          BY <1>t, <2>1, <4>1
        <5> QED
          BY <1>0, <4>2, <5>1 DEF KeptInv
      <4>5. sets \in Seq(Bytes)
        BY <1>t, Concat
      <4>6. IsPrefixOf(sets, entered')
        <5>1. entered' = entered \/ entered' = entered \o Unit(k)
          BY <2>4, <3>1, CompleteStep
        <5>2. Unit(k) \in Seq(Bytes)
          BY <3>1, <3>3
        <5> HIDE DEF sets, k
        <5> QED
          BY <1>t, <3>2, <4>5, <5>1, <5>2, PrefixGrows
      <4> QED
        BY <4>1, <4>3, <4>4, <4>6 DEF BeginInv
    <3> QED
      BY <3>4, <3>5
  <2> QED
    BY <2>2, <2>3, <2>4
<1>2. CASE InsertPpsSps
  <2> DEFINE r == reset_queue(server_queue)
             e == enqueue_all(r, SPS_buffer)
  <2>1. /\ IsQueue(r) /\ Contents(r) = <<>> /\ r.size = 0
        /\ r.capacity = server_queue.capacity
        /\ server_queue.capacity \in Nat /\ server_queue.capacity >= BufferSize
    <3>1. IsQueue(server_queue)
      BY <1>0 DEF RecordOK
    <3> QED
      BY <3>1, ResetEmpties, QueueNumbers DEF reset_queue, Ring, RoomInv
  <2>2. /\ server_queue' = enqueue_all(e, PPS_buffer)
        /\ entered' = Contents(server_queue')
        /\ UNCHANGED <<kinds, SPS_buffer, PPS_buffer>>
        /\ SPS_buffer # <<>> /\ PPS_buffer # <<>>
    BY <1>2 DEF InsertPpsSps, recordVars
  <2>3. Len(kinds) >= 3
    BY <2>2 DEF KeptInv
  <2>4. /\ SPS_buffer = Unit(1) /\ PPS_buffer = Unit(2)
        /\ kinds[1] = "SPS" /\ kinds[2] = "PPS"
    BY <1>t, <2>3 DEF KeptInv
  <2>5. /\ Len(SPS_buffer) = UnitLen["SPS"] /\ Len(PPS_buffer) = UnitLen["PPS"]
    <3>1. 1 \in 1 .. Len(kinds) /\ 2 \in 1 .. Len(kinds)
      BY <1>t, <2>3
    <3>2. Len(Unit(1)) = UnitLen[kinds[1]] /\ Len(Unit(2)) = UnitLen[kinds[2]]
      BY <3>1, UnitBytes
    <3> QED
      BY <2>4, <3>2
  <2>6. /\ UnitLen["SPS"] \in Nat /\ UnitLen["PPS"] \in Nat /\ BufferSize \in Nat
    BY StreamerAssumption DEF Kinds
  <2> HIDE DEF r
  <2>7. Len(SPS_buffer) <= Space(r)
    BY <2>1, <2>5, <2>6 DEF SetsFit, Space
  <2>8. /\ IsQueue(e) /\ Contents(e) = <<>> \o SPS_buffer
        /\ e.capacity = r.capacity /\ e.size = r.size + Len(SPS_buffer)
    <3>1. Contents(r) \in Seq(Bytes)
      BY <2>1
    <3> QED
      BY <1>t, <2>1, <2>7, <3>1, EnqueueAppends
  <2> HIDE DEF e
  <2>9. Len(PPS_buffer) <= Space(e)
    BY <2>1, <2>5, <2>6, <2>8 DEF SetsFit, Space
  <2>10. Contents(e) = SPS_buffer
    BY <1>t, <2>8
  <2>11. Contents(server_queue') = SPS_buffer \o PPS_buffer
    BY <1>t, <2>2, <2>8, <2>9, <2>10, EnqueueAppends
  <2>12. entered' = SPS_buffer' \o PPS_buffer' /\ entered' \in Seq(Bytes)
    BY <1>0, <2>2, <2>11 DEF RecordOK
  <2>13. IsPrefixOf(entered', entered')
    BY <2>12 DEF IsPrefixOf
  <2> QED
    BY <2>12, <2>13 DEF BeginInv
<1>3. CASE /\ UNCHANGED <<kinds, entered, SPS_buffer, PPS_buffer>>
           /\ InSession' \/ spc' = "connect" => InSession \/ spc = "connect"
  BY <1>3 DEF BeginInv
<1>4. Accept \/ While \/ TakeChunk \/ SendPacket \/ SendFails =>
        /\ UNCHANGED <<kinds, entered, SPS_buffer, PPS_buffer>>
        /\ InSession' \/ spc' = "connect" => InSession \/ spc = "connect"
  BY DEF Accept, While, TakeChunk, SendPacket, SendFails, InSession, recordVars
<1>5. OtherBytes \/ CloseServer \/ StartViewer \/ Client \/ Decoder \/ Break =>
        UNCHANGED <<kinds, entered, SPS_buffer, PPS_buffer, spc>>
  BY DEF OtherBytes, CloseServer, StartViewer, Client, Recv, RecvFails, Store,
         Expand, WaitEmptied, Decoder, Decode, WaitFilled, Break, recordVars,
         serverVars
<1>6. CASE Accept \/ While \/ TakeChunk \/ SendPacket \/ SendFails
  BY <1>3, <1>4, <1>6
<1>7. CASE OtherBytes \/ CloseServer \/ StartViewer \/ Client \/ Decoder \/ Break
  BY <1>3, <1>5, <1>7 DEF InSession
<1> QED
  BY <1>1, <1>2, <1>6, <1>7 DEF Next, Server

\* Two beginnings of one sequence: the shorter one begins the longer one.
LEMMA PrefixesMeet ==
  ASSUME NEW S, NEW s \in Seq(S), NEW t \in Seq(S), NEW u \in Seq(S),
         IsPrefixOf(s, u), IsPrefixOf(t, u)
  PROVE  IsPrefixOf(s, t) \/ IsPrefixOf(t, s)
BY DEF IsPrefixOf

\* On every connection a viewer reads the SPS first and then the PPS, when the
\* sets fit into the buffer the recorder gives the streamer.
THEOREM SetsComeFirst == SetsFit /\ Spec => []SetsFirst
<1> SUFFICES ASSUME SetsFit PROVE Spec => []SetsFirst
  OBVIOUS
<1>1. ASSUME Init PROVE SetsInv
  <2>1. /\ kinds = <<>> /\ SPS_buffer = <<>> /\ PPS_buffer = <<>>
        /\ entered = <<>> /\ need_to_send_I_frame = FALSE
        /\ server_queue = createQueue(BufferSize)
    BY <1>1 DEF Init
  <2>2. server_queue.capacity = BufferSize /\ server_queue.size = 0
    BY <2>1 DEF createQueue, Ring
  <2>3. Len(kinds) = 0 /\ BufferSize \in Nat
    BY <2>1, StreamerAssumption
  <2>4. KeptInv
    BY <2>1, <2>3 DEF KeptInv
  <2>5. RoomInv
    BY <2>1, <2>2, <2>3 DEF RoomInv
  <2>6. BeginInv
    BY <2>1, <2>3 DEF BeginInv, IsPrefixOf
  <2> QED
    BY <2>4, <2>5, <2>6 DEF SetsInv
<1>2. ASSUME TypeOK, SetsInv, [Next]_vars PROVE SetsInv'
  <2>1. CASE Next
    BY <1>2, <2>1, KeptStep, RoomStep, BeginStep DEF SetsInv
  <2>2. CASE UNCHANGED vars
    <3>1. UNCHANGED <<kinds, SPS_buffer, PPS_buffer, server_queue, spc, entered,
                      need_to_send_I_frame>>
      BY <2>2 DEF vars, recordVars, serverVars
    <3> QED
      BY <1>2, <3>1 DEF SetsInv, KeptInv, RoomInv, BeginInv, InSession, Unit
  <2> QED
    BY <1>2, <2>1, <2>2
<1>3. ASSUME TypeOK, SessionIntact, SetsInv PROVE SetsFirst
  <2> SUFFICES ASSUME InSession, server_socket = client_socket
               PROVE  \/ IsPrefixOf(got, SPS_buffer \o PPS_buffer)
                      \/ IsPrefixOf(SPS_buffer \o PPS_buffer, got)
    BY DEF SetsFirst
  <2> DEFINE sets == SPS_buffer \o PPS_buffer
  <2>1. /\ got \in Seq(Bytes) /\ wire \in Seq(Bytes) /\ entered \in Seq(Bytes)
        /\ SPS_buffer \in Seq(Bytes) /\ PPS_buffer \in Seq(Bytes)
    BY <1>3 DEF TypeOK, RecordOK, LinkOK
  <2>2. IsPrefixOf(got \o wire, entered) /\ IsPrefixOf(sets, entered)
    BY <1>3 DEF SessionIntact, SetsInv, BeginInv
  <2>3. sets \in Seq(Bytes) /\ got \o wire \in Seq(Bytes)
    BY <2>1, Concat
  <2>4. IsPrefixOf(got, got \o wire)
    BY <2>1, PrefixOfConcat
  <2> HIDE DEF sets
  <2>5. IsPrefixOf(got, entered)
    BY <2>1, <2>2, <2>3, <2>4, PrefixTrans
  <2>6. IsPrefixOf(got, sets) \/ IsPrefixOf(sets, got)
    BY <2>1, <2>2, <2>3, <2>5, PrefixesMeet
  <2> QED
    BY <2>6 DEF sets
<1>4. StreamerInv => TypeOK /\ SessionIntact
  BY DEF StreamerInv
<1> QED
  BY <1>1, <1>2, <1>3, <1>4, Invariant, PTL DEF Spec

=============================================================================
