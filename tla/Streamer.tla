------------------------------ MODULE Streamer ------------------------------
(***************************************************************************)
(* The video stream: streamer.c and network.c on the camera's side and in  *)
(* the viewer (dash_stream.bin).                                           *)
(*                                                                         *)
(* The encoder's thread calls record_bytes, which cuts the H.264 stream    *)
(* into NAL units and puts them in server_queue; server_loop_thread takes  *)
(* chunks from it, packs them and sends them to one viewer at a time.  In  *)
(* the viewer client_thread reads packets into client_queue and the main   *)
(* thread hands them to the decoder.                                       *)
(*                                                                         *)
(* Abstractions.  Byte i of the k-th unit is <<k, i>>, its start code      *)
(* being its first byte.  The encoder cuts the stream correctly and begins *)
(* it with one SPS and one PPS.  A packet's code byte is left out: nothing *)
(* waits for the answer to a ping.  Each connection is numbered; one that  *)
(* broke, or was closed by an end, is dead, and keeps for the viewer some  *)
(* prefix of the bytes on the way.  Allocation and decoding succeed.       *)
(***************************************************************************)
EXTENDS Queue

CONSTANTS
  PACKET_SIZE,  \* also CHUNK_SIZE: both are 100
  Handoff,      \* OMX_buffer_handoff_size
  BufferSize,   \* the buffer_size given to streamer_init
  SizeMod,      \* 2^8: the width of SPS_sz and PPS_sz
  UnitLen,      \* the length of the units of each kind
  Later,        \* bound on the kinds of units after the first SPS and PPS
  MaxUnits,     \* bound on the units recorded
  MaxConns,     \* bound on the viewer's connections
  WireMax,      \* bytes TCP holds before send blocks
  SemMax        \* SEM_VALUE_MAX, where sem_post fails

Kinds == {"SPS", "PPS", "IDR", "NonIDR"}
Payload == PACKET_SIZE - 1

ASSUME StreamerAssumption ==
  /\ PACKET_SIZE \in Nat /\ PACKET_SIZE > 1
  /\ BufferSize \in Nat \ {0}
  /\ SizeMod \in Nat \ {0}
  /\ Later \subseteq Kinds
  /\ UnitLen \in [Kinds -> Nat \ {0}]
  /\ MaxUnits \in Nat /\ MaxConns \in Nat
  /\ WireMax \in Nat /\ WireMax >= Payload
  /\ SemMax \in Nat \ {0}
  \* Two packets fit beside a handoff once client_queue has been doubled.
  /\ Handoff \in Nat /\ Handoff + 2 > 2 * Payload

VARIABLES
  kinds,               \* the kinds of the units begun, the last still arriving
  NAL_buf_cnt,         \* how much of the last one has arrived
  server_queue,
  chosen_server_buffer_size,
  need_to_send_I_frame,
  SPS_buffer, PPS_buffer,
  server_buf_ready,    \* a semaphore
  running,             \* streaming_server_running
  spc,                 \* where server_loop_thread is
  chunk_buffer,        \* what it still has to pack of the chunk it took
  packet_buf,
  server_socket, client_socket,   \* connection numbers, 0 for none
  backlog,             \* connections not accepted yet
  conns,               \* connections made so far
  dead,
  wire,                \* bytes on the way on client_socket
  cpc, buffer,         \* client_thread and the bytes it has read
  dpc,                 \* the decoding thread
  client_queue,
  filled, emptied,     \* semaphores
  entered,             \* history: what entered server_queue in this session
  got,                 \* history: what was read from client_socket
  received, decoded    \* history: of this viewer, in all its connections

recordVars == <<kinds, NAL_buf_cnt, need_to_send_I_frame, SPS_buffer,
                PPS_buffer, chosen_server_buffer_size>>
serverVars == <<spc, chunk_buffer, packet_buf>>
linkVars   == <<server_socket, client_socket, backlog, conns, dead>>
viewerVars == <<cpc, buffer, dpc, client_queue, filled, emptied, received,
                decoded>>
vars == <<recordVars, server_queue, server_buf_ready, running, serverVars,
          linkVars, wire, got, viewerVars, entered>>

-----------------------------------------------------------------------------
(* The encoder's thread: record_bytes.                                     *)

\* The unit in NAL_buffer, whole.
Unit(k) == [i \in 1 .. UnitLen[kinds[k]] |-> <<k, i>>]

Post(n) ==
  server_buf_ready' = IF server_buf_ready + n <= SemMax
                      THEN server_buf_ready + n ELSE SemMax

\* Mutant: after an overrun any unit enters.
Enters_any(q, k, n) == Space(q) > n

\* A unit enters whole; after an overrun nothing but an IDR unit does.
Enters(q, k, n) ==
  /\ Space(q) > n
  /\ need_to_send_I_frame => kinds[k] = "IDR"

\* The queue is enlarged for a unit that could never fit.
Expanded(n) ==
  IF n > chosen_server_buffer_size THEN expand_queue(server_queue, 2 * n)
                                   ELSE server_queue

\* The first SPS and PPS are kept, up to a size of one byte.
Keep(kind, kept, k, n) ==
  IF kinds[k] = kind /\ kept = <<>> THEN SubSeq(Unit(k), 1, n % SizeMod) ELSE kept

\* The start code after unit k has been seen.
Complete(k) ==
  LET n == UnitLen[kinds[k]]
      q == Expanded(n)
      in == Enters(q, k, n)
  IN  /\ server_queue' = IF in THEN enqueue_all(q, Unit(k)) ELSE q
      /\ chosen_server_buffer_size' =
           IF n > chosen_server_buffer_size THEN 2 * n
                                            ELSE chosen_server_buffer_size
      /\ need_to_send_I_frame' = (Space(q) <= n \/ (need_to_send_I_frame /\ ~in))
      /\ entered' = IF in THEN entered \o Unit(k) ELSE entered
      /\ SPS_buffer' = Keep("SPS", SPS_buffer, k, n)
      /\ PPS_buffer' = Keep("PPS", PPS_buffer, k, n)

\* What the encoder can emit after n units.
NextKinds(n) == IF n = 0 THEN {"SPS"} ELSE IF n = 1 THEN {"PPS"} ELSE Later

\* The start code of the next unit, which completes the previous one.
StartCode(kind) ==
  /\ Len(kinds) < MaxUnits /\ kind \in NextKinds(Len(kinds))
  /\ kinds # <<>> => NAL_buf_cnt = UnitLen[kinds[Len(kinds)]]
  /\ kinds' = Append(kinds, kind)
  /\ NAL_buf_cnt' = 1
  /\ Post(1)
  /\ IF kinds = <<>>
     THEN UNCHANGED <<server_queue, chosen_server_buffer_size,
                      need_to_send_I_frame, entered, SPS_buffer, PPS_buffer>>
     ELSE Complete(Len(kinds))
  /\ UNCHANGED <<running, serverVars, linkVars, wire, got, viewerVars>>

\* Its other bytes.  They post one by one; the queue does not change meanwhile.
OtherBytes ==
  /\ kinds # <<>> /\ NAL_buf_cnt < UnitLen[kinds[Len(kinds)]]
  /\ NAL_buf_cnt' = UnitLen[kinds[Len(kinds)]]
  /\ Post(NAL_buf_cnt' - NAL_buf_cnt)
  /\ UNCHANGED <<kinds, server_queue, chosen_server_buffer_size,
                 need_to_send_I_frame, SPS_buffer, PPS_buffer, entered, running,
                 serverVars, linkVars, wire, got, viewerVars>>

\* close_server, called by the recorder when it terminates.
CloseServer ==
  /\ running' = FALSE
  /\ UNCHANGED <<recordVars, server_queue, server_buf_ready, serverVars,
                 linkVars, wire, got, viewerVars, entered>>

-----------------------------------------------------------------------------
(* The camera's network thread: server_loop_thread.                        *)

\* accept in network_server_connect: the oldest connection, alive or not.
\* streaming_server_running is set after the first one.
Accept ==
  /\ spc \in {"connect", "reconnect"} /\ backlog # <<>>
  /\ server_socket' = Head(backlog)
  /\ backlog' = Tail(backlog)
  /\ spc' = IF spc = "connect" THEN "while" ELSE "callback"
  /\ running' = (running \/ spc = "connect")
  /\ UNCHANGED <<recordVars, server_queue, server_buf_ready, chunk_buffer,
                 packet_buf, client_socket, conns, dead, wire, got, viewerVars,
                 entered>>

\* Mutant: the sets go behind what is queued.
InsertPpsSps_no_reset ==
  /\ spc = "callback" /\ SPS_buffer # <<>> /\ PPS_buffer # <<>>
  /\ server_queue' = enqueue_all(enqueue_all(server_queue, SPS_buffer), PPS_buffer)
  /\ entered' = Contents(server_queue')
  /\ spc' = "while"
  /\ UNCHANGED <<recordVars, server_buf_ready, running, chunk_buffer,
                 packet_buf, linkVars, wire, got, viewerVars>>

\* client_disconnected_callback sleeps until both are known, then
\* insert_PPS_SPS begins the queue anew with them.
InsertPpsSps ==
  /\ spc = "callback" /\ SPS_buffer # <<>> /\ PPS_buffer # <<>>
  /\ server_queue' = enqueue_all(enqueue_all(reset_queue(server_queue),
                                             SPS_buffer), PPS_buffer)
  /\ entered' = Contents(server_queue')
  /\ spc' = "while"
  /\ UNCHANGED <<recordVars, server_buf_ready, running, chunk_buffer,
                 packet_buf, linkVars, wire, got, viewerVars>>

\* while(streaming_server_running); when it ends, terminate_server closes the
\* connection, but not the socket that listens.
While ==
  /\ spc = "while"
  /\ IF running
     THEN spc' = "sem_wait" /\ UNCHANGED <<dead, wire>>
     ELSE /\ spc' = "ended"
          /\ dead' = dead \cup {server_socket}
          /\ \E m \in 0 .. Len(wire) : wire' = SubSeq(wire, 1, m)
  /\ UNCHANGED <<recordVars, server_queue, server_buf_ready, running,
                 chunk_buffer, packet_buf, server_socket, client_socket,
                 backlog, conns, got, viewerVars, entered>>

\* Mutant: the code byte is not counted in the size of the packet.
Pack_too_long(packet, rest) ==
  LET room == PACKET_SIZE - Len(packet)
      m == IF Len(rest) < room THEN Len(rest) ELSE room
  IN  /\ packet_buf' = packet \o SubSeq(rest, 1, m)
      /\ chunk_buffer' = SubSeq(rest, m + 1, Len(rest))
      /\ spc' = IF m = room THEN "send" ELSE "while"

\* prepare_buffer: move what fits of the chunk into the packet.
Pack(packet, rest) ==
  LET room == Payload - Len(packet)
      m == IF Len(rest) < room THEN Len(rest) ELSE room
  IN  /\ packet_buf' = packet \o SubSeq(rest, 1, m)
      /\ chunk_buffer' = SubSeq(rest, m + 1, Len(rest))
      /\ spc' = IF m = room THEN "send" ELSE "while"

\* get_next_chunk, which leaves a last chunk in the queue.
TakeChunk ==
  /\ spc = "sem_wait" /\ server_buf_ready > 0
  /\ server_buf_ready' = server_buf_ready - 1
  /\ IF server_queue.size > PACKET_SIZE
     THEN /\ server_queue' = dequeue_n(server_queue, PACKET_SIZE)
          /\ Pack(packet_buf, SubSeq(Contents(server_queue), 1, PACKET_SIZE))
     ELSE spc' = "while" /\ UNCHANGED <<server_queue, packet_buf, chunk_buffer>>
  /\ UNCHANGED <<recordVars, running, linkVars, wire, got, viewerVars, entered>>

\* send takes the packet when TCP has room for it; on a dead connection it may
\* still seem to, until the error is known.
SendPacket ==
  /\ spc = "send"
  /\ IF server_socket \in dead
     THEN wire' = wire
     ELSE Len(wire) + Payload <= WireMax /\ wire' = wire \o packet_buf
  /\ Pack(<<>>, chunk_buffer)
  /\ UNCHANGED <<recordVars, server_queue, server_buf_ready, running, linkVars,
                 got, viewerVars, entered>>

\* Mutant: the packet that was not sent stays in the buffer.
SendFails_no_reset ==
  /\ spc = "send" /\ server_socket \in dead
  /\ packet_buf' = packet_buf /\ chunk_buffer' = <<>>
  /\ spc' = "reconnect"
  /\ UNCHANGED <<recordVars, server_queue, server_buf_ready, running, linkVars,
                 wire, got, viewerVars, entered>>

\* send returns an error: the packet and the rest of the chunk are lost, and
\* network_server_write waits for the next viewer.
SendFails ==
  /\ spc = "send" /\ server_socket \in dead
  /\ packet_buf' = <<>> /\ chunk_buffer' = <<>>
  /\ spc' = "reconnect"
  /\ UNCHANGED <<recordVars, server_queue, server_buf_ready, running, linkVars,
                 wire, got, viewerVars, entered>>

-----------------------------------------------------------------------------
(* The viewer.                                                             *)

\* close and network_client_connect: the socket listens, so connecting succeeds
\* whether or not the server accepts.
NewConnection ==
  /\ conns < MaxConns
  /\ conns' = conns + 1
  /\ client_socket' = conns + 1
  /\ backlog' = Append(backlog, conns + 1)
  /\ dead' = dead \cup ({client_socket} \ {0})
  /\ wire' = <<>> /\ got' = <<>>
  /\ UNCHANGED server_socket

\* Mutant: sem_init(&emptied, 0, 0).
StartViewer_none_emptied ==
  /\ NewConnection
  /\ cpc' = "recv" /\ dpc' = "check"
  /\ buffer' = <<>>
  /\ client_queue' = createQueue(Handoff + 1)
  /\ filled' = 0 /\ emptied' = 0
  /\ received' = <<>> /\ decoded' = <<>>
  /\ UNCHANGED <<recordVars, server_queue, server_buf_ready, running, serverVars,
                 entered>>

\* The viewer starts, or is started again by the user.
StartViewer ==
  /\ NewConnection
  /\ cpc' = "recv" /\ dpc' = "check"
  /\ buffer' = <<>>
  /\ client_queue' = createQueue(Handoff + 1)
  /\ filled' = 0 /\ emptied' = 1
  /\ received' = <<>> /\ decoded' = <<>>
  /\ UNCHANGED <<recordVars, server_queue, server_buf_ready, running, serverVars,
                 entered>>

\* network_client_recv reads one packet.
Recv ==
  /\ cpc = "recv" /\ Len(wire) >= Payload
  /\ buffer' = SubSeq(wire, 1, Payload)
  /\ wire' = SubSeq(wire, Payload + 1, Len(wire))
  /\ got' = got \o buffer'
  /\ cpc' = "room"
  /\ UNCHANGED <<recordVars, server_queue, server_buf_ready, running, serverVars,
                 linkVars, dpc, client_queue, filled, emptied, received, decoded,
                 entered>>

\* readall_client fails, at the end or in the middle of a packet.
RecvFails ==
  /\ cpc = "recv" /\ client_socket \in dead /\ Len(wire) < Payload
  /\ NewConnection
  /\ buffer' = <<>>
  /\ cpc' = "room"
  /\ UNCHANGED <<recordVars, server_queue, server_buf_ready, running, serverVars,
                 dpc, client_queue, filled, emptied, received, decoded, entered>>

HasRoom == Space(client_queue) > 2 * Len(buffer)

\* client_thread finds room and enqueues; only it enqueues, so room stays.
Store ==
  /\ cpc = "room" /\ HasRoom
  /\ client_queue' = enqueue_all(client_queue, buffer)
  /\ received' = received \o buffer
  /\ filled' = filled + 1
  /\ cpc' = "recv"
  /\ UNCHANGED <<recordVars, server_queue, server_buf_ready, running, serverVars,
                 linkVars, wire, got, buffer, dpc, emptied, decoded, entered>>

\* Mutant: the queue is not enlarged.
Expand_no_growth ==
  /\ cpc = "room" /\ ~HasRoom
  /\ cpc' = "emptied"
  /\ UNCHANGED <<recordVars, server_queue, server_buf_ready, running, serverVars,
                 linkVars, wire, got, buffer, dpc, client_queue, filled, emptied,
                 received, decoded, entered>>

\* It finds none, doubles the queue, and waits before it looks again.
Expand ==
  /\ cpc = "room" /\ ~HasRoom
  /\ client_queue' = expand_queue(client_queue, 2 * client_queue.capacity)
  /\ cpc' = "emptied"
  /\ UNCHANGED <<recordVars, server_queue, server_buf_ready, running, serverVars,
                 linkVars, wire, got, buffer, dpc, filled, emptied, received,
                 decoded, entered>>

WaitEmptied ==
  /\ cpc = "emptied" /\ emptied > 0
  /\ emptied' = emptied - 1
  /\ cpc' = "room"
  /\ UNCHANGED <<recordVars, server_queue, server_buf_ready, running, serverVars,
                 linkVars, wire, got, buffer, dpc, client_queue, filled, received,
                 decoded, entered>>

\* video_decode: hand a buffer over, or wait for more.
Decode ==
  /\ dpc = "check"
  /\ IF client_queue.size > Handoff
     THEN /\ decoded' = decoded \o SubSeq(Contents(client_queue), 1, Handoff)
          /\ client_queue' = dequeue_n(client_queue, Handoff)
          /\ emptied' = emptied + 1
          /\ dpc' = dpc
     ELSE dpc' = "filled" /\ UNCHANGED <<client_queue, decoded, emptied>>
  /\ UNCHANGED <<recordVars, server_queue, server_buf_ready, running, serverVars,
                 linkVars, wire, got, cpc, buffer, filled, received, entered>>

WaitFilled ==
  /\ dpc = "filled" /\ filled > 0
  /\ filled' = filled - 1
  /\ dpc' = "check"
  /\ UNCHANGED <<recordVars, server_queue, server_buf_ready, running, serverVars,
                 linkVars, wire, got, cpc, buffer, client_queue, emptied,
                 received, decoded, entered>>

\* The network breaks the connection, on one side of what is on the way.
Break ==
  /\ client_socket # 0 /\ client_socket \notin dead
  /\ dead' = dead \cup {client_socket}
  /\ \E m \in 0 .. Len(wire) : wire' = SubSeq(wire, 1, m)
  /\ UNCHANGED <<recordVars, server_queue, server_buf_ready, running, serverVars,
                 server_socket, client_socket, backlog, conns, got, viewerVars,
                 entered>>

-----------------------------------------------------------------------------
\* streamer_init has run; no viewer is running.
Init ==
  /\ kinds = <<>> /\ NAL_buf_cnt = 0
  /\ server_queue = createQueue(BufferSize)
  /\ chosen_server_buffer_size = BufferSize
  /\ need_to_send_I_frame = FALSE
  /\ SPS_buffer = <<>> /\ PPS_buffer = <<>>
  /\ server_buf_ready = 1
  /\ running = FALSE
  /\ spc = "connect" /\ chunk_buffer = <<>> /\ packet_buf = <<>>
  /\ server_socket = 0 /\ client_socket = 0 /\ backlog = <<>>
  /\ conns = 0 /\ dead = {} /\ wire = <<>>
  /\ cpc = "off" /\ dpc = "off" /\ buffer = <<>>
  /\ client_queue = createQueue(Handoff + 1)
  /\ filled = 0 /\ emptied = 1
  /\ entered = <<>> /\ got = <<>> /\ received = <<>> /\ decoded = <<>>

Server == Accept \/ InsertPpsSps \/ While \/ TakeChunk \/ SendPacket \/ SendFails
Client == Recv \/ RecvFails \/ Store \/ Expand \/ WaitEmptied
Decoder == Decode \/ WaitFilled

Next ==
  \/ \E kind \in Kinds : StartCode(kind)
  \/ OtherBytes
  \/ CloseServer
  \/ Server
  \/ StartViewer
  \/ Client
  \/ Decoder
  \/ Break

Spec == Init /\ [][Next]_vars

\* A send that TCP can take, or must refuse, returns; the viewer's threads run.
Fairness == WF_vars(SendPacket \/ SendFails) /\ WF_vars(Client) /\ WF_vars(Decoder)
FairSpec == Spec /\ Fairness

-----------------------------------------------------------------------------
(* Properties.                                                             *)

Bytes == Nat \X Nat

RecordOK ==
  /\ kinds \in Seq(Kinds) /\ NAL_buf_cnt \in Nat
  /\ IsQueue(server_queue) /\ Contents(server_queue) \in Seq(Bytes)
  /\ chosen_server_buffer_size = server_queue.capacity
  /\ need_to_send_I_frame \in BOOLEAN
  /\ SPS_buffer \in Seq(Bytes) /\ PPS_buffer \in Seq(Bytes)
  /\ server_buf_ready \in 0 .. SemMax
  /\ running \in BOOLEAN
  /\ entered \in Seq(Bytes)

ServerOK ==
  /\ spc \in {"connect", "while", "sem_wait", "send", "reconnect", "callback",
              "ended"}
  /\ chunk_buffer \in Seq(Bytes) /\ packet_buf \in Seq(Bytes)
  /\ IF spc = "send" THEN Len(packet_buf) = Payload
                     ELSE Len(packet_buf) < Payload /\ chunk_buffer = <<>>
  /\ spc \in {"connect", "reconnect", "callback"} => packet_buf = <<>>

LinkOK ==
  /\ conns \in Nat
  /\ server_socket \in 0 .. conns /\ client_socket \in 0 .. conns
  /\ backlog \in Seq(1 .. conns) /\ dead \subseteq 1 .. conns
  /\ wire \in Seq(Bytes) /\ got \in Seq(Bytes)

ViewerOK ==
  /\ cpc \in {"off", "recv", "room", "emptied"}
  /\ dpc \in {"off", "check", "filled"}
  /\ buffer \in Seq(Bytes) /\ Len(buffer) <= Payload
  /\ IsQueue(client_queue) /\ Contents(client_queue) \in Seq(Bytes)
  /\ filled \in Nat /\ emptied \in Nat
  /\ received \in Seq(Bytes) /\ decoded \in Seq(Bytes)

TypeOK == RecordOK /\ ServerOK /\ LinkOK /\ ViewerOK

\* Is a session going on: a viewer accepted, and the queue begun for it?
InSession == spc \in {"while", "sem_wait", "send"}

IsPrefixOf(s, t) == Len(s) <= Len(t) /\ \A i \in 1 .. Len(s) : s[i] = t[i]

\* What entered the queue in a session is, byte for byte, what the viewer has
\* read, what TCP holds, the packet being filled, the chunk being packed and
\* what is still queued; on a connection that died, what the viewer has and can
\* still read is the beginning of it.  (Ring, chunks and packets of different
\* sizes, enlarging the queue, both threads at once.)
SessionIntact ==
  /\ InSession /\ server_socket \notin dead =>
       got \o wire \o packet_buf \o chunk_buffer \o Contents(server_queue)
         = entered
  /\ InSession /\ server_socket = client_socket => IsPrefixOf(got \o wire, entered)

\* The decoder gets what client_thread read, in order, across the doublings of
\* client_queue and the viewer's reconnections.
DecodedInOrder ==
  received = decoded \o Contents(client_queue)

\* A viewer reads the SPS first and then the PPS, on every connection: a decoder
\* cannot start without them (streamer.c:6).
SetsFirst ==
  InSession /\ server_socket = client_socket =>
    LET sets == SPS_buffer \o PPS_buffer
    IN  IsPrefixOf(got, sets) \/ IsPrefixOf(sets, got)

\* How many bytes at the beginning of a session insert_PPS_SPS put there.
Inserted == IF server_socket > 1 THEN Len(SPS_buffer) + Len(PPS_buffer) ELSE 0

\* After those, the units of a session are whole and in order, and where one was
\* left out the next is an IDR unit, as streamer.c:533 says.
GapsEndInIDR ==
  InSession =>
    \A j \in Inserted + 1 .. Len(entered) - 1 :
      LET b == entered[j]
          c == entered[j + 1]
      IN  \/ c = <<b[1], b[2] + 1>>
          \/ /\ b[2] = UnitLen[kinds[b[1]]] /\ c[2] = 1
             /\ \/ c[1] = b[1] + 1
                \/ c[1] > b[1] /\ kinds[c[1]] = "IDR"

\* The viewer's threads never both wait for the other.
NoStandoff ==
  ~(cpc = "emptied" /\ emptied = 0 /\ dpc = "filled" /\ filled = 0)

\* A send that waits for a slow viewer ends: the viewer makes room, reads on, or
\* its connection dies.
SendEnds == spc = "send" ~> spc # "send"

=============================================================================
