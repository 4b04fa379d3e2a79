--------------------------- MODULE SocketCommons ---------------------------
(***************************************************************************)
(* Messages on a TCP stream: socket_send_data and socket_receive_data of   *)
(* socket_commons.c, used by both socket libraries.                        *)
(*                                                                         *)
(* The threads in Senders send on one socket; the receiver at the other    *)
(* end reads a header, then the data it announces.  The header is one      *)
(* static buffer of the sending process, filled before mutex_sendData is   *)
(* taken.  TCP delivers bytes in order, but read() may return any part of  *)
(* what was sent.                                                          *)
(*                                                                         *)
(* Abstractions.  Byte p of the m-th message on the wire is <<m, p>>; the  *)
(* header contents it stands for are kept in sent[m].  The CRC of a header *)
(* is a value of its own: other bytes read as a header fail the check,     *)
(* which 2^-16 of them pass in reality.                                    *)
(***************************************************************************)
EXTENDS Integers, Sequences

CONSTANTS
  Senders,   \* threads that send on the socket
  HdrSz,     \* MSG_HEADER_SZ
  Width,     \* 2^16: the uint16_t of data_sz, msg_num_bytes and the totals
  Sizes,     \* lengths of data that callers pass, as uint; 0 is a ping
  MaxSent,   \* bound on the calls that begin
  Nobody     \* the mutex is free

ASSUME CommonsAssumption ==
  /\ HdrSz \in Nat \ {0} /\ Width \in Nat \ {0} /\ HdrSz < Width
  /\ Sizes \subseteq Nat
  /\ MaxSent \in Nat
  /\ Nobody \notin Senders

VARIABLES
  header,          \* the static struct MSG_HEADER
  mutex_sendData,  \* the thread that holds it
  pc,              \* where each sender is
  call,            \* the data size each sender was called with
  result,          \* what socket_send_data returned to it
  link,            \* the connection: "up", "closed" by the sender, "broken"
  wire,            \* the bytes sent so far
  sent,            \* the messages begun on the wire
  rd,              \* how many bytes the receiver has read
  rpc,             \* where the receiver is
  temp_msg,        \* the message it is reading
  got,             \* the messages it has returned
  split            \* has a header come in two reads?

sendVars == <<header, mutex_sendData, pc, call, result>>
recvVars == <<rd, rpc, temp_msg, got, split>>
vars == <<sendVars, link, wire, sent, recvVars>>

Commands == {"COMMAND_PING", "COMMAND_NONE"}

\* The checksum over the bytes of a header whose checksum bytes are k: zero, or
\* what another call left there.
Zero == <<>>
Junk == <<"junk">>
crc16(c, n, k) == IF k = Zero THEN <<c, n>> ELSE Junk

Header ==
  [command : Commands, msg_num_bytes : 0 .. Width - 1,
   crc16_checksum : {Zero, Junk} \cup (Commands \X (0 .. Width - 1))]

TypeOK ==
  /\ header \in Header
  /\ mutex_sendData \in Senders \cup {Nobody}
  /\ pc \in [Senders -> {"idle", "command", "clear", "checksum", "lock",
                         "header", "data", "return"}]
  /\ call \in [Senders -> Sizes \cup {0}]
  /\ result \in [Senders -> {"FLAG_DISCONNECT", "RETURN_FAILED", "data_sz"}]
  /\ link \in {"up", "closed", "broken"}
  /\ wire \in Seq(Nat \X Nat)
  /\ sent \in Seq([size : Sizes \cup {0}, at : Nat, head : Header, whole : BOOLEAN])
  /\ rd \in 0 .. Len(wire)
  /\ rpc \in {"header", "data", "disconnect"}
  /\ temp_msg \in [msg : Nat, command : Commands, data_sz : 0 .. Width - 1,
                   left : 0 .. Width - 1]
  /\ got \in Seq([msg : Nat, command : Commands, data_sz : 0 .. Width - 1,
                  from : Int])
  /\ split \in BOOLEAN

Init ==
  /\ header = [command |-> "COMMAND_NONE", msg_num_bytes |-> 0,
               crc16_checksum |-> Zero]
  /\ mutex_sendData = Nobody
  /\ pc = [t \in Senders |-> "idle"]
  /\ call = [t \in Senders |-> 0]
  /\ result = [t \in Senders |-> "data_sz"]
  /\ link = "up"
  /\ wire = <<>>
  /\ sent = <<>>
  /\ rd = 0
  /\ rpc = "header"
  /\ temp_msg = [msg |-> 0, command |-> "COMMAND_NONE", data_sz |-> 0,
                 left |-> 0]
  /\ got = <<>>
  /\ split = FALSE

-----------------------------------------------------------------------------
(* socket_send_data.                                                       *)

\* The uint of the callers becomes a uint16_t.
data_sz(n) == n % Width

command(n) == IF n = 0 THEN "COMMAND_PING" ELSE "COMMAND_NONE"

Goto(t, label) == pc' = [pc EXCEPT ![t] = label]

\* The header is filled field by field, before the mutex is taken.  A thread
\* that has closed the socket does not send on it again.
Begin(t) ==
  /\ pc[t] = "idle" /\ result[t] = "data_sz" /\ link # "closed"
  /\ Len(sent) < MaxSent
  /\ \E n \in Sizes :
       /\ call' = [call EXCEPT ![t] = n]
       /\ header' = [header EXCEPT !.msg_num_bytes = data_sz(n)]
  /\ Goto(t, "command")
  /\ UNCHANGED <<mutex_sendData, result, link, wire, sent, recvVars>>

FillCommand(t) ==
  /\ pc[t] = "command"
  /\ header' = [header EXCEPT !.command = command(call[t])]
  /\ Goto(t, "clear")
  /\ UNCHANGED <<mutex_sendData, call, result, link, wire, sent, recvVars>>

Cleared_forgotten == header

Cleared == [header EXCEPT !.crc16_checksum = Zero]

ClearChecksum(t) ==
  /\ pc[t] = "clear"
  /\ header' = Cleared
  /\ Goto(t, "checksum")
  /\ UNCHANGED <<mutex_sendData, call, result, link, wire, sent, recvVars>>

FillChecksum(t) ==
  /\ pc[t] = "checksum"
  /\ header' = [header EXCEPT !.crc16_checksum =
                  crc16(header.command, header.msg_num_bytes, @)]
  /\ Goto(t, "lock")
  /\ UNCHANGED <<mutex_sendData, call, result, link, wire, sent, recvVars>>

Lock(t) ==
  /\ pc[t] = "lock" /\ mutex_sendData = Nobody
  /\ mutex_sendData' = t
  /\ Goto(t, "header")
  /\ UNCHANGED <<header, call, result, link, wire, sent, recvVars>>

\* Bytes a .. b of the m-th message.
Bytes(m, a, b) == [k \in 1 .. b - a + 1 |-> <<m, a + k - 1>>]

Return(t, value) ==
  /\ mutex_sendData' = Nobody
  /\ result' = [result EXCEPT ![t] = value]
  /\ Goto(t, "return")

\* total_bytes_to_send is a uint16_t too.
Total(n) == (data_sz(n) + HdrSz) % Width

Verdict(n, bytes) == IF Total(n) = bytes THEN "data_sz" ELSE "RETURN_FAILED"

Sent(m, a, b) == wire' = wire \o Bytes(m, a, b)

\* send() of the header puts it on the wire; or a part of it, because the
\* connection breaks; or nothing, because it is gone.
SendHeader(t) ==
  /\ pc[t] = "header"
  /\ LET m == Len(sent) + 1
         n == call[t]
         begun == [size |-> n, at |-> Len(wire), head |-> header,
                   whole |-> data_sz(n) = 0]
     IN  \/ /\ link = "up"
            /\ Sent(m, 1, HdrSz)
            /\ sent' = Append(sent, begun)
            /\ IF data_sz(n) # 0
               THEN Goto(t, "data") /\ UNCHANGED <<mutex_sendData, result>>
               ELSE Return(t, Verdict(n, HdrSz))
            /\ UNCHANGED link
         \/ /\ link = "up"
            /\ \E k \in 1 .. HdrSz - 1 : Sent(m, 1, k)
            /\ sent' = Append(sent, [begun EXCEPT !.whole = FALSE])
            /\ link' = "broken"
            /\ Return(t, "RETURN_FAILED")
         \/ /\ link # "up"
            /\ Return(t, "FLAG_DISCONNECT")
            /\ UNCHANGED <<link, wire, sent>>
  /\ UNCHANGED <<header, call, recvVars>>

\* The mutex is still held, so that the data follow their header.
SendData(t) ==
  /\ pc[t] = "data"
  /\ LET m == Len(sent)
         n == data_sz(call[t])
     IN  \/ /\ link = "up"
            /\ Sent(m, HdrSz + 1, HdrSz + n)
            /\ sent' = [sent EXCEPT ![m].whole = TRUE]
            /\ Return(t, Verdict(call[t], HdrSz + n))
            /\ UNCHANGED link
         \/ /\ link = "up"
            /\ \E k \in 1 .. n - 1 : Sent(m, HdrSz + 1, HdrSz + k)
            /\ link' = "broken"
            /\ Return(t, "RETURN_FAILED")
            /\ UNCHANGED sent
         \/ /\ link # "up"
            /\ Return(t, "FLAG_DISCONNECT")
            /\ UNCHANGED <<link, wire, sent>>
  /\ UNCHANGED <<header, call, recvVars>>

\* The libraries close the socket when the result is negative.
Close(t) ==
  /\ pc[t] = "return"
  /\ link' = IF result[t] # "data_sz" /\ link = "up" THEN "closed" ELSE link
  /\ Goto(t, "idle")
  /\ UNCHANGED <<header, mutex_sendData, call, result, wire, sent, recvVars>>

-----------------------------------------------------------------------------
(* socket_receive_data.                                                    *)

Left == Len(wire) - rd

\* What read() of at most n bytes may return.
Reads(n) == 1 .. (IF Left < n THEN Left ELSE n)

IsHeader_unchecked(m) == \A p \in 1 .. HdrSz : wire[rd + p][1] = m

\* The next HdrSz bytes are the header of message m, with the right checksum.
IsHeader(m) ==
  /\ \A p \in 1 .. HdrSz : wire[rd + p] = <<m, p>>
  /\ sent[m].head.crc16_checksum =
       crc16(sent[m].head.command, sent[m].head.msg_num_bytes, Zero)

Delivered_data_only(msg, from) ==
  IF msg.data_sz = 0 THEN got
  ELSE Append(got, [msg |-> msg.msg, command |-> msg.command,
                    data_sz |-> msg.data_sz, from |-> from])

Delivered_first(msg, from) ==
  <<[msg |-> msg.msg, command |-> msg.command,
     data_sz |-> msg.data_sz, from |-> from]>> \o got

Delivered(msg, from) ==
  Append(got, [msg |-> msg.msg, command |-> msg.command,
               data_sz |-> msg.data_sz, from |-> from])

\* A header with the right checksum.
TakeHeader ==
  /\ rpc = "header" /\ Left >= HdrSz
  /\ \E m \in 1 .. Len(sent) :
       /\ IsHeader(m)
       /\ LET h == sent[m].head
              msg == [msg |-> m, command |-> h.command,
                      data_sz |-> h.msg_num_bytes, left |-> h.msg_num_bytes]
          IN  /\ temp_msg' = msg
              /\ IF h.msg_num_bytes = 0
                 THEN got' = Delivered(msg, rd + HdrSz) /\ UNCHANGED rpc
                 ELSE rpc' = "data" /\ UNCHANGED got
  /\ rd' = rd + HdrSz
  /\ UNCHANGED <<sendVars, link, wire, sent, split>>

\* FLAG_HEADER_ERROR: the bytes read are lost.
DropHeader ==
  /\ rpc = "header"
  /\ \E k \in Reads(HdrSz) :
       /\ k = HdrSz => ~ \E m \in 1 .. Len(sent) : IsHeader(m)
       /\ rd' = rd + k
       /\ split' = (split \/ k < HdrSz)
  /\ UNCHANGED <<sendVars, link, wire, sent, rpc, temp_msg, got>>

BytesLeft_unbounded == Reads(Left)

BytesLeft == Reads(temp_msg.left)

ReadData ==
  /\ rpc = "data"
  /\ \E k \in BytesLeft :
       LET msg == [temp_msg EXCEPT !.left = @ - k]
       IN  /\ rd' = rd + k
           /\ temp_msg' = msg
           /\ IF msg.left = 0
              THEN /\ rpc' = "header"
                   /\ got' = Delivered(msg, rd + k - msg.data_sz)
              ELSE UNCHANGED <<rpc, got>>
  /\ UNCHANGED <<sendVars, link, wire, sent, split>>

\* read() returns 0 after the last byte, or an error: FLAG_DISCONNECT.  What
\* has been read of a message is dropped.
ReadEnd ==
  /\ rpc # "disconnect"
  /\ \/ link = "closed" /\ Left = 0
     \/ link = "broken"
  /\ rpc' = "disconnect"
  /\ UNCHANGED <<sendVars, link, wire, sent, rd, temp_msg, got, split>>

\* The network; after close() too, what was sent may be lost.
Break ==
  /\ link # "broken"
  /\ link' = "broken"
  /\ UNCHANGED <<sendVars, wire, sent, recvVars>>

-----------------------------------------------------------------------------

SenderStep(t) ==
  \/ FillCommand(t) \/ ClearChecksum(t) \/ FillChecksum(t)
  \/ Lock(t) \/ SendHeader(t) \/ SendData(t) \/ Close(t)

Receive == TakeHeader \/ DropHeader \/ ReadData \/ ReadEnd

Next ==
  \/ \E t \in Senders : Begin(t) \/ SenderStep(t)
  \/ Receive \/ Break

Spec == Init /\ [][Next]_vars

\* The receiver runs: its thread comes back to the socket.
FairSpec == Spec /\ WF_vars(Receive)

-----------------------------------------------------------------------------
(* Properties of one sender.                                               *)

\* No size that a caller passes is changed by the conversion to 16 bits.
SizesFit == Sizes \subseteq 0 .. Width - 1

\* What the receiver returns is what a call passed in: the command, the size
\* the caller gave (not what is left of it in 16 bits) and the very bytes, from
\* the header to the last one, also after bytes of other messages have been
\* dropped as bad headers.  It holds when SizesFit; see ArraysToMaxAreSent.
Intact ==
  \A i \in DOMAIN got :
    LET g == got[i]
    IN  /\ g.msg \in DOMAIN sent
        /\ g.command = command(sent[g.msg].size)
        /\ g.data_sz = sent[g.msg].size
        /\ g.from = sent[g.msg].at + HdrSz
        /\ \A k \in 1 .. g.data_sz : wire[g.from + k] = <<g.msg, HdrSz + k>>

\* Messages are returned in the order of the calls, none twice.
InOrder == \A i, j \in DOMAIN got : i < j => got[i].msg < got[j].msg

\* Nothing is lost in the middle, unless a header came in two reads (437 drops
\* its first bytes, and what follows is read out of step).
NothingSkipped == ~split => \A i \in DOMAIN got : got[i].msg = i

\* A message that was put on the wire whole is returned in the end, unless a
\* header was split or the connection broke.
Arrives ==
  \A m \in 1 .. MaxSent :
    (m <= Len(sent) /\ sent[m].whole) ~>
      (split \/ link = "broken" \/ \E i \in DOMAIN got : got[i].msg = m)

-----------------------------------------------------------------------------
(* The channel that the libraries above take a connection for.             *)

\* What a message of n bytes says: its command and its size, as the caller gave
\* it; of a size that does not fit the channel is not implemented.
Says(n) == [command |-> command(n), data_sz |-> n]

queued ==
  [m \in DOMAIN sent |->
     [contents |-> Says(sent[m].size), whole |-> sent[m].whole]]

returned ==
  [i \in DOMAIN got |->
     [place |-> got[i].msg,
      contents |-> [command |-> got[i].command, data_sz |-> got[i].data_sz]]]

Channel == INSTANCE MessageChannel WITH
  Contents <- {Says(n) : n \in Sizes \cup {0}},
  torn     <- split,
  over     <- (rpc = "disconnect")

\* The bytes on the wire carry messages as a channel of messages does: each
\* whole, as it was sent, once, in order, and none from a send that failed in
\* the middle.
ChannelSpec == Channel!Spec

-----------------------------------------------------------------------------
(* What the header says.                                                   *)

\* pub_socket_commons.h: calls of socket_send_data are thread safe.  The
\* receiver gets what the callers sent.
CallsAreThreadSafe == Intact

\* pub_socket_commons.h: socket_send_data takes arrays of up to 2^16 bytes
\* (MAX_MSG_SZ) and returns the number of bytes sent, unless it failed.  The
\* receiver gets an array of the size that was passed, and a call fails only
\* when the connection broke.
ArraysToMaxAreSent ==
  /\ \A i \in DOMAIN got : got[i].data_sz = sent[got[i].msg].size
  /\ \A t \in Senders :
       pc[t] = "return" /\ result[t] = "RETURN_FAILED" => link = "broken"

=============================================================================
