------------------------ MODULE SocketCommonsProofs ------------------------
(***************************************************************************)
(* Theorems about SocketCommons, for any header size and any width of the  *)
(* size fields.  With one sending thread: what is received, and, when the  *)
(* sizes fit, that it is what was sent and that SocketCommons implements   *)
(* MessageChannel.  With any number of threads and any sizes: types, and   *)
(* that their bytes stay apart on the wire.                                *)
(***************************************************************************)
EXTENDS SocketCommons, SequenceTheorems, TLAPS

-----------------------------------------------------------------------------
(* The inductive invariant.                                                *)

Size(m) == HdrSz + data_sz(sent[m].size)

\* Where message m ends on the wire, if it is sent whole.
End(m) == sent[m].at + Size(m)

\* The header that announces n bytes of data.
HeaderFor(n) ==
  [command |-> command(n), msg_num_bytes |-> data_sz(n),
   crc16_checksum |-> <<command(n), data_sz(n)>>]

\* The wire holds the messages one after the other, whole but for the last.
\* Without the second part a header that is read whole could be followed by
\* other bytes than its data.
WireOK ==
  /\ \A i \in DOMAIN wire :
       /\ wire[i][1] \in DOMAIN sent
       /\ wire[i][2] \in 1 .. Size(wire[i][1])
       /\ i = sent[wire[i][1]].at + wire[i][2]
  /\ \A m \in DOMAIN sent : \A p \in 1 .. Size(m) :
       sent[m].at + p <= Len(wire) => wire[sent[m].at + p] = <<m, p>>
  /\ \A m, n \in DOMAIN sent : m < n => End(m) <= sent[n].at
  /\ \A m \in DOMAIN sent : sent[m].at = IF m = 1 THEN 0 ELSE End(m - 1)
  /\ \A m \in DOMAIN sent : sent[m].at < Len(wire)

\* While the connection is up the last message is whole, or its data are due.
LastOK(t) ==
  link = "up" =>
    /\ pc[t] # "data" => Len(wire) = IF sent = <<>> THEN 0 ELSE End(Len(sent))
    /\ pc[t] = "data" => /\ sent # <<>>
                         /\ sent[Len(sent)].size = call[t]
                         /\ Len(wire) = sent[Len(sent)].at + HdrSz
                         /\ data_sz(call[t]) # 0

\* The header that is sent is that of the call.
HeadOK(t) ==
  /\ \A m \in DOMAIN sent : sent[m].head = HeaderFor(sent[m].size)
  /\ pc[t] \in {"command", "clear", "checksum", "lock", "header"} =>
       header.msg_num_bytes = data_sz(call[t])
  /\ pc[t] \in {"clear", "checksum", "lock", "header"} =>
       header.command = command(call[t])
  /\ pc[t] = "checksum" => header.crc16_checksum = Zero
  /\ pc[t] \in {"lock", "header"} => header = HeaderFor(call[t])

\* The receiver is inside the data of the message whose header it has read.
RecvOK ==
  rpc = "data" =>
    LET m == temp_msg.msg
    IN  /\ m \in DOMAIN sent
        /\ temp_msg.command = command(sent[m].size)
        /\ temp_msg.data_sz = data_sz(sent[m].size)
        /\ temp_msg.left \in 1 .. temp_msg.data_sz
        /\ rd = End(m) - temp_msg.left

\* Intact, for the sizes that the headers give: those of the callers when they
\* fit into 16 bits.
Framed ==
  \A i \in DOMAIN got :
    LET g == got[i]
    IN  /\ g.msg \in DOMAIN sent
        /\ g.command = command(sent[g.msg].size)
        /\ g.data_sz = data_sz(sent[g.msg].size)
        /\ g.from = sent[g.msg].at + HdrSz
        /\ \A k \in 1 .. g.data_sz : wire[g.from + k] = <<g.msg, HdrSz + k>>

\* What has been returned ends before what is being read.
GotOK ==
  /\ Framed /\ InOrder
  /\ \A i \in DOMAIN got : End(got[i].msg) <= rd
  /\ rpc = "data" => \A i \in DOMAIN got : got[i].msg < temp_msg.msg

\* As long as no header was split the receiver is at the boundary of messages.
StepOK ==
  ~split =>
    /\ \A i \in DOMAIN got : got[i].msg = i
    /\ Len(got) <= Len(sent)
    /\ rpc = "header" => rd = IF got = <<>> THEN 0 ELSE End(Len(got))
    /\ rpc = "data" => temp_msg.msg = Len(got) + 1

CInv(t) == /\ TypeOK /\ WireOK /\ LastOK(t) /\ HeadOK(t)
           /\ RecvOK /\ GotOK /\ StepOK

-----------------------------------------------------------------------------
(* Lemmas.                                                                 *)

\* Sizes are numbers.
LEMMA SizesNat == Sizes \cup {0} \subseteq Nat
<1>1. Sizes \subseteq Nat
  BY CommonsAssumption
<1>2. ASSUME NEW x \in Sizes \cup {0} PROVE x \in Nat
  <2>1. CASE x \in Sizes
    BY <1>1, <2>1, Zenon
  <2>2. CASE x = 0
    BY <2>2
  <2> QED
    BY <2>1, <2>2
<1> QED
  BY <1>2, Zenon

\* The sizes of the protocol are uint16_t.
LEMMA SizeFacts ==
  ASSUME NEW n \in Nat
  PROVE  data_sz(n) \in 0 .. Width - 1 /\ command(n) \in Commands
BY CommonsAssumption DEF data_sz, command, Commands

\* What a type-correct state says of the sequences.
LEMMA TypeFacts ==
  ASSUME TypeOK
  PROVE  /\ Len(wire) \in Nat /\ DOMAIN wire = 1 .. Len(wire)
         /\ Len(sent) \in Nat /\ DOMAIN sent = 1 .. Len(sent)
         /\ Len(got) \in Nat /\ DOMAIN got = 1 .. Len(got)
         /\ (sent = <<>> <=> Len(sent) = 0) /\ (got = <<>> <=> Len(got) = 0)
         /\ (wire = <<>> <=> Len(wire) = 0)
         /\ \A m \in DOMAIN sent : sent[m] \in
              [size : Sizes \cup {0}, at : Nat, head : Header, whole : BOOLEAN]
         /\ \A m \in DOMAIN sent :
              /\ sent[m].size \in Nat /\ sent[m].at \in Nat
              /\ data_sz(sent[m].size) \in 0 .. Width - 1
              /\ Size(m) \in Nat \ {0} /\ End(m) \in Nat
              /\ End(m) = sent[m].at + HdrSz + data_sz(sent[m].size)
         /\ \A i \in DOMAIN got : got[i] \in
              [msg : Nat, command : Commands, data_sz : 0 .. Width - 1,
               from : Int]
         /\ \A t \in Senders : call[t] \in Nat
         /\ HdrSz \in Nat \ {0} /\ Width \in Nat \ {0} /\ rd \in 0 .. Len(wire)
<1>1. /\ Len(wire) \in Nat /\ DOMAIN wire = 1 .. Len(wire)
      /\ Len(sent) \in Nat /\ DOMAIN sent = 1 .. Len(sent)
      /\ Len(got) \in Nat /\ DOMAIN got = 1 .. Len(got)
  BY LenProperties DEF TypeOK
<1>2. /\ (sent = <<>> <=> Len(sent) = 0) /\ (got = <<>> <=> Len(got) = 0)
      /\ (wire = <<>> <=> Len(wire) = 0)
  BY EmptySeq DEF TypeOK
<1>3. /\ \A m \in DOMAIN sent : sent[m] \in
           [size : Sizes \cup {0}, at : Nat, head : Header, whole : BOOLEAN]
      /\ \A i \in DOMAIN got : got[i] \in
           [msg : Nat, command : Commands, data_sz : 0 .. Width - 1,
            from : Int]
  BY <1>1, ElementOfSeq DEF TypeOK
<1>4. ASSUME NEW m \in DOMAIN sent
      PROVE  /\ sent[m].size \in Nat /\ sent[m].at \in Nat
             /\ data_sz(sent[m].size) \in 0 .. Width - 1
             /\ Size(m) \in Nat \ {0} /\ End(m) \in Nat
             /\ End(m) = sent[m].at + HdrSz + data_sz(sent[m].size)
  <2>1. sent[m] \in
          [size : Sizes \cup {0}, at : Nat, head : Header, whole : BOOLEAN]
    BY <1>3
  <2>2. sent[m].size \in Sizes \cup {0} /\ sent[m].at \in Nat
    BY <2>1
  <2>3. sent[m].size \in Nat /\ sent[m].at \in Nat
    <3>1. sent[m].size \in Nat
      BY <2>2, SizesNat, Zenon
    <3> QED
      BY <2>2, <3>1
  <2>4. data_sz(sent[m].size) \in 0 .. Width - 1
    BY <2>3, SizeFacts
  <2>5. HdrSz \in Nat \ {0} /\ Width \in Nat \ {0}
    BY CommonsAssumption
  <2>6. Size(m) = HdrSz + data_sz(sent[m].size) /\ End(m) = sent[m].at + Size(m)
    BY DEF Size, End
  <2> QED
    BY <2>3, <2>4, <2>5, <2>6
<1>5. ASSUME NEW t \in Senders PROVE call[t] \in Nat
  <2>1. call[t] \in Sizes \cup {0}
    BY DEF TypeOK
  <2> QED
    BY <2>1, SizesNat, Zenon
<1>6. rd \in 0 .. Len(wire) /\ HdrSz \in Nat \ {0} /\ Width \in Nat \ {0}
  BY CommonsAssumption DEF TypeOK
<1> QED
  BY <1>1, <1>2, <1>3, <1>4, <1>5, <1>6

\* The wire grows at its end.
LEMMA SentLemma ==
  ASSUME TypeOK, NEW m \in Nat, NEW a \in Nat, NEW b \in Nat, a <= b,
         Sent(m, a, b)
  PROVE  /\ wire' \in Seq(Nat \X Nat)
         /\ Len(wire') = Len(wire) + (b - a + 1)
         /\ DOMAIN wire' = 1 .. Len(wire')
         /\ \A i \in 1 .. Len(wire) : wire'[i] = wire[i]
         /\ \A k \in 1 .. b - a + 1 : wire'[Len(wire) + k] = <<m, a + k - 1>>
<1> DEFINE n == b - a + 1
<1>1. n \in Nat /\ Bytes(m, a, b) = [k \in 1 .. n |-> <<m, a + k - 1>>]
  BY DEF Bytes
<1>2. Bytes(m, a, b) \in Seq(Nat \X Nat) /\ Len(Bytes(m, a, b)) = n
  <2>1. Bytes(m, a, b) \in [1 .. n -> Nat \X Nat]
    BY <1>1
  <2>2. Bytes(m, a, b) \in Seq(Nat \X Nat)
    BY <1>1, <2>1, SeqDef
  <2>3. DOMAIN Bytes(m, a, b) = 1 .. n
    BY <1>1
  <2> QED
    BY <1>1, <2>2, <2>3, LenProperties
<1>3. wire \in Seq(Nat \X Nat)
  BY DEF TypeOK
<1>4. /\ wire' \in Seq(Nat \X Nat) /\ Len(wire') = Len(wire) + n
      /\ \A i \in 1 .. Len(wire) + n :
           wire'[i] = IF i <= Len(wire) THEN wire[i]
                                        ELSE Bytes(m, a, b)[i - Len(wire)]
  <2> DEFINE s == Bytes(m, a, b)
             w == wire \o s
  <2>1. wire' = w
    BY DEF Sent
  <2> HIDE DEF s
  <2>2. s \in Seq(Nat \X Nat) /\ Len(s) = n
    BY <1>2 DEF s
  <2>3. /\ w \in Seq(Nat \X Nat) /\ Len(w) = Len(wire) + Len(s)
        /\ \A i \in 1 .. Len(wire) + Len(s) :
             w[i] = IF i <= Len(wire) THEN wire[i] ELSE s[i - Len(wire)]
    BY <1>3, <2>2, ConcatProperties
  <2> HIDE DEF w
  <2> QED
    BY <2>1, <2>2, <2>3 DEF s
<1>5. Len(wire) \in Nat /\ DOMAIN wire' = 1 .. Len(wire')
  BY <1>3, <1>4, LenProperties
<1>6. \A i \in 1 .. Len(wire) : wire'[i] = wire[i]
  <2>1. ASSUME NEW i \in 1 .. Len(wire)
        PROVE  i \in 1 .. Len(wire) + n /\ i <= Len(wire)
    BY <1>1, <1>5
  <2> QED
    BY <1>4, <2>1
<1>7. ASSUME NEW k \in 1 .. n PROVE wire'[Len(wire) + k] = <<m, a + k - 1>>
  <2>1. /\ Len(wire) + k \in 1 .. Len(wire) + n
        /\ ~ (Len(wire) + k <= Len(wire)) /\ Len(wire) + k - Len(wire) = k
    BY <1>1, <1>5
  <2>2. wire'[Len(wire) + k] = Bytes(m, a, b)[k]
    <3>1. PICK j : j = Len(wire) + k
      OBVIOUS
    <3>2. j \in 1 .. Len(wire) + n /\ ~ (j <= Len(wire)) /\ j - Len(wire) = k
      <4>1. Len(wire) \in Nat /\ n \in Nat /\ k \in 1 .. n
        BY <1>1, <1>5
      <4> HIDE DEF n
      <4> QED
        BY ONLY <3>1, <4>1
    <3>3. wire'[j] = Bytes(m, a, b)[j - Len(wire)]
      BY <1>4, <3>2, Zenon
    <3> QED
      BY <3>1, <3>2, <3>3, Zenon
  <2> QED
    BY <1>1, <2>2
<1> QED
  BY <1>1, <1>4, <1>5, <1>6, <1>7

\* What the receiver has done stays right when the wire and the messages on it
\* grow.
LEMMA GrowLemma ==
  ASSUME TypeOK, TypeOK', RecvOK, GotOK, StepOK, UNCHANGED recvVars,
         Len(wire) <= Len(wire'), Len(sent) <= Len(sent'),
         \A i \in DOMAIN wire : wire'[i] = wire[i],
         \A m \in DOMAIN sent :
           sent'[m].size = sent[m].size /\ sent'[m].at = sent[m].at
  PROVE  RecvOK' /\ GotOK' /\ StepOK'
<1> USE TypeFacts DEF recvVars
<1>1. DOMAIN sent \subseteq DOMAIN sent' /\ DOMAIN wire \subseteq DOMAIN wire'
  <2>1. /\ Len(wire) \in Nat /\ DOMAIN wire = 1 .. Len(wire)
        /\ Len(sent) \in Nat /\ DOMAIN sent = 1 .. Len(sent)
    BY TypeFacts
  <2>2. /\ Len(wire') \in Nat /\ DOMAIN wire' = 1 .. Len(wire')
        /\ Len(sent') \in Nat /\ DOMAIN sent' = 1 .. Len(sent')
    BY LenProperties DEF TypeOK
  <2> QED
    BY <2>1, <2>2
<1>2. \A m \in DOMAIN sent : m \in DOMAIN sent' /\ End(m)' = End(m)
  BY <1>1 DEF End, Size
<1>3. RecvOK'
  BY <1>1, <1>2 DEF RecvOK
<1>4. \A i \in DOMAIN got : got[i].msg \in DOMAIN sent
  BY DEF GotOK, Framed
<1>5. Framed'
  <2> SUFFICES ASSUME NEW i \in DOMAIN got
               PROVE  LET g == got[i]
                      IN  /\ g.msg \in DOMAIN sent'
                          /\ g.command = command(sent'[g.msg].size)
                          /\ g.data_sz = data_sz(sent'[g.msg].size)
                          /\ g.from = sent'[g.msg].at + HdrSz
                          /\ \A k \in 1 .. g.data_sz :
                               wire'[g.from + k] = <<g.msg, HdrSz + k>>
    BY DEF Framed
  <2> DEFINE g == got[i]
  <2>1. /\ g.msg \in DOMAIN sent /\ g.command = command(sent[g.msg].size)
        /\ g.data_sz = data_sz(sent[g.msg].size)
        /\ g.from = sent[g.msg].at + HdrSz
        /\ \A k \in 1 .. g.data_sz : wire[g.from + k] = <<g.msg, HdrSz + k>>
        /\ End(g.msg) <= rd
    BY DEF GotOK, Framed
  <2>2. ASSUME NEW k \in 1 .. g.data_sz PROVE g.from + k \in DOMAIN wire
    <3>1. g.from + k <= End(g.msg)
      <4>1. /\ sent[g.msg].at \in Nat /\ HdrSz \in Nat
            /\ data_sz(sent[g.msg].size) \in 0 .. Width - 1 /\ Width \in Nat
            /\ End(g.msg) = sent[g.msg].at + HdrSz + data_sz(sent[g.msg].size)
        BY <2>1, Zenon
      <4>2. PICK n : n = data_sz(sent[g.msg].size)
        OBVIOUS
      <4>3. /\ n \in 0 .. Width - 1 /\ k \in 1 .. n
            /\ End(g.msg) = sent[g.msg].at + HdrSz + n
            /\ g.from = sent[g.msg].at + HdrSz
        BY <2>1, <4>1, <4>2, Zenon
      <4> HIDE DEF g
      <4> QED
        BY ONLY <4>1, <4>3
    <3>2. g.from \in Nat /\ k \in Nat \ {0} /\ rd <= Len(wire)
      <4>1. g \in [msg : Nat, command : Commands, data_sz : 0 .. Width - 1,
                   from : Int]
        OBVIOUS
      <4>2. g.data_sz \in Nat
        BY <4>1
      <4>3. sent[g.msg].at \in Nat /\ HdrSz \in Nat
        BY <2>1
      <4>4. g.from \in Nat
        <5>1. g.from = sent[g.msg].at + HdrSz
          BY <2>1, Zenon
        <5> HIDE DEF g
        <5> QED
          BY ONLY <4>3, <5>1
      <4> QED
        BY <4>2, <4>4
    <3>3. End(g.msg) \in Nat
      BY <2>1
    <3> HIDE DEF g
    <3>4. rd \in Nat /\ Len(wire) \in Nat
      OBVIOUS
    <3>5. g.from + k \in 1 .. Len(wire)
      BY ONLY <2>1, <3>1, <3>2, <3>3, <3>4
    <3> QED
      BY <3>5
  <2> QED
    BY <1>1, <2>1, <2>2
<1>6. GotOK'
  BY <1>2, <1>4, <1>5 DEF GotOK, InOrder
<1>7. StepOK'
  <2>1. Len(got) <= Len(sent) /\ got # <<>> => Len(got) \in DOMAIN sent
    OBVIOUS
  <2> QED
    BY <1>2, <2>1 DEF StepOK
<1> QED
  BY <1>3, <1>6, <1>7

\* Messages do not overlap.
LEMMA OrderLemma ==
  ASSUME TypeOK, WireOK
  PROVE  /\ \A m \in DOMAIN sent : sent[m].at + HdrSz <= End(m)
         /\ \A m, n \in DOMAIN sent : m < n => End(m) <= sent[n].at
         /\ \A m, n \in DOMAIN sent : End(m) <= sent[n].at => m < n
<1>1. \A m, n \in DOMAIN sent : m < n => End(m) <= sent[n].at
  BY DEF WireOK
<1>2. ASSUME NEW m \in DOMAIN sent
      PROVE  /\ m \in Nat /\ sent[m].at \in Nat /\ End(m) \in Nat
             /\ sent[m].at + HdrSz <= End(m) /\ sent[m].at < End(m)
  <2>1. /\ sent[m].at \in Nat /\ data_sz(sent[m].size) \in 0 .. Width - 1
        /\ End(m) = sent[m].at + HdrSz + data_sz(sent[m].size)
        /\ HdrSz \in Nat \ {0} /\ Width \in Nat \ {0}
        /\ DOMAIN sent = 1 .. Len(sent) /\ Len(sent) \in Nat
    BY TypeFacts
  <2> QED
    BY <2>1
<1>3. ASSUME NEW m \in DOMAIN sent, NEW n \in DOMAIN sent,
             End(m) <= sent[n].at
      PROVE  m < n
  <2>1. sent[m].at < End(m) /\ sent[n].at < End(n)
    BY <1>2
  <2>2. /\ m \in Nat /\ n \in Nat /\ sent[m].at \in Nat /\ sent[n].at \in Nat
        /\ End(m) \in Nat /\ End(n) \in Nat
    BY <1>2
  <2>3. CASE n < m
    <3>1. End(n) <= sent[m].at
      BY <1>1, <2>3
    <3> QED
      BY <1>3, <2>1, <2>2, <3>1
  <2>4. CASE n = m
    BY <1>3, <2>1, <2>2, <2>4
  <2> QED
    BY <2>2, <2>3, <2>4
<1> QED
  BY <1>1, <1>2, <1>3

\* A message is appended to those returned.
LEMMA AppendGot ==
  ASSUME TypeOK, Framed, InOrder, UNCHANGED <<wire, sent>>,
         NEW g \in [msg : Nat, command : Commands, data_sz : 0 .. Width - 1,
                    from : Int],
         got' = Append(got, g),
         g.msg \in DOMAIN sent, g.command = command(sent[g.msg].size),
         g.data_sz = data_sz(sent[g.msg].size),
         g.from = sent[g.msg].at + HdrSz,
         \A k \in 1 .. g.data_sz : wire[g.from + k] = <<g.msg, HdrSz + k>>,
         \A i \in DOMAIN got : got[i].msg < g.msg
  PROVE  /\ Framed' /\ InOrder'
         /\ got' \in Seq([msg : Nat, command : Commands,
                          data_sz : 0 .. Width - 1, from : Int])
         /\ Len(got') = Len(got) + 1 /\ DOMAIN got' = 1 .. Len(got) + 1
         /\ \A i \in DOMAIN got : got'[i] = got[i]
         /\ got'[Len(got) + 1] = g
         /\ Len(got) \in Nat /\ DOMAIN got = 1 .. Len(got) /\ got' # <<>>
<1> DEFINE G == [msg : Nat, command : Commands, data_sz : 0 .. Width - 1,
                 from : Int]
<1>1. got \in Seq(G)
  BY DEF TypeOK
<1>2. Len(got) \in Nat /\ DOMAIN got = 1 .. Len(got)
  BY <1>1, LenProperties
<1> HIDE DEF G
<1>3. g \in G
  BY DEF G
<1>4. /\ Append(got, g) \in Seq(G) /\ Len(Append(got, g)) = Len(got) + 1
      /\ \A i \in 1 .. Len(got) : Append(got, g)[i] = got[i]
      /\ Append(got, g)[Len(got) + 1] = g /\ Append(got, g) # <<>>
  BY <1>1, <1>3, AppendProperties
<1>5. /\ got' \in Seq(G) /\ Len(got') = Len(got) + 1 /\ got' # <<>>
      /\ \A i \in DOMAIN got : got'[i] = got[i]
      /\ got'[Len(got) + 1] = g
  BY <1>2, <1>4
<1>6. DOMAIN got' = 1 .. Len(got) + 1
  BY <1>5, LenProperties
<1>7. \A i \in DOMAIN got' : i \in DOMAIN got \/ i = Len(got) + 1
  BY <1>2, <1>6
<1>8. Framed'
  <2>1. ASSUME NEW i \in DOMAIN got', NEW h, h = got'[i]
        PROVE  /\ h.msg \in DOMAIN sent
               /\ h.command = command(sent[h.msg].size)
               /\ h.data_sz = data_sz(sent[h.msg].size)
               /\ h.from = sent[h.msg].at + HdrSz
               /\ \A k \in 1 .. h.data_sz :
                    wire[h.from + k] = <<h.msg, HdrSz + k>>
    <3>1. CASE i \in DOMAIN got
      <4>1. h = got[i]
        BY <1>5, <2>1, <3>1
      <4> QED
        BY <3>1, <4>1 DEF Framed
    <3>2. CASE i = Len(got) + 1
      <4>1. h = g
        BY <1>5, <2>1, <3>2
      <4> QED
        BY <4>1
    <3> QED
      BY <1>7, <3>1, <3>2
  <2>2. \A i \in DOMAIN got' :
          /\ got'[i].msg \in DOMAIN sent
          /\ got'[i].command = command(sent[got'[i].msg].size)
          /\ got'[i].data_sz = data_sz(sent[got'[i].msg].size)
          /\ got'[i].from = sent[got'[i].msg].at + HdrSz
          /\ \A k \in 1 .. got'[i].data_sz :
               wire[got'[i].from + k] = <<got'[i].msg, HdrSz + k>>
    BY <2>1, Zenon
  <2>3. wire' = wire /\ sent' = sent
    OBVIOUS
  <2> QED
    BY <2>2, <2>3 DEF Framed, command, data_sz
<1>9. InOrder'
  <2> SUFFICES ASSUME NEW i \in DOMAIN got', NEW j \in DOMAIN got', i < j
               PROVE  got'[i].msg < got'[j].msg
    BY DEF InOrder
  <2>1. i \in DOMAIN got
    BY <1>2, <1>6
  <2>2. CASE j \in DOMAIN got
    BY <1>5, <2>1, <2>2 DEF InOrder
  <2>3. CASE j = Len(got) + 1
    BY <1>5, <2>1, <2>3
  <2> QED
    BY <1>7, <2>2, <2>3
<1> QED
  BY <1>2, <1>5, <1>6, <1>8, <1>9 DEF G

\* k bytes of the header of a new message follow the messages on the wire.
LEMMA HeaderOnWire ==
  ASSUME TypeOK, WireOK,
         Len(wire) = IF sent = <<>> THEN 0 ELSE End(Len(sent)),
         NEW k \in 1 .. HdrSz, Sent(Len(sent) + 1, 1, k),
         NEW e \in [size : Sizes \cup {0}, at : Nat, head : Header,
                    whole : BOOLEAN],
         e.at = Len(wire), sent' = Append(sent, e)
  PROVE  /\ WireOK'
         /\ wire' \in Seq(Nat \X Nat) /\ Len(wire') = Len(wire) + k
         /\ sent' \in Seq([size : Sizes \cup {0}, at : Nat, head : Header,
                           whole : BOOLEAN])
         /\ Len(sent') = Len(sent) + 1 /\ DOMAIN sent' = 1 .. Len(sent) + 1
         /\ \A m \in DOMAIN sent : sent'[m] = sent[m]
         /\ sent'[Len(sent) + 1] = e /\ sent' # <<>>
         /\ \A i \in DOMAIN wire : wire'[i] = wire[i]
<1> DEFINE S == [size : Sizes \cup {0}, at : Nat, head : Header,
                 whole : BOOLEAN]
<1>0. PICK l : l = Len(sent) + 1
  OBVIOUS
<1>1. /\ Len(wire) \in Nat /\ DOMAIN wire = 1 .. Len(wire)
      /\ Len(sent) \in Nat /\ DOMAIN sent = 1 .. Len(sent)
      /\ HdrSz \in Nat \ {0} /\ (sent = <<>> <=> Len(sent) = 0)
      /\ k \in Nat \ {0} /\ k <= HdrSz
  BY TypeFacts
<1>2. /\ wire' \in Seq(Nat \X Nat) /\ Len(wire') = Len(wire) + k
      /\ DOMAIN wire' = 1 .. Len(wire) + k
      /\ \A i \in DOMAIN wire : wire'[i] = wire[i]
      /\ \A j \in 1 .. k : wire'[Len(wire) + j] = <<l, j>>
  <2>1. /\ wire' \in Seq(Nat \X Nat) /\ Len(wire') = Len(wire) + (k - 1 + 1)
        /\ DOMAIN wire' = 1 .. Len(wire')
        /\ \A i \in 1 .. Len(wire) : wire'[i] = wire[i]
        /\ \A j \in 1 .. k - 1 + 1 : wire'[Len(wire) + j] = <<l, 1 + j - 1>>
    <3>1. l \in Nat /\ 1 \in Nat /\ k \in Nat /\ 1 <= k /\ Sent(l, 1, k)
      BY <1>0, <1>1
    <3> QED
      BY <3>1, SentLemma
  <2>2. k - 1 + 1 = k /\ \A j \in 1 .. k : 1 + j - 1 = j
    BY <1>1
  <2> QED
    BY <1>1, <2>1, <2>2
<1>3. sent \in Seq(S) /\ e \in S
  BY DEF TypeOK
<1> HIDE DEF S
<1>4. /\ Append(sent, e) \in Seq(S) /\ Len(Append(sent, e)) = l
      /\ \A i \in 1 .. Len(sent) : Append(sent, e)[i] = sent[i]
      /\ Append(sent, e)[l] = e /\ Append(sent, e) # <<>>
  BY <1>0, <1>3, AppendProperties
<1>5. /\ sent' \in Seq(S) /\ Len(sent') = l /\ sent' # <<>>
      /\ \A m \in DOMAIN sent : sent'[m] = sent[m]
      /\ sent'[l] = e
  BY <1>1, <1>4
<1>6. DOMAIN sent' = 1 .. l
  BY <1>5, LenProperties
<1>7. l = Len(sent) + 1 /\ l \in Nat \ {0} /\ l \notin DOMAIN sent
  BY <1>0, <1>1
<1>8. \A m \in DOMAIN sent' : m \in DOMAIN sent \/ m = l
  BY <1>1, <1>6, <1>7
<1>9. ASSUME NEW m \in DOMAIN sent
      PROVE  /\ m \in DOMAIN sent' /\ m \in Nat /\ m < l
             /\ sent'[m].at = sent[m].at
             /\ Size(m)' = Size(m) /\ End(m)' = End(m)
             /\ Size(m) \in Nat \ {0} /\ End(m) = sent[m].at + Size(m)
             /\ sent[m].at \in Nat /\ End(m) <= Len(wire)
  <2>1. m \in DOMAIN sent' /\ m \in Nat /\ m < l /\ sent'[m] = sent[m]
    BY <1>1, <1>5, <1>6, <1>7
  <2>2. /\ sent[m].at \in Nat /\ Size(m) \in Nat \ {0} /\ End(m) \in Nat
        /\ End(m) = sent[m].at + Size(m)
    BY TypeFacts DEF End
  <2>3. Size(m)' = Size(m) /\ End(m)' = End(m)
    BY <2>1 DEF Size, End
  <2>4. End(m) <= Len(wire)
    <3>1. Len(wire) = End(Len(sent)) /\ Len(sent) \in DOMAIN sent
      BY <1>1
    <3>2. CASE m = Len(sent)
      BY <1>1, <2>2, <3>1, <3>2
    <3>3. CASE m < Len(sent)
      <4>1. End(m) <= sent[Len(sent)].at
        BY <3>1, <3>3 DEF WireOK
      <4>2. /\ sent[Len(sent)].at \in Nat /\ End(Len(sent)) \in Nat
            /\ sent[Len(sent)].at + HdrSz <= End(Len(sent))
        BY <3>1, TypeFacts, OrderLemma
      <4> QED
        BY <1>1, <2>2, <3>1, <4>1, <4>2
    <3> QED
      BY <1>1, <3>2, <3>3
  <2> QED
    BY <2>1, <2>2, <2>3, <2>4
<1>10. /\ sent'[l].at = Len(wire) /\ Size(l)' \in Nat \ {0}
       /\ Size(l)' >= HdrSz
  <2>1. sent'[l].at = Len(wire) /\ sent'[l].size \in Nat
    <3>1. e.size \in Nat
      BY SizesNat, Zenon
    <3> QED
      BY <1>5, <3>1
  <2>2. data_sz(sent'[l].size) \in 0 .. Width - 1 /\ Width \in Nat
    BY <2>1, SizeFacts, CommonsAssumption
  <2>3. Size(l)' = HdrSz + data_sz(sent'[l].size)
    BY DEF Size
  <2>4. PICK d : d = data_sz(sent'[l].size)
    OBVIOUS
  <2>5. d \in Nat /\ Size(l)' = HdrSz + d
    <3>1. d \in 0 .. Width - 1
      BY <2>2, <2>4, Zenon
    <3>2. Size(l)' = HdrSz + d
      BY <2>3, <2>4, Zenon
    <3> QED
      BY <3>1, <3>2
  <2>6. HdrSz \in Nat \ {0}
    BY CommonsAssumption
  <2>7. HdrSz + d \in Nat \ {0} /\ HdrSz + d >= HdrSz
    BY <2>5, <2>6
  <2> QED
    BY <2>1, <2>5, <2>7
<1>11. ASSUME NEW i \in DOMAIN wire', NEW m, NEW p,
              m = wire'[i][1], p = wire'[i][2]
       PROVE  m \in DOMAIN sent' /\ p \in 1 .. Size(m)' /\ i = sent'[m].at + p
  <2>1. CASE i \in DOMAIN wire
    <3>1. m \in DOMAIN sent /\ p \in 1 .. Size(m) /\ i = sent[m].at + p
      BY <1>2, <1>11, <2>1 DEF WireOK
    <3> QED
      BY <1>9, <3>1
  <2>2. CASE i \notin DOMAIN wire
    <3>1. /\ i - Len(wire) \in 1 .. k /\ i = Len(wire) + (i - Len(wire))
      <4>1. i \in 1 .. Len(wire) + k
        BY <1>2
      <4>2. i \notin 1 .. Len(wire)
        BY <1>1, <2>2
      <4>3. Len(wire) \in Nat /\ k \in Nat
        BY <1>1
      <4> QED
        BY <4>1, <4>2, <4>3
    <3>2. wire'[Len(wire) + (i - Len(wire))] = <<l, i - Len(wire)>>
      BY <1>2, <3>1
    <3>3. m = l /\ p = i - Len(wire)
      BY <1>11, <3>1, <3>2
    <3>4. l \in DOMAIN sent'
      BY <1>6, <1>7
    <3> QED
      BY <1>1, <1>10, <3>1, <3>3, <3>4
  <2> QED
    BY <2>1, <2>2
<1>12. ASSUME NEW m \in DOMAIN sent', NEW p \in 1 .. Size(m)',
              sent'[m].at + p <= Len(wire')
       PROVE  wire'[sent'[m].at + p] = <<m, p>>
  <2>1. CASE m \in DOMAIN sent
    <3>1. /\ p \in 1 .. Size(m) /\ sent'[m].at = sent[m].at
          /\ sent[m].at + p <= Len(wire) /\ sent[m].at + p \in DOMAIN wire
      BY <1>1, <1>9, <2>1
    <3>2. wire[sent[m].at + p] = <<m, p>>
      BY <2>1, <3>1 DEF WireOK
    <3> QED
      BY <1>2, <3>1, <3>2
  <2>2. CASE m = l
    <3>1. sent'[m].at = Len(wire) /\ p \in 1 .. k
      <4>1. sent'[m].at = Len(wire) /\ p \in 1 .. Size(l)'
        BY <1>10, <2>2
      <4>2. Len(wire) + p <= Len(wire) + k
        BY <1>2, <1>12, <4>1
      <4>3. Len(wire) \in Nat /\ k \in Nat /\ p \in Nat \ {0}
        BY <1>1, <1>10, <4>1
      <4>4. p \in 1 .. k
        BY ONLY <4>2, <4>3
      <4> QED
        BY <4>1, <4>4
    <3> QED
      BY <1>2, <2>2, <3>1
  <2> QED
    BY <1>8, <2>1, <2>2
<1>13. ASSUME NEW m \in DOMAIN sent', NEW n \in DOMAIN sent', m < n
       PROVE  End(m)' <= sent'[n].at
  <2>1. m \in DOMAIN sent
    BY <1>1, <1>6, <1>7, <1>13
  <2>2. CASE n \in DOMAIN sent
    BY <1>9, <1>13, <2>1, <2>2 DEF WireOK
  <2>3. CASE n = l
    BY <1>9, <1>10, <2>1, <2>3
  <2> QED
    BY <1>8, <2>2, <2>3
<1>14. ASSUME NEW m \in DOMAIN sent'
       PROVE  sent'[m].at = IF m = 1 THEN 0 ELSE End(m - 1)'
  <2>1. CASE m \in DOMAIN sent
    <3>1. sent[m].at = IF m = 1 THEN 0 ELSE End(m - 1)
      BY <2>1 DEF WireOK
    <3>2. m # 1 => m - 1 \in DOMAIN sent
      BY <1>1, <2>1
    <3> QED
      BY <1>9, <2>1, <3>1, <3>2
  <2>2. CASE m = l
    <3>1. m # 1 => m - 1 = Len(sent) /\ m - 1 \in DOMAIN sent
      BY <1>1, <1>7, <2>2
    <3>2. m = 1 <=> sent = <<>>
      BY <1>1, <1>7, <2>2
    <3> QED
      BY <1>9, <1>10, <2>2, <3>1, <3>2
  <2> QED
    BY <1>8, <2>1, <2>2
<1>15. ASSUME NEW m \in DOMAIN sent' PROVE sent'[m].at < Len(wire')
  <2>1. CASE m \in DOMAIN sent
    <3>1. sent[m].at < Len(wire)
      BY <2>1 DEF WireOK
    <3> QED
      <4>1. sent'[m].at = sent[m].at /\ sent[m].at \in Nat
        BY <1>9, <2>1
      <4>2. Len(wire') = Len(wire) + k /\ Len(wire) \in Nat /\ k \in Nat
        BY <1>1, <1>2
      <4> QED
        BY <3>1, <4>1, <4>2
  <2>2. CASE m = l
    BY <1>1, <1>2, <1>10, <2>2
  <2> QED
    BY <1>8, <2>1, <2>2
<1>16. WireOK'
  <2>1. ASSUME NEW i \in DOMAIN wire'
        PROVE  /\ wire'[i][1] \in DOMAIN sent'
               /\ wire'[i][2] \in 1 .. HdrSz + data_sz(sent'[wire'[i][1]].size)
               /\ i = sent'[wire'[i][1]].at + wire'[i][2]
    BY <1>11 DEF Size
  <2>2. \A i \in DOMAIN wire' :
          /\ wire'[i][1] \in DOMAIN sent'
          /\ wire'[i][2] \in 1 .. HdrSz + data_sz(sent'[wire'[i][1]].size)
          /\ i = sent'[wire'[i][1]].at + wire'[i][2]
    BY <2>1
  <2>3. /\ \A m \in DOMAIN sent' : \A p \in 1 .. Size(m)' :
             sent'[m].at + p <= Len(wire') => wire'[sent'[m].at + p] = <<m, p>>
        /\ \A m, n \in DOMAIN sent' : m < n => End(m)' <= sent'[n].at
        /\ \A m \in DOMAIN sent' :
             sent'[m].at = IF m = 1 THEN 0 ELSE End(m - 1)'
        /\ \A m \in DOMAIN sent' : sent'[m].at < Len(wire')
    BY <1>12, <1>13, <1>14, <1>15
  <2> QED
    BY <2>2, <2>3 DEF WireOK, Size, End
<1> QED
  BY <1>2, <1>5, <1>6, <1>7, <1>16 DEF S

\* k bytes of the data of the last message follow its header.
LEMMA DataOnWire ==
  ASSUME TypeOK, WireOK, NEW l, l = Len(sent), l \in DOMAIN sent,
         Len(wire) = sent[l].at + HdrSz,
         NEW k \in 1 .. data_sz(sent[l].size), Sent(l, HdrSz + 1, HdrSz + k),
         DOMAIN sent' = DOMAIN sent,
         \A m \in DOMAIN sent :
           sent'[m].size = sent[m].size /\ sent'[m].at = sent[m].at
  PROVE  /\ WireOK'
         /\ wire' \in Seq(Nat \X Nat) /\ Len(wire') = Len(wire) + k
         /\ \A i \in DOMAIN wire : wire'[i] = wire[i]
<1>1. /\ Len(wire) \in Nat /\ DOMAIN wire = 1 .. Len(wire)
      /\ Len(sent) \in Nat /\ DOMAIN sent = 1 .. Len(sent)
      /\ HdrSz \in Nat \ {0} /\ l \in Nat
  BY TypeFacts
<1>2. PICK d : d = data_sz(sent[l].size)
  OBVIOUS
<1>3. /\ d \in Nat /\ k \in Nat \ {0} /\ k <= d
      /\ sent[l].at \in Nat /\ Size(l) = HdrSz + d
      /\ End(l) = sent[l].at + HdrSz + d
  <2>1. d \in 0 .. Width - 1 /\ sent[l].at \in Nat
    BY <1>2, TypeFacts, Zenon
  <2>2. Size(l) = HdrSz + d
    BY <1>2, Zenon DEF Size
  <2>3. End(l) = sent[l].at + (HdrSz + d)
    BY <2>2, Zenon DEF End
  <2>4. d \in Nat /\ k \in 1 .. d
    BY <1>2, <2>1
  <2> QED
    BY <1>1, <2>1, <2>2, <2>3, <2>4
<1>4. /\ wire' \in Seq(Nat \X Nat) /\ Len(wire') = Len(wire) + k
      /\ DOMAIN wire' = 1 .. Len(wire) + k
      /\ \A i \in DOMAIN wire : wire'[i] = wire[i]
      /\ \A j \in 1 .. k : wire'[Len(wire) + j] = <<l, HdrSz + j>>
  <2>0. PICK a, b : a = HdrSz + 1 /\ b = HdrSz + k
    OBVIOUS
  <2>1. /\ a \in Nat /\ b \in Nat /\ a <= b /\ b - a + 1 = k
        /\ \A j \in 1 .. k : a + j - 1 = HdrSz + j
    <3>1. HdrSz \in Nat /\ k \in Nat \ {0}
      BY <1>1, <1>3
    <3>2. /\ HdrSz + 1 \in Nat /\ HdrSz + k \in Nat /\ HdrSz + 1 <= HdrSz + k
          /\ HdrSz + k - (HdrSz + 1) + 1 = k
      BY ONLY <3>1
    <3>3. \A j \in 1 .. k : HdrSz + 1 + j - 1 = HdrSz + j
      BY ONLY <3>1
    <3> QED
      BY <2>0, <3>2, <3>3
  <2>2. Sent(l, a, b)
    BY <2>0, Zenon
  <2>3. /\ wire' \in Seq(Nat \X Nat) /\ Len(wire') = Len(wire) + (b - a + 1)
        /\ DOMAIN wire' = 1 .. Len(wire')
        /\ \A i \in 1 .. Len(wire) : wire'[i] = wire[i]
        /\ \A j \in 1 .. b - a + 1 : wire'[Len(wire) + j] = <<l, a + j - 1>>
    <3>1. l \in Nat /\ a \in Nat /\ b \in Nat /\ a <= b
      BY <1>1, <2>1
    <3> QED
      BY ONLY TypeOK, <2>2, <3>1, SentLemma
  <2>4. \A j \in 1 .. k : wire'[Len(wire) + j] = <<l, HdrSz + j>>
    BY <2>1, <2>3
  <2> QED
    BY <1>1, <2>1, <2>3, <2>4
<1>5. ASSUME NEW m \in DOMAIN sent
      PROVE  /\ sent'[m].at = sent[m].at /\ sent[m].at \in Nat
             /\ Size(m)' = Size(m) /\ End(m)' = End(m)
             /\ Size(m) \in Nat \ {0}
             /\ End(m) \in Nat /\ End(m) = sent[m].at + Size(m)
  <2>1. sent'[m].size = sent[m].size /\ sent'[m].at = sent[m].at
    OBVIOUS
  <2>2. Size(m)' = Size(m) /\ End(m)' = End(m)
    BY <2>1 DEF Size, End
  <2> QED
    BY <2>1, <2>2, TypeFacts DEF End
<1>6. ASSUME NEW i \in DOMAIN wire', NEW m, NEW p,
             m = wire'[i][1], p = wire'[i][2]
      PROVE  m \in DOMAIN sent' /\ p \in 1 .. Size(m)' /\ i = sent'[m].at + p
  <2>1. CASE i \in DOMAIN wire
    <3>1. m \in DOMAIN sent /\ p \in 1 .. Size(m) /\ i = sent[m].at + p
      BY <1>4, <1>6, <2>1 DEF WireOK
    <3> QED
      BY <1>5, <3>1
  <2>2. CASE i \notin DOMAIN wire
    <3>1. i - Len(wire) \in 1 .. k /\ i = Len(wire) + (i - Len(wire))
      <4>1. i \in 1 .. Len(wire) + k
        BY <1>4
      <4>2. i \notin 1 .. Len(wire)
        BY <1>1, <2>2
      <4>3. Len(wire) \in Nat /\ k \in Nat
        BY <1>1, <1>3
      <4> QED
        BY <4>1, <4>2, <4>3
    <3>2. wire'[Len(wire) + (i - Len(wire))] = <<l, HdrSz + (i - Len(wire))>>
      BY <1>4, <3>1
    <3>3. m = l /\ p = HdrSz + (i - Len(wire))
      BY <1>6, <3>1, <3>2
    <3>4. p \in 1 .. HdrSz + d /\ i = sent[l].at + p
      <4>1. /\ HdrSz \in Nat /\ k \in Nat /\ d \in Nat /\ k <= d
            /\ sent[l].at \in Nat /\ Len(wire) = sent[l].at + HdrSz
        BY <1>1, <1>3
      <4>2. PICK j : j = i - Len(wire)
        OBVIOUS
      <4>3. j \in 1 .. k /\ i = Len(wire) + j /\ p = HdrSz + j
        BY <3>1, <3>3, <4>2
      <4> QED
        BY ONLY <4>1, <4>3
    <3> QED
      BY <1>3, <1>5, <3>3, <3>4
  <2> QED
    BY <2>1, <2>2
<1>7. ASSUME NEW m \in DOMAIN sent, NEW p \in 1 .. Size(m),
             sent[m].at + p <= Len(wire')
      PROVE  wire'[sent[m].at + p] = <<m, p>>
  <2>1. /\ m \in Nat /\ p \in Nat \ {0} /\ p <= Size(m) /\ sent[m].at \in Nat
        /\ End(m) = sent[m].at + Size(m) /\ Size(m) \in Nat
    BY <1>1, <1>5
  <2>2. CASE sent[m].at + p <= Len(wire)
    <3>1. sent[m].at + p \in DOMAIN wire
      BY <1>1, <2>1, <2>2
    <3> QED
      BY <1>4, <2>2, <3>1 DEF WireOK
  <2>3. CASE ~ (sent[m].at + p <= Len(wire))
    <3>1. m = l
      <4>1. CASE m < l
        <5>1. End(m) <= sent[l].at
          BY <4>1 DEF WireOK
        <5>2. sent[m].at + p <= End(m)
          BY ONLY <2>1
        <5>3. /\ sent[m].at \in Nat /\ p \in Nat /\ End(m) \in Nat
              /\ sent[l].at \in Nat /\ HdrSz \in Nat
              /\ Len(wire) = sent[l].at + HdrSz
          BY <1>1, <1>3, <1>5, <2>1
        <5> QED
          BY ONLY <2>3, <5>1, <5>2, <5>3
      <4> QED
        BY <1>1, <2>1, <4>1
    <3>2. p - HdrSz \in 1 .. k /\ sent[m].at + p = Len(wire) + (p - HdrSz)
      <4>1. /\ HdrSz \in Nat /\ k \in Nat /\ p \in Nat /\ sent[m].at \in Nat
            /\ Len(wire) = sent[m].at + HdrSz
        BY <1>1, <1>3, <2>1, <3>1
      <4>2. sent[m].at + p <= sent[m].at + HdrSz + k
        BY <1>4, <1>7, <4>1
      <4>3. ~ (sent[m].at + p <= sent[m].at + HdrSz)
        BY <2>3, <4>1
      <4>4. /\ p - HdrSz \in 1 .. k
            /\ sent[m].at + p = sent[m].at + HdrSz + (p - HdrSz)
        BY ONLY <4>1, <4>2, <4>3
      <4> QED
        BY <4>1, <4>4
    <3>3. wire'[Len(wire) + (p - HdrSz)] = <<l, HdrSz + (p - HdrSz)>>
      BY <1>4, <3>2
    <3>4. HdrSz + (p - HdrSz) = p
      BY <1>1, <2>1
    <3> QED
      BY <3>1, <3>2, <3>3, <3>4
  <2> QED
    BY <2>2, <2>3
<1>8. ASSUME NEW m \in DOMAIN sent'
      PROVE  /\ sent'[m].at = IF m = 1 THEN 0 ELSE End(m - 1)'
             /\ sent'[m].at < Len(wire')
  <2>1. /\ sent[m].at = IF m = 1 THEN 0 ELSE End(m - 1)
        /\ sent[m].at < Len(wire) /\ sent'[m].at = sent[m].at
        /\ sent[m].at \in Nat
    BY <1>5 DEF WireOK
  <2>2. m # 1 => m - 1 \in DOMAIN sent
    BY <1>1
  <2>3. Len(wire') = Len(wire) + k /\ Len(wire) \in Nat /\ k \in Nat
    BY <1>1, <1>3, <1>4
  <2>4. sent'[m].at < Len(wire')
    BY <2>1, <2>3
  <2> QED
    BY <1>5, <2>1, <2>2, <2>4
<1>9. WireOK'
  <2>1. ASSUME NEW i \in DOMAIN wire'
        PROVE  /\ wire'[i][1] \in DOMAIN sent'
               /\ wire'[i][2] \in 1 .. HdrSz + data_sz(sent'[wire'[i][1]].size)
               /\ i = sent'[wire'[i][1]].at + wire'[i][2]
    BY <1>6 DEF Size
  <2>2. \A i \in DOMAIN wire' :
          /\ wire'[i][1] \in DOMAIN sent'
          /\ wire'[i][2] \in 1 .. HdrSz + data_sz(sent'[wire'[i][1]].size)
          /\ i = sent'[wire'[i][1]].at + wire'[i][2]
    BY <2>1
  <2>3. \A m \in DOMAIN sent' : \A p \in 1 .. Size(m)' :
          sent'[m].at + p <= Len(wire') => wire'[sent'[m].at + p] = <<m, p>>
    <3>1. ASSUME NEW m \in DOMAIN sent', NEW p \in 1 .. Size(m)',
                 sent'[m].at + p <= Len(wire')
          PROVE  wire'[sent'[m].at + p] = <<m, p>>
      <4>1. m \in DOMAIN sent /\ sent'[m].at = sent[m].at /\ Size(m)' = Size(m)
        BY <1>5
      <4>2. p \in 1 .. Size(m) /\ sent[m].at + p <= Len(wire')
        BY <3>1, <4>1, Zenon
      <4>3. wire'[sent[m].at + p] = <<m, p>>
        BY <1>7, <4>1, <4>2, Zenon
      <4> QED
        BY <4>1, <4>3, Zenon
    <3> QED
      BY <3>1
  <2>4. \A m, n \in DOMAIN sent' : m < n => End(m)' <= sent'[n].at
    <3>1. \A m, n \in DOMAIN sent : m < n => End(m) <= sent[n].at
      BY DEF WireOK
    <3> QED
      BY <1>5, <3>1
  <2> QED
    BY <1>8, <2>2, <2>3, <2>4 DEF WireOK, Size, End
<1> QED
  BY <1>4, <1>9

-----------------------------------------------------------------------------
(* Types.                                                                  *)

\* Marking the last message leaves the list a list of messages.
LEMMA MarkLemma ==
  ASSUME TypeOK, sent' = [sent EXCEPT ![Len(sent)].whole = TRUE]
  PROVE  /\ sent' \in Seq([size : Sizes \cup {0}, at : Nat, head : Header,
                           whole : BOOLEAN])
         /\ Len(sent') = Len(sent) /\ DOMAIN sent' = DOMAIN sent
         /\ \A m \in DOMAIN sent :
              /\ sent'[m].size = sent[m].size /\ sent'[m].at = sent[m].at
              /\ sent'[m].head = sent[m].head
<1> DEFINE S == [size : Sizes \cup {0}, at : Nat, head : Header,
                 whole : BOOLEAN]
<1>1. /\ sent \in Seq(S) /\ Len(sent) \in Nat /\ DOMAIN sent = 1 .. Len(sent)
      /\ \A m \in DOMAIN sent : sent[m] \in S
  BY TypeFacts DEF TypeOK
<1>2. DOMAIN sent' = DOMAIN sent
  OBVIOUS
<1>3. ASSUME NEW m \in DOMAIN sent
      PROVE  /\ sent'[m] \in S /\ sent'[m].size = sent[m].size
             /\ sent'[m].at = sent[m].at /\ sent'[m].head = sent[m].head
  <2>1. sent[m] \in S
    BY <1>1
  <2>2. CASE m = Len(sent)
    <3>1. sent'[m] = [sent[m] EXCEPT !.whole = TRUE]
      BY <2>2
    <3> QED
      BY <2>1, <3>1
  <2>3. CASE m # Len(sent)
    <3>1. sent'[m] = sent[m]
      BY <2>3
    <3> QED
      BY <2>1, <3>1
  <2> QED
    BY <2>2, <2>3
<1>4. sent' = [m \in 1 .. Len(sent) |-> sent'[m]]
  BY <1>1
<1> HIDE DEF S
<1>5. sent' \in [1 .. Len(sent) -> S]
  BY <1>1, <1>3, <1>4
<1>6. sent' \in Seq(S)
  BY <1>1, <1>5, SeqDef
<1>7. Len(sent') = Len(sent)
  BY <1>1, <1>2, <1>6, LenProperties
<1> QED
  BY <1>2, <1>3, <1>6, <1>7 DEF S

\* The checksum of a header is a checksum.
LEMMA ChecksumType ==
  ASSUME NEW h \in Header
  PROVE  [h EXCEPT !.crc16_checksum = crc16(h.command, h.msg_num_bytes, @)]
           \in Header
BY DEF Header, crc16

\* Filling the header.
LEMMA FillTypes ==
  ASSUME TypeOK, NEW t \in Senders,
         Begin(t) \/ FillCommand(t) \/ ClearChecksum(t) \/ FillChecksum(t)
  PROVE  TypeOK'
<1> USE DEF sendVars, recvVars
<1>1. CASE Begin(t)
  <2>1. PICK n \in Sizes : call' = [call EXCEPT ![t] = n] /\
                           header' = [header EXCEPT !.msg_num_bytes = data_sz(n)]
    BY <1>1 DEF Begin
  <2>2. n \in Nat
    BY SizesNat, Zenon
  <2>3. data_sz(n) \in 0 .. Width - 1
    BY <2>2, SizeFacts
  <2>4. header' \in Header
    BY <2>1, <2>3 DEF TypeOK, Header
  <2>5. call' \in [Senders -> Sizes \cup {0}]
    BY <2>1 DEF TypeOK
  <2> QED
    BY <1>1, <2>4, <2>5 DEF Begin, TypeOK, Goto
<1>2. CASE FillCommand(t)
  <2>1. header' \in Header
    BY <1>2 DEF FillCommand, TypeOK, Header, command, Commands
  <2> QED
    BY <1>2, <2>1 DEF FillCommand, TypeOK, Goto
<1>3. CASE ClearChecksum(t)
  <2>1. header' \in Header
    BY <1>3 DEF ClearChecksum, Cleared, TypeOK, Header
  <2> QED
    BY <1>3, <2>1 DEF ClearChecksum, TypeOK, Goto
<1>4. CASE FillChecksum(t)
  <2>1. header' \in Header
    BY <1>4, ChecksumType DEF FillChecksum, TypeOK
  <2> QED
    BY <1>4, <2>1 DEF FillChecksum, TypeOK, Goto
<1> QED
  BY <1>1, <1>2, <1>3, <1>4

\* The receiver's cursor stays on the wire when the wire grows.
LEMMA CursorType ==
  ASSUME TypeOK, wire' \in Seq(Nat \X Nat), Len(wire) <= Len(wire'), rd' = rd
  PROVE  rd' \in 0 .. Len(wire')
<1>1. Len(wire) \in Nat /\ Len(wire') \in Nat /\ rd \in 0 .. Len(wire)
  BY TypeFacts, LenProperties
<1> QED
  BY <1>1

\* Sending.
LEMMA SendTypes ==
  ASSUME TypeOK, NEW t \in Senders, SendHeader(t) \/ SendData(t)
  PROVE  TypeOK'
<1> USE DEF sendVars, recvVars
<1>1. /\ Len(wire) \in Nat /\ Len(sent) \in Nat /\ HdrSz \in Nat \ {0}
      /\ call[t] \in Nat
  BY TypeFacts
<1>2. data_sz(call[t]) \in Nat
  <2>1. data_sz(call[t]) \in 0 .. Width - 1
    BY <1>1, SizeFacts
  <2> QED
    BY <2>1
<1>3. /\ mutex_sendData' \in Senders \cup {Nobody}
      /\ result' \in [Senders -> {"FLAG_DISCONNECT", "RETURN_FAILED", "data_sz"}]
      /\ pc' \in [Senders -> {"idle", "command", "clear", "checksum", "lock",
                              "header", "data", "return"}]
      /\ link' \in {"up", "closed", "broken"}
      /\ UNCHANGED <<header, call, rd, rpc, temp_msg, got, split>>
  <2>1. CASE SendHeader(t)
    BY <2>1 DEF SendHeader, TypeOK, Goto, Return, Verdict
  <2>2. CASE SendData(t)
    BY <2>2 DEF SendData, TypeOK, Goto, Return, Verdict
  <2> QED
    BY <2>1, <2>2
<1>4. /\ wire' \in Seq(Nat \X Nat) /\ Len(wire) <= Len(wire')
  <2>1. ASSUME NEW m \in Nat, NEW a \in Nat, NEW b \in Nat, a <= b,
               Sent(m, a, b)
        PROVE  wire' \in Seq(Nat \X Nat) /\ Len(wire) <= Len(wire')
    <3>1. wire' \in Seq(Nat \X Nat) /\ Len(wire') = Len(wire) + (b - a + 1)
      BY <2>1, SentLemma
    <3> QED
      BY <1>1, <2>1, <3>1
  <2>2. CASE UNCHANGED wire
    BY <1>1, <2>2 DEF TypeOK
  <2>3. CASE \E k \in 1 .. HdrSz : Sent(Len(sent) + 1, 1, k)
    BY <1>1, <2>1, <2>3
  <2>4. CASE \E k \in 1 .. data_sz(call[t]) :
               Sent(Len(sent), HdrSz + 1, HdrSz + k)
    <3>1. PICK k \in 1 .. data_sz(call[t]) :
            Sent(Len(sent), HdrSz + 1, HdrSz + k)
      BY <2>4
    <3>2. k \in Nat /\ 1 <= k
      BY <1>2
    <3>3. HdrSz + 1 \in Nat /\ HdrSz + k \in Nat /\ HdrSz + 1 <= HdrSz + k
      BY <1>1, <3>2
    <3> QED
      BY <1>1, <2>1, <3>1, <3>3
  <2>5. CASE Sent(Len(sent), HdrSz + 1, HdrSz + data_sz(call[t]))
             /\ data_sz(call[t]) = 0
    <3>1. Bytes(Len(sent), HdrSz + 1, HdrSz + data_sz(call[t])) = <<>>
      <4>1. (HdrSz + data_sz(call[t])) - (HdrSz + 1) + 1 = 0
        BY <1>1, <2>5
      <4> DEFINE e == Bytes(Len(sent), HdrSz + 1, HdrSz + data_sz(call[t]))
      <4>2. DOMAIN e = 1 .. 0
        <5>1. DOMAIN e = 1 .. (HdrSz + data_sz(call[t])) - (HdrSz + 1) + 1
          BY Zenon DEF Bytes
        <5> QED
          BY <4>1, <5>1, Zenon
      <4>3. e = [k \in 1 .. 0 |-> e[k]]
        BY <4>2 DEF Bytes
      <4> HIDE DEF e
      <4>4. e \in [1 .. 0 -> Nat \X Nat]
        BY <4>2, <4>3
      <4>5. e \in Seq(Nat \X Nat)
        BY <4>4, SeqDef
      <4>6. Len(e) = 0
        BY <4>2, <4>5, LenProperties
      <4>7. e = <<>>
        BY <4>5, <4>6, EmptySeq
      <4> QED
        BY <4>7 DEF e
    <3>2. wire' = wire
      BY <2>5, <3>1, ConcatEmptySeq DEF Sent, TypeOK
    <3> QED
      BY <2>2, <3>2
  <2>6. SendHeader(t) =>
          (UNCHANGED wire \/ \E k \in 1 .. HdrSz : Sent(Len(sent) + 1, 1, k))
    BY <1>1 DEF SendHeader
  <2>7. SendData(t) =>
          \/ UNCHANGED wire
          \/ \E k \in 1 .. data_sz(call[t]) :
               Sent(Len(sent), HdrSz + 1, HdrSz + k)
          \/ /\ Sent(Len(sent), HdrSz + 1, HdrSz + data_sz(call[t]))
             /\ data_sz(call[t]) = 0
    BY <1>2 DEF SendData
  <2> QED
    BY <2>2, <2>3, <2>4, <2>5, <2>6, <2>7
<1> DEFINE S == [size : Sizes \cup {0}, at : Nat, head : Header,
                 whole : BOOLEAN]
<1>5. sent' \in Seq(S)
  <2>1. CASE UNCHANGED sent
    BY <2>1 DEF TypeOK
  <2>2. CASE \E e \in S : sent' = Append(sent, e)
    <3>1. sent \in Seq(S)
      BY DEF TypeOK
    <3> HIDE DEF S
    <3> QED
      BY <2>2, <3>1, AppendProperties
  <2>3. CASE sent' = [sent EXCEPT ![Len(sent)].whole = TRUE]
    BY <2>3, MarkLemma
  <2>4. ASSUME SendHeader(t)
        PROVE  UNCHANGED sent \/ \E e \in S : sent' = Append(sent, e)
    <3> DEFINE e == [size |-> call[t], at |-> Len(wire), head |-> header,
                     whole |-> data_sz(call[t]) = 0]
               f == [e EXCEPT !.whole = FALSE]
    <3>1. call[t] \in Sizes \cup {0} /\ header \in Header
      BY DEF TypeOK
    <3>2. e \in S /\ f \in S
      BY <1>1, <3>1
    <3>3. UNCHANGED sent \/ sent' = Append(sent, e) \/ sent' = Append(sent, f)
      BY <2>4 DEF SendHeader
    <3> HIDE DEF e, f, S
    <3> QED
      BY <3>2, <3>3
  <2>5. SendData(t) => UNCHANGED sent
                       \/ sent' = [sent EXCEPT ![Len(sent)].whole = TRUE]
    BY DEF SendData
  <2> QED
    BY <2>1, <2>2, <2>3, <2>4, <2>5
<1>6. rd' \in 0 .. Len(wire')
  BY <1>3, <1>4, CursorType
<1> QED
  BY <1>3, <1>4, <1>5, <1>6 DEF TypeOK

\* Receiving.
LEMMA ReceiveTypes ==
  ASSUME TypeOK, Receive
  PROVE  TypeOK'
<1> USE DEF sendVars, recvVars
<1> DEFINE G == [msg : Nat, command : Commands, data_sz : 0 .. Width - 1,
                 from : Int]
           T == [msg : Nat, command : Commands, data_sz : 0 .. Width - 1,
                 left : 0 .. Width - 1]
<1>1. /\ Len(wire) \in Nat /\ rd \in 0 .. Len(wire) /\ HdrSz \in Nat \ {0}
      /\ Width \in Nat \ {0} /\ Len(sent) \in Nat
      /\ DOMAIN sent = 1 .. Len(sent) /\ Left \in Nat
      /\ rd + Left = Len(wire) /\ rd \in Nat
  BY TypeFacts DEF Left
<1>2. got \in Seq(G) /\ temp_msg \in T
  BY DEF TypeOK
<1>3. ASSUME NEW g \in G PROVE Append(got, g) \in Seq(G)
  <2> HIDE DEF G
  <2> QED
    BY <1>2, AppendProperties
<1>4. ASSUME NEW n \in Nat, NEW k \in Reads(n)
      PROVE  k \in Nat \ {0} /\ k <= n /\ rd + k \in 0 .. Len(wire)
  <2>1. k \in 1 .. n /\ k \in 1 .. Left
    BY <1>1 DEF Reads
  <2> QED
    BY <1>1, <2>1
<1>5. CASE TakeHeader
  <2>1. PICK m \in 1 .. Len(sent) :
          LET h == sent[m].head
              msg == [msg |-> m, command |-> h.command,
                      data_sz |-> h.msg_num_bytes, left |-> h.msg_num_bytes]
          IN  /\ temp_msg' = msg
              /\ IF h.msg_num_bytes = 0
                 THEN got' = Delivered(msg, rd + HdrSz) /\ UNCHANGED rpc
                 ELSE rpc' = "data" /\ UNCHANGED got
    BY <1>5 DEF TakeHeader
  <2>2. sent[m].head \in Header /\ m \in Nat
    <3>1. sent[m] \in [size : Sizes \cup {0}, at : Nat, head : Header,
                       whole : BOOLEAN]
      BY <1>1, TypeFacts
    <3> QED
      BY <3>1
  <2>3. PICK c, n : c = sent[m].head.command /\ n = sent[m].head.msg_num_bytes
    OBVIOUS
  <2>4. c \in Commands /\ n \in 0 .. Width - 1
    BY <2>2, <2>3 DEF Header
  <2>5. temp_msg' = [msg |-> m, command |-> c, data_sz |-> n, left |-> n]
    BY <2>1, <2>3
  <2>6. temp_msg' \in T
    BY <2>2, <2>4, <2>5
  <2>7. rd' \in 0 .. Len(wire)
    BY <1>1, <1>5 DEF TakeHeader
  <2>8. UNCHANGED got \/
        got' = Append(got, [msg |-> m, command |-> c, data_sz |-> n,
                            from |-> rd + HdrSz])
    BY <2>1, <2>3 DEF Delivered
  <2>9. [msg |-> m, command |-> c, data_sz |-> n, from |-> rd + HdrSz] \in G
    BY <1>1, <2>2, <2>4
  <2>10. got' \in Seq(G)
    BY <1>2, <1>3, <2>8, <2>9
  <2>11. rpc' \in {"header", "data", "disconnect"}
    BY <2>1 DEF TypeOK
  <2>12. UNCHANGED <<sendVars, link, wire, sent, split>>
    BY <1>5 DEF TakeHeader
  <2> QED
    BY <2>6, <2>7, <2>10, <2>11, <2>12 DEF TypeOK
<1>6. CASE DropHeader
  <2>1. PICK k \in Reads(HdrSz) : rd' = rd + k /\ split' = (split \/ k < HdrSz)
    BY <1>6 DEF DropHeader
  <2>2. rd' \in 0 .. Len(wire)
    BY <1>1, <1>4, <2>1
  <2>3. split' \in BOOLEAN
    BY <2>1 DEF TypeOK
  <2>4. UNCHANGED <<sendVars, link, wire, sent, rpc, temp_msg, got>>
    BY <1>6 DEF DropHeader
  <2> QED
    BY <2>2, <2>3, <2>4 DEF TypeOK
<1>7. CASE ReadData
  <2>1. PICK k \in BytesLeft :
          LET msg == [temp_msg EXCEPT !.left = @ - k]
          IN  /\ rd' = rd + k
              /\ temp_msg' = msg
              /\ IF msg.left = 0
                 THEN /\ rpc' = "header"
                      /\ got' = Delivered(msg, rd + k - msg.data_sz)
                 ELSE UNCHANGED <<rpc, got>>
    BY <1>7 DEF ReadData
  <2>2. /\ temp_msg.left \in Nat /\ temp_msg.left \in 0 .. Width - 1
        /\ temp_msg.data_sz \in 0 .. Width - 1
        /\ temp_msg.msg \in Nat /\ temp_msg.command \in Commands
    BY <1>1, <1>2
  <2>3. k \in Nat \ {0} /\ k <= temp_msg.left /\ rd + k \in 0 .. Len(wire)
    BY <1>4, <2>2 DEF BytesLeft
  <2>4. temp_msg.left - k \in 0 .. Width - 1
    BY <1>1, <2>2, <2>3
  <2>5. temp_msg' = [temp_msg EXCEPT !.left = temp_msg.left - k]
    BY <2>1
  <2>6. temp_msg' \in T
    BY <1>2, <2>4, <2>5
  <2>7. rpc' \in {"header", "data", "disconnect"}
    BY <2>1 DEF TypeOK
  <2>8. UNCHANGED <<sendVars, link, wire, sent, split>>
    BY <1>7 DEF ReadData
  <2>9. got' \in Seq(G)
    <3>1. CASE UNCHANGED got
      BY <1>2, <3>1
    <3>2. CASE got' # got
      <4>1. got' = Append(got, [msg |-> temp_msg.msg,
                                command |-> temp_msg.command,
                                data_sz |-> temp_msg.data_sz,
                                from |-> rd + k - temp_msg.data_sz])
        BY <1>2, <2>1, <3>2 DEF Delivered
      <4>2. rd + k - temp_msg.data_sz \in Int
        BY <1>1, <2>2, <2>3
      <4>3. [msg |-> temp_msg.msg, command |-> temp_msg.command,
             data_sz |-> temp_msg.data_sz,
             from |-> rd + k - temp_msg.data_sz] \in G
        BY <2>2, <4>2
      <4> QED
        BY <1>3, <4>1, <4>3
    <3> QED
      BY <3>1, <3>2
  <2> QED
    BY <2>1, <2>3, <2>6, <2>7, <2>8, <2>9 DEF TypeOK
<1>8. CASE ReadEnd
  BY <1>8 DEF ReadEnd, TypeOK
<1> QED
  BY <1>5, <1>6, <1>7, <1>8 DEF Receive

\* The other steps, and all of them together.
LEMMA TypeStep ==
  ASSUME TypeOK, [Next]_vars
  PROVE  TypeOK'
<1> USE DEF sendVars, recvVars
<1>1. ASSUME NEW t \in Senders, Lock(t) \/ Close(t)
      PROVE  TypeOK'
  BY <1>1 DEF Lock, Close, TypeOK, Goto
<1>2. CASE Break
  BY <1>2 DEF Break, TypeOK
<1>3. CASE UNCHANGED vars
  BY <1>3 DEF vars, TypeOK
<1> QED
  BY <1>1, <1>2, <1>3, FillTypes, SendTypes, ReceiveTypes DEF Next, SenderStep

\* Types hold at first.
LEMMA InitType ==
  ASSUME Init
  PROVE  TypeOK
<1>1. /\ wire \in Seq(Nat \X Nat)
      /\ sent \in Seq([size : Sizes \cup {0}, at : Nat, head : Header,
                       whole : BOOLEAN])
      /\ got \in Seq([msg : Nat, command : Commands, data_sz : 0 .. Width - 1,
                      from : Int])
      /\ Len(wire) = 0
  BY EmptySeq DEF Init
<1>2. 0 \in 0 .. Width - 1
  BY CommonsAssumption
<1>3. header \in Header
  BY <1>2 DEF Init, Header, Commands
<1>4. temp_msg \in [msg : Nat, command : Commands, data_sz : 0 .. Width - 1,
                    left : 0 .. Width - 1]
  BY <1>2 DEF Init, Commands
<1>5. rd \in 0 .. Len(wire)
  BY <1>1 DEF Init
<1>6. /\ mutex_sendData \in Senders \cup {Nobody}
      /\ pc \in [Senders -> {"idle", "command", "clear", "checksum", "lock",
                             "header", "data", "return"}]
      /\ call \in [Senders -> Sizes \cup {0}]
      /\ result \in [Senders ->
           {"FLAG_DISCONNECT", "RETURN_FAILED", "data_sz"}]
      /\ link \in {"up", "closed", "broken"}
      /\ rpc \in {"header", "data", "disconnect"} /\ split \in BOOLEAN
  BY DEF Init
<1> QED
  BY <1>1, <1>3, <1>4, <1>5, <1>6 DEF TypeOK

\* Sizes, positions and states stay in their ranges, with any number of
\* sending threads.
THEOREM CommonsTypes == Spec => []TypeOK
<1>1. Init => TypeOK
  BY InitType
<1>2. TypeOK /\ [Next]_vars => TypeOK'
  BY TypeStep
<1> QED
  BY <1>1, <1>2, PTL DEF Spec

-----------------------------------------------------------------------------
(* One sender: every step preserves the invariant.                         *)

\* The invariant holds at first.
LEMMA InitLemma ==
  ASSUME NEW s \in Senders, Init
  PROVE  WireOK /\ LastOK(s) /\ HeadOK(s) /\ RecvOK /\ GotOK /\ StepOK
<1>1. /\ DOMAIN wire = {} /\ DOMAIN sent = {} /\ DOMAIN got = {}
      /\ Len(wire) = 0 /\ Len(got) = 0 /\ Len(sent) = 0
      /\ sent = <<>> /\ got = <<>>
  BY DEF Init
<1>2. WireOK
  BY <1>1 DEF WireOK
<1>3. LastOK(s) /\ HeadOK(s)
  BY <1>1 DEF Init, LastOK, HeadOK
<1>4. RecvOK /\ GotOK /\ StepOK
  BY <1>1 DEF Init, RecvOK, GotOK, Framed, InOrder, StepOK
<1> QED
  BY <1>2, <1>3, <1>4

\* Nothing on the wire changes, nor what has been received.
LEMMA QuietLemma ==
  ASSUME WireOK, RecvOK, GotOK, StepOK, UNCHANGED <<wire, sent, recvVars>>
  PROVE  WireOK' /\ RecvOK' /\ GotOK' /\ StepOK'
BY DEF WireOK, RecvOK, GotOK, StepOK, Framed, InOrder, Size, End, recvVars

\* Filling the header, taking the mutex, and closing.
LEMMA LocalLemma ==
  ASSUME NEW s \in Senders, CInv(s),
         \/ Begin(s) \/ FillCommand(s) \/ ClearChecksum(s) \/ FillChecksum(s)
         \/ Lock(s) \/ Close(s) \/ Break
  PROVE  WireOK' /\ LastOK(s)' /\ HeadOK(s)' /\ RecvOK' /\ GotOK' /\ StepOK'
<1> USE DEF CInv
<1>1. WireOK' /\ RecvOK' /\ GotOK' /\ StepOK'
  <2>1. UNCHANGED <<wire, sent, recvVars>>
    BY DEF Begin, FillCommand, ClearChecksum, FillChecksum, Lock, Close, Break
  <2> QED
    BY <2>1, QuietLemma
<1>2. CASE Begin(s)
  <2>1. /\ pc[s] = "idle" /\ pc'[s] = "command" /\ UNCHANGED <<link, wire, sent>>
    BY <1>2 DEF Begin, Goto, TypeOK
  <2>2. LastOK(s)'
    BY <2>1 DEF LastOK, End, Size
  <2>3. header'.msg_num_bytes = data_sz(call'[s])
    BY <1>2 DEF Begin, TypeOK, Header
  <2> QED
    BY <1>1, <2>1, <2>2, <2>3 DEF HeadOK
<1>3. CASE FillCommand(s)
  <2>1. /\ pc[s] = "command" /\ pc'[s] = "clear"
        /\ UNCHANGED <<link, wire, sent, call>>
    BY <1>3 DEF FillCommand, Goto, TypeOK
  <2>2. LastOK(s)'
    BY <2>1 DEF LastOK, End, Size
  <2>3. /\ header'.command = command(call[s])
        /\ header'.msg_num_bytes = header.msg_num_bytes
    BY <1>3 DEF FillCommand, TypeOK, Header
  <2> QED
    BY <1>1, <2>1, <2>2, <2>3 DEF HeadOK
<1>4. CASE ClearChecksum(s)
  <2>1. /\ pc[s] = "clear" /\ pc'[s] = "checksum"
        /\ UNCHANGED <<link, wire, sent, call>>
    BY <1>4 DEF ClearChecksum, Goto, TypeOK
  <2>2. LastOK(s)'
    BY <2>1 DEF LastOK, End, Size
  <2>3. /\ header'.command = header.command
        /\ header'.msg_num_bytes = header.msg_num_bytes
        /\ header'.crc16_checksum = Zero
    BY <1>4 DEF ClearChecksum, Cleared, TypeOK, Header
  <2> QED
    BY <1>1, <2>1, <2>2, <2>3 DEF HeadOK
<1>5. CASE FillChecksum(s)
  <2>1. /\ pc[s] = "checksum" /\ pc'[s] = "lock"
        /\ UNCHANGED <<link, wire, sent, call>>
    BY <1>5 DEF FillChecksum, Goto, TypeOK
  <2>2. LastOK(s)'
    BY <2>1 DEF LastOK, End, Size
  <2>3. /\ header.command = command(call[s])
        /\ header.msg_num_bytes = data_sz(call[s])
        /\ header.crc16_checksum = Zero
    BY <2>1 DEF HeadOK
  <2>4. header' = HeaderFor(call[s])
    BY <1>5, <2>3 DEF FillChecksum, HeaderFor, crc16, TypeOK, Header
  <2>5. /\ header'.command = command(call[s])
        /\ header'.msg_num_bytes = data_sz(call[s])
    BY <2>4 DEF HeaderFor
  <2> QED
    BY <1>1, <2>1, <2>2, <2>4, <2>5 DEF HeadOK
<1>6. CASE Lock(s)
  <2>1. /\ pc[s] = "lock" /\ pc'[s] = "header"
        /\ UNCHANGED <<header, link, wire, sent, call>>
    BY <1>6 DEF Lock, Goto, TypeOK
  <2>2. LastOK(s)'
    BY <2>1 DEF LastOK, End, Size
  <2> QED
    BY <1>1, <2>1, <2>2 DEF HeadOK
<1>7. CASE Close(s)
  <2>1. /\ pc[s] = "return" /\ pc'[s] = "idle" /\ (link' = "up" => link = "up")
        /\ UNCHANGED <<header, wire, sent, call>>
    BY <1>7 DEF Close, Goto, TypeOK
  <2>2. LastOK(s)'
    BY <2>1 DEF LastOK, End, Size
  <2> QED
    BY <1>1, <2>1, <2>2 DEF HeadOK
<1>8. CASE Break
  <2>1. link' = "broken" /\ UNCHANGED <<header, sent, call, pc>>
    BY <1>8 DEF Break, sendVars
  <2>2. LastOK(s)'
    BY <2>1 DEF LastOK
  <2> QED
    BY <1>1, <2>1, <2>2 DEF HeadOK
<1> QED
  BY <1>2, <1>3, <1>4, <1>5, <1>6, <1>7, <1>8

\* Sending the header.
LEMMA SendHeaderLemma ==
  ASSUME NEW s \in Senders, CInv(s), TypeOK', SendHeader(s)
  PROVE  WireOK' /\ LastOK(s)' /\ HeadOK(s)' /\ RecvOK' /\ GotOK' /\ StepOK'
<1> DEFINE S == [size : Sizes \cup {0}, at : Nat, head : Header,
                 whole : BOOLEAN]
           e == [size |-> call[s], at |-> Len(wire), head |-> header,
                 whole |-> data_sz(call[s]) = 0]
           f == [e EXCEPT !.whole = FALSE]
<1>1. /\ TypeOK /\ WireOK /\ RecvOK /\ GotOK /\ StepOK
      /\ pc[s] = "header" /\ UNCHANGED <<header, call, recvVars>>
      /\ header = HeaderFor(call[s])
      /\ \A m \in DOMAIN sent : sent[m].head = HeaderFor(sent[m].size)
  BY DEF SendHeader, CInv, HeadOK
<1>2. CASE link # "up"
  <2>1. /\ UNCHANGED <<link, wire, sent>> /\ pc'[s] = "return"
    BY <1>1, <1>2 DEF SendHeader, Return, Goto, TypeOK
  <2>2. WireOK' /\ RecvOK' /\ GotOK' /\ StepOK'
    BY <1>1, <2>1, QuietLemma
  <2> QED
    BY <1>1, <1>2, <2>1, <2>2 DEF LastOK, HeadOK
<1>3. CASE link = "up"
  <2>1. \E k \in 1 .. HdrSz, r \in {e, f} :
          /\ Sent(Len(sent) + 1, 1, k) /\ sent' = Append(sent, r)
          /\ \/ k = HdrSz /\ pc'[s] = "data" /\ data_sz(call[s]) # 0
             \/ k = HdrSz /\ pc'[s] = "return" /\ data_sz(call[s]) = 0
             \/ link' = "broken" /\ pc'[s] = "return"
    <3>1. HdrSz \in 1 .. HdrSz /\ 1 .. HdrSz - 1 \subseteq 1 .. HdrSz
      BY TypeFacts, <1>1
    <3>2. pc \in [Senders -> {"idle", "command", "clear", "checksum", "lock",
                              "header", "data", "return"}]
      BY <1>1 DEF TypeOK
    <3>3. \/ /\ Sent(Len(sent) + 1, 1, HdrSz) /\ sent' = Append(sent, e)
             /\ \/ data_sz(call[s]) # 0 /\ Goto(s, "data")
                \/ data_sz(call[s]) = 0 /\ Goto(s, "return")
          \/ /\ \E k \in 1 .. HdrSz - 1 : Sent(Len(sent) + 1, 1, k)
             /\ sent' = Append(sent, f) /\ link' = "broken" /\ Goto(s, "return")
      BY <1>3 DEF SendHeader, Return
    <3> HIDE DEF e, f
    <3> QED
      BY <3>1, <3>2, <3>3 DEF Goto
  <2>2. PICK k \in 1 .. HdrSz, r \in {e, f} :
          /\ Sent(Len(sent) + 1, 1, k) /\ sent' = Append(sent, r)
          /\ \/ k = HdrSz /\ pc'[s] = "data" /\ data_sz(call[s]) # 0
             \/ k = HdrSz /\ pc'[s] = "return" /\ data_sz(call[s]) = 0
             \/ link' = "broken" /\ pc'[s] = "return"
    BY <2>1
  <2>3. /\ r \in S /\ r.size = call[s] /\ r.at = Len(wire) /\ r.head = header
    <3>1. call[s] \in Sizes \cup {0} /\ header \in Header /\ Len(wire) \in Nat
      BY <1>1, TypeFacts DEF TypeOK
    <3>2. r = e \/ r = f
      BY <2>2
    <3>3. /\ e \in S /\ e.size = call[s] /\ e.at = Len(wire) /\ e.head = header
          /\ f \in S /\ f.size = call[s] /\ f.at = Len(wire) /\ f.head = header
      BY <3>1
    <3> HIDE DEF e, f
    <3> QED
      BY <3>2, <3>3
  <2> HIDE DEF e, f, S
  <2>4. Len(wire) = IF sent = <<>> THEN 0 ELSE End(Len(sent))
    BY <1>1, <1>3 DEF CInv, LastOK
  <2>5. PICK l : l = Len(sent) + 1
    OBVIOUS
  <2>6. /\ WireOK'
        /\ Len(wire') = Len(wire) + k
        /\ Len(sent') = l /\ DOMAIN sent' = 1 .. l
        /\ \A m \in DOMAIN sent : sent'[m] = sent[m]
        /\ sent'[l] = r /\ sent' # <<>>
        /\ \A i \in DOMAIN wire : wire'[i] = wire[i]
    BY <1>1, <2>2, <2>3, <2>4, <2>5, HeaderOnWire DEF S
  <2>7. /\ Len(wire) \in Nat /\ Len(sent) \in Nat /\ HdrSz \in Nat
        /\ k \in Nat /\ DOMAIN sent = 1 .. Len(sent) /\ l \in Nat
        /\ Len(wire) <= Len(wire') /\ Len(sent) <= Len(sent')
    <3>1. /\ Len(wire) \in Nat /\ Len(sent) \in Nat /\ HdrSz \in Nat
          /\ DOMAIN sent = 1 .. Len(sent)
      BY <1>1, TypeFacts
    <3> QED
      BY <2>5, <2>6, <3>1
  <2>8. RecvOK' /\ GotOK' /\ StepOK'
    <3>1. \A m \in DOMAIN sent :
            sent'[m].size = sent[m].size /\ sent'[m].at = sent[m].at
      BY <2>6
    <3>2. UNCHANGED recvVars
      BY <1>1
    <3> QED
      BY <1>1, <2>6, <2>7, <3>1, <3>2, GrowLemma
  <2>9. HeadOK(s)'
    <3>1. \A m \in DOMAIN sent' : sent'[m].head = HeaderFor(sent'[m].size)
      <4>1. \A m \in DOMAIN sent' : m \in DOMAIN sent \/ m = l
        BY <2>5, <2>6, <2>7
      <4> QED
        BY <1>1, <2>3, <2>6, <4>1
    <3> QED
      BY <2>2, <3>1 DEF HeadOK
  <2>10. LastOK(s)'
    <3>1. CASE link' = "broken"
      BY <3>1 DEF LastOK
    <3>2. CASE k = HdrSz /\ pc'[s] = "data" /\ data_sz(call[s]) # 0
      <4>0. data_sz(call'[s]) # 0
        BY <1>1, <3>2
      <4>1. sent'[Len(sent')].size = call'[s]
        BY <1>1, <2>3, <2>6
      <4>2. Len(wire') = sent'[Len(sent')].at + HdrSz
        BY <2>3, <2>6, <3>2
      <4> QED
        BY <2>6, <3>2, <4>0, <4>1, <4>2 DEF LastOK
    <3>3. CASE k = HdrSz /\ data_sz(call[s]) = 0 /\ pc'[s] = "return"
      <4>1. End(l)' = r.at + (HdrSz + data_sz(r.size))
        BY <2>6 DEF End, Size
      <4>2. End(l)' = Len(wire')
        BY <2>3, <2>6, <2>7, <3>3, <4>1
      <4>3. End(Len(sent))' = End(l)'
        BY <2>6 DEF End, Size
      <4> QED
        BY <2>6, <3>3, <4>2, <4>3 DEF LastOK
    <3> QED
      BY <2>2, <3>1, <3>2, <3>3
  <2> QED
    BY <2>6, <2>8, <2>9, <2>10
<1> QED
  BY <1>2, <1>3

\* Sending the data.
LEMMA SendDataLemma ==
  ASSUME NEW s \in Senders, CInv(s), TypeOK', SendData(s)
  PROVE  WireOK' /\ LastOK(s)' /\ HeadOK(s)' /\ RecvOK' /\ GotOK' /\ StepOK'
<1>1. /\ TypeOK /\ WireOK /\ RecvOK /\ GotOK /\ StepOK
      /\ pc[s] = "data" /\ UNCHANGED <<header, call, recvVars>>
      /\ \A m \in DOMAIN sent : sent[m].head = HeaderFor(sent[m].size)
  BY DEF SendData, CInv, HeadOK
<1>2. pc'[s] = "return"
  BY <1>1 DEF SendData, Return, Goto, TypeOK
<1>3. CASE link # "up"
  <2>1. UNCHANGED <<link, wire, sent>>
    BY <1>3 DEF SendData
  <2>2. WireOK' /\ RecvOK' /\ GotOK' /\ StepOK'
    BY <1>1, <2>1, QuietLemma
  <2> QED
    BY <1>1, <1>2, <1>3, <2>1, <2>2 DEF LastOK, HeadOK
<1>4. CASE link = "up"
  <2>1. PICK l, n : l = Len(sent) /\ n = data_sz(call[s])
    OBVIOUS
  <2>2. /\ sent # <<>> /\ sent[l].size = call[s]
        /\ Len(wire) = sent[l].at + HdrSz
    BY <1>1, <1>4, <2>1 DEF CInv, LastOK
  <2>3. /\ l \in Nat /\ l \in DOMAIN sent /\ n \in Nat
        /\ sent[l].at \in Nat /\ HdrSz \in Nat /\ DOMAIN sent = 1 .. Len(sent)
        /\ End(l) = sent[l].at + HdrSz + n
        /\ Len(wire) \in Nat
    <3>1. /\ Len(sent) \in Nat /\ DOMAIN sent = 1 .. Len(sent)
          /\ (sent = <<>> <=> Len(sent) = 0) /\ Len(wire) \in Nat
          /\ HdrSz \in Nat
      BY <1>1, TypeFacts
    <3>2. l \in Nat /\ l \in DOMAIN sent
      BY <2>1, <2>2, <3>1
    <3>3. /\ sent[l].at \in Nat /\ data_sz(sent[l].size) \in 0 .. Width - 1
          /\ End(l) = sent[l].at + HdrSz + data_sz(sent[l].size)
      BY <1>1, <3>2, TypeFacts
    <3>4. n \in 0 .. Width - 1 /\ End(l) = sent[l].at + HdrSz + n
      BY <2>1, <2>2, <3>3, Zenon
    <3> QED
      BY <3>1, <3>2, <3>3, <3>4
  <2>4. n # 0
    BY <1>1, <1>4, <2>1 DEF CInv, LastOK
  <2> QED
    <3>1. n \in 1 .. n /\ 1 .. n - 1 \subseteq 1 .. n
      BY <2>3, <2>4
    <3>2. \E k \in 1 .. n :
            /\ Sent(l, HdrSz + 1, HdrSz + k)
            /\ \/ sent' = [sent EXCEPT ![l].whole = TRUE] /\ k = n
               \/ sent' = sent /\ link' = "broken"
      BY <1>4, <2>1, <3>1 DEF SendData
    <3>3. PICK k \in 1 .. n :
            /\ Sent(l, HdrSz + 1, HdrSz + k)
            /\ \/ sent' = [sent EXCEPT ![l].whole = TRUE] /\ k = n
               \/ sent' = sent /\ link' = "broken"
      BY <3>2
    <3>4. /\ Len(sent') = Len(sent) /\ DOMAIN sent' = DOMAIN sent
          /\ \A m \in DOMAIN sent :
               /\ sent'[m].size = sent[m].size /\ sent'[m].at = sent[m].at
               /\ sent'[m].head = sent[m].head
      BY <1>1, <2>1, <3>3, MarkLemma
    <3>5. k \in 1 .. data_sz(sent[l].size)
      BY <2>1, <2>2, <3>3
    <3>6. /\ WireOK' /\ Len(wire') = Len(wire) + k
          /\ \A i \in DOMAIN wire : wire'[i] = wire[i]
      BY <1>1, <2>1, <2>2, <2>3, <3>3, <3>4, <3>5, DataOnWire
    <3>7. k \in Nat /\ Len(wire) <= Len(wire') /\ Len(sent) <= Len(sent')
      BY <2>1, <2>3, <3>4, <3>6
    <3>8. RecvOK' /\ GotOK' /\ StepOK'
      <4>1. UNCHANGED recvVars
        BY <1>1
      <4> QED
        BY <1>1, <3>4, <3>6, <3>7, <4>1, GrowLemma
    <3>9. HeadOK(s)'
      BY <1>1, <1>2, <3>4 DEF HeadOK
    <3>10. LastOK(s)'
      <4>1. CASE link' = "broken"
        BY <4>1 DEF LastOK
      <4>2. CASE k = n
        <5>1. End(l)' = End(l)
          BY <2>3, <3>4 DEF End, Size
        <5>2. Len(wire') = End(l)
          BY <2>2, <2>3, <3>6, <4>2
        <5>3. End(Len(sent))' = End(l)'
          BY <2>1, <3>4 DEF End, Size
        <5>4. sent' # <<>>
          BY <2>3, <3>4
        <5> QED
          BY <1>2, <5>1, <5>2, <5>3, <5>4 DEF LastOK
      <4> QED
        BY <3>3, <4>1, <4>2
    <3> QED
      BY <3>6, <3>8, <3>9, <3>10
<1> QED
  BY <1>3, <1>4

\* The sender's part of the invariant does not depend on the receiver.
LEMMA SenderPart ==
  ASSUME NEW s \in Senders, WireOK, LastOK(s), HeadOK(s),
         UNCHANGED <<sendVars, link, wire, sent>>
  PROVE  WireOK' /\ LastOK(s)' /\ HeadOK(s)'
BY DEF WireOK, LastOK, HeadOK, Size, End, sendVars

\* The message after the last one returned is the one that begins where the
\* receiver is.
LEMMA NextMessage ==
  ASSUME TypeOK, WireOK, NEW m \in DOMAIN sent, Len(got) <= Len(sent),
         sent[m].at = IF got = <<>> THEN 0 ELSE End(Len(got))
  PROVE  m = Len(got) + 1
<1>1. /\ Len(sent) \in Nat /\ DOMAIN sent = 1 .. Len(sent)
      /\ Len(got) \in Nat /\ (got = <<>> <=> Len(got) = 0)
      /\ HdrSz \in Nat \ {0}
      /\ \A n \in DOMAIN sent :
           /\ sent[n].at \in Nat /\ End(n) \in Nat
           /\ sent[n].at + HdrSz <= End(n)
  BY TypeFacts, OrderLemma
<1>2. \A i, j \in DOMAIN sent : i < j => End(i) <= sent[j].at
  BY OrderLemma
<1>3. \A i, j \in DOMAIN sent : End(i) <= sent[j].at => i < j
  BY OrderLemma
<1>4. m \in Nat /\ 1 <= m /\ m <= Len(sent)
  BY <1>1
<1>5. CASE got = <<>>
  <2>1. sent[m].at = 0 /\ Len(got) = 0
    BY <1>1, <1>5
  <2>2. CASE 1 < m
    <3>1. 1 \in DOMAIN sent
      BY <1>1, <1>4
    <3>2. End(1) <= sent[m].at
      BY <1>2, <2>2, <3>1
    <3>3. sent[1].at \in Nat /\ End(1) \in Nat /\ sent[1].at + HdrSz <= End(1)
      BY <1>1, <3>1
    <3> QED
      BY <1>1, <2>1, <3>2, <3>3
  <2> QED
    BY <1>4, <2>1, <2>2
<1>6. CASE got # <<>>
  <2>1. PICK n : n = Len(got)
    OBVIOUS
  <2>2. n \in DOMAIN sent /\ n \in Nat /\ sent[m].at = End(n)
    BY <1>1, <1>6, <2>1
  <2>3. n < m
    <3>1. End(n) <= sent[m].at
      BY <1>1, <2>2
    <3> QED
      BY <1>3, <2>2, <3>1
  <2>4. CASE n + 1 < m
    <3>1. n + 1 \in DOMAIN sent /\ n < n + 1
      BY <1>1, <1>4, <2>2, <2>4
    <3>2. End(n + 1) <= sent[m].at /\ End(n) <= sent[n + 1].at
      BY <1>2, <2>2, <2>4, <3>1
    <3>3. /\ sent[n + 1].at \in Nat /\ End(n + 1) \in Nat /\ End(n) \in Nat
          /\ sent[n + 1].at + HdrSz <= End(n + 1)
      BY <1>1, <2>2, <3>1
    <3>4. HdrSz \in Nat \ {0} /\ sent[m].at = End(n)
      BY <1>1, <2>2
    <3> QED
      BY ONLY <3>2, <3>3, <3>4
  <2> QED
    BY <1>4, <2>1, <2>2, <2>3, <2>4
<1> QED
  BY <1>5, <1>6

\* A header is taken.
LEMMA TakeHeaderLemma ==
  ASSUME NEW s \in Senders, CInv(s), TypeOK', TakeHeader
  PROVE  RecvOK' /\ GotOK' /\ StepOK'
<1>1. /\ TypeOK /\ WireOK /\ GotOK /\ StepOK /\ rpc = "header"
      /\ UNCHANGED <<wire, sent, split>> /\ rd' = rd + HdrSz
      /\ \A m \in DOMAIN sent : sent[m].head = HeaderFor(sent[m].size)
      /\ Left >= HdrSz
  BY DEF TakeHeader, CInv, HeadOK
<1>2. PICK m \in 1 .. Len(sent) :
        /\ IsHeader(m)
        /\ LET h == sent[m].head
               msg == [msg |-> m, command |-> h.command,
                       data_sz |-> h.msg_num_bytes, left |-> h.msg_num_bytes]
           IN  /\ temp_msg' = msg
               /\ IF h.msg_num_bytes = 0
                  THEN got' = Delivered(msg, rd + HdrSz) /\ UNCHANGED rpc
                  ELSE rpc' = "data" /\ UNCHANGED got
  BY DEF TakeHeader
<1>3. PICK c, n : c = command(sent[m].size) /\ n = data_sz(sent[m].size)
  OBVIOUS
<1>4. /\ m \in DOMAIN sent /\ m \in Nat /\ rd \in Nat /\ Len(wire) \in Nat
      /\ DOMAIN wire = 1 .. Len(wire) /\ HdrSz \in Nat \ {0}
      /\ sent[m].at \in Nat /\ n \in Nat /\ n \in 0 .. Width - 1
      /\ c \in Commands /\ End(m) \in Nat
      /\ End(m) = sent[m].at + HdrSz + n /\ Size(m) = HdrSz + n
      /\ Len(sent) \in Nat /\ DOMAIN sent = 1 .. Len(sent)
      /\ Len(got) \in Nat /\ DOMAIN got = 1 .. Len(got)
      /\ rd + HdrSz <= Len(wire)
  <2>1. /\ Len(sent) \in Nat /\ DOMAIN sent = 1 .. Len(sent)
        /\ Len(got) \in Nat /\ DOMAIN got = 1 .. Len(got)
        /\ Len(wire) \in Nat /\ rd \in 0 .. Len(wire)
        /\ DOMAIN wire = 1 .. Len(wire) /\ HdrSz \in Nat \ {0}
    BY <1>1, TypeFacts
  <2>2. m \in DOMAIN sent /\ m \in Nat
    BY <2>1
  <2>3. /\ sent[m].at \in Nat /\ data_sz(sent[m].size) \in 0 .. Width - 1
        /\ sent[m].size \in Nat /\ End(m) \in Nat
        /\ End(m) = sent[m].at + HdrSz + data_sz(sent[m].size)
    BY <1>1, <2>2, TypeFacts
  <2>4. n \in 0 .. Width - 1 /\ End(m) = sent[m].at + HdrSz + n
    BY <1>3, <2>3, Zenon
  <2>5. n \in Nat /\ c \in Commands /\ Size(m) = HdrSz + n
    <3>1. n \in Nat
      BY <2>4
    <3>2. c \in Commands
      BY <1>3, <2>3, SizeFacts
    <3>3. Size(m) = HdrSz + n
      BY <1>3, Zenon DEF Size
    <3> QED
      BY <3>1, <3>2, <3>3
  <2>6. rd + HdrSz <= Len(wire)
    BY <1>1, <2>1 DEF Left
  <2> QED
    BY <2>1, <2>2, <2>3, <2>4, <2>5, <2>6
<1>5. rd = sent[m].at
  <2>1. rd + 1 \in DOMAIN wire
    BY <1>4
  <2>2. wire[rd + 1] = <<m, 1>>
    BY <1>2, <1>4 DEF IsHeader
  <2>3. rd + 1 = sent[m].at + 1
    <3>1. PICK i : i = rd + 1
      OBVIOUS
    <3>2. i \in DOMAIN wire /\ wire[i] = <<m, 1>>
      BY <2>1, <2>2, <3>1, Zenon
    <3>3. i = sent[wire[i][1]].at + wire[i][2]
      BY <1>1, <3>2 DEF WireOK
    <3>4. wire[i][1] = m /\ wire[i][2] = 1
      <4>1. PICK x : x = wire[i]
        OBVIOUS
      <4>2. x = <<m, 1>>
        BY <3>2, <4>1, Zenon
      <4>3. x[1] = m /\ x[2] = 1
        BY ONLY <4>2
      <4> QED
        BY <4>1, <4>3, Zenon
    <3> QED
      BY <3>1, <3>3, <3>4, Zenon
  <2>4. rd \in Nat /\ sent[m].at \in Nat
    BY <1>4
  <2> QED
    BY ONLY <2>3, <2>4
<1>6. sent[m].head.command = c /\ sent[m].head.msg_num_bytes = n
  <2>1. sent[m].head = HeaderFor(sent[m].size)
    BY <1>1, <1>4
  <2>2. sent[m].head = [command |-> c, msg_num_bytes |-> n,
                        crc16_checksum |-> <<c, n>>]
    BY <1>3, <2>1, Zenon DEF HeaderFor
  <2> QED
    BY <2>2
<1>7. \A i \in DOMAIN got : got[i].msg \in DOMAIN sent /\ got[i].msg < m
  <2> SUFFICES ASSUME NEW i \in DOMAIN got
               PROVE  got[i].msg \in DOMAIN sent /\ got[i].msg < m
    OBVIOUS
  <2>1. got[i].msg \in DOMAIN sent /\ End(got[i].msg) <= rd
    BY <1>1 DEF GotOK, Framed
  <2> QED
    BY <1>1, <1>4, <1>5, <2>1, OrderLemma
<1>8. ~split => m = Len(got) + 1
  BY <1>1, <1>4, <1>5, NextMessage DEF StepOK
<1>9. \A j \in DOMAIN sent : End(j)' = End(j)
  BY <1>1 DEF End, Size
<1>10. CASE n = 0
  <2> DEFINE g == [msg |-> m, command |-> c, data_sz |-> n,
                   from |-> rd + HdrSz]
  <2>1. got' = Append(got, g) /\ rpc' = "header"
    BY <1>1, <1>2, <1>6, <1>10 DEF Delivered
  <2>2. /\ g \in [msg : Nat, command : Commands, data_sz : 0 .. Width - 1,
                  from : Int]
        /\ g.msg = m /\ g.command = c /\ g.data_sz = n /\ g.from = rd + HdrSz
    BY <1>4
  <2> HIDE DEF g
  <2>3. \A k \in 1 .. g.data_sz : wire[g.from + k] = <<g.msg, HdrSz + k>>
    BY <1>10, <2>2
  <2>4. /\ Framed' /\ InOrder'
        /\ Len(got') = Len(got) + 1 /\ DOMAIN got' = 1 .. Len(got) + 1
        /\ \A i \in DOMAIN got : got'[i] = got[i]
        /\ got'[Len(got) + 1] = g /\ got' # <<>>
    <3>1. g.from = sent[g.msg].at + HdrSz
      BY <1>5, <2>2
    <3>2. g.msg \in DOMAIN sent /\ g.command = command(sent[g.msg].size)
          /\ g.data_sz = data_sz(sent[g.msg].size)
      BY <1>3, <1>4, <2>2
    <3>3. \A i \in DOMAIN got : got[i].msg < g.msg
      BY <1>7, <2>2
    <3>4. Framed /\ InOrder
      BY <1>1 DEF GotOK
    <3> QED
      BY <1>1, <2>1, <2>2, <2>3, <3>1, <3>2, <3>3, <3>4, AppendGot
  <2>5. \A i \in DOMAIN got' : i \in DOMAIN got \/ i = Len(got) + 1
    BY <1>4, <2>4
  <2>6. End(m) = rd' /\ rd <= rd'
    BY <1>1, <1>4, <1>5, <1>10
  <2>7. \A i \in DOMAIN got' : End(got'[i].msg) <= rd'
    <3> SUFFICES ASSUME NEW i \in DOMAIN got'
                 PROVE  End(got'[i].msg) <= rd'
      OBVIOUS
    <3>1. CASE i \in DOMAIN got
      <4>1. got'[i] = got[i] /\ got[i].msg \in DOMAIN sent
        BY <1>7, <2>4, <3>1
      <4>2. End(got[i].msg) \in Nat /\ End(got[i].msg) <= rd
        BY <1>1, <3>1, <4>1, TypeFacts DEF GotOK
      <4> QED
        BY <1>4, <2>6, <4>1, <4>2
    <3>2. CASE i = Len(got) + 1
      BY <1>4, <2>2, <2>4, <2>6, <3>2
    <3> QED
      BY <2>5, <3>1, <3>2
  <2>8. GotOK'
    <3>1. \A i \in DOMAIN got' : End(got[i].msg)' <= rd'
      BY <1>1, <2>7 DEF End, Size
    <3> QED
      BY <2>1, <2>4, <3>1 DEF GotOK
  <2>9. StepOK'
    <3> SUFFICES ASSUME ~split
                 PROVE  /\ \A i \in DOMAIN got' : got'[i].msg = i
                        /\ Len(got') <= Len(sent)
                        /\ rd' = End(Len(got'))
      <4>1. End(Len(got))' = End(Len(got'))
        BY <1>1 DEF End, Size
      <4> QED
        BY <1>1, <2>1, <2>4, <4>1 DEF StepOK
    <3>1. m = Len(got) + 1 /\ Len(got') = m
      BY <1>8, <2>4
    <3>2. ASSUME NEW i \in DOMAIN got' PROVE got'[i].msg = i
      <4>1. i \in DOMAIN got => got[i].msg = i
        BY <1>1 DEF StepOK
      <4> QED
        BY <2>2, <2>4, <2>5, <3>1, <4>1
    <3> QED
      BY <1>4, <2>6, <3>1, <3>2
  <2> QED
    BY <2>1, <2>8, <2>9 DEF RecvOK
<1>11. CASE n # 0
  <2>1. /\ got' = got /\ rpc' = "data" /\ temp_msg'.msg = m
        /\ temp_msg'.command = c /\ temp_msg'.data_sz = n /\ temp_msg'.left = n
    BY <1>2, <1>6, <1>11
  <2>2. RecvOK'
    <3>1. n \in 1 .. n /\ rd' = End(m) - n
      BY <1>1, <1>4, <1>5, <1>11
    <3>2. End(m)' = End(m)
      BY <1>4, <1>9
    <3> QED
      BY <1>1, <1>3, <1>4, <2>1, <3>1, <3>2 DEF RecvOK, End, Size
  <2>3. GotOK'
    <3>1. Framed' /\ InOrder'
      BY <1>1, <2>1 DEF GotOK, Framed, InOrder
    <3>2. ASSUME NEW i \in DOMAIN got PROVE End(got[i].msg) <= rd'
      <4>1. End(got[i].msg) \in Nat /\ End(got[i].msg) <= rd
        BY <1>1, <1>7, TypeFacts DEF GotOK
      <4>2. rd' = rd + HdrSz
        BY <1>1
      <4> QED
        BY <1>4, <4>1, <4>2
    <3>3. \A i \in DOMAIN got' : End(got[i].msg)' <= rd'
      BY <1>1, <2>1, <3>2 DEF End, Size
    <3>4. \A i \in DOMAIN got' : got'[i].msg < temp_msg'.msg
      BY <1>7, <2>1
    <3> QED
      BY <3>1, <3>3, <3>4 DEF GotOK
  <2>4. StepOK'
    BY <1>1, <1>8, <2>1 DEF StepOK
  <2> QED
    BY <2>2, <2>3, <2>4
<1> QED
  BY <1>10, <1>11

\* As long as no header was split the receiver, when it waits for a header, is
\* where one begins: it drops none.
LEMMA HeaderIsThere ==
  ASSUME NEW s \in Senders, CInv(s), ~split, rpc = "header", Left >= HdrSz
  PROVE  \E m \in 1 .. Len(sent) : IsHeader(m)
<1>1. /\ TypeOK /\ WireOK /\ StepOK
      /\ \A m \in DOMAIN sent : sent[m].head = HeaderFor(sent[m].size)
  BY DEF CInv, HeadOK
<1>2. /\ Len(wire) \in Nat /\ DOMAIN wire = 1 .. Len(wire) /\ rd \in Nat
      /\ HdrSz \in Nat \ {0} /\ DOMAIN sent = 1 .. Len(sent)
      /\ Len(sent) \in Nat /\ Len(got) \in Nat
      /\ (got = <<>> <=> Len(got) = 0) /\ rd + HdrSz <= Len(wire)
  <2>1. /\ Len(wire) \in Nat /\ DOMAIN wire = 1 .. Len(wire)
        /\ rd \in 0 .. Len(wire)
        /\ HdrSz \in Nat \ {0} /\ DOMAIN sent = 1 .. Len(sent)
        /\ Len(sent) \in Nat /\ Len(got) \in Nat
        /\ (got = <<>> <=> Len(got) = 0)
    BY <1>1, TypeFacts
  <2> QED
    BY <2>1 DEF Left
<1>3. PICK m, p : m = wire[rd + 1][1] /\ p = wire[rd + 1][2]
  OBVIOUS
<1>4. m \in DOMAIN sent /\ p \in 1 .. Size(m) /\ rd + 1 = sent[m].at + p
  <2>1. rd + 1 \in DOMAIN wire
    BY <1>2
  <2> QED
    BY <1>1, <1>3, <2>1 DEF WireOK
<1>5. /\ sent[m].at \in Nat /\ Size(m) \in Nat /\ End(m) \in Nat
      /\ End(m) = sent[m].at + Size(m) /\ m \in Nat /\ p \in Nat /\ 1 <= p
      /\ p <= Size(m) /\ sent[m].at + HdrSz <= End(m)
  <2>1. /\ sent[m].at \in Nat /\ Size(m) \in Nat /\ End(m) \in Nat
        /\ End(m) = sent[m].at + Size(m) /\ sent[m].at + HdrSz <= End(m)
    BY <1>1, <1>4, TypeFacts, OrderLemma DEF End
  <2> QED
    BY <1>2, <1>4, <2>1
<1>6. sent[m].at <= rd /\ rd < End(m)
  <2>1. rd \in Nat /\ rd + 1 = sent[m].at + p
    BY <1>2, <1>4
  <2>2. /\ sent[m].at \in Nat /\ Size(m) \in Nat /\ p \in Nat /\ 1 <= p
        /\ p <= Size(m) /\ End(m) = sent[m].at + Size(m)
    BY <1>5
  <2> QED
    BY ONLY <2>1, <2>2
<1>7. sent[m].at = rd
  <2>1. CASE got = <<>>
    <3>1. rd = 0
      BY <1>1, <2>1 DEF StepOK
    <3> QED
      BY <1>5, <1>6, <3>1
  <2>2. CASE got # <<>>
    <3>1. PICK n : n = Len(got)
      OBVIOUS
    <3>2. rd = End(n) /\ Len(got) <= Len(sent)
      BY <1>1, <2>2, <3>1 DEF StepOK
    <3>3. n \in DOMAIN sent /\ n \in Nat
      BY <1>2, <2>2, <3>1, <3>2
    <3>4. sent[n].at \in Nat /\ sent[n].at + HdrSz <= End(n) /\ End(n) \in Nat
      BY <1>1, <3>3, TypeFacts, OrderLemma
    <3>5. CASE n < m
      <4>1. End(n) <= sent[m].at
        BY <1>1, <1>4, <3>3, <3>5, OrderLemma
      <4> QED
        BY <1>2, <1>5, <1>6, <3>2, <4>1
    <3>6. CASE n = m
      BY <1>2, <1>6, <3>2, <3>6
    <3>7. CASE m < n
      <4>1. End(m) <= sent[n].at
        BY <1>1, <1>4, <3>3, <3>7, OrderLemma
      <4>2. HdrSz \in Nat /\ rd \in Nat /\ End(m) \in Nat /\ rd < End(m)
        BY <1>2, <1>5, <1>6
      <4> QED
        BY ONLY <3>2, <3>4, <4>1, <4>2
    <3> QED
      BY <1>5, <3>3, <3>5, <3>6, <3>7
  <2> QED
    BY <2>1, <2>2
<1>8. ASSUME NEW q \in 1 .. HdrSz PROVE wire[rd + q] = <<m, q>>
  <2>1. HdrSz <= Size(m) /\ q \in Nat /\ q <= HdrSz
    BY <1>2, <1>5
  <2>2. q \in 1 .. Size(m) /\ sent[m].at + q <= Len(wire)
    BY <1>2, <1>5, <1>7, <2>1
  <2>3. wire[sent[m].at + q] = <<m, q>>
    BY <1>1, <1>4, <2>2 DEF WireOK
  <2> QED
    BY <1>7, <2>3
<1>9. sent[m].head.crc16_checksum =
        crc16(sent[m].head.command, sent[m].head.msg_num_bytes, Zero)
  <2>1. sent[m].head = HeaderFor(sent[m].size)
    BY <1>1, <1>4
  <2> QED
    BY <2>1 DEF HeaderFor, crc16
<1> QED
  BY <1>2, <1>4, <1>8, <1>9 DEF IsHeader

\* A bad header is dropped.
LEMMA DropHeaderLemma ==
  ASSUME NEW s \in Senders, CInv(s), TypeOK', DropHeader
  PROVE  RecvOK' /\ GotOK' /\ StepOK'
<1>1. PICK k \in Reads(HdrSz) :
        /\ k = HdrSz => ~ \E m \in 1 .. Len(sent) : IsHeader(m)
        /\ rd' = rd + k
        /\ split' = (split \/ k < HdrSz)
  BY DEF DropHeader
<1>2. /\ TypeOK /\ GotOK /\ rpc = "header"
      /\ UNCHANGED <<wire, sent, rpc, temp_msg, got>>
  BY DEF DropHeader, CInv
<1>3. /\ rd \in Nat /\ Left \in Nat /\ HdrSz \in Nat
  <2>1. rd \in 0 .. Len(wire) /\ Len(wire) \in Nat /\ HdrSz \in Nat
    BY <1>2, TypeFacts
  <2> QED
    BY <2>1 DEF Left
<1>4. k \in Nat /\ k <= HdrSz /\ k <= Left
  BY <1>3 DEF Reads
<1>5. split'
  <2>1. CASE k < HdrSz
    BY <1>1, <2>1
  <2>2. CASE k = HdrSz /\ ~split
    <3>1. Left >= HdrSz
      BY <1>3, <1>4, <2>2
    <3> QED
      BY <1>1, <1>2, <2>2, <3>1, HeaderIsThere
  <2>3. CASE split
    BY <1>1, <2>3
  <2> QED
    BY <1>3, <1>4, <2>1, <2>2, <2>3
<1>6. GotOK'
  <2>1. Framed' /\ InOrder'
    BY <1>2 DEF GotOK, Framed, InOrder
  <2>2. ASSUME NEW i \in DOMAIN got PROVE End(got[i].msg) <= rd'
    <3>1. got[i].msg \in DOMAIN sent /\ End(got[i].msg) <= rd
      BY <1>2 DEF GotOK, Framed
    <3>2. End(got[i].msg) \in Nat
      BY <1>2, <3>1, TypeFacts
    <3> QED
      BY <1>1, <1>3, <1>4, <3>1, <3>2
  <2>3. \A i \in DOMAIN got' : End(got[i].msg)' <= rd'
    BY <1>2, <2>2 DEF End, Size
  <2> QED
    BY <1>2, <2>1, <2>3 DEF GotOK
<1> QED
  BY <1>2, <1>5, <1>6 DEF RecvOK, StepOK

\* Data are read.
LEMMA ReadDataLemma ==
  ASSUME NEW s \in Senders, CInv(s), TypeOK', ReadData
  PROVE  RecvOK' /\ GotOK' /\ StepOK'
<1>1. /\ TypeOK /\ WireOK /\ RecvOK /\ GotOK /\ StepOK /\ rpc = "data"
      /\ UNCHANGED <<wire, sent, split>>
  BY DEF ReadData, CInv
<1>2. PICK k \in BytesLeft :
        LET msg == [temp_msg EXCEPT !.left = @ - k]
        IN  /\ rd' = rd + k
            /\ temp_msg' = msg
            /\ IF msg.left = 0
               THEN /\ rpc' = "header"
                    /\ got' = Delivered(msg, rd + k - msg.data_sz)
               ELSE UNCHANGED <<rpc, got>>
  BY DEF ReadData
<1>3. PICK m, c, n, l : m = temp_msg.msg /\ c = temp_msg.command /\
                        n = temp_msg.data_sz /\ l = temp_msg.left
  OBVIOUS
<1>4. /\ temp_msg \in [msg : Nat, command : Commands, data_sz : 0 .. Width - 1,
                       left : 0 .. Width - 1]
      /\ temp_msg = [msg |-> m, command |-> c, data_sz |-> n, left |-> l]
  BY <1>1, <1>3 DEF TypeOK
<1>5. /\ m \in DOMAIN sent /\ c = command(sent[m].size)
      /\ n = data_sz(sent[m].size) /\ l \in 1 .. n /\ rd = End(m) - l
  BY <1>1, <1>3 DEF RecvOK
<1>6. /\ n \in Nat /\ n \in 0 .. Width - 1 /\ l \in Nat \ {0} /\ l <= n
      /\ m \in Nat /\ c \in Commands
      /\ rd \in Nat /\ Len(wire) \in Nat /\ rd <= Len(wire) /\ HdrSz \in Nat
      /\ sent[m].at \in Nat /\ End(m) \in Nat
      /\ End(m) = sent[m].at + HdrSz + n /\ Size(m) = HdrSz + n
      /\ Len(got) \in Nat /\ DOMAIN got = 1 .. Len(got)
      /\ Len(sent) \in Nat /\ DOMAIN sent = 1 .. Len(sent)
  <2>1. n \in 0 .. Width - 1 /\ c \in Commands /\ m \in Nat
    BY <1>1, <1>3 DEF TypeOK
  <2>2. n \in Nat /\ l \in Nat \ {0} /\ l <= n
    BY <1>5, <2>1
  <2>3. /\ Len(wire) \in Nat /\ rd \in 0 .. Len(wire) /\ HdrSz \in Nat
        /\ Len(got) \in Nat /\ DOMAIN got = 1 .. Len(got)
        /\ Len(sent) \in Nat /\ DOMAIN sent = 1 .. Len(sent)
    BY <1>1, TypeFacts
  <2>4. rd \in Nat /\ rd <= Len(wire)
    BY <2>3
  <2>5. /\ sent[m].at \in Nat /\ End(m) \in Nat
        /\ End(m) = sent[m].at + HdrSz + data_sz(sent[m].size)
    BY <1>1, <1>5, TypeFacts
  <2>6. End(m) = sent[m].at + HdrSz + n /\ Size(m) = HdrSz + n
    <3>1. End(m) = sent[m].at + HdrSz + n
      BY <1>5, <2>5, Zenon
    <3>2. Size(m) = HdrSz + n
      BY <1>5, Zenon DEF Size
    <3> QED
      BY <3>1, <3>2
  <2> QED
    BY <2>1, <2>2, <2>3, <2>4, <2>5, <2>6
<1>7. k \in Nat \ {0} /\ k <= l /\ k <= Left
  <2>1. Left \in Nat
    BY <1>6 DEF Left
  <2> QED
    BY <1>3, <1>6, <2>1 DEF BytesLeft, Reads
<1>8. rd' = rd + k /\ rd <= rd' /\ rd' \in Nat /\ rd' <= Len(wire)
      /\ rd' = End(m) - (l - k)
  <2>1. Left = Len(wire) - rd
    BY DEF Left
  <2>2. rd' = rd + k
    BY <1>2
  <2>3. /\ rd = End(m) - l /\ l \in Nat /\ k \in Nat \ {0} /\ k <= Left
        /\ End(m) \in Nat /\ rd \in Nat /\ Len(wire) \in Nat
    BY <1>5, <1>6, <1>7
  <2>4. rd <= rd + k /\ rd + k \in Nat /\ rd + k <= Len(wire)
    BY ONLY <2>1, <2>3
  <2>5. rd + k = End(m) - (l - k)
    BY ONLY <2>3
  <2> QED
    BY <2>2, <2>4, <2>5
<1>9. temp_msg' = [msg |-> m, command |-> c, data_sz |-> n, left |-> l - k]
  BY <1>2, <1>4
<1>10. \A i \in DOMAIN got :
         /\ got[i].msg \in DOMAIN sent /\ got[i].msg < m
         /\ End(got[i].msg) <= rd'
  <2> SUFFICES ASSUME NEW i \in DOMAIN got
               PROVE  /\ got[i].msg \in DOMAIN sent /\ got[i].msg < m
                      /\ End(got[i].msg) <= rd'
    OBVIOUS
  <2>1. /\ got[i].msg \in DOMAIN sent /\ got[i].msg < m
        /\ End(got[i].msg) <= rd
    BY <1>1, <1>3 DEF GotOK, Framed
  <2>2. End(got[i].msg) \in Nat
    BY <1>1, <2>1, TypeFacts
  <2> QED
    BY <1>6, <1>8, <2>1, <2>2
<1>11. CASE l - k = 0
  <2> DEFINE g == [msg |-> m, command |-> c, data_sz |-> n,
                   from |-> rd + k - n]
  <2>1. rpc' = "header" /\ got' = Append(got, g)
    BY <1>2, <1>9, <1>11 DEF Delivered
  <2>2. /\ g \in [msg : Nat, command : Commands, data_sz : 0 .. Width - 1,
                  from : Int]
        /\ g.msg = m /\ g.command = c /\ g.data_sz = n
        /\ g.from = rd + k - n
    BY <1>6, <1>7
  <2> HIDE DEF g
  <2>3. rd' = End(m) /\ g.from = sent[m].at + HdrSz
    <3>1. /\ rd' = End(m) - (l - k) /\ End(m) \in Nat /\ l - k = 0
          /\ rd' = rd + k
      BY <1>6, <1>8, <1>11
    <3>2. rd' = End(m)
      BY ONLY <3>1
    <3>3. g.from = End(m) - n
      <4>1. rd \in Nat /\ k \in Nat /\ n \in Nat /\ rd + k = End(m)
        BY <1>6, <1>7, <3>1, <3>2
      <4>2. rd + k - n = End(m) - n
        BY ONLY <4>1
      <4> QED
        BY <2>2, <4>2
    <3>4. /\ End(m) = sent[m].at + HdrSz + n /\ n \in Nat /\ HdrSz \in Nat
          /\ sent[m].at \in Nat
      BY <1>6
    <3>5. End(m) - n = sent[m].at + HdrSz
      BY ONLY <3>4
    <3> QED
      BY <3>2, <3>3, <3>5
  <2>4. ASSUME NEW j \in 1 .. n
        PROVE  wire[sent[m].at + HdrSz + j] = <<m, HdrSz + j>>
    <3>1. HdrSz + j \in 1 .. Size(m) /\ sent[m].at + (HdrSz + j) <= Len(wire)
      <4>1. /\ HdrSz \in Nat /\ n \in Nat /\ sent[m].at \in Nat
            /\ Len(wire) \in Nat /\ Size(m) = HdrSz + n
            /\ sent[m].at + HdrSz + n <= Len(wire)
        BY <1>6, <1>8, <2>3
      <4>2. j \in Nat \ {0} /\ j <= n
        BY <1>6
      <4> QED
        BY ONLY <4>1, <4>2
    <3>2. wire[sent[m].at + (HdrSz + j)] = <<m, HdrSz + j>>
      BY <1>1, <1>5, <3>1 DEF WireOK
    <3>3. sent[m].at + (HdrSz + j) = sent[m].at + HdrSz + j
      BY <1>6
    <3> QED
      BY <3>2, <3>3
  <2>5. /\ Framed' /\ InOrder'
        /\ Len(got') = Len(got) + 1 /\ DOMAIN got' = 1 .. Len(got) + 1
        /\ \A i \in DOMAIN got : got'[i] = got[i]
        /\ got'[Len(got) + 1] = g /\ got' # <<>>
    <3>1. /\ g.msg \in DOMAIN sent /\ g.command = command(sent[g.msg].size)
          /\ g.data_sz = data_sz(sent[g.msg].size)
          /\ g.from = sent[g.msg].at + HdrSz
      BY <1>5, <2>2, <2>3
    <3>2. \A j \in 1 .. g.data_sz : wire[g.from + j] = <<g.msg, HdrSz + j>>
      BY <2>2, <2>3, <2>4
    <3>3. \A i \in DOMAIN got : got[i].msg < g.msg
      BY <1>10, <2>2
    <3>4. Framed /\ InOrder
      BY <1>1 DEF GotOK
    <3> QED
      BY <1>1, <2>1, <2>2, <3>1, <3>2, <3>3, <3>4, AppendGot
  <2>6. \A i \in DOMAIN got' : i \in DOMAIN got \/ i = Len(got) + 1
    BY <1>6, <2>5
  <2>7. \A i \in DOMAIN got' : End(got'[i].msg) <= rd'
    <3> SUFFICES ASSUME NEW i \in DOMAIN got'
                 PROVE  End(got'[i].msg) <= rd'
      OBVIOUS
    <3>1. CASE i \in DOMAIN got
      BY <1>10, <2>5, <3>1
    <3>2. CASE i = Len(got) + 1
      BY <1>6, <2>2, <2>3, <2>5, <3>2
    <3> QED
      BY <2>6, <3>1, <3>2
  <2>8. GotOK'
    <3>1. \A i \in DOMAIN got' : End(got[i].msg)' <= rd'
      BY <1>1, <2>7 DEF End, Size
    <3> QED
      BY <2>1, <2>5, <3>1 DEF GotOK
  <2>9. StepOK'
    <3> SUFFICES ASSUME ~split
                 PROVE  /\ \A i \in DOMAIN got' : got'[i].msg = i
                        /\ Len(got') <= Len(sent)
                        /\ rd' = End(Len(got'))
      <4>1. End(Len(got))' = End(Len(got'))
        BY <1>1 DEF End, Size
      <4> QED
        BY <1>1, <2>1, <2>5, <4>1 DEF StepOK
    <3>1. m = Len(got) + 1 /\ Len(got') = m
      BY <1>1, <1>3, <2>5 DEF StepOK
    <3>2. ASSUME NEW i \in DOMAIN got' PROVE got'[i].msg = i
      <4>1. i \in DOMAIN got => got[i].msg = i
        BY <1>1 DEF StepOK
      <4> QED
        BY <2>2, <2>5, <2>6, <3>1, <4>1
    <3> QED
      BY <1>5, <1>6, <2>3, <3>1, <3>2
  <2> QED
    BY <2>1, <2>8, <2>9 DEF RecvOK
<1>12. CASE l - k # 0
  <2>1. /\ got' = got /\ rpc' = "data" /\ temp_msg'.msg = m
        /\ temp_msg'.command = c /\ temp_msg'.data_sz = n
        /\ temp_msg'.left = l - k
    BY <1>1, <1>2, <1>9, <1>12
  <2>2. RecvOK'
    <3>1. l - k \in 1 .. n
      <4>1. /\ l \in Nat /\ k \in Nat \ {0} /\ k <= l /\ n \in Nat /\ l <= n
            /\ l - k # 0
        BY <1>6, <1>7, <1>12
      <4> QED
        BY ONLY <4>1
    <3>2. End(m)' = End(m)
      BY <1>1 DEF End, Size
    <3> QED
      BY <1>1, <1>5, <1>8, <2>1, <3>1, <3>2 DEF RecvOK, End, Size
  <2>3. GotOK'
    <3>1. Framed' /\ InOrder'
      BY <1>1, <2>1 DEF GotOK, Framed, InOrder
    <3>2. \A i \in DOMAIN got' : End(got[i].msg)' <= rd'
      BY <1>1, <1>10, <2>1 DEF End, Size
    <3>3. \A i \in DOMAIN got' : got'[i].msg < temp_msg'.msg
      BY <1>10, <2>1
    <3> QED
      BY <3>1, <3>2, <3>3 DEF GotOK
  <2>4. StepOK'
    BY <1>1, <1>3, <2>1 DEF StepOK
  <2> QED
    BY <2>2, <2>3, <2>4
<1> QED
  BY <1>11, <1>12

\* The receiver sees the end.
LEMMA ReadEndLemma ==
  ASSUME NEW s \in Senders, CInv(s), ReadEnd
  PROVE  RecvOK' /\ GotOK' /\ StepOK'
<1>1. /\ GotOK /\ StepOK /\ rpc' = "disconnect"
      /\ UNCHANGED <<wire, sent, rd, temp_msg, got, split>>
  BY DEF ReadEnd, CInv
<1>2. RecvOK' /\ GotOK'
  BY <1>1 DEF RecvOK, GotOK, Framed, InOrder, End, Size
<1>3. StepOK'
  BY <1>1 DEF StepOK
<1> QED
  BY <1>2, <1>3

-----------------------------------------------------------------------------
(* Theorems.                                                               *)

\* With one sending thread the invariant holds in every state.
LEMMA CommonsInvariant ==
  ASSUME NEW s, Senders = {s}
  PROVE  Spec => []CInv(s)
<1>1. Init => CInv(s)
  BY InitType, InitLemma DEF CInv
<1>2. CInv(s) /\ [Next]_vars => CInv(s)'
  <2> SUFFICES ASSUME CInv(s), [Next]_vars PROVE CInv(s)'
    OBVIOUS
  <2>1. TypeOK'
    BY TypeStep DEF CInv
  <2>2. CASE \/ Begin(s) \/ FillCommand(s) \/ ClearChecksum(s)
             \/ FillChecksum(s) \/ Lock(s) \/ Close(s) \/ Break
    BY <2>1, <2>2, LocalLemma DEF CInv
  <2>3. CASE SendHeader(s)
    BY <2>1, <2>3, SendHeaderLemma DEF CInv
  <2>4. CASE SendData(s)
    BY <2>1, <2>4, SendDataLemma DEF CInv
  <2>5. CASE Receive
    <3>1. RecvOK' /\ GotOK' /\ StepOK'
      BY <2>1, <2>5, TakeHeaderLemma, DropHeaderLemma, ReadDataLemma,
         ReadEndLemma DEF Receive
    <3>2. UNCHANGED <<sendVars, link, wire, sent>>
      BY <2>5 DEF Receive, TakeHeader, DropHeader, ReadData, ReadEnd
    <3> QED
      BY <2>1, <3>1, <3>2, SenderPart DEF CInv
  <2>6. CASE UNCHANGED vars
    <3>1. UNCHANGED <<wire, sent, recvVars>> /\ UNCHANGED <<sendVars, link>>
      BY <2>6 DEF vars
    <3> QED
      BY <2>1, <3>1, QuietLemma, SenderPart DEF CInv
  <2> QED
    BY <2>2, <2>3, <2>4, <2>5, <2>6 DEF Next, SenderStep
<1> QED
  BY <1>1, <1>2, PTL DEF Spec

\* A size that fits is not changed.
LEMMA FitsIsKept ==
  ASSUME SizesFit, NEW n \in Sizes \cup {0}
  PROVE  data_sz(n) = n
<1>1. Width \in Nat \ {0} /\ n \in 0 .. Width - 1
  BY CommonsAssumption DEF SizesFit
<1> QED
  BY <1>1 DEF data_sz

\* What the receiver returns is what a call of socket_send_data passed in, to
\* the last byte, whatever it has dropped before.
\* The sizes of the callers are those that fit.
THEOREM CommonsIntact ==
  ASSUME NEW s, Senders = {s}, SizesFit
  PROVE  Spec => []Intact
<1>1. CInv(s) => Intact
  <2> SUFFICES ASSUME CInv(s), NEW i \in DOMAIN got,
                      got[i].msg \in DOMAIN sent
               PROVE  data_sz(sent[got[i].msg].size) = sent[got[i].msg].size
    BY DEF CInv, GotOK, Framed, Intact
  <2>1. sent[got[i].msg].size \in Sizes \cup {0}
    BY TypeFacts DEF CInv
  <2> QED
    BY <2>1, FitsIsKept
<1> QED
  BY <1>1, CommonsInvariant, PTL

\* Messages are returned in the order of the calls, none twice.
THEOREM CommonsInOrder ==
  ASSUME NEW s, Senders = {s}
  PROVE  Spec => []InOrder
<1>1. CInv(s) => InOrder
  BY DEF CInv, GotOK
<1> QED
  BY <1>1, CommonsInvariant, PTL

\* Until a header comes in two reads no message is skipped.
THEOREM CommonsNothingSkipped ==
  ASSUME NEW s, Senders = {s}
  PROVE  Spec => []NothingSkipped
<1>1. CInv(s) => NothingSkipped
  BY DEF CInv, StepOK, NothingSkipped
<1> QED
  BY <1>1, CommonsInvariant, PTL


-----------------------------------------------------------------------------
(* The channel.                                                            *)

\* A message of which the last byte is on the wire was sent whole.
WholeOK == \A m \in DOMAIN sent : End(m) <= Len(wire) => sent[m].whole

ChanInv(t) == CInv(t) /\ WholeOK

\* The entries of sent.
Entry == [size : Sizes \cup {0}, at : Nat, head : Header, whole : BOOLEAN]

\* Sending a header appends a message, which is whole when it has no data and
\* all of the header was sent.
LEMMA HeaderAppends ==
  ASSUME NEW s \in Senders, CInv(s), SendHeader(s), link = "up"
  PROVE  \E k \in 1 .. HdrSz, e \in Entry :
           /\ Sent(Len(sent) + 1, 1, k) /\ sent' = Append(sent, e)
           /\ e.size = call[s] /\ e.at = Len(wire)
           /\ e.whole => data_sz(call[s]) = 0
           /\ ~e.whole => k < HdrSz \/ data_sz(call[s]) # 0
<1>1. /\ TypeOK /\ header \in Header /\ HdrSz \in Nat \ {0}
      /\ call[s] \in Sizes \cup {0} /\ Len(wire) \in Nat
  BY TypeFacts DEF CInv, TypeOK
<1>2. HdrSz \in 1 .. HdrSz /\ 1 .. HdrSz - 1 \subseteq 1 .. HdrSz
  BY <1>1
<1> DEFINE e == [size |-> call[s], at |-> Len(wire), head |-> header,
                 whole |-> data_sz(call[s]) = 0]
           f == [e EXCEPT !.whole = FALSE]
<1>3. \/ Sent(Len(sent) + 1, 1, HdrSz) /\ sent' = Append(sent, e)
      \/ /\ \E k \in 1 .. HdrSz - 1 : Sent(Len(sent) + 1, 1, k)
         /\ sent' = Append(sent, f)
  BY DEF SendHeader
<1>4. /\ e \in Entry /\ e.size = call[s] /\ e.at = Len(wire)
      /\ (e.whole <=> data_sz(call[s]) = 0)
      /\ f \in Entry /\ f.size = call[s] /\ f.at = Len(wire) /\ ~f.whole
  BY <1>1 DEF Entry
<1> HIDE DEF e, f
<1>5. CASE Sent(Len(sent) + 1, 1, HdrSz) /\ sent' = Append(sent, e)
  BY <1>2, <1>4, <1>5
<1>6. CASE /\ \E k \in 1 .. HdrSz - 1 : Sent(Len(sent) + 1, 1, k)
           /\ sent' = Append(sent, f)
  <2>1. PICK k \in 1 .. HdrSz - 1 : Sent(Len(sent) + 1, 1, k)
    BY <1>6
  <2>2. k \in 1 .. HdrSz /\ k < HdrSz
    BY <1>1
  <2> QED
    BY <1>4, <1>6, <2>1, <2>2
<1> QED
  BY <1>3, <1>5, <1>6

\* What a step that appends a message does to the messages.
LEMMA Appended ==
  ASSUME TypeOK, NEW e \in Entry, sent' = Append(sent, e)
  PROVE  LET l == Len(sent) + 1
         IN  /\ Len(sent') = l /\ DOMAIN sent' = 1 .. l
             /\ \A m \in 1 .. Len(sent) : sent'[m] = sent[m]
             /\ sent'[l] = e
<1>1. sent \in Seq(Entry)
  BY DEF TypeOK, Entry
<1>2. /\ Append(sent, e) \in Seq(Entry) /\ Len(Append(sent, e)) = Len(sent) + 1
      /\ \A i \in 1 .. Len(sent) : Append(sent, e)[i] = sent[i]
      /\ Append(sent, e)[Len(sent) + 1] = e
  BY <1>1, AppendProperties
<1>3. DOMAIN sent' = 1 .. Len(sent')
  BY <1>2, LenProperties
<1> QED
  BY <1>2, <1>3

\* While the connection is up and no data are due, every message is whole.
LEMMA AllWhole ==
  ASSUME NEW s \in Senders, ChanInv(s), link = "up", pc[s] # "data",
         NEW m \in DOMAIN sent
  PROVE  sent[m].whole
<1>1. TypeOK /\ WireOK /\ WholeOK
  BY DEF ChanInv, CInv
<1>2. PICK l : l = Len(sent)
  OBVIOUS
<1>3. m \in Nat /\ l \in Nat /\ m <= l /\ l \in DOMAIN sent /\ sent # <<>>
  <2>1. Len(sent) \in Nat /\ DOMAIN sent = 1 .. Len(sent)
    BY <1>1, TypeFacts
  <2>2. sent = <<>> <=> Len(sent) = 0
    BY <1>1, TypeFacts
  <2> QED
    BY <1>2, <2>1, <2>2
<1>4. Len(wire) = End(l)
  BY <1>2, <1>3 DEF ChanInv, CInv, LastOK
<1>5. End(m) <= End(l)
  <2>1. End(m) \in Nat /\ End(l) \in Nat /\ sent[l].at \in Nat
    BY <1>1, <1>3, TypeFacts
  <2>2. CASE m < l
    <3>1. End(m) <= sent[l].at /\ sent[l].at + HdrSz <= End(l)
      BY <1>1, <1>3, <2>2, OrderLemma
    <3>2. HdrSz \in Nat
      BY <1>1, TypeFacts
    <3> QED
      BY <2>1, <3>1, <3>2
  <2>3. CASE m = l
    BY <2>1, <2>3
  <2> QED
    BY <1>3, <2>2, <2>3
<1> QED
  BY <1>1, <1>4, <1>5 DEF WholeOK

\* Sending a header keeps it.
LEMMA HeaderWhole ==
  ASSUME NEW s \in Senders, ChanInv(s), SendHeader(s)
  PROVE  WholeOK'
<1>1. TypeOK /\ WholeOK /\ CInv(s) /\ pc[s] = "header"
  BY DEF ChanInv, CInv, SendHeader
<1>2. CASE link # "up"
  <2>1. UNCHANGED <<wire, sent>>
    BY <1>2 DEF SendHeader
  <2> QED
    BY <1>1, <2>1 DEF WholeOK, End, Size
<1>3. CASE link = "up"
  <2>1. PICK k \in 1 .. HdrSz, e \in Entry :
          /\ Sent(Len(sent) + 1, 1, k) /\ sent' = Append(sent, e)
          /\ e.size = call[s] /\ e.at = Len(wire)
          /\ e.whole => data_sz(call[s]) = 0
          /\ ~e.whole => k < HdrSz \/ data_sz(call[s]) # 0
    BY <1>1, <1>3, HeaderAppends
  <2>2. PICK l, c, n : l = Len(sent) + 1 /\ c = call[s] /\ n = data_sz(call[s])
    OBVIOUS
  <2>3. /\ Len(sent) \in Nat /\ DOMAIN sent = 1 .. Len(sent)
        /\ Len(wire) \in Nat /\ HdrSz \in Nat \ {0} /\ Width \in Nat \ {0}
        /\ c \in Sizes \cup {0} /\ c \in Nat
    BY <1>1, <2>2, TypeFacts DEF TypeOK
  <2>4. n \in Nat
    <3>1. data_sz(c) \in 0 .. Width - 1
      BY <2>3, SizeFacts
    <3> QED
      BY <2>2, <2>3, <3>1
  <2>5. /\ Len(sent') = l /\ DOMAIN sent' = 1 .. l
        /\ \A m \in 1 .. Len(sent) : sent'[m] = sent[m]
        /\ sent'[l] = e
    BY <1>1, <2>1, <2>2, Appended
  <2>6. Len(wire') = Len(wire) + k
    <3>1. 1 \in Nat /\ k \in Nat /\ 1 <= k /\ Len(sent) + 1 \in Nat
      BY <2>3
    <3>2. Len(wire') = Len(wire) + (k - 1 + 1)
      BY <1>1, <2>1, <3>1, SentLemma
    <3> QED
      BY <2>3, <3>1, <3>2
  <2> SUFFICES ASSUME NEW m \in DOMAIN sent', End(m)' <= Len(wire')
               PROVE  sent'[m].whole
    BY DEF WholeOK
  <2>7. CASE m \in DOMAIN sent
    <3>1. sent'[m] = sent[m]
      BY <2>3, <2>5, <2>7
    <3>2. sent[m].whole
      BY <1>1, <1>3, <2>7, AllWhole
    <3> QED
      BY <3>1, <3>2
  <2>8. CASE m = l
    <3>1. sent'[l].at = Len(wire) /\ sent'[l].size = c
      BY <2>1, <2>2, <2>5
    <3>2. End(l)' = Len(wire) + (HdrSz + n)
      BY <2>2, <3>1 DEF End, Size
    <3>3. Len(wire) + (HdrSz + n) <= Len(wire) + k
      BY <2>6, <2>8, <3>2
    <3>4. k \in Nat /\ k <= HdrSz
      BY <2>3
    <3>5. k = HdrSz /\ n = 0
      BY ONLY <2>3, <2>4, <3>3, <3>4
    <3>6. e.whole
      BY <2>1, <2>2, <2>3, <3>5
    <3> QED
      BY <2>5, <2>8, <3>6
  <2> QED
    BY <2>2, <2>3, <2>5, <2>7, <2>8
<1> QED
  BY <1>2, <1>3

\* Sending the data marks the last message, or stops before its end.
LEMMA DataMarks ==
  ASSUME NEW s \in Senders, CInv(s), SendData(s), link = "up"
  PROVE  LET l == Len(sent)
         IN  /\ l \in DOMAIN sent
             /\ \/ sent' = [sent EXCEPT ![l].whole = TRUE]
                \/ UNCHANGED sent /\ Len(wire') < End(l)
<1>1. TypeOK /\ LastOK(s) /\ pc[s] = "data"
  BY DEF CInv, SendData
<1>2. PICK l, n : l = Len(sent) /\ n = data_sz(call[s])
  OBVIOUS
<1>3. /\ sent # <<>> /\ sent[l].size = call[s]
      /\ Len(wire) = sent[l].at + HdrSz
  BY <1>1, <1>2 DEF LastOK
<1>4. l \in DOMAIN sent /\ l \in Nat
  BY <1>1, <1>2, <1>3, TypeFacts
<1>5. /\ sent[l].at \in Nat /\ HdrSz \in Nat /\ n \in Nat /\ Len(wire) \in Nat
      /\ End(l) = sent[l].at + HdrSz + n
  <2>1. /\ sent[l].at \in Nat /\ data_sz(sent[l].size) \in 0 .. Width - 1
        /\ End(l) = sent[l].at + HdrSz + data_sz(sent[l].size)
        /\ HdrSz \in Nat /\ Len(wire) \in Nat
    BY <1>1, <1>4, TypeFacts
  <2>2. n = data_sz(sent[l].size)
    BY <1>2, <1>3
  <2>3. n \in 0 .. Width - 1 /\ End(l) = sent[l].at + HdrSz + n
    BY <2>1, <2>2, Zenon
  <2> QED
    BY <2>1, <2>3
<1>6. \/ sent' = [sent EXCEPT ![l].whole = TRUE]
      \/ UNCHANGED sent /\ \E k \in 1 .. n - 1 : Sent(l, HdrSz + 1, HdrSz + k)
  BY <1>2 DEF SendData
<1>7. CASE UNCHANGED sent /\ \E k \in 1 .. n - 1 : Sent(l, HdrSz + 1, HdrSz + k)
  <2>1. PICK k \in 1 .. n - 1 : Sent(l, HdrSz + 1, HdrSz + k)
    BY <1>7
  <2>2. /\ k \in Nat /\ k < n /\ HdrSz + 1 \in Nat /\ HdrSz + k \in Nat
        /\ HdrSz + 1 <= HdrSz + k
    BY <1>5
  <2>3. Len(wire') = Len(wire) + k
    <3>1. PICK a, b : a = HdrSz + 1 /\ b = HdrSz + k
      OBVIOUS
    <3>2. a \in Nat /\ b \in Nat /\ a <= b /\ Sent(l, a, b)
      BY <2>1, <2>2, <3>1, Zenon
    <3>3. Len(wire') = Len(wire) + (b - a + 1)
      BY <1>1, <1>4, <3>2, SentLemma
    <3> QED
      BY ONLY <1>5, <2>2, <3>1, <3>3
  <2>4. Len(wire') < End(l)
    BY ONLY <1>3, <1>5, <2>2, <2>3
  <2> QED
    BY <1>2, <1>4, <1>7, <2>4
<1> QED
  BY <1>2, <1>4, <1>6, <1>7

\* Sending the data keeps it.
LEMMA DataWhole ==
  ASSUME NEW s \in Senders, ChanInv(s), SendData(s)
  PROVE  WholeOK'
<1>1. TypeOK /\ WireOK /\ WholeOK /\ CInv(s) /\ LastOK(s) /\ pc[s] = "data"
  BY DEF ChanInv, CInv, SendData
<1>2. CASE link # "up"
  <2>1. UNCHANGED <<wire, sent>>
    BY <1>2 DEF SendData
  <2> QED
    BY <1>1, <2>1 DEF WholeOK, End, Size
<1>3. CASE link = "up"
  <2>1. PICK l : l = Len(sent)
    OBVIOUS
  <2>2. /\ l \in DOMAIN sent
        /\ \/ sent' = [sent EXCEPT ![l].whole = TRUE]
           \/ UNCHANGED sent /\ Len(wire') < End(l)
    BY <1>1, <1>3, <2>1, DataMarks
  <2>3. /\ DOMAIN sent' = DOMAIN sent /\ DOMAIN sent = 1 .. Len(sent)
        /\ Len(sent) \in Nat
        /\ \A m \in DOMAIN sent :
             /\ sent'[m].size = sent[m].size /\ sent'[m].at = sent[m].at
             /\ m # l => sent'[m].whole = sent[m].whole
    <3>1. DOMAIN sent = 1 .. Len(sent) /\ Len(sent) \in Nat
      BY <1>1, TypeFacts
    <3>2. \A m \in DOMAIN sent : sent[m] \in
            [size : Sizes \cup {0}, at : Nat, head : Header, whole : BOOLEAN]
      BY <1>1, TypeFacts
    <3> QED
      BY <2>2, <3>1, <3>2
  <2> SUFFICES ASSUME NEW m \in DOMAIN sent', End(m)' <= Len(wire')
               PROVE  sent'[m].whole
    BY DEF WholeOK
  <2>4. End(m)' = End(m)
    BY <2>3 DEF End, Size
  <2>5. CASE m = l
    <3>1. End(l) \in Nat
      BY <1>1, <2>2, TypeFacts
    <3>2. Len(wire') \in Nat
      BY <1>1, TypeStep, LenProperties DEF Next, SenderStep, TypeOK
    <3>3. sent' = [sent EXCEPT ![l].whole = TRUE]
      BY <2>2, <2>4, <2>5, <3>1, <3>2
    <3> QED
      BY <1>1, <2>2, <2>5, <3>3, TypeFacts
  <2>6. CASE m # l
    <3>1. sent[l].at \in Nat /\ End(m) <= sent[l].at /\ End(m) \in Nat
      <4>1. m \in Nat /\ l \in Nat /\ m < l
        BY <2>1, <2>2, <2>3, <2>6
      <4> QED
        BY <1>1, <2>2, <2>3, <4>1, TypeFacts, OrderLemma
    <3>2. Len(wire) = sent[l].at + HdrSz /\ HdrSz \in Nat
      BY <1>1, <1>3, <2>1, TypeFacts DEF LastOK
    <3>3. End(m) <= Len(wire)
      BY ONLY <3>1, <3>2
    <3> QED
      BY <1>1, <2>3, <2>6, <3>3 DEF WholeOK
  <2> QED
    BY <2>5, <2>6
<1> QED
  BY <1>2, <1>3

\* The invariant with it holds in every state.
LEMMA ChannelInvariant ==
  ASSUME NEW s, Senders = {s}
  PROVE  Spec => []ChanInv(s)
<1>1. Init => WholeOK
  BY DEF Init, WholeOK
<1>2. ASSUME ChanInv(s), [Next]_vars PROVE WholeOK'
  <2>1. CASE SendHeader(s)
    BY <1>2, <2>1, HeaderWhole
  <2>2. CASE SendData(s)
    BY <1>2, <2>2, DataWhole
  <2>3. CASE UNCHANGED <<wire, sent>>
    BY <1>2, <2>3 DEF ChanInv, WholeOK, End, Size
  <2>4. CASE \/ Begin(s) \/ FillCommand(s) \/ ClearChecksum(s)
             \/ FillChecksum(s) \/ Lock(s) \/ Close(s) \/ Break
    BY <2>3, <2>4
       DEF Begin, FillCommand, ClearChecksum, FillChecksum, Lock, Close, Break
  <2>5. CASE Receive
    BY <2>3, <2>5 DEF Receive, TakeHeader, DropHeader, ReadData, ReadEnd
  <2>6. CASE UNCHANGED vars
    BY <2>3, <2>6 DEF vars
  <2> QED
    BY <1>2, <2>1, <2>2, <2>4, <2>5, <2>6 DEF Next, SenderStep
<1> QED
  BY <1>1, <1>2, CommonsInvariant, PTL DEF Spec, ChanInv

Said == {Says(n) : n \in Sizes \cup {0}}

Queued == [contents : Said, whole : BOOLEAN]

Returned ==
  [place : Nat, contents : [command : Commands, data_sz : 0 .. Width - 1]]

\* The sequences of the channel are as long as those they stand for.
Reflects ==
  /\ queued \in Seq(Queued) /\ Len(queued) = Len(sent)
  /\ DOMAIN queued = 1 .. Len(sent)
  /\ \A m \in 1 .. Len(sent) :
       queued[m] = [contents |-> Says(sent[m].size), whole |-> sent[m].whole]
  /\ returned \in Seq(Returned) /\ Len(returned) = Len(got)
  /\ DOMAIN returned = 1 .. Len(got)
  /\ \A i \in 1 .. Len(got) :
       returned[i] = [place |-> got[i].msg,
                      contents |-> [command |-> got[i].command,
                                    data_sz |-> got[i].data_sz]]
  /\ Len(sent) \in Nat /\ Len(got) \in Nat
  /\ (queued = <<>> <=> Len(sent) = 0)
  /\ (returned = <<>> <=> Len(got) = 0)

\* They do in every state of the right type.
LEMMA ChannelTypes == TypeOK => Reflects
<1> SUFFICES ASSUME TypeOK PROVE Reflects
  OBVIOUS
<1>1. /\ Len(sent) \in Nat /\ DOMAIN sent = 1 .. Len(sent)
      /\ Len(got) \in Nat /\ DOMAIN got = 1 .. Len(got)
  BY TypeFacts
<1>2. ASSUME NEW m \in 1 .. Len(sent)
      PROVE  [contents |-> Says(sent[m].size), whole |-> sent[m].whole]
               \in Queued
  <2>1. sent[m].size \in Sizes \cup {0} /\ sent[m].whole \in BOOLEAN
    BY <1>1, TypeFacts
  <2>2. Says(sent[m].size) \in Said
    BY <2>1 DEF Said
  <2> QED
    BY <2>1, <2>2 DEF Queued
<1>3. ASSUME NEW i \in 1 .. Len(got)
      PROVE  [place |-> got[i].msg,
              contents |-> [command |-> got[i].command,
                            data_sz |-> got[i].data_sz]] \in Returned
  <2>1. got[i] \in [msg : Nat, command : Commands, data_sz : 0 .. Width - 1,
                    from : Int]
    BY <1>1, TypeFacts
  <2> QED
    BY <2>1 DEF Returned
<1>4. queued \in [1 .. Len(sent) -> Queued]
  BY <1>1, <1>2 DEF queued
<1>5. returned \in [1 .. Len(got) -> Returned]
  BY <1>1, <1>3 DEF returned
<1>6. queued \in Seq(Queued) /\ returned \in Seq(Returned)
  BY <1>1, <1>4, <1>5, SeqDef
<1>7. DOMAIN queued = 1 .. Len(sent) /\ DOMAIN returned = 1 .. Len(got)
  BY <1>1 DEF queued, returned
<1>8. Len(queued) = Len(sent) /\ Len(returned) = Len(got)
  BY <1>1, <1>6, <1>7, LenProperties
<1>9. (queued = <<>> <=> Len(sent) = 0) /\ (returned = <<>> <=> Len(got) = 0)
  BY <1>6, <1>8, EmptySeq
<1> QED
  BY <1>1, <1>6, <1>7, <1>8, <1>9 DEF Reflects, queued, returned

\* A sequence that is longer by one at its end was appended to.
LEMMA IsAppend ==
  ASSUME NEW S, NEW q \in Seq(S), NEW r \in Seq(S), NEW x \in S,
         Len(r) = Len(q) + 1, r[Len(q) + 1] = x,
         \A i \in 1 .. Len(q) : r[i] = q[i]
  PROVE  r = Append(q, x)
<1>1. /\ Append(q, x) \in Seq(S) /\ Len(Append(q, x)) = Len(q) + 1
      /\ \A i \in 1 .. Len(q) : Append(q, x)[i] = q[i]
      /\ Append(q, x)[Len(q) + 1] = x
  BY AppendProperties
<1>2. Len(q) \in Nat
  BY LenProperties
<1>3. \A i \in 1 .. Len(r) : i \in 1 .. Len(q) \/ i = Len(q) + 1
  BY <1>2
<1>4. \A i \in 1 .. Len(r) : r[i] = Append(q, x)[i]
  BY <1>1, <1>3
<1> QED
  BY <1>1, <1>4, SeqEqual

\* A header begins a message of the channel.
LEMMA BeginStep ==
  ASSUME NEW s \in Senders, ChanInv(s), TypeOK', SendHeader(s), link = "up"
  PROVE  Channel!Begin
<1>1. TypeOK /\ CInv(s) /\ pc[s] = "header"
  BY DEF ChanInv, CInv, SendHeader
<1>2. PICK k \in 1 .. HdrSz, e \in Entry :
        /\ Sent(Len(sent) + 1, 1, k) /\ sent' = Append(sent, e)
        /\ e.size = call[s] /\ e.at = Len(wire)
        /\ e.whole => data_sz(call[s]) = 0
        /\ ~e.whole => k < HdrSz \/ data_sz(call[s]) # 0
  BY <1>1, HeaderAppends
<1>3. PICK l, c, w : l = Len(sent) + 1 /\ c = e.size /\ w = e.whole
  OBVIOUS
<1>4. c \in Sizes \cup {0} /\ w \in BOOLEAN
  BY <1>3 DEF Entry
<1>5. /\ Len(sent') = l /\ DOMAIN sent' = 1 .. l
      /\ \A m \in 1 .. Len(sent) : sent'[m] = sent[m]
      /\ sent'[l] = e
  BY <1>1, <1>2, <1>3, Appended
<1> DEFINE x == [contents |-> Says(c), whole |-> w]
<1>6. Says(c) \in Said /\ x \in Queued
  BY <1>4 DEF Said, Queued
<1>7. /\ queued \in Seq(Queued) /\ Len(queued) = Len(sent)
      /\ Len(sent) \in Nat /\ DOMAIN queued = 1 .. Len(sent)
      /\ \A m \in 1 .. Len(sent) :
           queued[m] = [contents |-> Says(sent[m].size),
                        whole |-> sent[m].whole]
  BY <1>1, ChannelTypes DEF Reflects
<1>8. /\ queued' \in Seq(Queued) /\ Len(queued') = l
      /\ \A m \in 1 .. l :
           queued'[m] = [contents |-> Says(sent'[m].size),
                         whole |-> sent'[m].whole]
  <2>1. /\ queued' \in Seq(Queued) /\ Len(queued)' = Len(sent')
        /\ \A m \in 1 .. Len(sent') :
             queued'[m] = [contents |-> Says(sent'[m].size),
                           whole |-> sent'[m].whole]
    <3>1. Reflects'
      BY ChannelTypes, PTL
    <3> QED
      BY <3>1 DEF Reflects
  <2> QED
    BY <1>5, <2>1
<1>9. \A m \in 1 .. Len(sent) : m \in 1 .. l /\ queued'[m] = queued[m]
  <2>1. \A m \in 1 .. Len(sent) : m \in 1 .. l
    BY <1>3, <1>7
  <2> QED
    BY <1>5, <1>7, <1>8, <2>1
<1>10. queued'[l] = x
  <2>1. l \in 1 .. l
    BY <1>3, <1>7
  <2>2. sent'[l].size = c /\ sent'[l].whole = w
    BY <1>3, <1>5
  <2> QED
    BY <1>8, <2>1, <2>2
<1> HIDE DEF x
<1>11. queued' = Append(queued, x)
  BY <1>3, <1>6, <1>7, <1>8, <1>9, <1>10, IsAppend
<1>12. \A i \in DOMAIN queued : queued[i].whole
  <2>1. \A m \in DOMAIN sent : sent[m].whole
    BY <1>1, AllWhole
  <2>2. DOMAIN sent = 1 .. Len(sent)
    BY <1>1, TypeFacts
  <2> QED
    BY <1>7, <2>1, <2>2
<1>13. UNCHANGED <<returned, split, rpc>>
  BY DEF SendHeader, recvVars, returned
<1> QED
  <2>1. Says(c) \in {Says(n) : n \in Sizes \cup {0}}
    BY <1>6 DEF Said
  <2>2. \E d \in {Says(n) : n \in Sizes \cup {0}}, v \in BOOLEAN :
          queued' = Append(queued, [contents |-> d, whole |-> v])
    BY <1>4, <1>11, <2>1 DEF x
  <2> QED
    BY <1>12, <1>13, <2>2, Zenon DEF Channel!Begin

\* The data complete it, or leave it as it is.
LEMMA CompleteStep ==
  ASSUME NEW s \in Senders, ChanInv(s), TypeOK', SendData(s), link = "up"
  PROVE  Channel!Complete \/ UNCHANGED sent
<1>1. TypeOK /\ CInv(s)
  BY DEF ChanInv, CInv
<1>2. PICK l : l = Len(sent)
  OBVIOUS
<1>3. l \in DOMAIN sent /\ (sent' = [sent EXCEPT ![l].whole = TRUE]
                            \/ UNCHANGED sent)
  BY <1>1, <1>2, DataMarks
<1>4. CASE sent' = [sent EXCEPT ![l].whole = TRUE]
  <2>1. /\ DOMAIN sent = 1 .. l /\ l \in Nat /\ DOMAIN sent' = DOMAIN sent
        /\ l # 0
        /\ \A m \in DOMAIN sent :
             /\ sent'[m].size = sent[m].size
             /\ sent'[m].whole = IF m = l THEN TRUE ELSE sent[m].whole
    <3>1. DOMAIN sent = 1 .. Len(sent) /\ Len(sent) \in Nat
      BY <1>1, TypeFacts
    <3>2. \A m \in DOMAIN sent : sent[m] \in
            [size : Sizes \cup {0}, at : Nat, head : Header, whole : BOOLEAN]
      BY <1>1, TypeFacts
    <3>3. DOMAIN sent = 1 .. l /\ l \in Nat /\ l # 0
      BY <1>2, <1>3, <3>1
    <3>4. \A m \in DOMAIN sent :
            /\ sent'[m].size = sent[m].size
            /\ sent'[m].whole = IF m = l THEN TRUE ELSE sent[m].whole
      BY <1>3, <1>4, <3>2
    <3>5. DOMAIN sent' = DOMAIN sent
      BY <1>4
    <3> QED
      BY <3>3, <3>4, <3>5
  <2>2. /\ queued = [m \in 1 .. l |-> [contents |-> Says(sent[m].size),
                                       whole |-> sent[m].whole]]
        /\ queued' = [m \in 1 .. l |-> [contents |-> Says(sent'[m].size),
                                        whole |-> sent'[m].whole]]
    BY <2>1 DEF queued
  <2>3. queued' = [queued EXCEPT ![l].whole = TRUE]
    BY <2>1, <2>2
  <2>4. Len(queued) = l /\ queued # <<>>
    BY <1>1, <1>2, <2>1, ChannelTypes DEF Reflects
  <2>5. UNCHANGED <<returned, split, rpc>>
    BY DEF SendData, recvVars, returned
  <2> QED
    BY <2>3, <2>4, <2>5 DEF Channel!Complete
<1> QED
  BY <1>3, <1>4

\* What is returned is the next message of the channel, or a later one when
\* the stream is out of step.
LEMMA DeliverStep ==
  ASSUME SizesFit, NEW s \in Senders, ChanInv(s), CInv(s)',
         NEW g, got' = Append(got, g),
         g \in [msg : Nat, command : Commands, data_sz : 0 .. Width - 1,
                from : Int],
         UNCHANGED <<wire, sent, split>>,
         rpc # "disconnect", rpc' # "disconnect"
  PROVE  Channel!Deliver
<1>1. /\ TypeOK /\ TypeOK' /\ WholeOK /\ GotOK' /\ StepOK /\ StepOK'
      /\ Framed' /\ InOrder' /\ WireOK
  BY DEF ChanInv, CInv, GotOK
<1>2. PICK n : n = Len(got)
  OBVIOUS
<1>3. /\ n \in Nat /\ DOMAIN got = 1 .. n /\ Len(got') = n + 1
      /\ DOMAIN got' = 1 .. n + 1 /\ got'[n + 1] = g
      /\ \A i \in 1 .. n : got'[i] = got[i]
  <2> DEFINE G == [msg : Nat, command : Commands, data_sz : 0 .. Width - 1,
                   from : Int]
  <2>1. got \in Seq(G) /\ g \in G
    BY <1>1 DEF TypeOK
  <2> HIDE DEF G
  <2>2. n \in Nat /\ DOMAIN got = 1 .. n
    BY <1>2, <2>1, LenProperties
  <2>3. /\ Append(got, g) \in Seq(G) /\ Len(Append(got, g)) = n + 1
        /\ \A i \in 1 .. n : Append(got, g)[i] = got[i]
        /\ Append(got, g)[n + 1] = g
    BY <1>2, <2>1, AppendProperties
  <2>4. DOMAIN got' = 1 .. n + 1
    BY <2>3, LenProperties
  <2> QED
    BY <2>2, <2>3, <2>4
<1>4. n + 1 \in DOMAIN got'
  BY <1>3
<1>5. /\ g.msg \in DOMAIN sent /\ g.command = command(sent[g.msg].size)
      /\ g.data_sz = data_sz(sent[g.msg].size) /\ End(g.msg)' <= rd'
  BY <1>1, <1>3, <1>4 DEF Framed, GotOK
<1>6. PICK m : m = g.msg
  OBVIOUS
<1>7. m \in DOMAIN sent /\ m \in Nat /\ m \in 1 .. Len(sent)
  BY <1>1, <1>5, <1>6, TypeFacts
<1>8. sent[m].whole
  <2>1. End(m)' = End(m) /\ End(m) \in Nat
    BY <1>1, <1>7, TypeFacts DEF End, Size
  <2>2. rd' <= Len(wire) /\ rd' \in Nat /\ Len(wire) \in Nat
    <3>1. Len(wire) \in Nat /\ rd' \in 0 .. Len(wire')
      BY <1>1, TypeFacts DEF TypeOK
    <3> QED
      BY <3>1
  <2>3. End(m) <= Len(wire)
    BY <1>5, <1>6, <2>1, <2>2
  <2> QED
    BY <1>1, <1>7, <2>3 DEF WholeOK
<1>9. /\ returned \in Seq(Returned) /\ Len(returned) = n
      /\ (returned = <<>> <=> n = 0)
      /\ \A i \in 1 .. n :
           returned[i] = [place |-> got[i].msg,
                          contents |-> [command |-> got[i].command,
                                        data_sz |-> got[i].data_sz]]
      /\ queued[m] = [contents |-> Says(sent[m].size),
                      whole |-> sent[m].whole]
      /\ m \in DOMAIN queued
  BY <1>1, <1>2, <1>7, ChannelTypes DEF Reflects
<1>10. /\ returned' \in Seq(Returned) /\ Len(returned') = n + 1
       /\ \A i \in 1 .. n + 1 :
            returned'[i] = [place |-> got'[i].msg,
                            contents |-> [command |-> got'[i].command,
                                          data_sz |-> got'[i].data_sz]]
  <2>1. /\ returned' \in Seq(Returned) /\ Len(returned') = Len(got')
        /\ \A i \in 1 .. Len(got') :
             returned'[i] = [place |-> got'[i].msg,
                             contents |-> [command |-> got'[i].command,
                                           data_sz |-> got'[i].data_sz]]
    <3>1. Reflects'
      BY <1>1, ChannelTypes, PTL
    <3> QED
      BY <3>1 DEF Reflects
  <2> QED
    BY <1>3, <2>1
<1> DEFINE x == [place |-> m, contents |-> queued[m].contents]
<1>11. returned'[n + 1] = x
  <2>1. n + 1 \in 1 .. n + 1
    BY <1>3
  <2>2. queued[m].contents
          = [command |-> g.command, data_sz |-> g.data_sz]
    <3>1. sent[m].size \in Sizes \cup {0}
      BY <1>1, <1>7, TypeFacts
    <3>2. g.data_sz = sent[m].size
      BY <1>5, <1>6, <3>1, FitsIsKept
    <3> QED
      BY <1>5, <1>6, <1>9, <3>2 DEF Says
  <2> QED
    BY <1>3, <1>6, <1>10, <2>1, <2>2
<1>12. \A i \in 1 .. n : returned'[i] = returned[i]
  <2> SUFFICES ASSUME NEW i \in 1 .. n PROVE returned'[i] = returned[i]
    OBVIOUS
  <2>1. i \in 1 .. n + 1
    BY <1>3
  <2>2. got'[i] = got[i]
    BY <1>3
  <2>3. returned'[i] = [place |-> got'[i].msg,
                        contents |-> [command |-> got'[i].command,
                                      data_sz |-> got'[i].data_sz]]
    BY <1>10, <2>1
  <2> QED
    BY <1>9, <2>2, <2>3
<1>13. x \in Returned
  <2>1. n + 1 \in 1 .. Len(returned')
    BY <1>3, <1>10
  <2>2. returned'[n + 1] \in Returned
    BY <1>10, <2>1, ElementOfSeq
  <2> QED
    BY <1>11, <2>2
<1> HIDE DEF x
<1>14. returned' = Append(returned, x)
  BY <1>9, <1>10, <1>11, <1>12, <1>13, IsAppend
<1>15. Channel!Latest = IF n = 0 THEN 0 ELSE got[n].msg
  <2>1. CASE n = 0
    BY <1>9, <2>1 DEF Channel!Latest
  <2>2. CASE n # 0
    <3>1. n \in 1 .. n /\ returned # <<>>
      BY <1>3, <1>9, <2>2
    <3>2. returned[n].place = got[n].msg
      BY <1>9, <3>1
    <3> QED
      BY <1>9, <2>2, <3>1, <3>2 DEF Channel!Latest
  <2> QED
    BY <2>1, <2>2
<1>16. IF split THEN m > Channel!Latest ELSE m = Channel!Latest + 1
  <2>1. CASE n = 0
    <3>1. ~split => m = 1
      BY <1>1, <1>3, <1>4, <1>6, <2>1 DEF StepOK
    <3>2. m \in Nat /\ m > 0
      BY <1>1, <1>7, TypeFacts
    <3> QED
      BY <1>15, <2>1, <3>1, <3>2
  <2>2. CASE n # 0
    <3>1. n \in DOMAIN got' /\ n < n + 1 /\ got'[n] = got[n] /\ n \in DOMAIN got
      BY <1>3, <2>2
    <3>2. got[n].msg < m
      BY <1>1, <1>3, <1>4, <1>6, <3>1 DEF InOrder
    <3>3. ~split => m = n + 1 /\ got[n].msg = n
      BY <1>1, <1>3, <1>4, <1>6, <3>1 DEF StepOK
    <3>4. got[n].msg \in Nat
      BY <1>1, <3>1, TypeFacts
    <3> QED
      BY <1>7, <1>15, <2>2, <3>2, <3>3, <3>4
  <2> QED
    BY <2>1, <2>2
<1>17. UNCHANGED queued
  BY DEF queued
<1>18. queued[m].whole
  BY <1>8, <1>9
<1> QED
  BY <1>9, <1>14, <1>16, <1>17, <1>18 DEF Channel!Deliver, x

\* Each step of the program is a step of the channel, or none.
LEMMA ChannelStep ==
  ASSUME SizesFit, NEW s, Senders = {s}, ChanInv(s), CInv(s)', [Next]_vars
  PROVE  [Channel!Next]_<<queued, returned, split, rpc = "disconnect">>
<1> DEFINE Quiet == UNCHANGED <<queued, returned, split, rpc = "disconnect">>
<1>1. s \in Senders /\ TypeOK /\ TypeOK' /\ CInv(s)
  BY DEF ChanInv, CInv
<1>2. ASSUME UNCHANGED <<sent, got, split, rpc>> PROVE Quiet
  BY <1>2 DEF queued, returned
<1>3. CASE \/ Begin(s) \/ FillCommand(s) \/ ClearChecksum(s)
           \/ FillChecksum(s) \/ Lock(s) \/ Close(s) \/ Break
  BY <1>2, <1>3
     DEF Begin, FillCommand, ClearChecksum, FillChecksum, Lock, Close, Break,
         recvVars
<1>4. CASE SendHeader(s)
  <2>1. CASE link = "up"
    BY <1>1, <1>4, <2>1, BeginStep DEF Channel!Next
  <2>2. CASE link # "up"
    BY <1>2, <1>4, <2>2 DEF SendHeader, recvVars
  <2> QED
    BY <2>1, <2>2
<1>5. CASE SendData(s)
  <2>1. CASE link = "up"
    <3>1. Channel!Complete \/ UNCHANGED sent
      BY <1>1, <1>5, <2>1, CompleteStep
    <3>2. UNCHANGED <<got, split, rpc>>
      BY <1>5 DEF SendData, recvVars
    <3> QED
      BY <1>2, <3>1, <3>2 DEF Channel!Next
  <2>2. CASE link # "up"
    BY <1>2, <1>5, <2>2 DEF SendData, recvVars
  <2> QED
    BY <2>1, <2>2
<1>6. CASE TakeHeader
  <2>1. \E m \in 1 .. Len(sent) : \E h, msg :
          /\ h = sent[m].head
          /\ msg = [msg |-> m, command |-> h.command,
                    data_sz |-> h.msg_num_bytes, left |-> h.msg_num_bytes]
          /\ IF h.msg_num_bytes = 0
             THEN got' = Delivered(msg, rd + HdrSz) /\ UNCHANGED rpc
             ELSE rpc' = "data" /\ UNCHANGED got
    BY <1>6 DEF TakeHeader
  <2>2. PICK m \in 1 .. Len(sent) : \E h, msg :
          /\ h = sent[m].head
          /\ msg = [msg |-> m, command |-> h.command,
                    data_sz |-> h.msg_num_bytes, left |-> h.msg_num_bytes]
          /\ IF h.msg_num_bytes = 0
             THEN got' = Delivered(msg, rd + HdrSz) /\ UNCHANGED rpc
             ELSE rpc' = "data" /\ UNCHANGED got
    BY <2>1
  <2>3. PICK h, msg :
          /\ h = sent[m].head
          /\ msg = [msg |-> m, command |-> h.command,
                    data_sz |-> h.msg_num_bytes, left |-> h.msg_num_bytes]
          /\ IF h.msg_num_bytes = 0
             THEN got' = Delivered(msg, rd + HdrSz) /\ UNCHANGED rpc
             ELSE rpc' = "data" /\ UNCHANGED got
    BY <2>2
  <2>4. rpc = "header" /\ UNCHANGED <<wire, sent, split>>
    BY <1>6 DEF TakeHeader
  <2>5. CASE h.msg_num_bytes # 0
    <3>1. UNCHANGED <<sent, got, split>> /\ rpc' = "data"
      BY <2>3, <2>4, <2>5
    <3> QED
      BY <2>4, <3>1 DEF queued, returned
  <2>6. CASE h.msg_num_bytes = 0
    <3>1. PICK g : g = [msg |-> msg.msg, command |-> msg.command,
                        data_sz |-> msg.data_sz, from |-> rd + HdrSz]
      OBVIOUS
    <3>2. got' = Append(got, g) /\ rpc' = "header"
      BY <2>3, <2>4, <2>6, <3>1 DEF Delivered
    <3>3. g \in [msg : Nat, command : Commands, data_sz : 0 .. Width - 1,
                 from : Int]
      <4>1. h \in Header
        BY <1>1, <2>3, TypeFacts
      <4>2. h.command \in Commands /\ h.msg_num_bytes \in 0 .. Width - 1
        BY <4>1 DEF Header
      <4>3. rd + HdrSz \in Int /\ m \in Nat
        <5>1. Len(wire) \in Nat /\ rd \in 0 .. Len(wire) /\ HdrSz \in Nat
              /\ Len(sent) \in Nat
          BY <1>1, TypeFacts
        <5> QED
          BY <5>1
      <4> QED
        BY <2>3, <3>1, <4>2, <4>3
    <3> QED
      BY <1>1, <2>4, <3>2, <3>3, DeliverStep DEF Channel!Next
  <2> QED
    BY <2>5, <2>6
<1>7. CASE DropHeader
  <2>1. split' = split \/ split' = TRUE
    BY <1>1, <1>7 DEF DropHeader, TypeOK
  <2>2. UNCHANGED <<sent, got, rpc>> /\ rpc = "header"
    BY <1>7 DEF DropHeader
  <2> QED
    BY <1>2, <2>1, <2>2 DEF Channel!Next, Channel!Tear, queued, returned
<1>8. CASE ReadData
  <2>1. PICK k \in BytesLeft : \E msg :
          /\ msg = [temp_msg EXCEPT !.left = @ - k]
          /\ IF msg.left = 0
             THEN /\ rpc' = "header"
                  /\ got' = Delivered(msg, rd + k - msg.data_sz)
             ELSE UNCHANGED <<rpc, got>>
    BY <1>8 DEF ReadData
  <2>2. PICK msg :
          /\ msg = [temp_msg EXCEPT !.left = @ - k]
          /\ IF msg.left = 0
             THEN /\ rpc' = "header"
                  /\ got' = Delivered(msg, rd + k - msg.data_sz)
             ELSE UNCHANGED <<rpc, got>>
    BY <2>1
  <2>3. rpc = "data" /\ UNCHANGED <<wire, sent, split>>
    BY <1>8 DEF ReadData
  <2>4. CASE msg.left # 0
    BY <1>2, <2>2, <2>3, <2>4
  <2>5. CASE msg.left = 0
    <3>1. PICK g : g = [msg |-> msg.msg, command |-> msg.command,
                        data_sz |-> msg.data_sz,
                        from |-> rd + k - msg.data_sz]
      OBVIOUS
    <3>2. got' = Append(got, g) /\ rpc' = "header"
      BY <2>2, <2>5, <3>1 DEF Delivered
    <3>3. g \in [msg : Nat, command : Commands, data_sz : 0 .. Width - 1,
                 from : Int]
      <4>1. /\ msg.msg = temp_msg.msg /\ msg.command = temp_msg.command
            /\ msg.data_sz = temp_msg.data_sz
            /\ temp_msg.msg \in Nat /\ temp_msg.command \in Commands
            /\ temp_msg.data_sz \in 0 .. Width - 1
            /\ temp_msg.left \in 0 .. Width - 1
        BY <1>1, <2>2 DEF TypeOK
      <4>2. rd + k - msg.data_sz \in Int
        <5>1. /\ Len(wire) \in Nat /\ rd \in 0 .. Len(wire) /\ Width \in Nat
          BY <1>1, TypeFacts
        <5>2. k \in Int
          BY <2>2, <5>1 DEF BytesLeft, Reads, Left
        <5> QED
          BY <4>1, <5>1, <5>2
      <4> QED
        BY <3>1, <4>1, <4>2
    <3> QED
      BY <1>1, <2>3, <3>2, <3>3, DeliverStep DEF Channel!Next
  <2> QED
    BY <2>4, <2>5
<1>9. CASE ReadEnd
  <2>1. UNCHANGED <<sent, got, split>> /\ rpc' = "disconnect"
    BY <1>9 DEF ReadEnd
  <2> QED
    BY <2>1 DEF Channel!Next, Channel!End, queued, returned
<1>10. CASE UNCHANGED vars
  BY <1>2, <1>10 DEF vars, recvVars
<1> QED
  BY <1>3, <1>4, <1>5, <1>6, <1>7, <1>8, <1>9, <1>10
     DEF Next, SenderStep, Receive

\* With one sending thread the bytes on the wire and the reads of the receiver
\* implement the channel of whole messages for which the libraries and the
\* services take a connection, whatever the reads return and wherever the
\* connection breaks.  The sizes of the callers are those that fit.
THEOREM CommonsImplementsChannel ==
  ASSUME NEW s, Senders = {s}, SizesFit
  PROVE  Spec => ChannelSpec
<1>1. Init => Channel!Init
  BY DEF Init, Channel!Init, queued, returned
<1>2. ChanInv(s) /\ CInv(s)' /\ [Next]_vars
        => [Channel!Next]_<<queued, returned, split, rpc = "disconnect">>
  BY ChannelStep
<1> QED
  BY <1>1, <1>2, ChannelInvariant, CommonsInvariant, PTL
     DEF Spec, ChannelSpec, Channel!Spec, Channel!channelVars

-----------------------------------------------------------------------------
(* Several sending threads.                                                *)

\* The mutex is held from the header to the last byte of the data.
MutexOK == \A t \in Senders : pc[t] \in {"header", "data"} <=> mutex_sendData = t

\* LastOK of whichever thread holds the mutex.
TailOK ==
  link = "up" =>
    /\ (\A t \in Senders : pc[t] # "data") =>
         Len(wire) = IF sent = <<>> THEN 0 ELSE End(Len(sent))
    /\ \A t \in Senders : pc[t] = "data" =>
         /\ sent # <<>> /\ sent[Len(sent)].size = call[t]
         /\ Len(wire) = sent[Len(sent)].at + HdrSz
         /\ data_sz(call[t]) # 0

MixInv == TypeOK /\ WireOK /\ MutexOK /\ TailOK

\* At most one thread is between its header and the end of its data.
LEMMA OneHolder ==
  ASSUME MutexOK, NEW t \in Senders, NEW u \in Senders,
         pc[t] \in {"header", "data"}, pc[u] \in {"header", "data"}
  PROVE  t = u
BY DEF MutexOK

\* What a step of one thread does to the places of all.
LEMMA GotoFacts ==
  ASSUME TypeOK, NEW t \in Senders, NEW label, Goto(t, label)
  PROVE  /\ pc'[t] = label
         /\ \A u \in Senders \ {t} : pc'[u] = pc[u]
BY DEF TypeOK, Goto

\* Every step keeps the mutex.
LEMMA MutexStep ==
  ASSUME TypeOK, MutexOK, [Next]_vars
  PROVE  MutexOK'
<1>1. Nobody \notin Senders
  BY CommonsAssumption
<1>2. ASSUME NEW t \in Senders,
             \/ Begin(t) \/ FillCommand(t) \/ ClearChecksum(t)
             \/ FillChecksum(t) \/ Close(t)
      PROVE  MutexOK'
  <2>1. PICK label \in {"idle", "command", "clear", "checksum", "lock"} :
          Goto(t, label)
    BY <1>2 DEF Begin, FillCommand, ClearChecksum, FillChecksum, Close
  <2>2. UNCHANGED mutex_sendData /\ pc[t] \notin {"header", "data"}
    BY <1>2 DEF Begin, FillCommand, ClearChecksum, FillChecksum, Close
  <2> QED
    BY <2>1, <2>2, GotoFacts DEF MutexOK
<1>3. ASSUME NEW t \in Senders, Lock(t) PROVE MutexOK'
  <2>1. Goto(t, "header") /\ mutex_sendData = Nobody /\ mutex_sendData' = t
    BY <1>3 DEF Lock
  <2> QED
    BY <1>1, <2>1, GotoFacts DEF MutexOK
<1>4. ASSUME NEW t \in Senders, SendHeader(t) \/ SendData(t) PROVE MutexOK'
  <2>1. pc[t] \in {"header", "data"}
    BY <1>4 DEF SendHeader, SendData
  <2>2. mutex_sendData = t
    BY <2>1 DEF MutexOK
  <2>3. CASE Goto(t, "data") /\ UNCHANGED mutex_sendData
    BY <2>2, <2>3, GotoFacts DEF MutexOK
  <2>4. CASE Goto(t, "return") /\ mutex_sendData' = Nobody
    BY <1>1, <2>2, <2>4, GotoFacts DEF MutexOK
  <2> QED
    BY <1>4, <2>3, <2>4 DEF SendHeader, SendData, Return
<1>5. CASE UNCHANGED <<mutex_sendData, pc>>
  BY <1>5 DEF MutexOK
<1>6. CASE Receive \/ Break \/ UNCHANGED vars
  BY <1>5, <1>6 DEF Receive, TakeHeader, DropHeader, ReadData, ReadEnd, Break,
                    vars, sendVars
<1> QED
  BY <1>2, <1>3, <1>4, <1>6 DEF Next, SenderStep

\* Steps that put nothing on the wire.
LEMMA SilentStep ==
  ASSUME MixInv, UNCHANGED <<wire, sent>>,
         \A t \in Senders : pc'[t] = "data" <=> pc[t] = "data",
         \A t \in Senders : pc[t] = "data" => call'[t] = call[t],
         link' = "up" => link = "up"
  PROVE  WireOK' /\ TailOK'
<1>1. WireOK /\ TailOK
  BY DEF MixInv
<1>2. WireOK'
  BY <1>1 DEF WireOK, End, Size
<1>3. TailOK'
  <2> SUFFICES ASSUME link' = "up"
               PROVE  /\ (\A t \in Senders : pc'[t] # "data") =>
                           Len(wire) = IF sent = <<>> THEN 0
                                       ELSE End(Len(sent))
                      /\ \A t \in Senders : pc'[t] = "data" =>
                           /\ sent # <<>> /\ sent[Len(sent)].size = call'[t]
                           /\ Len(wire) = sent[Len(sent)].at + HdrSz
                           /\ data_sz(call'[t]) # 0
    BY DEF TailOK, End, Size
  <2> QED
    BY <1>1 DEF TailOK
<1> QED
  BY <1>2, <1>3

\* A header is sent by the holder of the mutex, behind a whole message.
LEMMA MixHeader ==
  ASSUME NEW t \in Senders, MixInv, SendHeader(t)
  PROVE  WireOK' /\ TailOK'
<1>1. /\ TypeOK /\ WireOK /\ MutexOK /\ TailOK /\ pc[t] = "header"
      /\ UNCHANGED call
  BY DEF MixInv, SendHeader
<1>2. \A u \in Senders : pc[u] # "data"
  BY <1>1, OneHolder
<1>3. CASE link # "up"
  <2>1. UNCHANGED <<link, wire, sent>> /\ Goto(t, "return")
    BY <1>3 DEF SendHeader, Return
  <2>2. \A u \in Senders : pc'[u] # "data"
    BY <1>1, <1>2, <2>1, GotoFacts
  <2> QED
    BY <1>1, <1>2, <2>1, <2>2, SilentStep
<1>4. CASE link = "up"
  <2> DEFINE e == [size |-> call[t], at |-> Len(wire), head |-> header,
                   whole |-> data_sz(call[t]) = 0]
             f == [e EXCEPT !.whole = FALSE]
  <2>1. \/ /\ Sent(Len(sent) + 1, 1, HdrSz) /\ sent' = Append(sent, e)
           /\ \/ data_sz(call[t]) # 0 /\ Goto(t, "data")
              \/ data_sz(call[t]) = 0 /\ Goto(t, "return")
        \/ /\ \E k \in 1 .. HdrSz - 1 : Sent(Len(sent) + 1, 1, k)
           /\ sent' = Append(sent, f) /\ link' = "broken" /\ Goto(t, "return")
    BY <1>4 DEF SendHeader, Return
  <2>2. /\ call[t] \in Sizes \cup {0} /\ header \in Header /\ Len(wire) \in Nat
        /\ HdrSz \in Nat \ {0}
    BY <1>1, TypeFacts DEF TypeOK
  <2>3. /\ e \in Entry /\ e.size = call[t] /\ e.at = Len(wire)
        /\ f \in Entry /\ f.size = call[t] /\ f.at = Len(wire)
    BY <2>2 DEF Entry
  <2> HIDE DEF e, f
  <2>4. \E k \in 1 .. HdrSz : \E r \in Entry :
          /\ Sent(Len(sent) + 1, 1, k) /\ sent' = Append(sent, r)
          /\ r.size = call[t] /\ r.at = Len(wire)
          /\ \/ k = HdrSz /\ data_sz(call[t]) # 0 /\ Goto(t, "data")
             \/ k = HdrSz /\ data_sz(call[t]) = 0 /\ Goto(t, "return")
             \/ link' = "broken" /\ Goto(t, "return")
    <3>1. HdrSz \in 1 .. HdrSz /\ 1 .. HdrSz - 1 \subseteq 1 .. HdrSz
      BY <2>2
    <3> QED
      BY <2>1, <2>3, <3>1
  <2>5. PICK k \in 1 .. HdrSz, r \in Entry :
          /\ Sent(Len(sent) + 1, 1, k) /\ sent' = Append(sent, r)
          /\ r.size = call[t] /\ r.at = Len(wire)
          /\ \/ k = HdrSz /\ data_sz(call[t]) # 0 /\ Goto(t, "data")
             \/ k = HdrSz /\ data_sz(call[t]) = 0 /\ Goto(t, "return")
             \/ link' = "broken" /\ Goto(t, "return")
    BY <2>4
  <2>6. Len(wire) = IF sent = <<>> THEN 0 ELSE End(Len(sent))
    BY <1>1, <1>2, <1>4 DEF TailOK
  <2>7. PICK l : l = Len(sent) + 1
    OBVIOUS
  <2>8. /\ WireOK' /\ Len(wire') = Len(wire) + k
        /\ Len(sent') = l /\ sent'[l] = r /\ sent' # <<>>
    BY <1>1, <2>5, <2>6, <2>7, HeaderOnWire DEF Entry
  <2>9. TailOK'
    <3>1. CASE link' = "broken"
      BY <3>1 DEF TailOK
    <3>2. CASE k = HdrSz /\ data_sz(call[t]) # 0 /\ Goto(t, "data")
      <4>1. pc'[t] = "data" /\ \A u \in Senders : pc'[u] = "data" => u = t
        BY <1>1, <1>2, <3>2, GotoFacts
      <4>2. /\ sent'[Len(sent')].size = call'[t]
            /\ Len(wire') = sent'[Len(sent')].at + HdrSz
            /\ data_sz(call'[t]) # 0
        BY <1>1, <2>5, <2>8, <3>2
      <4> QED
        BY <2>8, <4>1, <4>2 DEF TailOK
    <3>3. CASE k = HdrSz /\ data_sz(call[t]) = 0 /\ Goto(t, "return")
      <4>1. \A u \in Senders : pc'[u] # "data"
        BY <1>1, <1>2, <3>3, GotoFacts
      <4>2. End(l)' = r.at + (HdrSz + data_sz(r.size))
        BY <2>8 DEF End, Size
      <4>3. End(l)' = Len(wire')
        BY <2>2, <2>5, <2>8, <3>3, <4>2
      <4>4. End(Len(sent))' = End(l)'
        BY <2>8 DEF End, Size
      <4> QED
        BY <2>8, <4>1, <4>3, <4>4 DEF TailOK
    <3> QED
      BY <2>5, <3>1, <3>2, <3>3
  <2> QED
    BY <2>8, <2>9
<1> QED
  BY <1>3, <1>4

\* The data are sent by the same thread, behind their header.
LEMMA MixData ==
  ASSUME NEW t \in Senders, MixInv, SendData(t)
  PROVE  WireOK' /\ TailOK'
<1>1. /\ TypeOK /\ WireOK /\ MutexOK /\ TailOK /\ pc[t] = "data"
      /\ UNCHANGED call /\ Goto(t, "return")
  BY DEF MixInv, SendData, Return
<1>2. \A u \in Senders : pc'[u] # "data"
  BY <1>1, OneHolder, GotoFacts
<1>3. CASE link # "up"
  <2>1. UNCHANGED <<link, wire, sent>>
    BY <1>3 DEF SendData
  <2>2. WireOK'
    BY <1>1, <2>1 DEF WireOK, End, Size
  <2>3. TailOK'
    BY <1>3, <2>1 DEF TailOK
  <2> QED
    BY <2>2, <2>3
<1>4. CASE link = "up"
  <2>1. PICK l, n : l = Len(sent) /\ n = data_sz(call[t])
    OBVIOUS
  <2>2. /\ sent # <<>> /\ sent[l].size = call[t]
        /\ Len(wire) = sent[l].at + HdrSz
    BY <1>1, <1>4, <2>1 DEF TailOK
  <2>3. /\ l \in Nat /\ l \in DOMAIN sent /\ n \in Nat
        /\ sent[l].at \in Nat /\ HdrSz \in Nat
        /\ End(l) = sent[l].at + HdrSz + n
    <3>1. l \in Nat /\ l \in DOMAIN sent
      BY <1>1, <2>1, <2>2, TypeFacts
    <3>2. /\ sent[l].at \in Nat /\ data_sz(sent[l].size) \in 0 .. Width - 1
          /\ End(l) = sent[l].at + HdrSz + data_sz(sent[l].size)
          /\ HdrSz \in Nat
      BY <1>1, <3>1, TypeFacts
    <3>3. n \in 0 .. Width - 1 /\ End(l) = sent[l].at + HdrSz + n
      BY <2>1, <2>2, <3>2, Zenon
    <3> QED
      BY <3>1, <3>2, <3>3
  <2>4. PICK k \in 1 .. n :
          /\ Sent(l, HdrSz + 1, HdrSz + k)
          /\ \/ sent' = [sent EXCEPT ![l].whole = TRUE] /\ k = n
             \/ sent' = sent /\ link' = "broken"
    <3>1. 1 .. n - 1 \subseteq 1 .. n /\ (n # 0 => n \in 1 .. n)
      BY <2>3
    <3>2. n # 0
      BY <1>1, <1>4, <2>1 DEF TailOK
    <3>3. \E k \in 1 .. n :
            /\ Sent(l, HdrSz + 1, HdrSz + k)
            /\ \/ sent' = [sent EXCEPT ![l].whole = TRUE] /\ k = n
               \/ sent' = sent /\ link' = "broken"
      BY <1>4, <2>1, <3>1, <3>2 DEF SendData
    <3> QED
      BY <3>3
  <2>5. /\ Len(sent') = Len(sent) /\ DOMAIN sent' = DOMAIN sent
        /\ \A m \in DOMAIN sent :
             sent'[m].size = sent[m].size /\ sent'[m].at = sent[m].at
    BY <1>1, <2>1, <2>4, MarkLemma
  <2>6. k \in 1 .. data_sz(sent[l].size)
    BY <2>1, <2>2, <2>4
  <2>7. WireOK' /\ Len(wire') = Len(wire) + k
    BY <1>1, <2>1, <2>2, <2>3, <2>4, <2>5, <2>6, DataOnWire
  <2>8. TailOK'
    <3>1. CASE link' = "broken"
      BY <3>1 DEF TailOK
    <3>2. CASE k = n
      <4>1. End(l)' = End(l)
        BY <2>3, <2>5 DEF End, Size
      <4>2. Len(wire') = End(l)
        BY <2>2, <2>3, <2>7, <3>2
      <4>3. End(Len(sent))' = End(l)'
        BY <2>1, <2>5 DEF End, Size
      <4>4. sent' # <<>>
        BY <2>3, <2>5
      <4> QED
        BY <1>2, <4>1, <4>2, <4>3, <4>4 DEF TailOK
    <3> QED
      BY <2>4, <3>1, <3>2
  <2> QED
    BY <2>7, <2>8
<1> QED
  BY <1>3, <1>4

\* For any number of sending threads the wire holds the messages one after the
\* other, each header followed by its own data: mutex_sendData keeps the bytes
\* of two calls apart.  What CallsAreThreadSafe loses is the header alone, which
\* is filled before the mutex is taken.
THEOREM MessagesStayApart == Spec => []WireOK
<1>1. Init => MixInv
  <2> SUFFICES ASSUME Init PROVE MixInv
    OBVIOUS
  <2>1. TypeOK
    BY InitType
  <2>2. wire = <<>> /\ sent = <<>> /\ Len(wire) = 0 /\ DOMAIN wire = {}
        /\ DOMAIN sent = {}
    BY DEF Init
  <2>3. WireOK /\ TailOK
    BY <2>2 DEF Init, WireOK, TailOK
  <2>4. MutexOK
    BY CommonsAssumption DEF Init, MutexOK
  <2> QED
    BY <2>1, <2>3, <2>4 DEF MixInv
<1>2. MixInv /\ [Next]_vars => MixInv'
  <2> SUFFICES ASSUME MixInv, [Next]_vars PROVE MixInv'
    OBVIOUS
  <2>1. TypeOK' /\ MutexOK'
    BY TypeStep, MutexStep DEF MixInv
  <2>2. ASSUME NEW t \in Senders,
               \/ Begin(t) \/ FillCommand(t) \/ ClearChecksum(t)
               \/ FillChecksum(t) \/ Lock(t) \/ Close(t)
        PROVE  WireOK' /\ TailOK'
    <3>1. PICK label \in {"idle", "command", "clear", "checksum", "lock",
                          "header"} : Goto(t, label)
      BY <2>2 DEF Begin, FillCommand, ClearChecksum, FillChecksum, Lock, Close
    <3>2. /\ UNCHANGED <<wire, sent>> /\ pc[t] # "data"
          /\ link' = "up" => link = "up"
      BY <2>2 DEF Begin, FillCommand, ClearChecksum, FillChecksum, Lock, Close
    <3>3. TypeOK
      BY DEF MixInv
    <3>4. \A u \in Senders : pc'[u] = "data" <=> pc[u] = "data"
      BY <3>1, <3>2, <3>3, GotoFacts
    <3>5. \A u \in Senders \ {t} : call'[u] = call[u]
      BY <2>2, <3>3 DEF Begin, FillCommand, ClearChecksum, FillChecksum, Lock,
                        Close, TypeOK
    <3>6. \A u \in Senders : pc[u] = "data" => call'[u] = call[u]
      BY <3>2, <3>5
    <3> QED
      BY <3>2, <3>4, <3>6, SilentStep
  <2>3. ASSUME NEW t \in Senders, SendHeader(t) \/ SendData(t)
        PROVE  WireOK' /\ TailOK'
    BY <2>3, MixHeader, MixData
  <2>4. ASSUME Receive \/ Break \/ UNCHANGED vars
        PROVE  WireOK' /\ TailOK'
    <3>1. UNCHANGED <<wire, sent, pc, call>> /\ (link' = "up" => link = "up")
      BY <2>4 DEF Receive, TakeHeader, DropHeader, ReadData, ReadEnd, Break,
                  vars, sendVars
    <3> QED
      BY <3>1, SilentStep
  <2>5. WireOK' /\ TailOK'
    BY <2>2, <2>3, <2>4 DEF Next, SenderStep
  <2> QED
    BY <2>1, <2>5 DEF MixInv
<1>3. MixInv => WireOK
  BY DEF MixInv
<1> QED
  BY <1>1, <1>2, <1>3, PTL DEF Spec

=============================================================================
