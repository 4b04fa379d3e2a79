---------------------------- MODULE QueueProofs ----------------------------
(***************************************************************************)
(* The ring of queue.c is a first-in first-out queue, for every capacity.  *)
(***************************************************************************)
EXTENDS Queue, TLAPS

\* Within two rounds the conditional subtraction is the remainder that
\* queue.c computes.
LEMMA WrapIsMod ==
  ASSUME NEW c \in Nat \ {0}, NEW i \in 0 .. 2 * c - 1
  PROVE  Wrap(i, c) = i % c
BY DEF Wrap

\* createQueue returns an empty queue of that capacity.
LEMMA CreateEmpty ==
  ASSUME NEW c \in Nat \ {0}
  PROVE  /\ IsQueue(createQueue(c))
         /\ Contents(createQueue(c)) = <<>>
         /\ createQueue(c).capacity = c
BY DEF IsQueue, createQueue, Contents, Wrap, Ring

\* reset_queue empties it and keeps the capacity.
LEMMA ResetEmpties ==
  ASSUME NEW q, IsQueue(q)
  PROVE  /\ IsQueue(reset_queue(q))
         /\ Contents(reset_queue(q)) = <<>>
         /\ reset_queue(q).capacity = q.capacity
BY DEF IsQueue, reset_queue, Contents, Wrap, Ring

\* Contents has as many items as the ring counts.
LEMMA ContentsSeq ==
  ASSUME NEW q, IsQueue(q)
  PROVE  /\ Len(Contents(q)) = q.size
         /\ DOMAIN Contents(q) = 1 .. q.size
BY DEF IsQueue, Contents

\* Where the indices of a ring fall: those of its sz items and those of n more.
InPlace(c, sz, f, r, n) ==
  /\ Wrap(r + n, c) \in 0 .. c - 1
  /\ Wrap(Wrap(r + n, c) + 1, c) = Wrap(f + (sz + n), c)
  /\ \A i \in 1 .. sz : /\ Wrap(f + i - 1, c) \in 0 .. c - 1
                        /\ Ahead(Wrap(f + i - 1, c), r, c) > n
  /\ \A i \in 1 .. n : /\ Wrap(f + (sz + i) - 1, c) \in 0 .. c - 1
                       /\ Ahead(Wrap(f + (sz + i) - 1, c), r, c) = i

\* The indices of a ring fall in the array, and those to come ahead of the rest.
LEMMA Indices ==
  ASSUME NEW c \in Nat \ {0}, NEW sz \in 0 .. c, NEW f \in 0 .. c - 1,
         NEW r \in 0 .. c - 1, Wrap(r + 1, c) = Wrap(f + sz, c),
         NEW n \in 0 .. c - sz
  PROVE  InPlace(c, sz, f, r, n)
<1>1. Wrap(r + n, c) \in 0 .. c - 1
  BY DEF Wrap
<1>2. Wrap(Wrap(r + n, c) + 1, c) = Wrap(f + (sz + n), c)
  BY DEF Wrap
<1>3. ASSUME NEW i \in 1 .. sz
      PROVE  /\ Wrap(f + i - 1, c) \in 0 .. c - 1
             /\ Ahead(Wrap(f + i - 1, c), r, c) > n
  BY DEF Wrap, Ahead
<1>4. ASSUME NEW i \in 1 .. n
      PROVE  /\ Wrap(f + (sz + i) - 1, c) \in 0 .. c - 1
             /\ Ahead(Wrap(f + (sz + i) - 1, c), r, c) = i
  BY DEF Wrap, Ahead
<1> QED
  BY <1>1, <1>2, <1>3, <1>4 DEF InPlace

\* Moving the front over n of the items.
LEMMA Shift ==
  ASSUME NEW c \in Nat \ {0}, NEW sz \in 0 .. c, NEW f \in 0 .. c - 1,
         NEW n \in 0 .. sz
  PROVE  /\ Wrap(f + n, c) \in 0 .. c - 1
         /\ Wrap(Wrap(f + n, c) + (sz - n), c) = Wrap(f + sz, c)
         /\ \A i \in 1 .. sz - n :
              Wrap(Wrap(f + n, c) + i - 1, c) = Wrap(f + (n + i) - 1, c)
BY DEF Wrap

\* One step further on the ring.
LEMMA NextIndex ==
  ASSUME NEW c \in Nat \ {0}, NEW r \in 0 .. c - 1, NEW n \in 0 .. c - 1
  PROVE  LET w == Wrap(Wrap(r + n, c) + 1, c) IN
         /\ w \in 0 .. c - 1
         /\ w = Wrap(r + (n + 1), c)
         /\ Ahead(w, r, c) = n + 1
         /\ \A i \in 0 .. c - 1 : i # w => Ahead(i, r, c) # n + 1
BY DEF Wrap, Ahead

\* Sequences of equal length with equal items are equal.
LEMMA SeqEqual ==
  ASSUME NEW S, NEW s \in Seq(S), NEW t \in Seq(S), Len(s) = Len(t),
         \A i \in 1 .. Len(s) : s[i] = t[i]
  PROVE  s = t
OBVIOUS

\* A function on 1 .. n is a sequence.
LEMMA IsSeq ==
  ASSUME NEW S, NEW n \in Nat, NEW f, f = [i \in 1 .. n |-> f[i]],
         \A i \in 1 .. n : f[i] \in S
  PROVE  f \in Seq(S) /\ Len(f) = n
OBVIOUS

\* The length and the items of a concatenation.
LEMMA Concat ==
  ASSUME NEW S, NEW s \in Seq(S), NEW t \in Seq(S)
  PROVE  /\ s \o t \in Seq(S)
         /\ Len(s \o t) = Len(s) + Len(t)
         /\ \A i \in 1 .. Len(s) : (s \o t)[i] = s[i]
         /\ \A i \in 1 .. Len(t) : (s \o t)[Len(s) + i] = t[i]
OBVIOUS

\* dequeue_n takes the first n items and leaves the others.
LEMMA DequeueTakesFirst ==
  ASSUME NEW q, IsQueue(q), NEW n \in 0 .. q.size,
         NEW S, Contents(q) \in Seq(S)
  PROVE  /\ IsQueue(dequeue_n(q, n))
         /\ dequeue_n(q, n).capacity = q.capacity
         /\ dequeue_n(q, n).size = q.size - n
         /\ Contents(dequeue_n(q, n)) \in Seq(S)
         /\ Contents(dequeue_n(q, n)) = SubSeq(Contents(q), n + 1, q.size)
<1> DEFINE d == dequeue_n(q, n)
           f == Wrap(q.front + n, q.capacity)
<1>1. /\ d.capacity = q.capacity /\ d.size = q.size - n /\ d.front = f
      /\ d.array = q.array /\ d.rear = q.rear
      /\ d = Ring(d.capacity, d.size, d.front, d.rear, d.array)
  BY DEF dequeue_n, Ring
<1>2. /\ q.capacity \in Nat \ {0} /\ q.size \in 0 .. q.capacity
      /\ q.front \in 0 .. q.capacity - 1 /\ q.rear \in 0 .. q.capacity - 1
      /\ q.array = [i \in 0 .. q.capacity - 1 |-> q.array[i]]
      /\ Wrap(q.rear + 1, q.capacity) = Wrap(q.front + q.size, q.capacity)
  BY DEF IsQueue
<1>i. /\ f \in 0 .. q.capacity - 1
      /\ Wrap(f + (q.size - n), q.capacity) = Wrap(q.front + q.size, q.capacity)
      /\ \A i \in 1 .. q.size - n :
           Wrap(f + i - 1, q.capacity) = Wrap(q.front + (n + i) - 1, q.capacity)
  <2>1. q.capacity \in Nat \ {0} /\ q.size \in 0 .. q.capacity
        /\ q.front \in 0 .. q.capacity - 1
    BY <1>2
  <2> QED
    BY <2>1, Shift, Zenon
<1>3. IsQueue(d)
  <2>1. f \in 0 .. q.capacity - 1
    BY <1>i
  <2>2. Wrap(q.rear + 1, q.capacity) = Wrap(f + (q.size - n), q.capacity)
    BY <1>2, <1>i
  <2> QED
    BY <1>1, <1>2, <2>1, <2>2 DEF IsQueue
<1>4. Len(Contents(q)) = q.size /\ Len(Contents(d)) = q.size - n
  BY <1>1, <1>2, <1>3, ContentsSeq
<1>5. ASSUME NEW i \in 1 .. q.size - n
      PROVE  Contents(d)[i] = Contents(q)[n + i]
  <2>1. Contents(d)[i] = q.array[Wrap(f + i - 1, q.capacity)]
    BY <1>1, <1>2 DEF Contents
  <2>2. Contents(q)[n + i] = q.array[Wrap(q.front + (n + i) - 1, q.capacity)]
    BY <1>2 DEF Contents
  <2>3. Wrap(f + i - 1, q.capacity) = Wrap(q.front + (n + i) - 1, q.capacity)
    BY <1>i
  <2> QED
    BY <2>1, <2>2, <2>3
<1>6. Contents(d) \in Seq(S)
  <2>1. ASSUME NEW i \in 1 .. q.size - n
        PROVE  Contents(d)[i] \in S
    <3>1. n + i \in 1 .. Len(Contents(q))
      BY <1>2, <1>4
    <3>2. Contents(q)[n + i] \in S
      BY <3>1
    <3> QED
      BY <3>2, <1>5
  <2>2. Contents(d) = [i \in 1 .. q.size - n |-> Contents(d)[i]]
    BY <1>1 DEF Contents
  <2> QED
    <3>1. q.size - n \in Nat
      BY <1>2
    <3> QED
      BY <2>1, <2>2, <3>1, IsSeq, Zenon
<1>7. SubSeq(Contents(q), n + 1, q.size) \in Seq(S)
      /\ Len(SubSeq(Contents(q), n + 1, q.size)) = q.size - n
      /\ \A i \in 1 .. q.size - n :
           SubSeq(Contents(q), n + 1, q.size)[i] = Contents(q)[n + i]
  BY <1>2, <1>4
<1>8. Contents(d) = SubSeq(Contents(q), n + 1, q.size)
  BY <1>4, <1>5, <1>6, <1>7, SeqEqual
<1> QED
  BY <1>1, <1>3, <1>6, <1>8

\* enqueue_all appends all of s when it fits.
LEMMA EnqueueAppends ==
  ASSUME NEW q, IsQueue(q), NEW S, Contents(q) \in Seq(S),
         NEW s \in Seq(S), Len(s) <= Space(q)
  PROVE  /\ IsQueue(enqueue_all(q, s))
         /\ enqueue_all(q, s).capacity = q.capacity
         /\ enqueue_all(q, s).size = q.size + Len(s)
         /\ Contents(enqueue_all(q, s)) \in Seq(S)
         /\ Contents(enqueue_all(q, s)) = Contents(q) \o s
<1> DEFINE n == Len(s)
           At(i) == Ahead(i, q.rear, q.capacity)
           A == [i \in 0 .. q.capacity - 1 |->
                   IF At(i) <= n THEN s[At(i)] ELSE q.array[i]]
           e == enqueue_all(q, s)
<1>2. /\ q.capacity \in Nat \ {0} /\ q.size \in 0 .. q.capacity
      /\ q.front \in 0 .. q.capacity - 1 /\ q.rear \in 0 .. q.capacity - 1
      /\ q.array = [i \in 0 .. q.capacity - 1 |-> q.array[i]]
      /\ Wrap(q.rear + 1, q.capacity) = Wrap(q.front + q.size, q.capacity)
  BY DEF IsQueue
<1>0. n \in 0 .. q.capacity - q.size
  BY <1>2 DEF Space
<1>1. e = Ring(q.capacity, q.size + n, q.front, Wrap(q.rear + n, q.capacity), A)
  BY DEF enqueue_all
<1>3. /\ e.capacity = q.capacity /\ e.size = q.size + n /\ e.front = q.front
      /\ e.rear = Wrap(q.rear + n, q.capacity) /\ e.array = A
  BY <1>1 DEF Ring
<1>i. /\ Wrap(q.rear + n, q.capacity) \in 0 .. q.capacity - 1
      /\ Wrap(Wrap(q.rear + n, q.capacity) + 1, q.capacity) =
           Wrap(q.front + (q.size + n), q.capacity)
      /\ \A i \in 1 .. q.size :
           /\ Wrap(q.front + i - 1, q.capacity) \in 0 .. q.capacity - 1
           /\ At(Wrap(q.front + i - 1, q.capacity)) > n
      /\ \A i \in 1 .. n :
           /\ Wrap(q.front + (q.size + i) - 1, q.capacity)
                \in 0 .. q.capacity - 1
           /\ At(Wrap(q.front + (q.size + i) - 1, q.capacity)) = i
  <2>1. /\ q.capacity \in Nat \ {0} /\ q.size \in 0 .. q.capacity
        /\ q.front \in 0 .. q.capacity - 1 /\ q.rear \in 0 .. q.capacity - 1
        /\ Wrap(q.rear + 1, q.capacity) = Wrap(q.front + q.size, q.capacity)
    BY <1>2
  <2>2. InPlace(q.capacity, q.size, q.front, q.rear, n)
    <3> HIDE DEF n
    <3> QED
      BY <1>0, <2>1, Indices, Zenon
  <2> QED
    BY <2>2 DEF InPlace
<1> HIDE DEF e, A
<1>4. IsQueue(e)
  <2>1. e.rear \in 0 .. q.capacity - 1
    BY <1>i, <1>3
  <2>2. Wrap(e.rear + 1, q.capacity) = Wrap(q.front + (q.size + n), q.capacity)
    BY <1>i, <1>3
  <2>3. A = [i \in 0 .. q.capacity - 1 |-> A[i]]
    BY DEF A
  <2>4. e = Ring(e.capacity, e.size, e.front, e.rear, e.array)
    BY <1>1, <1>3
  <2> QED
    BY <1>0, <1>2, <1>3, <2>1, <2>2, <2>3, <2>4 DEF IsQueue
<1>5. Len(Contents(q)) = q.size /\ Len(Contents(e)) = q.size + n
  BY <1>2, <1>3, <1>4, ContentsSeq
<1>6. ASSUME NEW i \in 1 .. q.size
      PROVE  Contents(e)[i] = Contents(q)[i]
  <2> DEFINE w == Wrap(q.front + i - 1, q.capacity)
  <2>1. w \in 0 .. q.capacity - 1 /\ At(w) > n
    BY <1>i
  <2>2. Contents(e)[i] = A[w]
    BY <1>0, <1>2, <1>3 DEF Contents
  <2>3. A[w] = q.array[w]
    <3>1. At(w) \in Int /\ n \in Int
      BY <1>0, <1>2, <2>1 DEF Ahead
    <3> HIDE DEF w, n, At
    <3> QED
      BY <2>1, <3>1 DEF A
  <2>4. Contents(q)[i] = q.array[w]
    BY <1>2 DEF Contents
  <2> QED
    BY <2>2, <2>3, <2>4
<1>7. ASSUME NEW i \in 1 .. n
      PROVE  Contents(e)[q.size + i] = s[i]
  <2> DEFINE w == Wrap(q.front + (q.size + i) - 1, q.capacity)
  <2>1. w \in 0 .. q.capacity - 1 /\ At(w) = i
    BY <1>i
  <2>2. Contents(e)[q.size + i] = A[w]
    BY <1>0, <1>2, <1>3 DEF Contents
  <2>3. A[w] = s[i]
    <3> HIDE DEF w, At
    <3> QED
      BY <1>0, <2>1 DEF A
  <2> QED
    BY <2>2, <2>3
<1>8. Contents(e) \in Seq(S)
  <2>1. ASSUME NEW i \in 1 .. q.size + n PROVE Contents(e)[i] \in S
    <3>1. CASE i \in 1 .. q.size
      BY <3>1, <1>5, <1>6
    <3>2. CASE i \notin 1 .. q.size
      <4>1. i - q.size \in 1 .. n
        BY <3>2, <1>0, <1>2
      <4>2. Contents(e)[q.size + (i - q.size)] = s[i - q.size]
        BY <4>1, <1>7
      <4> QED
        BY <4>1, <4>2, <1>2
    <3> QED
      BY <3>1, <3>2
  <2>2. Contents(e) = [i \in 1 .. q.size + n |-> Contents(e)[i]]
    BY <1>3 DEF Contents
  <2>3. q.size + n \in Nat
    BY <1>0, <1>2
  <2> HIDE DEF n
  <2> QED
    BY <2>1, <2>2, <2>3, IsSeq
<1>9. Contents(e) = Contents(q) \o s
  <2>1. /\ Contents(q) \o s \in Seq(S)
        /\ Len(Contents(q) \o s) = q.size + n
        /\ \A i \in 1 .. q.size : (Contents(q) \o s)[i] = Contents(q)[i]
        /\ \A i \in 1 .. n : (Contents(q) \o s)[q.size + i] = s[i]
    <3>1. Len(Contents(q)) = q.size
      BY <1>5
    <3>2. \A x \in 1 .. q.size : (Contents(q) \o s)[x] = Contents(q)[x]
      BY <3>1, Concat
    <3>3. \A x \in 1 .. Len(s) : (Contents(q) \o s)[q.size + x] = s[x]
      BY <3>1, Concat
    <3>4. Contents(q) \o s \in Seq(S) /\ Len(Contents(q) \o s) = q.size + Len(s)
      BY <3>1, Concat
    <3> QED
      BY <3>2, <3>3, <3>4
  <2>2. ASSUME NEW i \in 1 .. q.size + n
        PROVE  Contents(e)[i] = (Contents(q) \o s)[i]
    <3>1. CASE i \in 1 .. q.size
      BY <3>1, <2>1, <1>6
    <3>2. CASE i \notin 1 .. q.size
      <4>1. i - q.size \in 1 .. n
        BY <3>2, <1>0, <1>2
      <4>2. q.size + (i - q.size) = i
        BY <1>2
      <4> QED
        BY <4>1, <4>2, <1>7, <2>1
    <3> QED
      BY <3>1, <3>2
  <2> QED
    BY <1>5, <1>8, <2>1, <2>2, SeqEqual
<1> QED
  BY <1>3, <1>4, <1>8, <1>9 DEF e

\* What does not fit is refused, and what fits goes in.
LEMMA EnqueueSome ==
  ASSUME NEW q, IsQueue(q), NEW S, Contents(q) \in Seq(S), NEW s \in Seq(S)
  PROVE  /\ IsQueue(enqueue_all(q, s))
         /\ enqueue_all(q, s).capacity = q.capacity
         /\ enqueue_all(q, s).size <= q.size + Len(s)
         /\ Contents(enqueue_all(q, s)) \in Seq(S)
<1>1. CASE Len(s) <= Space(q)
  <2>1. q.size \in Nat
    BY DEF IsQueue
  <2>2. /\ IsQueue(enqueue_all(q, s))
        /\ enqueue_all(q, s).capacity = q.capacity
        /\ enqueue_all(q, s).size = q.size + Len(s)
        /\ Contents(enqueue_all(q, s)) \in Seq(S)
    BY <1>1, EnqueueAppends
  <2> QED
    BY <2>1, <2>2
<1>2. CASE ~(Len(s) <= Space(q))
  <2> DEFINE t == SubSeq(s, 1, Space(q))
             At(i) == Ahead(i, q.rear, q.capacity)
  <2>1. q.capacity \in Nat \ {0} /\ q.size \in 0 .. q.capacity
        /\ q.rear \in 0 .. q.capacity - 1
    BY DEF IsQueue
  <2>2. Space(q) \in Nat /\ Space(q) < Len(s) /\ Len(s) \in Nat
    BY <2>1, <1>2 DEF Space
  <2>3. t \in Seq(S) /\ Len(t) = Space(q) /\ \A i \in 1 .. Space(q) : t[i] = s[i]
    BY <2>2
  <2>4. ASSUME NEW i \in 0 .. q.capacity - 1
        PROVE  (IF At(i) <= Space(q) THEN s[At(i)] ELSE q.array[i]) =
               (IF At(i) <= Space(q) THEN t[At(i)] ELSE q.array[i])
    <3>1. At(i) \in Nat \ {0}
      BY <2>1 DEF Ahead
    <3> HIDE DEF At, t
    <3> QED
      BY <2>2, <2>3, <3>1
  <2>5. enqueue_all(q, s) = enqueue_all(q, t)
    <3>1. (IF Len(s) <= Space(q) THEN Len(s) ELSE Space(q)) = Space(q)
          /\ (IF Len(t) <= Space(q) THEN Len(t) ELSE Space(q)) = Space(q)
      BY <2>2, <2>3
    <3>2. [i \in 0 .. q.capacity - 1 |->
             IF At(i) <= Space(q) THEN s[At(i)] ELSE q.array[i]] =
          [i \in 0 .. q.capacity - 1 |->
             IF At(i) <= Space(q) THEN t[At(i)] ELSE q.array[i]]
      BY <2>4
    <3> HIDE DEF t
    <3> QED
      BY <3>1, <3>2 DEF enqueue_all
  <2>6. /\ IsQueue(enqueue_all(q, t))
        /\ enqueue_all(q, t).capacity = q.capacity
        /\ enqueue_all(q, t).size = q.size + Len(t)
        /\ Contents(enqueue_all(q, t)) \in Seq(S)
    <3> HIDE DEF t
    <3>1. Len(t) <= Space(q)
      BY <2>2, <2>3
    <3> QED
      BY <2>3, <3>1, EnqueueAppends
  <2> QED
    BY <2>1, <2>2, <2>3, <2>5, <2>6
<1> QED
  BY <1>1, <1>2

\* expand_queue keeps the items and takes the new capacity.
LEMMA ExpandKeeps ==
  ASSUME NEW q, IsQueue(q), NEW S, Contents(q) \in Seq(S),
         NEW c \in Nat \ {0}, q.size <= c
  PROVE  /\ IsQueue(expand_queue(q, c))
         /\ expand_queue(q, c).capacity = c
         /\ expand_queue(q, c).size = q.size
         /\ Contents(expand_queue(q, c)) = Contents(q)
<1> DEFINE n == createQueue(c)
<1>1. IsQueue(n) /\ Contents(n) = <<>> /\ n.capacity = c /\ n.size = 0
  BY CreateEmpty DEF createQueue, Ring
<1>2. Len(Contents(q)) = q.size /\ q.size \in Nat
  <2>1. Len(Contents(q)) = q.size
    BY ContentsSeq
  <2>2. q.size \in Nat
    BY DEF IsQueue
  <2> QED
    BY <2>1, <2>2
<1>3. Len(Contents(q)) <= Space(n)
  BY <1>1, <1>2 DEF Space
<1>4. Contents(n) \in Seq(S)
  BY <1>1
<1> HIDE DEF n
<1>5. /\ IsQueue(enqueue_all(n, Contents(q)))
      /\ enqueue_all(n, Contents(q)).capacity = n.capacity
      /\ enqueue_all(n, Contents(q)).size = n.size + Len(Contents(q))
      /\ Contents(enqueue_all(n, Contents(q))) = Contents(n) \o Contents(q)
  BY <1>1, <1>3, <1>4, EnqueueAppends
<1>6. <<>> \o Contents(q) = Contents(q)
  OBVIOUS
<1> QED
  BY <1>1, <1>2, <1>5, <1>6 DEF expand_queue, n

\* enqueue_all is the loop of enqueue: it begins with the queue itself, and
\* each further item is one more enqueue, refused when the queue is full.
THEOREM EnqueueAllIsLoop ==
  ASSUME NEW q, IsQueue(q), NEW S, NEW s \in Seq(S), NEW x \in S
  PROVE  /\ enqueue_all(q, <<>>) = q
         /\ enqueue_all(q, Append(s, x)) = enqueue(enqueue_all(q, s), x)
<1> DEFINE n == IF Len(s) <= Space(q) THEN Len(s) ELSE Space(q)
           At(i) == Ahead(i, q.rear, q.capacity)
           A == [i \in 0 .. q.capacity - 1 |->
                   IF At(i) <= n THEN s[At(i)] ELSE q.array[i]]
           t == Append(s, x)
           m == IF Len(t) <= Space(q) THEN Len(t) ELSE Space(q)
           B == [i \in 0 .. q.capacity - 1 |->
                   IF At(i) <= m THEN t[At(i)] ELSE q.array[i]]
           e == enqueue_all(q, s)
           r == Wrap(q.rear + n, q.capacity)
<1>1. /\ q.capacity \in Nat \ {0} /\ q.size \in 0 .. q.capacity
      /\ q.front \in 0 .. q.capacity - 1 /\ q.rear \in 0 .. q.capacity - 1
      /\ q.array = [i \in 0 .. q.capacity - 1 |-> q.array[i]]
      /\ q = Ring(q.capacity, q.size, q.front, q.rear, q.array)
  BY DEF IsQueue
<1>2. enqueue_all(q, <<>>) = q
  <2>1. 0 <= Space(q)
    BY <1>1 DEF Space
  <2>2. \A i \in 0 .. q.capacity - 1 : ~(At(i) <= 0)
    BY <1>1 DEF Ahead
  <2>3. [i \in 0 .. q.capacity - 1 |->
           IF At(i) <= 0 THEN <<>>[At(i)] ELSE q.array[i]] = q.array
    BY <1>1, <2>2
  <2>4. Wrap(q.rear + 0, q.capacity) = q.rear /\ q.size + 0 = q.size
    BY <1>1 DEF Wrap
  <2>5. (IF Len(<<>>) <= Space(q) THEN Len(<<>>) ELSE Space(q)) = 0
    BY <2>1
  <2> QED
    BY <1>1, <2>3, <2>4, <2>5 DEF enqueue_all
<1>3. /\ n \in 0 .. q.capacity - q.size /\ Len(s) \in Nat
      /\ Len(t) = Len(s) + 1 /\ t[Len(s) + 1] = x
      /\ \A i \in 1 .. Len(s) : t[i] = s[i]
  BY <1>1 DEF Space
<1>4. e = Ring(q.capacity, q.size + n, q.front, r, A)
  BY DEF enqueue_all
<1>5. enqueue_all(q, t) =
        Ring(q.capacity, q.size + m, q.front, Wrap(q.rear + m, q.capacity), B)
  BY DEF enqueue_all
<1>6. /\ e.capacity = q.capacity /\ e.size = q.size + n /\ e.front = q.front
      /\ e.rear = r /\ e.array = A
  BY <1>4 DEF Ring
<1> HIDE DEF e
<1>7. CASE q.size + n = q.capacity
  <2>1. n = Space(q) /\ m = Space(q) /\ n <= Len(s)
    BY <1>1, <1>3, <1>7 DEF Space
  <2>2. ASSUME NEW i \in 0 .. q.capacity - 1
        PROVE  (IF At(i) <= n THEN s[At(i)] ELSE q.array[i]) =
               (IF At(i) <= m THEN t[At(i)] ELSE q.array[i])
    <3>1. At(i) \in Nat \ {0}
      BY <1>1 DEF Ahead
    <3> HIDE DEF At
    <3> QED
      BY <2>1, <1>3, <3>1
  <2>3. A = B
    BY <2>2
  <2>4. enqueue(e, x) = e
    BY <1>6, <1>7 DEF enqueue, isFull
  <2>5. enqueue_all(q, t) = e
    BY <1>4, <1>5, <2>1, <2>3
  <2> QED
    BY <1>2, <2>4, <2>5 DEF e
<1>8. CASE q.size + n # q.capacity
  <2>1. n = Len(s) /\ m = n + 1 /\ n < q.capacity
    BY <1>1, <1>3, <1>8 DEF Space
  <2>2. r \in 0 .. q.capacity - 1 /\ At(Wrap(r + 1, q.capacity)) = n + 1
        /\ Wrap(r + 1, q.capacity) \in 0 .. q.capacity - 1
        /\ Wrap(r + 1, q.capacity) = Wrap(q.rear + m, q.capacity)
    <3>1. n \in 0 .. q.capacity - 1 /\ m = n + 1
      <4> HIDE DEF n, m
      <4> QED
        BY <2>1, <1>1, <1>3
    <3>2. r \in 0 .. q.capacity - 1
      BY <1>1, <3>1 DEF Wrap
    <3> HIDE DEF n, m
    <3> QED
      BY <1>1, <3>1, <3>2, NextIndex
  <2>3. ASSUME NEW i \in 0 .. q.capacity - 1, i # Wrap(r + 1, q.capacity)
        PROVE  At(i) # n + 1
    <3>1. n \in 0 .. q.capacity - 1
      <4> HIDE DEF n, m
      <4> QED
        BY <2>1, <1>1, <1>3
    <3> HIDE DEF n
    <3> QED
      BY <1>1, <2>3, <3>1, NextIndex
  <2>4. ASSUME NEW i \in 0 .. q.capacity - 1
        PROVE  B[i] = [A EXCEPT ![Wrap(r + 1, q.capacity)] = x][i]
    <3>1. At(i) \in Nat \ {0}
      BY <1>1 DEF Ahead
    <3>2. CASE i = Wrap(r + 1, q.capacity)
      <4>1. B[i] = x
        BY <3>2, <2>1, <2>2, <1>3
      <4> QED
        BY <4>1, <3>2
    <3>3. CASE i # Wrap(r + 1, q.capacity)
      <4>1. At(i) # n + 1
        BY <3>3, <2>3
      <4>2. [A EXCEPT ![Wrap(r + 1, q.capacity)] = x][i] = A[i]
        BY <3>3
      <4> HIDE DEF At
      <4>3. B[i] = A[i]
        BY <2>1, <1>3, <3>1, <4>1
      <4> QED
        BY <4>2, <4>3
    <3> QED
      BY <3>2, <3>3
  <2>5. B = [A EXCEPT ![Wrap(r + 1, q.capacity)] = x]
    BY <2>4
  <2>6. enqueue(e, x) =
          Ring(q.capacity, q.size + n + 1, q.front, Wrap(r + 1, q.capacity),
               [A EXCEPT ![Wrap(r + 1, q.capacity)] = x])
    BY <1>6, <1>8 DEF enqueue, isFull
  <2>7. q.size + m = q.size + n + 1
    <3>1. n \in Int /\ q.size \in Int /\ m = n + 1
      BY <2>1, <1>1, <1>3
    <3> HIDE DEF m, n
    <3> QED
      BY <3>1
  <2>8. enqueue_all(q, t) = enqueue(e, x)
    <3> HIDE DEF m, n, B, A, t
    <3> QED
      BY <1>5, <2>2, <2>5, <2>6, <2>7, Zenon
  <2> QED
    BY <1>2, <2>8 DEF e
<1> QED
  BY <1>2, <1>7, <1>8

\* dequeue_n is the loop of dequeue: it begins with the queue itself, and each
\* further item is one more dequeue, which returns the next item in order.
THEOREM DequeueNIsLoop ==
  ASSUME NEW q, IsQueue(q), NEW n \in 0 .. q.size - 1
  PROVE  /\ dequeue_n(q, 0) = q
         /\ dequeue_n(q, n + 1) = dequeue(dequeue_n(q, n))
         /\ front(dequeue_n(q, n)) = Contents(q)[n + 1]
<1> DEFINE d == dequeue_n(q, n)
<1>1. /\ q.capacity \in Nat \ {0} /\ q.size \in 0 .. q.capacity
      /\ q.front \in 0 .. q.capacity - 1
      /\ q = Ring(q.capacity, q.size, q.front, q.rear, q.array)
  BY DEF IsQueue
<1>2. dequeue_n(q, 0) = q
  <2>1. q.size - 0 = q.size /\ Wrap(q.front + 0, q.capacity) = q.front
    BY <1>1 DEF Wrap
  <2> QED
    BY <1>1, <2>1 DEF dequeue_n
<1>3. /\ d.capacity = q.capacity /\ d.size = q.size - n /\ d.rear = q.rear
      /\ d.front = Wrap(q.front + n, q.capacity) /\ d.array = q.array
  BY DEF dequeue_n, Ring
<1>4. dequeue_n(q, n + 1) = dequeue(d)
  <2>1. /\ q.size - (n + 1) = (q.size - n) - 1 /\ q.size - n # 0
        /\ Wrap(q.front + (n + 1), q.capacity) =
             Wrap(Wrap(q.front + n, q.capacity) + 1, q.capacity)
    BY <1>1 DEF Wrap
  <2> QED
    BY <1>3, <2>1 DEF dequeue_n, dequeue, isEmpty
<1>5. front(d) = Contents(q)[n + 1]
  <2>1. n + 1 \in 1 .. q.size /\ q.front + (n + 1) - 1 = q.front + n
    BY <1>1
  <2> QED
    BY <1>3, <2>1 DEF front, Contents
<1> QED
  BY <1>2, <1>4, <1>5
=============================================================================
