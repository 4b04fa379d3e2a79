------------------------------- MODULE Queue -------------------------------
(***************************************************************************)
(* The ring of queue.c: an array, the index of its first and last item and *)
(* a count.  The streamer keeps one on the camera's side and one in the    *)
(* viewer, and refers to them only through these functions.                *)
(*                                                                         *)
(* A loop that enqueues, or dequeues, several items without releasing the  *)
(* lock is one operator, since no other thread sees the queue in between.  *)
(***************************************************************************)
EXTENDS Integers, Sequences

\* What malloc leaves in the array.
Unset == <<>>

\* i % capacity for the indices that occur, which are less than two rounds.
Wrap(i, capacity) == IF i < capacity THEN i ELSE i - capacity

Ring(capacity, size, front, rear, array) ==
  [capacity |-> capacity, size |-> size, front |-> front, rear |-> rear,
   array |-> array]

createQueue(capacity) ==
  Ring(capacity, 0, 0, capacity - 1, [i \in 0 .. capacity - 1 |-> Unset])

isFull(q)  == q.size = q.capacity
isEmpty(q) == q.size = 0

\* How many items fit.
Space(q) == q.capacity - q.size

\* One item; a full queue refuses it and prints an error.
enqueue(q, item) ==
  LET rear == Wrap(q.rear + 1, q.capacity) IN
    IF isFull(q) THEN q
    ELSE Ring(q.capacity, q.size + 1, q.front, rear,
              [q.array EXCEPT ![rear] = item])

\* The first item is front(q); an empty queue gives 0 and prints an error.
front(q) == q.array[q.front]
dequeue(q) ==
  IF isEmpty(q) THEN q
  ELSE Ring(q.capacity, q.size - 1, Wrap(q.front + 1, q.capacity), q.rear,
            q.array)

\* The items in the order in which dequeue returns them.
Contents(q) ==
  [i \in 1 .. q.size |-> q.array[Wrap(q.front + i - 1, q.capacity)]]

\* How many steps after rear index i is reached, from 1 to capacity.
Ahead(i, rear, capacity) ==
  IF i > rear THEN i - rear ELSE i - rear + capacity

\* enqueue for every item of s in turn; the items that do not fit are refused.
enqueue_all(q, s) ==
  LET n == IF Len(s) <= Space(q) THEN Len(s) ELSE Space(q)
      At(i) == Ahead(i, q.rear, q.capacity)
  IN  Ring(q.capacity, q.size + n, q.front, Wrap(q.rear + n, q.capacity),
           [i \in 0 .. q.capacity - 1 |->
              IF At(i) <= n THEN s[At(i)] ELSE q.array[i]])

\* dequeue n times, for n <= size.
dequeue_n(q, n) ==
  Ring(q.capacity, q.size - n, Wrap(q.front + n, q.capacity), q.rear, q.array)

reset_queue(q) == Ring(q.capacity, 0, 0, q.capacity - 1, q.array)

\* Mutant: a larger array under the old indices.
expand_queue_in_place(q, size) ==
  Ring(size, q.size, q.front, q.rear,
       [i \in 0 .. size - 1 |-> IF i < q.capacity THEN q.array[i] ELSE Unset])

\* A new ring with the items of the old one.
expand_queue(q, size) == enqueue_all(createQueue(size), Contents(q))

\* What every function keeps: indices in range, and rear one behind the place
\* that follows the last item.
IsQueue(q) ==
  /\ q = Ring(q.capacity, q.size, q.front, q.rear, q.array)
  /\ q.capacity \in Nat \ {0}
  /\ q.size \in 0 .. q.capacity
  /\ q.front \in 0 .. q.capacity - 1
  /\ q.rear \in 0 .. q.capacity - 1
  /\ q.array = [i \in 0 .. q.capacity - 1 |-> q.array[i]]
  /\ Wrap(q.rear + 1, q.capacity) = Wrap(q.front + q.size, q.capacity)

=============================================================================
