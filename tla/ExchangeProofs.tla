----------------------------- MODULE ExchangeProofs -----------------------------
(***************************************************************************)
(* Theorems about Exchange: the type invariant, ListsAgree, LossesFound    *)
(* and FlowControlled for any sets of devices, connections and strings,    *)
(* what the program misses, and when it ends.                              *)
(*                                                                         *)
(* Neither of the first two is inductive by itself.  An entry may be       *)
(* removed only for a loss that comes after its connect (LossesFound), and *)
(* that a loss about to be emitted comes after its connect follows from    *)
(* the balance (ListsAgree) of what is on the bus and in the two threads.  *)
(* A second notice of one loss takes back nothing, or an entry of another  *)
(* connection of the device: each is allowed for once (again), and Told    *)
(* adds that such a notice does not hide a connect that follows it.  All   *)
(* this holds while the program runs (Counts); it forgets its list when it *)
(* ends.                                                                   *)
(*                                                                         *)
(* FlowControlled is proved by counting tokens: each step hands on as many *)
(* as it takes, which rests on who waits for which answer (CallsInv).      *)
(* What is missed and when the program ends follow from the stages that    *)
(* the service and the program are in (Stages).                            *)
(***************************************************************************)
EXTENDS Exchange, FiniteSetTheorems, TLAPS

-----------------------------------------------------------------------------
(* Sequences: what removing, appending and taking away an item counts.     *)

\* t is s without its item k.
Removed(s, t, k) ==
  /\ k \in 1 .. Len(s)
  /\ Len(t) = Len(s) - 1
  /\ \A j \in 1 .. Len(t) : t[j] = IF j < k THEN s[j] ELSE s[j + 1]

\* Removing one item of a sequence takes away one occurrence of it.
LEMMA CountRemoved ==
  ASSUME NEW S, NEW s \in Seq(S), NEW t \in Seq(S), NEW k, Removed(s, t, k),
         NEW x
  PROVE  /\ Count(s, x) \in Nat /\ Count(t, x) \in Nat
         /\ Count(s, x) = Count(t, x) + (IF s[k] = x THEN 1 ELSE 0)
<1> DEFINE I == {i \in 1 .. Len(s) : s[i] = x}
           J == {j \in 1 .. Len(t) : t[j] = x}
<1>1. Count(s, x) = Cardinality(I) /\ Count(t, x) = Cardinality(J)
  <2>1. DOMAIN s = 1 .. Len(s) /\ DOMAIN t = 1 .. Len(t)
    OBVIOUS
  <2> QED
    BY <2>1 DEF Count
<1>2. /\ Len(s) \in Nat /\ Len(t) \in Nat
      /\ k \in 1 .. Len(s) /\ Len(t) = Len(s) - 1
      /\ \A j \in 1 .. Len(t) : t[j] = IF j < k THEN s[j] ELSE s[j + 1]
  BY DEF Removed
<1>3. IsFiniteSet(I) /\ IsFiniteSet(J)
  <2>1. IsFiniteSet(1 .. Len(s)) /\ IsFiniteSet(1 .. Len(t))
    BY <1>2, FS_Interval
  <2> QED
    BY <2>1, FS_Subset
<1>4. Cardinality(I \ {k}) = Cardinality(J)
  <2> DEFINE f == [j \in J |-> IF j < k THEN j ELSE j + 1]
  <2>1. f \in Bijection(J, I \ {k})
    <3>1. \A j \in J : f[j] \in I \ {k}
      BY <1>2
    <3>2. \A i, j \in J : f[i] = f[j] => i = j
      BY <1>2
    <3>3. ASSUME NEW i \in I \ {k} PROVE \E j \in J : f[j] = i
      <4>0. i \in 1 .. Len(s) /\ s[i] = x /\ i # k
        OBVIOUS
      <4> DEFINE j == IF i < k THEN i ELSE i - 1
      <4>1. j \in 1 .. Len(t) /\ (j < k <=> i < k)
        BY <4>0, <1>2
      <4>2. t[j] = s[i]
        BY <4>0, <4>1, <1>2
      <4>3. j \in J
        BY <4>0, <4>1, <4>2
      <4>4. f[j] = i
        <5>1. f[j] = IF j < k THEN j ELSE j + 1
          BY <4>3
        <5> QED
          BY <5>1, <4>0, <4>1
      <4> QED
        BY <4>3, <4>4
    <3> HIDE DEF I, J
    <3> QED
      BY <3>1, <3>2, <3>3 DEF Bijection, Injection, Surjection, IsInjective
  <2> HIDE DEF f, I, J
  <2> QED
    BY <2>1, <1>3, FS_Bijection DEF ExistsBijection
<1>5. /\ Cardinality(I) \in Nat /\ Cardinality(J) \in Nat
      /\ Cardinality(I \ {k}) = IF k \in I THEN Cardinality(I) - 1 ELSE Cardinality(I)
  <2> HIDE DEF I, J
  <2> QED
    BY <1>3, FS_CardinalityType, FS_RemoveElement
<1>6. k \in I <=> s[k] = x
  BY <1>2
<1> HIDE DEF I, J
<1> QED
  BY <1>1, <1>4, <1>5, <1>6

\* Appending an item adds an occurrence of it.
LEMMA CountAppend ==
  ASSUME NEW S, NEW s \in Seq(S), NEW y \in S, NEW x
  PROVE  /\ Count(s, x) \in Nat
         /\ Count(Append(s, y), x) = Count(s, x) + (IF y = x THEN 1 ELSE 0)
<1> DEFINE a == Append(s, y)
<1>1. /\ a \in Seq(S) /\ Len(a) = Len(s) + 1 /\ a[Len(a)] = y
      /\ \A j \in 1 .. Len(s) : a[j] = s[j]
  OBVIOUS
<1>2. Removed(a, s, Len(a))
  BY <1>1 DEF Removed
<1> HIDE DEF a
<1>3. /\ Count(s, x) \in Nat
      /\ Count(a, x) = Count(s, x) + (IF a[Len(a)] = x THEN 1 ELSE 0)
  BY <1>1, <1>2, CountRemoved
<1> QED
  BY <1>1, <1>3 DEF a

\* The tail has one occurrence of the head less.
LEMMA CountTail ==
  ASSUME NEW S, NEW s \in Seq(S), s # <<>>, NEW x
  PROVE  /\ Tail(s) \in Seq(S) /\ Count(Tail(s), x) \in Nat
         /\ Count(s, x) = Count(Tail(s), x) + (IF Head(s) = x THEN 1 ELSE 0)
<1> DEFINE t == Tail(s)
<1>1. t \in Seq(S) /\ Removed(s, t, 1) /\ Head(s) = s[1]
  BY DEF Removed
<1> HIDE DEF t
<1>2. /\ Count(t, x) \in Nat
      /\ Count(s, x) = Count(t, x) + (IF s[1] = x THEN 1 ELSE 0)
  BY <1>1, CountRemoved
<1> QED
  BY <1>1, <1>2 DEF t

\* An empty sequence.
LEMMA CountEmpty ==
  ASSUME NEW x
  PROVE  Count(<<>>, x) = 0
BY FS_EmptySet DEF Count

\* Something that does not occur, and something that does.
LEMMA CountZero ==
  ASSUME NEW S, NEW s \in Seq(S), NEW x
  PROVE  /\ Count(s, x) \in Nat
         /\ Count(s, x) = 0 <=> \A i \in 1 .. Len(s) : s[i] # x
<1> DEFINE I == {i \in 1 .. Len(s) : s[i] = x}
<1>1. Count(s, x) = Cardinality(I)
  <2>1. DOMAIN s = 1 .. Len(s)
    OBVIOUS
  <2> QED
    BY <2>1 DEF Count
<1>2. IsFiniteSet(I)
  <2>1. IsFiniteSet(1 .. Len(s))
    BY FS_Interval
  <2> QED
    BY <2>1, FS_Subset
<1>3. Cardinality(I) \in Nat /\ (Cardinality(I) = 0 <=> I = {})
  BY <1>2, FS_EmptySet, FS_CardinalityType
<1> QED
  BY <1>1, <1>3

\* The length and the items of a concatenation.
LEMMA Concat ==
  ASSUME NEW S, NEW s \in Seq(S), NEW t \in Seq(S)
  PROVE  /\ s \o t \in Seq(S)
         /\ Len(s \o t) = Len(s) + Len(t)
         /\ \A i \in 1 .. Len(s) : (s \o t)[i] = s[i]
         /\ \A i \in 1 .. Len(t) : (s \o t)[Len(s) + i] = t[i]
OBVIOUS

\* RemoveAt, place by place.
LEMMA RemoveAtIs ==
  ASSUME NEW S, NEW s \in Seq(S), NEW k \in 1 .. Len(s)
  PROVE  RemoveAt(s, k) \in Seq(S) /\ Removed(s, RemoveAt(s, k), k)
<1> DEFINE a == SubSeq(s, 1, k - 1)
           b == SubSeq(s, k + 1, Len(s))
<1>1. /\ Len(a) = k - 1
      /\ \A j \in 1 .. k - 1 : a[j] = s[j]
  OBVIOUS
<1>2. /\ Len(b) = Len(s) - k
      /\ \A j \in 1 .. Len(s) - k : b[j] = s[k + j]
  OBVIOUS
<1>s. a \in Seq(S) /\ b \in Seq(S)
  OBVIOUS
<1> HIDE DEF a, b
<1>3. /\ a \o b \in Seq(S) /\ Len(a \o b) = Len(a) + Len(b)
      /\ \A j \in 1 .. Len(a) : (a \o b)[j] = a[j]
      /\ \A j \in 1 .. Len(b) : (a \o b)[Len(a) + j] = b[j]
  BY <1>s, Concat
<1>4. ASSUME NEW j \in 1 .. Len(s) - 1
      PROVE  (a \o b)[j] = IF j < k THEN s[j] ELSE s[j + 1]
  <2>1. CASE j < k
    <3>1. j \in 1 .. Len(a) /\ j \in 1 .. k - 1
      BY <2>1, <1>1
    <3> QED
      BY <3>1, <2>1, <1>1, <1>3
  <2>2. CASE ~(j < k)
    <3> DEFINE m == j - (k - 1)
    <3>1. m \in 1 .. Len(b) /\ m \in 1 .. Len(s) - k /\ Len(a) + m = j
          /\ k + m = j + 1
      BY <2>2, <1>1, <1>2
    <3>2. (a \o b)[Len(a) + m] = b[m] /\ b[m] = s[k + m]
      BY <3>1, <1>2, <1>3
    <3> QED
      BY <3>1, <3>2, <2>2
  <2> QED
    BY <2>1, <2>2
<1>5. Len(a \o b) = Len(s) - 1
  BY <1>1, <1>2, <1>3
<1> QED
  BY <1>3, <1>4, <1>5 DEF RemoveAt, Removed, a, b

\* A set of numbers has a least one.
LEMMA LeastNumber ==
  ASSUME NEW N, N \subseteq Nat, N # {}
  PROVE  Min(N) \in N /\ \A m \in N : Min(N) <= m
<1>1. PICK n \in N : \A m \in N : ~ (<<m, n>> \in OpToRel(<, Nat))
  BY NatLessThanWellFounded, WFMin
<1>2. ASSUME NEW m \in N PROVE n <= m
  <2>1. CASE m < n
    BY <1>1, <2>1 DEF OpToRel
  <2> QED
    BY <2>1
<1> QED
  BY <1>2 DEF Min

\* The first place with a text, or 0.
LEMMA FirstWithIs ==
  ASSUME NEW d
  PROVE  \/ /\ FirstWith(d) \in 1 .. Len(_connected_clients)
            /\ text[_connected_clients[FirstWith(d)]] = d
         \/ /\ FirstWith(d) = 0
            /\ \A i \in 1 .. Len(_connected_clients) : text[_connected_clients[i]] # d
<1> DEFINE I == {i \in 1 .. Len(_connected_clients) : text[_connected_clients[i]] = d}
<1>1. FirstWith(d) = IF I # {} THEN Min(I) ELSE 0
  BY DEF FirstWith, SelectInSeq
<1>2. CASE I = {}
  BY <1>1, <1>2
<1>3. CASE I # {}
  <2>1. I \subseteq Nat
    OBVIOUS
  <2>2. Min(I) \in I
    <3> HIDE DEF I
    <3> QED
      BY <2>1, <1>3, LeastNumber
  <2> QED
    BY <1>1, <1>3, <2>2
<1> QED
  BY <1>2, <1>3

\* RemoveFirst takes one occurrence away, if there is one.
LEMMA RemoveFirstIs ==
  ASSUME NEW S, NEW s \in Seq(S), NEW e
  PROVE  /\ RemoveFirst(s, e) \in Seq(S)
         /\ \A x : /\ Count(s, x) \in Nat
                  /\ Count(RemoveFirst(s, e), x) =
                       IF x = e /\ Count(s, x) > 0 THEN Count(s, x) - 1
                                                  ELSE Count(s, x)
<1> DEFINE I == {i \in 1 .. Len(s) : s[i] = e}
           k == SelectInSeq(s, LAMBDA v : v = e)
<1>1. k = IF I # {} THEN Min(I) ELSE 0
  BY DEF SelectInSeq
<1>2. CASE I = {}
  <2>1. RemoveFirst(s, e) = s
    BY <1>2 DEF RemoveFirst
  <2>2. ASSUME NEW x PROVE Count(s, x) \in Nat /\ (x = e => Count(s, x) = 0)
    BY <1>2, CountZero
  <2> QED
    BY <2>1, <2>2
<1>3. CASE I # {}
  <2>1. k \in 1 .. Len(s) /\ s[k] = e
    <3>1. I \subseteq Nat
      OBVIOUS
    <3>2. Min(I) \in I
      <4> HIDE DEF I
      <4> QED
        BY <3>1, <1>3, LeastNumber
    <3> QED
      BY <1>1, <1>3, <3>2
  <2> DEFINE t == RemoveAt(s, k)
  <2>2. RemoveFirst(s, e) = t
    BY <1>3 DEF RemoveFirst
  <2> HIDE DEF k
  <2>3. t \in Seq(S) /\ Removed(s, t, k)
    BY <2>1, RemoveAtIs
  <2> HIDE DEF t
  <2>4. ASSUME NEW x
        PROVE  /\ Count(s, x) \in Nat /\ Count(t, x) \in Nat
               /\ Count(s, x) = Count(t, x) + (IF s[k] = x THEN 1 ELSE 0)
    BY <2>3, CountRemoved
  <2>5. ASSUME NEW x
        PROVE  Count(t, x) = IF x = e /\ Count(s, x) > 0 THEN Count(s, x) - 1
                                                          ELSE Count(s, x)
    BY <2>1, <2>4
  <2> QED
    BY <2>2, <2>3, <2>4, <2>5
<1> QED
  BY <1>2, <1>3

-----------------------------------------------------------------------------
(* Counting signals on the bus, connections and entries of the list.       *)

\* In every prefix of s, no more of b than of a and n others.
Covered(s, n, a, b) ==
  \A i \in 1 .. Len(s) : Count(SubSeq(s, 1, i), b) <= n + Count(SubSeq(s, 1, i), a)

\* An item appended to s is in no prefix but the last.
LEMMA CoveredAppend ==
  ASSUME NEW S, NEW s \in Seq(S), NEW y \in S, NEW n, NEW a, NEW b,
         Covered(s, n, a, b),
         Count(Append(s, y), b) <= n + Count(Append(s, y), a)
  PROVE  Covered(Append(s, y), n, a, b)
<1> DEFINE t == Append(s, y)
<1>1. Len(t) = Len(s) + 1
  OBVIOUS
<1>2. ASSUME NEW i \in 1 .. Len(s) PROVE SubSeq(t, 1, i) = SubSeq(s, 1, i)
  OBVIOUS
<1>3. SubSeq(t, 1, Len(t)) = t
  OBVIOUS
<1>4. ASSUME NEW i \in 1 .. Len(t)
      PROVE  Count(SubSeq(t, 1, i), b) <= n + Count(SubSeq(t, 1, i), a)
  <2> HIDE DEF t
  <2>1. CASE i = Len(t)
    BY <2>1, <1>3 DEF t
  <2>2. CASE i # Len(t)
    <3>1. i \in 1 .. Len(s)
      BY <2>2, <1>1
    <3> QED
      BY <3>1, <1>2 DEF Covered
  <2> QED
    BY <2>1, <2>2
<1> QED
  BY <1>4 DEF Covered

\* The head leaves: n has counted an a, or a b has been counted off.
LEMMA CoveredTail ==
  ASSUME NEW S, NEW s \in Seq(S), s # <<>>, NEW n \in Nat, NEW m \in Nat,
         NEW a, NEW b, a # b, Covered(s, n, a, b),
         m = n + (IF Head(s) = a THEN 1 ELSE 0) - (IF Head(s) = b THEN 1 ELSE 0)
  PROVE  Covered(Tail(s), m, a, b)
<1> DEFINE t == Tail(s)
<1>1. Len(t) = Len(s) - 1 /\ Len(s) \in Nat \ {0}
  OBVIOUS
<1>2. ASSUME NEW i \in 1 .. Len(t)
      PROVE  Count(SubSeq(t, 1, i), b) <= m + Count(SubSeq(t, 1, i), a)
  <2> DEFINE p == SubSeq(s, 1, i + 1)
  <2>1. i + 1 \in 1 .. Len(s)
    BY <1>1
  <2>2. /\ p \in Seq(S) /\ p # <<>> /\ Head(p) = Head(s)
        /\ SubSeq(t, 1, i) = Tail(p)
    <3>1. p \in Seq(S) /\ Len(p) = i + 1 /\ \A j \in 1 .. i + 1 : p[j] = s[j]
      BY <2>1, <1>1
    <3>2. t \in Seq(S) /\ \A j \in 1 .. Len(t) : t[j] = s[j + 1]
      BY <1>1
    <3> HIDE DEF p, t
    <3>3. /\ SubSeq(t, 1, i) \in Seq(S) /\ Len(SubSeq(t, 1, i)) = i
          /\ \A j \in 1 .. i : SubSeq(t, 1, i)[j] = s[j + 1]
      BY <3>2
    <3>4. /\ Tail(p) \in Seq(S) /\ Len(Tail(p)) = i
          /\ \A j \in 1 .. i : Tail(p)[j] = s[j + 1]
      BY <3>1
    <3>5. p # <<>> /\ Head(p) = Head(s)
      BY <3>1
    <3>6. SubSeq(t, 1, i) = Tail(p)
      BY <3>3, <3>4
    <3> QED
      BY <3>1, <3>5, <3>6
  <2>3. Count(p, b) <= n + Count(p, a)
    BY <2>1 DEF Covered
  <2> HIDE DEF p, t
  <2>4. ASSUME NEW x
        PROVE  /\ Count(Tail(p), x) \in Nat
               /\ Count(p, x) = Count(Tail(p), x) + (IF Head(p) = x THEN 1 ELSE 0)
    BY <2>2, CountTail
  <2>5. /\ Count(Tail(p), a) \in Nat /\ Count(Tail(p), b) \in Nat
        /\ Count(p, a) = Count(Tail(p), a) + (IF Head(s) = a THEN 1 ELSE 0)
        /\ Count(p, b) = Count(Tail(p), b) + (IF Head(s) = b THEN 1 ELSE 0)
    BY <2>2, <2>4
  <2>6. Count(Tail(p), b) <= m + Count(Tail(p), a)
    BY <2>3, <2>5
  <2> QED
    BY <2>2, <2>6
<1> QED
  BY <1>2 DEF Covered

\* When b comes first, n is not 0.
LEMMA CoveredHead ==
  ASSUME NEW S, NEW s \in Seq(S), s # <<>>, NEW n \in Nat,
         NEW a, NEW b, a # b, Covered(s, n, a, b), Head(s) = b
  PROVE  n > 0
<1> DEFINE p == SubSeq(s, 1, 1)
<1>1. 1 \in 1 .. Len(s)
  OBVIOUS
<1>2. p \in Seq(S) /\ p # <<>> /\ Head(p) = b /\ Tail(p) = <<>>
  BY <1>1
<1>3. Count(p, b) <= n + Count(p, a)
  BY <1>1 DEF Covered
<1> HIDE DEF p
<1>4. ASSUME NEW x
      PROVE  Count(p, x) = Count(Tail(p), x) + (IF Head(p) = x THEN 1 ELSE 0)
  BY <1>2, CountTail
<1>5. Count(<<>>, a) = 0 /\ Count(<<>>, b) = 0
  BY CountEmpty
<1>6. Count(p, a) = 0 /\ Count(p, b) = 1
  <2>1. Count(p, a) = Count(Tail(p), a) + (IF Head(p) = a THEN 1 ELSE 0)
    BY <1>4
  <2>2. Count(p, b) = Count(Tail(p), b) + (IF Head(p) = b THEN 1 ELSE 0)
    BY <1>4
  <2>3. Count(Tail(p), a) = 0 /\ Count(Tail(p), b) = 0
    BY <1>2, <1>5
  <2>4. Head(p) = b
    BY <1>2
  <2> QED
    BY <2>1, <2>2, <2>3, <2>4
<1> QED
  BY <1>3, <1>6

-----------------------------------------------------------------------------
\* Sessions and Entries, as functions of the variables they read.
Present(ses, dev, d) == Cardinality({c \in Conns : ses[c] = "present" /\ dev[c] = d})

\* The entries of d in a list of strings with these texts.
EntriesIn(list, txt, d) == Cardinality({i \in DOMAIN list : txt[list[i]] = d})

\* What may have been reported of a connection.
States == {"absent", "present", "past"}

\* They are finitely many.
LEMMA PresentNat ==
  ASSUME NEW ses, NEW dev, NEW d
  PROVE  /\ Present(ses, dev, d) \in Nat
         /\ IsFiniteSet({c \in Conns : ses[c] = "present" /\ dev[c] = d})
<1> DEFINE I == {c \in Conns : ses[c] = "present" /\ dev[c] = d}
<1>1. IsFiniteSet(I)
  BY ServiceAssumption, FS_Subset
<1>2. Cardinality(I) \in Nat
  BY <1>1, FS_CardinalityType
<1> QED
  BY <1>1, <1>2 DEF Present

\* A device of which a connection was reported has one.
LEMMA PresentPositive ==
  ASSUME NEW ses, NEW dev, NEW d, NEW c \in Conns, ses[c] = "present", dev[c] = d
  PROVE  Present(ses, dev, d) > 0
<1> DEFINE I == {k \in Conns : ses[k] = "present" /\ dev[k] = d}
<1>1. IsFiniteSet(I) /\ I # {}
  BY PresentNat
<1>2. Cardinality(I) \in Nat /\ Cardinality(I) # 0
  BY <1>1, FS_CardinalityType, FS_EmptySet
<1> QED
  BY <1>2 DEF Present

\* A device of which none was reported has none.
LEMMA PresentNone ==
  ASSUME NEW ses, NEW dev, NEW d,
         \A c \in Conns : ses[c] = "present" => dev[c] # d
  PROVE  Present(ses, dev, d) = 0
<1>1. {c \in Conns : ses[c] = "present" /\ dev[c] = d} = {}
  OBVIOUS
<1> QED
  BY <1>1, FS_EmptySet DEF Present

\* What Announce and Withdraw do to the sessions and the devices.
Announced(ses, dev, c, e, ses1, dev1) ==
  /\ ses \in [Conns -> States] /\ dev \in [Conns -> Devices \cup {NoDevice}]
  /\ ses[c] = "absent"
  /\ ses1 = [ses EXCEPT ![c] = "present"]
  /\ dev1 = [dev EXCEPT ![c] = e]

Withdrawn(ses, c, ses1) ==
  /\ ses \in [Conns -> States]
  /\ ses[c] = "present"
  /\ ses1 = [ses EXCEPT ![c] = "past"]

\* Announcing a connection adds one session of its device.
LEMMA PresentAnnounce ==
  ASSUME NEW ses, NEW dev, NEW c \in Conns, NEW e, NEW d, NEW ses1, NEW dev1,
         Announced(ses, dev, c, e, ses1, dev1)
  PROVE  Present(ses1, dev1, d) = Present(ses, dev, d) + (IF d = e THEN 1 ELSE 0)
<1> DEFINE I == {k \in Conns : ses[k] = "present" /\ dev[k] = d}
           J == {k \in Conns : ses1[k] = "present" /\ dev1[k] = d}
<1>1. IsFiniteSet(I)
  BY ServiceAssumption, FS_Subset
<1>2. J = IF d = e THEN I \cup {c} ELSE I
  BY DEF Announced
<1>3. c \notin I
  BY DEF Announced
<1>4. Present(ses, dev, d) = Cardinality(I) /\ Present(ses1, dev1, d) = Cardinality(J)
  BY DEF Present
<1>5. Cardinality(I) \in Nat /\ Cardinality(I \cup {c}) = Cardinality(I) + 1
  <2> HIDE DEF I
  <2> QED
    BY <1>1, <1>3, FS_CardinalityType, FS_AddElement
<1> HIDE DEF I, J
<1> QED
  BY <1>2, <1>4, <1>5

\* Withdrawing one takes it away.
LEMMA PresentWithdraw ==
  ASSUME NEW ses, NEW dev, NEW c \in Conns, NEW d, NEW ses1, Withdrawn(ses, c, ses1)
  PROVE  Present(ses1, dev, d) =
         Present(ses, dev, d) - (IF d = dev[c] THEN 1 ELSE 0)
<1> DEFINE I == {k \in Conns : ses[k] = "present" /\ dev[k] = d}
           J == {k \in Conns : ses1[k] = "present" /\ dev[k] = d}
<1>1. IsFiniteSet(I)
  BY ServiceAssumption, FS_Subset
<1>2. J = I \ {c}
  BY DEF Withdrawn
<1>3. c \in I <=> d = dev[c]
  BY DEF Withdrawn
<1>4. Present(ses, dev, d) = Cardinality(I) /\ Present(ses1, dev, d) = Cardinality(J)
  BY DEF Present
<1>5. /\ Cardinality(I) \in Nat
      /\ Cardinality(I \ {c}) = IF c \in I THEN Cardinality(I) - 1 ELSE Cardinality(I)
  <2> HIDE DEF I
  <2> QED
    BY <1>1, FS_CardinalityType, FS_RemoveElement
<1> HIDE DEF I, J
<1> QED
  BY <1>2, <1>3, <1>4, <1>5

\* What a string may hold.
Texts == Devices \cup {Junk, NULL}

\* The texts of the strings in the list.
TextOf(list, txt) == [i \in 1 .. Len(list) |-> txt[list[i]]]

\* The entries of a device are the occurrences of its UUID among the texts.
LEMMA EntriesIsCount ==
  ASSUME NEW list \in Seq(Strings), NEW txt \in [Strings -> Texts],
         NEW d
  PROVE  /\ EntriesIn(list, txt, d) = Count(TextOf(list, txt), d)
         /\ TextOf(list, txt) \in Seq(Texts)
         /\ Len(TextOf(list, txt)) = Len(list)
         /\ EntriesIn(list, txt, d) \in Nat
<1> DEFINE t == TextOf(list, txt)
<1>1. \A i \in 1 .. Len(list) : txt[list[i]] \in Texts
  OBVIOUS
<1>2. t \in Seq(Texts) /\ Len(t) = Len(list)
  BY <1>1 DEF TextOf
<1>3. {i \in DOMAIN list : txt[list[i]] = d} = {i \in DOMAIN t : t[i] = d}
  BY DEF TextOf
<1>4. EntriesIn(list, txt, d) = Count(t, d)
  BY <1>3 DEF EntriesIn, Count
<1>5. Count(t, d) \in Nat
  <2> HIDE DEF t
  <2> QED
    BY <1>2, CountZero
<1> QED
  BY <1>2, <1>4, <1>5

\* A string that is not in the list is given a text and appended.
Enlisted(list, txt, s, e, list1, txt1) ==
  /\ list \in Seq(Strings) /\ txt \in [Strings -> Texts]
  /\ s \in Strings /\ e \in Devices
  /\ \A i \in 1 .. Len(list) : list[i] # s
  /\ list1 = Append(list, s)
  /\ txt1 = [txt EXCEPT ![s] = e]

LEMMA EnlistedCounts ==
  ASSUME NEW list, NEW txt, NEW s, NEW e, NEW l, NEW x, NEW d,
         Enlisted(list, txt, s, e, l, x)
  PROVE  EntriesIn(l, x, d) = EntriesIn(list, txt, d) + (IF d = e THEN 1 ELSE 0)
<1> DEFINE t == TextOf(list, txt)
<1>0. /\ list \in Seq(Strings) /\ txt \in [Strings -> Texts]
      /\ s \in Strings /\ e \in Devices
      /\ \A i \in 1 .. Len(list) : list[i] # s
      /\ l = Append(list, s)
      /\ x = [txt EXCEPT ![s] = e]
  BY DEF Enlisted
<1>1. l \in Seq(Strings) /\ x \in [Strings -> Texts] /\ e \in Texts
  BY <1>0 DEF Texts
<1>2. t \in Seq(Texts) /\ Len(t) = Len(list)
  BY <1>0, EntriesIsCount
<1>3. TextOf(l, x) = Append(t, e)
  <2>1. /\ Len(l) = Len(list) + 1 /\ l[Len(list) + 1] = s
        /\ \A i \in 1 .. Len(list) : l[i] = list[i]
    BY <1>0
  <2>2. x[s] = e /\ \A i \in 1 .. Len(list) : x[list[i]] = txt[list[i]]
    BY <1>0
  <2>3. \A i \in 1 .. Len(list) : t[i] = txt[list[i]]
    BY DEF TextOf
  <2> DEFINE a == Append(t, e)
  <2>4. /\ a \in Seq(Texts) /\ Len(a) = Len(l)
        /\ a[Len(l)] = e
        /\ \A i \in 1 .. Len(list) : a[i] = t[i]
    <3> HIDE DEF t
    <3> QED
      BY <1>0, <1>1, <1>2, <2>1
  <2> HIDE DEF t, a
  <2>5. \A i \in 1 .. Len(l) : x[l[i]] = a[i]
    BY <1>0, <2>1, <2>2, <2>3, <2>4
  <2>6. TextOf(l, x) = [i \in 1 .. Len(l) |-> x[l[i]]]
    BY DEF TextOf
  <2>7. a = [i \in 1 .. Len(l) |-> a[i]]
    BY <2>4
  <2> QED
    BY <2>5, <2>6, <2>7 DEF a
<1>4. EntriesIn(list, txt, d) = Count(t, d) /\ Count(t, d) \in Nat
  BY <1>0, EntriesIsCount
<1>5. EntriesIn(l, x, d) = Count(TextOf(l, x), d)
  BY <1>1, EntriesIsCount
<1> HIDE DEF t
<1>6. Count(Append(t, e), d) = Count(t, d) + (IF e = d THEN 1 ELSE 0)
  BY <1>1, <1>2, CountAppend
<1> QED
  BY <1>3, <1>4, <1>5, <1>6

\* The string at place k is freed, and its text may change.
LEMMA EntriesRemove ==
  ASSUME NEW list \in Seq(Strings), NEW txt \in [Strings -> Texts],
         NEW k \in 1 .. Len(list), NEW left \in Texts, NEW d,
         \A i, j \in 1 .. Len(list) : list[i] = list[j] => i = j
  PROVE  EntriesIn(RemoveAt(list, k), [txt EXCEPT ![list[k]] = left], d) =
         EntriesIn(list, txt, d) - (IF d = txt[list[k]] THEN 1 ELSE 0)
<1> DEFINE l == RemoveAt(list, k)
           x == [txt EXCEPT ![list[k]] = left]
           t == TextOf(list, txt)
           u == TextOf(l, x)
<1>1. l \in Seq(Strings) /\ x \in [Strings -> Texts]
      /\ Removed(list, l, k)
  <2>1. l \in Seq(Strings) /\ Removed(list, l, k)
    BY RemoveAtIs
  <2>2. x \in [Strings -> Texts]
    OBVIOUS
  <2> QED
    BY <2>1, <2>2
<1>2. t \in Seq(Texts) /\ Len(t) = Len(list)
  BY EntriesIsCount
<1>3. u \in Seq(Texts) /\ Len(u) = Len(l)
  <2> HIDE DEF l, x
  <2> QED
    BY <1>1, EntriesIsCount
<1>4. Removed(t, u, k)
  <2>1. \A i \in 1 .. Len(list) : t[i] = txt[list[i]]
    BY DEF TextOf
  <2>2. \A i \in 1 .. Len(l) : u[i] = x[l[i]]
    <3> HIDE DEF l, x
    <3> QED
      BY DEF TextOf
  <2>3. \A i \in 1 .. Len(list) : i # k => x[list[i]] = txt[list[i]]
    OBVIOUS
  <2>4. /\ Len(l) = Len(list) - 1 /\ Len(list) \in Nat
        /\ \A i \in 1 .. Len(l) : l[i] = IF i < k THEN list[i] ELSE list[i + 1]
    BY <1>1 DEF Removed
  <2> HIDE DEF l, x, t, u
  <2>5. ASSUME NEW i \in 1 .. Len(u)
        PROVE  u[i] = IF i < k THEN t[i] ELSE t[i + 1]
    <3>1. i \in 1 .. Len(l) /\ i \in 1 .. Len(list) /\ i + 1 \in 1 .. Len(list)
      BY <1>3, <2>4
    <3>2. u[i] = x[l[i]]
      BY <2>2, <3>1
    <3>3. CASE i < k
      <4>1. l[i] = list[i] /\ x[list[i]] = txt[list[i]] /\ t[i] = txt[list[i]]
        BY <3>1, <3>3, <2>1, <2>3, <2>4
      <4> QED
        BY <3>2, <3>3, <4>1
    <3>4. CASE ~(i < k)
      <4>1. /\ l[i] = list[i + 1] /\ x[list[i + 1]] = txt[list[i + 1]]
            /\ t[i + 1] = txt[list[i + 1]]
        BY <3>1, <3>4, <2>1, <2>3, <2>4
      <4> QED
        BY <3>2, <3>4, <4>1
    <3> QED
      BY <3>3, <3>4
  <2>6. k \in 1 .. Len(t) /\ Len(u) = Len(t) - 1
    BY <1>2, <1>3, <2>4
  <2> QED
    BY <2>5, <2>6 DEF Removed
<1>5. t[k] = txt[list[k]]
  BY DEF TextOf
<1>6. EntriesIn(list, txt, d) = Count(t, d)
  BY EntriesIsCount
<1>7. EntriesIn(l, x, d) = Count(u, d)
  <2> HIDE DEF l, x
  <2> QED
    BY <1>1, EntriesIsCount
<1> HIDE DEF l, x, t, u
<1>8. /\ Count(t, d) \in Nat /\ Count(u, d) \in Nat
      /\ Count(t, d) = Count(u, d) + (IF t[k] = d THEN 1 ELSE 0)
  BY <1>2, <1>3, <1>4, CountRemoved
<1>9. EntriesIn(l, x, d) = EntriesIn(list, txt, d) - (IF d = txt[list[k]] THEN 1 ELSE 0)
  BY <1>5, <1>6, <1>7, <1>8
<1> QED
  BY <1>9 DEF l, x

\* The same, of the lists and texts before and after a step.
Freed(list, txt, k, left, list1, txt1) ==
  /\ list \in Seq(Strings) /\ txt \in [Strings -> Texts]
  /\ k \in 1 .. Len(list) /\ left \in Texts
  /\ \A i, j \in 1 .. Len(list) : list[i] = list[j] => i = j
  /\ list1 = RemoveAt(list, k)
  /\ txt1 = [txt EXCEPT ![list[k]] = left]

\* A freed string is an entry less.
LEMMA FreedCounts ==
  ASSUME NEW list, NEW txt, NEW k, NEW left, NEW list1, NEW txt1, NEW d,
         Freed(list, txt, k, left, list1, txt1)
  PROVE  EntriesIn(list1, txt1, d) =
         EntriesIn(list, txt, d) - (IF d = txt[list[k]] THEN 1 ELSE 0)
<1>1. /\ list \in Seq(Strings) /\ txt \in [Strings -> Texts]
      /\ k \in 1 .. Len(list) /\ left \in Texts
      /\ \A i, j \in 1 .. Len(list) : list[i] = list[j] => i = j
  BY DEF Freed
<1>2. list1 = RemoveAt(list, k) /\ txt1 = [txt EXCEPT ![list[k]] = left]
  BY DEF Freed
<1> QED
  BY <1>1, <1>2, EntriesRemove

-----------------------------------------------------------------------------
(* The shape of the states.                                                *)

\* What the callbacks say on the bus.
Reports == {m \in SignalType : m.name \in Signals /\ m.uuid \in Devices}

\* A connection with a cell was reported, and is a connection of some device.
LinkShape ==
  /\ session \in [Conns -> States]
  /\ device \in [Conns -> Devices \cup {NoDevice}]
  /\ fd \in [Conns -> Conns]
  /\ client_infos \subseteq Conns
  /\ peer \in [Conns -> {"up", "gone", "closed"}]
  /\ asked \in [Conns -> Nat]
  /\ arrived \in [Conns -> Nat]
  /\ \A c \in Conns : session[c] = "present" => device[c] \in Devices
  /\ \A c \in client_infos : session[c] # "absent" /\ device[c] \in Devices

LoopType ==
  [pc : {"idle", "send", "tell", "close"}, thread : Callers \cup {NoDevice},
   conn : Conns \cup {NoConn}, tell : Devices \cup {NoDevice}]

\* The DBUS loop is at some connection, when it is not idle.
LoopShape ==
  /\ svc \in {"init", "execute", "run", "kill", "down"}
  /\ config \in Configs
  /\ clients \in Seq(Devices)
  /\ again \in [Devices -> Nat]
  /\ loop \in LoopType
  /\ loop.pc # "idle" => loop.thread \in Callers /\ loop.conn \in Conns
  /\ IF loop.pc = "tell" THEN loop.tell \in Devices ELSE loop.tell = NoDevice

\* While a connection is announced it is not withdrawn.
ExecShape ==
  /\ exec \in [signal : SignalType, conn : Conns \cup {NoConn}]
  /\ \/ exec.signal = Resting.signal
     \/ /\ exec.signal \in Reports /\ exec.signal.name # "RECV"
        /\ exec.conn \in Conns
  /\ exec.signal.name = "CONNECT" =>
       session[exec.conn] = "present" /\ device[exec.conn] = exec.signal.uuid

\* Only reports are on the bus.
BusShape ==
  /\ call \in [Callers -> Calls]
  /\ reply \in [Callers -> {"none", "true", "false", "error"}]
  /\ tcp_sbscr \in [Slots -> Signals \cup {NoSignal}]
  /\ bus \in Seq(Reports)
  /\ missed \subseteq Devices

\* The list has each string once, and holds UUIDs.
ProgramShape ==
  /\ hellos \in 0 .. MaxHellos
  /\ text \in [Strings -> Texts]
  /\ _connected_clients \in Seq(Strings)
  /\ \A i, j \in 1 .. Len(_connected_clients) :
       _connected_clients[i] = _connected_clients[j] => i = j
  /\ \A i \in 1 .. Len(_connected_clients) : text[_connected_clients[i]] \in Devices
  /\ _specific_UUID \in Strings \cup {NULL}
  /\ data_queue \in Seq(Devices)
  /\ main \in {"init", "recv", "connect", "disconnect", "idle", "request",
               "ended"}
  /\ cb \in {"idle", "select", "request", "greet", "deselect"}
  /\ cb = "select" => _connected_clients # <<>>
  /\ lost \in Devices \cup {NoDevice}
  /\ msg \in Devices \cup {NoDevice}
  /\ main = "request" => msg \in Devices

\* What the steps of the service preserve.
ServiceShape == LinkShape /\ LoopShape /\ ExecShape /\ BusShape
\* The type invariant, strengthened to be inductive.
Shape == ServiceShape /\ ProgramShape

\* Shape is the type invariant, and more.
LEMMA ShapeImpliesTypeOK == Shape => TypeOK
<1> SUFFICES ASSUME Shape PROVE TypeOK
  OBVIOUS
<1> USE DEF Shape, ServiceShape
<1>1. bus \in Seq(SignalType)
  <2>1. bus \in Seq(Reports) /\ Reports \subseteq SignalType
    BY DEF BusShape, Reports
  <2> QED
    BY <2>1
<1>2. ServiceTypeOK
  BY <1>1 DEF LinkShape, LoopShape, LoopType, ExecShape, BusShape, ServiceTypeOK, States
<1>3. \A i, j \in DOMAIN _connected_clients :
        _connected_clients[i] = _connected_clients[j] => i = j
  <2>1. DOMAIN _connected_clients = 1 .. Len(_connected_clients)
    BY DEF ProgramShape
  <2> QED
    BY <2>1 DEF ProgramShape
<1> QED
  BY <1>2, <1>3 DEF ProgramShape, TypeOK, Texts

-----------------------------------------------------------------------------
(* The frames.                                                             *)

\* Nothing of the links changes.
LEMMA LinkFrame == LinkShape /\ UNCHANGED linkVars => LinkShape'
  BY DEF LinkShape, linkVars

\* Nothing the loop and the table hold changes.
LEMMA LoopFrame ==
  LoopShape /\ UNCHANGED <<svc, config, clients, again, loop>> => LoopShape'
  BY DEF LoopShape

\* Nothing the execute thread relies on changes.
LEMMA ExecFrame == ExecShape /\ UNCHANGED <<session, device, exec>> => ExecShape'
  BY DEF ExecShape

\* Nothing of the bus changes.
LEMMA BusFrame == BusShape /\ UNCHANGED busVars => BusShape'
  BY DEF BusShape, busVars

\* Nothing of the programs changes.
LEMMA ProgramFrame == ProgramShape /\ UNCHANGED <<hellos, programVars>> => ProgramShape'
  BY DEF ProgramShape, programVars

-----------------------------------------------------------------------------
(* The steps of the service.                                               *)

\* Closing all the sockets.
LEMMA ConnectionsEndShape ==
  ASSUME ServiceShape, ConnectionsEnd
  PROVE  LinkShape' /\ missed' \subseteq Devices
<1>1. LinkShape'
  BY DEF ConnectionsEnd, LinkShape, States
<1>2. Unreported \subseteq Devices
  <2>1. exec.signal.uuid \in Devices \cup {NoDevice}
    BY DEF ServiceShape, ExecShape, SignalType
  <2>2. loop.tell \in Devices \cup {NoDevice}
    BY DEF ServiceShape, LoopShape, LoopType
  <2> QED
    BY <2>1, <2>2 DEF Unreported, ServiceShape, LinkShape
<1>3. missed' \subseteq Devices
  BY <1>2 DEF ConnectionsEnd, ServiceShape, BusShape
<1> QED
  BY <1>1, <1>3

\* No report has the name or the UUID of the resting state.
LEMMA RestingShape ==
  /\ Resting \in [signal : SignalType, conn : Conns \cup {NoConn}]
  /\ Resting.signal = Signal("NULL", NoDevice)
  /\ Resting.signal.name = "NULL" /\ Resting.signal.uuid = NoDevice
BY DEF Resting, Signal, SignalType

\* While it closes a connection the execute thread reports nothing.
LEMMA ClosingShape ==
  ASSUME NEW c \in Conns \cup {NoConn}
  PROVE  /\ Closing(c) \in [signal : SignalType, conn : Conns \cup {NoConn}]
         /\ Closing(c).signal = Resting.signal
BY RestingShape DEF Closing, Resting

\* The idle loop has nothing to tell.
LEMMA LoopIdleShape ==
  LoopIdle \in LoopType /\ LoopIdle.pc = "idle" /\ LoopIdle.tell = NoDevice
BY DEF LoopIdle, LoopType

\* The end of the process.
LEMMA ProcessEndsShape ==
  ASSUME ServiceShape, ProcessEnds
  PROVE  ServiceShape'
<1>1. LinkShape' /\ missed' \subseteq Devices
  BY ConnectionsEndShape DEF ProcessEnds
<1>2. LoopShape'
  BY LoopIdleShape DEF ProcessEnds, LoopShape, ServiceShape, tcp_dbus_srv_delete,
     NoConfig, Config, Configs
<1>3. ExecShape'
  BY RestingShape DEF ProcessEnds, ExecShape
<1>4. BusShape'
  BY <1>1 DEF ProcessEnds, BusShape, ServiceShape
<1> QED
  BY <1>1, <1>2, <1>3, <1>4 DEF ServiceShape

\* The start of the server object.
LEMMA InitializeShape ==
  ASSUME ServiceShape, NEW answer \in BusAnswers, Initialize(answer)
  PROVE  ServiceShape'
<1>1. CASE ProcessEnds
  BY <1>1, ProcessEndsShape
<1>2. CASE /\ config' = tcp_dbus_srv_init(config, answer)
           /\ svc' = "execute"
           /\ UNCHANGED <<linkVars, clients, exec, loop, again, busVars>>
  <2>1. config' \in Configs
    BY <1>2 DEF ServiceShape, LoopShape, tcp_dbus_srv_init, Config, Configs
  <2> QED
    BY <1>2, <2>1, LinkFrame, ExecFrame, BusFrame
       DEF ServiceShape, LoopShape, linkVars
<1> QED
  BY <1>1, <1>2 DEF Initialize

\* The start of the loop.
LEMMA ExecuteShape ==
  ASSUME ServiceShape, Execute
  PROVE  ServiceShape'
<1>1. CASE ProcessEnds
  BY <1>1, ProcessEndsShape
<1>2. CASE /\ svc' = "run"
           /\ UNCHANGED <<linkVars, config, clients, exec, loop, again, busVars>>
  BY <1>2, LinkFrame, ExecFrame, BusFrame DEF ServiceShape, LoopShape, linkVars
<1> QED
  BY <1>1, <1>2 DEF Execute

\* The orderly end, up to its two seconds.
LEMMA QuitShape ==
  ASSUME ServiceShape, Quit
  PROVE  ServiceShape'
<1>1. /\ svc' = "kill" /\ exec = Resting
      /\ ConnectionsEnd
      /\ UNCHANGED <<config, clients, exec, loop, again, call, reply, tcp_sbscr, bus>>
  BY DEF Quit
<1>2. LinkShape' /\ missed' \subseteq Devices
  BY <1>1, ConnectionsEndShape
<1>3. LoopShape' /\ ExecShape' /\ BusShape'
  BY <1>1, <1>2, RestingShape DEF ServiceShape, LoopShape, ExecShape, BusShape
<1> QED
  BY <1>2, <1>3 DEF ServiceShape

\* A connection is announced.
LEMMA ConnectShape ==
  ASSUME ServiceShape, NEW c \in Conns, NEW d \in Devices, Connect(c, d)
  PROVE  ServiceShape'
<1>1. /\ session' = [session EXCEPT ![c] = "present"]
      /\ device' = [device EXCEPT ![c] = d]
      /\ \E n \in FreeNumbers(c) : fd' = [fd EXCEPT ![c] = n]
      /\ client_infos' = client_infos \cup {c}
      /\ clients' = Append(clients, d)
      /\ exec' = Telling("CONNECT", d, c)
      /\ UNCHANGED <<peer, asked, arrived, svc, config, loop, again, busVars>>
  BY DEF Connect, Contract!Announce, add_client
<1>2. LinkShape'
  <2>1. FreeNumbers(c) \subseteq Conns
    BY DEF FreeNumbers, ServiceShape, LinkShape
  <2>2. fd' \in [Conns -> Conns]
    BY <1>1, <2>1 DEF ServiceShape, LinkShape
  <2>3. /\ session' \in [Conns -> States] /\ session'[c] = "present"
        /\ \A k \in Conns : k # c => session'[k] = session[k]
    BY <1>1 DEF ServiceShape, LinkShape, States
  <2>4. /\ device' \in [Conns -> Devices \cup {NoDevice}] /\ device'[c] = d
        /\ \A k \in Conns : k # c => device'[k] = device[k]
    BY <1>1 DEF ServiceShape, LinkShape
  <2> QED
    BY <1>1, <2>2, <2>3, <2>4 DEF ServiceShape, LinkShape
<1>3. LoopShape'
  BY <1>1 DEF ServiceShape, LoopShape
<1>4. /\ exec'.signal.name = "CONNECT" /\ exec'.signal.uuid = d
      /\ exec'.signal \in Reports /\ exec'.conn = c
      /\ exec' \in [signal : SignalType, conn : Conns \cup {NoConn}]
  BY <1>1 DEF Telling, Signal, Reports, SignalType, Signals
<1>5. session'[c] = "present" /\ device'[c] = d
  BY <1>1 DEF ServiceShape, LinkShape
<1>6. ExecShape'
  BY <1>4, <1>5 DEF ExecShape
<1>7. BusShape'
  BY <1>1, BusFrame DEF ServiceShape
<1> QED
  BY <1>2, <1>3, <1>6, <1>7 DEF ServiceShape

\* Everything but the links.
LEMMA OtherFrame ==
  ASSUME ServiceShape, UNCHANGED linkFrame
  PROVE  LoopShape' /\ ExecShape' /\ BusShape'
BY LoopFrame, ExecFrame, BusFrame DEF ServiceShape, linkFrame, serviceVars

\* A device goes away.
LEMMA LeaveShape ==
  ASSUME ServiceShape, NEW c \in Conns, NEW how \in {"gone", "closed"}, Leave(c, how)
  PROVE  ServiceShape'
<1>1. LinkShape'
  BY DEF Leave, linkFrame, ServiceShape, LinkShape
<1> QED
  BY <1>1, OtherFrame DEF Leave, ServiceShape

\* The pings find out.
LEMMA DetectShape ==
  ASSUME ServiceShape, NEW c \in Conns, Detect(c)
  PROVE  ServiceShape'
<1>1. LinkShape'
  BY DEF Detect, linkFrame, ServiceShape, LinkShape
<1> QED
  BY <1>1, OtherFrame DEF Detect, ServiceShape

\* A device sends a message.
LEMMA DeviceSendsShape ==
  ASSUME ServiceShape, NEW c \in Conns, NEW n \in Nat, n <= asked[c], DeviceSends(c, n)
  PROVE  ServiceShape'
<1>1. /\ asked' = [asked EXCEPT ![c] = @ - n]
      /\ arrived' = [arrived EXCEPT ![c] = @ + 1]
      /\ UNCHANGED <<session, device, fd, client_infos, peer>>
  BY DEF DeviceSends, linkFrame
<1>2. asked' \in [Conns -> Nat] /\ arrived' \in [Conns -> Nat]
  BY <1>1 DEF ServiceShape, LinkShape
<1>3. LinkShape'
  BY <1>1, <1>2 DEF ServiceShape, LinkShape
<1> QED
  BY <1>3, OtherFrame DEF DeviceSends, ServiceShape

\* A loss is noticed, for the first time or again.
LEMMA NotifyShape ==
  ASSUME ServiceShape, NEW c \in client_infos, Notify(c),
         UNCHANGED <<device, fd, client_infos, peer, asked, arrived>>
  PROVE  /\ device[c] \in Devices
         /\ LinkShape' /\ clients' \in Seq(Devices) /\ again' \in [Devices -> Nat]
         /\ \A k \in Conns : k # c => session'[k] = session[k]
<1>1. /\ session' = [session EXCEPT ![c] = "past"]
      /\ clients' = RemoveFirst(clients, device[c])
      /\ again' \in {again, [again EXCEPT ![device[c]] = @ + 1]}
  BY DEF Notify, Contract!Withdraw, remove_client
<1>2. c \in Conns /\ device[c] \in Devices
  BY DEF ServiceShape, LinkShape
<1>3. clients' \in Seq(Devices)
  BY <1>1, RemoveFirstIs DEF ServiceShape, LoopShape
<1>4. again' \in [Devices -> Nat]
  <2>1. again \in [Devices -> Nat]
    BY DEF ServiceShape, LoopShape
  <2>2. [again EXCEPT ![device[c]] = @ + 1] \in [Devices -> Nat]
    BY <1>2, <2>1
  <2> QED
    BY <1>1, <2>1, <2>2
<1>5. /\ session' \in [Conns -> States] /\ session'[c] = "past"
      /\ \A k \in Conns : k # c => session'[k] = session[k]
  BY <1>1, <1>2 DEF ServiceShape, LinkShape, States
<1>6. LinkShape'
  BY <1>5 DEF ServiceShape, LinkShape
<1> QED
  BY <1>2, <1>3, <1>4, <1>5, <1>6

\* A number is closed.
LEMMA CloseFdShape ==
  ASSUME ServiceShape, NEW n, CloseFd(n)
  PROVE  LinkShape' /\ client_infos' \subseteq Conns /\ UNCHANGED <<session, device>>
<1>1. /\ client_infos' = client_infos \ Holders(n)
      /\ peer' = [k \in Conns |-> IF k \in Holders(n) THEN "closed" ELSE peer[k]]
      /\ asked' = [k \in Conns |-> IF k \in Holders(n) THEN 0 ELSE asked[k]]
      /\ arrived' = [k \in Conns |-> IF k \in Holders(n) THEN 0 ELSE arrived[k]]
      /\ UNCHANGED <<session, device, fd>>
  BY DEF CloseFd
<1>2. peer' \in [Conns -> {"up", "gone", "closed"}]
  BY <1>1 DEF ServiceShape, LinkShape
<1>3. asked' \in [Conns -> Nat] /\ arrived' \in [Conns -> Nat]
  BY <1>1 DEF ServiceShape, LinkShape
<1> QED
  BY <1>1, <1>2, <1>3 DEF ServiceShape, LinkShape

\* The execute thread notices a loss.
LEMMA LoseShape ==
  ASSUME ServiceShape, NEW c \in Conns, Lose(c)
  PROVE  ServiceShape'
<1>1. /\ Notify(c) /\ c \in client_infos
      /\ exec' = Telling("DISCONNECT", device[c], c)
      /\ UNCHANGED <<device, fd, client_infos, peer, asked, arrived, svc, config,
                     loop, busVars>>
  BY DEF Lose
<1>2. /\ device[c] \in Devices /\ LinkShape' /\ clients' \in Seq(Devices)
      /\ again' \in [Devices -> Nat]
  BY <1>1, NotifyShape
<1>3. LoopShape'
  BY <1>1, <1>2 DEF ServiceShape, LoopShape
<1>4. /\ exec'.signal.name = "DISCONNECT"
      /\ exec'.signal \in Reports /\ exec'.conn = c
      /\ exec' \in [signal : SignalType, conn : Conns \cup {NoConn}]
  BY <1>1, <1>2 DEF Telling, Signal, Reports, SignalType, Signals
<1>5. ExecShape'
  BY <1>4 DEF ExecShape
<1>6. BusShape'
  BY <1>1, BusFrame DEF ServiceShape
<1> QED
  BY <1>2, <1>3, <1>5, <1>6 DEF ServiceShape

\* A report is put on the bus, or nobody hears it.
LEMMA EmitShape ==
  ASSUME ServiceShape, NEW m \in Reports, emit(m), UNCHANGED tcp_sbscr,
         call' \in [Callers -> Calls],
         reply' \in [Callers -> {"none", "true", "false", "error"}]
  PROVE  BusShape'
<1>1. m.uuid \in Devices
  BY DEF Reports
<1>2. CASE bus' = Append(bus, m) /\ UNCHANGED missed
  BY <1>2 DEF ServiceShape, BusShape
<1>3. CASE UNCHANGED bus /\ missed' \in {missed, missed \cup {m.uuid}}
  BY <1>1, <1>3 DEF ServiceShape, BusShape
<1> QED
  BY <1>2, <1>3 DEF emit

\* The execute thread reads a message and emits its signal.
LEMMA ReadShape ==
  ASSUME ServiceShape, NEW c \in Conns, Read(c)
  PROVE  ServiceShape'
<1>1. CASE ProcessEnds
  BY <1>1, ProcessEndsShape
<1>2. CASE /\ emit(Signal("RECV", device[c]))
           /\ arrived' = [arrived EXCEPT ![c] = @ - 1]
           /\ UNCHANGED <<session, device, fd, client_infos, peer, asked,
                          serviceVars, call, reply, tcp_sbscr>>
  <2>1. c \in client_infos /\ arrived[c] > 0
    BY DEF Read
  <2>2. Signal("RECV", device[c]) \in Reports
    BY <2>1 DEF ServiceShape, LinkShape, Signal, Reports, SignalType, Signals
  <2>3. BusShape'
    BY <1>2, <2>2, EmitShape DEF ServiceShape, BusShape
  <2>4. arrived' \in [Conns -> Nat]
    BY <1>2, <2>1 DEF ServiceShape, LinkShape
  <2>5. LinkShape'
    BY <1>2, <2>4 DEF ServiceShape, LinkShape
  <2> QED
    BY <1>2, <2>3, <2>5, LoopFrame, ExecFrame DEF ServiceShape, serviceVars
<1> QED
  BY <1>1, <1>2 DEF Read

\* The execute thread emits its report.
LEMMA TellShape ==
  ASSUME ServiceShape, Tell
  PROVE  ServiceShape'
<1>1. exec.signal \in Reports /\ exec.conn \in Conns
  BY DEF Tell, ServiceShape, ExecShape
<1>2. CASE ProcessEnds
  BY <1>2, ProcessEndsShape
<1>3. CASE /\ emit(exec.signal)
           /\ exec' \in {Resting, Closing(exec.conn)}
           /\ UNCHANGED <<linkVars, svc, config, clients, loop, again, call,
                          reply, tcp_sbscr>>
  <2>1. BusShape'
    BY <1>1, <1>3, EmitShape DEF ServiceShape, BusShape
  <2>2. ExecShape'
    BY <1>1, <1>3, RestingShape, ClosingShape DEF ExecShape
  <2> QED
    BY <1>3, <2>1, <2>2, LinkFrame, LoopFrame DEF ServiceShape
<1> QED
  BY <1>2, <1>3 DEF Tell

\* The execute thread closes the number of the connection it has reported.
LEMMA CloseShape ==
  ASSUME ServiceShape, Close
  PROVE  ServiceShape'
<1>1. /\ \E c \in Conns : CloseFd(fd[c])
      /\ exec' = Resting
      /\ UNCHANGED <<svc, config, clients, loop, again, busVars>>
  BY DEF Close
<1>2. LinkShape'
  BY <1>1, CloseFdShape
<1>3. ExecShape'
  BY <1>1, RestingShape DEF ExecShape
<1> QED
  BY <1>1, <1>2, <1>3, LoopFrame, BusFrame DEF ServiceShape

\* An answer to a call.
LEMMA AnswerShape ==
  ASSUME ServiceShape, NEW t \in Callers, NEW ok \in BOOLEAN, Answer(t, ok)
  PROVE  /\ loop' = LoopIdle /\ UNCHANGED tcp_sbscr
         /\ call' \in [Callers -> Calls]
         /\ reply' \in [Callers -> {"none", "true", "false", "error"}]
BY DEF Answer, ServiceShape, BusShape

\* What a loop may do that sends.
LoopMoves(t) ==
  \/ loop' = LoopIdle
  \/ \E c \in Conns : loop' = Loop("send", t, c, NoDevice)

\* On to the other clients, or the answer.
LEMMA GoToShape ==
  ASSUME ServiceShape, NEW t \in Callers, NEW rest, rest \subseteq Conns,
         NEW ok \in BOOLEAN, GoTo(t, rest, ok)
  PROVE  /\ LoopMoves(t) /\ UNCHANGED tcp_sbscr
         /\ call' \in [Callers -> Calls]
         /\ reply' \in [Callers -> {"none", "true", "false", "error"}]
<1>1. CASE rest = {}
  BY <1>1, AnswerShape DEF GoTo, LoopMoves
<1>2. CASE rest # {}
  <2>1. rest \subseteq Nat
    BY ServiceAssumption
  <2>2. Min(rest) \in Conns
    BY <1>2, <2>1, LeastNumber
  <2> QED
    BY <1>2, <2>2 DEF GoTo, LoopMoves, ServiceShape, BusShape
<1> QED
  BY <1>1, <1>2

\* The shape of the loop after such a move,
LEMMA MovesShape ==
  ASSUME ServiceShape, NEW t \in Callers, LoopMoves(t),
         UNCHANGED <<svc, config, clients, again>>
  PROVE  LoopShape' /\ loop'.tell = NoDevice
<1>1. CASE loop' = LoopIdle
  BY <1>1, LoopIdleShape DEF ServiceShape, LoopShape
<1>2. CASE \E c \in Conns : loop' = Loop("send", t, c, NoDevice)
  BY <1>2 DEF Loop, LoopType, ServiceShape, LoopShape
<1> QED
  BY <1>1, <1>2 DEF LoopMoves

\* and of the rest, if it makes no signal and leaves the links alone.
LEMMA LoopStepShape ==
  ASSUME ServiceShape, LoopShape', LinkShape',
         UNCHANGED <<session, device, loopFrame, bus, missed, tcp_sbscr>>,
         call' \in [Callers -> Calls],
         reply' \in [Callers -> {"none", "true", "false", "error"}]
  PROVE  ServiceShape'
<1>1. ExecShape'
  BY ExecFrame DEF ServiceShape, loopFrame
<1>2. BusShape'
  BY DEF ServiceShape, BusShape
<1> QED
  BY <1>1, <1>2 DEF ServiceShape

\* The clients a call goes on to.
LEMMA TargetsShape ==
  ASSUME ServiceShape, NEW t, NEW c, NEW list, list \subseteq Conns
  PROVE  Targets(t) \subseteq Conns /\ Rest(t, c, list) \subseteq Conns
BY DEF Targets, Rest, ServiceShape, LinkShape

\* A send that succeeds.
LEMMA SendOkShape ==
  ASSUME ServiceShape, NEW t \in Callers, NEW c \in Conns, SendOk(t, c)
  PROVE  ServiceShape'
<1>1. /\ asked' \in {asked, [asked EXCEPT ![c] = @ + 1]}
      /\ GoTo(t, Rest(t, c, client_infos), TRUE)
      /\ UNCHANGED <<session, device, fd, client_infos, peer, arrived, clients,
                     again, loopFrame, bus, missed>>
  BY DEF SendOk
<1>2. asked' \in [Conns -> Nat]
  BY <1>1 DEF ServiceShape, LinkShape
<1>3. LinkShape'
  BY <1>1, <1>2 DEF ServiceShape, LinkShape
<1>4. Rest(t, c, client_infos) \subseteq Conns
  BY TargetsShape DEF ServiceShape, LinkShape
<1>5. /\ LoopMoves(t) /\ UNCHANGED tcp_sbscr
      /\ call' \in [Callers -> Calls]
      /\ reply' \in [Callers -> {"none", "true", "false", "error"}]
  BY <1>1, <1>4, GoToShape
<1>6. LoopShape'
  BY <1>1, <1>5, MovesShape DEF loopFrame
<1> QED
  BY <1>1, <1>3, <1>5, <1>6, LoopStepShape

\* A connection that was not announced yet is not withdrawn.
LEMMA ReceiversShape ==
  ASSUME ServiceShape, NEW c \in Conns, NEW k \in Receivers(c)
  PROVE  /\ k \in Conns
         /\ k \in client_infos \/ session[k] = "absent"
BY DEF Receivers, Holders, ServiceShape, LinkShape

\* A send that fails.
LEMMA SendFailsShape ==
  ASSUME ServiceShape, NEW t \in Callers, NEW c \in Conns, SendFails(t, c),
         c \in client_infos \/ session[c] = "absent"
  PROVE  ServiceShape'
<1>1. UNCHANGED <<device, fd, client_infos, peer, asked, arrived, loopFrame, busVars>>
  BY DEF SendFails
<1>2. CASE /\ loop' = Loop("close", t, c, NoDevice)
           /\ UNCHANGED <<session, clients, again>>
  <2>1. LoopShape'
    BY <1>1, <1>2 DEF Loop, LoopType, ServiceShape, LoopShape, loopFrame
  <2> QED
    BY <1>1, <1>2, <2>1, LinkFrame, ExecFrame, BusFrame
       DEF ServiceShape, linkVars, loopFrame
<1>3. CASE /\ ~Announcing(c) /\ Notify(c)
           /\ loop' = Loop("tell", t, c, device[c])
  <2>1. c \in client_infos
    BY <1>3 DEF Notify, Contract!Withdraw, Contract!Known
  <2>2. /\ device[c] \in Devices /\ LinkShape' /\ clients' \in Seq(Devices)
        /\ again' \in [Devices -> Nat]
        /\ \A k \in Conns : k # c => session'[k] = session[k]
    BY <1>1, <1>3, <2>1, NotifyShape
  <2>3. LoopShape'
    BY <1>1, <1>3, <2>2 DEF Loop, LoopType, ServiceShape, LoopShape, loopFrame
  <2>4. ExecShape'
    <3>1. exec.signal.name = "CONNECT" => session'[exec.conn] = session[exec.conn]
      BY <1>3, <2>2, RestingShape DEF Announcing, ServiceShape, ExecShape
    <3> QED
      BY <1>1, <3>1 DEF ServiceShape, ExecShape, loopFrame
  <2> QED
    BY <1>1, <2>2, <2>3, <2>4, BusFrame DEF ServiceShape
<1> QED
  BY <1>2, <1>3 DEF SendFails

\* A send to a cell that was freed before.
LEMMA SendLateShape ==
  ASSUME ServiceShape, NEW t \in Callers, NEW c \in Conns, SendLate(t, c)
  PROVE  ServiceShape'
<1>1. PICK ok \in BOOLEAN :
        GoTo(t, Rest(t, c, client_infos), ok \/ call[t] = GreetAll)
  BY DEF SendLate
<1>2. UNCHANGED <<linkVars, clients, again, loopFrame, bus, missed>>
  BY DEF SendLate
<1>3. Rest(t, c, client_infos) \subseteq Conns
  BY TargetsShape DEF ServiceShape, LinkShape
<1>4. /\ LoopMoves(t) /\ UNCHANGED tcp_sbscr
      /\ call' \in [Callers -> Calls]
      /\ reply' \in [Callers -> {"none", "true", "false", "error"}]
  BY <1>1, <1>3, GoToShape
<1>5. LoopShape' /\ LinkShape'
  BY <1>2, <1>4, MovesShape, LinkFrame DEF loopFrame, ServiceShape, linkVars
<1> QED
  BY <1>2, <1>4, <1>5, LoopStepShape DEF linkVars

\* A send, whatever comes of it.
LEMMA SendShape ==
  ASSUME ServiceShape, Send
  PROVE  ServiceShape'
<1>1. loop.thread \in Callers /\ loop.conn \in Conns
  BY DEF Send, ServiceShape, LoopShape
<1>2. ASSUME NEW c \in Receivers(loop.conn), SendOk(loop.thread, c)
      PROVE  ServiceShape'
  BY <1>1, <1>2, ReceiversShape, SendOkShape
<1>3. ASSUME NEW c \in Receivers(loop.conn), SendFails(loop.thread, c)
      PROVE  ServiceShape'
  BY <1>1, <1>3, ReceiversShape, SendFailsShape
<1>4. CASE SendLate(loop.thread, loop.conn)
  BY <1>1, <1>4, SendLateShape
<1> QED
  BY <1>2, <1>3, <1>4 DEF Send

\* A call is handled.
LEMMA HandleShape ==
  ASSUME ServiceShape, NEW t \in Callers, Handle(t)
  PROVE  ServiceShape'
<1>1. /\ GoTo(t, Targets(t), call[t] = GreetAll)
      /\ UNCHANGED <<linkVars, clients, again, loopFrame, bus, missed>>
  BY DEF Handle
<1>2. Targets(t) \subseteq Conns
  BY TargetsShape DEF ServiceShape, LinkShape
<1>3. /\ LoopMoves(t) /\ UNCHANGED tcp_sbscr
      /\ call' \in [Callers -> Calls]
      /\ reply' \in [Callers -> {"none", "true", "false", "error"}]
  BY <1>1, <1>2, GoToShape
<1>4. LoopShape' /\ LinkShape'
  BY <1>1, <1>3, MovesShape, LinkFrame DEF loopFrame, ServiceShape, linkVars
<1> QED
  BY <1>1, <1>3, <1>4, LoopStepShape DEF linkVars

\* A call is handled after the end.
LEMMA HandleLateShape ==
  ASSUME ServiceShape, NEW t \in Callers, HandleLate(t)
  PROVE  ServiceShape'
<1>1. CASE ProcessEnds
  BY <1>1, ProcessEndsShape
<1>2. CASE /\ \E ok \in BOOLEAN : Answer(t, ok)
           /\ UNCHANGED <<linkVars, clients, again, loopFrame, bus, missed>>
  <2>1. /\ LoopMoves(t) /\ UNCHANGED tcp_sbscr
        /\ call' \in [Callers -> Calls]
        /\ reply' \in [Callers -> {"none", "true", "false", "error"}]
    BY <1>2, AnswerShape DEF LoopMoves
  <2>2. LoopShape' /\ LinkShape'
    BY <1>2, <2>1, MovesShape, LinkFrame DEF loopFrame, ServiceShape, linkVars
  <2> QED
    BY <1>2, <2>1, <2>2, LoopStepShape DEF linkVars
<1> QED
  BY <1>1, <1>2 DEF HandleLate

\* The loop emits a loss.
LEMMA TellLossShape ==
  ASSUME ServiceShape, TellLoss
  PROVE  ServiceShape'
<1> DEFINE m == Signal("DISCONNECT", loop.tell)
<1>1. loop.thread \in Callers /\ loop.conn \in Conns /\ loop.tell \in Devices
  BY DEF TellLoss, ServiceShape, LoopShape
<1>2. m \in Reports
  BY <1>1 DEF Signal, Reports, SignalType, Signals
<1>3. CASE ProcessEnds
  BY <1>3, ProcessEndsShape
<1>4. CASE /\ emit(m)
           /\ loop' = Loop("close", loop.thread, loop.conn, NoDevice)
           /\ UNCHANGED <<linkVars, clients, again, loopFrame, call, reply, tcp_sbscr>>
  <2> HIDE DEF m
  <2>1. LoopShape'
    BY <1>1, <1>4 DEF Loop, LoopType, ServiceShape, LoopShape, loopFrame
  <2>2. BusShape'
    BY <1>2, <1>4, EmitShape DEF ServiceShape, BusShape
  <2>3. LinkShape' /\ ExecShape'
    BY <1>4, LinkFrame, ExecFrame DEF ServiceShape, loopFrame, linkVars
  <2> QED
    BY <2>1, <2>2, <2>3 DEF ServiceShape
<1> QED
  BY <1>3, <1>4 DEF TellLoss

\* The loop closes the number of the connection.
LEMMA CloseLateShape ==
  ASSUME ServiceShape, CloseLate
  PROVE  ServiceShape'
<1> DEFINE t == loop.thread
           rest == Rest(t, loop.conn, client_infos')
<1>1. /\ CloseFd(fd[loop.conn])
      /\ GoTo(t, rest, call[t] = GreetAll)
      /\ UNCHANGED <<clients, again, loopFrame, bus, missed>>
  BY DEF CloseLate
<1>2. t \in Callers
  BY DEF CloseLate, ServiceShape, LoopShape
<1>3. LinkShape' /\ client_infos' \subseteq Conns /\ UNCHANGED <<session, device>>
  BY <1>1, CloseFdShape
<1>4. rest \subseteq Conns
  BY <1>3, TargetsShape
<1> HIDE DEF t, rest
<1>5. /\ LoopMoves(t) /\ UNCHANGED tcp_sbscr
      /\ call' \in [Callers -> Calls]
      /\ reply' \in [Callers -> {"none", "true", "false", "error"}]
  BY <1>1, <1>2, <1>4, GoToShape
<1>6. LoopShape'
  BY <1>1, <1>2, <1>5, MovesShape DEF loopFrame
<1> QED
  BY <1>1, <1>3, <1>5, <1>6, LoopStepShape

\* Every step of the service.
LEMMA ServiceNextShape ==
  ASSUME ServiceShape, ServiceNext
  PROVE  ServiceShape'
<1>1. CASE \E answer \in BusAnswers : Initialize(answer)
  BY <1>1, InitializeShape
<1>2. CASE Execute
  BY <1>2, ExecuteShape
<1>3. CASE Quit
  BY <1>3, QuitShape
<1>4. CASE Kill \/ Crash
  BY <1>4, ProcessEndsShape DEF Kill, Crash
<1>5. CASE \E c \in Conns : \E d \in MayOpen[c] : Connect(c, d)
  <2>1. PICK c \in Conns : \E d \in MayOpen[c] : Connect(c, d)
    BY <1>5
  <2>2. MayOpen[c] \subseteq Devices
    BY ServiceAssumption
  <2> QED
    BY <2>1, <2>2, ConnectShape
<1>6. CASE \E c \in Conns : Detect(c)
  BY <1>6, DetectShape
<1>7. CASE \E c \in Conns, how \in {"gone", "closed"} : Leave(c, how)
  BY <1>7, LeaveShape
<1>8. CASE \E t \in Callers : HandleLate(t)
  BY <1>8, HandleLateShape
<1>9. CASE \E c \in Conns : Lose(c) \/ Read(c)
  BY <1>9, LoseShape, ReadShape
<1>10. CASE Tell \/ Close
  BY <1>10, TellShape, CloseShape
<1>11. CASE Send \/ TellLoss \/ CloseLate
  BY <1>11, SendShape, TellLossShape, CloseLateShape
<1>12. CASE \E t \in Callers : Handle(t)
  BY <1>12, HandleShape
<1> QED
  BY <1>1, <1>2, <1>3, <1>4, <1>5, <1>6, <1>7, <1>8, <1>9, <1>10, <1>11, <1>12
     DEF ServiceNext, ExecStep, LoopStep

(* The steps of the programs.                                              *)

\* A program has called the service, or has taken the answer.
LEMMA CallShape ==
  ASSUME ServiceShape, NEW t \in Callers, NEW what \in Calls,
         tcp_dbus_send_msg(t, what)
  PROVE  ServiceShape'
<1>1. BusShape'
  BY DEF tcp_dbus_send_msg, ServiceShape, BusShape
<1>2. LinkShape' /\ LoopShape' /\ ExecShape'
  BY LinkFrame, LoopFrame, ExecFrame
     DEF tcp_dbus_send_msg, ServiceShape, serviceVars, linkVars
<1> QED
  BY <1>1, <1>2 DEF ServiceShape

\* A thread has its answer and calls no more.
LEMMA ReturnShape ==
  ASSUME ServiceShape, NEW t \in Callers, Return(t)
  PROVE  ServiceShape'
<1>1. BusShape'
  BY DEF Return, ServiceShape, BusShape, Calls
<1>2. LinkShape' /\ LoopShape' /\ ExecShape'
  BY LinkFrame, LoopFrame, ExecFrame
     DEF Return, ServiceShape, serviceVars, linkVars
<1> QED
  BY <1>1, <1>2 DEF ServiceShape

\* All of the service.
LEMMA ServiceFrame ==
  ASSUME ServiceShape, UNCHANGED serverVars
  PROVE  ServiceShape'
<1>1. UNCHANGED <<linkVars, serviceVars, busVars>>
  BY DEF serverVars
<1> QED
  BY <1>1, LinkFrame, LoopFrame, ExecFrame, BusFrame
     DEF ServiceShape, serviceVars, linkVars

\* A callback takes a report from the bus.
LEMMA HearShape ==
  ASSUME Shape, NEW name \in Signals, Hear(name)
  PROVE  /\ ServiceShape'
         /\ Head(bus) \in Reports /\ Head(bus).name = name
         /\ Head(bus).uuid \in Devices
<1>1. Head(bus) \in Reports /\ Tail(bus) \in Seq(Reports)
  BY DEF Hear, Shape, ServiceShape, BusShape
<1>2. BusShape'
  BY <1>1 DEF Hear, Shape, ServiceShape, BusShape
<1>3. LinkShape' /\ LoopShape' /\ ExecShape'
  BY LinkFrame, LoopFrame, ExecFrame
     DEF Hear, Shape, ServiceShape, serviceVars, linkVars
<1> QED
  BY <1>1, <1>2, <1>3 DEF ServiceShape, Hear, Reports

\* A string that is not allocated is nowhere in the list.
LEMMA AllocatedIs ==
  ASSUME ProgramShape, NEW s
  PROVE  s \notin Allocated <=> \A i \in 1 .. Len(_connected_clients) :
                                 _connected_clients[i] # s
BY DEF Allocated, Range, ProgramShape

\* A connect is heard: one more string, with a UUID.
LEMMA OnConnectShape ==
  ASSUME Shape, NEW s \in Strings, OnConnect(s)
  PROVE  Shape'
<1>1. /\ Hear("CONNECT") /\ s \notin Allocated
      /\ text' = [text EXCEPT ![s] = Head(bus).uuid]
      /\ _connected_clients' = Append(_connected_clients, s)
      /\ cb' = "select"
      /\ UNCHANGED <<_specific_UUID, data_queue, lost>>
  BY DEF OnConnect, MayReturn
<1>2. ServiceShape' /\ Head(bus).uuid \in Devices
  BY <1>1, HearShape DEF Signals
<1>3. UNCHANGED <<hellos, main, msg>>
  BY <1>1 DEF Hear
<1>4. \A i \in 1 .. Len(_connected_clients) : _connected_clients[i] # s
  BY <1>1, AllocatedIs DEF Shape
<1>5. /\ _connected_clients \in Seq(Strings)
      /\ _connected_clients' \in Seq(Strings) /\ _connected_clients' # <<>>
      /\ Len(_connected_clients') = Len(_connected_clients) + 1
      /\ _connected_clients'[Len(_connected_clients) + 1] = s
      /\ \A i \in 1 .. Len(_connected_clients) :
           _connected_clients'[i] = _connected_clients[i]
  BY <1>1 DEF Shape, ProgramShape
<1>6. /\ text' \in [Strings -> Texts] /\ text'[s] \in Devices
      /\ \A r \in Strings : r # s => text'[r] = text[r]
  BY <1>1, <1>2 DEF Shape, ProgramShape, Texts
<1>7. ASSUME NEW i \in 1 .. Len(_connected_clients'),
             NEW j \in 1 .. Len(_connected_clients'),
             _connected_clients'[i] = _connected_clients'[j]
      PROVE  i = j
  BY <1>4, <1>5, <1>7 DEF Shape, ProgramShape
<1>8. ASSUME NEW i \in 1 .. Len(_connected_clients')
      PROVE  text'[_connected_clients'[i]] \in Devices
  <2>1. CASE i = Len(_connected_clients) + 1
    BY <2>1, <1>5, <1>6
  <2>2. CASE i # Len(_connected_clients) + 1
    <3>1. i \in 1 .. Len(_connected_clients)
      BY <2>2, <1>5
    <3> QED
      BY <3>1, <1>4, <1>5, <1>6 DEF Shape, ProgramShape
  <2> QED
    BY <2>1, <2>2
<1>9. ProgramShape'
  BY <1>1, <1>3, <1>5, <1>6, <1>7, <1>8 DEF Shape, ProgramShape
<1> QED
  BY <1>2, <1>9 DEF Shape

\* A client is selected and asked.
LEMMA SelectClientShape ==
  ASSUME Shape, SelectClient
  PROVE  Shape'
<1>1. /\ _specific_UUID' = _connected_clients[1]
      /\ tcp_dbus_send_msg("cb", Ask(text[_connected_clients[1]]))
      /\ cb = "select" /\ cb' = "request"
      /\ UNCHANGED <<hellos, text, _connected_clients, data_queue, main, lost, msg>>
  BY DEF SelectClient
<1>2. 1 \in 1 .. Len(_connected_clients)
  BY <1>1 DEF Shape, ProgramShape
<1>3. _connected_clients[1] \in Strings /\ text[_connected_clients[1]] \in Devices
  BY <1>2 DEF Shape, ProgramShape
<1>4. Ask(text[_connected_clients[1]]) \in Calls /\ "cb" \in Callers
  BY <1>3, ExchangeAssumption DEF Calls
<1>5. ServiceShape'
  BY <1>1, <1>4, CallShape DEF Shape
<1>6. ProgramShape'
  BY <1>1, <1>3 DEF Shape, ProgramShape
<1> QED
  BY <1>5, <1>6 DEF Shape

\* The greeting of all.
LEMMA GreetShape ==
  ASSUME Shape, Greet
  PROVE  Shape'
<1>1. GreetAll \in Calls /\ "cb" \in Callers
  BY ExchangeAssumption DEF Calls
<1>2. ServiceShape'
  BY <1>1, CallShape DEF Shape, Greet
<1>3. ProgramShape'
  BY DEF Shape, ProgramShape, Greet
<1> QED
  BY <1>2, <1>3 DEF Shape

\* Its answer.
LEMMA GreetedShape ==
  ASSUME Shape, Greeted
  PROVE  Shape'
<1>1. ServiceShape'
  BY ReturnShape, ExchangeAssumption DEF Shape, Greeted
<1>2. ProgramShape'
  BY DEF Shape, ProgramShape, Greeted
<1> QED
  BY <1>1, <1>2 DEF Shape

\* A disconnect is heard: the freed string may keep any text.
LEMMA OnDisconnectShape ==
  ASSUME Shape, OnDisconnect
  PROVE  Shape'
<1> DEFINE d == Head(bus).uuid
           i == FirstWith(d)
<1>1. /\ Hear("DISCONNECT") /\ cb' = "deselect" /\ lost' = d
      /\ UNCHANGED <<_specific_UUID, data_queue>>
  BY DEF OnDisconnect
<1>2. ServiceShape' /\ d \in Devices
  BY <1>1, HearShape DEF Signals
<1>3. UNCHANGED <<hellos, main, msg>>
  BY <1>1 DEF Hear
<1> HIDE DEF d, i
<1>4. CASE UNCHANGED <<_connected_clients, text>>
  <2>1. ProgramShape'
    BY <1>1, <1>2, <1>3, <1>4 DEF Shape, ProgramShape
  <2> QED
    BY <1>2, <2>1 DEF Shape
<1>5. ASSUME NEW left \in {d, Junk}, i # 0,
             _connected_clients' = RemoveAt(_connected_clients, i),
             text' = [text EXCEPT ![_connected_clients[i]] = left]
      PROVE  Shape'
  <2> DEFINE list == _connected_clients
             l == RemoveAt(list, i)
  <2>1. i \in 1 .. Len(list)
    BY <1>5, FirstWithIs DEF i
  <2>2. list \in Seq(Strings)
    BY DEF Shape, ProgramShape
  <2>3. l \in Seq(Strings) /\ Removed(list, l, i)
    BY <2>1, <2>2, RemoveAtIs
  <2>4. /\ text' \in [Strings -> Texts]
        /\ \A r \in Strings : r # list[i] => text'[r] = text[r]
    BY <1>2, <1>5 DEF Shape, ProgramShape, Texts
  <2> DEFINE at(j) == IF j < i THEN j ELSE j + 1
  <2>5. ASSUME NEW j \in 1 .. Len(l)
        PROVE  at(j) \in 1 .. Len(list) /\ at(j) # i /\ l[j] = list[at(j)]
    <3>1. /\ Len(l) = Len(list) - 1 /\ Len(list) \in Nat
          /\ l[j] = IF j < i THEN list[j] ELSE list[j + 1]
      BY <2>2, <2>3 DEF Removed
    <3> HIDE DEF l
    <3> QED
      BY <3>1, <2>1
  <2>6. \A j, k \in 1 .. Len(l) : l[j] = l[k] => j = k
    <3>1. ASSUME NEW j \in 1 .. Len(l), NEW k \in 1 .. Len(l), l[j] = l[k]
          PROVE  j = k
      <4>1. at(j) = at(k)
        <5> HIDE DEF at, l
        <5> QED
          BY <3>1, <2>5 DEF Shape, ProgramShape
      <4> QED
        BY <4>1, <2>1
    <3> QED
      BY <3>1
  <2>7. \A j \in 1 .. Len(l) : text'[l[j]] \in Devices
    <3>1. ASSUME NEW j \in 1 .. Len(l)
          PROVE  text'[l[j]] \in Devices
      <4> HIDE DEF at, l
      <4>1. list[at(j)] # list[i] /\ list[at(j)] \in Strings
            /\ text[list[at(j)]] \in Devices
        BY <2>1, <2>5 DEF Shape, ProgramShape
      <4> QED
        BY <4>1, <2>4, <2>5
    <3> QED
      BY <3>1
  <2> HIDE DEF l
  <2>8. _connected_clients' = l
    BY <1>5 DEF l
  <2>9. ProgramShape'
    BY <1>1, <1>2, <1>3, <2>3, <2>4, <2>6, <2>7, <2>8 DEF Shape, ProgramShape
  <2> QED
    BY <1>2, <2>9 DEF Shape
<1> QED
  BY <1>4, <1>5 DEF OnDisconnect, d, i

\* The selected client is given up, or kept.
LEMMA DeselectShape ==
  ASSUME Shape, Deselect
  PROVE  Shape'
<1>1. ServiceShape'
  BY ServiceFrame DEF Shape, Deselect
<1>2. ProgramShape'
  BY DEF Shape, ProgramShape, Deselect
<1> QED
  BY <1>1, <1>2 DEF Shape

\* Data is heard and queued.
LEMMA OnDataShape ==
  ASSUME Shape, OnData
  PROVE  Shape'
<1>1. /\ Hear("RECV")
      /\ data_queue' = Append(data_queue, Head(bus).uuid)
      /\ UNCHANGED <<text, _connected_clients, _specific_UUID, cb, lost>>
  BY DEF OnData
<1>2. ServiceShape' /\ Head(bus).uuid \in Devices 
  BY <1>1, HearShape DEF Signals
<1>3. UNCHANGED <<hellos, main, msg>>
  BY <1>1 DEF Hear
<1>4. Head(bus).uuid \in Devices
  BY <1>2
<1>5. ProgramShape'
  BY <1>1, <1>3, <1>4 DEF Shape, ProgramShape
<1> QED
  BY <1>2, <1>5 DEF Shape

\* The program is aborted.
LEMMA ProgramEndsShape ==
  ASSUME Shape, ProgramEnds
  PROVE  Shape'
<1>1. ServiceShape'
  BY ServiceFrame DEF Shape, ProgramEnds
<1>2. ProgramShape'
  BY DEF Shape, ProgramShape, ProgramEnds, Texts
<1> QED
  BY <1>1, <1>2 DEF Shape

\* The version is read.
LEMMA InitClientShape ==
  ASSUME Shape, InitClient
  PROVE  Shape'
<1>1. ServiceShape'
  BY ServiceFrame DEF Shape, InitClient
<1>2. ProgramShape'
  BY DEF Shape, ProgramShape, InitClient, callbackFrame
<1> QED
  BY <1>1, <1>2 DEF Shape

\* A subscription, or the failure of one.
LEMMA SubscribeShape ==
  ASSUME Shape, NEW at, NEW signal \in Signals,
         NEW next \in {"connect", "disconnect", "idle"}, Subscribe(at, signal, next)
  PROVE  Shape'
<1>1. CASE ProgramEnds
  BY <1>1, ProgramEndsShape
<1>2. CASE /\ tcp_sbscr' = tcp_dbus_client_Subscribe2Recv(tcp_sbscr, signal)
           /\ main' = next
           /\ UNCHANGED <<linkVars, serviceVars, call, reply, bus, missed,
                          callbackFrame, data_queue, msg>>
  <2>1. tcp_sbscr' \in [Slots -> Signals \cup {NoSignal}]
    BY <1>2 DEF tcp_dbus_client_Subscribe2Recv, Shape, ServiceShape, BusShape
  <2>2. BusShape'
    BY <1>2, <2>1 DEF Shape, ServiceShape, BusShape
  <2>3. LinkShape' /\ LoopShape' /\ ExecShape'
    BY <1>2, LinkFrame, LoopFrame, ExecFrame
       DEF Shape, ServiceShape, serviceVars, linkVars
  <2>4. ProgramShape'
    BY <1>2 DEF Shape, ProgramShape, callbackFrame
  <2> QED
    BY <2>2, <2>3, <2>4 DEF Shape, ServiceShape
<1> QED
  BY <1>1, <1>2 DEF Subscribe

\* A message of the selected client is answered with a request.
LEMMA ProcessShape ==
  ASSUME Shape, Process
  PROVE  Shape'
<1>1. /\ data_queue # <<>> /\ msg' = Head(data_queue)
      /\ data_queue' = Tail(data_queue)
      /\ tcp_dbus_send_msg("main", Ask(msg'))
      /\ main' = "request" /\ UNCHANGED callbackFrame
  BY DEF Process
<1>2. /\ msg' \in Devices
      /\ data_queue' \in Seq(Devices)
  <2> DEFINE M == Devices
  <2>1. data_queue \in Seq(M)
    BY DEF Shape, ProgramShape
  <2> HIDE DEF M
  <2>2. msg' \in M /\ data_queue' \in Seq(M)
    BY <1>1, <2>1
  <2> QED
    BY <2>2 DEF M
<1>3. Ask(msg') \in Calls /\ "main" \in Callers
  BY <1>2, ExchangeAssumption DEF Calls
<1>4. ServiceShape'
  BY <1>1, <1>3, CallShape DEF Shape
<1>5. ProgramShape'
  BY <1>1, <1>2 DEF Shape, ProgramShape, callbackFrame
<1> QED
  BY <1>4, <1>5 DEF Shape

\* A message of another client is dropped.
LEMMA IgnoreShape ==
  ASSUME Shape, Ignore
  PROVE  Shape'
<1>1. ServiceShape'
  BY ServiceFrame DEF Shape, Ignore
<1>2. data_queue' \in Seq(Devices)
  BY DEF Shape, ProgramShape, Ignore
<1>3. ProgramShape'
  BY <1>2 DEF Shape, ProgramShape, Ignore, callbackFrame
<1> QED
  BY <1>1, <1>3 DEF Shape

\* A failed request is repeated.
LEMMA RetryShape ==
  ASSUME Shape, Retry
  PROVE  Shape'
<1>1. Ask(msg) \in Calls /\ "main" \in Callers
  BY ExchangeAssumption DEF Retry, Calls, Shape, ProgramShape
<1>2. ServiceShape'
  BY <1>1, CallShape DEF Shape, Retry
<1>3. ProgramShape'
  BY DEF Shape, ProgramShape, Retry, callbackFrame
<1> QED
  BY <1>2, <1>3 DEF Shape

\* A request is done with.
LEMMA DoneShape ==
  ASSUME Shape, Done
  PROVE  Shape'
<1>1. ServiceShape'
  BY ReturnShape, ExchangeAssumption DEF Shape, Done
<1>2. ProgramShape'
  BY DEF Shape, ProgramShape, Done, callbackFrame
<1> QED
  BY <1>1, <1>2 DEF Shape

\* A device answers a request.
LEMMA GiveDataShape ==
  ASSUME Shape, NEW c \in Conns, GiveData(c)
  PROVE  Shape'
<1>1. asked[c] \in Nat /\ 1 <= asked[c]
  BY DEF GiveData, Shape, ServiceShape, LinkShape
<1>2. ServiceShape'
  BY <1>1, DeviceSendsShape DEF GiveData, Shape
<1> QED
  BY <1>2, ProgramFrame DEF GiveData, Shape

\* The program on a device starts again.
LEMMA SayHiShape ==
  ASSUME Shape, NEW c \in Conns, SayHi(c)
  PROVE  Shape'
<1>1. asked[c] \in Nat /\ asked[c] <= asked[c]
  BY DEF SayHi, Shape, ServiceShape, LinkShape
<1>2. ServiceShape'
  BY <1>1, DeviceSendsShape DEF SayHi, Shape
<1>3. ProgramShape'
  BY ExchangeAssumption DEF SayHi, Shape, ProgramShape, programVars
<1> QED
  BY <1>2, <1>3 DEF Shape

\* Shape is preserved by every step,
LEMMA NextShape ==
  ASSUME Shape, Next
  PROVE  Shape'
<1>1. CASE ServiceNext /\ UNCHANGED <<hellos, programVars>>
  BY <1>1, ServiceNextShape, ProgramFrame DEF Shape
<1>2. CASE \E c \in Conns : GiveData(c) \/ SayHi(c)
  BY <1>2, GiveDataShape, SayHiShape
<1>3. CASE \E s \in Strings : OnConnect(s)
  BY <1>3, OnConnectShape
<1>4. CASE SelectClient \/ Greet \/ Greeted
  BY <1>4, SelectClientShape, GreetShape, GreetedShape
<1>5. CASE OnDisconnect \/ Deselect \/ OnData
  BY <1>5, OnDisconnectShape, DeselectShape, OnDataShape
<1>6. CASE InitClient
  BY <1>6, InitClientShape
<1>7. CASE SubscribeAll
  BY <1>7, SubscribeShape DEF SubscribeAll, Signals
<1>8. CASE MainLoop
  BY <1>8, ProcessShape, IgnoreShape, RetryShape, DoneShape DEF MainLoop
<1>9. CASE CallFails
  BY <1>9, ProgramEndsShape DEF CallFails
<1> QED
  BY <1>1, <1>2, <1>3, <1>4, <1>5, <1>6, <1>7, <1>8, <1>9 DEF Next, Callback

\* it holds at first,
LEMMA InitShape == Init => Shape
<1> SUFFICES ASSUME Init PROVE Shape
  OBVIOUS
<1> USE DEF Init, ServiceInit
<1>1. LinkShape
  BY DEF Contract!Init, LinkShape, States
<1>2. LoopShape
  BY LoopIdleShape DEF LoopShape, tcp_dbus_srv_create, Config, Configs
<1>3. ExecShape
  BY RestingShape DEF ExecShape
<1>4. BusShape
  BY DEF BusShape, Calls, NoSubscriptions
<1>5. ProgramShape
  BY ExchangeAssumption DEF ProgramShape, Texts
<1> QED
  BY <1>1, <1>2, <1>3, <1>4, <1>5 DEF Shape, ServiceShape

\* and stuttering keeps it.
LEMMA StutterShape ==
  ASSUME Shape, UNCHANGED vars
  PROVE  Shape'
BY ServiceFrame, ProgramFrame DEF Shape, vars

\* Shape is an invariant.
THEOREM ShapeAlways == Spec => []Shape
<1>1. Init => Shape
  BY InitShape
<1>2. Shape /\ [Next]_vars => Shape'
  BY NextShape, StutterShape
<1> QED
  BY <1>1, <1>2, PTL DEF Spec

-----------------------------------------------------------------------------

-----------------------------------------------------------------------------
(* The counts.                                                             *)

\* Allowing for more others covers as well.
LEMMA CoveredMore ==
  ASSUME NEW S, NEW s \in Seq(S), NEW n \in Nat, NEW m \in Nat, n <= m,
         NEW a, NEW b, Covered(s, n, a, b)
  PROVE  Covered(s, m, a, b)
<1>1. ASSUME NEW i \in 1 .. Len(s)
      PROVE  Count(SubSeq(s, 1, i), b) <= m + Count(SubSeq(s, 1, i), a)
  <2> DEFINE p == SubSeq(s, 1, i)
  <2>1. p \in Seq(S)
    OBVIOUS
  <2>2. Count(p, b) <= n + Count(p, a)
    BY DEF Covered
  <2> HIDE DEF p
  <2>3. Count(p, a) \in Nat /\ Count(p, b) \in Nat
    BY <2>1, CountZero
  <2>4. Count(p, b) <= m + Count(p, a)
    BY <2>2, <2>3
  <2> QED
    BY <2>4 DEF p
<1> QED
  BY <1>1 DEF Covered

\* In every suffix of s, no more of a than of b and n others.
Trailing(s, n, a, b) ==
  \A i \in 1 .. Len(s) + 1 :
    Count(SubSeq(s, i, Len(s)), a) <= n + Count(SubSeq(s, i, Len(s)), b)

\* The suffixes of a sequence.
LEMMA SuffixIs ==
  ASSUME NEW S, NEW s \in Seq(S), NEW i \in 1 .. Len(s) + 1
  PROVE  /\ SubSeq(s, i, Len(s)) \in Seq(S)
         /\ Len(SubSeq(s, i, Len(s))) = Len(s) - i + 1
         /\ \A j \in 1 .. Len(s) - i + 1 : SubSeq(s, i, Len(s))[j] = s[i + j - 1]
         /\ i = 1 => SubSeq(s, i, Len(s)) = s
         /\ i = Len(s) + 1 => SubSeq(s, i, Len(s)) = <<>>
         /\ \A x : Count(SubSeq(s, i, Len(s)), x) \in Nat
<1> DEFINE p == SubSeq(s, i, Len(s))
<1>1. /\ p \in Seq(S) /\ Len(p) = Len(s) - i + 1
      /\ \A j \in 1 .. Len(s) - i + 1 : p[j] = s[i + j - 1]
  OBVIOUS
<1> HIDE DEF p
<1>2. i = 1 => p = s
  BY <1>1
<1>3. i = Len(s) + 1 => p = <<>>
  BY <1>1
<1>4. \A x : Count(p, x) \in Nat
  BY <1>1, CountZero
<1> QED
  BY <1>1, <1>2, <1>3, <1>4 DEF p

\* What holds of the suffixes holds of the whole, and of the empty one.
LEMMA TrailingWhole ==
  ASSUME NEW S, NEW s \in Seq(S), NEW n \in Int, NEW a, NEW b, Trailing(s, n, a, b)
  PROVE  Count(s, a) <= n + Count(s, b) /\ 0 <= n
<1>1. Count(s, a) <= n + Count(s, b)
  <2>1. 1 \in 1 .. Len(s) + 1
    OBVIOUS
  <2> QED
    BY <2>1, SuffixIs DEF Trailing
<1>2. 0 <= n + 0
  <2>1. Len(s) + 1 \in 1 .. Len(s) + 1
    OBVIOUS
  <2>2. Count(<<>>, a) = 0 /\ Count(<<>>, b) = 0
    BY CountEmpty
  <2> QED
    BY <2>1, <2>2, SuffixIs DEF Trailing
<1> QED
  BY <1>1, <1>2

\* Allowing for more others.
LEMMA TrailingMore ==
  ASSUME NEW S, NEW s \in Seq(S), NEW n \in Int, NEW m \in Int, n <= m,
         NEW a, NEW b, Trailing(s, n, a, b)
  PROVE  Trailing(s, m, a, b)
<1>1. ASSUME NEW i \in 1 .. Len(s) + 1
      PROVE  Count(SubSeq(s, i, Len(s)), a) <= m + Count(SubSeq(s, i, Len(s)), b)
  <2>1. /\ Count(SubSeq(s, i, Len(s)), a) \in Nat
        /\ Count(SubSeq(s, i, Len(s)), b) \in Nat
    BY SuffixIs
  <2>2. Count(SubSeq(s, i, Len(s)), a) <= n + Count(SubSeq(s, i, Len(s)), b)
    BY DEF Trailing
  <2> QED
    BY <2>1, <2>2
<1> QED
  BY <1>1 DEF Trailing

\* The items of a sequence with one more.
LEMMA AppendIs ==
  ASSUME NEW S, NEW s \in Seq(S), NEW y \in S
  PROVE  /\ Append(s, y) \in Seq(S) /\ Len(Append(s, y)) = Len(s) + 1
         /\ Append(s, y)[Len(s) + 1] = y
         /\ \A j \in 1 .. Len(s) : Append(s, y)[j] = s[j]
OBVIOUS

\* An item is appended: n counts it beforehand.
LEMMA TrailingAppend ==
  ASSUME NEW S, NEW s \in Seq(S), NEW y \in S, NEW n \in Int, NEW m \in Nat,
         NEW a, NEW b, a # b, Trailing(s, n, a, b),
         m = n + (IF y = a THEN 1 ELSE 0) - (IF y = b THEN 1 ELSE 0)
  PROVE  Trailing(Append(s, y), m, a, b)
<1> DEFINE t == Append(s, y)
<1>1. t \in Seq(S) /\ Len(t) = Len(s) + 1 /\ Len(s) \in Nat
  OBVIOUS
<1>2. ASSUME NEW i \in 1 .. Len(t) + 1
      PROVE  Count(SubSeq(t, i, Len(t)), a) <= m + Count(SubSeq(t, i, Len(t)), b)
  <2>1. CASE i = Len(t) + 1
    <3>1. SubSeq(t, i, Len(t)) = <<>>
      BY <1>1, <2>1, SuffixIs
    <3>2. Count(<<>>, a) = 0 /\ Count(<<>>, b) = 0
      BY CountEmpty
    <3> HIDE DEF t
    <3> QED
      BY <3>1, <3>2
  <2>2. CASE i # Len(t) + 1
    <3> DEFINE p == SubSeq(s, i, Len(s))
    <3>1. i \in 1 .. Len(s) + 1
      BY <1>1, <2>2
    <3>2. SubSeq(t, i, Len(t)) = Append(p, y)
      <4>1. /\ p \in Seq(S) /\ Len(p) = Len(s) - i + 1
            /\ \A j \in 1 .. Len(s) - i + 1 : p[j] = s[i + j - 1]
        BY <3>1, SuffixIs
      <4> DEFINE q == SubSeq(t, i, Len(t))
      <4>2. /\ q \in Seq(S) /\ Len(q) = Len(t) - i + 1
            /\ \A j \in 1 .. Len(t) - i + 1 : q[j] = t[i + j - 1]
        BY <1>1, SuffixIs
      <4>3. /\ t[Len(s) + 1] = y
            /\ \A j \in 1 .. Len(s) : t[j] = s[j]
        OBVIOUS
      <4> HIDE DEF p, q, t
      <4>4. /\ Append(p, y) \in Seq(S) /\ Len(Append(p, y)) = Len(p) + 1
            /\ Append(p, y)[Len(p) + 1] = y
            /\ \A j \in 1 .. Len(p) : Append(p, y)[j] = p[j]
        <5>1. p \in Seq(S)
          BY <4>1
        <5> QED
          BY <5>1, AppendIs
      <4>0. Len(s) \in Nat /\ i \in Nat /\ Len(p) \in Nat /\ Len(q) = Len(p) + 1
        BY <1>1, <3>1, <4>1, <4>2
      <4>5. ASSUME NEW j \in 1 .. Len(q) PROVE q[j] = Append(p, y)[j]
        <5>1. q[j] = t[i + j - 1]
          BY <4>2
        <5>2. CASE j = Len(p) + 1
          BY <4>0, <4>1, <4>3, <4>4, <5>1, <5>2
        <5>3. CASE j # Len(p) + 1
          <6>1. j \in 1 .. Len(p)
            BY <4>0, <5>3
          <6>2. Len(p) = Len(s) - i + 1
            BY <4>1
          <6>3. i + j - 1 \in 1 .. Len(s)
            BY <3>1, <4>0, <6>1, <6>2
          <6> QED
            BY <4>1, <4>3, <4>4, <5>1, <6>1, <6>3
        <5> QED
          BY <5>2, <5>3
      <4>6. Len(q) = Len(Append(p, y))
        BY <4>0, <4>4
      <4>7. q = Append(p, y)
        <5> DEFINE r == Append(p, y)
        <5>1. q \in Seq(S) /\ r \in Seq(S) /\ Len(q) = Len(r)
          BY <4>2, <4>4, <4>6
        <5>2. \A j \in 1 .. Len(q) : q[j] = r[j]
          BY <4>5
        <5> HIDE DEF r
        <5>3. q = r
          BY <5>1, <5>2
        <5> QED
          BY <5>3 DEF r
      <4> QED
        BY <4>7 DEF q
    <3>3. p \in Seq(S) /\ Count(p, a) <= n + Count(p, b)
      BY <3>1, SuffixIs DEF Trailing
    <3> HIDE DEF p, t
    <3>4. /\ Count(p, a) \in Nat /\ Count(p, b) \in Nat
          /\ Count(Append(p, y), a) = Count(p, a) + (IF y = a THEN 1 ELSE 0)
          /\ Count(Append(p, y), b) = Count(p, b) + (IF y = b THEN 1 ELSE 0)
      BY <3>3, CountAppend
    <3>5. Count(Append(p, y), a) <= m + Count(Append(p, y), b)
      BY <3>3, <3>4
    <3> QED
      BY <3>2, <3>5
  <2> QED
    BY <2>1, <2>2
<1> QED
  BY <1>2 DEF Trailing

\* The suffixes of the tail are suffixes.
LEMMA TrailingTail ==
  ASSUME NEW S, NEW s \in Seq(S), s # <<>>, NEW n, NEW a, NEW b, Trailing(s, n, a, b)
  PROVE  Trailing(Tail(s), n, a, b)
<1> DEFINE t == Tail(s)
<1>1. /\ t \in Seq(S) /\ Len(t) = Len(s) - 1 /\ Len(s) \in Nat \ {0}
      /\ \A j \in 1 .. Len(t) : t[j] = s[j + 1]
  OBVIOUS
<1> HIDE DEF t
<1>2. ASSUME NEW i \in 1 .. Len(t) + 1
      PROVE  SubSeq(t, i, Len(t)) = SubSeq(s, i + 1, Len(s)) /\ i + 1 \in 1 .. Len(s) + 1
  <2> DEFINE p == SubSeq(s, i + 1, Len(s))
             q == SubSeq(t, i, Len(t))
  <2>1. i + 1 \in 1 .. Len(s) + 1
    BY <1>1
  <2>2. /\ p \in Seq(S) /\ Len(p) = Len(s) - (i + 1) + 1
        /\ \A j \in 1 .. Len(s) - (i + 1) + 1 : p[j] = s[(i + 1) + j - 1]
    BY <2>1, SuffixIs
  <2>3. /\ q \in Seq(S) /\ Len(q) = Len(t) - i + 1
        /\ \A j \in 1 .. Len(t) - i + 1 : q[j] = t[i + j - 1]
    BY <1>1, SuffixIs
  <2> HIDE DEF p, q
  <2>4. Len(p) = Len(q) /\ Len(q) \in Nat
    BY <1>1, <2>2, <2>3
  <2>5. ASSUME NEW j \in 1 .. Len(q) PROVE q[j] = p[j]
    <3>0. Len(t) \in Nat /\ i \in 1 .. Len(t) + 1 /\ j \in 1 .. Len(t) - i + 1
      BY <1>1, <2>3
    <3>1. q[j] = t[i + j - 1] /\ i + j - 1 \in 1 .. Len(t)
      <4>1. q[j] = t[i + j - 1]
        BY <2>3, <3>0
      <4>2. i + j - 1 \in 1 .. Len(t)
        BY <3>0
      <4> QED
        BY <4>1, <4>2
    <3>2. p[j] = s[(i + 1) + j - 1] /\ (i + 1) + j - 1 = (i + j - 1) + 1
      <4>1. j \in 1 .. Len(p)
        BY <2>4
      <4>2. j \in 1 .. Len(s) - (i + 1) + 1
        BY <2>2, <4>1
      <4> QED
        BY <2>2, <3>0, <4>2
    <3> QED
      BY <1>1, <3>1, <3>2
  <2>6. p = q
    BY <2>2, <2>3, <2>4, <2>5
  <2> QED
    BY <2>1, <2>6 DEF p, q
<1>3. Trailing(t, n, a, b)
  BY <1>2 DEF Trailing
<1> QED
  BY <1>3 DEF t

-----------------------------------------------------------------------------
\* The reports of a connect and of a loss of d.
Connected(d) == Signal("CONNECT", d)
Lost(d) == Signal("DISCONNECT", d)

\* Is the execute thread about to emit m, and the DBUS loop the loss of d?
AtExec(m) == IF exec.signal = m THEN 1 ELSE 0
AtLoop(d) == IF loop.tell = d THEN 1 ELSE 0

\* The losses of d that the two are about to emit.
Coming(d) == AtExec(Lost(d)) + AtLoop(d)

\* ListsAgree for one device, its signals under way spelt out.
Balanced(d) ==
  /\ svc # "down" => /\ Count(clients, d) <= Sessions(d)
                     /\ Sessions(d) <= Count(clients, d) + again[d]
  /\ Sessions(d) + Count(bus, Lost(d)) + Coming(d)
       <= Entries(d) + Count(bus, Connected(d)) + AtExec(Connected(d)) + again[d]
  /\ Entries(d) + Count(bus, Connected(d)) + AtExec(Connected(d))
       <= Sessions(d) + Count(bus, Lost(d)) + Coming(d)

\* What may follow the connects at the end of the bus.
Spare(d) == Sessions(d) + Coming(d) - AtExec(Connected(d))

\* ListsAgree and LossesFound for one device; and each connect on the bus is
\* that of a connection that stands, or is followed by a loss: so a loss that
\* takes back nothing hides no connect that comes after it.
Told(d) ==
  /\ Balanced(d)
  /\ Covered(bus, Entries(d) + again[d], Connected(d), Lost(d))
  /\ Trailing(bus, Spare(d), Connected(d), Lost(d))

\* The inductive invariant, for as long as the program runs.
Counts == \A d \in Devices \ missed : Told(d)

\* What is counted are numbers.
LEMMA Numbers ==
  ASSUME Shape, NEW d \in Devices
  PROVE  /\ Count(clients, d) \in Nat
         /\ \A m : Count(bus, m) \in Nat
         /\ Sessions(d) \in Nat /\ Sessions(d) = Present(session, device, d)
         /\ Entries(d) \in Nat
         /\ Entries(d) = EntriesIn(_connected_clients, text, d)
         /\ \A m : AtExec(m) \in {0, 1}
         /\ AtLoop(d) \in {0, 1}
         /\ Coming(d) \in Nat /\ again[d] \in Nat /\ Spare(d) \in Int
<1>1. clients \in Seq(Devices) /\ bus \in Seq(Reports)
      /\ _connected_clients \in Seq(Strings)
      /\ text \in [Strings -> Texts]
      /\ again[d] \in Nat
  BY DEF Shape, ServiceShape, LoopShape, BusShape, ProgramShape
<1>2. Count(clients, d) \in Nat /\ \A m : Count(bus, m) \in Nat
  BY <1>1, CountZero
<1>3. Sessions(d) \in Nat /\ Sessions(d) = Present(session, device, d)
  <2>1. Sessions(d) = Present(session, device, d)
    BY DEF Sessions, Present
  <2>2. Present(session, device, d) \in Nat
    BY PresentNat
  <2> QED
    BY <2>1, <2>2
<1>4. Entries(d) = EntriesIn(_connected_clients, text, d)
  BY DEF Entries, EntriesIn
<1>5. EntriesIn(_connected_clients, text, d) \in Nat
  BY <1>1, EntriesIsCount
<1>6. (\A m : AtExec(m) \in {0, 1}) /\ AtLoop(d) \in {0, 1}
  BY DEF AtExec, AtLoop
<1>7. Coming(d) \in Nat
  BY <1>6 DEF Coming
<1>8. Spare(d) \in Int
  BY <1>3, <1>6, <1>7 DEF Spare
<1> QED
  BY <1>1, <1>2, <1>3, <1>4, <1>5, <1>6, <1>7, <1>8

\* The same of the state after a step.
LEMMA NumbersNext ==
  ASSUME Shape', NEW d \in Devices
  PROVE  /\ Count(clients', d) \in Nat
         /\ \A m : Count(bus', m) \in Nat
         /\ Sessions(d)' \in Nat /\ Sessions(d)' = Present(session', device', d)
         /\ Entries(d)' \in Nat
         /\ Entries(d)' = EntriesIn(_connected_clients', text', d)
         /\ \A m : (AtExec(m))' \in {0, 1}
         /\ AtLoop(d)' \in {0, 1}
         /\ Coming(d)' \in Nat /\ again'[d] \in Nat /\ Spare(d)' \in Int
<1>1. clients' \in Seq(Devices) /\ bus' \in Seq(Reports)
      /\ _connected_clients' \in Seq(Strings)
      /\ text' \in [Strings -> Texts]
      /\ again'[d] \in Nat
  BY DEF Shape, ServiceShape, LoopShape, BusShape, ProgramShape
<1>2. Count(clients', d) \in Nat /\ \A m : Count(bus', m) \in Nat
  BY <1>1, CountZero
<1>3. Sessions(d)' \in Nat /\ Sessions(d)' = Present(session', device', d)
  <2>1. Sessions(d)' = Present(session', device', d)
    BY DEF Sessions, Present
  <2>2. Present(session', device', d) \in Nat
    BY PresentNat
  <2> QED
    BY <2>1, <2>2
<1>4. Entries(d)' = EntriesIn(_connected_clients', text', d)
  BY DEF Entries, EntriesIn
<1>5. EntriesIn(_connected_clients', text', d) \in Nat
  BY <1>1, EntriesIsCount
<1>6. (\A m : (AtExec(m))' \in {0, 1}) /\ AtLoop(d)' \in {0, 1}
  BY DEF AtExec, AtLoop
<1>7. Coming(d)' \in Nat
  BY <1>6 DEF Coming
<1>8. Spare(d)' \in Int
  BY <1>3, <1>6, <1>7 DEF Spare
<1> QED
  BY <1>1, <1>2, <1>3, <1>4, <1>5, <1>6, <1>7, <1>8

\* x - y <= z, and the like, without a difference.
LEMMA Differences ==
  ASSUME NEW e \in Nat, NEW c \in Nat, NEW l \in Nat, NEW p \in Nat, NEW g \in Nat
  PROVE  e + c - l \in p - g .. p <=> p + l <= e + c + g /\ e + c <= p + l
OBVIOUS

\* Counts implies the two properties.
LEMMA CountsMeans ==
  ASSUME Shape, main # "ended" => Counts
  PROVE  ListsAgree /\ LossesFound
<1> SUFFICES ASSUME main # "ended", NEW d \in Devices \ missed
             PROVE  /\ svc # "down" =>
                         Count(clients, d) \in Sessions(d) - again[d] .. Sessions(d)
                    /\ Entries(d) + Pending("CONNECT", d) - Pending("DISCONNECT", d)
                         \in Sessions(d) - again[d] .. Sessions(d)
                    /\ \A i \in DOMAIN bus :
                         LET heard == SubSeq(bus, 1, i)
                         IN  Count(heard, Signal("DISCONNECT", d))
                               <= Entries(d) + Count(heard, Signal("CONNECT", d))
                                    + again[d]
  BY DEF ListsAgree, LossesFound
<1>1. Told(d)
  BY DEF Counts
<1>2. /\ Count(bus, Connected(d)) \in Nat /\ AtExec(Connected(d)) \in {0, 1}
      /\ Count(bus, Lost(d)) \in Nat /\ AtExec(Lost(d)) \in {0, 1}
      /\ AtLoop(d) \in {0, 1} /\ Sessions(d) \in Nat /\ Entries(d) \in Nat
      /\ Count(clients, d) \in Nat /\ Coming(d) \in Nat /\ again[d] \in Nat
  BY Numbers
<1>3. /\ Pending("DISCONNECT", d) = Count(bus, Lost(d)) + Coming(d)
      /\ Pending("CONNECT", d) = Count(bus, Connected(d)) + AtExec(Connected(d))
  <2>1. Pending("DISCONNECT", d)
          = Count(bus, Lost(d)) + AtExec(Lost(d)) + AtLoop(d)
    BY DEF Pending, Lost, AtExec, AtLoop
  <2>2. Pending("CONNECT", d)
          = Count(bus, Connected(d)) + AtExec(Connected(d)) + 0
    BY DEF Pending, Connected, AtExec
  <2> QED
    BY <1>2, <2>1, <2>2 DEF Coming
<1>4. svc # "down" => Count(clients, d) \in Sessions(d) - again[d] .. Sessions(d)
  BY <1>1, <1>2 DEF Told, Balanced
<1>5. Entries(d) + Pending("CONNECT", d) - Pending("DISCONNECT", d)
        \in Sessions(d) - again[d] .. Sessions(d)
  <2>1. /\ Sessions(d) + Pending("DISCONNECT", d)
             <= Entries(d) + Pending("CONNECT", d) + again[d]
        /\ Entries(d) + Pending("CONNECT", d)
             <= Sessions(d) + Pending("DISCONNECT", d)
    BY <1>1, <1>2, <1>3 DEF Told, Balanced
  <2>2. Pending("CONNECT", d) \in Nat /\ Pending("DISCONNECT", d) \in Nat
    BY <1>2, <1>3
  <2> QED
    BY <1>2, <2>1, <2>2, Differences
<1>6. ASSUME NEW i \in DOMAIN bus
      PROVE  Count(SubSeq(bus, 1, i), Signal("DISCONNECT", d))
               <= Entries(d) + Count(SubSeq(bus, 1, i), Signal("CONNECT", d)) + again[d]
  <2> DEFINE p == SubSeq(bus, 1, i)
  <2>1. bus \in Seq(Reports)
    BY DEF Shape, ServiceShape, BusShape
  <2>2. i \in 1 .. Len(bus) /\ p \in Seq(Reports)
    BY <2>1
  <2>3. Count(p, Lost(d)) <= (Entries(d) + again[d]) + Count(p, Connected(d))
    BY <1>1, <2>2 DEF Told, Covered
  <2> HIDE DEF p
  <2>4. Count(p, Lost(d)) \in Nat /\ Count(p, Connected(d)) \in Nat
    BY <2>2, CountZero
  <2>5. Count(p, Lost(d)) <= Entries(d) + Count(p, Connected(d)) + again[d]
    BY <1>2, <2>3, <2>4
  <2> QED
    BY <2>5 DEF p, Lost, Connected
<1> QED
  BY <1>4, <1>5, <1>6

-----------------------------------------------------------------------------
\* The bus does not change, and what is counted does not get worse.
LEMMA ToldMore ==
  ASSUME Shape, Shape', NEW d \in Devices, Told(d), Balanced(d)', bus' = bus,
         Entries(d) + again[d] <= Entries(d)' + again'[d], Spare(d) <= Spare(d)'
  PROVE  Told(d)'
<1>1. /\ Entries(d) + again[d] \in Nat /\ Entries(d)' + again'[d] \in Nat
      /\ Spare(d) \in Int /\ Spare(d)' \in Int
  BY Numbers, NumbersNext
<1>2. bus \in Seq(Reports)
  BY DEF Shape, ServiceShape, BusShape
<1>3. Covered(bus, Entries(d)' + again'[d], Connected(d), Lost(d))
  BY <1>1, <1>2, CoveredMore DEF Told
<1>4. Trailing(bus, Spare(d)', Connected(d), Lost(d))
  BY <1>1, <1>2, TrailingMore DEF Told
<1> QED
  BY <1>3, <1>4 DEF Told

\* Nothing that is counted changes.
LEMMA CountsFrame ==
  ASSUME Counts, svc' # "down" => svc # "down",
         UNCHANGED <<clients, session, device, bus, _connected_clients, text,
                     missed, again>>,
         \A d : /\ AtExec(Lost(d))' = AtExec(Lost(d))
                /\ AtExec(Connected(d))' = AtExec(Connected(d)),
         loop'.tell = loop.tell
  PROVE  Counts'
<1>1. ASSUME NEW d \in Devices \ missed'
      PROVE  Told(d)'
  <2>1. Told(d)
    BY DEF Counts
  <2>2. Sessions(d)' = Sessions(d) /\ Entries(d)' = Entries(d) /\ AtLoop(d)' = AtLoop(d)
    BY DEF Sessions, Entries, AtLoop
  <2>3. Coming(d)' = Coming(d)
    BY <2>2 DEF Coming
  <2>4. Spare(d)' = Spare(d)
    BY <2>2, <2>3 DEF Spare
  <2>5. Balanced(d)'
    BY <2>1, <2>2, <2>3 DEF Told, Balanced
  <2> QED
    BY <2>1, <2>2, <2>4, <2>5 DEF Told
<1> QED
  BY <1>1 DEF Counts

\* The same, when exec does not change.
LEMMA CountsFrameExec ==
  ASSUME Counts, svc' # "down" => svc # "down",
         UNCHANGED <<clients, session, device, bus, _connected_clients, text,
                     missed, again, exec>>,
         loop'.tell = loop.tell
  PROVE  Counts'
<1>1. \A d : /\ AtExec(Lost(d))' = AtExec(Lost(d))
             /\ AtExec(Connected(d))' = AtExec(Connected(d))
  BY DEF AtExec
<1> QED
  BY <1>1, CountsFrame

\* A device that the execute thread announces is connected.
LEMMA AnnouncedNext ==
  ASSUME Shape', NEW d \in Devices
  PROVE  AtExec(Connected(d))' <= Sessions(d)'
<1>1. /\ Sessions(d)' \in Nat /\ Sessions(d)' = Present(session', device', d)
      /\ AtExec(Connected(d))' \in {0, 1}
  BY NumbersNext
<1>2. CASE AtExec(Connected(d))' = 1
  <2>1. exec'.signal = Connected(d)
    BY <1>2 DEF AtExec
  <2>2. exec'.signal.name = "CONNECT" /\ exec'.signal.uuid = d
    BY <2>1 DEF Connected, Signal
  <2>3. exec'.conn \in Conns
    BY <2>2, RestingShape DEF Shape, ServiceShape, ExecShape
  <2>4. session'[exec'.conn] = "present" /\ device'[exec'.conn] = d
    BY <2>2 DEF Shape, ServiceShape, ExecShape
  <2>5. Present(session', device', d) > 0
    BY <2>3, <2>4, PresentPositive
  <2> QED
    BY <1>1, <1>2, <2>5
<1> QED
  BY <1>1, <1>2

\* On the bus, a loss follows its connect.
LEMMA WholeBus ==
  ASSUME Shape', NEW d \in Devices, Balanced(d)'
  PROVE  Count(bus', Lost(d)) <= (Entries(d)' + again'[d]) + Count(bus', Connected(d))
<1>1. /\ Count(bus', Lost(d)) \in Nat /\ Count(bus', Connected(d)) \in Nat
      /\ Sessions(d)' \in Nat /\ Entries(d)' \in Nat /\ Coming(d)' \in Nat
      /\ AtExec(Connected(d))' \in {0, 1} /\ again'[d] \in Nat
      /\ AtExec(Connected(d))' <= Sessions(d)'
  BY NumbersNext, AnnouncedNext
<1>2. Sessions(d)' + Count(bus', Lost(d)) + Coming(d)'
        <= Entries(d)' + Count(bus', Connected(d)) + AtExec(Connected(d))' + again'[d]
  BY DEF Balanced
<1> QED
  BY <1>1, <1>2

\* What exec may hold.
LEMMA AtExecIs ==
  ASSUME NEW d
  PROVE  /\ exec.signal.name # "CONNECT" => AtExec(Connected(d)) = 0
         /\ exec.signal.name # "DISCONNECT" => AtExec(Lost(d)) = 0
         /\ exec.signal.uuid # d => AtExec(Connected(d)) = 0 /\ AtExec(Lost(d)) = 0
         /\ exec.signal = Resting.signal =>
              AtExec(Connected(d)) = 0 /\ AtExec(Lost(d)) = 0
BY RestingShape DEF AtExec, Connected, Lost, Signal

\* The same of the state after a step.
LEMMA AtExecIsNext ==
  ASSUME NEW d
  PROVE  /\ exec'.signal.name # "CONNECT" => AtExec(Connected(d))' = 0
         /\ exec'.signal.name # "DISCONNECT" => AtExec(Lost(d))' = 0
         /\ exec'.signal.uuid # d => AtExec(Connected(d))' = 0 /\ AtExec(Lost(d))' = 0
         /\ exec'.signal = Resting.signal =>
              AtExec(Connected(d))' = 0 /\ AtExec(Lost(d))' = 0
BY RestingShape DEF AtExec, Connected, Lost, Signal

-----------------------------------------------------------------------------
(* The steps that are counted.                                             *)

\* A connection is announced, and is about to be told.
LEMMA ConnectCounts ==
  ASSUME Shape, Shape', Counts, NEW c \in Conns, NEW e \in Devices, Connect(c, e),
         UNCHANGED <<_connected_clients, text>>
  PROVE  Counts'
<1>1. /\ exec = Resting
      /\ session[c] = "absent"
      /\ session' = [session EXCEPT ![c] = "present"]
      /\ device' = [device EXCEPT ![c] = e]
      /\ clients' = Append(clients, e)
      /\ exec' = Telling("CONNECT", e, c)
      /\ UNCHANGED <<svc, loop, again, bus, missed>>
  BY DEF Connect, Contract!Announce, add_client, busVars
<1>2. ASSUME NEW d \in Devices \ missed'
      PROVE  Told(d)'
  <2> DEFINE x == IF d = e THEN 1 ELSE 0
  <2>1. Told(d)
    BY <1>1 DEF Counts
  <2>2. /\ Sessions(d) \in Nat /\ Sessions(d) = Present(session, device, d)
        /\ Sessions(d)' = Present(session', device', d)
        /\ Count(clients, d) \in Nat /\ Entries(d) \in Nat
        /\ Count(bus, Lost(d)) \in Nat /\ Count(bus, Connected(d)) \in Nat
        /\ AtLoop(d) \in {0, 1} /\ Coming(d) \in Nat /\ again[d] \in Nat
    BY Numbers, NumbersNext
  <2>3. Present(session', device', d) = Present(session, device, d) + x
    <3>1. /\ session \in [Conns -> States]
          /\ device \in [Conns -> Devices \cup {NoDevice}]
      BY DEF Shape, ServiceShape, LinkShape
    <3>2. Announced(session, device, c, e, session', device')
      BY <1>1, <3>1 DEF Announced
    <3> QED
      BY <3>2, PresentAnnounce
  <2>4. Count(clients', d) = Count(clients, d) + x
    <3>1. clients \in Seq(Devices)
      BY DEF Shape, ServiceShape, LoopShape
    <3>2. Count(clients', d) = Count(clients, d) + (IF e = d THEN 1 ELSE 0)
      BY <1>1, <3>1, CountAppend
    <3> QED
      BY <3>2
  <2>5. /\ AtExec(Connected(d)) = 0 /\ AtExec(Lost(d)) = 0
        /\ AtExec(Lost(d))' = 0 /\ AtExec(Connected(d))' = x
    BY <1>1, AtExecIs DEF AtExec, Telling, Connected, Lost, Signal
  <2>6. Entries(d)' = Entries(d) /\ AtLoop(d)' = AtLoop(d)
    BY <1>1 DEF Entries, AtLoop
  <2>7. Coming(d)' = Coming(d)
    BY <2>5, <2>6 DEF Coming
  <2>8. x \in {0, 1}
    OBVIOUS
  <2> HIDE DEF x
  <2>9. Balanced(d)'
    <3>1. svc' = svc /\ bus' = bus /\ again' = again
      BY <1>1
    <3>2. svc' # "down" => /\ Count(clients', d) <= Sessions(d)'
                           /\ Sessions(d)' <= Count(clients', d) + again'[d]
      BY <2>1, <2>2, <2>3, <2>4, <2>8, <3>1 DEF Told, Balanced
    <3>3. /\ Sessions(d) + Count(bus, Lost(d)) + Coming(d)
               <= Entries(d) + Count(bus, Connected(d)) + 0 + again[d]
          /\ Entries(d) + Count(bus, Connected(d)) + 0
               <= Sessions(d) + Count(bus, Lost(d)) + Coming(d)
      BY <2>1, <2>5 DEF Told, Balanced
    <3>4. /\ (Sessions(d) + x) + Count(bus, Lost(d)) + Coming(d)
               <= Entries(d) + Count(bus, Connected(d)) + x + again[d]
          /\ Entries(d) + Count(bus, Connected(d)) + x
               <= (Sessions(d) + x) + Count(bus, Lost(d)) + Coming(d)
      BY <2>2, <2>8, <3>3
    <3> QED
      BY <2>2, <2>3, <2>5, <2>6, <2>7, <3>1, <3>2, <3>4 DEF Balanced
  <2>10. Spare(d) <= Spare(d)' /\ Entries(d) + again[d] <= Entries(d)' + again'[d]
    BY <1>1, <2>2, <2>3, <2>5, <2>6, <2>7, <2>8 DEF Spare
  <2> QED
    BY <1>1, <2>1, <2>9, <2>10, ToldMore
<1> QED
  BY <1>2 DEF Counts

\* A loss is noticed, for the first time or again, and is about to be told.
LEMMA NotifyCounts ==
  ASSUME Shape, Shape', Counts, NEW c \in client_infos, Notify(c),
         UNCHANGED <<svc, device, bus, missed, _connected_clients, text>>,
         \A d \in Devices :
           /\ AtExec(Connected(d))' = AtExec(Connected(d))
           /\ Coming(d)' = Coming(d) + (IF d = device[c] THEN 1 ELSE 0)
  PROVE  Counts'
<1>1. /\ session' = [session EXCEPT ![c] = "past"]
      /\ clients' = RemoveFirst(clients, device[c])
      /\ again' = IF session[c] = "past" THEN [again EXCEPT ![device[c]] = @ + 1]
                  ELSE again
      /\ session[c] \in {"present", "past"}
  BY DEF Notify, Contract!Withdraw, Contract!Known, remove_client
<1>2. /\ c \in Conns /\ device[c] \in Devices
      /\ session \in [Conns -> States] /\ again \in [Devices -> Nat]
  BY DEF Shape, ServiceShape, LinkShape, LoopShape
<1>3. ASSUME NEW d \in Devices \ missed'
      PROVE  Told(d)'
  <2> DEFINE x == IF d = device[c] THEN 1 ELSE 0
  <2>1. Told(d)
    BY DEF Counts
  <2>2. /\ Sessions(d) \in Nat /\ Sessions(d) = Present(session, device, d)
        /\ Sessions(d)' \in Nat /\ Sessions(d)' = Present(session', device', d)
        /\ Count(clients, d) \in Nat /\ Entries(d) \in Nat
        /\ Count(bus, Lost(d)) \in Nat /\ Count(bus, Connected(d)) \in Nat
        /\ Coming(d) \in Nat /\ again[d] \in Nat
        /\ AtExec(Connected(d)) \in {0, 1}
    BY Numbers, NumbersNext
  <2>3. \/ Sessions(d)' = Sessions(d) - x /\ again'[d] = again[d]
        \/ Sessions(d)' = Sessions(d) /\ again'[d] = again[d] + x
    <3>1. CASE session[c] = "present"
      <4>1. Withdrawn(session, c, session')
        BY <1>1, <1>2, <3>1 DEF Withdrawn
      <4>2. Present(session', device, d) = Present(session, device, d) - x
        BY <1>2, <4>1, PresentWithdraw
      <4>3. Sessions(d)' = Sessions(d) - x
        BY <2>2, <4>2
      <4> QED
        BY <1>1, <3>1, <4>3
    <3>2. CASE session[c] = "past"
      <4>1. session' = session
        BY <1>1, <1>2, <3>2
      <4>2. again'[d] = again[d] + x
        BY <1>1, <1>2, <2>2, <3>2
      <4> QED
        BY <2>2, <4>1, <4>2
    <3> QED
      BY <1>1, <3>1, <3>2
  <2>4. Count(clients', d) = IF x = 1 /\ Count(clients, d) > 0
                             THEN Count(clients, d) - 1 ELSE Count(clients, d)
    <3>1. clients \in Seq(Devices)
      BY DEF Shape, ServiceShape, LoopShape
    <3> QED
      BY <1>1, <3>1, RemoveFirstIs
  <2>5. Entries(d)' = Entries(d)
    BY DEF Entries
  <2>6. /\ AtExec(Connected(d))' = AtExec(Connected(d))
        /\ Coming(d)' = Coming(d) + x
    OBVIOUS
  <2>7. x \in {0, 1}
    OBVIOUS
  <2> HIDE DEF x
  <2>8. Balanced(d)'
    <3>1. svc' = svc /\ bus' = bus
      OBVIOUS
    <3>2. svc' # "down" => /\ Count(clients', d) <= Sessions(d)'
                           /\ Sessions(d)' <= Count(clients', d) + again'[d]
      <4>1. svc # "down" => /\ Count(clients, d) <= Sessions(d)
                            /\ Sessions(d) <= Count(clients, d) + again[d]
        BY <2>1 DEF Told, Balanced
      <4>2. CASE x = 0
        BY <2>2, <2>3, <2>4, <3>1, <4>1, <4>2
      <4>3. CASE x = 1 /\ Count(clients, d) > 0
        BY <2>2, <2>3, <2>4, <3>1, <4>1, <4>3
      <4>4. CASE x = 1 /\ Count(clients, d) = 0
        BY <2>2, <2>3, <2>4, <3>1, <4>1, <4>4
      <4> QED
        BY <2>2, <2>7, <4>2, <4>3, <4>4
    <3>3. /\ Sessions(d) + Count(bus, Lost(d)) + Coming(d)
               <= Entries(d) + Count(bus, Connected(d)) + AtExec(Connected(d)) + again[d]
          /\ Entries(d) + Count(bus, Connected(d)) + AtExec(Connected(d))
               <= Sessions(d) + Count(bus, Lost(d)) + Coming(d)
      BY <2>1 DEF Told, Balanced
    <3>4. /\ Sessions(d)' + Count(bus, Lost(d)) + (Coming(d) + x)
               <= Entries(d) + Count(bus, Connected(d)) + AtExec(Connected(d)) + again'[d]
          /\ Entries(d) + Count(bus, Connected(d)) + AtExec(Connected(d))
               <= Sessions(d)' + Count(bus, Lost(d)) + (Coming(d) + x)
      BY <2>2, <2>3, <2>7, <3>3
    <3> QED
      BY <2>5, <2>6, <3>1, <3>2, <3>4 DEF Balanced
  <2>9. Spare(d) <= Spare(d)' /\ Entries(d) + again[d] <= Entries(d)' + again'[d]
    BY <2>2, <2>3, <2>5, <2>6, <2>7 DEF Spare
  <2> QED
    BY <2>1, <2>8, <2>9, ToldMore
<1> QED
  BY <1>3 DEF Counts

\* A report goes on the bus, or its device is one of which something was missed.
LEMMA EmitCounts ==
  ASSUME Shape, Shape', Counts, NEW m \in Reports, emit(m),
         UNCHANGED <<svc, clients, again, session, device, _connected_clients, text>>,
         \A d \in Devices :
           /\ AtExec(Connected(d))' =
                AtExec(Connected(d)) - (IF m = Connected(d) THEN 1 ELSE 0)
           /\ Coming(d)' = Coming(d) - (IF m = Lost(d) THEN 1 ELSE 0)
  PROVE  Counts'
<1>1. missed \subseteq missed'
  BY DEF emit
<1>2. ASSUME NEW d \in Devices \ missed'
      PROVE  Told(d)'
  <2> DEFINE x == IF m = Connected(d) THEN 1 ELSE 0
             y == IF m = Lost(d) THEN 1 ELSE 0
  <2>1. Told(d)
    BY <1>1 DEF Counts
  <2>2. /\ Sessions(d) \in Nat /\ Entries(d) \in Nat /\ again[d] \in Nat
        /\ Count(bus, Lost(d)) \in Nat /\ Count(bus, Connected(d)) \in Nat
        /\ Coming(d) \in Nat /\ Coming(d)' \in Nat
        /\ AtExec(Connected(d)) \in {0, 1} /\ AtExec(Connected(d))' \in {0, 1}
    BY Numbers, NumbersNext
  <2>3. Entries(d)' = Entries(d) /\ Sessions(d)' = Sessions(d) /\ again' = again
    BY DEF Entries, Sessions
  <2>4. /\ AtExec(Connected(d))' = AtExec(Connected(d)) - x
        /\ Coming(d)' = Coming(d) - y
    OBVIOUS
  <2>5. /\ Sessions(d) + Count(bus, Lost(d)) + Coming(d)
             <= Entries(d) + Count(bus, Connected(d)) + AtExec(Connected(d)) + again[d]
        /\ Entries(d) + Count(bus, Connected(d)) + AtExec(Connected(d))
             <= Sessions(d) + Count(bus, Lost(d)) + Coming(d)
        /\ svc # "down" => /\ Count(clients, d) <= Sessions(d)
                           /\ Sessions(d) <= Count(clients, d) + again[d]
    BY <2>1 DEF Told, Balanced
  <2>6. bus \in Seq(Reports) /\ Connected(d) # Lost(d)
    BY DEF Shape, ServiceShape, BusShape, Connected, Lost, Signal
  <2>7. x \in {0, 1} /\ y \in {0, 1}
    OBVIOUS
  <2>8. CASE bus' = Append(bus, m)
    <3>1. /\ Count(bus', Lost(d)) = Count(bus, Lost(d)) + y
          /\ Count(bus', Connected(d)) = Count(bus, Connected(d)) + x
      BY <2>6, <2>8, CountAppend
    <3>2. Balanced(d)'
      <4> HIDE DEF x, y
      <4>1. /\ Sessions(d) + (Count(bus, Lost(d)) + y) + (Coming(d) - y)
                 <= Entries(d) + (Count(bus, Connected(d)) + x)
                      + (AtExec(Connected(d)) - x) + again[d]
            /\ Entries(d) + (Count(bus, Connected(d)) + x) + (AtExec(Connected(d)) - x)
                 <= Sessions(d) + (Count(bus, Lost(d)) + y) + (Coming(d) - y)
        BY <2>2, <2>5, <2>7
      <4> QED
        BY <2>3, <2>4, <2>5, <3>1, <4>1 DEF Balanced
    <3>3. Covered(bus', Entries(d)' + again'[d], Connected(d), Lost(d))
      <4>1. Covered(bus, Entries(d) + again[d], Connected(d), Lost(d))
        BY <2>1 DEF Told
      <4>2. Count(Append(bus, m), Lost(d))
              <= (Entries(d) + again[d]) + Count(Append(bus, m), Connected(d))
        BY <2>3, <2>8, <3>2, WholeBus
      <4>3. Covered(Append(bus, m), Entries(d) + again[d], Connected(d), Lost(d))
        BY <2>6, <4>1, <4>2, CoveredAppend
      <4> QED
        BY <2>3, <2>8, <4>3
    <3>4. Trailing(bus', Spare(d)', Connected(d), Lost(d))
      <4>1. Spare(d) \in Int /\ Spare(d)' = Spare(d) + x - y
        <5> HIDE DEF x, y
        <5> QED
          BY <2>2, <2>3, <2>4, <2>7 DEF Spare
      <4>2. Spare(d)' \in Nat
        <5>1. AtExec(Connected(d))' <= Sessions(d)'
          BY AnnouncedNext
        <5> QED
          BY <2>2, <2>3, <5>1 DEF Spare
      <4>3. Trailing(bus, Spare(d), Connected(d), Lost(d))
        BY <2>1 DEF Told
      <4>4. Trailing(Append(bus, m), Spare(d)', Connected(d), Lost(d))
        BY <2>6, <4>1, <4>2, <4>3, TrailingAppend
      <4> QED
        BY <2>8, <4>4
    <3> QED
      BY <3>2, <3>3, <3>4 DEF Told
  <2>9. CASE bus' = bus /\ (m.name = "RECV" \/ m.uuid \in missed')
    <3>1. m # Lost(d) /\ m # Connected(d)
      BY <2>9 DEF Lost, Connected, Signal
    <3>2. Coming(d)' = Coming(d) /\ AtExec(Connected(d))' = AtExec(Connected(d))
      BY <2>2, <2>4, <3>1
    <3>3. Balanced(d)'
      BY <2>3, <2>5, <2>9, <3>2 DEF Balanced
    <3>4. Spare(d)' = Spare(d)
      BY <2>3, <3>2 DEF Spare
    <3> QED
      BY <2>1, <2>3, <2>9, <3>3, <3>4 DEF Told
  <2> QED
    BY <2>8, <2>9 DEF emit
<1> QED
  BY <1>2 DEF Counts

\* The connections end: of the devices that had one something is missed.
LEMMA EndsCounts ==
  ASSUME Shape, Shape', Counts, ConnectionsEnd,
         svc' = "down" \/ (svc # "down" /\ UNCHANGED clients),
         UNCHANGED <<again, bus, _connected_clients, text>>,
         exec' \in {exec, Resting}, loop' \in {loop, LoopIdle}
  PROVE  Counts'
<1>1. missed' = missed \cup Unreported
  BY DEF ConnectionsEnd
<1>2. ASSUME NEW d \in Devices \ missed'
      PROVE  Told(d)'
  <2>1. Told(d) /\ d \notin Unreported
    BY <1>1 DEF Counts
  <2>2. /\ \A c \in Conns : session[c] = "present" => device[c] # d
        /\ exec.signal.uuid # d /\ loop.tell # d
    BY <2>1, ServiceAssumption DEF Unreported
  <2>3. \A c \in Conns : session'[c] = "present" => device'[c] # d
    BY DEF ConnectionsEnd
  <2>4. Sessions(d) = 0 /\ Sessions(d)' = 0
    <3>1. Present(session, device, d) = 0 /\ Present(session', device', d) = 0
      BY <2>2, <2>3, PresentNone
    <3> QED
      BY <3>1, Numbers, NumbersNext
  <2>5. exec'.signal.uuid # d /\ loop'.tell # d
    BY <2>2, RestingShape, LoopIdleShape, ServiceAssumption
  <2>6. /\ AtExec(Connected(d)) = 0 /\ Coming(d) = 0
        /\ AtExec(Connected(d))' = 0 /\ Coming(d)' = 0
    BY <2>2, <2>5, AtExecIs, AtExecIsNext DEF AtLoop, Coming
  <2>7. Entries(d)' = Entries(d)
    BY DEF Entries
  <2>8. Balanced(d)'
    <3>1. bus' = bus /\ again' = again
      OBVIOUS
    <3>2. svc' # "down" => /\ Count(clients', d) <= Sessions(d)'
                           /\ Sessions(d)' <= Count(clients', d) + again'[d]
      BY <2>1, <2>4 DEF Told, Balanced
    <3> QED
      BY <2>1, <2>4, <2>6, <2>7, <3>1, <3>2 DEF Told, Balanced
  <2>9. Spare(d)' = Spare(d)
    BY <2>4, <2>6 DEF Spare
  <2> QED
    BY <2>1, <2>7, <2>8, <2>9 DEF Told
<1> QED
  BY <1>2 DEF Counts

\* The process ends.
LEMMA ProcessEndsCounts ==
  ASSUME Shape, Shape', Counts, ProcessEnds, UNCHANGED <<_connected_clients, text>>
  PROVE  Counts'
BY EndsCounts DEF ProcessEnds

\* A callback hears the first report, and counts it in its list.
LEMMA HearCounts ==
  ASSUME Shape, Shape', Counts, bus # <<>>, bus' = Tail(bus),
         UNCHANGED <<svc, clients, again, session, device, exec, loop, missed>>,
         \A d \in Devices \ missed :
           Entries(d)' = Entries(d) + (IF Head(bus) = Connected(d) THEN 1 ELSE 0)
             - (IF Head(bus) = Lost(d) /\ Entries(d) > 0 THEN 1 ELSE 0)
  PROVE  Counts'
<1>1. ASSUME NEW d \in Devices \ missed'
      PROVE  Told(d)'
  <2>1. Told(d)
    BY DEF Counts
  <2>2. /\ Sessions(d) \in Nat /\ Entries(d) \in Nat /\ Entries(d)' \in Nat
        /\ Coming(d) \in Nat /\ again[d] \in Nat /\ Spare(d) \in Int
        /\ AtExec(Connected(d)) \in {0, 1}
    BY Numbers, NumbersNext
  <2>3. bus \in Seq(Reports) /\ Connected(d) # Lost(d)
    BY DEF Shape, ServiceShape, BusShape, Connected, Lost, Signal
  <2>4. /\ Sessions(d)' = Sessions(d) /\ Coming(d)' = Coming(d)
        /\ AtExec(Connected(d))' = AtExec(Connected(d)) /\ again' = again
        /\ svc' = svc /\ clients' = clients
    BY DEF Sessions, Coming, AtLoop, AtExec
  <2>5. Spare(d)' = Spare(d)
    BY <2>4 DEF Spare
  <2>6. Trailing(bus', Spare(d)', Connected(d), Lost(d))
    BY <2>1, <2>3, <2>5, TrailingTail DEF Told
  <2>7. /\ Count(bus', Lost(d)) \in Nat /\ Count(bus', Connected(d)) \in Nat
        /\ Count(bus, Lost(d)) =
             Count(bus', Lost(d)) + (IF Head(bus) = Lost(d) THEN 1 ELSE 0)
        /\ Count(bus, Connected(d)) =
             Count(bus', Connected(d)) + (IF Head(bus) = Connected(d) THEN 1 ELSE 0)
    BY <2>3, CountTail
  <2>8. Count(bus', Connected(d)) <= Spare(d) + Count(bus', Lost(d))
    <3>1. bus' \in Seq(Reports)
      BY <2>3
    <3> QED
      BY <2>2, <2>5, <2>6, <3>1, TrailingWhole
  <2>9. Count(bus', Connected(d)) + AtExec(Connected(d))
          <= Sessions(d) + Count(bus', Lost(d)) + Coming(d)
    <3>1. Spare(d) = Sessions(d) + Coming(d) - AtExec(Connected(d))
      BY DEF Spare
    <3> DEFINE x == Count(bus', Connected(d))
               y == Count(bus', Lost(d))
               s == Sessions(d)
               c == Coming(d)
               e == AtExec(Connected(d))
    <3>2. x \in Nat /\ y \in Nat /\ s \in Nat /\ c \in Nat /\ e \in {0, 1}
      BY <2>2, <2>7
    <3>3. x <= (s + c - e) + y
      BY <2>8, <3>1
    <3> HIDE DEF x, y, s, c, e
    <3>4. x + e <= s + y + c
      BY <3>2, <3>3
    <3> QED
      BY <3>4 DEF x, y, s, c, e
  <2>10. /\ Sessions(d) + Count(bus, Lost(d)) + Coming(d)
              <= Entries(d) + Count(bus, Connected(d)) + AtExec(Connected(d)) + again[d]
         /\ Entries(d) + Count(bus, Connected(d)) + AtExec(Connected(d))
              <= Sessions(d) + Count(bus, Lost(d)) + Coming(d)
    BY <2>1 DEF Told, Balanced
  <2>11. Covered(bus, Entries(d) + again[d], Connected(d), Lost(d))
    BY <2>1 DEF Told
  <2>12. Entries(d)' = Entries(d) + (IF Head(bus) = Connected(d) THEN 1 ELSE 0)
           - (IF Head(bus) = Lost(d) /\ Entries(d) > 0 THEN 1 ELSE 0)
    OBVIOUS
  <2>13. /\ Sessions(d) + Count(bus', Lost(d)) + Coming(d)
              <= Entries(d)' + Count(bus', Connected(d)) + AtExec(Connected(d)) + again[d]
         /\ Entries(d)' + Count(bus', Connected(d)) + AtExec(Connected(d))
              <= Sessions(d) + Count(bus', Lost(d)) + Coming(d)
    <3>1. \/ /\ Count(bus, Lost(d)) = Count(bus', Lost(d))
             /\ Count(bus, Connected(d)) = Count(bus', Connected(d)) + 1
             /\ Entries(d)' = Entries(d) + 1
          \/ /\ Count(bus, Lost(d)) = Count(bus', Lost(d)) + 1
             /\ Count(bus, Connected(d)) = Count(bus', Connected(d))
             /\ Entries(d)' = Entries(d) - 1
          \/ /\ Count(bus, Lost(d)) = Count(bus', Lost(d)) + 1
             /\ Count(bus, Connected(d)) = Count(bus', Connected(d))
             /\ Entries(d) = 0 /\ Entries(d)' = 0
          \/ /\ Count(bus, Lost(d)) = Count(bus', Lost(d))
             /\ Count(bus, Connected(d)) = Count(bus', Connected(d))
             /\ Entries(d)' = Entries(d)
      <4>1. CASE Head(bus) = Connected(d)
        BY <2>2, <2>3, <2>7, <2>12, <4>1
      <4>2. CASE Head(bus) = Lost(d) /\ Entries(d) > 0
        BY <2>2, <2>3, <2>7, <2>12, <4>2
      <4>3. CASE Head(bus) = Lost(d) /\ Entries(d) = 0
        BY <2>2, <2>3, <2>7, <2>12, <4>3
      <4>4. CASE Head(bus) # Connected(d) /\ Head(bus) # Lost(d)
        BY <2>2, <2>7, <2>12, <4>4
      <4> QED
        BY <2>2, <4>1, <4>2, <4>3, <4>4
    <3>2. Count(bus, Lost(d)) \in Nat /\ Count(bus, Connected(d)) \in Nat
      BY Numbers
    <3>3. AtExec(Connected(d)) \in Nat
      BY <2>2
    <3> DEFINE se == Sessions(d)
               co == Coming(d)
               xc == AtExec(Connected(d))
               ag == again[d]
               en == Entries(d)
               bl == Count(bus, Lost(d))
               bc == Count(bus, Connected(d))
               en2 == Entries(d)'
               bl2 == Count(bus', Lost(d))
               bc2 == Count(bus', Connected(d))
    <3>4. /\ se \in Nat /\ co \in Nat /\ xc \in Nat /\ ag \in Nat /\ en \in Nat
          /\ bl \in Nat /\ bc \in Nat /\ en2 \in Nat /\ bl2 \in Nat /\ bc2 \in Nat
      BY <2>2, <2>7, <3>2, <3>3
    <3>5. /\ se + bl + co <= en + bc + xc + ag
          /\ en + bc + xc <= se + bl + co
          /\ bc2 + xc <= se + bl2 + co
      BY <2>9, <2>10
    <3>6. \/ bl = bl2 /\ bc = bc2 + 1 /\ en2 = en + 1
          \/ bl = bl2 + 1 /\ bc = bc2 /\ en2 = en - 1
          \/ bl = bl2 + 1 /\ bc = bc2 /\ en = 0 /\ en2 = 0
          \/ bl = bl2 /\ bc = bc2 /\ en2 = en
      BY <3>1
    <3> HIDE DEF se, co, xc, ag, en, bl, bc, en2, bl2, bc2
    <3>7. /\ se + bl2 + co <= en2 + bc2 + xc + ag
          /\ en2 + bc2 + xc <= se + bl2 + co
      BY <3>4, <3>5, <3>6
    <3> QED
      BY <3>7 DEF se, co, xc, ag, en, bl, bc, en2, bl2, bc2
  <2>14. svc' # "down" => /\ Count(clients', d) <= Sessions(d)'
                          /\ Sessions(d)' <= Count(clients', d) + again'[d]
    BY <2>1, <2>4 DEF Told, Balanced
  <2>15. Balanced(d)'
    BY <2>4, <2>13, <2>14 DEF Balanced
  <2>16. Covered(bus', Entries(d)' + again'[d], Connected(d), Lost(d))
    <3> DEFINE n == Entries(d) + again[d]
               m == n + (IF Head(bus) = Connected(d) THEN 1 ELSE 0)
                      - (IF Head(bus) = Lost(d) THEN 1 ELSE 0)
               w == Entries(d)' + again'[d]
    <3>1. n \in Nat /\ w \in Nat
      BY <2>2, <2>4
    <3>2. Head(bus) = Lost(d) => n > 0
      BY <2>3, <2>11, <3>1, CoveredHead
    <3>3. m \in Nat
      <4> HIDE DEF n
      <4> QED
        BY <2>3, <3>1, <3>2
    <3>4. m <= w
      <4>1. again'[d] = again[d] /\ Entries(d) \in Nat /\ Entries(d)' \in Nat
              /\ again[d] \in Nat
        BY <2>2, <2>4
      <4> QED
        BY <2>12, <4>1
    <3>5. Covered(Tail(bus), m, Connected(d), Lost(d))
      <4> HIDE DEF n
      <4>1. Covered(bus, n, Connected(d), Lost(d))
        BY <2>11 DEF n
      <4> QED
        BY <2>3, <3>1, <3>3, <4>1, CoveredTail
    <3>6. Tail(bus) \in Seq(Reports)
      BY <2>3
    <3> HIDE DEF m, w
    <3>7. Covered(Tail(bus), w, Connected(d), Lost(d))
      BY <3>1, <3>3, <3>4, <3>5, <3>6, CoveredMore
    <3> QED
      BY <3>7 DEF w
  <2> QED
    BY <2>6, <2>15, <2>16 DEF Told
<1> QED
  BY <1>1 DEF Counts

\* What is counted changes neither at the start and the end of main(), nor on
\* the links.
LEMMA MainCounts ==
  ASSUME Shape, Shape', Counts, UNCHANGED <<hellos, programVars>>,
         \/ \E answer \in BusAnswers : Initialize(answer)
         \/ Execute \/ Quit \/ Kill \/ Crash
  PROVE  Counts'
<1>1. UNCHANGED <<_connected_clients, text>>
  BY DEF programVars
<1>2. CASE ProcessEnds
  BY <1>1, <1>2, ProcessEndsCounts
<1>3. CASE Quit
  <2>1. /\ ConnectionsEnd
        /\ svc # "down"
        /\ UNCHANGED <<clients, again, bus, exec, loop>>
    BY <1>3 DEF Quit
  <2> QED
    BY <1>1, <2>1, EndsCounts
<1>4. CASE /\ svc \in {"init", "execute"}
           /\ UNCHANGED <<linkVars, clients, exec, loop, again, busVars>>
  BY <1>1, <1>4, CountsFrameExec DEF linkVars, busVars
<1> QED
  BY <1>2, <1>3, <1>4 DEF Initialize, Execute, Kill, Crash

\* A step on the links.
LEMMA LinkCounts ==
  ASSUME Counts, UNCHANGED <<linkFrame, text, _connected_clients>>
  PROVE  Counts'
BY CountsFrameExec DEF linkFrame, serviceVars, busVars

\* A message is read, and is put on the bus.
LEMMA ReadCounts ==
  ASSUME Shape, Shape', Counts, NEW c \in Conns, Read(c),
         UNCHANGED <<text, _connected_clients>>
  PROVE  Counts'
<1>1. CASE ProcessEnds
  BY <1>1, ProcessEndsCounts
<1>2. CASE /\ emit(Signal("RECV", device[c]))
           /\ UNCHANGED <<session, device, fd, client_infos, peer, asked,
                          serviceVars, call, reply, tcp_sbscr>>
  <2> DEFINE m == Signal("RECV", device[c])
  <2>1. m \in Reports
    BY DEF Read, Shape, ServiceShape, LinkShape, Signal, Reports, SignalType, Signals
  <2>2. \A d : m # Connected(d) /\ m # Lost(d)
    BY DEF Connected, Lost, Signal
  <2>3. ASSUME NEW d \in Devices
        PROVE  /\ AtExec(Connected(d))' =
                    AtExec(Connected(d)) - (IF m = Connected(d) THEN 1 ELSE 0)
               /\ Coming(d)' = Coming(d) - (IF m = Lost(d) THEN 1 ELSE 0)
    <3>1. AtExec(Connected(d))' = AtExec(Connected(d)) /\ Coming(d)' = Coming(d)
      BY <1>2 DEF serviceVars, Coming, AtExec, AtLoop
    <3>2. AtExec(Connected(d)) \in {0, 1} /\ Coming(d) \in Nat
      BY Numbers
    <3> HIDE DEF m
    <3> QED
      BY <2>2, <3>1, <3>2
  <2>4. emit(m) /\ UNCHANGED <<svc, clients, again, session, device>>
    BY <1>2 DEF serviceVars
  <2> HIDE DEF m
  <2> QED
    BY <2>1, <2>3, <2>4, EmitCounts
<1> QED
  BY <1>1, <1>2 DEF Read

\* The execute thread notices a loss.
LEMMA LoseCounts ==
  ASSUME Shape, Shape', Counts, NEW c \in Conns, Lose(c),
         UNCHANGED <<text, _connected_clients>>
  PROVE  Counts'
<1>1. /\ exec = Resting /\ Notify(c) /\ c \in client_infos
      /\ exec' = Telling("DISCONNECT", device[c], c)
      /\ UNCHANGED <<device, svc, bus, missed, loop>>
  BY DEF Lose, busVars
<1>2. ASSUME NEW d \in Devices
      PROVE  /\ AtExec(Connected(d))' = AtExec(Connected(d))
             /\ Coming(d)' = Coming(d) + (IF d = device[c] THEN 1 ELSE 0)
  <2>1. AtExec(Lost(d)) = 0 /\ AtExec(Connected(d)) = 0
    BY <1>1, AtExecIs
  <2>2. /\ AtExec(Connected(d))' = 0
        /\ AtExec(Lost(d))' = IF d = device[c] THEN 1 ELSE 0
    BY <1>1 DEF AtExec, Telling, Connected, Lost, Signal
  <2>3. AtLoop(d)' = AtLoop(d) /\ AtLoop(d) \in {0, 1}
    BY <1>1 DEF AtLoop
  <2> QED
    BY <2>1, <2>2, <2>3 DEF Coming
<1> QED
  BY <1>1, <1>2, NotifyCounts

\* The execute thread emits what it has to tell.
LEMMA TellCounts ==
  ASSUME Shape, Shape', Counts, Tell, UNCHANGED <<text, _connected_clients>>
  PROVE  Counts'
<1>1. CASE ProcessEnds
  BY <1>1, ProcessEndsCounts
<1>2. CASE /\ emit(exec.signal)
           /\ exec' \in {Resting, Closing(exec.conn)}
           /\ UNCHANGED <<linkVars, svc, config, clients, loop, again, call,
                          reply, tcp_sbscr>>
  <2> DEFINE m == exec.signal
  <2>1. m \in Reports /\ exec.conn \in Conns
    BY DEF Tell, Shape, ServiceShape, ExecShape
  <2>2. exec'.signal = Resting.signal
    BY <1>2, <2>1, ClosingShape
  <2>3. ASSUME NEW d \in Devices
        PROVE  /\ AtExec(Connected(d))' =
                    AtExec(Connected(d)) - (IF m = Connected(d) THEN 1 ELSE 0)
               /\ Coming(d)' = Coming(d) - (IF m = Lost(d) THEN 1 ELSE 0)
    <3>1. AtExec(Connected(d))' = 0 /\ AtExec(Lost(d))' = 0
      BY <2>2, AtExecIsNext
    <3>2. /\ AtExec(Connected(d)) = IF m = Connected(d) THEN 1 ELSE 0
          /\ AtExec(Lost(d)) = IF m = Lost(d) THEN 1 ELSE 0
      BY DEF AtExec
    <3>3. AtLoop(d)' = AtLoop(d) /\ AtLoop(d) \in {0, 1}
      BY <1>2 DEF AtLoop
    <3> QED
      BY <3>1, <3>2, <3>3 DEF Coming
  <2>4. emit(m) /\ UNCHANGED <<svc, clients, again, session, device>>
    BY <1>2 DEF linkVars
  <2> HIDE DEF m
  <2> QED
    BY <2>1, <2>3, <2>4, EmitCounts
<1> QED
  BY <1>1, <1>2 DEF Tell

\* A number is closed.
LEMMA CloseCounts ==
  ASSUME Counts, Close, UNCHANGED <<text, _connected_clients>>
  PROVE  Counts'
<1>1. /\ \E c \in Conns : exec = Closing(c) /\ CloseFd(fd[c])
      /\ exec' = Resting
      /\ UNCHANGED <<svc, clients, loop, again, bus, missed>>
  BY DEF Close, busVars
<1>2. exec.signal = Resting.signal /\ UNCHANGED <<session, device>>
  BY <1>1, ClosingShape DEF CloseFd
<1>3. \A d : /\ AtExec(Lost(d))' = AtExec(Lost(d))
             /\ AtExec(Connected(d))' = AtExec(Connected(d))
  BY <1>1, <1>2, AtExecIs, AtExecIsNext
<1> QED
  BY <1>1, <1>2, <1>3, CountsFrame

-----------------------------------------------------------------------------
(* The DBUS loop.                                                          *)

\* The loop moves on, and has nothing to tell before and after.
LEMMA MovesCounts ==
  ASSUME Shape, Shape', Counts, loop.pc # "tell", loop'.pc # "tell",
         UNCHANGED <<session, device, clients, again, loopFrame, bus, missed, text,
                     _connected_clients>>
  PROVE  Counts'
<1>1. loop.tell = NoDevice /\ loop'.tell = NoDevice
  BY DEF Shape, ServiceShape, LoopShape
<1> QED
  BY <1>1, CountsFrameExec DEF loopFrame

\* Going on, or answering.
LEMMA GoToCounts ==
  ASSUME Shape, NEW t \in Callers, NEW rest, rest \subseteq Conns, NEW ok \in BOOLEAN,
         GoTo(t, rest, ok) \/ Answer(t, ok)
  PROVE  loop'.pc # "tell"
<1>1. LoopMoves(t)
  BY GoToShape, AnswerShape DEF Shape, LoopMoves
<1> QED
  BY <1>1, LoopIdleShape DEF LoopMoves, Loop

\* A send that fails: the loss is noticed in the loop, or nobody notices.
LEMMA SendFailsCounts ==
  ASSUME Shape, Shape', Counts, loop.pc = "send",
         NEW t, NEW c \in Conns, SendFails(t, c),
         c \in client_infos \/ session[c] = "absent",
         UNCHANGED <<text, _connected_clients>>
  PROVE  Counts'
<1>1. UNCHANGED <<device, svc, bus, missed, exec>>
  BY DEF SendFails, loopFrame, busVars
<1>2. CASE /\ loop' = Loop("close", t, c, NoDevice)
           /\ UNCHANGED <<session, clients, again>>
  <2>1. loop'.pc # "tell" /\ UNCHANGED loopFrame
    BY <1>2 DEF Loop, SendFails
  <2> QED
    BY <1>1, <1>2, <2>1, MovesCounts
<1>3. CASE Notify(c) /\ loop' = Loop("tell", t, c, device[c])
  <2>1. c \in client_infos
    BY <1>3 DEF Notify, Contract!Withdraw, Contract!Known
  <2>2. loop'.tell = device[c] /\ loop.tell = NoDevice
    BY <1>3 DEF Loop, Shape, ServiceShape, LoopShape
  <2>3. ASSUME NEW d \in Devices
        PROVE  /\ AtExec(Connected(d))' = AtExec(Connected(d))
               /\ Coming(d)' = Coming(d) + (IF d = device[c] THEN 1 ELSE 0)
    <3>1. AtExec(Connected(d))' = AtExec(Connected(d))
          /\ AtExec(Lost(d))' = AtExec(Lost(d)) /\ AtExec(Lost(d)) \in {0, 1}
      BY <1>1 DEF AtExec
    <3>2. AtLoop(d) = 0 /\ AtLoop(d)' = IF d = device[c] THEN 1 ELSE 0
      BY <2>2, ServiceAssumption DEF AtLoop
    <3> QED
      BY <3>1, <3>2 DEF Coming
  <2> QED
    BY <1>1, <1>3, <2>1, <2>3, NotifyCounts
<1> QED
  BY <1>2, <1>3 DEF SendFails

\* A send, whatever comes of it.
LEMMA SendCounts ==
  ASSUME Shape, Shape', Counts, Send, UNCHANGED <<text, _connected_clients>>
  PROVE  Counts'
<1>1. loop.pc = "send" /\ loop.thread \in Callers /\ loop.conn \in Conns
  BY DEF Send, Shape, ServiceShape, LoopShape
<1>2. \A t, c : Rest(t, c, client_infos) \subseteq Conns
  BY TargetsShape DEF Shape, ServiceShape, LinkShape
<1>3. ASSUME NEW c \in Receivers(loop.conn), SendOk(loop.thread, c)
      PROVE  Counts'
  <2>1. loop'.pc # "tell"
    BY <1>1, <1>2, <1>3, GoToCounts DEF SendOk
  <2> QED
    BY <1>1, <1>3, <2>1, MovesCounts DEF SendOk
<1>4. ASSUME NEW c \in Receivers(loop.conn), SendFails(loop.thread, c)
      PROVE  Counts'
  BY <1>1, <1>4, ReceiversShape, SendFailsCounts DEF Shape
<1>5. CASE SendLate(loop.thread, loop.conn)
  <2>1. loop'.pc # "tell"
    BY <1>1, <1>2, <1>5, GoToCounts DEF SendLate
  <2> QED
    BY <1>1, <1>5, <2>1, MovesCounts DEF SendLate, linkVars
<1> QED
  BY <1>3, <1>4, <1>5 DEF Send

\* A call is handled.
LEMMA HandleCounts ==
  ASSUME Shape, Shape', Counts, NEW t \in Callers, Handle(t),
         UNCHANGED <<text, _connected_clients>>
  PROVE  Counts'
<1>1. Targets(t) \subseteq Conns
  BY TargetsShape DEF Shape, ServiceShape, LinkShape
<1>2. loop'.pc # "tell"
  BY <1>1, GoToCounts DEF Handle
<1> QED
  BY <1>2, MovesCounts DEF Handle, linkVars

\* A call is handled after the end.
LEMMA HandleLateCounts ==
  ASSUME Shape, Shape', Counts, NEW t \in Callers, HandleLate(t),
         UNCHANGED <<text, _connected_clients>>
  PROVE  Counts'
<1>1. CASE ProcessEnds
  BY <1>1, ProcessEndsCounts
<1>2. CASE /\ \E ok \in BOOLEAN : Answer(t, ok)
           /\ UNCHANGED <<linkVars, clients, again, loopFrame, bus, missed>>
  <2>1. loop.pc = "idle" /\ loop'.pc # "tell"
    BY <1>2, LoopIdleShape DEF HandleLate, Answer
  <2> QED
    BY <1>2, <2>1, MovesCounts DEF linkVars
<1> QED
  BY <1>1, <1>2 DEF HandleLate

\* The loop emits the loss it has to tell.
LEMMA TellLossCounts ==
  ASSUME Shape, Shape', Counts, TellLoss, UNCHANGED <<text, _connected_clients>>
  PROVE  Counts'
<1> DEFINE m == Lost(loop.tell)
<1>1. loop.tell \in Devices
  BY DEF TellLoss, Shape, ServiceShape, LoopShape
<1>2. CASE ProcessEnds
  BY <1>2, ProcessEndsCounts
<1>3. CASE /\ emit(m)
           /\ loop' = Loop("close", loop.thread, loop.conn, NoDevice)
           /\ UNCHANGED <<linkVars, clients, again, loopFrame>>
  <2>1. m \in Reports
    BY <1>1 DEF Lost, Signal, Reports, SignalType, Signals
  <2>2. loop'.tell = NoDevice
    BY <1>3 DEF Loop
  <2>3. ASSUME NEW d \in Devices
        PROVE  /\ AtExec(Connected(d))' =
                    AtExec(Connected(d)) - (IF m = Connected(d) THEN 1 ELSE 0)
               /\ Coming(d)' = Coming(d) - (IF m = Lost(d) THEN 1 ELSE 0)
    <3>1. m # Connected(d) /\ (m = Lost(d) <=> loop.tell = d)
      BY DEF Connected, Lost, Signal
    <3>2. AtLoop(d)' = 0 /\ AtLoop(d) = IF m = Lost(d) THEN 1 ELSE 0
      BY <2>2, <3>1, ServiceAssumption DEF AtLoop
    <3>3. /\ AtExec(Connected(d))' = AtExec(Connected(d))
          /\ AtExec(Lost(d))' = AtExec(Lost(d))
          /\ AtExec(Connected(d)) \in {0, 1} /\ AtExec(Lost(d)) \in {0, 1}
      BY <1>3 DEF AtExec, loopFrame
    <3> HIDE DEF m
    <3> QED
      BY <3>1, <3>2, <3>3 DEF Coming
  <2>4. emit(m) /\ UNCHANGED <<svc, clients, again, session, device>>
    BY <1>3 DEF linkVars, loopFrame
  <2> HIDE DEF m
  <2> QED
    BY <2>1, <2>3, <2>4, EmitCounts
<1> QED
  BY <1>2, <1>3 DEF TellLoss, Lost

\* The loop closes a number.
LEMMA CloseLateCounts ==
  ASSUME Shape, Shape', Counts, CloseLate, UNCHANGED <<text, _connected_clients>>
  PROVE  Counts'
<1>1. /\ loop.pc = "close" /\ CloseFd(fd[loop.conn])
      /\ GoTo(loop.thread, Rest(loop.thread, loop.conn, client_infos'),
              call[loop.thread] = GreetAll)
      /\ UNCHANGED <<clients, again, loopFrame, bus, missed>>
  BY DEF CloseLate
<1>2. loop.thread \in Callers
  BY <1>1 DEF Shape, ServiceShape, LoopShape
<1>3. client_infos' \subseteq Conns /\ UNCHANGED <<session, device>>
  BY <1>1, CloseFdShape DEF Shape
<1>4. Rest(loop.thread, loop.conn, client_infos') \subseteq Conns
  BY <1>3, TargetsShape DEF Shape
<1>5. loop'.pc # "tell"
  BY <1>1, <1>2, <1>4, GoToCounts
<1> QED
  BY <1>1, <1>3, <1>5, MovesCounts

\* Every step of the service.
LEMMA ServiceNextCounts ==
  ASSUME Shape, Shape', Counts, ServiceNext, UNCHANGED <<hellos, programVars>>
  PROVE  Counts'
<1>1. UNCHANGED <<text, _connected_clients>>
  BY DEF programVars
<1>2. CASE \/ \E answer \in BusAnswers : Initialize(answer)
           \/ Execute \/ Quit \/ Kill \/ Crash
  BY <1>2, MainCounts
<1>3. CASE \E c \in Conns : \E d \in MayOpen[c] : Connect(c, d)
  <2>1. PICK c \in Conns : \E d \in MayOpen[c] : Connect(c, d)
    BY <1>3
  <2>2. MayOpen[c] \subseteq Devices
    BY ServiceAssumption
  <2> QED
    BY <1>1, <2>1, <2>2, ConnectCounts
<1>4. CASE \E c \in Conns : Detect(c)
  BY <1>1, <1>4, LinkCounts DEF Detect
<1>5. CASE \E c \in Conns, how \in {"gone", "closed"} : Leave(c, how)
  BY <1>1, <1>5, LinkCounts DEF Leave
<1>6. CASE \E t \in Callers : HandleLate(t)
  BY <1>1, <1>6, HandleLateCounts
<1>7. CASE \E c \in Conns : Lose(c) \/ Read(c)
  BY <1>1, <1>7, LoseCounts, ReadCounts
<1>8. CASE Tell \/ Close
  BY <1>1, <1>8, TellCounts, CloseCounts
<1>9. CASE Send \/ TellLoss \/ CloseLate
  BY <1>1, <1>9, SendCounts, TellLossCounts, CloseLateCounts
<1>10. CASE \E t \in Callers : Handle(t)
  BY <1>1, <1>10, HandleCounts
<1> QED
  BY <1>2, <1>3, <1>4, <1>5, <1>6, <1>7, <1>8, <1>9, <1>10
     DEF ServiceNext, ExecStep, LoopStep


-----------------------------------------------------------------------------
(* The callbacks.                                                          *)

\* Nothing of the service but calls and answers changes, nor the list.
LEMMA ProgramCounts ==
  ASSUME Counts,
         UNCHANGED <<serviceVars, session, device, bus, missed, text,
                     _connected_clients>>
  PROVE  Counts'
BY CountsFrameExec DEF serviceVars

\* A connect is heard: its entry is made.
LEMMA OnConnectCounts ==
  ASSUME Shape, Shape', Counts, NEW s \in Strings, OnConnect(s)
  PROVE  Counts'
<1>1. /\ Hear("CONNECT") /\ s \notin Allocated
      /\ text' = [text EXCEPT ![s] = Head(bus).uuid]
      /\ _connected_clients' = Append(_connected_clients, s)
  BY DEF OnConnect, MayReturn
<1>2. /\ bus # <<>> /\ bus' = Tail(bus)
      /\ UNCHANGED <<svc, clients, again, session, device, exec, loop, missed>>
  BY <1>1 DEF Hear, linkVars, serviceVars
<1>3. Head(bus) \in Reports /\ Head(bus).name = "CONNECT" /\ Head(bus).uuid \in Devices
  BY <1>1, HearShape DEF Signals
<1>4. \A i \in 1 .. Len(_connected_clients) : _connected_clients[i] # s
  BY <1>1, AllocatedIs DEF Shape
<1>5. ASSUME NEW d \in Devices \ missed
      PROVE  Entries(d)' = Entries(d) + (IF Head(bus) = Connected(d) THEN 1 ELSE 0)
               - (IF Head(bus) = Lost(d) /\ Entries(d) > 0 THEN 1 ELSE 0)
  <2>1. EntriesIn(_connected_clients', text', d) =
          EntriesIn(_connected_clients, text, d)
          + (IF d = Head(bus).uuid THEN 1 ELSE 0)
    <3>1. /\ _connected_clients \in Seq(Strings)
          /\ text \in [Strings -> Texts]
      BY DEF Shape, ProgramShape
    <3>2. Enlisted(_connected_clients, text, s, Head(bus).uuid,
                   _connected_clients', text')
      BY <1>1, <1>3, <1>4, <3>1 DEF Enlisted
    <3> QED
      BY <3>2, EnlistedCounts
  <2>2. /\ Head(bus) = Connected(d) <=> d = Head(bus).uuid
        /\ Head(bus) # Lost(d)
    BY <1>3 DEF Reports, SignalType, Connected, Lost, Signal
  <2>3. /\ Entries(d) = EntriesIn(_connected_clients, text, d)
        /\ Entries(d)' = EntriesIn(_connected_clients', text', d)
        /\ Entries(d) \in Nat
    BY Numbers, NumbersNext
  <2> QED
    BY <2>1, <2>2, <2>3
<1> QED
  BY <1>2, <1>5, HearCounts

\* A loss is heard: its entry goes, if there is one.
LEMMA OnDisconnectCounts ==
  ASSUME Shape, Shape', Counts, OnDisconnect
  PROVE  Counts'
<1> DEFINE e == Head(bus).uuid
           k == FirstWith(e)
<1>1. /\ Hear("DISCONNECT")
      /\ IF k = 0 THEN UNCHANGED <<_connected_clients, text>>
         ELSE /\ _connected_clients' = RemoveAt(_connected_clients, k)
              /\ \E left \in {e, Junk} :
                   text' = [text EXCEPT ![_connected_clients[k]] = left]
  BY DEF OnDisconnect
<1>2. /\ bus # <<>> /\ bus' = Tail(bus)
      /\ UNCHANGED <<svc, clients, again, session, device, exec, loop, missed>>
  BY <1>1 DEF Hear, linkVars, serviceVars
<1>3. Head(bus) \in Reports /\ Head(bus).name = "DISCONNECT" /\ e \in Devices
  BY <1>1, HearShape DEF Signals
<1>4. \/ /\ k \in 1 .. Len(_connected_clients)
         /\ text[_connected_clients[k]] = e
      \/ /\ k = 0
         /\ \A i \in 1 .. Len(_connected_clients) : text[_connected_clients[i]] # e
  BY FirstWithIs
<1>5. ASSUME NEW d \in Devices \ missed
      PROVE  Entries(d)' = Entries(d) + (IF Head(bus) = Connected(d) THEN 1 ELSE 0)
               - (IF Head(bus) = Lost(d) /\ Entries(d) > 0 THEN 1 ELSE 0)
  <2>1. /\ Head(bus) = Lost(d) <=> d = e
        /\ Head(bus) # Connected(d)
    BY <1>3 DEF Reports, SignalType, Connected, Lost, Signal
  <2>2. /\ Entries(d) = EntriesIn(_connected_clients, text, d)
        /\ Entries(d)' = EntriesIn(_connected_clients', text', d)
        /\ Entries(d) \in Nat /\ Entries(d)' \in Nat
    BY Numbers, NumbersNext
  <2>3. /\ _connected_clients \in Seq(Strings)
        /\ text \in [Strings -> Texts]
        /\ \A i, j \in 1 .. Len(_connected_clients) :
             _connected_clients[i] = _connected_clients[j] => i = j
    BY DEF Shape, ProgramShape
  <2> HIDE DEF e, k
  <2>4. CASE k # 0
    <3>1. PICK left \in {e, Junk} :
            text' = [text EXCEPT ![_connected_clients[k]] = left]
      BY <1>1, <2>4
    <3>2. /\ k \in 1 .. Len(_connected_clients)
          /\ text[_connected_clients[k]] = e
          /\ left \in Texts
      BY <1>3, <1>4, <2>4 DEF Texts
    <3>3. EntriesIn(_connected_clients', text', d) =
            EntriesIn(_connected_clients, text, d)
            - (IF d = text[_connected_clients[k]] THEN 1 ELSE 0)
      <4>1. Freed(_connected_clients, text, k, left, _connected_clients', text')
        BY <1>1, <2>3, <2>4, <3>1, <3>2 DEF Freed
      <4> QED
        BY <4>1, FreedCounts
    <3>4. Entries(d)' = Entries(d) - (IF d = e THEN 1 ELSE 0)
      BY <1>1, <2>2, <2>4, <3>1, <3>2, <3>3
    <3>5. d = e => Entries(d) > 0
      BY <2>2, <3>4
    <3> QED
      BY <2>1, <2>2, <3>4, <3>5
  <2>5. CASE k = 0
    <3>1. Entries(d)' = Entries(d)
      BY <1>1, <2>2, <2>5
    <3>2. d = e => Entries(d) = 0
      <4> SUFFICES ASSUME d = e PROVE Entries(d) = 0
        OBVIOUS
      <4>1. {i \in DOMAIN _connected_clients : text[_connected_clients[i]] = d} = {}
        BY <1>4, <2>3, <2>5
      <4> QED
        BY <4>1, FS_EmptySet DEF Entries
    <3> QED
      BY <2>1, <2>2, <3>1, <3>2
  <2> QED
    BY <2>4, <2>5
<1> QED
  BY <1>2, <1>5, HearCounts

\* Data is heard: no entry changes.
LEMMA OnDataCounts ==
  ASSUME Shape, Shape', Counts, OnData
  PROVE  Counts'
<1>1. Hear("RECV") /\ UNCHANGED <<text, _connected_clients>>
  BY DEF OnData
<1>2. /\ bus # <<>> /\ bus' = Tail(bus)
      /\ UNCHANGED <<svc, clients, again, session, device, exec, loop, missed>>
  BY <1>1 DEF Hear, linkVars, serviceVars
<1>3. Head(bus).name = "RECV"
  BY <1>1 DEF Hear
<1>4. ASSUME NEW d \in Devices \ missed
      PROVE  Entries(d)' = Entries(d) + (IF Head(bus) = Connected(d) THEN 1 ELSE 0)
               - (IF Head(bus) = Lost(d) /\ Entries(d) > 0 THEN 1 ELSE 0)
  <2>1. Head(bus) # Connected(d) /\ Head(bus) # Lost(d)
    BY <1>3 DEF Connected, Lost, Signal
  <2>2. Entries(d)' = Entries(d) /\ Entries(d) \in Nat
    BY <1>1, Numbers DEF Entries
  <2> QED
    BY <2>1, <2>2
<1> QED
  BY <1>2, <1>4, HearCounts

\* The other steps of the programs, unless the program ends.
LEMMA QuietCounts ==
  ASSUME Counts, main' # "ended",
         \/ \E c \in Conns : GiveData(c) \/ SayHi(c)
         \/ SelectClient \/ Greet \/ Greeted \/ Deselect
         \/ InitClient \/ SubscribeAll \/ MainLoop \/ CallFails
  PROVE  Counts'
<1>1. CASE \E c \in Conns : GiveData(c) \/ SayHi(c)
  BY <1>1, LinkCounts DEF GiveData, SayHi, DeviceSends, programVars
<1>2. CASE SelectClient \/ Greet
  BY <1>2, ProgramCounts DEF SelectClient, Greet, tcp_dbus_send_msg, linkVars
<1>3. CASE Greeted
  BY <1>3, ProgramCounts DEF Greeted, Return, linkVars
<1>4. CASE Deselect
  BY <1>4, ProgramCounts DEF Deselect, serverVars, linkVars, busVars
<1>5. CASE InitClient
  BY <1>5, ProgramCounts DEF InitClient, serverVars, linkVars, busVars, callbackFrame
<1>6. CASE ProgramEnds
  BY <1>6 DEF ProgramEnds
<1>7. CASE SubscribeAll
  <2>1. CASE UNCHANGED <<linkVars, serviceVars, bus, missed, callbackFrame>>
    BY <2>1, ProgramCounts DEF linkVars, callbackFrame
  <2> QED
    BY <1>6, <1>7, <2>1 DEF SubscribeAll, Subscribe
<1>8. CASE Process \/ Retry
  BY <1>8, ProgramCounts DEF Process, Retry, tcp_dbus_send_msg, linkVars, callbackFrame
<1>9. CASE Ignore
  BY <1>9, ProgramCounts DEF Ignore, serverVars, linkVars, busVars, callbackFrame
<1>10. CASE Done
  BY <1>10, ProgramCounts DEF Done, Return, linkVars, callbackFrame
<1> QED
  BY <1>1, <1>2, <1>3, <1>4, <1>5, <1>6, <1>7, <1>8, <1>9, <1>10
     DEF MainLoop, CallFails

-----------------------------------------------------------------------------
(* The theorems.                                                           *)

\* Counts is preserved by every step, until the program ends,
LEMMA NextCounts ==
  ASSUME Shape, Shape', main # "ended" => Counts, [Next]_vars, main' # "ended"
  PROVE  Counts'
<1>1. CASE UNCHANGED vars
  <2>1. UNCHANGED <<serviceVars, session, device, bus, missed, text,
                    _connected_clients, main>>
    BY <1>1 DEF vars, serverVars, linkVars, busVars, programVars
  <2> QED
    BY <2>1, ProgramCounts
<1>2. CASE Next
  <2>1. Counts
    BY <1>2 DEF Next
  <2>2. CASE ServiceNext /\ UNCHANGED <<hellos, programVars>>
    BY <2>1, <2>2, ServiceNextCounts
  <2>3. CASE \E s \in Strings : OnConnect(s)
    BY <2>1, <2>3, OnConnectCounts
  <2>4. CASE OnDisconnect \/ OnData
    BY <2>1, <2>4, OnDisconnectCounts, OnDataCounts
  <2> QED
    BY <1>2, <2>1, <2>2, <2>3, <2>4, QuietCounts DEF Next, Callback
<1> QED
  BY <1>1, <1>2

\* and holds at first.
LEMMA InitCounts == Init => Counts
<1> SUFFICES ASSUME Init, NEW d \in Devices PROVE Told(d)
  BY DEF Counts
<1>1. /\ clients = <<>> /\ bus = <<>> /\ _connected_clients = <<>>
      /\ exec = Resting /\ loop = LoopIdle /\ again[d] = 0
      /\ \A c \in Conns : session[c] # "present"
  BY DEF Init, ServiceInit, Contract!Init
<1>2. Sessions(d) = 0
  <2>1. Present(session, device, d) = 0
    BY <1>1, PresentNone
  <2> QED
    BY <2>1 DEF Sessions, Present
<1>3. Entries(d) = 0
  <2>1. {i \in DOMAIN _connected_clients : text[_connected_clients[i]] = d} = {}
    BY <1>1
  <2> QED
    BY <2>1, FS_EmptySet DEF Entries
<1>4. /\ AtExec(Lost(d)) = 0 /\ AtExec(Connected(d)) = 0 /\ Coming(d) = 0
  BY <1>1, AtExecIs, LoopIdleShape, ServiceAssumption DEF AtLoop, Coming
<1>5. /\ Count(clients, d) = 0
      /\ Count(bus, Lost(d)) = 0 /\ Count(bus, Connected(d)) = 0
  BY <1>1, CountEmpty
<1>6. Balanced(d)
  BY <1>1, <1>2, <1>3, <1>4, <1>5 DEF Balanced
<1>7. Covered(bus, Entries(d) + again[d], Connected(d), Lost(d))
  BY <1>1 DEF Covered
<1>8. Trailing(bus, Spare(d), Connected(d), Lost(d))
  <2>1. Spare(d) = 0
    BY <1>2, <1>4 DEF Spare
  <2>2. ASSUME NEW i \in 1 .. Len(bus) + 1
        PROVE  Count(SubSeq(bus, i, Len(bus)), Connected(d))
                 <= 0 + Count(SubSeq(bus, i, Len(bus)), Lost(d))
    <3>1. bus \in Seq({}) /\ Len(bus) = 0 /\ i = Len(bus) + 1
      BY <1>1
    <3>2. SubSeq(bus, i, Len(bus)) = <<>>
      BY <3>1, SuffixIs
    <3> QED
      BY <3>2, CountEmpty
  <2> QED
    BY <2>1, <2>2 DEF Trailing
<1> QED
  BY <1>6, <1>7, <1>8 DEF Told

\* Counts is an invariant while the program runs.
THEOREM CountsAlways == Spec => [](main # "ended" => Counts)
<1>1. Shape /\ (main # "ended" => Counts) /\ [Next]_vars /\ Shape'
        => (main # "ended" => Counts)'
  BY NextCounts
<1> QED
  BY <1>1, InitCounts, ShapeAlways, PTL DEF Spec

\* The variables have their types: what the callbacks keep in the list are
\* UUIDs of devices, in strings that are allocated once.
THEOREM TypeCorrect == Spec => []TypeOK
BY ShapeAlways, ShapeImpliesTypeOK, PTL

\* However the two threads of the service interleave, also inside
\* close_client_conn, whatever free() leaves, and for any number of devices and
\* connections: the table, the connections and the list of the program agree up
\* to the signals under way, but for what second notices of one loss took away.
THEOREM ListsAgreeAlways == Spec => []ListsAgree
<1>1. Shape /\ (main # "ended" => Counts) => ListsAgree
  BY CountsMeans
<1> QED
  BY <1>1, ShapeAlways, CountsAlways, PTL

\* A disconnect signal without its connect before it on the way to the program
\* is the second notice of a loss, whichever thread emits each.
THEOREM LossesFoundAlways == Spec => []LossesFound
<1>1. Shape /\ (main # "ended" => Counts) => LossesFound
  BY CountsMeans
<1> QED
  BY <1>1, ShapeAlways, CountsAlways, PTL

-----------------------------------------------------------------------------
(* Sums.                                                                   *)

\* Tokens that stand for f[x] of each member x of s: their number is the sum.
Tokens(s, f) == {p \in s \X Nat : p[2] \in 1 .. f[p[1]]}

\* The tokens of one member, and the others.
LEMMA TokensSplit ==
  ASSUME NEW s, NEW f, NEW x \in s, f[x] \in Nat,
         IsFiniteSet(Tokens(s \ {x}, f))
  PROVE  /\ IsFiniteSet(Tokens(s, f))
         /\ Cardinality(Tokens(s, f)) = f[x] + Cardinality(Tokens(s \ {x}, f))
<1> DEFINE A == {x} \X (1 .. f[x])
           B == Tokens(s \ {x}, f)
<1>1. Tokens(s, f) = A \cup B /\ A \cap B = {}
  BY DEF Tokens
<1>2. IsFiniteSet(A) /\ Cardinality(A) = f[x]
  <2>1. IsFiniteSet(1 .. f[x]) /\ Cardinality(1 .. f[x]) = f[x]
    BY FS_Interval
  <2>2. IsFiniteSet({x}) /\ Cardinality({x}) = 1
    BY FS_Singleton
  <2>3. IsFiniteSet(A) /\ Cardinality(A) = Cardinality({x}) * Cardinality(1 .. f[x])
    BY <2>1, <2>2, FS_Product
  <2> HIDE DEF A
  <2> QED
    BY <2>1, <2>2, <2>3
<1>3. Cardinality(B) \in Nat /\ Cardinality({}) = 0
  BY FS_CardinalityType, FS_EmptySet
<1> HIDE DEF A, B
<1>4. /\ IsFiniteSet(A \cup B)
      /\ Cardinality(A \cup B) = Cardinality(A) + Cardinality(B) - Cardinality(A \cap B)
  BY <1>2, FS_Union DEF B
<1>5. \A m, n \in Nat : m + n - 0 = m + n
  OBVIOUS
<1>6. Cardinality(A \cup B) = f[x] + Cardinality(B)
  BY <1>1, <1>2, <1>3, <1>4, <1>5
<1> QED
  BY <1>1, <1>4, <1>6 DEF B

\* Among some subsets of a finite set one is smallest, as far as there are any.
LEMMA SmallestSet ==
  ASSUME NEW S, IsFiniteSet(S), NEW B, B \subseteq SUBSET S, B # {}
  PROVE  \E s \in B : \A t \in B : Cardinality(s) <= Cardinality(t)
<1> DEFINE N == {Cardinality(s) : s \in B}
<1>1. \A s \in B : Cardinality(s) \in Nat
  <2> SUFFICES ASSUME NEW s \in B PROVE Cardinality(s) \in Nat
    OBVIOUS
  <2>1. IsFiniteSet(s)
    BY FS_Subset
  <2> QED
    BY <2>1, FS_CardinalityType
<1>2. N \subseteq Nat /\ N # {}
  BY <1>1
<1>3. Min(N) \in N /\ \A m \in N : Min(N) <= m
  <2> HIDE DEF N
  <2> QED
    BY <1>2, LeastNumber
<1>4. PICK s \in B : Cardinality(s) = Min(N)
  BY <1>3
<1>5. \A t \in B : Cardinality(t) \in N
  OBVIOUS
<1> HIDE DEF N
<1> QED
  BY <1>3, <1>4, <1>5

\* A proper part of a finite set is smaller.
LEMMA WithoutOne ==
  ASSUME NEW S, IsFiniteSet(S), NEW s, s \subseteq S, NEW x \in s
  PROVE  /\ Cardinality(s) \in Nat /\ Cardinality(s \ {x}) \in Nat
         /\ ~(Cardinality(s) <= Cardinality(s \ {x}))
<1>1. IsFiniteSet(s)
  BY FS_Subset
<1>2. IsFiniteSet(s \ {x}) /\ Cardinality(s \ {x}) = Cardinality(s) - 1
  BY <1>1, FS_RemoveElement
<1>3. Cardinality(s) \in Nat /\ Cardinality(s \ {x}) \in Nat
  BY <1>1, <1>2, FS_CardinalityType
<1> QED
  BY <1>2, <1>3

\* A finite number of members have a finite number of tokens.
LEMMA TokensFinite ==
  ASSUME NEW S, IsFiniteSet(S), NEW f \in [S -> Nat], NEW s, s \subseteq S
  PROVE  IsFiniteSet(Tokens(s, f)) /\ Cardinality(Tokens(s, f)) \in Nat
<1> DEFINE B == {t \in SUBSET S : ~IsFiniteSet(Tokens(t, f))}
<1>1. B = {}
  <2> SUFFICES ASSUME B # {} PROVE FALSE
    OBVIOUS
  <2>1. PICK t \in B : \A u \in B : Cardinality(t) <= Cardinality(u)
    <3>1. B \subseteq SUBSET S
      OBVIOUS
    <3> HIDE DEF B
    <3> QED
      BY <3>1, SmallestSet
  <2>2. t # {}
    <3>1. Tokens({}, f) = {}
      BY DEF Tokens
    <3> QED
      BY <3>1, FS_EmptySet
  <2>3. PICK x \in t : TRUE
    BY <2>2
  <2>4. t \ {x} \notin B
    <3>1. ~(Cardinality(t) <= Cardinality(t \ {x}))
      BY WithoutOne
    <3> HIDE DEF B
    <3> QED
      BY <2>1, <3>1
  <2>5. IsFiniteSet(Tokens(t \ {x}, f)) /\ f[x] \in Nat
    BY <2>4
  <2>6. IsFiniteSet(Tokens(t, f))
    BY <2>5, TokensSplit
  <2> QED
    BY <2>6
<1>2. IsFiniteSet(Tokens(s, f))
  BY <1>1
<1> QED
  BY <1>2, FS_CardinalityType

\* The recursive function by which the community modules sum f over a set is
\* the number of tokens.
LEMMA SumIs ==
  ASSUME NEW S, IsFiniteSet(S), NEW f \in [S -> Nat]
  PROVE  LET Adds(it) ==
               it = [s \in SUBSET S |->
                       IF s = {} THEN 0
                       ELSE LET x == CHOOSE x \in s : TRUE
                            IN  f[x] + it[s \ {x}]]
         IN  /\ \E it : Adds(it)
             /\ \A it : Adds(it) => it[S] = Cardinality(Tokens(S, f))
<1> DEFINE pick(s) == CHOOSE x \in s : TRUE
           Adds(it) == it = [s \in SUBSET S |->
                               IF s = {} THEN 0
                               ELSE f[pick(s)] + it[s \ {pick(s)}]]
           g == [s \in SUBSET S |-> Cardinality(Tokens(s, f))]
<1>1. \A s \in SUBSET S : s # {} => pick(s) \in s
  OBVIOUS
<1>2. \A s \in SUBSET S : s # {} => s \ {pick(s)} \in SUBSET S
  OBVIOUS
<1>3. Cardinality(Tokens({}, f)) = 0
  <2>1. Tokens({}, f) = {}
    BY DEF Tokens
  <2> QED
    BY <2>1, FS_EmptySet
<1> HIDE DEF pick
<1>4. ASSUME NEW s \in SUBSET S, s # {}
      PROVE  /\ g[s \ {pick(s)}] = Cardinality(Tokens(s \ {pick(s)}, f))
             /\ g[s] = f[pick(s)] + g[s \ {pick(s)}]
  <2>1. pick(s) \in s /\ f[pick(s)] \in Nat
    BY <1>1, <1>4
  <2>2. s \ {pick(s)} \subseteq S
    OBVIOUS
  <2>3. IsFiniteSet(Tokens(s \ {pick(s)}, f))
    BY <2>2, TokensFinite
  <2>4. Cardinality(Tokens(s, f)) =
          f[pick(s)] + Cardinality(Tokens(s \ {pick(s)}, f))
    BY <2>1, <2>3, TokensSplit
  <2> QED
    BY <2>2, <2>4
<1>5. Adds(g)
  <2>1. g[{}] = 0
    BY <1>3
  <2>2. \A s \in SUBSET S :
          g[s] = IF s = {} THEN 0 ELSE f[pick(s)] + g[s \ {pick(s)}]
    BY <1>4, <2>1
  <2>3. g = [s \in SUBSET S |-> g[s]]
    OBVIOUS
  <2> HIDE DEF g
  <2> QED
    BY <2>2, <2>3
<1>6. ASSUME NEW it, Adds(it) PROVE it[S] = g[S]
  <2> DEFINE B == {s \in SUBSET S : it[s] # g[s]}
  <2>1. B = {}
    <3> SUFFICES ASSUME B # {} PROVE FALSE
      OBVIOUS
    <3>1. PICK s \in B : \A u \in B : Cardinality(s) <= Cardinality(u)
      <4>1. B \subseteq SUBSET S
        OBVIOUS
      <4> HIDE DEF B
      <4> QED
        BY <4>1, SmallestSet
    <3>2. s \in SUBSET S /\ it[s] # g[s]
      BY <3>1
    <3>3. it[s] = IF s = {} THEN 0 ELSE f[pick(s)] + it[s \ {pick(s)}]
      BY <1>6, <3>2
    <3>4. s # {}
      BY <1>3, <3>2, <3>3
    <3>5. s \ {pick(s)} \notin B
      <4>1. ~(Cardinality(s) <= Cardinality(s \ {pick(s)}))
        BY <1>1, <3>2, <3>4, WithoutOne
      <4> HIDE DEF B
      <4> QED
        BY <3>1, <4>1
    <3>6. it[s \ {pick(s)}] = g[s \ {pick(s)}]
      BY <1>2, <3>2, <3>4, <3>5
    <3> HIDE DEF g
    <3> QED
      BY <1>4, <3>2, <3>3, <3>4, <3>6
  <2> HIDE DEF g
  <2> QED
    BY <2>1
<1>7. g[S] = Cardinality(Tokens(S, f))
  OBVIOUS
<1> HIDE DEF g
<1> QED
  BY <1>5, <1>6, <1>7 DEF pick

\* More of each member is more tokens.
LEMMA TokensMore ==
  ASSUME NEW S, IsFiniteSet(S), NEW f \in [S -> Nat], NEW h \in [S -> Nat],
         \A x \in S : f[x] <= h[x]
  PROVE  Cardinality(Tokens(S, f)) <= Cardinality(Tokens(S, h))
<1>1. Tokens(S, f) \subseteq Tokens(S, h)
  BY DEF Tokens
<1>2. IsFiniteSet(Tokens(S, h))
  BY TokensFinite
<1> QED
  BY <1>1, <1>2, FS_Subset

\* n more of one member is n more tokens.
LEMMA TokensAdd ==
  ASSUME NEW S, IsFiniteSet(S), NEW f \in [S -> Nat], NEW h \in [S -> Nat],
         NEW x \in S, \A y \in S \ {x} : f[y] = h[y]
  PROVE  Cardinality(Tokens(S, f)) - f[x] = Cardinality(Tokens(S, h)) - h[x]
<1>1. Tokens(S \ {x}, f) = Tokens(S \ {x}, h)
  BY DEF Tokens
<1>2. IsFiniteSet(Tokens(S \ {x}, f)) /\ Cardinality(Tokens(S \ {x}, f)) \in Nat
  BY TokensFinite
<1>3. Cardinality(Tokens(S, f)) = f[x] + Cardinality(Tokens(S \ {x}, f))
  BY <1>2, TokensSplit
<1>4. Cardinality(Tokens(S, h)) = h[x] + Cardinality(Tokens(S \ {x}, f))
  BY <1>1, <1>2, TokensSplit
<1>5. f[x] \in Nat /\ h[x] \in Nat
  OBVIOUS
<1> QED
  BY <1>2, <1>3, <1>4, <1>5

-----------------------------------------------------------------------------
(* What is under way.                                                      *)

\* While the program runs, a thread that does not wait for an answer has no
\* call, and main() repeats requests only; the loop works for a call that waits.
ProgramCalls ==
  main # "ended" =>
    /\ cb \notin {"request", "greet"} => call["cb"] = NoCall
    /\ main # "request" => call["main"] = NoCall
    /\ main = "request" => call["main"].kind = "request"
LoopCalls == loop.pc # "idle" => CallPending(loop.thread)
CallsInv == ProgramCalls /\ LoopCalls

\* The parts of UnderWay and ToCome.
LoadOf(as, ar) == [c \in Conns |-> as[c] + ar[c]]
LinkLoad == Cardinality(Tokens(Conns, LoadOf(asked, arrived)))
Stirring == {"RECV", "CONNECT"}
ExecLoad == IF exec.signal.name = "CONNECT" THEN 1 ELSE 0
Stirs(s) == [i \in 1 .. Len(s) |-> IF s[i].name \in Stirring THEN 1 ELSE 0]
BusLoad  == Count(Stirs(bus), 1)
CallLoad(t) == IF Unsent(t) THEN 1 ELSE 0
SelectLoad  == IF cb = "select" THEN 1 ELSE 0
AbsentIn(ses) == Cardinality({c \in Conns : ses[c] = "absent"})
Unopened == AbsentIn(session)

\* What the service, the links and the bus hold, and all of it.
ServiceFlow ==
  LinkLoad + ExecLoad + BusLoad + Unopened + CallLoad("cb") + CallLoad("main")
Flow == ServiceFlow + Len(data_queue) + SelectLoad + (MaxHellos - hellos)

\* A load is a function of numbers.
LEMMA LoadType ==
  ASSUME NEW as \in [Conns -> Nat], NEW ar \in [Conns -> Nat]
  PROVE  /\ LoadOf(as, ar) \in [Conns -> Nat]
         /\ Cardinality(Tokens(Conns, LoadOf(as, ar))) \in Nat
<1>1. ASSUME NEW c \in Conns PROVE as[c] + ar[c] \in Nat
  <2>1. as[c] \in Nat /\ ar[c] \in Nat
    OBVIOUS
  <2>2. \A m, n \in Nat : m + n \in Nat
    OBVIOUS
  <2> QED
    BY <2>1, <2>2, Zenon
<1>2. LoadOf(as, ar) \in [Conns -> Nat]
  BY <1>1 DEF LoadOf
<1> QED
  BY <1>2, ServiceAssumption, TokensFinite

\* Signals that stir, one by one.
LEMMA StirsSeq ==
  ASSUME NEW s \in Seq(Reports)
  PROVE  /\ Stirs(s) \in Seq({0, 1}) /\ Len(Stirs(s)) = Len(s)
         /\ \A i \in 1 .. Len(s) :
              Stirs(s)[i] = IF s[i].name \in Stirring THEN 1 ELSE 0
         /\ Count(Stirs(s), 1) \in Nat
<1>1. /\ Stirs(s) \in Seq({0, 1}) /\ Len(Stirs(s)) = Len(s)
      /\ \A i \in 1 .. Len(s) :
           Stirs(s)[i] = IF s[i].name \in Stirring THEN 1 ELSE 0
  BY DEF Stirs
<1>2. Count(Stirs(s), 1) \in Nat
  BY <1>1, CountZero
<1> QED
  BY <1>1, <1>2

\* A signal more on the bus.
LEMMA StirsAppend ==
  ASSUME NEW s \in Seq(Reports), NEW m \in Reports
  PROVE  Count(Stirs(Append(s, m)), 1) =
           Count(Stirs(s), 1) + (IF m.name \in Stirring THEN 1 ELSE 0)
<1> DEFINE x == IF m.name \in Stirring THEN 1 ELSE 0
           a == Append(s, m)
<1>1. /\ a \in Seq(Reports) /\ Len(a) = Len(s) + 1 /\ a[Len(s) + 1] = m
      /\ \A i \in 1 .. Len(s) : a[i] = s[i]
  OBVIOUS
<1> HIDE DEF a
<1>2. /\ Stirs(s) \in Seq({0, 1}) /\ Len(Stirs(s)) = Len(s) /\ x \in {0, 1}
      /\ Stirs(a) \in Seq({0, 1}) /\ Len(Stirs(a)) = Len(a)
  BY <1>1, StirsSeq
<1>3. \A i \in 1 .. Len(s) + 1 : Stirs(a)[i] = Append(Stirs(s), x)[i]
  <2>1. \A i \in 1 .. Len(s) : Append(Stirs(s), x)[i] = Stirs(s)[i]
    BY <1>2
  <2>2. Append(Stirs(s), x)[Len(s) + 1] = x
    BY <1>2
  <2>3. Stirs(a)[Len(s) + 1] = x
    BY <1>1, StirsSeq
  <2>4. \A i \in 1 .. Len(s) : Stirs(a)[i] = Stirs(s)[i]
    BY <1>1, StirsSeq
  <2> SUFFICES ASSUME NEW i \in 1 .. Len(s) + 1
               PROVE  Stirs(a)[i] = Append(Stirs(s), x)[i]
    OBVIOUS
  <2>5. Len(s) \in Nat
    OBVIOUS
  <2>6. i \in 1 .. Len(s) \/ i = Len(s) + 1
    BY <2>5
  <2> HIDE DEF x
  <2> QED
    BY <2>1, <2>2, <2>3, <2>4, <2>6, Zenon
<1> HIDE DEF x
<1>4. Stirs(a) = Append(Stirs(s), x)
  BY <1>1, <1>2, <1>3
<1>5. Count(Append(Stirs(s), x), 1) = Count(Stirs(s), 1) + (IF x = 1 THEN 1 ELSE 0)
  BY <1>2, CountAppend
<1> QED
  BY <1>2, <1>4, <1>5 DEF a, x

\* A signal heard.
LEMMA StirsTail ==
  ASSUME NEW s \in Seq(Reports), s # <<>>
  PROVE  Count(Stirs(s), 1) =
           Count(Stirs(Tail(s)), 1) + (IF Head(s).name \in Stirring THEN 1 ELSE 0)
<1> DEFINE t == Tail(s)
<1>1. /\ t \in Seq(Reports) /\ Len(t) = Len(s) - 1 /\ Head(s) = s[1]
      /\ 1 \in 1 .. Len(s) /\ \A j \in 1 .. Len(t) : t[j] = s[j + 1]
  OBVIOUS
<1> HIDE DEF t
<1>2. /\ Stirs(s) \in Seq({0, 1}) /\ Len(Stirs(s)) = Len(s)
      /\ Stirs(t) \in Seq({0, 1}) /\ Len(Stirs(t)) = Len(t)
  BY <1>1, StirsSeq
<1>3. \A j \in 1 .. Len(t) : Stirs(t)[j] = Stirs(s)[j + 1]
  <2> SUFFICES ASSUME NEW j \in 1 .. Len(t) PROVE Stirs(t)[j] = Stirs(s)[j + 1]
    OBVIOUS
  <2>1. j + 1 \in 1 .. Len(s) /\ t[j] = s[j + 1]
    BY <1>1
  <2> QED
    BY <1>1, <2>1, StirsSeq
<1>4. Removed(Stirs(s), Stirs(t), 1)
  BY <1>1, <1>2, <1>3 DEF Removed
<1>5. Count(Stirs(s), 1) =
        Count(Stirs(t), 1) + (IF Stirs(s)[1] = 1 THEN 1 ELSE 0)
  BY <1>2, <1>4, CountRemoved
<1>6. Stirs(s)[1] = 1 <=> s[1].name \in Stirring
  BY <1>1, StirsSeq
<1> QED
  BY <1>1, <1>5, <1>6 DEF t

\* The parts are numbers,
LEMMA FlowParts ==
  ASSUME Shape
  PROVE  /\ LinkLoad \in Nat /\ ExecLoad \in {0, 1} /\ BusLoad \in Nat
         /\ Unopened \in Nat /\ \A t : CallLoad(t) \in {0, 1}
         /\ Len(data_queue) \in Nat /\ SelectLoad \in {0, 1}
         /\ MaxHellos - hellos \in Nat
<1>1. LinkLoad \in Nat
  BY LoadType DEF Shape, ServiceShape, LinkShape, LinkLoad
<1>2. BusLoad \in Nat
  BY StirsSeq DEF Shape, ServiceShape, BusShape, BusLoad
<1>3. Unopened \in Nat
  <2>1. IsFiniteSet({c \in Conns : session[c] = "absent"})
    BY ServiceAssumption, FS_Subset
  <2> QED
    BY <2>1, FS_CardinalityType DEF Unopened, AbsentIn
<1>4. Len(data_queue) \in Nat /\ MaxHellos - hellos \in Nat
  BY ExchangeAssumption DEF Shape, ProgramShape
<1> QED
  BY <1>1, <1>2, <1>3, <1>4 DEF ExecLoad, CallLoad, SelectLoad

\* and stay numbers.
LEMMA FlowPartsNext ==
  ASSUME Shape'
  PROVE  /\ LinkLoad' \in Nat /\ ExecLoad' \in {0, 1} /\ BusLoad' \in Nat
         /\ Unopened' \in Nat /\ \A t : CallLoad(t)' \in {0, 1}
         /\ Len(data_queue') \in Nat /\ SelectLoad' \in {0, 1}
         /\ MaxHellos - hellos' \in Nat
<1>1. LinkLoad' \in Nat
  BY LoadType DEF Shape, ServiceShape, LinkShape, LinkLoad
<1>2. BusLoad' \in Nat
  BY StirsSeq DEF Shape, ServiceShape, BusShape, BusLoad
<1>3. Unopened' \in Nat
  <2>1. IsFiniteSet({c \in Conns : session'[c] = "absent"})
    BY ServiceAssumption, FS_Subset
  <2> QED
    BY <2>1, FS_CardinalityType DEF Unopened, AbsentIn
<1>4. Len(data_queue') \in Nat /\ MaxHellos - hellos' \in Nat
  <2>1. data_queue' \in Seq(Devices)
    BY DEF Shape, ProgramShape
  <2>2. hellos' \in 0 .. MaxHellos
    BY DEF Shape, ProgramShape
  <2>3. Len(data_queue') \in Nat
    BY <2>1
  <2>4. MaxHellos - hellos' \in Nat
    <3>1. MaxHellos \in Nat
      BY ExchangeAssumption
    <3>2. \A n \in Nat : \A h \in 0 .. n : n - h \in Nat
      OBVIOUS
    <3> QED
      BY <2>2, <3>1, <3>2, Zenon
  <2> QED
    BY <2>3, <2>4
<1> QED
  BY <1>1, <1>2, <1>3, <1>4 DEF ExecLoad, CallLoad, SelectLoad

\* Where nothing grows, the flow does not.
LEMMA AllFall ==
  ASSUME Shape, Shape', LinkLoad' <= LinkLoad, ExecLoad' <= ExecLoad,
         BusLoad' <= BusLoad, Unopened' <= Unopened,
         \A t \in Callers : CallLoad(t)' <= CallLoad(t)
  PROVE  ServiceFlow' <= ServiceFlow
<1>1. CallLoad("cb")' <= CallLoad("cb") /\ CallLoad("main")' <= CallLoad("main")
  BY ExchangeAssumption
<1>2. /\ LinkLoad \in Nat /\ ExecLoad \in Nat /\ BusLoad \in Nat /\ Unopened \in Nat
      /\ CallLoad("cb") \in Nat /\ CallLoad("main") \in Nat
  BY FlowParts
<1>3. /\ LinkLoad' \in Nat /\ ExecLoad' \in Nat /\ BusLoad' \in Nat
      /\ Unopened' \in Nat /\ CallLoad("cb")' \in Nat /\ CallLoad("main")' \in Nat
  BY FlowPartsNext
<1> QED
  BY <1>1, <1>2, <1>3 DEF ServiceFlow

\* Fewer requests and messages on every connection.
LEMMA LinkFalls ==
  ASSUME Shape, Shape',
         \A c \in Conns : asked'[c] + arrived'[c] <= asked[c] + arrived[c]
  PROVE  LinkLoad' <= LinkLoad
<1>1. /\ asked \in [Conns -> Nat] /\ arrived \in [Conns -> Nat]
      /\ asked' \in [Conns -> Nat] /\ arrived' \in [Conns -> Nat]
  BY DEF Shape, ServiceShape, LinkShape
<1> DEFINE f == LoadOf(asked', arrived')
           h == LoadOf(asked, arrived)
<1>2. f \in [Conns -> Nat] /\ h \in [Conns -> Nat]
  BY <1>1, LoadType
<1>3. \A c \in Conns : f[c] <= h[c]
  BY DEF LoadOf
<1> HIDE DEF f, h
<1>4. Cardinality(Tokens(Conns, f)) <= Cardinality(Tokens(Conns, h))
  BY <1>2, <1>3, ServiceAssumption, TokensMore
<1> QED
  BY <1>4 DEF LinkLoad, f, h

\* What changes on one connection.
LEMMA LinkMoves ==
  ASSUME Shape, Shape', NEW c \in Conns,
         \A k \in Conns \ {c} : asked'[k] = asked[k] /\ arrived'[k] = arrived[k]
  PROVE  LinkLoad' - (asked'[c] + arrived'[c])
           = LinkLoad - (asked[c] + arrived[c])
<1>1. /\ asked \in [Conns -> Nat] /\ arrived \in [Conns -> Nat]
      /\ asked' \in [Conns -> Nat] /\ arrived' \in [Conns -> Nat]
  BY DEF Shape, ServiceShape, LinkShape
<1> DEFINE f == LoadOf(asked', arrived')
           h == LoadOf(asked, arrived)
<1>2. f \in [Conns -> Nat] /\ h \in [Conns -> Nat]
  BY <1>1, LoadType
<1>3. /\ \A k \in Conns \ {c} : f[k] = h[k]
      /\ f[c] = asked'[c] + arrived'[c] /\ h[c] = asked[c] + arrived[c]
  BY DEF LoadOf
<1> HIDE DEF f, h
<1>4. Cardinality(Tokens(Conns, f)) - f[c] = Cardinality(Tokens(Conns, h)) - h[c]
  <2>1. \A k \in Conns \ {c} : f[k] = h[k]
    BY <1>3
  <2>2. IsFiniteSet(Conns)
    BY ServiceAssumption
  <2> QED
    BY <1>2, <2>1, <2>2, TokensAdd
<1> QED
  BY <1>3, <1>4 DEF LinkLoad, f, h

\* No connection is opened for the first time.
LEMMA NoneOpened ==
  ASSUME \A c \in Conns : session'[c] = "absent" <=> session[c] = "absent"
  PROVE  Unopened' = Unopened
<1>1. {c \in Conns : session'[c] = "absent"} = {c \in Conns : session[c] = "absent"}
  OBVIOUS
<1> QED
  BY <1>1 DEF Unopened, AbsentIn

-----------------------------------------------------------------------------
(* The steps of the service.                                               *)

\* Connections are taken, or given up.
LEMMA FewerAbsent ==
  ASSUME Shape, \A c \in Conns : session'[c] = "absent" => session[c] = "absent"
  PROVE  Unopened' <= Unopened
<1>1. {c \in Conns : session'[c] = "absent"} \subseteq {c \in Conns : session[c] = "absent"}
  OBVIOUS
<1>2. IsFiniteSet({c \in Conns : session[c] = "absent"})
  BY ServiceAssumption, FS_Subset
<1> QED
  BY <1>1, <1>2, FS_Subset DEF Unopened, AbsentIn

\* Connections that lose their requests and messages.
LEMMA LinkEmpties ==
  ASSUME Shape, Shape',
         \A c \in Conns : /\ asked'[c] \in {0, asked[c]}
                          /\ arrived'[c] \in {0, arrived[c]}
  PROVE  LinkLoad' <= LinkLoad
<1>1. ASSUME NEW c \in Conns
      PROVE  asked'[c] + arrived'[c] <= asked[c] + arrived[c]
  <2>1. asked[c] \in Nat /\ arrived[c] \in Nat
    BY DEF Shape, ServiceShape, LinkShape
  <2>2. \A m, n \in Nat : \A k \in {0, m}, l \in {0, n} : k + l <= m + n
    OBVIOUS
  <2> QED
    BY <2>1, <2>2, Zenon
<1> QED
  BY <1>1, LinkFalls

\* All sockets are closed: the requests and messages are lost.
LEMMA EndsFlow ==
  ASSUME Shape, Shape', ConnectionsEnd, ExecLoad' <= ExecLoad, UNCHANGED bus,
         \A t \in Callers : CallLoad(t)' <= CallLoad(t)
  PROVE  ServiceFlow' <= ServiceFlow
<1>1. LinkLoad' <= LinkLoad
  BY LinkEmpties DEF ConnectionsEnd
<1>2. Unopened' <= Unopened
  BY FewerAbsent DEF ConnectionsEnd
<1>3. BusLoad' <= BusLoad
  <2>1. BusLoad' = BusLoad
    BY DEF BusLoad
  <2> QED
    BY <2>1, FlowParts
<1> QED
  BY <1>1, <1>2, <1>3, AllFall

\* The end of the process.
LEMMA ProcessEndsFlow ==
  ASSUME Shape, Shape', ProcessEnds
  PROVE  ServiceFlow' <= ServiceFlow
<1>1. ExecLoad' = 0
  BY RestingShape DEF ProcessEnds, ExecLoad
<1>2. ExecLoad' <= ExecLoad
  BY <1>1, FlowParts
<1>3. ASSUME NEW t \in Callers PROVE CallLoad(t)' <= CallLoad(t)
  <2>1. call' = call /\ (reply'[t] = reply[t] \/ reply'[t] = "error")
    BY DEF ProcessEnds
  <2> QED
    BY <2>1 DEF CallLoad, Unsent
<1> QED
  BY <1>2, <1>3, EndsFlow DEF ProcessEnds

\* The parts that a step leaves alone.
LEMMA SameParts ==
  ASSUME Shape
  PROVE  /\ UNCHANGED <<asked, arrived>> => LinkLoad' <= LinkLoad
         /\ UNCHANGED exec => ExecLoad' <= ExecLoad
         /\ UNCHANGED bus => BusLoad' <= BusLoad
         /\ UNCHANGED session => Unopened' <= Unopened
         /\ UNCHANGED <<call, reply>> => \A t \in Callers : CallLoad(t)' <= CallLoad(t)
<1>1. /\ LinkLoad <= LinkLoad /\ ExecLoad <= ExecLoad /\ BusLoad <= BusLoad
      /\ Unopened <= Unopened /\ \A t : CallLoad(t) <= CallLoad(t)
  <2>1. /\ LinkLoad \in Nat /\ ExecLoad \in Nat /\ BusLoad \in Nat
        /\ Unopened \in Nat /\ \A t : CallLoad(t) \in Nat
    BY FlowParts
  <2> QED
    BY <2>1
<1>2. UNCHANGED <<asked, arrived>> => LinkLoad' = LinkLoad
  BY DEF LinkLoad
<1>3. UNCHANGED exec => ExecLoad' = ExecLoad
  BY DEF ExecLoad
<1>4. UNCHANGED bus => BusLoad' = BusLoad
  BY DEF BusLoad
<1>5. UNCHANGED session => Unopened' = Unopened
  BY DEF Unopened
<1>6. UNCHANGED <<call, reply>> => \A t \in Callers : CallLoad(t)' = CallLoad(t)
  BY DEF CallLoad, Unsent
<1> QED
  BY <1>1, <1>2, <1>3, <1>4, <1>5, <1>6

\* A call that waits is answered, in the affirmative if it has gone out.
LEMMA AnswerFalls ==
  ASSUME Shape, NEW t \in Callers, reply[t] = "none", NEW ok, Answer(t, ok)
  PROVE  /\ \A u \in Callers : CallLoad(u)' <= CallLoad(u)
         /\ ok => CallLoad(t)' = 0
<1>1. /\ call' = call
      /\ reply' = [reply EXCEPT ![t] = IF ok THEN "true" ELSE "false"]
      /\ reply \in [Callers -> {"none", "true", "false", "error"}]
  BY DEF Answer, Shape, ServiceShape, BusShape
<1>2. ASSUME NEW u \in Callers PROVE Unsent(u)' => Unsent(u)
  <2>1. CASE u = t
    BY <2>1 DEF Unsent, Answer
  <2>2. CASE u # t
    BY <1>1, <2>2 DEF Unsent
  <2> QED
    BY <2>1, <2>2
<1>3. ok => reply'[t] = "true"
  BY <1>1
<1> QED
  BY <1>2, <1>3 DEF CallLoad, Unsent

\* The loop goes on with a call, or answers it.
LEMMA GoToFalls ==
  ASSUME Shape, NEW t \in Callers, reply[t] = "none", NEW rest, NEW ok,
         GoTo(t, rest, ok)
  PROVE  \A u \in Callers : CallLoad(u)' <= CallLoad(u)
<1>1. CASE rest = {}
  BY <1>1, AnswerFalls DEF GoTo
<1>2. CASE rest # {}
  BY <1>2, SameParts DEF GoTo
<1> QED
  BY <1>1, <1>2

\* A loss is noticed.
LEMMA NotifyFalls ==
  ASSUME Shape, NEW c \in Conns, Notify(c)
  PROVE  Unopened' <= Unopened
<1>1. session' = [session EXCEPT ![c] = "past"]
  BY DEF Notify, Contract!Withdraw
<1>2. \A k \in Conns : session'[k] = "absent" => session[k] = "absent"
  BY <1>1 DEF Shape, ServiceShape, LinkShape
<1> QED
  BY <1>2, FewerAbsent

\* A number is closed: what its connection has asked and sent is lost.
LEMMA CloseFdFalls ==
  ASSUME Shape, Shape', NEW n, CloseFd(n)
  PROVE  LinkLoad' <= LinkLoad /\ Unopened' <= Unopened
<1>1. \A c \in Conns : /\ asked'[c] \in {0, asked[c]}
                       /\ arrived'[c] \in {0, arrived[c]}
  BY DEF CloseFd
<1>2. UNCHANGED session
  BY DEF CloseFd
<1> QED
  BY <1>1, <1>2, LinkEmpties, SameParts

\* A connection is opened for the first time, and will be reported.
LEMMA ConnectFlow ==
  ASSUME Shape, Shape', NEW c \in Conns, NEW d, Connect(c, d)
  PROVE  ServiceFlow' <= ServiceFlow
<1>1. /\ exec = Resting /\ session[c] = "absent"
      /\ session' = [session EXCEPT ![c] = "present"]
      /\ exec' = Telling("CONNECT", d, c)
      /\ UNCHANGED <<asked, arrived, busVars>>
  BY DEF Connect, Contract!Announce
<1>2. Unopened' = Unopened - 1
  <2> DEFINE A == {k \in Conns : session[k] = "absent"}
  <2>1. {k \in Conns : session'[k] = "absent"} = A \ {c}
    BY <1>1 DEF Shape, ServiceShape, LinkShape
  <2>2. IsFiniteSet(A) /\ c \in A
    BY <1>1, ServiceAssumption, FS_Subset
  <2> HIDE DEF A
  <2>3. Cardinality(A \ {c}) = Cardinality(A) - 1
    BY <2>2, FS_RemoveElement
  <2> QED
    BY <2>1, <2>3 DEF Unopened, AbsentIn, A
<1>3. ExecLoad = 0 /\ ExecLoad' = 1
  BY <1>1, RestingShape DEF ExecLoad, Telling, Signal
<1>4. LinkLoad' = LinkLoad /\ BusLoad' = BusLoad
  BY <1>1 DEF LinkLoad, BusLoad, busVars
<1>5. CallLoad("cb")' = CallLoad("cb") /\ CallLoad("main")' = CallLoad("main")
  BY <1>1 DEF CallLoad, Unsent, busVars
<1>6. /\ LinkLoad \in Nat /\ BusLoad \in Nat /\ Unopened \in Nat
      /\ CallLoad("cb") \in Nat /\ CallLoad("main") \in Nat
  BY FlowParts
<1> QED
  BY <1>2, <1>3, <1>4, <1>5, <1>6 DEF ServiceFlow

\* A report is put on the bus, or nobody hears it.
LEMMA EmitFlow ==
  ASSUME Shape, NEW m \in Reports, emit(m)
  PROVE  BusLoad' <= BusLoad + (IF m.name \in Stirring THEN 1 ELSE 0)
<1>1. BusLoad \in Nat
  BY FlowParts
<1>2. bus \in Seq(Reports)
  BY DEF Shape, ServiceShape, BusShape
<1>3. CASE bus' = Append(bus, m)
  <2>1. Count(Stirs(bus'), 1) =
          Count(Stirs(bus), 1) + (IF m.name \in Stirring THEN 1 ELSE 0)
    BY <1>2, <1>3, StirsAppend
  <2> QED
    BY <1>1, <2>1 DEF BusLoad
<1>4. CASE bus' = bus
  BY <1>1, <1>4 DEF BusLoad
<1> QED
  BY <1>3, <1>4 DEF emit

\* A message leaves a connection for the bus.
LEMMA ReadFlow ==
  ASSUME Shape, Shape', NEW c \in Conns, Read(c)
  PROVE  ServiceFlow' <= ServiceFlow
<1>1. CASE ProcessEnds
  BY <1>1, ProcessEndsFlow
<1>2. CASE /\ emit(Signal("RECV", device[c]))
           /\ arrived' = [arrived EXCEPT ![c] = @ - 1]
           /\ UNCHANGED <<session, device, fd, client_infos, peer, asked,
                          serviceVars, call, reply, tcp_sbscr>>
  <2> DEFINE m == Signal("RECV", device[c])
  <2>1. m \in Reports /\ m.name = "RECV"
    BY DEF Read, Shape, ServiceShape, LinkShape, Signal, Reports, SignalType, Signals
  <2>2. BusLoad' <= BusLoad + 1
    <3> HIDE DEF m
    <3>1. emit(m)
      BY <1>2 DEF m
    <3> QED
      BY <2>1, <3>1, EmitFlow DEF Stirring
  <2>3. ExecLoad' = ExecLoad /\ Unopened' = Unopened
    BY <1>2 DEF ExecLoad, Unopened, serviceVars
  <2>4. CallLoad("cb")' = CallLoad("cb") /\ CallLoad("main")' = CallLoad("main")
    BY <1>2 DEF CallLoad, Unsent
  <2>5. LinkLoad' - (asked'[c] + arrived'[c]) = LinkLoad - (asked[c] + arrived[c])
    <3>1. \A k \in Conns \ {c} : asked'[k] = asked[k] /\ arrived'[k] = arrived[k]
      BY <1>2 DEF Shape, ServiceShape, LinkShape
    <3> QED
      BY <3>1, LinkMoves
  <2>6. /\ asked'[c] = asked[c] /\ asked[c] \in Nat
        /\ arrived'[c] = arrived[c] - 1 /\ arrived[c] \in Nat
    BY <1>2 DEF Shape, ServiceShape, LinkShape
  <2>7. /\ LinkLoad \in Nat /\ BusLoad \in Nat /\ Unopened \in Nat /\ ExecLoad \in Nat
        /\ CallLoad("cb") \in Nat /\ CallLoad("main") \in Nat
    BY FlowParts
  <2>8. LinkLoad' \in Nat /\ BusLoad' \in Nat
    BY FlowPartsNext
  <2>9. LinkLoad' = LinkLoad - 1
    BY <2>5, <2>6, <2>7, <2>8
  <2> QED
    BY <2>2, <2>3, <2>4, <2>7, <2>8, <2>9 DEF ServiceFlow
<1> QED
  BY <1>1, <1>2 DEF Read

\* The callback of the execute thread emits its report.
LEMMA TellFlow ==
  ASSUME Shape, Shape', Tell
  PROVE  ServiceFlow' <= ServiceFlow
<1>1. exec.signal \in Reports /\ exec.signal.name # "RECV" /\ exec.conn \in Conns
  BY DEF Tell, Shape, ServiceShape, ExecShape
<1>2. CASE ProcessEnds
  BY <1>2, ProcessEndsFlow
<1>3. CASE /\ emit(exec.signal)
           /\ exec' \in {Resting, Closing(exec.conn)}
           /\ UNCHANGED <<linkVars, svc, config, clients, loop, again, call,
                          reply, tcp_sbscr>>
  <2>1. BusLoad' <= BusLoad + ExecLoad
    BY <1>1, <1>3, EmitFlow DEF ExecLoad, Stirring
  <2>2. ExecLoad' = 0
    BY <1>1, <1>3, RestingShape, ClosingShape DEF ExecLoad
  <2>3. LinkLoad' = LinkLoad /\ Unopened' = Unopened
    BY <1>3 DEF LinkLoad, Unopened, linkVars
  <2>4. CallLoad("cb")' = CallLoad("cb") /\ CallLoad("main")' = CallLoad("main")
    BY <1>3 DEF CallLoad, Unsent
  <2>5. /\ LinkLoad \in Nat /\ BusLoad \in Nat /\ Unopened \in Nat
        /\ ExecLoad \in Nat
        /\ CallLoad("cb") \in Nat /\ CallLoad("main") \in Nat
    BY FlowParts
  <2>6. BusLoad' \in Nat
    BY FlowPartsNext
  <2> QED
    BY <2>1, <2>2, <2>3, <2>4, <2>5, <2>6 DEF ServiceFlow
<1> QED
  BY <1>2, <1>3 DEF Tell

\* The execute thread closes a number.
LEMMA CloseFlow ==
  ASSUME Shape, Shape', Close
  PROVE  ServiceFlow' <= ServiceFlow
<1>1. PICK c \in Conns : CloseFd(fd[c])
  BY DEF Close
<1>2. exec' = Resting /\ UNCHANGED <<bus, call, reply>>
  BY DEF Close, busVars
<1>3. LinkLoad' <= LinkLoad /\ Unopened' <= Unopened
  BY <1>1, CloseFdFalls
<1>4. ExecLoad' = 0
  BY <1>2, RestingShape DEF ExecLoad
<1>5. ExecLoad' <= ExecLoad
  BY <1>4, FlowParts
<1> QED
  BY <1>2, <1>3, <1>5, SameParts, AllFall

\* A request goes out with its answer: it moves from the call to the connection.
LEMMA SendOkFlow ==
  ASSUME Shape, Shape', NEW t \in Callers, CallPending(t), NEW c \in Conns, SendOk(t, c)
  PROVE  ServiceFlow' <= ServiceFlow
<1>1. /\ GoTo(t, Rest(t, c, client_infos), TRUE)
      /\ UNCHANGED <<session, arrived, exec, bus>>
      /\ reply[t] = "none" /\ call[t] # NoCall
  BY DEF SendOk, loopFrame, CallPending
<1>2. CASE asked' = asked
  <2>1. \A u \in Callers : CallLoad(u)' <= CallLoad(u)
    BY <1>1, GoToFalls
  <2> QED
    BY <1>1, <1>2, <2>1, SameParts, AllFall
<1>3. CASE call[t] # GreetAll /\ asked' = [asked EXCEPT ![c] = @ + 1]
  <2>1. Answer(t, TRUE)
    BY <1>1, <1>3 DEF GoTo, Rest
  <2>2. /\ \A u \in Callers : CallLoad(u)' <= CallLoad(u)
        /\ CallLoad(t)' = 0
    BY <1>1, <2>1, AnswerFalls
  <2>3. CallLoad(t) = 1
    <3>1. call[t] \in Calls
      BY DEF Shape, ServiceShape, BusShape
    <3>2. call[t].kind = "request"
      BY <1>1, <1>3, <3>1 DEF Calls, Ask
    <3> QED
      BY <1>1, <3>2 DEF CallLoad, Unsent
  <2>4. LinkLoad' - (asked'[c] + arrived'[c]) = LinkLoad - (asked[c] + arrived[c])
    <3>1. \A k \in Conns \ {c} : asked'[k] = asked[k] /\ arrived'[k] = arrived[k]
      BY <1>1, <1>3 DEF Shape, ServiceShape, LinkShape
    <3> QED
      BY <3>1, LinkMoves
  <2>5. /\ asked'[c] = asked[c] + 1 /\ asked[c] \in Nat
        /\ arrived'[c] = arrived[c] /\ arrived[c] \in Nat
    BY <1>1, <1>3 DEF Shape, ServiceShape, LinkShape
  <2>6. /\ LinkLoad \in Nat /\ BusLoad \in Nat /\ Unopened \in Nat
        /\ ExecLoad \in Nat
        /\ CallLoad("cb") \in Nat /\ CallLoad("main") \in Nat
    BY FlowParts
  <2>7. LinkLoad' \in Nat /\ CallLoad("cb")' \in Nat /\ CallLoad("main")' \in Nat
    BY FlowPartsNext
  <2>8. LinkLoad' = LinkLoad + 1
    BY <2>4, <2>5, <2>6, <2>7
  <2>9. CallLoad("cb")' + CallLoad("main")' <= CallLoad("cb") + CallLoad("main") - 1
    <3>1. /\ CallLoad("cb")' <= CallLoad("cb") /\ CallLoad("main")' <= CallLoad("main")
          /\ t \in {"cb", "main"}
      BY <2>2, ExchangeAssumption
    <3> QED
      BY <2>2, <2>3, <2>6, <2>7, <3>1
  <2>10. ExecLoad' = ExecLoad /\ BusLoad' = BusLoad /\ Unopened' = Unopened
    BY <1>1 DEF ExecLoad, BusLoad, Unopened
  <2> QED
    BY <2>6, <2>7, <2>8, <2>9, <2>10 DEF ServiceFlow
<1> QED
  BY <1>2, <1>3 DEF SendOk

\* A send that fails, or comes too late, leaves requests and messages alone.
LEMMA SendFailsFlow ==
  ASSUME Shape, Shape', NEW t \in Callers, CallPending(t), NEW c \in Conns,
         SendFails(t, c) \/ SendLate(t, c)
  PROVE  ServiceFlow' <= ServiceFlow
<1>1. UNCHANGED <<asked, arrived, exec, bus>>
  BY DEF SendFails, SendLate, linkVars, loopFrame, busVars
<1>2. Unopened' <= Unopened
  BY NotifyFalls, SameParts DEF SendFails, SendLate, linkVars
<1>3. \A u \in Callers : CallLoad(u)' <= CallLoad(u)
  <2>1. CASE SendFails(t, c)
    BY <2>1, SameParts DEF SendFails, busVars
  <2>2. CASE SendLate(t, c)
    BY <2>2, GoToFalls DEF SendLate, CallPending
  <2> QED
    BY <2>1, <2>2
<1> QED
  BY <1>1, <1>2, <1>3, SameParts, AllFall

\* The loop handles a call, and goes on with it.
LEMMA LoopFlow ==
  ASSUME Shape, Shape', CallsInv, LoopStep
  PROVE  ServiceFlow' <= ServiceFlow
<1>1. loop.pc # "idle" =>
        /\ loop.thread \in Callers /\ loop.conn \in Conns
        /\ CallPending(loop.thread) /\ reply[loop.thread] = "none"
  BY DEF CallsInv, LoopCalls, CallPending, Shape, ServiceShape, LoopShape
<1>2. ASSUME NEW t \in Callers, Handle(t) PROVE ServiceFlow' <= ServiceFlow
  <2>1. \A u \in Callers : CallLoad(u)' <= CallLoad(u)
    BY <1>2, GoToFalls DEF Handle, CallPending
  <2>2. UNCHANGED <<asked, arrived, session, exec, bus>>
    BY <1>2 DEF Handle, linkVars, loopFrame
  <2> QED
    BY <2>1, <2>2, SameParts, AllFall
<1>3. CASE Send
  <2>1. loop.pc # "idle"
    BY <1>3 DEF Send
  <2>2. \A c \in Receivers(loop.conn) : c \in Conns
    BY <1>1, <2>1, ReceiversShape DEF Shape
  <2> QED
    BY <1>1, <1>3, <2>1, <2>2, SendOkFlow, SendFailsFlow DEF Send
<1>4. CASE TellLoss
  <2> DEFINE m == Signal("DISCONNECT", loop.tell)
  <2>1. m \in Reports /\ m.name = "DISCONNECT"
    BY <1>4 DEF TellLoss, Signal, Reports, SignalType, Signals, Shape, ServiceShape,
               LoopShape
  <2>2. CASE ProcessEnds
    BY <2>2, ProcessEndsFlow
  <2>3. CASE emit(m) /\ UNCHANGED <<linkVars, loopFrame, call, reply>>
    <3> HIDE DEF m
    <3>1. BusLoad' <= BusLoad + 0
      BY <2>1, <2>3, EmitFlow DEF Stirring
    <3>2. BusLoad' <= BusLoad
      BY <3>1, FlowParts
    <3>3. UNCHANGED <<asked, arrived, session, exec, call, reply>>
      BY <2>3 DEF linkVars, loopFrame
    <3> QED
      BY <3>2, <3>3, SameParts, AllFall
  <2> QED
    BY <1>4, <2>2, <2>3 DEF TellLoss
<1>5. CASE CloseLate
  <2>1. /\ loop.pc # "idle" /\ CloseFd(fd[loop.conn]) /\ UNCHANGED <<exec, bus>>
        /\ \E rest, ok : GoTo(loop.thread, rest, ok)
    BY <1>5 DEF CloseLate, loopFrame
  <2>2. \A u \in Callers : CallLoad(u)' <= CallLoad(u)
    BY <1>1, <2>1, GoToFalls
  <2>3. LinkLoad' <= LinkLoad /\ Unopened' <= Unopened
    BY <2>1, CloseFdFalls
  <2> QED
    BY <2>1, <2>2, <2>3, SameParts, AllFall
<1> QED
  BY <1>2, <1>3, <1>4, <1>5 DEF LoopStep

\* A call is handled after the end.
LEMMA HandleLateFlow ==
  ASSUME Shape, Shape', NEW t \in Callers, HandleLate(t)
  PROVE  ServiceFlow' <= ServiceFlow
<1>1. CASE ProcessEnds
  BY <1>1, ProcessEndsFlow
<1>2. CASE /\ \E ok \in BOOLEAN : Answer(t, ok)
           /\ UNCHANGED <<linkVars, clients, again, loopFrame, bus, missed>>
  <2>1. \A u \in Callers : CallLoad(u)' <= CallLoad(u)
    BY <1>2, AnswerFalls DEF HandleLate, CallPending
  <2>2. UNCHANGED <<asked, arrived, session, exec, bus>>
    BY <1>2 DEF linkVars, loopFrame
  <2> QED
    BY <2>1, <2>2, SameParts, AllFall
<1> QED
  BY <1>1, <1>2 DEF HandleLate

\* main() of the service.
LEMMA MainFlow ==
  ASSUME Shape, Shape',
         \/ \E answer \in BusAnswers : Initialize(answer)
         \/ Execute \/ Quit \/ Kill \/ Crash
  PROVE  ServiceFlow' <= ServiceFlow
<1>1. CASE ProcessEnds
  BY <1>1, ProcessEndsFlow
<1>2. CASE UNCHANGED <<linkVars, exec, busVars>>
  BY <1>2, SameParts, AllFall DEF linkVars, busVars
<1>3. CASE ConnectionsEnd /\ UNCHANGED <<exec, call, reply, bus>>
  BY <1>3, SameParts, EndsFlow
<1> QED
  BY <1>1, <1>2, <1>3 DEF Initialize, Execute, Quit, Kill, Crash

\* A device goes away, and the pings find out.
LEMMA LeaveFlow ==
  ASSUME Shape, Shape', NEW c \in Conns, NEW how, Leave(c, how) \/ Detect(c)
  PROVE  ServiceFlow' <= ServiceFlow
<1>1. /\ asked' = [asked EXCEPT ![c] = 0] \/ asked' = asked
      /\ UNCHANGED <<arrived, session, exec, bus, call, reply>>
  BY DEF Leave, Detect, linkFrame, serviceVars, busVars
<1>2. \A k \in Conns : asked'[k] \in {0, asked[k]}
  BY <1>1 DEF Shape, ServiceShape, LinkShape
<1>3. LinkLoad' <= LinkLoad
  BY <1>1, <1>2, LinkEmpties
<1> QED
  BY <1>1, <1>3, SameParts, AllFall

\* The loss of a connection is noticed.
LEMMA LoseFlow ==
  ASSUME Shape, Shape', NEW c \in Conns, Lose(c)
  PROVE  ServiceFlow' <= ServiceFlow
<1>1. /\ Notify(c) /\ exec' = Telling("DISCONNECT", device[c], c)
      /\ UNCHANGED <<asked, arrived, bus, call, reply>>
  BY DEF Lose, busVars
<1>2. Unopened' <= Unopened
  BY <1>1, NotifyFalls
<1>3. ExecLoad' = 0
  BY <1>1 DEF ExecLoad, Telling, Signal
<1>4. ExecLoad' <= ExecLoad
  BY <1>3, FlowParts
<1> QED
  BY <1>1, <1>2, <1>4, SameParts, AllFall

\* No step of the service adds to what is under way or to come.
LEMMA ServiceNextFlow ==
  ASSUME Shape, Shape', CallsInv, ServiceNext
  PROVE  ServiceFlow' <= ServiceFlow
<1>1. CASE \/ \E answer \in BusAnswers : Initialize(answer)
           \/ Execute \/ Quit \/ Kill \/ Crash
  BY <1>1, MainFlow
<1>2. CASE \E c \in Conns : \E d \in MayOpen[c] : Connect(c, d)
  BY <1>2, ConnectFlow
<1>3. CASE \/ \E c \in Conns : Detect(c)
           \/ \E c \in Conns, how \in {"gone", "closed"} : Leave(c, how)
  BY <1>3, LeaveFlow
<1>4. CASE \E t \in Callers : HandleLate(t)
  BY <1>4, HandleLateFlow
<1>5. CASE ExecStep
  BY <1>5, LoseFlow, ReadFlow, TellFlow, CloseFlow DEF ExecStep
<1>6. CASE LoopStep
  BY <1>6, LoopFlow
<1> QED
  BY <1>1, <1>2, <1>3, <1>4, <1>5, <1>6 DEF ServiceNext

-----------------------------------------------------------------------------
(* The steps of the programs.                                              *)

\* The flow is a number.
LEMMA FlowType ==
  ASSUME Shape
  PROVE  /\ ServiceFlow \in Nat /\ Len(data_queue) \in Nat /\ SelectLoad \in Nat
         /\ MaxHellos - hellos \in Nat /\ Flow \in Nat
<1>1. /\ LinkLoad \in Nat /\ ExecLoad \in Nat /\ BusLoad \in Nat /\ Unopened \in Nat
      /\ CallLoad("cb") \in Nat /\ CallLoad("main") \in Nat
  BY FlowParts
<1>2. ServiceFlow \in Nat
  BY <1>1 DEF ServiceFlow
<1>3. Len(data_queue) \in Nat /\ SelectLoad \in Nat /\ MaxHellos - hellos \in Nat
  BY FlowParts
<1>4. Flow \in Nat
  BY <1>2, <1>3 DEF Flow
<1> QED
  BY <1>2, <1>3, <1>4

\* A signal is heard: one thing less to come, if it stirs.
LEMMA HearFlow ==
  ASSUME Shape, NEW name, Hear(name)
  PROVE  /\ ServiceFlow' = ServiceFlow - (IF name \in Stirring THEN 1 ELSE 0)
         /\ SelectLoad = 0 /\ hellos' = hellos
<1>1. /\ bus' = Tail(bus) /\ bus # <<>> /\ Head(bus).name = name /\ cb = "idle"
      /\ UNCHANGED <<asked, arrived, session, exec, call, reply, hellos>>
  BY DEF Hear, linkVars, serviceVars
<1>2. BusLoad = BusLoad' + (IF name \in Stirring THEN 1 ELSE 0)
  <2>1. bus \in Seq(Reports)
    BY DEF Shape, ServiceShape, BusShape
  <2> QED
    BY <1>1, <2>1, StirsTail DEF BusLoad
<1>3. BusLoad' \in Nat
  <2>1. bus' \in Seq(Reports)
    BY <1>1 DEF Shape, ServiceShape, BusShape
  <2>2. Count(Stirs(bus'), 1) \in Nat
    BY <2>1, StirsSeq
  <2> QED
    BY <2>2 DEF BusLoad
<1>4. LinkLoad' = LinkLoad /\ ExecLoad' = ExecLoad /\ Unopened' = Unopened
  BY <1>1 DEF LinkLoad, ExecLoad, Unopened
<1>5. CallLoad("cb")' = CallLoad("cb") /\ CallLoad("main")' = CallLoad("main")
  BY <1>1 DEF CallLoad, Unsent
<1>6. /\ LinkLoad \in Nat /\ ExecLoad \in Nat /\ Unopened \in Nat
      /\ CallLoad("cb") \in Nat /\ CallLoad("main") \in Nat
  BY FlowParts
<1>7. ServiceFlow' = ServiceFlow - (IF name \in Stirring THEN 1 ELSE 0)
  BY <1>2, <1>3, <1>4, <1>5, <1>6 DEF ServiceFlow
<1> QED
  BY <1>1, <1>7 DEF SelectLoad

\* A thread calls, or takes its answer: only its own part changes.
LEMMA CallFlow ==
  ASSUME Shape, NEW t \in Callers, NEW what,
         \/ tcp_dbus_send_msg(t, what)
         \/ what = NoCall /\ Return(t)
  PROVE  ServiceFlow' = ServiceFlow - CallLoad(t)
                          + (IF what.kind = "request" THEN 1 ELSE 0)
<1>1. /\ call' = [call EXCEPT ![t] = what] /\ reply' = [reply EXCEPT ![t] = "none"]
      /\ UNCHANGED <<asked, arrived, session, exec, bus>>
  BY DEF tcp_dbus_send_msg, Return, linkVars, serviceVars
<1>2. LinkLoad' = LinkLoad /\ ExecLoad' = ExecLoad /\ Unopened' = Unopened
      /\ BusLoad' = BusLoad
  BY <1>1 DEF LinkLoad, ExecLoad, Unopened, BusLoad
<1>3. call'[t] = what /\ reply'[t] = "none"
  BY <1>1 DEF Shape, ServiceShape, BusShape
<1>4. CallLoad(t)' = IF what.kind = "request" THEN 1 ELSE 0
  BY <1>3 DEF CallLoad, Unsent
<1>5. \A u \in Callers : u # t => CallLoad(u)' = CallLoad(u)
  <2> SUFFICES ASSUME NEW u \in Callers, u # t PROVE CallLoad(u)' = CallLoad(u)
    OBVIOUS
  <2>1. call'[u] = call[u] /\ reply'[u] = reply[u]
    BY <1>1 DEF Shape, ServiceShape, BusShape
  <2> QED
    BY <2>1 DEF CallLoad, Unsent
<1>6. /\ LinkLoad \in Nat /\ ExecLoad \in Nat /\ Unopened \in Nat /\ BusLoad \in Nat
      /\ CallLoad("cb") \in Nat /\ CallLoad("main") \in Nat
  BY FlowParts
<1>7. CASE t = "cb"
  <2>1. CallLoad("main")' = CallLoad("main")
    BY <1>5, <1>7, ExchangeAssumption
  <2>2. CallLoad("cb")' = IF what.kind = "request" THEN 1 ELSE 0
    BY <1>4, <1>7
  <2>3. ServiceFlow' = ServiceFlow - CallLoad("cb")
                          + (IF what.kind = "request" THEN 1 ELSE 0)
    BY <1>2, <1>6, <2>1, <2>2 DEF ServiceFlow
  <2> QED
    BY <1>7, <2>3
<1>8. CASE t = "main"
  <2>1. CallLoad("cb")' = CallLoad("cb")
    BY <1>5, <1>8, ExchangeAssumption
  <2>2. CallLoad("main")' = IF what.kind = "request" THEN 1 ELSE 0
    BY <1>4, <1>8
  <2>3. ServiceFlow' = ServiceFlow - CallLoad("main")
                          + (IF what.kind = "request" THEN 1 ELSE 0)
    BY <1>2, <1>6, <2>1, <2>2 DEF ServiceFlow
  <2> QED
    BY <1>8, <2>3
<1> QED
  BY <1>7, <1>8, ExchangeAssumption

\* What a thread without a call can have unsent: nothing.
LEMMA NoCallLoad ==
  ASSUME NEW t, call[t] = NoCall
  PROVE  CallLoad(t) = 0
BY DEF CallLoad, Unsent, NoCall

\* Nothing of the service changes.
LEMMA QuietFlow ==
  ASSUME UNCHANGED <<asked, arrived, session, exec, bus, call, reply>>
  PROVE  ServiceFlow' = ServiceFlow
BY DEF ServiceFlow, LinkLoad, ExecLoad, BusLoad, Unopened, CallLoad, Unsent

\* The callbacks.
LEMMA CallbackFlow ==
  ASSUME Shape, CallsInv, main # "ended", Callback
  PROVE  Flow' <= Flow
<1> USE FlowType
<1>1. CASE \E s \in Strings : OnConnect(s)
  <2>1. Hear("CONNECT") /\ cb' = "select" /\ data_queue' = data_queue
    BY <1>1 DEF OnConnect
  <2>2. SelectLoad' = 1
    BY <2>1 DEF SelectLoad
  <2>3. ServiceFlow' = ServiceFlow - 1 /\ SelectLoad = 0 /\ hellos' = hellos
    BY <2>1, HearFlow DEF Stirring
  <2> QED
    BY <2>1, <2>2, <2>3 DEF Flow
<1>2. CASE SelectClient
  <2>1. /\ cb = "select" /\ cb' = "request" /\ UNCHANGED <<data_queue, hellos>>
        /\ tcp_dbus_send_msg("cb", Ask(text[_connected_clients[1]]))
    BY <1>2 DEF SelectClient
  <2>2. SelectLoad = 1 /\ SelectLoad' = 0
    BY <2>1 DEF SelectLoad
  <2>3. CallLoad("cb") = 0
    BY <2>1, NoCallLoad DEF CallsInv, ProgramCalls
  <2>4. ServiceFlow' = ServiceFlow - CallLoad("cb") + 1
    <3> DEFINE what == Ask(text[_connected_clients[1]])
    <3>1. what.kind = "request"
      BY DEF Ask
    <3> HIDE DEF what
    <3>2. tcp_dbus_send_msg("cb", what)
      BY <2>1 DEF what
    <3> QED
      BY <3>1, <3>2, CallFlow, ExchangeAssumption
  <2> QED
    BY <2>1, <2>2, <2>3, <2>4 DEF Flow
<1>3. CASE Greet
  <2>1. /\ tcp_dbus_send_msg("cb", GreetAll) /\ cb' = "greet"
        /\ UNCHANGED <<data_queue, hellos>>
    BY <1>3 DEF Greet
  <2>2. ServiceFlow' = ServiceFlow - CallLoad("cb") + 0
    BY <2>1, CallFlow, ExchangeAssumption DEF GreetAll
  <2>3. SelectLoad' = 0 /\ CallLoad("cb") \in Nat
    BY <2>1, FlowParts DEF SelectLoad
  <2> QED
    BY <2>1, <2>2, <2>3 DEF Flow
<1>4. CASE Greeted
  <2>1. Return("cb") /\ cb' = "idle" /\ UNCHANGED <<data_queue, hellos>>
    BY <1>4 DEF Greeted
  <2>2. ServiceFlow' = ServiceFlow - CallLoad("cb") + 0
    <3>1. NoCall.kind # "request"
      BY DEF NoCall
    <3>2. "cb" \in Callers
      BY ExchangeAssumption
    <3>3. ServiceFlow' = ServiceFlow - CallLoad("cb")
                          + (IF NoCall.kind = "request" THEN 1 ELSE 0)
      BY <2>1, <3>2, CallFlow
    <3> QED
      BY <3>1, <3>3
  <2>3. SelectLoad' = 0 /\ CallLoad("cb") \in Nat
    BY <2>1, FlowParts DEF SelectLoad
  <2> QED
    BY <2>1, <2>2, <2>3 DEF Flow
<1>5. CASE OnDisconnect
  <2>1. Hear("DISCONNECT") /\ cb' = "deselect" /\ data_queue' = data_queue
    BY <1>5 DEF OnDisconnect
  <2>2. ServiceFlow' = ServiceFlow - 0 /\ hellos' = hellos
    BY <2>1, HearFlow DEF Stirring
  <2>3. SelectLoad' = 0
    BY <2>1 DEF SelectLoad
  <2> QED
    BY <2>1, <2>2, <2>3 DEF Flow
<1>6. CASE Deselect
  <2>1. cb' = "idle" /\ UNCHANGED <<serverVars, hellos, data_queue>>
    BY <1>6 DEF Deselect
  <2>2. ServiceFlow' = ServiceFlow
    BY <2>1, QuietFlow DEF serverVars, linkVars, serviceVars, busVars
  <2>3. SelectLoad' = 0
    BY <2>1 DEF SelectLoad
  <2> QED
    BY <2>1, <2>2, <2>3 DEF Flow
<1>7. CASE OnData
  <2>1. Hear("RECV") /\ data_queue' = Append(data_queue, Head(bus).uuid) /\ cb' = cb
    BY <1>7 DEF OnData
  <2>2. ServiceFlow' = ServiceFlow - 1 /\ SelectLoad = 0 /\ hellos' = hellos
    BY <2>1, HearFlow DEF Stirring
  <2>3. SelectLoad' = SelectLoad
    BY <2>1 DEF SelectLoad
  <2>4. Len(data_queue') = Len(data_queue) + 1
    <3>1. Head(bus).uuid \in Devices
      BY <2>1, HearShape DEF Signals
    <3>2. data_queue \in Seq(Devices)
      BY DEF Shape, ProgramShape
    <3> QED
      BY <2>1, <3>1, <3>2
  <2> QED
    BY <2>2, <2>3, <2>4 DEF Flow
<1> QED
  BY <1>1, <1>2, <1>3, <1>4, <1>5, <1>6, <1>7 DEF Callback

\* main(): what it takes from its queue leads to one request at most.
LEMMA MainLoopFlow ==
  ASSUME Shape, CallsInv, MainLoop
  PROVE  Flow' <= Flow
<1> USE FlowType
<1>1. ASSUME data_queue # <<>>, data_queue' = Tail(data_queue)
      PROVE  Len(data_queue') = Len(data_queue) - 1
  <2>1. data_queue \in Seq(Devices)
    BY DEF Shape, ProgramShape
  <2>2. Len(Tail(data_queue)) = Len(data_queue) - 1
    BY <1>1, <2>1
  <2> QED
    BY <1>1, <2>2
<1>2. CASE Process
  <2>1. /\ main = "idle" /\ data_queue # <<>> /\ data_queue' = Tail(data_queue)
        /\ tcp_dbus_send_msg("main", Ask(msg')) /\ UNCHANGED callbackFrame
    BY <1>2 DEF Process
  <2>2. CallLoad("main") = 0
    BY <2>1, NoCallLoad DEF CallsInv, ProgramCalls
  <2>3. ServiceFlow' = ServiceFlow - CallLoad("main") + 1
    <3> DEFINE what == Ask(msg')
    <3>1. what.kind = "request"
      BY DEF Ask
    <3>2. tcp_dbus_send_msg("main", what)
      BY <2>1
    <3> HIDE DEF what
    <3> QED
      BY <3>1, <3>2, CallFlow, ExchangeAssumption
  <2>4. SelectLoad' = SelectLoad /\ hellos' = hellos
    BY <2>1 DEF SelectLoad, callbackFrame
  <2>5. Len(data_queue') = Len(data_queue) - 1
    BY <1>1, <2>1
  <2> QED
    BY <2>2, <2>3, <2>4, <2>5 DEF Flow
<1>3. CASE Ignore
  <2>1. /\ data_queue # <<>> /\ data_queue' = Tail(data_queue)
        /\ UNCHANGED <<serverVars, callbackFrame>>
    BY <1>3 DEF Ignore
  <2>2. ServiceFlow' = ServiceFlow
    BY <2>1, QuietFlow DEF serverVars, linkVars, serviceVars, busVars
  <2>3. SelectLoad' = SelectLoad /\ hellos' = hellos
    BY <2>1 DEF SelectLoad, callbackFrame
  <2>4. Len(data_queue') = Len(data_queue) - 1
    BY <1>1, <2>1
  <2> QED
    BY <2>2, <2>3, <2>4 DEF Flow
<1>4. CASE Retry
  <2>1. /\ main = "request" /\ reply["main"] = "false"
        /\ tcp_dbus_send_msg("main", Ask(msg))
        /\ UNCHANGED <<callbackFrame, data_queue>>
    BY <1>4 DEF Retry, Failed
  <2>2. CallLoad("main") = 1
    BY <2>1 DEF CallsInv, ProgramCalls, CallLoad, Unsent
  <2>3. ServiceFlow' = ServiceFlow - CallLoad("main") + 1
    <3> DEFINE what == Ask(msg)
    <3>1. what.kind = "request"
      BY DEF Ask
    <3>2. tcp_dbus_send_msg("main", what)
      BY <2>1
    <3> HIDE DEF what
    <3> QED
      BY <3>1, <3>2, CallFlow, ExchangeAssumption
  <2>4. SelectLoad' = SelectLoad /\ hellos' = hellos
    BY <2>1 DEF SelectLoad, callbackFrame
  <2> QED
    BY <2>1, <2>2, <2>3, <2>4 DEF Flow
<1>5. CASE Done
  <2>1. Return("main") /\ UNCHANGED <<callbackFrame, data_queue>>
    BY <1>5 DEF Done
  <2>2. ServiceFlow' = ServiceFlow - CallLoad("main") + 0
    <3>1. NoCall.kind # "request"
      BY DEF NoCall
    <3>2. "main" \in Callers
      BY ExchangeAssumption
    <3>3. ServiceFlow' = ServiceFlow - CallLoad("main")
                          + (IF NoCall.kind = "request" THEN 1 ELSE 0)
      BY <2>1, <3>2, CallFlow
    <3> QED
      BY <3>1, <3>3
  <2>3. SelectLoad' = SelectLoad /\ hellos' = hellos
    BY <2>1 DEF SelectLoad, callbackFrame
  <2>4. CallLoad("main") \in Nat
    BY FlowParts
  <2> QED
    BY <2>1, <2>2, <2>3, <2>4 DEF Flow
<1> QED
  BY <1>2, <1>3, <1>4, <1>5 DEF MainLoop

\* The start of main(), and its end.
LEMMA StartFlow ==
  ASSUME Shape, InitClient \/ SubscribeAll \/ CallFails
  PROVE  Flow' <= Flow
<1> USE FlowType
<1>1. CASE ProgramEnds
  <2>1. UNCHANGED <<serverVars, hellos>> /\ data_queue' = <<>> /\ cb' = "idle"
    BY <1>1 DEF ProgramEnds
  <2>2. ServiceFlow' = ServiceFlow
    BY <2>1, QuietFlow DEF serverVars, linkVars, serviceVars, busVars
  <2>3. SelectLoad' = 0 /\ Len(data_queue') = 0
    BY <2>1 DEF SelectLoad
  <2> QED
    BY <2>1, <2>2, <2>3 DEF Flow
<1>2. CASE UNCHANGED <<linkVars, serviceVars, call, reply, bus, callbackFrame,
                       data_queue>>
  <2>1. ServiceFlow' = ServiceFlow
    BY <1>2, QuietFlow DEF linkVars, serviceVars
  <2>2. SelectLoad' = SelectLoad /\ hellos' = hellos /\ data_queue' = data_queue
    BY <1>2 DEF SelectLoad, callbackFrame
  <2> QED
    BY <2>1, <2>2 DEF Flow
<1> QED
  BY <1>1, <1>2 DEF InitClient, SubscribeAll, Subscribe, CallFails, serverVars, busVars

\* A device sends: a request becomes a message, and what starts its program
\* again is counted.
LEMMA DeviceFlow ==
  ASSUME Shape, Shape', NEW c \in Conns, NEW n \in Nat, n <= asked[c],
         DeviceSends(c, n)
  PROVE  ServiceFlow' = ServiceFlow + 1 - n
<1>1. /\ asked' = [asked EXCEPT ![c] = @ - n]
      /\ arrived' = [arrived EXCEPT ![c] = @ + 1]
      /\ UNCHANGED <<session, exec, bus, call, reply>>
  BY DEF DeviceSends, linkFrame, serviceVars, busVars
<1>2. LinkLoad' - (asked'[c] + arrived'[c]) = LinkLoad - (asked[c] + arrived[c])
  <2>1. \A k \in Conns \ {c} : asked'[k] = asked[k] /\ arrived'[k] = arrived[k]
    BY <1>1 DEF Shape, ServiceShape, LinkShape
  <2> QED
    BY <2>1, LinkMoves
<1>3. /\ asked'[c] = asked[c] - n /\ asked[c] \in Nat
      /\ arrived'[c] = arrived[c] + 1 /\ arrived[c] \in Nat
  BY <1>1 DEF Shape, ServiceShape, LinkShape
<1>4. LinkLoad' = LinkLoad + 1 - n
  <2>1. LinkLoad \in Nat /\ LinkLoad' \in Nat
    BY FlowParts, FlowPartsNext
  <2> QED
    BY <1>2, <1>3, <2>1
<1>5. /\ ExecLoad' = ExecLoad /\ BusLoad' = BusLoad /\ Unopened' = Unopened
      /\ CallLoad("cb")' = CallLoad("cb") /\ CallLoad("main")' = CallLoad("main")
  BY <1>1 DEF ExecLoad, BusLoad, Unopened, CallLoad, Unsent
<1>6. /\ LinkLoad \in Nat /\ BusLoad \in Nat /\ Unopened \in Nat
      /\ ExecLoad \in Nat
      /\ CallLoad("cb") \in Nat /\ CallLoad("main") \in Nat
  BY FlowParts
<1> QED
  BY <1>4, <1>5, <1>6 DEF ServiceFlow

\* No step adds to what is under way or to come.
LEMMA NextFlow ==
  ASSUME Shape, Shape', CallsInv, Next
  PROVE  Flow' <= Flow
<1> USE FlowType
<1>1. CASE ServiceNext /\ UNCHANGED <<hellos, programVars>>
  <2>1. ServiceFlow' <= ServiceFlow
    BY <1>1, ServiceNextFlow
  <2>2. SelectLoad' = SelectLoad /\ hellos' = hellos /\ data_queue' = data_queue
    BY <1>1 DEF SelectLoad, programVars
  <2>3. ServiceFlow' \in Nat
    <3>1. /\ LinkLoad' \in Nat /\ ExecLoad' \in Nat /\ BusLoad' \in Nat
          /\ Unopened' \in Nat /\ CallLoad("cb")' \in Nat /\ CallLoad("main")' \in Nat
      BY FlowPartsNext
    <3> QED
      BY <3>1 DEF ServiceFlow
  <2> QED
    BY <2>1, <2>2, <2>3 DEF Flow
<1>2. ASSUME NEW c \in Conns, GiveData(c) PROVE Flow' <= Flow
  <2>1. DeviceSends(c, 1) /\ 1 <= asked[c] /\ UNCHANGED <<hellos, programVars>>
    <3>1. asked[c] \in Nat
      BY DEF Shape, ServiceShape, LinkShape
    <3> QED
      BY <1>2, <3>1 DEF GiveData
  <2>2. ServiceFlow' = ServiceFlow + 1 - 1
    BY <2>1, DeviceFlow
  <2>3. SelectLoad' = SelectLoad /\ hellos' = hellos /\ data_queue' = data_queue
    BY <2>1 DEF SelectLoad, programVars
  <2> QED
    BY <2>2, <2>3 DEF Flow
<1>3. ASSUME NEW c \in Conns, SayHi(c) PROVE Flow' <= Flow
  <2>1. /\ DeviceSends(c, asked[c]) /\ hellos' = hellos + 1
        /\ UNCHANGED programVars
    BY <1>3 DEF SayHi
  <2>2. asked[c] \in Nat /\ asked[c] <= asked[c]
    BY DEF Shape, ServiceShape, LinkShape
  <2>3. ServiceFlow' = ServiceFlow + 1 - asked[c]
    BY <2>1, <2>2, DeviceFlow
  <2>4. SelectLoad' = SelectLoad /\ data_queue' = data_queue
    BY <2>1 DEF SelectLoad, programVars
  <2>5. MaxHellos - hellos' = (MaxHellos - hellos) - 1
    <3>1. hellos \in Nat /\ MaxHellos \in Nat
      BY ExchangeAssumption DEF Shape, ProgramShape
    <3> QED
      BY <2>1, <3>1
  <2> DEFINE a == asked[c]
             f == ServiceFlow
             r == MaxHellos - hellos
             k == Len(data_queue)
             l == SelectLoad
  <2>6. a \in Nat /\ f \in Nat /\ r \in Nat /\ k \in Nat /\ l \in Nat
    BY <2>2, FlowType
  <2>7. Flow = f + k + l + r /\ Flow' = (f + 1 - a) + k + l + (r - 1)
    BY <2>3, <2>4, <2>5 DEF Flow
  <2> HIDE DEF a, f, r, k, l
  <2> QED
    BY <2>6, <2>7
<1> QED
  BY <1>1, <1>2, <1>3, CallbackFlow, MainLoopFlow, StartFlow DEF Next

-----------------------------------------------------------------------------
(* The calls.                                                              *)

\* On to the next client of a call that waits, or its answer.
LEMMA GoToCalls ==
  ASSUME NEW t \in Callers, CallPending(t), NEW rest, NEW ok,
         GoTo(t, rest, ok) \/ Answer(t, ok)
  PROVE  call' = call /\ LoopCalls'
<1>1. CASE Answer(t, ok)
  BY <1>1, LoopIdleShape DEF Answer, LoopCalls
<1>2. CASE /\ loop' = Loop("send", t, Min(rest), NoDevice)
           /\ UNCHANGED <<call, reply, tcp_sbscr>>
  BY <1>2 DEF Loop, LoopCalls, CallPending
<1> QED
  BY <1>1, <1>2 DEF GoTo

\* The loop and the calls are left alone, or the process ends.
LEMMA OtherCalls ==
  ASSUME CallsInv, ProcessEnds \/ UNCHANGED <<loop, call, reply>>
  PROVE  call' = call /\ LoopCalls'
<1>1. CASE ProcessEnds
  BY <1>1, LoopIdleShape DEF ProcessEnds, LoopCalls
<1>2. CASE UNCHANGED <<loop, call, reply>>
  BY <1>2 DEF LoopCalls, CallPending, CallsInv
<1> QED
  BY <1>1, <1>2

\* A step of the loop for the call it works for.
LEMMA LoopKeepsCalls ==
  ASSUME Shape, CallsInv, Send \/ TellLoss \/ CloseLate
  PROVE  call' = call /\ LoopCalls'
<1> DEFINE t == loop.thread
<1>1. t \in Callers /\ CallPending(t)
  BY DEF Send, TellLoss, CloseLate, CallsInv, LoopCalls, Shape, ServiceShape, LoopShape
<1>2. CASE \E rest, ok : GoTo(t, rest, ok)
  BY <1>1, <1>2, GoToCalls
<1>3. CASE ProcessEnds
  BY <1>3, OtherCalls
<1>4. CASE /\ \E pc, c, d : loop' = Loop(pc, t, c, d)
           /\ UNCHANGED <<call, reply>>
  BY <1>1, <1>4 DEF Loop, LoopCalls, CallPending
<1>5. CASE Send
  BY <1>2, <1>4, <1>5 DEF Send, SendOk, SendFails, SendLate, busVars
<1>6. CASE TellLoss
  BY <1>3, <1>4, <1>6 DEF TellLoss
<1>7. CASE CloseLate
  BY <1>2, <1>7 DEF CloseLate
<1> QED
  BY <1>5, <1>6, <1>7

\* The service answers calls that wait, and makes none.
LEMMA ServiceCalls ==
  ASSUME Shape, CallsInv, ServiceNext
  PROVE  call' = call /\ LoopCalls'
<1>1. CASE \/ \E answer \in BusAnswers : Initialize(answer)
           \/ Execute \/ Quit \/ Kill \/ Crash
  BY <1>1, OtherCalls DEF Initialize, Execute, Quit, Kill, Crash, busVars
<1>2. CASE \/ \E c \in Conns : \E d \in MayOpen[c] : Connect(c, d)
           \/ \E c \in Conns : Detect(c)
           \/ \E c \in Conns, how \in {"gone", "closed"} : Leave(c, how)
  BY <1>2, OtherCalls DEF Connect, Detect, Leave, linkFrame, serviceVars, busVars
<1>3. CASE ExecStep
  BY <1>3, OtherCalls DEF ExecStep, Lose, Read, Tell, Close, serviceVars, busVars
<1>4. ASSUME NEW t \in Callers, HandleLate(t) PROVE call' = call /\ LoopCalls'
  <2>1. CASE ProcessEnds
    BY <2>1, OtherCalls
  <2>2. CASE \E ok \in BOOLEAN : Answer(t, ok)
    BY <1>4, <2>2, GoToCalls DEF HandleLate
  <2> QED
    BY <1>4, <2>1, <2>2 DEF HandleLate
<1>5. ASSUME NEW t \in Callers, Handle(t) PROVE call' = call /\ LoopCalls'
  BY <1>5, GoToCalls DEF Handle
<1>6. CASE Send \/ TellLoss \/ CloseLate
  BY <1>6, LoopKeepsCalls
<1> QED
  BY <1>1, <1>2, <1>3, <1>4, <1>5, <1>6 DEF ServiceNext, LoopStep

\* A thread that does not wait calls, or takes its answer: the loop is not at
\* work for it.
LEMMA CallKeeps ==
  ASSUME Shape, CallsInv, NEW t \in Callers, ~CallPending(t), NEW what,
         \/ tcp_dbus_send_msg(t, what)
         \/ what = NoCall /\ Return(t)
  PROVE  /\ LoopCalls' /\ call'[t] = what
         /\ \A u \in Callers : u # t => call'[u] = call[u]
<1>1. /\ call' = [call EXCEPT ![t] = what] /\ reply' = [reply EXCEPT ![t] = "none"]
      /\ loop' = loop
  BY DEF tcp_dbus_send_msg, Return, serviceVars
<1>2. /\ call'[t] = what
      /\ \A u \in Callers : u # t => call'[u] = call[u] /\ reply'[u] = reply[u]
  BY <1>1 DEF Shape, ServiceShape, BusShape
<1>3. LoopCalls'
  BY <1>1, <1>2 DEF LoopCalls, CallPending, CallsInv
<1> QED
  BY <1>2, <1>3

\* The calls stay as described.
LEMMA NextCalls ==
  ASSUME Shape, CallsInv, Next
  PROVE  CallsInv'
<1> USE DEF CallsInv
<1>0. /\ "cb" \in Callers /\ "main" \in Callers /\ NoCall.kind # "request"
      /\ main # "ended"
  BY ExchangeAssumption DEF NoCall, Next
<1>1. CASE ServiceNext /\ UNCHANGED <<hellos, programVars>>
  BY <1>1, ServiceCalls DEF ProgramCalls, programVars
<1>2. CASE \E c \in Conns : GiveData(c) \/ SayHi(c)
  BY <1>2, OtherCalls DEF GiveData, SayHi, DeviceSends, linkFrame, serviceVars,
     busVars, programVars, ProgramCalls
<1>3. CASE \E s \in Strings : OnConnect(s)
  BY <1>3, OtherCalls DEF OnConnect, Hear, serviceVars, ProgramCalls
<1>4. CASE SelectClient
  <2>1. /\ cb = "select" /\ cb' = "request" /\ main' = main
        /\ \E what : tcp_dbus_send_msg("cb", what)
    BY <1>4 DEF SelectClient
  <2>2. ~CallPending("cb")
    BY <1>0, <2>1 DEF ProgramCalls, CallPending
  <2>3. LoopCalls' /\ call'["main"] = call["main"]
    BY <1>0, <2>1, <2>2, CallKeeps
  <2> QED
    BY <2>1, <2>3 DEF ProgramCalls
<1>5. CASE Greet
  <2>1. /\ cb' = "greet" /\ main' = main /\ tcp_dbus_send_msg("cb", GreetAll)
        /\ cb = "select" \/ reply["cb"] # "none"
    BY <1>5 DEF Greet, Answered, Succeeded, Failed
  <2>2. ~CallPending("cb")
    BY <1>0, <2>1 DEF ProgramCalls, CallPending
  <2>3. LoopCalls' /\ call'["main"] = call["main"]
    BY <1>0, <2>1, <2>2, CallKeeps
  <2> QED
    BY <2>1, <2>3 DEF ProgramCalls
<1>6. CASE Greeted
  <2>1. main' = main /\ Return("cb") /\ reply["cb"] # "none"
    BY <1>6 DEF Greeted, Answered, Succeeded, Failed
  <2>2. ~CallPending("cb")
    BY <2>1 DEF CallPending
  <2>3. /\ LoopCalls' /\ call'["cb"] = NoCall
        /\ call'["main"] = call["main"]
    BY <1>0, <2>1, <2>2, CallKeeps
  <2> QED
    BY <2>1, <2>3 DEF ProgramCalls
<1>7. CASE OnDisconnect \/ OnData
  BY <1>7, OtherCalls DEF OnDisconnect, OnData, Hear, serviceVars, ProgramCalls
<1>8. CASE Deselect
  BY <1>8, OtherCalls DEF Deselect, serverVars, serviceVars, busVars, ProgramCalls
<1>9. CASE InitClient \/ Ignore
  BY <1>9, OtherCalls DEF InitClient, Ignore, serverVars, serviceVars, busVars,
     callbackFrame, ProgramCalls
<1>10. CASE ProgramEnds
  BY <1>10, OtherCalls DEF ProgramEnds, serverVars, serviceVars, busVars, ProgramCalls
<1>11. CASE SubscribeAll
  BY <1>10, <1>11, OtherCalls DEF SubscribeAll, Subscribe, serviceVars,
     callbackFrame, ProgramCalls
<1>12. CASE Process
  <2> DEFINE what == Ask(msg')
  <2>1. /\ main = "idle" /\ main' = "request" /\ cb' = cb
        /\ tcp_dbus_send_msg("main", what)
    BY <1>12 DEF Process, callbackFrame
  <2>2. what.kind = "request"
    BY DEF Ask
  <2> HIDE DEF what
  <2>3. ~CallPending("main")
    BY <1>0, <2>1 DEF ProgramCalls, CallPending
  <2>4. /\ LoopCalls' /\ call'["main"] = what
        /\ call'["cb"] = call["cb"]
    BY <1>0, <2>1, <2>3, CallKeeps
  <2> QED
    BY <2>1, <2>2, <2>4 DEF ProgramCalls
<1>13. CASE Retry
  <2> DEFINE what == Ask(msg)
  <2>1. /\ main = "request" /\ main' = main /\ cb' = cb
        /\ tcp_dbus_send_msg("main", what) /\ reply["main"] # "none"
    BY <1>13 DEF Retry, callbackFrame, Failed
  <2>2. what.kind = "request"
    BY DEF Ask
  <2> HIDE DEF what
  <2>3. ~CallPending("main")
    BY <2>1 DEF CallPending
  <2>4. /\ LoopCalls' /\ call'["main"] = what
        /\ call'["cb"] = call["cb"]
    BY <1>0, <2>1, <2>3, CallKeeps
  <2> QED
    BY <2>1, <2>2, <2>4 DEF ProgramCalls
<1>14. CASE Done
  <2>1. /\ main = "request" /\ main' = "idle" /\ cb' = cb
        /\ Return("main") /\ reply["main"] # "none"
    BY <1>14 DEF Done, callbackFrame, Succeeded, Failed
  <2>2. ~CallPending("main")
    BY <2>1 DEF CallPending
  <2>3. /\ LoopCalls' /\ call'["main"] = NoCall
        /\ call'["cb"] = call["cb"]
    BY <1>0, <2>1, <2>2, CallKeeps
  <2> QED
    BY <2>1, <2>3 DEF ProgramCalls
<1>15. CASE Callback
  BY <1>3, <1>4, <1>5, <1>6, <1>7, <1>8, <1>15 DEF Callback
<1>16. CASE MainLoop
  BY <1>9, <1>12, <1>13, <1>14, <1>16 DEF MainLoop
<1>17. CASE CallFails
  BY <1>10, <1>17 DEF CallFails
<1> HIDE DEF CallsInv
<1> QED
  BY <1>1, <1>2, <1>9, <1>11, <1>15, <1>16, <1>17 DEF Next

-----------------------------------------------------------------------------
(* FlowControlled.                                                         *)

\* UnderWay and ToCome are the flow.
LEMMA FlowMeans ==
  ASSUME Shape
  PROVE  UnderWay + ToCome = Flow
<1>1. MapThenSumSet(LAMBDA c : asked[c] + arrived[c], Conns) = LinkLoad
  <2> DEFINE f == LoadOf(asked, arrived)
             Adds(it) == it = [s \in SUBSET Conns |->
                                 IF s = {} THEN 0
                                 ELSE LET x == CHOOSE x \in s : TRUE
                                      IN  (asked[x] + arrived[x]) + it[s \ {x}]]
             AddsUp(it) == it = [s \in SUBSET Conns |->
                                   IF s = {} THEN 0
                                   ELSE LET x == CHOOSE x \in s : TRUE
                                        IN  f[x] + it[s \ {x}]]
  <2>1. f \in [Conns -> Nat]
    BY LoadType DEF Shape, ServiceShape, LinkShape
  <2>2. \A it : Adds(it) <=> AddsUp(it)
    <3>1. \A s \in SUBSET Conns : s # {} =>
            LET x == CHOOSE x \in s : TRUE
            IN  f[x] = asked[x] + arrived[x]
      BY DEF LoadOf
    <3> QED
      BY <3>1
  <2> HIDE DEF f
  <2>3. /\ \E it : AddsUp(it)
        /\ \A it : AddsUp(it) => it[Conns] = Cardinality(Tokens(Conns, f))
    BY <2>1, SumIs, ServiceAssumption, Zenon
  <2>4. /\ \E it : Adds(it)
        /\ \A it : Adds(it) => it[Conns] = Cardinality(Tokens(Conns, f))
    <3> HIDE DEF Adds, AddsUp
    <3> QED
      BY <2>2, <2>3
  <2>5. MapThenSumSet(LAMBDA c : asked[c] + arrived[c], Conns)
          = Cardinality(Tokens(Conns, f))
    BY <2>4, Zenon DEF MapThenSumSet, MapThenFoldSet
  <2> QED
    BY <2>5 DEF LinkLoad, f
<1>2. Cardinality({i \in DOMAIN bus : bus[i].name \in {"RECV", "CONNECT"}}) = BusLoad
  <2>1. bus \in Seq(Reports) /\ DOMAIN bus = 1 .. Len(bus)
    BY DEF Shape, ServiceShape, BusShape
  <2>2. DOMAIN Stirs(bus) = 1 .. Len(bus)
    BY DEF Stirs
  <2>3. \A i \in 1 .. Len(bus) :
          Stirs(bus)[i] = 1 <=> bus[i].name \in {"RECV", "CONNECT"}
    BY <2>1, StirsSeq DEF Stirring
  <2>4. {i \in DOMAIN bus : bus[i].name \in {"RECV", "CONNECT"}}
          = {i \in DOMAIN Stirs(bus) : Stirs(bus)[i] = 1}
    BY <2>1, <2>2, <2>3
  <2> QED
    BY <2>4 DEF BusLoad, Count
<1>3. Cardinality({t \in Callers : Unsent(t)}) = CallLoad("cb") + CallLoad("main")
  <2> DEFINE A == {t \in Callers : Unsent(t)}
  <2>1. Cardinality({}) = 0
    BY FS_EmptySet
  <2>2. /\ Cardinality({"cb"}) = 1 /\ Cardinality({"main"}) = 1
        /\ Cardinality({"cb", "main"}) = 2
    <3>1. IsFiniteSet({"cb"}) /\ Cardinality({"cb"}) = 1 /\ Cardinality({"main"}) = 1
      BY FS_Singleton
    <3>2. Cardinality({"cb"} \cup {"main"}) = Cardinality({"cb"}) + 1
      BY <3>1, FS_AddElement
    <3>3. {"cb"} \cup {"main"} = {"cb", "main"}
      OBVIOUS
    <3> QED
      BY <3>1, <3>2, <3>3
  <2>3. A = (IF Unsent("cb") THEN {"cb"} ELSE {})
              \cup (IF Unsent("main") THEN {"main"} ELSE {})
    BY ExchangeAssumption
  <2>4. CASE Unsent("cb") /\ Unsent("main")
    <3>1. A = {"cb", "main"}
      BY <2>3, <2>4
    <3> QED
      BY <2>2, <2>4, <3>1 DEF CallLoad
  <2>5. CASE Unsent("cb") /\ ~Unsent("main")
    <3>1. A = {"cb"}
      BY <2>3, <2>5
    <3> QED
      BY <2>2, <2>5, <3>1 DEF CallLoad
  <2>6. CASE ~Unsent("cb") /\ Unsent("main")
    <3>1. A = {"main"}
      BY <2>3, <2>6
    <3> QED
      BY <2>2, <2>6, <3>1 DEF CallLoad
  <2>7. CASE ~Unsent("cb") /\ ~Unsent("main")
    <3>1. A = {}
      BY <2>3, <2>7
    <3> QED
      BY <2>1, <2>7, <3>1 DEF CallLoad
  <2> QED
    BY <2>4, <2>5, <2>6, <2>7
<1>4. UnderWay = LinkLoad + ExecLoad + BusLoad + Len(data_queue) + SelectLoad
                   + (CallLoad("cb") + CallLoad("main"))
  BY <1>1, <1>2, <1>3, Zenon DEF UnderWay, ExecLoad, SelectLoad, Stirring
<1>5. ToCome = Unopened + MaxHellos - hellos
  BY DEF ToCome, Unopened, AbsentIn
<1>6. hellos \in Nat /\ MaxHellos \in Nat
  BY ExchangeAssumption DEF Shape, ProgramShape
<1>7. /\ LinkLoad \in Nat /\ ExecLoad \in Nat /\ BusLoad \in Nat /\ Unopened \in Nat
      /\ CallLoad("cb") \in Nat /\ CallLoad("main") \in Nat
      /\ Len(data_queue) \in Nat /\ SelectLoad \in Nat
  BY FlowParts
<1> QED
  BY <1>4, <1>5, <1>6, <1>7 DEF Flow, ServiceFlow

\* The bound on the flow.
FlowInv == Flow <= Cardinality(Conns) + MaxHellos

\* At first all of it is to come.
LEMMA InitFlow == Init => CallsInv /\ FlowInv
<1> SUFFICES ASSUME Init PROVE CallsInv /\ FlowInv
  OBVIOUS
<1>0. Shape
  BY InitShape
<1>1. /\ session = [c \in Conns |-> "absent"] /\ asked = [c \in Conns |-> 0]
      /\ arrived = [c \in Conns |-> 0] /\ exec = Resting /\ loop = LoopIdle
      /\ call = [t \in Callers |-> NoCall] /\ bus = <<>>
      /\ data_queue = <<>> /\ cb = "idle" /\ hellos = 0 /\ main = "init"
  BY DEF Init, ServiceInit, Contract!Init
<1>2. "cb" \in Callers /\ "main" \in Callers
  BY ExchangeAssumption
<1>3. call["cb"] = NoCall /\ call["main"] = NoCall
  BY <1>1, <1>2
<1>4. CallsInv
  BY <1>1, <1>3, LoopIdleShape DEF CallsInv, ProgramCalls, LoopCalls
<1>5. LinkLoad = 0
  <2>1. \A c \in Conns : LoadOf(asked, arrived)[c] = 0
    BY <1>1 DEF LoadOf
  <2>2. Tokens(Conns, LoadOf(asked, arrived)) = {}
    BY <2>1 DEF Tokens
  <2> QED
    BY <2>2, FS_EmptySet DEF LinkLoad
<1>6. ExecLoad = 0
  BY <1>1, RestingShape DEF ExecLoad
<1>7. BusLoad = 0
  <2>1. Stirs(bus) = <<>>
    BY <1>1 DEF Stirs
  <2> QED
    BY <2>1, CountEmpty DEF BusLoad
<1>8. CallLoad("cb") = 0 /\ CallLoad("main") = 0
  BY <1>3, NoCallLoad
<1>9. Unopened = Cardinality(Conns)
  <2>1. {c \in Conns : session[c] = "absent"} = Conns
    BY <1>1
  <2> QED
    BY <2>1 DEF Unopened, AbsentIn
<1>10. Len(data_queue) = 0 /\ SelectLoad = 0
  BY <1>1 DEF SelectLoad
<1>11. Cardinality(Conns) \in Nat /\ MaxHellos \in Nat
  BY ServiceAssumption, ExchangeAssumption, FS_CardinalityType
<1>12. FlowInv
  BY <1>1, <1>5, <1>6, <1>7, <1>8, <1>9, <1>10, <1>11 DEF FlowInv, Flow, ServiceFlow
<1> QED
  BY <1>4, <1>12

\* Calls and flow, together.
LEMMA StepFlow ==
  ASSUME Shape, Shape', CallsInv, [Next]_vars
  PROVE  CallsInv' /\ Flow' <= Flow
<1>1. CASE Next
  BY <1>1, NextCalls, NextFlow
<1>2. CASE UNCHANGED vars
  <2>1. UNCHANGED <<asked, arrived, session, exec, bus, call, reply, loop, cb, main,
                    data_queue, hellos>>
    BY <1>2 DEF vars, serverVars, linkVars, serviceVars, busVars, programVars
  <2>2. CallsInv'
    BY <2>1 DEF CallsInv, ProgramCalls, LoopCalls, CallPending
  <2>3. Flow' = Flow
    <3>1. ServiceFlow' = ServiceFlow
      BY <2>1, QuietFlow
    <3> QED
      BY <2>1, <3>1 DEF Flow, SelectLoad
  <2>4. Flow \in Nat
    BY FlowType
  <2> QED
    BY <2>2, <2>3, <2>4
<1> QED
  BY <1>1, <1>2

\* No step adds to what is under way or to come: an answer, a retry or a
\* greeting takes the place of what caused it, and a reconnection or a start of
\* a device's program is used up.
THEOREM FlowNeverGrows == Spec => [][Flow' <= Flow]_vars
<1>1. Shape /\ Shape' /\ CallsInv /\ [Next]_vars => CallsInv' /\ Flow' <= Flow
  BY StepFlow
<1>2. Init => CallsInv
  BY InitFlow
<1> QED
  BY <1>1, <1>2, ShapeAlways, PTL DEF Spec

\* The bound is kept by every step.
LEMMA StepFlowInv ==
  ASSUME Shape, Shape', CallsInv, FlowInv, [Next]_vars
  PROVE  CallsInv' /\ FlowInv'
<1>1. CallsInv' /\ Flow' <= Flow
  BY StepFlow
<1>2. Flow \in Nat
  BY FlowType
<1>3. Flow' \in Nat
  <2>1. /\ LinkLoad' \in Nat /\ ExecLoad' \in Nat /\ BusLoad' \in Nat
        /\ Unopened' \in Nat /\ CallLoad("cb")' \in Nat /\ CallLoad("main")' \in Nat
        /\ Len(data_queue') \in Nat /\ SelectLoad' \in Nat
        /\ MaxHellos - hellos' \in Nat
    BY FlowPartsNext
  <2>2. ServiceFlow' \in Nat
    BY <2>1 DEF ServiceFlow
  <2>3. Flow' = ServiceFlow' + Len(data_queue') + SelectLoad' + (MaxHellos - hellos')
    BY DEF Flow
  <2> DEFINE a == ServiceFlow'
             b == Len(data_queue')
             c == SelectLoad'
             e == MaxHellos - hellos'
  <2>4. a \in Nat /\ b \in Nat /\ c \in Nat /\ e \in Nat
    BY <2>1, <2>2
  <2> HIDE DEF a, b, c, e
  <2>5. a + b + c + e \in Nat
    BY <2>4
  <2> QED
    BY <2>3, <2>5 DEF a, b, c, e
<1>4. Cardinality(Conns) + MaxHellos \in Nat
  BY ServiceAssumption, ExchangeAssumption, FS_CardinalityType
<1>5. Flow' <= Cardinality(Conns) + MaxHellos
  BY <1>1, <1>2, <1>3, <1>4 DEF FlowInv
<1> QED
  BY <1>1, <1>5 DEF FlowInv

\* For any number of devices, connections and restarts, whatever is lost or
\* repeated: data_queue, the bus and the connections together hold no more
\* messages than connections were opened and programs started.
THEOREM FlowControlledAlways == Spec => []FlowControlled
<1>1. Shape /\ Shape' /\ CallsInv /\ FlowInv /\ [Next]_vars => CallsInv' /\ FlowInv'
  BY StepFlowInv
<1>2. Init => CallsInv /\ FlowInv
  BY InitFlow
<1>3. Shape /\ FlowInv => FlowControlled
  BY FlowMeans DEF FlowInv, FlowControlled
<1> QED
  BY <1>1, <1>2, <1>3, ShapeAlways, PTL DEF Spec

\* In particular the queue of main(), which has no limit in the code, is never
\* longer than the number of connections and starts.
THEOREM QueueStaysShort ==
  Spec => [](Len(data_queue) <= Cardinality(Conns) + MaxHellos)
<1>1. Shape /\ FlowControlled => Len(data_queue) <= Cardinality(Conns) + MaxHellos
  <2> SUFFICES ASSUME Shape, FlowControlled
               PROVE  Len(data_queue) <= Cardinality(Conns) + MaxHellos
    OBVIOUS
  <2>1. Flow <= Cardinality(Conns) + MaxHellos
    BY FlowMeans DEF FlowControlled
  <2>2. Len(data_queue) <= Flow
    <3>1. /\ LinkLoad \in Nat /\ ExecLoad \in Nat /\ BusLoad \in Nat
          /\ Unopened \in Nat /\ CallLoad("cb") \in Nat /\ CallLoad("main") \in Nat
          /\ Len(data_queue) \in Nat /\ SelectLoad \in Nat
          /\ MaxHellos - hellos \in Nat
      BY FlowParts
    <3> QED
      BY <3>1 DEF Flow, ServiceFlow
  <2>3. Flow \in Nat /\ Len(data_queue) \in Nat /\ Cardinality(Conns) + MaxHellos \in Nat
    BY FlowType, ServiceAssumption, ExchangeAssumption, FS_CardinalityType
  <2> QED
    BY <2>1, <2>2, <2>3
<1> QED
  BY <1>1, FlowControlledAlways, ShapeAlways, PTL


-----------------------------------------------------------------------------
(* What the program misses, and when it ends.                              *)

\* The first n signals that SubscribeAll subscribes to, in their slots.
Order == <<"RECV", "CONNECT", "DISCONNECT">>
Slotted(n) == [i \in Slots |-> IF i <= n THEN Order[i] ELSE NoSignal]

\* main() has subscribed to the signals before the one it is at, in this order.
SubscribedSoFar ==
  /\ main \in {"init", "recv"} => tcp_sbscr = Slotted(0)
  /\ main = "connect" => tcp_sbscr = Slotted(1)
  /\ main = "disconnect" => tcp_sbscr = Slotted(2)
  /\ main \in {"idle", "request"} => tcp_sbscr = Slotted(3)

\* Before the loop runs and after the end both threads rest, and a call gets an
\* error only from a service that has ended.
ServiceStage ==
  /\ svc \in {"run", "kill"} => Initialized(config)
  /\ svc \notin {"run", "kill"} => exec = Resting /\ loop = LoopIdle
  /\ \A t \in Callers : reply[t] = "error" => svc = "down"

\* The program goes past its start only when the service runs.
ProgramStage ==
  /\ svc \in {"init", "execute"} => main \in {"init", "ended"}
  /\ main = "init" => cb = "idle" /\ bus = <<>>

Stages == SubscribedSoFar /\ ServiceStage /\ ProgramStage

\* What the subscriptions are after each call.
LEMMA SlottedIs ==
  /\ Slotted(0) = NoSubscriptions
  /\ Subscribed(Slotted(0)) = {} /\ Subscribed(Slotted(3)) = Signals
  /\ \A n \in 0 .. 2 :
       /\ CanSubscribe(Slotted(n), Order[n + 1])
       /\ tcp_dbus_client_Subscribe2Recv(Slotted(n), Order[n + 1]) = Slotted(n + 1)
<1> USE DEF Slotted, Order, Slots, NUM_SIGNALS, NoSignal, Signals
<1>1. Slotted(0) = NoSubscriptions
  BY DEF NoSubscriptions
<1>2. Subscribed(Slotted(0)) = {}
  BY DEF Subscribed
<1>3. Subscribed(Slotted(3)) = Signals
  <2>1. Slotted(3)[1] = "RECV" /\ Slotted(3)[2] = "CONNECT" /\ Slotted(3)[3] = "DISCONNECT"
    OBVIOUS
  <2>2. \A i \in 1 .. 3 : i = 1 \/ i = 2 \/ i = 3
    OBVIOUS
  <2> HIDE DEF Slotted
  <2> QED
    BY <2>1, <2>2 DEF Subscribed
<1>4. ASSUME NEW n \in 0 .. 2
      PROVE  /\ CanSubscribe(Slotted(n), Order[n + 1])
             /\ tcp_dbus_client_Subscribe2Recv(Slotted(n), Order[n + 1])
                  = Slotted(n + 1)
  <2> DEFINE s == Slotted(n)
  <2>1. /\ \A i \in 1 .. n : s[i] = Order[i] /\ s[i] # NoSignal
        /\ \A i \in n + 1 .. 3 : s[i] = NoSignal
        /\ n + 1 \in 1 .. 3 /\ DOMAIN s = 1 .. 3
    BY <1>4
  <2>2. \A i \in 1 .. n : Order[i] # Order[n + 1]
    BY <1>4
  <2>3. Order[n + 1] # NoSignal
    BY <1>4
  <2>4. Order[n + 1] \notin Subscribed(s)
    <3>1. \A i \in 1 .. 3 : s[i] # Order[n + 1]
      BY <2>1, <2>2, <2>3
    <3> HIDE DEF s
    <3> QED
      BY <3>1 DEF Subscribed
  <2>5. FirstFree(s) = n + 1
    <3>1. /\ s[n + 1] = NoSignal
          /\ \A j \in 1 .. n + 1 - 1 : s[j] # NoSignal
      BY <2>1
    <3>2. ASSUME NEW i \in Slots, s[i] = NoSignal,
                 \A j \in 1 .. i - 1 : s[j] # NoSignal
          PROVE  i = n + 1
      BY <2>1, <3>2
    <3> HIDE DEF s, Slotted, Order, NoSignal
    <3> QED
      BY <2>1, <3>1, <3>2 DEF FirstFree
  <2>6. CanSubscribe(s, Order[n + 1])
    <3> HIDE DEF s, Order
    <3> QED
      BY <2>1, <2>4 DEF CanSubscribe
  <2>7. [s EXCEPT ![n + 1] = Order[n + 1]] = Slotted(n + 1)
    <3>1. \A i \in 1 .. 3 : i <= n + 1 <=> i <= n \/ i = n + 1
      BY <1>4
    <3>2. \A i \in 1 .. 3 :
            [s EXCEPT ![n + 1] = Order[n + 1]][i] = Slotted(n + 1)[i]
      BY <2>1, <3>1
    <3> QED
      BY <3>2
  <2>8. tcp_dbus_client_Subscribe2Recv(s, Order[n + 1]) = Slotted(n + 1)
    <3> HIDE DEF s, Slotted, Order
    <3> QED
      BY <2>5, <2>6, <2>7 DEF tcp_dbus_client_Subscribe2Recv
  <2> QED
    BY <2>6, <2>8
<1> QED
  BY <1>1, <1>2, <1>3, <1>4

\* The end of the process, and what keeps its stage.
LEMMA EndsStage ==
  ASSUME Stages, ProcessEnds
  PROVE  ServiceStage' /\ svc' = "down" /\ UNCHANGED <<bus, tcp_sbscr>>
BY DEF ProcessEnds, ServiceStage

\* A step within the running service.
LEMMA RunsStage ==
  ASSUME Stages, svc \in {"run", "kill"}, UNCHANGED <<svc, config>>,
         \A t \in Callers : reply'[t] # "error" \/ reply'[t] = reply[t]
  PROVE  ServiceStage'
BY DEF Stages, ServiceStage

\* The program keeps what it was told.
Kept == UNCHANGED <<bus, missed, tcp_sbscr>>

\* A report is put on the bus if the program has subscribed to it.
LEMMA EmitStage ==
  ASSUME Stages, NEW m \in Reports, emit(m), UNCHANGED tcp_sbscr
  PROVE  /\ main = "init" => bus' = bus
         /\ main \in {"idle", "request"} => missed' = missed
<1>1. m.name \in Signals
  BY DEF Reports
<1>2. main = "init" => m.name \notin Subscribed(tcp_sbscr)
  BY SlottedIs DEF Stages, SubscribedSoFar
<1>3. main \in {"idle", "request"} => m.name \in Subscribed(tcp_sbscr)
  BY <1>1, SlottedIs DEF Stages, SubscribedSoFar
<1> QED
  BY <1>2, <1>3 DEF emit

\* What a step of the service leaves to the program.
Heeds ==
  /\ ServiceStage' /\ tcp_sbscr' = tcp_sbscr
  /\ main = "init" => bus' = bus
  /\ svc' \in {"init", "execute"} => svc \in {"init", "execute"}
  /\ main \in {"idle", "request"} /\ missed' # missed => svc' # svc

\* The end of a process that had not ended before.
LEMMA EndsHeeds ==
  ASSUME Stages, ProcessEnds, svc # "down"
  PROVE  Heeds
BY EndsStage DEF Heeds

\* A step in which the loop answers, or goes on.
LEMMA LoopHeeds ==
  ASSUME Shape, Stages, svc \in {"run", "kill"}, UNCHANGED <<loopFrame, bus, missed>>,
         NEW t, NEW rest, NEW ok, Answer(t, ok) \/ GoTo(t, rest, ok)
  PROVE  Heeds
<1>1. /\ tcp_sbscr' = tcp_sbscr
      /\ \/ reply' = reply
         \/ reply' = [reply EXCEPT ![t] = IF ok THEN "true" ELSE "false"]
  BY DEF Answer, GoTo
<1>2. \A u \in Callers : reply'[u] # "error" \/ reply'[u] = reply[u]
  BY <1>1 DEF Shape, ServiceShape, BusShape
<1>3. ServiceStage'
  BY <1>2, RunsStage DEF loopFrame
<1> QED
  BY <1>1, <1>3 DEF Heeds, loopFrame

\* A send, whatever comes of it.
LEMMA SendHeeds ==
  ASSUME Shape, Stages, svc \in {"run", "kill"}, Send
  PROVE  Heeds
<1> DEFINE t == loop.thread
<1>1. CASE \E c, ok : /\ GoTo(t, Rest(t, c, client_infos), ok)
                      /\ UNCHANGED <<loopFrame, bus, missed>>
  <2>1. PICK c, ok : /\ GoTo(t, Rest(t, c, client_infos), ok)
                     /\ UNCHANGED <<loopFrame, bus, missed>>
    BY <1>1
  <2> DEFINE rest == Rest(t, c, client_infos)
  <2> HIDE DEF rest
  <2>2. GoTo(t, rest, ok)
    BY <2>1 DEF rest
  <2> QED
    BY <2>1, <2>2, LoopHeeds
<1>2. CASE UNCHANGED <<loopFrame, busVars>>
  <2>1. ServiceStage'
    BY <1>2, RunsStage DEF loopFrame, busVars
  <2> QED
    BY <1>2, <2>1 DEF Heeds, busVars, loopFrame
<1> QED
  BY <1>1, <1>2 DEF Send, SendOk, SendFails, SendLate

\* A step of the execute thread, of the devices or of the pings, which changes
\* nothing of the calls and of the bus.
LEMMA QuietHeeds ==
  ASSUME Stages, UNCHANGED <<svc, config, busVars>>,
         svc \in {"run", "kill"} \/ UNCHANGED <<exec, loop>>
  PROVE  Heeds
<1>1. CASE svc \in {"run", "kill"}
  BY <1>1, RunsStage DEF Heeds, busVars
<1>2. CASE UNCHANGED <<exec, loop>>
  <2>1. ServiceStage'
    BY <1>2 DEF Stages, ServiceStage, busVars
  <2> QED
    BY <2>1 DEF Heeds, busVars
<1> QED
  BY <1>1, <1>2

\* The emit functions are refused to a service that has not begun or has ended:
\* the exits in the callbacks are not taken.
LEMMA TellHeeds ==
  ASSUME Shape, Stages, Tell \/ TellLoss \/ \E c \in Conns : Read(c)
  PROVE  Heeds
<1>1. svc \in {"run", "kill"}
  BY LoopIdleShape DEF Stages, ServiceStage, Tell, TellLoss, Read
<1>2. CASE ProcessEnds
  BY <1>1, <1>2, EndsHeeds
<1>3. ASSUME NEW m \in Reports, emit(m), UNCHANGED <<svc, config, reply, tcp_sbscr>>
      PROVE  Heeds
  <2>1. ServiceStage'
    BY <1>1, <1>3, RunsStage
  <2> QED
    BY <1>3, <2>1, EmitStage DEF Heeds
<1>4. CASE Tell
  <2>1. exec.signal \in Reports
    BY <1>4 DEF Tell, Shape, ServiceShape, ExecShape
  <2> QED
    BY <1>2, <1>3, <1>4, <2>1 DEF Tell
<1>5. CASE TellLoss
  <2> DEFINE m == Signal("DISCONNECT", loop.tell)
  <2>1. m \in Reports
    BY <1>5 DEF TellLoss, Signal, Reports, SignalType, Signals, Shape,
       ServiceShape, LoopShape
  <2> HIDE DEF m
  <2>2. \/ ProcessEnds
        \/ emit(m) /\ UNCHANGED <<loopFrame, reply, tcp_sbscr>>
    BY <1>5 DEF TellLoss, m
  <2> QED
    BY <1>2, <1>3, <2>1, <2>2 DEF loopFrame
<1>6. ASSUME NEW c \in Conns, Read(c) PROVE Heeds
  <2> DEFINE m == Signal("RECV", device[c])
  <2>1. m \in Reports
    BY <1>6 DEF Read, Signal, Reports, SignalType, Signals, Shape,
       ServiceShape, LinkShape
  <2> HIDE DEF m
  <2>2. \/ ProcessEnds
        \/ emit(m) /\ UNCHANGED <<serviceVars, reply, tcp_sbscr>>
    BY <1>6 DEF Read, m
  <2> QED
    BY <1>2, <1>3, <2>1, <2>2 DEF serviceVars
<1> QED
  BY <1>4, <1>5, <1>6

\* Every step of the service.
LEMMA ServiceHeeds ==
  ASSUME Shape, Stages, ServiceNext
  PROVE  Heeds
<1>1. ASSUME NEW answer \in BusAnswers, Initialize(answer) PROVE Heeds
  <2>1. CASE ProcessEnds
    BY <1>1, <2>1, EndsHeeds DEF Initialize
  <2>2. CASE svc' = "execute" /\ UNCHANGED <<exec, loop, busVars>>
    BY <1>1, <2>2 DEF Initialize, Heeds, Stages, ServiceStage, busVars
  <2> QED
    BY <1>1, <2>1, <2>2 DEF Initialize
<1>2. CASE Execute
  <2>1. CASE ProcessEnds
    BY <1>2, <2>1, EndsHeeds DEF Execute
  <2>2. CASE Initialized(config) /\ svc' = "run" /\ UNCHANGED <<config, busVars>>
    BY <1>2, <2>2 DEF Execute, Heeds, Stages, ServiceStage, busVars, Initialized
  <2> QED
    BY <1>2, <2>1, <2>2 DEF Execute
<1>3. CASE Quit
  BY <1>3 DEF Quit, Heeds, Stages, ServiceStage, Initialized
<1>4. CASE Kill \/ Crash
  BY <1>4, EndsHeeds DEF Kill, Crash
<1>5. CASE \/ \E c \in Conns : \E d \in MayOpen[c] : Connect(c, d)
           \/ \E c \in Conns : Lose(c)
  BY <1>5, QuietHeeds DEF Connect, Lose
<1>6. CASE \/ \E c \in Conns : Detect(c)
           \/ \E c \in Conns, how \in {"gone", "closed"} : Leave(c, how)
  BY <1>6, QuietHeeds DEF Detect, Leave, linkFrame, serviceVars
<1>7. CASE Close
  <2>1. svc \in {"run", "kill"}
    <3>1. PICK c \in Conns : exec = Closing(c)
      BY <1>7 DEF Close
    <3>2. exec.conn # NoConn
      BY <3>1, ServiceAssumption DEF Closing, Resting
    <3> QED
      BY <3>2 DEF Stages, ServiceStage, Resting
  <2> QED
    BY <1>7, <2>1, QuietHeeds DEF Close
<1>8. ASSUME NEW t \in Callers, HandleLate(t) PROVE Heeds
  <2>1. CASE ProcessEnds
    BY <1>8, <2>1, EndsHeeds DEF HandleLate
  <2>2. CASE \E ok \in BOOLEAN : Answer(t, ok)
    BY <1>8, <2>1, <2>2, LoopHeeds DEF HandleLate
  <2> QED
    BY <1>8, <2>1, <2>2 DEF HandleLate
<1>9. ASSUME NEW t \in Callers, Handle(t) PROVE Heeds
  <2> DEFINE rest == Targets(t)
             ok == call[t] = GreetAll
  <2> HIDE DEF rest, ok
  <2>1. /\ svc = "run" /\ GoTo(t, rest, ok)
        /\ UNCHANGED <<loopFrame, bus, missed>>
    BY <1>9 DEF Handle, rest, ok
  <2> QED
    BY <2>1, LoopHeeds
<1>10. CASE Send \/ CloseLate
  <2>1. svc \in {"run", "kill"}
    BY <1>10, LoopIdleShape DEF Stages, ServiceStage, Send, CloseLate
  <2>2. CASE CloseLate
    <3> DEFINE t == loop.thread
               rest == Rest(t, loop.conn, client_infos')
               ok == call[t] = GreetAll
    <3> HIDE DEF t, rest, ok
    <3>1. GoTo(t, rest, ok) /\ UNCHANGED <<loopFrame, bus, missed>>
      BY <2>2 DEF CloseLate, t, rest, ok
    <3> QED
      BY <2>1, <3>1, LoopHeeds
  <2> QED
    BY <1>10, <2>1, <2>2, SendHeeds
<1> QED
  BY <1>1, <1>2, <1>3, <1>4, <1>5, <1>6, <1>7, <1>8, <1>9, <1>10, TellHeeds
     DEF ServiceNext, ExecStep, LoopStep

\* A thread calls, or takes its answer.
LEMMA CallStage ==
  ASSUME Stages, NEW t \in Callers, NEW what,
         tcp_dbus_send_msg(t, what) \/ Return(t)
  PROVE  ServiceStage' /\ UNCHANGED <<svc, bus, missed, tcp_sbscr>>
<1>1. /\ reply' = [reply EXCEPT ![t] = "none"]
      /\ UNCHANGED <<serviceVars, bus, missed, tcp_sbscr>>
  BY DEF tcp_dbus_send_msg, Return
<1>2. \A u \in Callers : reply'[u] = "error" => reply[u] = "error"
  BY <1>1
<1> QED
  BY <1>1, <1>2 DEF Stages, ServiceStage, serviceVars

\* The program misses something only when the service ends, and ends itself only
\* during a call or after the service.
Ending ==
  /\ missed' # missed /\ main \in {"idle", "request"} => svc' # svc
  /\ main' = "ended" => \/ main = "ended"
                        \/ \E t \in Callers : CallPending(t)
                        \/ svc = "down"

\* What keeps the stages, of the steps of the program.
LEMMA NextStages ==
  ASSUME Shape, Stages, Next
  PROVE  Stages' /\ Ending
<1>0. "cb" \in Callers /\ "main" \in Callers /\ main # "ended"
  BY ExchangeAssumption DEF Next
<1> USE DEF Stages
<1>1. CASE ServiceNext /\ UNCHANGED <<hellos, programVars>>
  BY <1>0, <1>1, ServiceHeeds DEF Heeds, SubscribedSoFar, ProgramStage, programVars,
     Ending
<1>2. CASE \E c \in Conns : GiveData(c) \/ SayHi(c)
  BY <1>0, <1>2 DEF GiveData, SayHi, DeviceSends, linkFrame, serviceVars, busVars,
     programVars, SubscribedSoFar, ServiceStage, ProgramStage, Ending
<1>3. CASE SelectClient \/ Greet \/ Greeted
  <2>1. /\ \E what : tcp_dbus_send_msg("cb", what) \/ Return("cb")
        /\ main' = main /\ cb # "idle"
    BY <1>3 DEF SelectClient, Greet, Greeted
  <2>2. ServiceStage' /\ UNCHANGED <<svc, bus, missed, tcp_sbscr>>
    BY <1>0, <2>1, CallStage
  <2> QED
    BY <1>0, <2>1, <2>2 DEF SubscribedSoFar, ProgramStage, Ending
<1>4. CASE (\E s \in Strings : OnConnect(s)) \/ OnDisconnect \/ OnData
  <2>1. /\ bus # <<>> /\ main' = main
        /\ UNCHANGED <<serviceVars, call, reply, tcp_sbscr, missed>>
    BY <1>4 DEF OnConnect, OnDisconnect, OnData, Hear
  <2> QED
    BY <1>0, <2>1 DEF SubscribedSoFar, ServiceStage, ProgramStage, serviceVars, Ending
<1>5. CASE Deselect
  BY <1>0, <1>5 DEF Deselect, serverVars, serviceVars, busVars, SubscribedSoFar,
     ServiceStage, ProgramStage, Ending
<1>6. CASE InitClient
  <2>1. /\ main = "init" /\ svc \in {"run", "kill"} /\ main' = "recv"
        /\ UNCHANGED <<serverVars, callbackFrame>>
    BY <1>6 DEF InitClient, LoopRuns
  <2> QED
    BY <2>1 DEF serverVars, serviceVars, busVars, callbackFrame, SubscribedSoFar,
       ServiceStage, ProgramStage, Ending
<1>7. CASE SubscribeAll
  <2>1. ASSUME NEW n \in 0 .. 2, NEW at, NEW next,
               Subscribe(at, Order[n + 1], next), tcp_sbscr = Slotted(n), at # "init",
               <<at, next>> \in {<<"recv", "connect">>, <<"connect", "disconnect">>,
                                 <<"disconnect", "idle">>}
        PROVE  /\ main' = next /\ tcp_sbscr' = Slotted(n + 1) /\ main = at
               /\ ServiceStage' /\ UNCHANGED <<svc, bus, missed, cb>>
    <3>1. /\ CanSubscribe(tcp_sbscr, Order[n + 1])
          /\ tcp_dbus_client_Subscribe2Recv(tcp_sbscr, Order[n + 1]) = Slotted(n + 1)
      BY <2>1, SlottedIs
    <3>2. /\ tcp_sbscr' = Slotted(n + 1) /\ main' = next /\ main = at
          /\ UNCHANGED <<linkVars, serviceVars, call, reply, bus, missed, callbackFrame>>
      BY <2>1, <3>1 DEF Subscribe
    <3> QED
      BY <3>2 DEF ServiceStage, serviceVars, callbackFrame
  <2>2. Order[0 + 1] = "RECV" /\ Order[1 + 1] = "CONNECT" /\ Order[2 + 1] = "DISCONNECT"
    BY DEF Order
  <2>3. CASE Subscribe("recv", "RECV", "connect")
    <3>1. main = "recv" /\ tcp_sbscr = Slotted(0)
      BY <2>3 DEF Subscribe, SubscribedSoFar
    <3>2. /\ main' = "connect" /\ tcp_sbscr' = Slotted(0 + 1)
          /\ ServiceStage' /\ UNCHANGED <<svc, bus, missed, cb>>
      BY <2>1, <2>2, <2>3, <3>1
    <3> QED
      BY <3>1, <3>2 DEF SubscribedSoFar, ProgramStage, Ending
  <2>4. CASE Subscribe("connect", "CONNECT", "disconnect")
    <3>1. main = "connect" /\ tcp_sbscr = Slotted(1)
      BY <2>4 DEF Subscribe, SubscribedSoFar
    <3>2. /\ main' = "disconnect" /\ tcp_sbscr' = Slotted(1 + 1)
          /\ ServiceStage' /\ UNCHANGED <<svc, bus, missed, cb>>
      BY <2>1, <2>2, <2>4, <3>1
    <3> QED
      BY <3>1, <3>2 DEF SubscribedSoFar, ProgramStage, Ending
  <2>5. CASE Subscribe("disconnect", "DISCONNECT", "idle")
    <3>1. main = "disconnect" /\ tcp_sbscr = Slotted(2)
      BY <2>5 DEF Subscribe, SubscribedSoFar
    <3>2. /\ main' = "idle" /\ tcp_sbscr' = Slotted(2 + 1)
          /\ ServiceStage' /\ UNCHANGED <<svc, bus, missed, cb>>
      BY <2>1, <2>2, <2>5, <3>1
    <3> QED
      BY <3>1, <3>2 DEF SubscribedSoFar, ProgramStage, Ending
  <2> QED
    BY <1>7, <2>3, <2>4, <2>5 DEF SubscribeAll
<1>8. CASE Process \/ Retry \/ Done
  <2>1. /\ \E what : tcp_dbus_send_msg("main", what) \/ Return("main")
        /\ main \in {"idle", "request"} /\ main' \in {"idle", "request"} /\ cb' = cb
    BY <1>8 DEF Process, Retry, Done, callbackFrame
  <2>2. ServiceStage' /\ UNCHANGED <<svc, bus, missed, tcp_sbscr>>
    BY <1>0, <2>1, CallStage
  <2> QED
    BY <1>0, <2>1, <2>2 DEF SubscribedSoFar, ProgramStage, Ending
<1>9. CASE Ignore
  BY <1>0, <1>9 DEF Ignore, serverVars, serviceVars, busVars, callbackFrame,
     SubscribedSoFar, ServiceStage, ProgramStage, Ending
<1>10. CASE CallFails
  <2>1. main' = "ended" /\ UNCHANGED serverVars
    BY <1>10 DEF CallFails, ProgramEnds
  <2>2. (\E t \in Callers : CallPending(t)) \/ svc = "down"
    <3>1. CASE \E t \in Callers : CallPending(t) \/ reply[t] = "error"
      BY <3>1 DEF ServiceStage
    <3>2. CASE ~Initialized(config) /\ (cb # "idle" \/ main # "init")
      <4>1. main # "init"
        BY <3>2 DEF ProgramStage
      <4>2. svc \notin {"run", "kill", "init", "execute"}
        BY <1>0, <3>2, <4>1 DEF ProgramStage, ServiceStage
      <4> QED
        BY <4>2 DEF Shape, ServiceShape, LoopShape
    <3> QED
      BY <1>10, <3>1, <3>2 DEF CallFails
  <2>3. Ending
    BY <2>1, <2>2 DEF Ending, serverVars, busVars
  <2> QED
    BY <2>1, <2>3 DEF serverVars, serviceVars, busVars, SubscribedSoFar,
       ServiceStage, ProgramStage
<1> QED
  BY <1>1, <1>2, <1>3, <1>4, <1>5, <1>6, <1>7, <1>8, <1>9, <1>10
     DEF Next, Callback, MainLoop

\* The stages at first.
LEMMA InitStages == Init => Stages
<1> SUFFICES ASSUME Init PROVE Stages
  OBVIOUS
<1>1. /\ svc = "init" /\ exec = Resting /\ loop = LoopIdle
      /\ reply = [t \in Callers |-> "none"] /\ tcp_sbscr = NoSubscriptions
      /\ bus = <<>> /\ main = "init" /\ cb = "idle"
  BY DEF Init, ServiceInit
<1> QED
  BY <1>1, SlottedIs DEF Stages, SubscribedSoFar, ServiceStage, ProgramStage

\* The stages, step by step.
LEMMA StepStages ==
  ASSUME Shape, Stages, [Next]_vars
  PROVE  Stages' /\ Ending
<1>1. CASE UNCHANGED vars
  BY <1>1 DEF vars, serverVars, serviceVars, busVars, programVars, Stages,
     SubscribedSoFar, ServiceStage, ProgramStage, Ending
<1> QED
  BY <1>1, NextStages

\* Stages is an invariant.
LEMMA StagesAlways == Spec => []Stages
<1>1. Shape /\ Stages /\ [Next]_vars => Stages'
  BY StepStages
<1> QED
  BY <1>1, InitStages, ShapeAlways, PTL DEF Spec

\* The subscriptions never fail, and once they are made the program misses a
\* connect or a disconnect only when the service ends: the devices that
\* ListsAgree and LossesFound leave out are no more than that.
THEOREM MissesNothing ==
  Spec => [][missed' # missed /\ main \in {"idle", "request"} => svc' # svc]_vars
<1>1. /\ Shape /\ Stages /\ [Next]_vars
      => (missed' # missed /\ main \in {"idle", "request"} => svc' # svc)
  BY StepStages DEF Ending
<1> QED
  BY <1>1, StagesAlways, ShapeAlways, PTL DEF Spec

\* recv_data aborts only while one of its calls waits for an answer, which may
\* take longer than the 1000 ms it allows, or when the service has ended: no
\* failed send, false answer or refused subscription of a service that runs, or
\* is about to end, makes it.
THEOREM EndsInCall ==
  Spec => [][main' = "ended" => \/ main = "ended"
                                \/ \E t \in Callers : CallPending(t)
                                \/ svc = "down"]_vars
<1>1. /\ Shape /\ Stages /\ [Next]_vars
      => (main' = "ended" => \/ main = "ended"
                             \/ \E t \in Callers : CallPending(t)
                             \/ svc = "down")
  BY StepStages DEF Ending
<1> QED
  BY <1>1, StagesAlways, ShapeAlways, PTL DEF Spec


=============================================================================
