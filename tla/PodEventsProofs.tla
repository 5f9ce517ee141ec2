--------------------------- MODULE PodEventsProofs ---------------------------
(***************************************************************************)
(* TablesFollow and RestartHeals for any pods, layouts, subscribers, and   *)
(* any number of changes and faults.                                       *)
(*                                                                         *)
(* The argument follows one pod through the pipeline.  The notifications   *)
(* of a pod form a chain that ends with what the informer has in its cache *)
(* (ChainedIn), so what a subscriber knows of the pod is what stands       *)
(* before the first event or notification that has not reached its table   *)
(* (Known).  The cluster and the informer never change it (Upstream), the  *)
(* handlers change it only when they drop an update to a pod that does not *)
(* run (Link), and the table always shows what the subscriber knows        *)
(* (Served, Accounted); when nothing is on its way, that is the cluster.   *)
(***************************************************************************)
EXTENDS PodEvents, FunctionTheorems, FiniteSetTheorems, SequenceTheorems, WellFoundedInduction, TLAPS

-----------------------------------------------------------------------------
(***************************************************************************)
(* Queues of notifications                                                 *)
(*                                                                         *)
(* q is the queue, m the informer's cache.                                 *)
(***************************************************************************)

Notice == [pod : Pods, old : Pod \cup {Nil}, new : Pod \cup {Nil}, tombstone : BOOLEAN]

\* The first notification of the pod k.
IsFirst(q, k, i) ==
  /\ i \in 1 .. Len(q) /\ q[i].pod = k
  /\ \A j \in 1 .. i - 1 : q[j].pod # k

\* The state of k before its first notification, or the one in the cache.
QueuedIn(q, m, k) ==
  IF \E i \in 1 .. Len(q) : q[i].pod = k
  THEN q[CHOOSE i \in 1 .. Len(q) : IsFirst(q, k, i)].old ELSE m[k]

\* The next notification of the same pod begins where this one ends.
Successive(q, i, j) ==
  /\ j \in i + 1 .. Len(q)
  /\ q[j].pod = q[i].pod /\ q[j].old = q[i].new
  /\ \A l \in i + 1 .. j - 1 : q[l].pod # q[i].pod

\* The last one ends with what is in the cache.
ChainedIn(q, m) ==
  \A i \in 1 .. Len(q) :
    \/ /\ \A j \in i + 1 .. Len(q) : q[j].pod # q[i].pod
       /\ q[i].new = m[q[i].pod]
    \/ \E j \in 1 .. Len(q) : Successive(q, i, j)

\* A set of numbers that has an element has a least one.
LEMMA Least ==
  ASSUME NEW T \in SUBSET Nat, T # {}
  PROVE  \E n \in T : \A m \in T : n <= m
<1>1. PICK n \in T : \A m \in T : ~(<<m, n>> \in OpToRel(<, Nat))
  BY NatLessThanWellFounded, WFMin, Zenon
<1>2. \A m \in T : ~(m < n)
  BY <1>1, Zenon DEF OpToRel
<1>. QED  BY <1>2

\* The elements of a concatenation are those of its two parts.
LEMMA ConcatElements ==
  ASSUME NEW q \in Seq(Notice), NEW r \in Seq(Notice)
  PROVE  /\ \A i \in 1 .. Len(q) : i \in 1 .. Len(q \o r) /\ (q \o r)[i] = q[i]
         /\ \A j \in 1 .. Len(r) : \E i \in 1 .. Len(q \o r) : (q \o r)[i] = r[j]
         /\ \A i \in 1 .. Len(q \o r) : \/ i \in 1 .. Len(q) /\ (q \o r)[i] = q[i]
                                        \/ \E j \in 1 .. Len(r) : (q \o r)[i] = r[j]
<1>. DEFINE c == q \o r
<1>1. /\ Len(q) \in Nat /\ Len(r) \in Nat /\ Len(c) = Len(q) + Len(r)
      /\ \A i \in 1 .. Len(q) + Len(r) :
           c[i] = IF i <= Len(q) THEN q[i] ELSE r[i - Len(q)]
  BY ConcatProperties, LenProperties
<1>. HIDE DEF c
<1>2. \A i \in 1 .. Len(q) : i \in 1 .. Len(c) /\ c[i] = q[i]
  BY <1>1
<1>3. ASSUME NEW j \in 1 .. Len(r)
      PROVE  \E i \in 1 .. Len(c) : c[i] = r[j]
  <2>1. PICK i : i = Len(q) + j
    OBVIOUS
  <2>2. i \in 1 .. Len(c) /\ ~(i <= Len(q)) /\ i - Len(q) = j
    BY <1>1, <2>1
  <2>. QED  BY <1>1, <2>2
<1>4. ASSUME NEW i \in 1 .. Len(c), i \notin 1 .. Len(q)
      PROVE  i - Len(q) \in 1 .. Len(r) /\ c[i] = r[i - Len(q)]
  BY <1>1, <1>4
<1>. QED  BY <1>2, <1>3, <1>4 DEF c

\* A pod that has a notification has a first one, which is the one QueuedIn means.
LEMMA FirstExists ==
  ASSUME NEW q \in Seq(Notice), NEW k, NEW i \in 1 .. Len(q), q[i].pod = k
  PROVE  \E j : IsFirst(q, k, j)
<1>. DEFINE T == {j \in 1 .. Len(q) : q[j].pod = k}
<1>1. T \in SUBSET Nat /\ T # {}
  OBVIOUS
<1>2. PICK j \in T : \A m \in T : j <= m
  <2>. HIDE DEF T
  <2>. QED  BY <1>1, Least
<1>3. IsFirst(q, k, j)
  BY <1>2 DEF IsFirst
<1>. QED  BY <1>3

LEMMA QueuedFirst ==
  ASSUME NEW q \in Seq(Notice), NEW m, NEW k, NEW i, IsFirst(q, k, i)
  PROVE  QueuedIn(q, m, k) = q[i].old
<1>1. \A j \in 1 .. Len(q) : IsFirst(q, k, j) => j = i
  BY DEF IsFirst
<1>2. i \in 1 .. Len(q) /\ q[i].pod = k
  BY DEF IsFirst
<1>3. (CHOOSE j \in 1 .. Len(q) : IsFirst(q, k, j)) = i
  BY <1>1, <1>2
<1>. QED  BY <1>2, <1>3 DEF QueuedIn

LEMMA QueuedNone ==
  ASSUME NEW q, NEW m, NEW k, \A i \in 1 .. Len(q) : q[i].pod # k
  PROVE  QueuedIn(q, m, k) = m[k]
BY DEF QueuedIn

\* The handlers take the first notification.
LEMMA Taking ==
  ASSUME NEW q \in Seq(Notice), q # <<>>, NEW m, ChainedIn(q, m)
  PROVE  /\ Tail(q) \in Seq(Notice) /\ ChainedIn(Tail(q), m)
         /\ QueuedIn(q, m, Head(q).pod) = Head(q).old
         /\ QueuedIn(Tail(q), m, Head(q).pod) = Head(q).new
         /\ \A k : k # Head(q).pod => QueuedIn(Tail(q), m, k) = QueuedIn(q, m, k)
<1>. DEFINE t == Tail(q)
            n == Head(q)
<1>1. /\ t \in Seq(Notice) /\ n = q[1] /\ Len(q) \in Nat /\ Len(q) >= 1
      /\ Len(t) = Len(q) - 1 /\ \A i \in 1 .. Len(t) : t[i] = q[i + 1]
  BY HeadTailProperties
<1>. HIDE DEF t, n
<1>2. \A i \in 1 .. Len(t) : i + 1 \in 1 .. Len(q)
  BY <1>1
<1>3. ChainedIn(t, m)
  <2>. SUFFICES ASSUME NEW i \in 1 .. Len(t)
                PROVE  \/ /\ \A j \in i + 1 .. Len(t) : t[j].pod # t[i].pod
                          /\ t[i].new = m[t[i].pod]
                       \/ \E j \in 1 .. Len(t) : Successive(t, i, j)
    BY DEF ChainedIn
  <2>1. CASE /\ \A j \in (i + 1) + 1 .. Len(q) : q[j].pod # q[i + 1].pod
             /\ q[i + 1].new = m[q[i + 1].pod]
    BY <1>1, <2>1
  <2>2. ASSUME NEW j \in 1 .. Len(q), Successive(q, i + 1, j)
        PROVE  Successive(t, i, j - 1) /\ j - 1 \in 1 .. Len(t)
    <3>1. j - 1 \in i + 1 .. Len(t) /\ j - 1 \in 1 .. Len(t) /\ t[j - 1] = q[j] /\ t[i] = q[i + 1]
      BY <1>1, <2>2 DEF Successive
    <3>2. ASSUME NEW l \in i + 1 .. (j - 1) - 1 PROVE t[l].pod # t[i].pod
      <4>1. l + 1 \in (i + 1) + 1 .. j - 1 /\ l \in 1 .. Len(t)
        BY <3>1
      <4>. QED  BY <1>1, <2>2, <3>1, <4>1 DEF Successive
    <3>. QED  BY <2>2, <3>1, <3>2 DEF Successive
  <2>. QED  BY <1>2, <2>1, <2>2 DEF ChainedIn
<1>4. QueuedIn(q, m, n.pod) = n.old
  <2>1. IsFirst(q, n.pod, 1)
    BY <1>1 DEF IsFirst
  <2>. QED  BY <1>1, <2>1, QueuedFirst
<1>5. QueuedIn(t, m, n.pod) = n.new
  <2>1. CASE /\ \A j \in 1 + 1 .. Len(q) : q[j].pod # q[1].pod
             /\ q[1].new = m[q[1].pod]
    <3>1. \A i \in 1 .. Len(t) : t[i].pod # n.pod
      BY <1>1, <2>1
    <3>. QED  BY <1>1, <2>1, <3>1, QueuedNone
  <2>2. ASSUME NEW j \in 1 .. Len(q), Successive(q, 1, j)
        PROVE  QueuedIn(t, m, n.pod) = n.new
    <3>1. j - 1 \in 1 .. Len(t) /\ t[j - 1] = q[j]
      BY <1>1, <2>2 DEF Successive
    <3>2. ASSUME NEW l \in 1 .. (j - 1) - 1 PROVE t[l].pod # n.pod
      <4>1. l + 1 \in 1 + 1 .. j - 1 /\ l \in 1 .. Len(t)
        BY <3>1
      <4>. QED  BY <1>1, <2>2, <4>1 DEF Successive
    <3>3. IsFirst(t, n.pod, j - 1)
      BY <1>1, <2>2, <3>1, <3>2 DEF IsFirst, Successive
    <3>. QED  BY <1>1, <2>2, <3>1, <3>3, QueuedFirst DEF Successive
  <2>. QED  BY <1>1, <2>1, <2>2 DEF ChainedIn
<1>6. ASSUME NEW k, k # n.pod
      PROVE  QueuedIn(t, m, k) = QueuedIn(q, m, k)
  <2>1. CASE \A i \in 1 .. Len(q) : q[i].pod # k
    BY <1>1, <1>2, <2>1, QueuedNone
  <2>2. ASSUME NEW j, IsFirst(q, k, j)
        PROVE  QueuedIn(t, m, k) = QueuedIn(q, m, k)
    <3>1. j - 1 \in 1 .. Len(t) /\ t[j - 1] = q[j]
      BY <1>1, <1>6, <2>2 DEF IsFirst
    <3>2. ASSUME NEW l \in 1 .. (j - 1) - 1 PROVE t[l].pod # k
      <4>1. l + 1 \in 1 .. j - 1 /\ l \in 1 .. Len(t)
        BY <3>1
      <4>. QED  BY <1>1, <2>2, <4>1 DEF IsFirst
    <3>3. IsFirst(t, k, j - 1)
      BY <2>2, <3>1, <3>2 DEF IsFirst
    <3>. QED  BY <1>1, <2>2, <3>1, <3>3, QueuedFirst
  <2>. QED  BY <2>1, <2>2, FirstExists
<1>. QED  BY <1>1, <1>3, <1>4, <1>5, <1>6 DEF t, n

\* The notifications r tell how m became m2, at most one of each pod.
Reports(r, m, m2) ==
  /\ \A i, j \in 1 .. Len(r) : r[i].pod = r[j].pod => i = j
  /\ \A i \in 1 .. Len(r) : r[i].old = m[r[i].pod] /\ r[i].new = m2[r[i].pod]
  /\ \A k \in Pods : (\A i \in 1 .. Len(r) : r[i].pod # k) => m2[k] = m[k]

\* The informer adds such notifications when its cache becomes m2: for every pod
\* the queue begins where it began.
LEMMA Telling ==
  ASSUME NEW q \in Seq(Notice), NEW r \in Seq(Notice), NEW m, NEW m2,
         ChainedIn(q, m), Reports(r, m, m2)
  PROVE  /\ q \o r \in Seq(Notice) /\ ChainedIn(q \o r, m2)
         /\ \A k \in Pods : QueuedIn(q \o r, m2, k) = QueuedIn(q, m, k)
<1>. DEFINE c == q \o r
            L == Len(q)
<1>. USE DEF Reports
<1>1. /\ c \in Seq(Notice) /\ L \in Nat /\ Len(r) \in Nat /\ Len(c) = L + Len(r)
      /\ \A i \in 1 .. L : c[i] = q[i]
      /\ \A i \in 1 .. Len(r) : c[L + i] = r[i]
  BY ConcatProperties
<1>2. \A i \in 1 .. L : q[i] \in Notice /\ q[i].pod \in Pods
  <2>1. \A i \in 1 .. L : q[i] \in Notice
    BY ElementOfSeq
  <2>. QED  BY <2>1 DEF Notice
<1>. HIDE DEF c, L
<1>3. \A i \in 1 .. Len(c) : \/ i \in 1 .. L
                             \/ i - L \in 1 .. Len(r) /\ c[i] = r[i - L]
  <2>. SUFFICES ASSUME NEW i \in 1 .. Len(c), i \notin 1 .. L
                PROVE  i - L \in 1 .. Len(r) /\ c[i] = r[i - L]
    OBVIOUS
  <2>1. i - L \in 1 .. Len(r) /\ L + (i - L) = i
    BY <1>1
  <2>. QED  BY <1>1, <2>1
<1>4. ChainedIn(c, m2)
  <2>. SUFFICES ASSUME NEW i \in 1 .. Len(c)
                PROVE  \/ /\ \A j \in i + 1 .. Len(c) : c[j].pod # c[i].pod
                          /\ c[i].new = m2[c[i].pod]
                       \/ \E j \in 1 .. Len(c) : Successive(c, i, j)
    BY DEF ChainedIn
  <2>1. CASE i \notin 1 .. L
    <3>1. PICK a \in 1 .. Len(r) : a = i - L /\ c[i] = r[a]
      BY <1>3, <2>1
    <3>2. ASSUME NEW j \in i + 1 .. Len(c) PROVE c[j].pod # c[i].pod
      <4>1. j \in 1 .. Len(c) /\ j \notin 1 .. L
        BY <1>1, <2>1
      <4>2. PICK b \in 1 .. Len(r) : b = j - L /\ c[j] = r[b]
        BY <1>3, <4>1
      <4>3. a # b
        BY <1>1, <3>1, <4>2
      <4>. QED  BY <3>1, <4>2, <4>3
    <3>. QED  BY <3>1, <3>2
  <2>2. ASSUME i \in 1 .. L, NEW j \in 1 .. L, Successive(q, i, j)
        PROVE  Successive(c, i, j)
    <3>1. j \in i + 1 .. Len(c) /\ c[i] = q[i] /\ c[j] = q[j]
      BY <1>1, <2>2 DEF Successive
    <3>2. \A l \in i + 1 .. j - 1 : l \in 1 .. L
      BY <1>1, <2>2
    <3>3. \A l \in i + 1 .. j - 1 : c[l] = q[l]
      BY <1>1, <3>2
    <3>. QED  BY <2>2, <3>1, <3>3 DEF Successive
  <2>3. CASE /\ i \in 1 .. L
             /\ \A j \in i + 1 .. L : q[j].pod # q[i].pod
             /\ q[i].new = m[q[i].pod]
    <3>1. CASE \A j \in 1 .. Len(r) : r[j].pod # q[i].pod
      <4>1. \A j \in i + 1 .. Len(c) : c[j].pod # c[i].pod
        <5>. SUFFICES ASSUME NEW j \in i + 1 .. Len(c) PROVE c[j].pod # c[i].pod
          OBVIOUS
        <5>1. CASE j \in 1 .. L
          BY <1>1, <2>3, <5>1
        <5>2. CASE j \notin 1 .. L
          BY <1>1, <1>3, <2>3, <3>1, <5>2
        <5>. QED  BY <5>1, <5>2
      <4>2. c[i].new = m2[c[i].pod]
        BY <1>1, <1>2, <2>3, <3>1
      <4>. QED  BY <4>1, <4>2
    <3>2. ASSUME NEW j \in 1 .. Len(r), r[j].pod = q[i].pod
          PROVE  \E h \in 1 .. Len(c) : Successive(c, i, h)
      <4>1. L + j \in i + 1 .. Len(c) /\ L + j \in 1 .. Len(c) /\ c[L + j] = r[j] /\ c[i] = q[i]
        BY <1>1, <2>3
      <4>2. ASSUME NEW l \in i + 1 .. (L + j) - 1 PROVE c[l].pod # c[i].pod
        <5>0. l \in 1 .. Len(c)
          BY <1>1, <2>3
        <5>1. CASE l \in 1 .. L
          BY <1>1, <2>3, <5>1
        <5>2. CASE l \notin 1 .. L
          <6>1. l - L \in 1 .. Len(r) /\ c[l] = r[l - L] /\ l - L # j
            BY <1>1, <1>3, <5>0, <5>2
          <6>. QED  BY <3>2, <4>1, <6>1
        <5>. QED  BY <5>1, <5>2
      <4>3. Successive(c, i, L + j)
        BY <2>3, <3>2, <4>1, <4>2 DEF Successive
      <4>. QED  BY <4>1, <4>3
    <3>. QED  BY <3>1, <3>2
  <2>4. \A j \in 1 .. L : j \in 1 .. Len(c)
    BY <1>1
  <2>. QED  BY <2>1, <2>2, <2>3, <2>4 DEF ChainedIn, L
<1>5. ASSUME NEW k \in Pods
      PROVE  QueuedIn(c, m2, k) = QueuedIn(q, m, k)
  <2>1. ASSUME NEW i, IsFirst(q, k, i)
        PROVE  QueuedIn(c, m2, k) = QueuedIn(q, m, k)
    <3>1. IsFirst(c, k, i) /\ c[i] = q[i]
      BY <1>1, <2>1 DEF IsFirst, L
    <3>. QED  BY <1>1, <2>1, <3>1, QueuedFirst
  <2>2. CASE \A i \in 1 .. L : q[i].pod # k
    <3>1. QueuedIn(q, m, k) = m[k]
      BY <2>2, QueuedNone DEF L
    <3>2. CASE \A i \in 1 .. Len(r) : r[i].pod # k
      <4>1. \A i \in 1 .. Len(c) : c[i].pod # k
        <5>. SUFFICES ASSUME NEW i \in 1 .. Len(c) PROVE c[i].pod # k
          OBVIOUS
        <5>1. CASE i \in 1 .. L
          BY <1>1, <2>2, <5>1
        <5>2. ASSUME NEW a \in 1 .. Len(r), a = i - L, c[i] = r[a]
              PROVE  c[i].pod # k
          BY <3>2, <5>2
        <5>. QED  BY <1>3, <5>1, <5>2
      <4>. QED  BY <3>1, <3>2, <4>1, QueuedNone
    <3>3. ASSUME NEW j \in 1 .. Len(r), r[j].pod = k
          PROVE  QueuedIn(c, m2, k) = m[k]
      <4>1. L + j \in 1 .. Len(c) /\ c[L + j] = r[j]
        BY <1>1
      <4>2. ASSUME NEW l \in 1 .. (L + j) - 1 PROVE c[l].pod # k
        <5>0. l \in 1 .. Len(c)
          BY <1>1
        <5>1. CASE l \in 1 .. L
          BY <1>1, <2>2, <5>1
        <5>2. CASE l \notin 1 .. L
          <6>1. l - L \in 1 .. Len(r) /\ c[l] = r[l - L] /\ l - L # j
            BY <1>1, <1>3, <5>0, <5>2
          <6>. QED  BY <3>3, <6>1
        <5>. QED  BY <5>1, <5>2
      <4>3. IsFirst(c, k, L + j)
        BY <3>3, <4>1, <4>2 DEF IsFirst
      <4>4. QueuedIn(c, m2, k) = c[L + j].old
        BY <1>1, <4>3, QueuedFirst
      <4>. QED  BY <3>3, <4>1, <4>4
    <3>. QED  BY <3>1, <3>2, <3>3
  <2>. QED  BY <2>1, <2>2, FirstExists DEF L
<1>. QED  BY <1>1, <1>4, <1>5 DEF c

\* One notification alone reports the change of one pod.
LEMMA TellingOne ==
  ASSUME NEW n \in Notice, NEW m, NEW m2, n.old = m[n.pod], n.new = m2[n.pod],
         \A k \in Pods \ {n.pod} : m2[k] = m[k]
  PROVE  <<n>> \in Seq(Notice) /\ Reports(<<n>>, m, m2)
<1>. DEFINE r == <<n>>
<1>1. r \in Seq(Notice) /\ Len(r) = 1 /\ r[1] = n
  OBVIOUS
<1>. HIDE DEF r
<1>2. \A i \in 1 .. Len(r) : i = 1 /\ r[i] = n
  BY <1>1
<1>3. Reports(r, m, m2)
  BY <1>1, <1>2 DEF Reports
<1>. QED  BY <1>1, <1>3 DEF r

\* What stands in the queue of a pod's name is a state it was in.
LEMMA QueuedSource ==
  ASSUME NEW q \in Seq(Notice), NEW m, NEW k
  PROVE  \/ QueuedIn(q, m, k) = m[k]
         \/ \E i \in 1 .. Len(q) : q[i].pod = k /\ QueuedIn(q, m, k) = q[i].old
<1>1. ASSUME NEW i, IsFirst(q, k, i)
      PROVE  i \in 1 .. Len(q) /\ q[i].pod = k /\ QueuedIn(q, m, k) = q[i].old
  <2>1. QueuedIn(q, m, k) = q[i].old
    BY <1>1, QueuedFirst
  <2>. QED  BY <1>1, <2>1 DEF IsFirst
<1>. QED  BY <1>1, FirstExists, QueuedNone

-----------------------------------------------------------------------------
(***************************************************************************)
(* The inductive invariant                                                 *)
(***************************************************************************)

\* The state of the pod before and after an event.
Before(e) == IF e.type = "Delete" THEN e.pod ELSE e.old
After(e)  == IF e.type = "Delete" THEN Nil ELSE e.pod

\* sendPodEvent has not come to s yet.
Awaits(s) ==
  sending # Nil /\ \E i \in DOMAIN Subscribers : i >= sending.to /\ Subscribers[i] = s

\* What the handlers, the subscriber's channel and the subscriber have not taken
\* note of yet begins with this state of k.
Queued(k) == QueuedIn(pending, seen, k)

Coming(s, k) ==
  IF Awaits(s) /\ sending.event.name = k THEN Before(sending.event) ELSE Queued(k)

Known(s, k) ==
  IF inbox[s] # Nil /\ inbox[s].name = k THEN Before(inbox[s]) ELSE Coming(s, k)

\* A state the pod k can be in, and how one state may follow another.
Of(k, p) ==
  \/ p = Nil
  \/ /\ p \in Pod /\ p.wants \in layout.wants[k]
     /\ p.phase = "Pending" => p.ip = Nil
     /\ p.phase # "Pending" => p.ip \in layout.ips[k]

Began(p) == p # Nil /\ p.phase # "Pending"

Follows(k, p, q) == k \notin Reused /\ Began(p) => q = Nil \/ Began(q)

\* A notification and an event as the informer and the handlers make them.
Told(n) ==
  /\ Of(n.pod, n.old) /\ Of(n.pod, n.new)
  /\ n.old # n.new /\ Follows(n.pod, n.old, n.new)

Sent(e) ==
  /\ e.pod # e.old /\ Of(e.name, e.pod) /\ Of(e.name, e.old)
  /\ e.type # "Delete" => Running(e.pod)
  /\ e.type # "Change" => e.old = Nil

Types ==
  /\ layout \in Layouts
  /\ store \in [Pods -> Pod \cup {Nil}] /\ seen \in [Pods -> Pod \cup {Nil}]
  /\ watching \in BOOLEAN /\ quiet \in BOOLEAN
  /\ pending \in Seq(Notice)
  /\ sending \in [event : PodEvent, to : DOMAIN Subscribers] \cup {Nil}
  /\ inbox \in [Subs -> PodEvent \cup {Nil}]
  /\ tables \in [Subs -> [IPs \cup {Nil} -> Target \cup {Nil}]]
  /\ \A s \in Subs, a \in IPs : tables[s][a] # Nil => tables[s][a].addr = a

\* The cache lags behind the store only while the watch is down.
Mirrored ==
  /\ \A k \in Pods : Of(k, store[k]) /\ Of(k, seen[k]) /\ Follows(k, seen[k], store[k])
  /\ \A k \in Pods : store[k] # Nil \/ seen[k] # Nil => k \in born
  /\ watching => seen = store

Sensible ==
  /\ \A i \in 1 .. Len(pending) : Told(pending[i])
  /\ sending # Nil => Sent(sending.event)
  /\ \A s \in Subs : inbox[s] # Nil => Sent(inbox[s])

Base == Types /\ Mirrored /\ Sensible /\ ChainedIn(pending, seen)

\* A step of the cluster or of the informer, seen by the subscribers.
Upstream ==
  /\ UNCHANGED <<layout, sending, inbox, tables>>
  /\ \A k \in Pods : Queued(k)' = Queued(k)

-----------------------------------------------------------------------------

LEMMA SubscriberFacts ==
  /\ \A i \in DOMAIN Subscribers : Subscribers[i] \in Subs
  /\ Len(Subscribers) \in Nat /\ DOMAIN Subscribers = 1 .. Len(Subscribers)
  /\ Subscribers = <<>> => Subs = {}
<1>1. Subscribers \in Seq(Subs)
  BY PodEventsAssumption
<1>2. Len(Subscribers) \in Nat /\ DOMAIN Subscribers = 1 .. Len(Subscribers)
  BY <1>1, LenProperties
<1>. QED  BY <1>2 DEF Subs

LEMMA LayoutFacts ==
  ASSUME Types, NEW k \in Pods
  PROVE  layout.ips[k] \subseteq IPs /\ layout.wants[k] \subseteq SUBSET Subs
BY PodEventsAssumption DEF Types, IPs

\* What Successors makes of a pod follows both its state in the cluster and the
\* one in the cache, however many changes the informer has missed.
LEMMA SuccessorsOf ==
  ASSUME Types, Mirrored, NEW k \in Pods, NEW new \in Successors(k)
  PROVE  /\ new \in Pod \cup {Nil} /\ Of(k, new)
         /\ Follows(k, store[k], new) /\ Follows(k, seen[k], new)
<1>. DEFINE p == store[k]
<1>1. /\ layout.ips[k] \subseteq IPs /\ layout.wants[k] \subseteq SUBSET Subs
      /\ p \in Pod \cup {Nil} /\ Of(k, p) /\ Nil \notin Pod
      /\ p # Nil => p.wants \in layout.wants[k]
  BY LayoutFacts, PodEventsAssumption DEF Types, Mirrored, Of
<1>2. CASE p = Nil
  <2>1. k \notin born \ Reused /\ new \in [phase : {"Pending"}, ip : {Nil}, wants : layout.wants[k]]
    BY <1>2 DEF Successors
  <2>2. new \in Pod /\ Of(k, new)
    BY <1>1, <2>1 DEF Pod, Of
  <2>3. Follows(k, p, new)
    BY <1>2 DEF Follows, Began
  <2>4. Follows(k, seen[k], new)
    BY <2>1 DEF Follows, Began, Mirrored
  <2>. QED  BY <2>2, <2>3, <2>4
<1>3. CASE p # Nil /\ p.phase = "Pending"
  <2>1. \/ new \in [phase : {"Running"}, ip : {a \in layout.ips[k] : Free(k, a)}, wants : {p.wants}]
        \/ new = Nil
    BY <1>3 DEF Successors
  <2>2. new \in Pod \cup {Nil} /\ Of(k, new)
    BY <1>1, <1>3, <2>1 DEF Pod, Of
  <2>3. new = Nil \/ Began(new)
    BY <1>1, <2>1 DEF Began
  <2>. QED  BY <2>2, <2>3 DEF Follows
<1>4. CASE p # Nil /\ p.phase = "Running"
  <2>1. \/ new \in [phase : {"Running"}, ip : {a \in layout.ips[k] : Free(k, a)}, wants : layout.wants[k]]
        \/ new = [p EXCEPT !.phase = "Done"]
        \/ new = Nil
    BY <1>4 DEF Successors
  <2>2. new \in Pod \cup {Nil} /\ Of(k, new) /\ (new = Nil \/ Began(new))
    <3>1. CASE new \in [phase : {"Running"}, ip : {a \in layout.ips[k] : Free(k, a)}, wants : layout.wants[k]]
      BY <1>1, <3>1 DEF Pod, Of, Began
    <3>2. CASE new = [p EXCEPT !.phase = "Done"]
      BY <1>1, <1>4, <3>2 DEF Pod, Of, Began
    <3>3. CASE new = Nil
      BY <3>3 DEF Of
    <3>. QED  BY <2>1, <3>1, <3>2, <3>3
  <2>. QED  BY <2>2 DEF Follows
<1>5. CASE p # Nil /\ p.phase \notin {"Pending", "Running"}
  <2>1. \/ new \in [phase : {"Done"}, ip : {p.ip}, wants : layout.wants[k]]
        \/ new = Nil
    BY <1>5 DEF Successors
  <2>2. new \in Pod \cup {Nil} /\ Of(k, new) /\ (new = Nil \/ Began(new))
    BY <1>1, <1>5, <2>1 DEF Pod, Of, Began
  <2>. QED  BY <2>2 DEF Follows
<1>. QED  BY <1>2, <1>3, <1>4, <1>5

\* A handler sends what happened to the pod, or drops an update to a pod that
\* does not run.
LEMMA HandleFacts ==
  ASSUME NEW n \in Notice, Told(n)
  PROVE  \/ Handle(n) = Nil /\ n.new # Nil /\ ~Running(n.new)
         \/ /\ Handle(n) \in PodEvent /\ Handle(n) # Nil /\ Sent(Handle(n))
            /\ Handle(n).name = n.pod
            /\ Before(Handle(n)) = n.old /\ After(Handle(n)) = n.new
            /\ Handle(n).type = "Add" <=> n.old = Nil
            /\ n.old = Nil => Handle(n).pod = n.new
<1>. DEFINE e == Handle(n)
<1>1. Nil \notin PodEvent /\ Nil \notin Pod
  BY PodEventsAssumption
<1>2. CASE n.new = Nil
  <2>1. e = [type |-> "Delete", name |-> n.pod, pod |-> n.old, old |-> Nil] /\ n.old \in Pod
    BY <1>2 DEF Handle, Event, Told, Notice
  <2>. QED  BY <1>1, <1>2, <2>1 DEF PodEvent, Sent, Told, Before, After, Of, Notice
<1>3. CASE n.new # Nil /\ Running(n.new) /\ n.old = Nil
  <2>1. e = [type |-> "Add", name |-> n.pod, pod |-> n.new, old |-> Nil] /\ n.new \in Pod
    BY <1>3 DEF Handle, Event, Told, Notice
  <2>. QED  BY <1>1, <1>3, <2>1 DEF PodEvent, Sent, Told, Before, After, Of, Notice
<1>4. CASE n.new # Nil /\ Running(n.new) /\ n.old # Nil
  <2>1. e = [type |-> "Change", name |-> n.pod, pod |-> n.new, old |-> n.old]
        /\ n.new \in Pod /\ n.old \in Pod
    BY <1>4 DEF Handle, Event, Told, Notice
  <2>. QED  BY <1>1, <1>4, <2>1 DEF PodEvent, Sent, Told, Before, After, Of, Notice
<1>5. CASE n.new # Nil /\ ~Running(n.new)
  BY <1>5 DEF Handle
<1>. QED  BY <1>2, <1>3, <1>4, <1>5

-----------------------------------------------------------------------------
(***************************************************************************)
(* The steps of the cluster and of the informer                            *)
(***************************************************************************)

LEMMA BaseInit == Init => Base
<1>. SUFFICES ASSUME Init PROVE Base
  OBVIOUS
<1>1. Types
  <2>1. tables \in [Subs -> [IPs \cup {Nil} -> Target \cup {Nil}]]
        /\ \A s \in Subs, a \in IPs : tables[s][a] = Nil
    BY DEF Init, EmptyTables
  <2>2. /\ store \in [Pods -> Pod \cup {Nil}] /\ seen \in [Pods -> Pod \cup {Nil}]
        /\ inbox \in [Subs -> PodEvent \cup {Nil}]
    BY DEF Init, NoPods
  <2>3. layout \in Layouts /\ watching = FALSE /\ quiet = TRUE
        /\ pending \in Seq(Notice) /\ sending = Nil
    BY DEF Init
  <2>. QED  BY <2>1, <2>2, <2>3 DEF Types
<1>2. Mirrored /\ Sensible
  BY DEF Init, Mirrored, Sensible, NoPods, Of, Follows
<1>3. ChainedIn(pending, seen)
  BY DEF Init, ChainedIn
<1>. QED  BY <1>1, <1>2, <1>3 DEF Base

LEMMA ChangeStep ==
  ASSUME Base, NEW k \in Pods, NEW new \in Successors(k), PodChanges(k, new)
  PROVE  Base' /\ Upstream
<1>1. /\ new \in Pod \cup {Nil} /\ Of(k, new)
      /\ Follows(k, store[k], new) /\ Follows(k, seen[k], new)
  BY SuccessorsOf DEF Base
<1>. USE DEF Base
<1>2. /\ UNCHANGED <<layout, watching, sending, inbox, tables>>
      /\ store' = [store EXCEPT ![k] = new] /\ born' = born \cup {k} /\ quiet' = FALSE
      /\ new # store[k]
  BY DEF PodChanges
<1>3. CASE watching
  <2>. DEFINE n == Notification(k, new, FALSE)
  <2>1. pending' = Append(pending, n) /\ seen' = [seen EXCEPT ![k] = new] /\ seen = store
    BY <1>3 DEF PodChanges, Mirrored
  <2>2. n \in Notice /\ n.pod = k /\ n.old = seen[k] /\ n.new = new
    BY <1>1 DEF Notification, Notice, Types
  <2>3. Told(n)
    BY <1>1, <1>2, <2>1, <2>2 DEF Told, Mirrored
  <2>. HIDE DEF n
  <2>5. /\ pending' \in Seq(Notice) /\ ChainedIn(pending', seen')
        /\ \A j \in Pods : QueuedIn(pending', seen', j) = QueuedIn(pending, seen, j)
    <3>1. n.new = seen'[n.pod] /\ \A j \in Pods \ {n.pod} : seen'[j] = seen[j]
      BY <2>1, <2>2 DEF Types
    <3>2. pending \in Seq(Notice) /\ ChainedIn(pending, seen)
      BY DEF Types
    <3>. DEFINE r == <<n>>
    <3>3. r \in Seq(Notice) /\ Reports(r, seen, seen')
      BY <2>2, <3>1, TellingOne
    <3>4. pending' = pending \o r
      BY <2>1, <2>2, <3>2, AppendIsConcat
    <3>. HIDE DEF n, r
    <3>. QED  BY <3>2, <3>3, <3>4, Telling
  <2>6. Types'
    BY <1>1, <1>2, <2>1, <2>5 DEF Types
  <2>7. Mirrored'
    BY <1>1, <1>2, <2>1 DEF Mirrored, Types, Of, Follows
  <2>8. Sensible'
    <3>1. \A i \in 1 .. Len(pending') : \/ i \in 1 .. Len(pending) /\ pending'[i] = pending[i]
                                        \/ pending'[i] = n
      BY <2>1, <2>2, AppendProperties DEF Types
    <3>2. \A x : Told(x) => Told(x)'
      BY <1>2 DEF Told, Of, Follows
    <3>. QED  BY <1>2, <2>3, <3>1, <3>2 DEF Sensible, Sent, Of
  <2>. QED  BY <1>2, <2>5, <2>6, <2>7, <2>8 DEF Upstream, Queued
<1>4. CASE ~watching
  <2>1. pending' = pending /\ seen' = seen
    BY <1>4 DEF PodChanges
  <2>2. Types'
    BY <1>1, <1>2, <2>1 DEF Types
  <2>3. Mirrored'
    BY <1>1, <1>2, <1>4, <2>1 DEF Mirrored, Types, Of, Follows
  <2>4. Sensible'
    BY <1>2, <2>1 DEF Sensible, Sent, Told, Of, Follows
  <2>. QED  BY <1>2, <2>1, <2>2, <2>3, <2>4 DEF Upstream, Queued
<1>. QED  BY <1>3, <1>4 DEF Types

LEMMA BreakStep ==
  ASSUME Base, WatchBreaks
  PROVE  Base' /\ Upstream
<1>1. Types' /\ Mirrored' /\ Sensible'
  BY DEF Base, WatchBreaks, cluster, Types, Mirrored, Sensible, Sent, Told, Of, Follows
<1>. QED  BY <1>1 DEF Base, WatchBreaks, cluster, Upstream, Queued

LEMMA RelistFacts ==
  ASSUME Base, Relist
  PROVE  /\ UNCHANGED <<layout, store, born, sending, inbox, tables, quiet>>
         /\ seen' = store /\ watching' = TRUE
         /\ \E r \in Seq(Notice) :
              /\ pending' = pending \o r /\ Reports(r, seen, store)
              /\ \A i \in 1 .. Len(r) : r[i].old # r[i].new
<1>. USE DEF Base
<1>. DEFINE S == {k \in Pods : seen[k] # store[k]}
<1>1. PICK o \in Orders(S) :
        pending' = pending \o [i \in DOMAIN o |-> Notification(o[i], store[o[i]], TRUE)]
  BY DEF Relist
<1>2. /\ UNCHANGED <<layout, store, born, sending, inbox, tables, quiet>>
      /\ seen' = store /\ watching' = TRUE
  BY DEF Relist, cluster
<1>. DEFINE r == [i \in DOMAIN o |-> Notification(o[i], store[o[i]], TRUE)]
<1>3. Cardinality(S) \in Nat
  BY PodEventsAssumption, FS_Subset, FS_CardinalityType
<1>4. /\ o \in [1 .. Cardinality(S) -> S]
      /\ \A i, j \in 1 .. Cardinality(S) : o[i] = o[j] => i = j
      /\ DOMAIN o = 1 .. Cardinality(S)
      /\ \A k \in S : \E i \in 1 .. Cardinality(S) : o[i] = k
  <2>1. /\ o \in [1 .. Cardinality(S) -> S] /\ DOMAIN o = 1 .. Cardinality(S)
        /\ \A i, j \in 1 .. Cardinality(S) : o[i] = o[j] => i = j
    BY <1>1 DEF Orders
  <2>2. o \in Injection(1 .. Cardinality(S), S)
    BY <2>1, Fun_IsInj
  <2>3. Cardinality(1 .. Cardinality(S)) = Cardinality(S)
    BY <1>3, FS_Interval
  <2>4. o \in Surjection(1 .. Cardinality(S), S)
    BY <2>2, <2>3, PodEventsAssumption, FS_Subset, FS_Injection
  <2>. QED  BY <2>1, <2>4 DEF Surjection
<1>. DEFINE c == Cardinality(S)
<1>5. /\ r \in Seq(Notice) /\ Len(r) = c
      /\ \A i \in 1 .. c : /\ r[i].pod = o[i] /\ o[i] \in S
                           /\ r[i].old = seen[o[i]] /\ r[i].new = store[o[i]]
  <2>1. \A i \in 1 .. c : o[i] \in Pods /\ o[i] \in S
    BY <1>4
  <2>2. \A i \in 1 .. c : Notification(o[i], store[o[i]], TRUE) \in Notice
    BY <2>1 DEF Notification, Notice, Types
  <2>3. r \in [1 .. c -> Notice]
    BY <1>4, <2>2
  <2>4. r \in Seq(Notice) /\ Len(r) = c
    <3>1. \A f, l : l \in Nat /\ f \in [1 .. l -> Notice] => f \in Seq(Notice) /\ Len(f) = l
      OBVIOUS
    <3>. HIDE DEF r, S
    <3>. QED  BY <1>3, <2>3, <3>1
  <2>5. \A i \in 1 .. c : r[i] = Notification(o[i], store[o[i]], TRUE)
    BY <1>4
  <2>. HIDE DEF r
  <2>. QED  BY <2>1, <2>4, <2>5 DEF Notification
<1>6. pending' = pending \o r
  BY <1>1
<1>. HIDE DEF r, c, S
<1>7. Reports(r, seen, store)
  <2>1. \A i, j \in 1 .. Len(r) : r[i].pod = r[j].pod => i = j
    BY <1>4, <1>5 DEF c
  <2>2. \A i \in 1 .. Len(r) : r[i].old = seen[r[i].pod] /\ r[i].new = store[r[i].pod]
    BY <1>5
  <2>3. \A k \in Pods : (\A i \in 1 .. Len(r) : r[i].pod # k) => store[k] = seen[k]
    <3>1. \A k \in Pods : k \notin S => store[k] = seen[k]
      BY DEF S
    <3>. QED  BY <1>4, <1>5, <3>1 DEF c
  <2>. QED  BY <2>1, <2>2, <2>3 DEF Reports
<1>8. \A i \in 1 .. Len(r) : r[i].old # r[i].new
  BY <1>5 DEF S
<1>. QED  BY <1>2, <1>5, <1>6, <1>7, <1>8

LEMMA RelistStep ==
  ASSUME Base, Relist
  PROVE  Base' /\ Upstream
<1>. USE DEF Base
<1>1. /\ UNCHANGED <<layout, store, born, sending, inbox, tables, quiet>>
      /\ seen' = store /\ watching' = TRUE
  BY RelistFacts
<1>2. PICK r \in Seq(Notice) :
              /\ pending' = pending \o r /\ Reports(r, seen, store)
              /\ \A i \in 1 .. Len(r) : r[i].old # r[i].new
  BY RelistFacts
<1>3. pending \in Seq(Notice) /\ ChainedIn(pending, seen)
  BY DEF Types
<1>4. /\ pending' \in Seq(Notice) /\ ChainedIn(pending', store)
      /\ \A k \in Pods : QueuedIn(pending', store, k) = QueuedIn(pending, seen, k)
  BY <1>2, <1>3, Telling
<1>5. Types'
  BY <1>1, <1>4 DEF Types
<1>6. Mirrored'
  BY <1>1 DEF Mirrored, Of, Follows, Types
<1>7. Sensible'
  <2>1. \A i \in 1 .. Len(r) : Told(r[i])
    <3>1. \A i \in 1 .. Len(r) : r[i] \in Notice /\ r[i].pod \in Pods
      <4>1. \A i \in 1 .. Len(r) : r[i] \in Notice
        BY ElementOfSeq
      <4>. QED  BY <4>1 DEF Notice
    <3>. QED  BY <1>2, <3>1 DEF Told, Mirrored, Reports
  <2>2. \A x : Told(x) => Told(x)'
    BY <1>1 DEF Told, Of, Follows
  <2>3. \A i \in 1 .. Len(pending') : Told(pending'[i])
    BY <1>2, <1>3, <2>1, ConcatElements DEF Sensible
  <2>. QED  BY <1>1, <2>2, <2>3 DEF Sensible, Sent, Of
<1>. QED  BY <1>1, <1>4, <1>5, <1>6, <1>7 DEF Upstream, Queued

-----------------------------------------------------------------------------
(***************************************************************************)
(* What an event does to a table                                           *)
(***************************************************************************)

Table == [IPs \cup {Nil} -> Target \cup {Nil}]

\* TargetFromPod: a target at the pod's address if its annotations name s.
LEMMA TargetFacts ==
  ASSUME NEW s, NEW k \in Pods, NEW p \in Pod
  PROVE  /\ TargetOf(s, k, Nil) = Nil
         /\ s \notin p.wants => TargetOf(s, k, p) = Nil
         /\ s \in p.wants => /\ TargetOf(s, k, p) \in Target /\ TargetOf(s, k, p) # Nil
                             /\ TargetOf(s, k, p).addr = p.ip
<1>1. Nil \notin Pod /\ Nil \notin Target
  BY PodEventsAssumption
<1>. QED  BY <1>1 DEF TargetOf, Target, Pod

Put(table, a, t) == [table EXCEPT ![a] = t]

LEMMA PutFacts ==
  ASSUME NEW table \in Table, NEW a \in IPs \cup {Nil}, NEW t
  PROVE  /\ t \in Target \cup {Nil} => Put(table, a, t) \in Table
         /\ Put(table, a, t)[a] = t
         /\ \A b \in IPs : b # a => Put(table, a, t)[b] = table[b]
BY DEF Put, Table

\* One round of discoverFromPods, case by case.
LEMMA ApplyCases ==
  ASSUME NEW e \in PodEvent, Sent(e), NEW s, NEW table
  PROVE  /\ e.type = "Delete" /\ s \in e.pod.wants
              => Apply(s, e, table) = Put(table, e.pod.ip, Nil)
         /\ e.type = "Delete" /\ s \notin e.pod.wants => Apply(s, e, table) = table
         /\ e.type # "Delete" /\ s \in e.pod.wants
              => Apply(s, e, table) = Put(table, e.pod.ip, TargetOf(s, e.name, e.pod))
         /\ e.type # "Delete" /\ s \notin e.pod.wants /\ (e.old = Nil \/ s \notin e.old.wants)
              => Apply(s, e, table) = table
         /\ e.type # "Delete" /\ s \notin e.pod.wants /\ e.old # Nil /\ s \in e.old.wants
              => Apply(s, e, table) = Put(table, e.old.ip, Nil)
<1>1. e.name \in Pods /\ e.pod \in Pod /\ e.old \in Pod \cup {Nil}
  BY DEF PodEvent
<1>. DEFINE t == TargetOf(s, e.name, e.pod)
            old == TargetOf(s, e.name, e.old)
<1>2. /\ s \notin e.pod.wants => t = Nil
      /\ s \in e.pod.wants => t # Nil /\ t.addr = e.pod.ip
      /\ e.old = Nil => old = Nil
      /\ e.old # Nil /\ s \notin e.old.wants => old = Nil
      /\ e.old # Nil /\ s \in e.old.wants => old # Nil /\ old.addr = e.old.ip
  <2>1. e.old = Nil => old = Nil
    BY <1>1, TargetFacts
  <2>. QED  BY <1>1, <2>1, TargetFacts
<1>3. Apply(s, e, table) = IF e.type = "Delete" THEN Without(table, t)
                           ELSE IF t = Nil THEN Without(table, old)
                           ELSE Put(table, t.addr, t)
  BY DEF Apply, Put
<1>4. \A x : Without(table, x) = IF x = Nil THEN table ELSE Put(table, x.addr, Nil)
  BY DEF Without, Put
<1>. HIDE DEF t, old
<1>5. /\ e.type = "Delete" /\ s \in e.pod.wants => Apply(s, e, table) = Put(table, e.pod.ip, Nil)
      /\ e.type = "Delete" /\ s \notin e.pod.wants => Apply(s, e, table) = table
      /\ e.type # "Delete" /\ s \in e.pod.wants => Apply(s, e, table) = Put(table, e.pod.ip, t)
  BY <1>2, <1>3, <1>4
<1>6. /\ e.type # "Delete" /\ s \notin e.pod.wants /\ (e.old = Nil \/ s \notin e.old.wants)
           => Apply(s, e, table) = table
      /\ e.type # "Delete" /\ s \notin e.pod.wants /\ e.old # Nil /\ s \in e.old.wants
           => Apply(s, e, table) = Put(table, e.old.ip, Nil)
  BY <1>2, <1>3, <1>4
<1>. QED  BY <1>5, <1>6 DEF t

\* An event changes a table at most at the address of one of its two pods.
LEMMA ApplyPuts ==
  ASSUME NEW e \in PodEvent, Sent(e), NEW s, NEW table
  PROVE  \/ Apply(s, e, table) = table
         \/ Apply(s, e, table) = Put(table, e.pod.ip, Nil)
         \/ e.old # Nil /\ Apply(s, e, table) = Put(table, e.old.ip, Nil)
         \/ /\ s \in e.pod.wants
            /\ Apply(s, e, table) = Put(table, e.pod.ip, TargetOf(s, e.name, e.pod))
BY ApplyCases

LEMMA ApplyType ==
  ASSUME NEW e \in PodEvent, Sent(e), NEW s, NEW table \in Table,
         \A a \in IPs : table[a] # Nil => table[a].addr = a
  PROVE  /\ Apply(s, e, table) \in Table
         /\ \A a \in IPs : Apply(s, e, table)[a] # Nil => Apply(s, e, table)[a].addr = a
<1>1. /\ e.name \in Pods /\ e.pod \in Pod /\ e.pod.ip \in IPs \cup {Nil}
      /\ e.old # Nil => e.old.ip \in IPs \cup {Nil}
  BY DEF PodEvent, Pod
<1>2. s \in e.pod.wants => /\ TargetOf(s, e.name, e.pod) \in Target
                           /\ TargetOf(s, e.name, e.pod).addr = e.pod.ip
  BY <1>1, TargetFacts
<1>3. ASSUME NEW a \in IPs \cup {Nil}, NEW t \in Target \cup {Nil}, t # Nil => t.addr = a,
             Apply(s, e, table) = Put(table, a, t)
      PROVE  /\ Apply(s, e, table) \in Table
             /\ \A b \in IPs : Apply(s, e, table)[b] # Nil => Apply(s, e, table)[b].addr = b
  BY <1>3, PutFacts
<1>. QED  BY <1>1, <1>2, <1>3, ApplyPuts

LEMMA EventPlaces ==
  ASSUME Types, NEW e \in PodEvent, Sent(e)
  PROVE  /\ e.pod.ip \in layout.ips[e.name] \cup {Nil}
         /\ e.old # Nil => e.old.ip \in layout.ips[e.name] \cup {Nil}
         /\ e.type # "Delete" => e.pod.ip \in layout.ips[e.name]
         /\ e.pod.wants \in layout.wants[e.name]
         /\ e.old # Nil => e.old.wants \in layout.wants[e.name]
         /\ layout.ips[e.name] \subseteq IPs /\ e.name \in Pods
<1>1. Nil \notin Pod /\ e.pod \in Pod /\ e.name \in Pods
  BY PodEventsAssumption DEF PodEvent
<1>. QED  BY <1>1, LayoutFacts DEF Sent, Of, Running

\* It leaves the address of a pod alone that shares none with the event's.
LEMMA ApplyElsewhere ==
  ASSUME Types, NEW e \in PodEvent, Sent(e), NEW s, NEW table \in Table,
         NEW k \in Pods, k # e.name, Alone(k), NEW a \in layout.ips[k]
  PROVE  Apply(s, e, table)[a] = table[a]
<1>1. a # e.pod.ip /\ (e.old # Nil => a # e.old.ip)
  <2>1. a \in IPs /\ Nil \notin IPs
    BY LayoutFacts, PodEventsAssumption
  <2>2. layout.ips[e.name] \cap layout.ips[k] = {}
    BY EventPlaces DEF Alone
  <2>. QED  BY <2>1, <2>2, EventPlaces
<1>2. /\ e.pod.ip \in IPs \cup {Nil} /\ a \in IPs
      /\ e.old # Nil => e.old.ip \in IPs \cup {Nil}
  BY EventPlaces, LayoutFacts
<1>. QED  BY <1>1, <1>2, ApplyPuts, PutFacts

\* The annotations of every pod name s1 and s2 together.
Partners(s1, s2) == \A k \in Pods : \A w \in layout.wants[k] : s1 \in w <=> s2 \in w

SamePlaces(t1, t2) == \A a \in IPs : (t1[a] = Nil) <=> (t2[a] = Nil)

\* It changes the tables of partners in the same way.
LEMMA ApplyTogether ==
  ASSUME Types, NEW e \in PodEvent, Sent(e), NEW s1, NEW s2, Partners(s1, s2),
         NEW t1 \in Table, NEW t2 \in Table, SamePlaces(t1, t2)
  PROVE  SamePlaces(Apply(s1, e, t1), Apply(s2, e, t2))
<1>1. /\ s1 \in e.pod.wants <=> s2 \in e.pod.wants
      /\ e.old # Nil => (s1 \in e.old.wants <=> s2 \in e.old.wants)
  BY EventPlaces DEF Partners
<1>2. \A a \in IPs \cup {Nil} : \A x1, x2 :
        ((x1 = Nil) <=> (x2 = Nil)) => SamePlaces(Put(t1, a, x1), Put(t2, a, x2))
  BY PutFacts DEF SamePlaces
<1>3. /\ e.pod.ip \in IPs \cup {Nil}
      /\ e.old # Nil => e.old.ip \in IPs \cup {Nil}
      /\ s1 \in e.pod.wants => TargetOf(s1, e.name, e.pod) # Nil
      /\ s2 \in e.pod.wants => TargetOf(s2, e.name, e.pod) # Nil
  BY TargetFacts DEF PodEvent, Pod
<1>4. CASE s1 \in e.pod.wants
  <2>1. CASE e.type = "Delete"
    BY <1>1, <1>2, <1>3, <1>4, <2>1, ApplyCases
  <2>2. CASE e.type # "Delete"
    BY <1>1, <1>2, <1>3, <1>4, <2>2, ApplyCases
  <2>. QED  BY <2>1, <2>2
<1>5. CASE s1 \notin e.pod.wants
  <2>1. CASE e.type # "Delete" /\ e.old # Nil /\ s1 \in e.old.wants
    BY <1>1, <1>2, <1>3, <1>5, <2>1, ApplyCases
  <2>2. CASE ~(e.type # "Delete" /\ e.old # Nil /\ s1 \in e.old.wants)
    BY <1>1, <1>5, <2>2, ApplyCases
  <2>. QED  BY <2>1, <2>2
<1>. QED  BY <1>4, <1>5

-----------------------------------------------------------------------------
(***************************************************************************)
(* What a subscriber knows and what its table holds                        *)
(***************************************************************************)

\* q is p, or what became of p while it was not worth an event.
Link(k, p, q) == q = p \/ (q # Nil /\ ~Running(q) /\ Follows(k, p, q))

Linked ==
  /\ sending # Nil =>
       Link(sending.event.name, After(sending.event), Queued(sending.event.name))
  /\ \A s \in Subs : inbox[s] # Nil =>
       Link(inbox[s].name, After(inbox[s]), Coming(s, inbox[s].name))

\* A pod that runs, as far as the subscriber knows, is in its table.
Served ==
  \A k \in Pods, s \in Subs :
    LET p == Known(s, k) IN
    Running(p) /\ s \in p.wants /\ Alone(k) => tables[s][p.ip] = TargetOf(s, k, p)

\* The pods NoGhosts is about.
Steady(k) ==
  /\ Alone(k) /\ k \notin Reused
  /\ Cardinality(layout.ips[k]) = 1 /\ Cardinality(layout.wants[k]) = 1

\* What is in the table at the address of such a pod stands for that pod.
Accounted ==
  \A k \in Pods, s \in Subs : \A a \in layout.ips[k] :
    Steady(k) /\ tables[s][a] # Nil =>
      LET p == Known(s, k) IN p # Nil /\ p.ip = a /\ s \in p.wants

\* The table once the events on their way to s have been worked through.
Handled(s) == IF inbox[s] = Nil THEN tables[s] ELSE Apply(s, inbox[s], tables[s])
Taken(s)   == IF Awaits(s) THEN Apply(s, sending.event, Handled(s)) ELSE Handled(s)

Together ==
  \A s1, s2 \in Subs : Partners(s1, s2) => SamePlaces(Taken(s1), Taken(s2))

Follow == Linked /\ Served /\ Accounted /\ Together

TableInv == Base /\ Follow

-----------------------------------------------------------------------------

LEMMA KnownOf ==
  ASSUME Base, NEW k \in Pods, NEW s \in Subs
  PROVE  /\ Of(k, Queued(k)) /\ Of(k, Coming(s, k)) /\ Of(k, Known(s, k))
         /\ Queued(k) \in Pod \cup {Nil} /\ Coming(s, k) \in Pod \cup {Nil}
         /\ Known(s, k) \in Pod \cup {Nil}
<1>1. Of(k, Queued(k))
  <2>1. pending \in Seq(Notice) /\ Of(k, seen[k])
    BY DEF Base, Types, Mirrored
  <2>2. \A i \in 1 .. Len(pending) : pending[i].pod = k => Of(k, pending[i].old)
    BY DEF Base, Sensible, Told
  <2>. QED  BY <2>1, <2>2, QueuedSource DEF Queued
<1>2. \A e : Sent(e) => Of(e.name, Before(e))
  BY DEF Sent, Before
<1>3. Of(k, Coming(s, k))
  BY <1>1, <1>2 DEF Coming, Awaits, Base, Sensible
<1>4. Of(k, Known(s, k))
  BY <1>2, <1>3 DEF Known, Base, Sensible
<1>. QED  BY <1>1, <1>3, <1>4 DEF Of

LEMMA HandledType ==
  ASSUME Base, NEW s \in Subs
  PROVE  Handled(s) \in Table /\ Taken(s) \in Table
<1>1. tables[s] \in Table /\ \A a \in IPs : tables[s][a] # Nil => tables[s][a].addr = a
  BY DEF Base, Types, Table
<1>2. /\ inbox[s] # Nil => inbox[s] \in PodEvent /\ Sent(inbox[s])
      /\ sending # Nil => sending.event \in PodEvent /\ Sent(sending.event)
  BY DEF Base, Types, Sensible
<1>3. Handled(s) \in Table /\ \A a \in IPs : Handled(s)[a] # Nil => Handled(s)[a].addr = a
  BY <1>1, <1>2, ApplyType DEF Handled
<1>4. Taken(s) \in Table
  BY <1>2, <1>3, ApplyType DEF Taken, Awaits
<1>. QED  BY <1>3, <1>4

\* A steady pod that has begun is at one address, with one set of annotations.
LEMMA SteadyFacts ==
  ASSUME Types, NEW k \in Pods, Steady(k)
  PROVE  /\ \A a, b \in layout.ips[k] : a = b
         /\ \A v, w \in layout.wants[k] : v = w
<1>1. IsFiniteSet(Subs)
  <2>1. Subscribers \in Surjection(1 .. Len(Subscribers), Subs)
    BY SubscriberFacts, PodEventsAssumption DEF Surjection, Subs
  <2>2. IsFiniteSet(1 .. Len(Subscribers))
    BY SubscriberFacts, FS_Interval
  <2>. QED  BY <2>1, <2>2, FS_Surjection
<1>2. IsFiniteSet(layout.ips[k]) /\ IsFiniteSet(layout.wants[k])
  <2>1. layout.wants[k] \in SUBSET (SUBSET Subs)
    BY LayoutFacts
  <2>2. IsFiniteSet(layout.wants[k])
    BY <1>1, <2>1, FS_SUBSET, FS_Subset
  <2>. QED  BY <2>2, PodEventsAssumption DEF Types
<1>. QED  BY <1>2, FS_Singleton DEF Steady

LEMMA FollowInit == Init => Follow
<1>. SUFFICES ASSUME Init PROVE Follow
  OBVIOUS
<1>1. sending = Nil /\ \A s \in Subs : inbox[s] = Nil
  BY DEF Init
<1>2. \A s \in Subs, k \in Pods : Known(s, k) = Nil
  <2>1. \A k \in Pods : Queued(k) = Nil
    BY QueuedNone DEF Init, NoPods, Queued
  <2>. QED  BY <1>1, <2>1 DEF Known, Coming, Awaits
<1>3. \A s \in Subs, a \in IPs \cup {Nil} : tables[s][a] = Nil
  BY DEF Init, EmptyTables
<1>4. Linked
  BY <1>1 DEF Linked
<1>5. Served
  BY <1>2 DEF Served, Running
<1>6. Accounted
  BY <1>3, LayoutFacts, BaseInit DEF Accounted, Base
<1>7. Together
  BY <1>1, <1>3 DEF Together, Taken, Handled, Awaits, SamePlaces
<1>. QED  BY <1>4, <1>5, <1>6, <1>7 DEF Follow

\* The cluster and the informer do not change what a subscriber knows.
LEMMA UpstreamKeeps ==
  ASSUME TableInv, Upstream
  PROVE  Follow'
<1>. USE DEF TableInv
<1>1. UNCHANGED <<layout, sending, inbox, tables>>
  BY DEF Upstream
<1>2. /\ sending # Nil => sending.event.name \in Pods
      /\ \A s \in Subs : inbox[s] # Nil => inbox[s].name \in Pods
  BY DEF Base, Types, PodEvent
<1>3. \A s : Awaits(s)' = Awaits(s)
  BY <1>1 DEF Awaits
<1>4. \A s, k : k \in Pods => Queued(k)' = Queued(k) /\ Coming(s, k)' = Coming(s, k)
                              /\ Known(s, k)' = Known(s, k)
  BY <1>1, <1>3 DEF Upstream, Coming, Known
<1>5. Linked'
  BY <1>1, <1>2, <1>4 DEF Follow, Linked, Link, Follows
<1>6. Served'
  BY <1>1, <1>4 DEF Follow, Served, Alone
<1>7. Accounted'
  BY <1>1, <1>4 DEF Follow, Accounted, Steady, Alone
<1>8. Together'
  BY <1>1, <1>3 DEF Follow, Together, Taken, Handled, Partners, SamePlaces
<1>. QED  BY <1>5, <1>6, <1>7, <1>8 DEF Follow

-----------------------------------------------------------------------------
(***************************************************************************)
(* The steps of the handlers and of sendPodEvent                           *)
(***************************************************************************)

\* Notify takes the notification n.
Takes(n) ==
  /\ UNCHANGED <<layout, store, born, seen, watching, inbox, tables, quiet>>
  /\ sending = Nil
  /\ Told(n) /\ \E i \in 1 .. Len(pending) : n = pending[i]
  /\ pending' \in Seq(Notice) /\ ChainedIn(pending', seen')
  /\ \A i \in 1 .. Len(pending') : \E j \in 1 .. Len(pending) : pending'[i] = pending[j]
  /\ \A i \in 1 .. Len(pending) :
       pending[i] = n \/ \E j \in 1 .. Len(pending') : pending'[j] = pending[i]
  /\ Queued(n.pod) = n.old /\ Queued(n.pod)' = n.new
  /\ \A k \in Pods : k # n.pod => Queued(k)' = Queued(k)

\* It has no event for it, or nobody to send it to.
Skips(n) == sending' = Nil /\ (Subs = {} \/ (n.new # Nil /\ ~Running(n.new)))

\* It sends the event e.
Sends(n, e) ==
  /\ sending' = [event |-> e, to |-> 1] /\ 1 \in DOMAIN Subscribers
  /\ e \in PodEvent /\ Sent(e) /\ e.name = n.pod
  /\ Before(e) = n.old /\ After(e) = n.new
  /\ n.old = Nil => e.type = "Add" /\ e.pod = n.new

\* Every step of the handlers does one or the other.
LEMMA NotifyFacts ==
  ASSUME Base, Notify
  PROVE  \E n \in Notice : Takes(n) /\ (Skips(n) \/ Sends(n, Handle(n)))
<1>1. PICK n : n = Head(pending)
  OBVIOUS
<1>. DEFINE e == Handle(n)
<1>2. /\ UNCHANGED <<layout, store, born, seen, watching, inbox, tables, quiet>>
      /\ sending = Nil /\ pending # <<>> /\ pending' = Tail(pending)
      /\ sending' = IF e = Nil \/ Subscribers = <<>> THEN Nil ELSE [event |-> e, to |-> 1]
  BY <1>1 DEF Notify, cluster
<1>3. /\ pending \in Seq(Notice) /\ Len(pending) \in Nat /\ Len(pending) >= 1 /\ n = pending[1]
      /\ pending' \in Seq(Notice) /\ Len(pending') = Len(pending) - 1
      /\ \A i \in 1 .. Len(pending') : pending'[i] = pending[i + 1]
  BY <1>1, <1>2, HeadTailProperties DEF Base, Types
<1>4. n \in Notice /\ Told(n)
  BY <1>3, ElementOfSeq DEF Base, Sensible
<1>5. \A i \in 1 .. Len(pending') : \E j \in 1 .. Len(pending) : pending'[i] = pending[j]
  <2>1. \A i \in 1 .. Len(pending') : i + 1 \in 1 .. Len(pending)
    BY <1>3
  <2>. QED  BY <1>3, <2>1
<1>6. ASSUME NEW i \in 1 .. Len(pending), pending[i] # n
      PROVE  \E j \in 1 .. Len(pending') : pending'[j] = pending[i]
  <2>1. i - 1 \in 1 .. Len(pending') /\ pending'[i - 1] = pending[i]
    BY <1>3, <1>6
  <2>. QED  BY <2>1
<1>7. /\ ChainedIn(pending', seen') /\ Queued(n.pod) = n.old /\ Queued(n.pod)' = n.new
      /\ \A k \in Pods : k # n.pod => Queued(k)' = Queued(k)
  BY <1>1, <1>2, <1>3, Taking DEF Base, Queued
<1>8. Takes(n)
  BY <1>2, <1>3, <1>4, <1>5, <1>6, <1>7 DEF Takes
<1>9. Skips(n) \/ Sends(n, e)
  <2>1. Subscribers # <<>> => 1 \in DOMAIN Subscribers
    BY PodEventsAssumption
  <2>2. CASE Subscribers = <<>>
    BY <1>2, <2>2, SubscriberFacts DEF Skips
  <2>3. CASE Subscribers # <<>> /\ e = Nil
    BY <1>2, <1>4, <2>3, HandleFacts DEF Skips
  <2>4. CASE Subscribers # <<>> /\ e # Nil
    BY <1>2, <1>4, <2>1, <2>4, HandleFacts DEF Sends
  <2>. QED  BY <2>2, <2>3, <2>4
<1>. QED  BY <1>4, <1>8, <1>9

LEMMA NotifyBase ==
  ASSUME Base, NEW n \in Notice, Takes(n), Skips(n) \/ Sends(n, Handle(n))
  PROVE  Base'
<1>1. Types'
  <2>1. sending' \in [event : PodEvent, to : DOMAIN Subscribers] \cup {Nil}
    BY DEF Skips, Sends
  <2>. QED  BY <2>1 DEF Base, Types, Takes
<1>2. Mirrored'
  BY DEF Base, Mirrored, Of, Follows, Takes
<1>3. Sensible'
  <2>1. \A x : (Told(x) => Told(x)') /\ (Sent(x) => Sent(x)')
    BY DEF Told, Sent, Of, Follows, Takes
  <2>2. \A i \in 1 .. Len(pending') : Told(pending'[i])
    BY DEF Base, Sensible, Takes
  <2>3. sending' # Nil => Sent(sending'.event)
    BY DEF Skips, Sends
  <2>. QED  BY <2>1, <2>2, <2>3 DEF Base, Sensible, Takes
<1>. QED  BY <1>1, <1>2, <1>3 DEF Base, Takes

\* With an event on its way to all, they know what they knew; a dropped
\* notification moves what they know to a state that owes them nothing.
LEMMA NotifyFollow ==
  ASSUME TableInv, NEW n \in Notice, Takes(n), Skips(n) \/ Sends(n, Handle(n))
  PROVE  Follow'
<1>. USE DEF TableInv
<1>1. UNCHANGED <<layout, inbox, tables>> /\ sending = Nil
  BY DEF Takes
<1>2. \A s : ~Awaits(s)
  BY <1>1 DEF Awaits
<1>3. \A k \in Pods, s \in Subs : Coming(s, k) = Queued(k)
  BY <1>2 DEF Coming
<1>4. n.pod \in Pods /\ (\A s \in Subs : inbox[s] # Nil => inbox[s].name \in Pods)
  BY DEF Notice, Base, Types, PodEvent
<1>5. CASE Sends(n, Handle(n))
  <2>. DEFINE e == Handle(n)
  <2>1. /\ sending' # Nil /\ sending'.event = e /\ sending'.to = 1 /\ e.name = n.pod
        /\ Before(e) = n.old /\ After(e) = n.new /\ Sent(e) /\ e \in PodEvent
    BY <1>5, PodEventsAssumption DEF Sends
  <2>. HIDE DEF e
  <2>2. \A s \in Subs : Awaits(s)'
    BY <2>1, SubscriberFacts DEF Awaits, Subs
  <2>3. \A k \in Pods, s \in Subs : Coming(s, k)' = Coming(s, k)
    BY <1>3, <2>1, <2>2 DEF Coming, Takes
  <2>4. \A k \in Pods, s \in Subs : Known(s, k)' = Known(s, k)
    BY <1>1, <2>3 DEF Known
  <2>5. Linked'
    BY <1>1, <1>4, <2>1, <2>3 DEF Follow, Linked, Link, Follows, Takes
  <2>6. Served' /\ Accounted'
    BY <1>1, <2>4 DEF Follow, Served, Accounted, Steady, Alone
  <2>7. Together'
    <3>1. \A s \in Subs : Taken(s) = Handled(s) /\ Taken(s)' = Apply(s, e, Taken(s))
      BY <1>1, <1>2, <2>1, <2>2 DEF Taken, Handled
    <3>2. \A s \in Subs : Taken(s) \in Table
      BY <3>1, HandledType
    <3>3. \A s1, s2 \in Subs : Partners(s1, s2)' => SamePlaces(Taken(s1)', Taken(s2)')
      BY <1>1, <2>1, <3>1, <3>2, ApplyTogether DEF Follow, Together, Partners, Base
    <3>. QED  BY <3>3 DEF Together, SamePlaces
  <2>. QED  BY <2>5, <2>6, <2>7 DEF Follow
<1>6. CASE Skips(n)
  <2>1. sending' = Nil /\ \A s : ~Awaits(s)'
    BY <1>6 DEF Skips, Awaits
  <2>2. \A k \in Pods, s \in Subs : Coming(s, k)' = Queued(k)'
    BY <2>1 DEF Coming
  <2>3. \A s \in Subs : Taken(s)' = Taken(s)
    BY <1>1, <1>2, <2>1 DEF Taken, Handled
  <2>4. Together'
    BY <1>1, <2>3 DEF Follow, Together, Partners, SamePlaces
  <2>5. CASE Subs = {}
    BY <2>1, <2>4, <2>5 DEF Follow, Linked, Served, Accounted
  <2>6. CASE n.new # Nil /\ ~Running(n.new)
    <3>1. Queued(n.pod) = n.old /\ Queued(n.pod)' = n.new /\ Told(n)
          /\ \A k \in Pods : k # n.pod => Queued(k)' = Queued(k)
      BY DEF Takes
    <3>2. Linked'
      <4>1. ASSUME NEW s \in Subs, inbox[s] # Nil, NEW k \in Pods, inbox[s].name = k
            PROVE  Link(k, After(inbox[s]), Coming(s, k)')
        <5>1. Link(k, After(inbox[s]), Queued(k))
          BY <1>3, <4>1 DEF Follow, Linked
        <5>2. CASE k # n.pod
          BY <2>2, <3>1, <5>1, <5>2
        <5>3. CASE k = n.pod
          BY <2>2, <2>6, <3>1, <5>1, <5>3 DEF Link, Told, Follows, Began
        <5>. QED  BY <5>2, <5>3
      <4>. QED  BY <1>1, <1>4, <2>1, <4>1 DEF Linked
    <3>3. \A k \in Pods, s \in Subs :
            \/ Known(s, k)' = Known(s, k)
            \/ k = n.pod /\ Known(s, k) = n.old /\ Known(s, k)' = n.new
      BY <1>1, <1>3, <2>2, <3>1 DEF Known
    <3>4. Served'
      BY <1>1, <2>6, <3>3 DEF Follow, Served, Alone
    <3>5. Accounted'
      <4>. SUFFICES ASSUME NEW k \in Pods, NEW s \in Subs, NEW a \in layout.ips[k],
                           Steady(k), tables[s][a] # Nil
                    PROVE  LET p == Known(s, k)' IN p # Nil /\ p.ip = a /\ s \in p.wants
        BY <1>1 DEF Accounted, Steady, Alone
      <4>0. PICK p : p = Known(s, k)'
        OBVIOUS
      <4>1. CASE p = Known(s, k)
        BY <4>0, <4>1 DEF Follow, Accounted
      <4>2. CASE k = n.pod /\ Known(s, k) = n.old /\ p = n.new
        <5>1. n.old # Nil /\ n.old.ip = a /\ s \in n.old.wants
          BY <4>2 DEF Follow, Accounted
        <5>2. a \in IPs /\ Nil \notin IPs
          BY LayoutFacts, PodEventsAssumption DEF Base
        <5>3. Began(n.old) /\ Began(n.new)
          BY <2>6, <3>1, <4>2, <5>1, <5>2 DEF Told, Of, Follows, Began, Steady
        <5>4. /\ n.new.ip \in layout.ips[k] /\ n.new.wants \in layout.wants[k]
              /\ n.old.wants \in layout.wants[k]
          BY <3>1, <4>2, <5>3 DEF Told, Of, Began
        <5>. QED  BY <4>0, <4>2, <5>1, <5>3, <5>4, SteadyFacts DEF Began, Base
      <4>. QED  BY <3>3, <4>0, <4>1, <4>2
    <3>. QED  BY <2>4, <3>2, <3>4, <3>5 DEF Follow
  <2>. QED  BY <1>6, <2>5, <2>6 DEF Skips
<1>. QED  BY <1>5, <1>6

\* sendPodEvent hands the event e to the subscriber u.
Hands(u, e) ==
  /\ UNCHANGED <<layout, store, born, seen, watching, pending, tables, quiet>>
  /\ sending # Nil /\ sending.event = e /\ Sent(e)
  /\ inbox[u] = Nil /\ inbox' = [inbox EXCEPT ![u] = e]
  /\ sending' \in [event : {e}, to : DOMAIN Subscribers] \cup {Nil}
  /\ Awaits(u) /\ ~Awaits(u)'
  /\ \A s \in Subs \ {u} : Awaits(s)' = Awaits(s)

LEMMA SendFacts ==
  ASSUME Base, Send
  PROVE  \E u \in Subs, e \in PodEvent : Hands(u, e)
<1>. USE DEF Hands
<1>. DEFINE i == sending.to
            L == Len(Subscribers)
<1>1. PICK u, e : u = Subscribers[i] /\ e = sending.event
  OBVIOUS
<1>2. /\ sending # Nil /\ i \in 1 .. L /\ L \in Nat /\ u \in Subs /\ e \in PodEvent /\ Sent(e)
      /\ sending \in [event : PodEvent, to : DOMAIN Subscribers]
      /\ DOMAIN Subscribers = 1 .. L
  BY <1>1, SubscriberFacts DEF Send, Base, Types, Sensible
<1>3. /\ UNCHANGED <<layout, store, born, seen, watching, pending, tables, quiet>>
      /\ inbox[u] = Nil /\ inbox' = [inbox EXCEPT ![u] = e]
      /\ sending' = IF i = L THEN Nil ELSE [sending EXCEPT !.to = @ + 1]
  BY <1>1 DEF Send, cluster
<1>4. \A j \in 1 .. L : Subscribers[j] = u => j = i
  BY <1>1, <1>2, PodEventsAssumption
<1>. HIDE DEF L, i
<1>5. CASE i = L
  <2>0. sending' = Nil
    BY <1>3, <1>5
  <2>1. sending' = Nil /\ Awaits(u) /\ ~Awaits(u)'
    BY <1>1, <1>2, <2>0 DEF Awaits, i
  <2>2. \A j \in 1 .. L : j >= i => j = i
    BY <1>2, <1>5
  <2>3. \A s \in Subs \ {u} : Awaits(s)' = Awaits(s)
    <3>1. \A j \in DOMAIN Subscribers : j >= sending.to => Subscribers[j] = u
      BY <1>1, <1>2, <2>2 DEF i
    <3>2. \A s \in Subs \ {u} : ~Awaits(s)
      BY <3>1 DEF Awaits
    <3>3. \A s : ~Awaits(s)'
      BY <2>0 DEF Awaits
    <3>. QED  BY <3>2, <3>3 DEF Awaits
  <2>. QED  BY <1>1, <1>2, <1>3, <2>1, <2>3
<1>6. CASE i # L
  <2>1. /\ sending' = [event |-> e, to |-> i + 1] /\ i + 1 \in 1 .. L
        /\ sending' # Nil /\ sending'.to = i + 1
        /\ sending' \in [event : {e}, to : DOMAIN Subscribers] \cup {Nil}
    BY <1>1, <1>2, <1>3, <1>6, PodEventsAssumption DEF i
  <2>2. Awaits(u) /\ ~Awaits(u)'
    <3>1. Awaits(u)
      BY <1>1, <1>2 DEF Awaits, i
    <3>2. ASSUME NEW j \in 1 .. L, j >= i + 1, Subscribers[j] = u
          PROVE  FALSE
      BY <1>2, <1>4, <3>2
    <3>. QED  BY <1>2, <2>1, <3>1, <3>2 DEF Awaits
  <2>3. ASSUME NEW s \in Subs \ {u}
        PROVE  Awaits(s)' = Awaits(s)
    <3>1. \A j \in 1 .. L : Subscribers[j] = s => (j >= i <=> j >= i + 1)
      BY <1>1, <1>2, <2>3
    <3>. QED  BY <1>2, <2>1, <3>1 DEF Awaits, i
  <2>. QED  BY <1>1, <1>2, <1>3, <2>1, <2>2, <2>3
<1>. QED  BY <1>5, <1>6

LEMMA SendStep ==
  ASSUME Base, Send
  PROVE  Base' /\ (Follow => Follow')
<1>1. PICK u \in Subs, e \in PodEvent : Hands(u, e)
  BY SendFacts
<1>. USE DEF Hands
<1>2. /\ inbox \in [Subs -> PodEvent \cup {Nil}]
      /\ inbox'[u] = e /\ e # Nil /\ \A s \in Subs \ {u} : inbox'[s] = inbox[s]
      /\ inbox' \in [Subs -> PodEvent \cup {Nil}]
  BY <1>1, PodEventsAssumption DEF Base, Types
<1>3. sending' # Nil => sending'.event = e
  BY <1>1
<1>4. Types'
  <2>1. sending' \in [event : PodEvent, to : DOMAIN Subscribers] \cup {Nil}
    BY <1>1
  <2>. QED  BY <1>1, <1>2, <2>1 DEF Base, Types
<1>5. Mirrored'
  BY <1>1 DEF Base, Mirrored, Of, Follows
<1>6. Sensible'
  <2>1. \A x : (Told(x) => Told(x)') /\ (Sent(x) => Sent(x)')
    BY <1>1 DEF Told, Sent, Of, Follows
  <2>. QED  BY <1>1, <1>2, <1>3, <2>1 DEF Base, Sensible
<1>7. Base'
  BY <1>1, <1>4, <1>5, <1>6 DEF Base
<1>8. ASSUME Follow
      PROVE  Follow'
  <2>1. \A k \in Pods : Queued(k)' = Queued(k)
    BY <1>1 DEF Queued
  <2>2. \A k \in Pods, s \in Subs \ {u} : Coming(s, k)' = Coming(s, k) /\ Known(s, k)' = Known(s, k)
    BY <1>1, <1>2, <1>3, <2>1 DEF Coming, Known, Awaits
  <2>3. \A k \in Pods : Coming(u, k)' = Queued(k) /\ Known(u, k)' = Known(u, k)
    BY <1>1, <1>2, <1>3, <2>1 DEF Coming, Known
  <2>4. Linked'
    <3>1. sending' # Nil => Link(e.name, After(e), Queued(e.name))'
      BY <1>1, <1>3, <1>8, <2>1 DEF Follow, Linked, Link, Follows, PodEvent
    <3>2. Link(e.name, After(e), Coming(u, e.name)')
      BY <1>1, <1>8, <2>3 DEF Follow, Linked, PodEvent
    <3>3. ASSUME NEW s \in Subs \ {u}, inbox[s] # Nil, NEW k \in Pods, inbox[s].name = k
          PROVE  Link(k, After(inbox[s]), Coming(s, k)')
      BY <1>8, <2>2, <3>3 DEF Follow, Linked
    <3>4. \A s \in Subs : inbox[s] # Nil => inbox[s].name \in Pods
      BY <1>2 DEF PodEvent
    <3>. QED  BY <1>2, <1>3, <3>1, <3>2, <3>3, <3>4 DEF Linked
  <2>5. Served' /\ Accounted'
    BY <1>1, <1>8, <2>2, <2>3 DEF Follow, Served, Accounted, Steady, Alone
  <2>6. Together'
    <3>1. \A s \in Subs : Taken(s)' = Taken(s)
      BY <1>1, <1>2, <1>3 DEF Taken, Handled, Awaits
    <3>. QED  BY <1>1, <1>8, <3>1 DEF Follow, Together, Partners, SamePlaces
  <2>. QED  BY <2>4, <2>5, <2>6 DEF Follow
<1>. QED  BY <1>7, <1>8

LEMMA RestartStep ==
  ASSUME Base, Restart
  PROVE  Base' /\ Follow'
<1>1. /\ UNCHANGED <<layout, store, born>> /\ seen' = NoPods /\ watching' = FALSE
      /\ pending' = <<>> /\ sending' = Nil /\ inbox' = [s \in Subs |-> Nil]
      /\ tables' = EmptyTables /\ quiet' = TRUE
  BY DEF Restart, cluster
<1>2. /\ \A s \in Subs, a \in IPs \cup {Nil} : tables'[s][a] = Nil
      /\ tables' \in [Subs -> [IPs \cup {Nil} -> Target \cup {Nil}]]
      /\ \A s \in Subs : inbox'[s] = Nil
      /\ inbox' \in [Subs -> PodEvent \cup {Nil}]
      /\ \A k \in Pods : seen'[k] = Nil
      /\ seen' \in [Pods -> Pod \cup {Nil}]
  BY <1>1 DEF EmptyTables, NoPods
<1>3. pending' \in Seq(Notice) /\ Len(pending') = 0
  BY <1>1
<1>4. Types'
  BY <1>1, <1>2, <1>3 DEF Base, Types
<1>5. Mirrored' /\ Sensible'
  BY <1>1, <1>2, <1>3 DEF Base, Mirrored, Sensible, Of, Follows, Began
<1>6. ChainedIn(pending', seen')
  BY <1>3 DEF ChainedIn
<1>7. \A s \in Subs, k \in Pods : Known(s, k)' = Nil
  <2>1. \A k \in Pods : Queued(k)' = Nil
    BY <1>2, <1>3, QueuedNone DEF Queued
  <2>. QED  BY <1>1, <1>2, <2>1 DEF Known, Coming, Awaits
<1>8. Linked' /\ Served'
  BY <1>1, <1>2, <1>7 DEF Linked, Served, Running
<1>9. Accounted'
  BY <1>1, <1>2, LayoutFacts DEF Accounted, Base
<1>10. Together'
  BY <1>1, <1>2 DEF Together, Taken, Handled, Awaits, SamePlaces
<1>. QED  BY <1>4, <1>5, <1>6, <1>8, <1>9, <1>10 DEF Base, Follow

-----------------------------------------------------------------------------
(***************************************************************************)
(* The steps of the subscribers                                            *)
(***************************************************************************)

\* Subscriber u works through the event e.
Works(u, e) ==
  /\ UNCHANGED <<layout, store, born, seen, watching, pending, sending, quiet>>
  /\ inbox[u] = e /\ e # Nil /\ Sent(e)
  /\ inbox'[u] = Nil /\ tables'[u] = Apply(u, e, tables[u])
  /\ \A s \in Subs \ {u} : inbox'[s] = inbox[s] /\ tables'[s] = tables[s]

LEMMA ProcessBase ==
  ASSUME Base, NEW u \in Subs, Process(u)
  PROVE  Base' /\ \E e \in PodEvent : Works(u, e)
<1>1. PICK e : e = inbox[u]
  OBVIOUS
<1>2. /\ UNCHANGED <<layout, store, born, seen, watching, pending, sending, quiet>>
      /\ e # Nil
      /\ tables' = [tables EXCEPT ![u] = Apply(u, e, tables[u])]
      /\ inbox' = [inbox EXCEPT ![u] = Nil]
  BY <1>1 DEF Process, cluster
<1>3. /\ e \in PodEvent /\ Sent(e) /\ tables[u] \in Table
      /\ \A a \in IPs : tables[u][a] # Nil => tables[u][a].addr = a
  BY <1>1, <1>2 DEF Base, Types, Sensible, Table
<1>. DEFINE t == Apply(u, e, tables[u])
<1>4. t \in Table /\ \A a \in IPs : t[a] # Nil => t[a].addr = a
  BY <1>3, ApplyType
<1>. HIDE DEF t
<1>5. Works(u, e)
  BY <1>1, <1>2, <1>3 DEF Works, Base, Types, t
<1>6. Types'
  <2>1. tables' = [tables EXCEPT ![u] = t]
    BY <1>2 DEF t
  <2>2. /\ tables' \in [Subs -> [IPs \cup {Nil} -> Target \cup {Nil}]]
        /\ \A s \in Subs, a \in IPs : tables'[s][a] # Nil => tables'[s][a].addr = a
    BY <1>4, <2>1 DEF Base, Types, Table
  <2>. QED  BY <1>2, <2>2 DEF Base, Types
<1>7. Mirrored'
  BY <1>2 DEF Base, Mirrored, Of, Follows
<1>8. Sensible'
  <2>1. \A x : (Told(x) => Told(x)') /\ (Sent(x) => Sent(x)')
    BY <1>2 DEF Told, Sent, Of, Follows
  <2>2. \A s \in Subs : inbox'[s] # Nil => inbox'[s] = inbox[s]
    BY <1>5 DEF Works
  <2>. QED  BY <1>2, <2>1, <2>2 DEF Base, Sensible
<1>. QED  BY <1>2, <1>3, <1>5, <1>6, <1>7, <1>8 DEF Base

LEMMA ProcessFollow ==
  ASSUME TableInv, NEW u \in Subs, NEW e \in PodEvent, Works(u, e)
  PROVE  Follow'
<1>. USE DEF TableInv
<1>1. /\ UNCHANGED <<layout, store, seen, pending, sending>>
      /\ inbox[u] = e /\ e # Nil /\ Sent(e) /\ inbox'[u] = Nil
      /\ tables'[u] = Apply(u, e, tables[u])
      /\ \A s \in Subs \ {u} : inbox'[s] = inbox[s] /\ tables'[s] = tables[s]
      /\ e.name \in Pods /\ tables[u] \in Table
  BY DEF Works, PodEvent, Base, Types, Table
<1>2. /\ \A k : Queued(k)' = Queued(k)
      /\ \A s : Awaits(s)' = Awaits(s)
      /\ \A s, k : Coming(s, k)' = Coming(s, k)
  BY <1>1 DEF Queued, Awaits, Coming
<1>3. /\ \A s \in Subs \ {u}, k \in Pods : Known(s, k)' = Known(s, k)
      /\ \A k \in Pods : Known(u, k)' = Coming(u, k)
      /\ \A k \in Pods : k # e.name => Known(u, k) = Coming(u, k)
      /\ Known(u, e.name) = Before(e)
  BY <1>1, <1>2 DEF Known
<1>4. Link(e.name, After(e), Coming(u, e.name))
  BY <1>1 DEF Follow, Linked
<1>5. Linked'
  <2>1. sending # Nil => sending.event.name \in Pods
    BY DEF Base, Types, PodEvent
  <2>2. sending' # Nil =>
          Link(sending'.event.name, After(sending'.event), Queued(sending.event.name)')
    BY <1>1, <1>2, <2>1 DEF Follow, Linked
  <2>3. ASSUME NEW s \in Subs, inbox'[s] # Nil, NEW k \in Pods, inbox'[s].name = k
        PROVE  Link(k, After(inbox'[s]), Coming(s, k)')
    BY <1>1, <1>2, <2>3 DEF Follow, Linked
  <2>4. \A s \in Subs : inbox'[s] # Nil => inbox'[s].name \in Pods
    BY <1>1 DEF Base, Types, PodEvent
  <2>. QED  BY <1>1, <2>1, <2>2, <2>3, <2>4 DEF Linked
<1>6. Served'
  <2>. SUFFICES ASSUME NEW k \in Pods, NEW s \in Subs, NEW p, p = Known(s, k)',
                       Running(p), s \in p.wants, Alone(k)
                PROVE  tables'[s][p.ip] = TargetOf(s, k, p)
    BY <1>1 DEF Served, Alone
  <2>1. CASE s # u
    BY <1>1, <1>3, <2>1 DEF Follow, Served
  <2>2. CASE s = u /\ k # e.name
    <3>1. p = Known(s, k) /\ tables[s][p.ip] = TargetOf(s, k, p)
      BY <1>3, <2>2 DEF Follow, Served
    <3>2. p.ip \in layout.ips[k]
      BY <3>1, KnownOf DEF Of, Running
    <3>. QED  BY <1>1, <2>2, <3>1, <3>2, ApplyElsewhere DEF Base
  <2>3. CASE s = u /\ k = e.name
    <3>1. p = After(e) /\ p # Nil
      BY <1>3, <1>4, <2>3 DEF Link, Running
    <3>2. e.type # "Delete" /\ e.pod = p
      BY <3>1 DEF After
    <3>3. p.ip \in IPs
      BY <1>1, <3>2, EventPlaces DEF Base
    <3>. QED  BY <1>1, <2>3, <3>2, <3>3, ApplyCases, PutFacts
  <2>. QED  BY <2>1, <2>2, <2>3
<1>7. Accounted'
  <2>. SUFFICES ASSUME NEW k \in Pods, NEW s \in Subs, NEW a \in layout.ips[k],
                       Steady(k), tables'[s][a] # Nil, NEW p, p = Known(s, k)'
                PROVE  p # Nil /\ p.ip = a /\ s \in p.wants
    BY <1>1 DEF Accounted, Steady, Alone
  <2>1. CASE s # u
    BY <1>1, <1>3, <2>1 DEF Follow, Accounted
  <2>2. CASE s = u /\ k # e.name
    <3>1. tables'[s][a] = tables[s][a]
      BY <1>1, <2>2, ApplyElsewhere DEF Base, Steady
    <3>. QED  BY <1>3, <2>2, <3>1 DEF Follow, Accounted
  <2>3. CASE s = u /\ k = e.name
    <3>1. tables[u][a] # Nil => LET q == Before(e) IN q # Nil /\ q.ip = a /\ u \in q.wants
      BY <1>3, <2>3 DEF Follow, Accounted
    <3>2. /\ \A b \in layout.ips[k] : b = a
          /\ \A v, w \in layout.wants[k] : v = w
          /\ a \in IPs
      BY SteadyFacts, LayoutFacts DEF Base
    <3>3. CASE e.type = "Delete"
      <4>1. tables[u][a] # Nil => e.pod.ip = a /\ u \in e.pod.wants
        BY <3>1, <3>3 DEF Before
      <4>2. tables'[u][a] = Nil
        <5>1. e.pod.ip \in IPs \cup {Nil}
          BY DEF PodEvent, Pod
        <5>2. CASE u \in e.pod.wants
          <6>1. tables'[u] = Put(tables[u], e.pod.ip, Nil)
            BY <1>1, <3>3, <5>2, ApplyCases
          <6>. QED  BY <1>1, <3>2, <4>1, <5>1, <6>1, PutFacts
        <5>3. CASE u \notin e.pod.wants
          BY <1>1, <3>3, <4>1, <5>3, ApplyCases
        <5>. QED  BY <5>2, <5>3
      <4>. QED  BY <2>3, <4>2
    <3>4. CASE e.type # "Delete"
      <4>1. /\ e.pod.ip = a /\ e.pod.wants \in layout.wants[k] /\ Began(e.pod)
            /\ e.old # Nil => e.old.wants \in layout.wants[k]
        <5>1. Began(e.pod)
          BY <1>1, <3>4 DEF Sent, Running, Began
        <5>2. /\ e.pod.ip \in layout.ips[k] /\ e.pod.wants \in layout.wants[k]
              /\ e.old # Nil => e.old.wants \in layout.wants[k]
          BY <1>1, <2>3, <3>4, EventPlaces DEF Base
        <5>. QED  BY <3>2, <5>1, <5>2
      <4>2. u \in e.pod.wants
        <5>. SUFFICES ASSUME u \notin e.pod.wants PROVE FALSE
          OBVIOUS
        <5>1. e.old = Nil \/ u \notin e.old.wants
          BY <3>2, <4>1
        <5>2. tables'[u] = tables[u]
          BY <1>1, <3>4, <5>1, ApplyCases
        <5>. QED  BY <2>3, <3>1, <3>4, <5>1, <5>2 DEF Before
      <4>3. p = e.pod \/ (p # Nil /\ Follows(k, e.pod, p))
        BY <1>3, <1>4, <2>3, <3>4 DEF Link, After
      <4>4. p # Nil /\ Began(p) /\ Of(k, p)
        <5>1. p # Nil /\ Began(p)
          BY <4>1, <4>3 DEF Follows, Began, Steady
        <5>2. Of(k, p)
          BY <1>3, <2>3, KnownOf
        <5>. QED  BY <5>1, <5>2
      <4>5. p.ip \in layout.ips[k] /\ p.wants \in layout.wants[k]
        BY <4>4 DEF Of, Began
      <4>. QED  BY <2>3, <3>2, <4>1, <4>2, <4>4, <4>5
    <3>. QED  BY <3>3, <3>4
  <2>. QED  BY <2>1, <2>2, <2>3
<1>8. Together'
  <2>1. \A s \in Subs : Handled(s)' = Handled(s)
    BY <1>1 DEF Handled
  <2>2. \A s \in Subs : Taken(s)' = Taken(s)
    BY <1>1, <1>2, <2>1 DEF Taken
  <2>. QED  BY <1>1, <2>2 DEF Follow, Together, Partners, SamePlaces
<1>. QED  BY <1>5, <1>6, <1>7, <1>8 DEF Follow

-----------------------------------------------------------------------------
(***************************************************************************)
(* Theorems: types and tables                                              *)
(***************************************************************************)

LEMMA TableStep == TableInv /\ [Next]_vars => TableInv'
<1>. SUFFICES ASSUME TableInv, [Next]_vars PROVE TableInv'
  OBVIOUS
<1>. USE DEF TableInv
<1>1. CASE Cluster
  BY <1>1, ChangeStep, UpstreamKeeps DEF Cluster
<1>2. CASE WatchBreaks
  BY <1>2, BreakStep, UpstreamKeeps
<1>3. CASE Restart
  BY <1>3, RestartStep
<1>4. CASE Relist
  BY <1>4, RelistStep, UpstreamKeeps
<1>5. CASE Notify
  BY <1>5, NotifyFacts, NotifyBase, NotifyFollow
<1>6. CASE Send
  BY <1>6, SendStep
<1>7. ASSUME NEW s \in Subs, Process(s)
      PROVE  TableInv'
  BY <1>7, ProcessBase, ProcessFollow
<1>8. CASE UNCHANGED vars
  <2>1. UNCHANGED <<layout, store, born, seen, watching, pending, sending, inbox, tables, quiet>>
    BY <1>8 DEF vars, cluster, agent
  <2>2. Types' /\ Mirrored' /\ Sensible'
    BY <2>1 DEF Base, Types, Mirrored, Sensible, Told, Sent, Of, Follows
  <2>3. Upstream
    BY <2>1 DEF Upstream, Queued
  <2>. QED  BY <2>1, <2>2, <2>3, UpstreamKeeps DEF Base
<1>. QED  BY <1>1, <1>2, <1>3, <1>4, <1>5, <1>6, <1>7, <1>8 DEF Next, Fault

LEMMA AlwaysTables == Spec => []TableInv
<1>1. Init => TableInv
  BY BaseInit, FollowInit DEF TableInv
<1>. QED  BY <1>1, TableStep, PTL DEF Spec

LEMMA BaseTypes == Base => TypeOK
<1>. SUFFICES ASSUME Base PROVE TypeOK
  OBVIOUS
<1>1. \A i \in DOMAIN pending : pending[i].new # pending[i].old
  BY DEF Base, Types, Sensible, Told
<1>. QED  BY <1>1 DEF Base, Types, TypeOK

\* What the subscribers know of a settled system is what is in the cluster.
LEMMA SettledKnown ==
  ASSUME Base, Settled, NEW s \in Subs
  PROVE  Taken(s) = tables[s] /\ \A k \in Pods : Known(s, k) = store[k]
<1>1. \A k \in Pods : Queued(k) = seen[k]
  BY QueuedNone DEF Settled, Queued
<1>2. /\ \A k \in Pods : Known(s, k) = Queued(k)
      /\ Taken(s) = tables[s] /\ seen = store
  BY DEF Settled, Known, Coming, Awaits, Taken, Handled, Base, Mirrored
<1>. QED  BY <1>1, <1>2

\* Always: cache, queue and tables have their types, no notification tells of no
\* change, sendPodEvent is at one of the subscribers, and every target is stored
\* under its own address.
THEOREM TypeCorrect == Spec => []TypeOK
BY AlwaysTables, BaseTypes, PTL DEF TableInv

LEMMA TablesFollowFacts == TableInv => TablesFollow
<1>. SUFFICES ASSUME TableInv, Settled
              PROVE  TablesFollow
  BY DEF TablesFollow, RunningPodsServed, NoGhosts, SubscribersAgree
<1>. USE DEF TableInv
<1>1. RunningPodsServed
  BY SettledKnown DEF RunningPodsServed, Follow, Served
<1>2. NoGhosts
  BY SettledKnown DEF NoGhosts, Follow, Accounted, Steady
<1>3. SubscribersAgree
  <2>1. \A s1, s2 \in Subs : Partners(s1, s2) => SamePlaces(tables[s1], tables[s2])
    BY SettledKnown DEF Follow, Together
  <2>. QED  BY <2>1 DEF SubscribersAgree, Partners, SamePlaces
<1>. QED  BY <1>1, <1>2, <1>3 DEF TablesFollow

\* Once the events have worked their way through, the running pods are targets at
\* the addresses they have now, a steady pod that is gone has left none, and
\* subscribers that every pod names together have targets at the same addresses.
THEOREM TablesFollowTheCluster == Spec => []TablesFollow
BY AlwaysTables, TablesFollowFacts, PTL

-----------------------------------------------------------------------------
(***************************************************************************)
(* After a restart                                                         *)
(***************************************************************************)

\* The pod k is on its way from the informer's list to the table of s.
InLine(s, k) ==
  \/ seen[k] = Nil
  \/ \E i \in 1 .. Len(pending) : pending[i].pod = k
  \/ Awaits(s) /\ sending.event.name = k
  \/ inbox[s] # Nil /\ inbox[s].name = k

QuietEvent(e) == e.type = "Add" /\ e.pod = store[e.name]

Asks(s, k) == Running(store[k]) /\ s \in store[k].wants

FirstList ==
  quiet =>
    /\ \A k \in Pods : seen[k] \in {Nil, store[k]}
    /\ \A i \in 1 .. Len(pending) :
         /\ pending[i].old = Nil /\ pending[i].new = store[pending[i].pod]
    /\ sending # Nil => QuietEvent(sending.event)
    /\ \A s \in Subs : inbox[s] # Nil => QuietEvent(inbox[s])
    /\ \A s \in Subs, a \in IPs : tables[s][a] # Nil =>
         \E k \in Pods : /\ Asks(s, k) /\ store[k].ip = a
                         /\ tables[s][a] = TargetOf(s, k, store[k])
    /\ \A s \in Subs, k \in Pods :
         Asks(s, k) => InLine(s, k) \/ tables[s][store[k].ip] # Nil

\* While no pod changes, every notification and event is an addition.
LEMMA FirstListStep == TableInv /\ FirstList /\ [Next]_vars => FirstList'
<1>. SUFFICES ASSUME TableInv, FirstList, [Next]_vars, quiet'
              PROVE  FirstList'
  BY DEF FirstList
<1>. USE DEF TableInv
<1>1. CASE Cluster
  BY <1>1 DEF Cluster, PodChanges
<1>2. ASSUME UNCHANGED <<store, seen, pending, sending, inbox, tables, quiet>>
      PROVE  FirstList'
  BY <1>2 DEF FirstList, QuietEvent, Asks, InLine, Awaits
<1>3. CASE WatchBreaks \/ UNCHANGED vars
  BY <1>2, <1>3 DEF WatchBreaks, vars, cluster, agent
<1>4. CASE Restart
  <2>1. /\ \A k \in Pods : seen'[k] = Nil
        /\ \A s \in Subs, a \in IPs \cup {Nil} : tables'[s][a] = Nil
        /\ pending' = <<>> /\ sending' = Nil /\ \A s \in Subs : inbox'[s] = Nil
    BY <1>4 DEF Restart, NoPods, EmptyTables
  <2>2. Len(pending') = 0
    BY <2>1
  <2>. QED  BY <2>1, <2>2 DEF FirstList, InLine
<1>5. CASE Relist
  <2>. USE <1>5
  <2>1. UNCHANGED <<store, sending, inbox, tables>> /\ quiet /\ seen' = store
    BY DEF Relist, cluster
  <2>2. /\ \A i \in 1 .. Len(pending) : \E j \in 1 .. Len(pending') : pending'[j] = pending[i]
        /\ \A i \in 1 .. Len(pending') :
             \/ \E j \in 1 .. Len(pending) : pending'[i] = pending[j]
             \/ /\ pending'[i].pod \in Pods /\ seen[pending'[i].pod] # store[pending'[i].pod]
                /\ pending'[i].old = seen[pending'[i].pod]
                /\ pending'[i].new = store[pending'[i].pod]
        /\ \A k \in Pods : seen[k] # store[k]
             => \E i \in 1 .. Len(pending') : pending'[i].pod = k
    <3>1. PICK r \in Seq(Notice) :
                 /\ pending' = pending \o r /\ Reports(r, seen, store)
                 /\ \A i \in 1 .. Len(r) : r[i].old # r[i].new
      BY RelistFacts
    <3>2. pending \in Seq(Notice) /\ \A i \in 1 .. Len(r) : r[i].pod \in Pods
      <4>1. \A i \in 1 .. Len(r) : r[i] \in Notice
        BY ElementOfSeq
      <4>. QED  BY <4>1 DEF Notice, Base, Types
    <3>3. \A i \in 1 .. Len(pending) : \E j \in 1 .. Len(pending') : pending'[j] = pending[i]
      BY <3>1, <3>2, ConcatElements
    <3>4. ASSUME NEW i \in 1 .. Len(pending'), \A j \in 1 .. Len(pending) : pending'[i] # pending[j]
          PROVE  /\ pending'[i].pod \in Pods /\ seen[pending'[i].pod] # store[pending'[i].pod]
                 /\ pending'[i].old = seen[pending'[i].pod]
                 /\ pending'[i].new = store[pending'[i].pod]
      <4>1. PICK j \in 1 .. Len(r) : pending'[i] = r[j]
        BY <3>1, <3>2, <3>4, ConcatElements
      <4>. QED  BY <3>1, <3>2, <4>1 DEF Reports
    <3>5. ASSUME NEW k \in Pods, seen[k] # store[k]
          PROVE  \E i \in 1 .. Len(pending') : pending'[i].pod = k
      <4>1. PICK j \in 1 .. Len(r) : r[j].pod = k
        BY <3>1, <3>5 DEF Reports
      <4>. QED  BY <3>1, <3>2, <4>1, ConcatElements
    <3>. QED  BY <3>3, <3>4, <3>5
  <2>3. \A s \in Subs, k \in Pods : InLine(s, k) /\ store[k] # Nil => InLine(s, k)'
    BY <2>1, <2>2 DEF InLine, Awaits
  <2>4. \A s \in Subs, k \in Pods : Asks(s, k)' = Asks(s, k) /\ (Asks(s, k) => store[k] # Nil)
    BY <2>1 DEF Asks, Running
  <2>5. \A i \in 1 .. Len(pending') : /\ pending'[i].old = Nil
                                      /\ pending'[i].new = store[pending'[i].pod]
    BY <2>1, <2>2 DEF FirstList
  <2>. QED  BY <2>1, <2>3, <2>4, <2>5 DEF FirstList, QuietEvent
<1>6. CASE Notify
  <2>1. PICK n \in Notice : Takes(n) /\ (Skips(n) \/ Sends(n, Handle(n)))
    BY <1>6, NotifyFacts
  <2>2. /\ UNCHANGED <<store, seen, inbox, tables>> /\ quiet /\ sending = Nil
        /\ n.pod \in Pods /\ n.old = Nil /\ n.new = store[n.pod]
        /\ \A i \in 1 .. Len(pending') : \E j \in 1 .. Len(pending) : pending'[i] = pending[j]
        /\ \A i \in 1 .. Len(pending) :
             pending[i] = n \/ \E j \in 1 .. Len(pending') : pending'[j] = pending[i]
    BY <2>1 DEF Takes, FirstList, Notice
  <2>3. /\ sending' # Nil => QuietEvent(sending'.event)
        /\ \A s \in Subs : Asks(s, n.pod) => InLine(s, n.pod)'
    <3>1. CASE Skips(n)
      BY <2>2, <3>1 DEF Skips, Asks
    <3>2. CASE Sends(n, Handle(n))
      <4>1. PICK e : e = Handle(n)
        OBVIOUS
      <4>2. /\ sending' # Nil /\ sending'.event = e /\ sending'.to = 1 /\ e.name = n.pod
            /\ e.type = "Add" /\ e.pod = n.new
        BY <2>2, <3>2, <4>1, PodEventsAssumption DEF Sends
      <4>3. \A s \in Subs : Awaits(s)'
        BY <4>2, SubscriberFacts DEF Awaits, Subs
      <4>. QED  BY <2>2, <4>2, <4>3 DEF QuietEvent, InLine
    <3>. QED  BY <2>1, <3>1, <3>2
  <2>4. \A s \in Subs, k \in Pods : k # n.pod /\ InLine(s, k) => InLine(s, k)'
    BY <2>2 DEF InLine, Awaits
  <2>5. \A s \in Subs, k \in Pods : Asks(s, k)' = Asks(s, k)
    BY <2>2 DEF Asks
  <2>6. \A i \in 1 .. Len(pending') : /\ pending'[i].old = Nil
                                      /\ pending'[i].new = store[pending'[i].pod]
    BY <2>2 DEF FirstList
  <2>. QED  BY <2>2, <2>3, <2>4, <2>5, <2>6 DEF FirstList, QuietEvent
<1>7. CASE Send
  <2>1. PICK u \in Subs, e \in PodEvent : Hands(u, e)
    BY <1>7, SendFacts
  <2>. USE DEF Hands
  <2>2. /\ inbox'[u] = e /\ e # Nil /\ \A s \in Subs \ {u} : inbox'[s] = inbox[s]
        /\ sending' # Nil => sending'.event = e
    BY <2>1, PodEventsAssumption DEF Base, Types
  <2>3. \A s \in Subs, k \in Pods : InLine(s, k) => InLine(s, k)'
    BY <2>1, <2>2 DEF InLine, Awaits
  <2>4. \A s \in Subs, k \in Pods : Asks(s, k)' = Asks(s, k)
    BY <2>1 DEF Asks
  <2>. QED  BY <2>1, <2>2, <2>3, <2>4 DEF FirstList, QuietEvent
<1>8. ASSUME NEW u \in Subs, Process(u)
      PROVE  FirstList'
  <2>1. PICK e \in PodEvent : Works(u, e)
    BY <1>8, ProcessBase
  <2>2. /\ UNCHANGED <<store, seen, pending, sending>> /\ quiet
        /\ inbox[u] = e /\ e # Nil /\ Sent(e) /\ inbox'[u] = Nil
        /\ tables'[u] = Apply(u, e, tables[u])
        /\ \A s \in Subs \ {u} : inbox'[s] = inbox[s] /\ tables'[s] = tables[s]
        /\ e.name \in Pods /\ tables[u] \in Table
        /\ e.type = "Add" /\ e.pod = store[e.name] /\ e.old = Nil /\ Running(e.pod)
        /\ e.pod.ip \in IPs /\ e.pod \in Pod
    <3>1. e.type = "Add" /\ e.pod = store[e.name] /\ Sent(e) /\ e # Nil
      BY <2>1 DEF Works, FirstList, QuietEvent
    <3>2. e.old = Nil /\ Running(e.pod)
      BY <3>1 DEF Sent
    <3>3. e.pod.ip \in IPs /\ e.pod \in Pod /\ e.name \in Pods
      BY <3>1, EventPlaces DEF Base, PodEvent
    <3>. QED  BY <2>1, <3>1, <3>2, <3>3 DEF Works, Base, Types, Table
  <2>. DEFINE p == e.pod
              t == TargetOf(u, e.name, p)
  <2>3. \A s \in Subs, k \in Pods : k # e.name /\ InLine(s, k) => InLine(s, k)'
    BY <2>2 DEF InLine, Awaits
  <2>4. \A s \in Subs \ {u}, k \in Pods : InLine(s, k) => InLine(s, k)'
    BY <2>2 DEF InLine, Awaits
  <2>5. \A s \in Subs, k \in Pods : Asks(s, k)' = Asks(s, k)
    BY <2>2 DEF Asks
  <2>6. CASE u \in p.wants
    <3>1. /\ tables'[u][p.ip] = t /\ t # Nil /\ Asks(u, e.name)
          /\ \A a \in IPs : a # p.ip => tables'[u][a] = tables[u][a]
      <4>1. tables'[u] = Put(tables[u], p.ip, t)
        BY <2>2, <2>6, ApplyCases
      <4>2. Asks(u, e.name) /\ t # Nil
        BY <2>2, <2>6, TargetFacts DEF Asks
      <4>. QED  BY <2>2, <4>1, <4>2, PutFacts
    <3>2. ASSUME NEW s \in Subs, NEW a \in IPs, tables'[s][a] # Nil
          PROVE  \E k \in Pods : /\ Asks(s, k) /\ store[k].ip = a
                                 /\ tables'[s][a] = TargetOf(s, k, store[k])
      <4>1. CASE s = u /\ a = p.ip
        BY <2>2, <3>1, <4>1
      <4>2. CASE ~(s = u /\ a = p.ip)
        BY <2>2, <3>1, <3>2, <4>2 DEF FirstList
      <4>. QED  BY <4>1, <4>2
    <3>3. ASSUME NEW s \in Subs, NEW k \in Pods, Asks(s, k)
          PROVE  InLine(s, k)' \/ tables'[s][store[k].ip] # Nil
      <4>1. store[k].ip \in IPs
        BY <3>3, LayoutFacts, PodEventsAssumption DEF Asks, Running, Base, Mirrored, Of
      <4>2. CASE s # u
        BY <2>2, <2>4, <3>3, <4>2 DEF FirstList
      <4>3. CASE s = u /\ k = e.name
        BY <2>2, <3>1, <4>3
      <4>4. CASE s = u /\ k # e.name
        BY <2>2, <2>3, <3>1, <3>3, <4>1, <4>4 DEF FirstList
      <4>. QED  BY <4>2, <4>3, <4>4
    <3>. QED  BY <2>2, <2>5, <3>2, <3>3 DEF FirstList, QuietEvent
  <2>7. CASE u \notin p.wants
    <3>1. \A s \in Subs : tables'[s] = tables[s]
      BY <2>2, <2>7, ApplyCases
    <3>2. ASSUME NEW s \in Subs, NEW k \in Pods, Asks(s, k)
          PROVE  InLine(s, k)' \/ tables'[s][store[k].ip] # Nil
      <4>1. ~(s = u /\ k = e.name)
        BY <2>2, <2>7, <3>2 DEF Asks
      <4>. QED  BY <2>3, <2>4, <2>2, <3>1, <3>2, <4>1 DEF FirstList
    <3>. QED  BY <2>2, <2>5, <3>1, <3>2 DEF FirstList, QuietEvent
  <2>. QED  BY <2>6, <2>7
<1>. QED  BY <1>1, <1>2, <1>3, <1>4, <1>5, <1>6, <1>7, <1>8 DEF Next, Fault

LEMMA RestartHealsFacts == TableInv /\ FirstList => RestartHeals
<1>. SUFFICES ASSUME TableInv, FirstList, quiet, Settled, NEW s \in Subs, NEW a \in IPs
              PROVE  LET here == {k \in Pods : Running(store[k]) /\ store[k].ip = a
                                               /\ s \in store[k].wants}
                     IN  tables[s][a] \in (IF here = {} THEN {Nil}
                                           ELSE {TargetOf(s, k, store[k]) : k \in here})
  BY DEF RestartHeals
<1>1. tables[s][a] # Nil => \E k \in Pods : /\ Asks(s, k) /\ store[k].ip = a
                                            /\ tables[s][a] = TargetOf(s, k, store[k])
  BY DEF FirstList
<1>2. ASSUME NEW k \in Pods, Asks(s, k)
      PROVE  tables[s][store[k].ip] # Nil
  <2>1. seen = store /\ sending = Nil /\ inbox[s] = Nil /\ Len(pending) = 0
    BY DEF Settled, TableInv, Base, Mirrored
  <2>2. ~InLine(s, k)
    BY <1>2, <2>1 DEF InLine, Awaits, Asks, Running
  <2>. QED  BY <1>2, <2>2 DEF FirstList
<1>. QED  BY <1>1, <1>2 DEF Asks

\* A restarted agent that has listed the pods, before any of them changes, has
\* the running pods in its tables and nothing else.
THEOREM RestartedAgentHeals == Spec => []RestartHeals
<1>1. Init => FirstList
  <2>. SUFFICES ASSUME Init PROVE FirstList
    OBVIOUS
  <2>1. /\ \A k \in Pods : seen[k] = Nil
        /\ \A s \in Subs, a \in IPs \cup {Nil} : tables[s][a] = Nil
        /\ Len(pending) = 0 /\ sending = Nil /\ \A s \in Subs : inbox[s] = Nil
    BY DEF Init, NoPods, EmptyTables
  <2>. QED  BY <2>1 DEF FirstList, InLine
<1>. QED  BY <1>1, FirstListStep, AlwaysTables, RestartHealsFacts, PTL DEF Spec
=============================================================================
