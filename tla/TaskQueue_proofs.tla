-------------------------- MODULE TaskQueue_proofs --------------------------
(***************************************************************************)
(* Theorems about the task queue, for any tasks, hosts, workers, limits    *)
(* and settings.                                                           *)
(***************************************************************************)
EXTENDS TaskQueue, FiniteSetTheorems, SequenceTheorems, TLAPS

-----------------------------------------------------------------------------
(***************************************************************************)
(* The operations on queues and channels.                                  *)
(***************************************************************************)

\* A nonempty set of numbers has a least one.
LEMMA LeastNumber ==
    ASSUME NEW T \in SUBSET Nat, T # {}
    PROVE  \E n \in T : \A m \in T : n <= m
<1>1. PICK n \in T : \A m \in T : ~(<<m, n>> \in OpToRel(<, Nat))
  BY NatLessThanWellFounded, WFMin
<1>2. \A m \in T : ~(m < n)
  BY <1>1 DEF OpToRel
<1> QED  BY <1>2

\* Where an entry stands after the one at i was removed.
LEMMA RemoveAtAt ==
    ASSUME NEW s \in Seq(Entry), NEW i \in DOMAIN s
    PROVE  /\ RemoveAt(s, i) \in Seq(Entry)
           /\ Len(RemoveAt(s, i)) = Len(s) - 1
           /\ \A j \in 1..(Len(s) - 1) : RemoveAt(s, i)[j] = IF j < i THEN s[j] ELSE s[j + 1]
<1> DEFINE a == SubSeq(s, 1, i - 1)
           b == SubSeq(s, i + 1, Len(s))
<1>1. Len(s) \in Nat /\ i \in 1..Len(s)
  OBVIOUS
<1>2. /\ a \in Seq(Entry) /\ Len(a) = i - 1
      /\ \A j \in 1..(i - 1) : a[j] = s[j]
  BY <1>1
<1>3. /\ b \in Seq(Entry) /\ Len(b) = Len(s) - i
      /\ \A j \in 1..(Len(s) - i) : b[j] = s[i + j]
  BY <1>1
<1>4. RemoveAt(s, i) = a \o b
  BY DEF RemoveAt
<1> HIDE DEF a, b
<1>5. /\ a \o b \in Seq(Entry) /\ Len(a \o b) = Len(a) + Len(b)
      /\ \A j \in 1..(Len(a) + Len(b)) : (a \o b)[j] = IF j <= Len(a) THEN a[j] ELSE b[j - Len(a)]
  BY <1>2, <1>3, ConcatProperties
<1>6. Len(a) + Len(b) = Len(s) - 1
  BY <1>1, <1>2, <1>3
<1>7. ASSUME NEW j \in 1..(Len(s) - 1)
      PROVE  (a \o b)[j] = IF j < i THEN s[j] ELSE s[j + 1]
  <2>1. CASE j < i
    <3>1. j \in 1..(i - 1)
      BY <1>1, <2>1
    <3> QED  BY <1>1, <1>2, <1>5, <1>6, <2>1, <3>1
  <2>2. CASE ~(j < i)
    <3>1. j - Len(a) \in 1..(Len(s) - i) /\ i + (j - Len(a)) = j + 1 /\ ~(j <= Len(a))
      BY <1>1, <1>2, <2>2
    <3> QED  BY <1>3, <1>5, <1>6, <2>2, <3>1
  <2> QED  BY <2>1, <2>2
<1> QED  BY <1>4, <1>5, <1>6, <1>7

\* Where an entry stands after e was inserted.
LEMMA InsertedAt ==
    ASSUME NEW s \in Seq(Entry), NEW e \in Entry
    PROVE  /\ Inserted(s, e) \in Seq(Entry)
           /\ Len(Inserted(s, e)) = Len(s) + 1
           /\ \E i \in 1..(Len(s) + 1) :
                /\ \A j \in 1..(Len(s) + 1) :
                      Inserted(s, e)[j] = IF j < i THEN s[j] ELSE IF j = i THEN e ELSE s[j - 1]
                /\ i <= Len(s) => Before(e, s[i])
                /\ \A k \in 1..(i - 1) : ~Before(e, s[k])
<1> DEFINE T == {j \in 1..(Len(s) + 1) : j <= Len(s) => Before(e, s[j])}
           First(j) == /\ j <= Len(s) => Before(e, s[j])
                       /\ \A k \in 1..(j - 1) : ~Before(e, s[k])
           i == CHOOSE j \in 1..(Len(s) + 1) : First(j)
<1>1. Len(s) \in Nat
  OBVIOUS
<1>2. Len(s) + 1 \in T
  BY <1>1
<1>3. PICK n \in T : \A m \in T : n <= m
  <2>1. T \in SUBSET Nat
    BY <1>1
  <2> HIDE DEF T
  <2> QED  BY <1>2, <2>1, LeastNumber
<1>4. n \in 1..(Len(s) + 1) /\ First(n)
  BY <1>1, <1>3
<1>5. i \in 1..(Len(s) + 1) /\ First(i)
  <2> HIDE DEF First
  <2> QED  BY <1>4
<1>6. Inserted(s, e) = SubSeq(s, 1, i - 1) \o <<e>> \o SubSeq(s, i, Len(s))
  BY DEF Inserted
<1> HIDE DEF i
<1>7. /\ SubSeq(s, 1, i - 1) \in Seq(Entry) /\ Len(SubSeq(s, 1, i - 1)) = i - 1
      /\ \A j \in 1..(i - 1) : SubSeq(s, 1, i - 1)[j] = s[j]
  BY <1>1, <1>5
<1>8. /\ SubSeq(s, i, Len(s)) \in Seq(Entry) /\ Len(SubSeq(s, i, Len(s))) = Len(s) - i + 1
      /\ \A j \in 1..(Len(s) - i + 1) : SubSeq(s, i, Len(s))[j] = s[i + j - 1]
  BY <1>1, <1>5
<1>9. /\ <<e>> \in Seq(Entry) /\ Len(<<e>>) = 1 /\ <<e>>[1] = e
  OBVIOUS
<1> DEFINE a == SubSeq(s, 1, i - 1)
           b == SubSeq(s, i, Len(s))
           c == a \o <<e>>
<1>10. /\ c \in Seq(Entry) /\ Len(c) = i
       /\ \A j \in 1..i : c[j] = IF j < i THEN s[j] ELSE e
  BY <1>1, <1>5, <1>7, <1>9
<1>11. /\ c \o b \in Seq(Entry) /\ Len(c \o b) = Len(s) + 1
       /\ \A j \in 1..(Len(s) + 1) : (c \o b)[j] = IF j < i THEN s[j] ELSE IF j = i THEN e ELSE s[j - 1]
  <2> HIDE DEF a, b, c
  <2>1. /\ b \in Seq(Entry) /\ Len(b) = Len(s) - i + 1
        /\ \A j \in 1..(Len(s) - i + 1) : b[j] = s[i + j - 1]
    BY <1>8 DEF b
  <2>2. /\ c \o b \in Seq(Entry) /\ Len(c \o b) = Len(c) + Len(b)
        /\ \A j \in 1..(Len(c) + Len(b)) : (c \o b)[j] = IF j <= Len(c) THEN c[j] ELSE b[j - Len(c)]
    BY <1>10, <2>1, ConcatProperties
  <2> QED  BY <1>1, <1>5, <1>10, <2>1, <2>2
<1>12. Inserted(s, e) = c \o b
  BY <1>6
<1> HIDE DEF c, b
<1> QED  BY <1>1, <1>5, <1>11, <1>12

-----------------------------------------------------------------------------
(***************************************************************************)
(* The same operations seen as sets of entries, which the times when they  *)
(* were made tell apart.                                                   *)
(***************************************************************************)

\* No two positions of s hold an entry of the same time.
Distinct(s) == \A i, j \in DOMAIN s : s[i].createdAt = s[j].createdAt => i = j

\* No entry of A has the time of an entry of B.
Apart(A, B) == \A e \in A, f \in B : e.createdAt # f.createdAt

\* What a sequence holds.
LEMMA ItemsOf ==
    ASSUME NEW s \in Seq(Entry)
    PROVE  /\ Items(s) \subseteq Entry
           /\ \A e : e \in Items(s) <=> \E i \in 1..Len(s) : s[i] = e
           /\ Distinct(s) <=> \A i, j \in 1..Len(s) : s[i].createdAt = s[j].createdAt => i = j
  BY DEF Items, Distinct

LEMMA RemoveAtItems ==
    ASSUME NEW s \in Seq(Entry), NEW i \in DOMAIN s, Distinct(s)
    PROVE  /\ Items(RemoveAt(s, i)) = Items(s) \ {s[i]}
           /\ Distinct(RemoveAt(s, i))
<1> DEFINE r == RemoveAt(s, i)
<1>1. /\ r \in Seq(Entry) /\ Len(r) = Len(s) - 1 /\ Len(s) \in Nat /\ i \in 1..Len(s)
      /\ \A j \in 1..(Len(s) - 1) : r[j] = IF j < i THEN s[j] ELSE s[j + 1]
  <2>1. Len(s) \in Nat /\ i \in 1..Len(s)
    OBVIOUS
  <2> QED  BY <2>1, RemoveAtAt, Zenon
<1> HIDE DEF r
<1>2. ASSUME NEW j \in 1..Len(r)
      PROVE  \E k \in 1..Len(s) : k # i /\ r[j] = s[k] /\ k = (IF j < i THEN j ELSE j + 1)
  BY <1>1
<1>3. ASSUME NEW k \in 1..Len(s), k # i
      PROVE  \E j \in 1..Len(r) : r[j] = s[k]
  <2>1. CASE k < i
    <3>1. k \in 1..Len(r) /\ r[k] = s[k]
      BY <1>1, <2>1
    <3> QED  BY <3>1
  <2>2. CASE k > i
    <3>1. k - 1 \in 1..Len(r) /\ ~(k - 1 < i) /\ (k - 1) + 1 = k
      BY <1>1, <2>2
    <3>2. r[k - 1] = s[k]
      BY <1>1, <3>1
    <3> QED  BY <3>1, <3>2
  <2>3. k < i \/ k > i
    BY <1>1, <1>3
  <2> QED  BY <2>1, <2>2, <2>3
<1>4. \A a, b \in 1..Len(s) : s[a].createdAt = s[b].createdAt => a = b
  BY ItemsOf
<1>5. Items(r) = Items(s) \ {s[i]}
  <2>1. ASSUME NEW e \in Items(r) PROVE e \in Items(s) \ {s[i]}
    BY <1>1, <1>2, <1>4, ItemsOf
  <2>2. ASSUME NEW e \in Items(s) \ {s[i]} PROVE e \in Items(r)
    BY <1>1, <1>3, ItemsOf
  <2> QED  BY <2>1, <2>2
<1>6. Distinct(r)
  <2>1. ASSUME NEW a \in 1..Len(r), NEW b \in 1..Len(r), r[a].createdAt = r[b].createdAt PROVE a = b
    <3>1. PICK k \in 1..Len(s) : k # i /\ r[a] = s[k] /\ k = (IF a < i THEN a ELSE a + 1)
      BY <1>2
    <3>2. PICK l \in 1..Len(s) : l # i /\ r[b] = s[l] /\ l = (IF b < i THEN b ELSE b + 1)
      BY <1>2
    <3>3. k = l
      BY <1>4, <2>1, <3>1, <3>2
    <3> QED  BY <1>1, <3>1, <3>2, <3>3
  <2> QED  BY <1>1, <2>1, ItemsOf
<1> QED  BY <1>5, <1>6 DEF r

LEMMA InsertedItems ==
    ASSUME NEW s \in Seq(Entry), NEW e \in Entry, Distinct(s), Apart(Items(s), {e})
    PROVE  /\ Items(Inserted(s, e)) = Items(s) \cup {e}
           /\ Distinct(Inserted(s, e))
<1> DEFINE r == Inserted(s, e)
<1>1. r \in Seq(Entry) /\ Len(r) = Len(s) + 1 /\ Len(s) \in Nat
  BY InsertedAt
<1>2. PICK i \in 1..(Len(s) + 1) :
        \A j \in 1..(Len(s) + 1) : r[j] = IF j < i THEN s[j] ELSE IF j = i THEN e ELSE s[j - 1]
  BY InsertedAt
<1> HIDE DEF r
<1>3. r[i] = e /\ i \in 1..Len(r)
  BY <1>1, <1>2
<1>4. ASSUME NEW j \in 1..Len(r), j # i
      PROVE  \E k \in 1..Len(s) : r[j] = s[k] /\ k = (IF j < i THEN j ELSE j - 1)
  BY <1>1, <1>2, <1>4
<1>5. ASSUME NEW k \in 1..Len(s)
      PROVE  \E j \in 1..Len(r) : r[j] = s[k]
  <2>1. CASE k < i
    <3>1. k \in 1..Len(r) /\ r[k] = s[k]
      BY <1>1, <1>2, <2>1
    <3> QED  BY <3>1
  <2>2. CASE ~(k < i)
    <3>1. k + 1 \in 1..Len(r) /\ ~(k + 1 < i) /\ k + 1 # i /\ (k + 1) - 1 = k
      BY <1>1, <2>2
    <3>2. r[k + 1] = s[k]
      BY <1>1, <1>2, <3>1
    <3> QED  BY <3>1, <3>2
  <2> QED  BY <2>1, <2>2
<1>6. \A a, b \in 1..Len(s) : s[a].createdAt = s[b].createdAt => a = b
  BY ItemsOf
<1>7. \A a \in 1..Len(s) : s[a].createdAt # e.createdAt
  BY ItemsOf DEF Apart
<1>8. Items(r) = Items(s) \cup {e}
  <2>1. ASSUME NEW f \in Items(r) PROVE f \in Items(s) \cup {e}
    BY <1>1, <1>3, <1>4, ItemsOf
  <2>2. ASSUME NEW f \in Items(s) \cup {e} PROVE f \in Items(r)
    BY <1>1, <1>3, <1>5, ItemsOf
  <2> QED  BY <2>1, <2>2
<1>9. Distinct(r)
  <2>1. ASSUME NEW a \in 1..Len(r), NEW b \in 1..Len(r), r[a].createdAt = r[b].createdAt PROVE a = b
    <3>1. a = i <=> b = i
      BY <1>3, <1>4, <1>7, <2>1
    <3>2. CASE a # i /\ b # i
      <4>1. PICK k \in 1..Len(s) : r[a] = s[k] /\ k = (IF a < i THEN a ELSE a - 1)
        BY <1>4, <3>2
      <4>2. PICK l \in 1..Len(s) : r[b] = s[l] /\ l = (IF b < i THEN b ELSE b - 1)
        BY <1>4, <3>2
      <4>3. k = l
        BY <1>6, <2>1, <4>1, <4>2
      <4> QED  BY <1>1, <3>2, <4>1, <4>2, <4>3
    <3> QED  BY <3>1, <3>2
  <2> QED  BY <1>1, <2>1, ItemsOf
<1> QED  BY <1>8, <1>9 DEF r

\* <<e>> in front of s: what processQueue makes of an entry it cannot hand over.
LEMMA FrontItems ==
    ASSUME NEW s \in Seq(Entry), NEW e \in Entry, Distinct(s), Apart(Items(s), {e})
    PROVE  /\ <<e>> \o s \in Seq(Entry)
           /\ Items(<<e>> \o s) = Items(s) \cup {e}
           /\ Distinct(<<e>> \o s)
<1> DEFINE r == <<e>> \o s
<1>1. /\ r \in Seq(Entry) /\ Len(r) = Len(s) + 1 /\ Len(s) \in Nat
      /\ r[1] = e /\ \A j \in 2..(Len(s) + 1) : r[j] = s[j - 1]
  OBVIOUS
<1> HIDE DEF r
<1>2. \A k \in 1..Len(s) : k + 1 \in 1..Len(r) /\ r[k + 1] = s[k]
  <2>1. ASSUME NEW k \in 1..Len(s) PROVE k + 1 \in 2..(Len(s) + 1) /\ (k + 1) - 1 = k
    BY <1>1
  <2> QED  BY <1>1, <2>1
<1>3. \A j \in 1..Len(r) : j # 1 => j - 1 \in 1..Len(s) /\ r[j] = s[j - 1]
  BY <1>1
<1>4. \A a, b \in 1..Len(s) : s[a].createdAt = s[b].createdAt => a = b
  BY ItemsOf
<1>5. \A a \in 1..Len(s) : s[a].createdAt # e.createdAt
  BY ItemsOf DEF Apart
<1>6. Items(r) = Items(s) \cup {e}
  <2>1. ASSUME NEW f \in Items(r) PROVE f \in Items(s) \cup {e}
    BY <1>1, <1>3, ItemsOf
  <2>2. ASSUME NEW f \in Items(s) \cup {e} PROVE f \in Items(r)
    BY <1>1, <1>2, ItemsOf
  <2> QED  BY <2>1, <2>2
<1>7. Distinct(r)
  <2>1. ASSUME NEW a \in 1..Len(r), NEW b \in 1..Len(r), r[a].createdAt = r[b].createdAt PROVE a = b
    <3>1. a = 1 <=> b = 1
      BY <1>1, <1>3, <1>5, <2>1
    <3>2. CASE a # 1 /\ b # 1
      <4>1. a - 1 = b - 1
        BY <1>3, <1>4, <2>1, <3>2
      <4> QED  BY <1>1, <4>1
    <3> QED  BY <3>1, <3>2
  <2> QED  BY <1>1, <2>1, ItemsOf
<1> QED  BY <1>1, <1>6, <1>7 DEF r

\* The end of a channel.
LEMMA AppendItems ==
    ASSUME NEW s \in Seq(Entry), NEW e \in Entry, Distinct(s), Apart(Items(s), {e})
    PROVE  /\ Append(s, e) \in Seq(Entry)
           /\ Items(Append(s, e)) = Items(s) \cup {e}
           /\ Distinct(Append(s, e))
<1> DEFINE r == Append(s, e)
<1>1. /\ r \in Seq(Entry) /\ Len(r) = Len(s) + 1 /\ Len(s) \in Nat
      /\ r[Len(r)] = e /\ \A j \in 1..Len(s) : r[j] = s[j]
  OBVIOUS
<1> HIDE DEF r
<1>2. \A j \in 1..Len(r) : j # Len(r) => j \in 1..Len(s)
  BY <1>1
<1>3. Len(r) \in 1..Len(r) /\ 1..Len(s) \subseteq 1..Len(r)
  BY <1>1
<1>4. \A a, b \in 1..Len(s) : s[a].createdAt = s[b].createdAt => a = b
  BY ItemsOf
<1>5. \A a \in 1..Len(s) : s[a].createdAt # e.createdAt
  BY ItemsOf DEF Apart
<1>6. Items(r) = Items(s) \cup {e}
  <2>1. ASSUME NEW f \in Items(r) PROVE f \in Items(s) \cup {e}
    BY <1>1, <1>2, ItemsOf
  <2>2. ASSUME NEW f \in Items(s) \cup {e} PROVE f \in Items(r)
    BY <1>1, <1>3, ItemsOf
  <2> QED  BY <2>1, <2>2
<1>7. Distinct(r)
  BY <1>1, <1>2, <1>4, <1>5, ItemsOf
<1> QED  BY <1>1, <1>6, <1>7 DEF r

\* The front of a channel.
LEMMA TailItems ==
    ASSUME NEW s \in Seq(Entry), s # << >>, Distinct(s)
    PROVE  /\ Head(s) \in Items(s) /\ Tail(s) \in Seq(Entry)
           /\ Items(Tail(s)) = Items(s) \ {Head(s)}
           /\ Distinct(Tail(s))
<1> DEFINE r == Tail(s)
<1>1. /\ r \in Seq(Entry) /\ Len(r) = Len(s) - 1 /\ Len(s) \in Nat \ {0}
      /\ Head(s) = s[1] /\ \A j \in 1..Len(r) : r[j] = s[j + 1]
  OBVIOUS
<1> HIDE DEF r
<1>2. \A j \in 1..Len(r) : j + 1 \in 1..Len(s) /\ r[j] = s[j + 1]
  BY <1>1
<1>3. \A k \in 1..Len(s) : k # 1 => k - 1 \in 1..Len(r) /\ r[k - 1] = s[k]
  <2>1. ASSUME NEW k \in 1..Len(s), k # 1 PROVE k - 1 \in 1..Len(r) /\ (k - 1) + 1 = k
    BY <1>1, <2>1
  <2> QED  BY <1>1, <2>1
<1>4. \A a, b \in 1..Len(s) : s[a].createdAt = s[b].createdAt => a = b
  BY ItemsOf
<1>5. 1 \in 1..Len(s)
  BY <1>1
<1>6. Items(r) = Items(s) \ {s[1]}
  <2>1. ASSUME NEW f \in Items(r) PROVE f \in Items(s) \ {s[1]}
    <3>1. PICK j \in 1..Len(r) : r[j] = f
      BY <1>1, ItemsOf
    <3>2. j + 1 # 1
      BY <1>1
    <3> QED  BY <1>2, <1>4, <1>5, <3>1, <3>2, ItemsOf
  <2>2. ASSUME NEW f \in Items(s) \ {s[1]} PROVE f \in Items(r)
    BY <1>1, <1>3, ItemsOf
  <2> QED  BY <2>1, <2>2
<1>7. Distinct(r)
  <2>1. ASSUME NEW a \in 1..Len(r), NEW b \in 1..Len(r), r[a].createdAt = r[b].createdAt PROVE a = b
    <3>1. a + 1 = b + 1
      BY <1>2, <1>4, <2>1
    <3> QED  BY <1>1, <3>1
  <2> QED  BY <1>1, <2>1, ItemsOf
<1> QED  BY <1>1, <1>5, <1>6, <1>7, ItemsOf DEF r

-----------------------------------------------------------------------------
(***************************************************************************)
(* The order of the queue.                                                 *)
(***************************************************************************)

InOrder(s) == \A i, j \in 1..Len(s) : i < j => ~Before(s[j], s[i])

LEMMA EntryFields ==
    ASSUME NEW e \in Entry
    PROVE  /\ e.task \in Tasks /\ e.priority \in Nat /\ e.createdAt \in 1..MaxEnqueues
           /\ e.createdAt \in Nat /\ e.retries \in 0..MaxRetries /\ e.retries \in Nat
<1>1. /\ e.task \in Tasks /\ e.priority \in Priorities /\ e.createdAt \in 1..MaxEnqueues
      /\ e.retries \in 0..MaxRetries
  BY DEF Entry
<1>2. Priorities \subseteq Nat /\ MaxEnqueues \in Nat /\ MaxRetries \in Nat
  BY QueueBounds
<1>3. \A n \in 1..MaxEnqueues : n \in Nat
  BY <1>2
<1>4. \A n \in 0..MaxRetries : n \in Nat
  BY <1>2
<1> QED  BY <1>1, <1>2, <1>3, <1>4, Zenon

LEMMA BeforeIsOrder ==
    ASSUME NEW e \in Entry, NEW f \in Entry, NEW g \in Entry
    PROVE  /\ Before(e, f) => ~Before(f, e)
           /\ Before(e, f) /\ Before(f, g) => Before(e, g)
  BY EntryFields DEF Before

LEMMA RemoveAtInOrder ==
    ASSUME NEW s \in Seq(Entry), NEW i \in DOMAIN s, InOrder(s)
    PROVE  InOrder(RemoveAt(s, i))
<1> DEFINE r == RemoveAt(s, i)
<1>1. /\ r \in Seq(Entry) /\ Len(r) = Len(s) - 1 /\ Len(s) \in Nat /\ i \in 1..Len(s)
      /\ \A j \in 1..(Len(s) - 1) : r[j] = IF j < i THEN s[j] ELSE s[j + 1]
  <2>1. Len(s) \in Nat /\ i \in 1..Len(s)
    OBVIOUS
  <2> QED  BY <2>1, RemoveAtAt, Zenon
<1> HIDE DEF r
<1>2. ASSUME NEW j \in 1..Len(r)
      PROVE  \E k \in 1..Len(s) : r[j] = s[k] /\ k = (IF j < i THEN j ELSE j + 1)
  BY <1>1
<1>3. ASSUME NEW a \in 1..Len(r), NEW b \in 1..Len(r), a < b PROVE ~Before(r[b], r[a])
  <2>1. PICK k \in 1..Len(s) : r[a] = s[k] /\ k = (IF a < i THEN a ELSE a + 1)
    BY <1>2
  <2>2. PICK l \in 1..Len(s) : r[b] = s[l] /\ l = (IF b < i THEN b ELSE b + 1)
    BY <1>2
  <2>3. k < l
    BY <1>1, <1>3, <2>1, <2>2
  <2> QED  BY <2>1, <2>2, <2>3 DEF InOrder
<1> QED  BY <1>3 DEF InOrder, r

\* insertTaskByPriority puts an entry behind all that precede it and in front of
\* all others, if the queue was in order.
LEMMA InsertedInOrder ==
    ASSUME NEW s \in Seq(Entry), NEW e \in Entry, InOrder(s)
    PROVE  InOrder(Inserted(s, e))
<1> DEFINE r == Inserted(s, e)
<1>1. r \in Seq(Entry) /\ Len(r) = Len(s) + 1 /\ Len(s) \in Nat
  BY InsertedAt
<1>2. PICK i \in 1..(Len(s) + 1) :
        /\ \A j \in 1..(Len(s) + 1) : r[j] = IF j < i THEN s[j] ELSE IF j = i THEN e ELSE s[j - 1]
        /\ i <= Len(s) => Before(e, s[i])
        /\ \A k \in 1..(i - 1) : ~Before(e, s[k])
  BY InsertedAt
<1> HIDE DEF r
<1>3. r[i] = e
  BY <1>1, <1>2
<1>4. ASSUME NEW j \in 1..Len(r), j # i
      PROVE  \E k \in 1..Len(s) : r[j] = s[k] /\ k = (IF j < i THEN j ELSE j - 1)
  <2>1. CASE j < i
    <3>1. j \in 1..Len(s) /\ r[j] = s[j]
      BY <1>1, <1>2, <2>1
    <3> QED  BY <2>1, <3>1
  <2>2. CASE ~(j < i)
    <3>1. j - 1 \in 1..Len(s) /\ r[j] = s[j - 1]
      BY <1>1, <1>2, <1>4, <2>2
    <3> QED  BY <2>2, <3>1
  <2> QED  BY <2>1, <2>2
<1>5. ASSUME NEW k \in 1..Len(s), k >= i PROVE ~Before(s[k], e)
  <2>1. i \in 1..Len(s) /\ Before(e, s[i]) /\ s[i] \in Entry /\ s[k] \in Entry
    BY <1>1, <1>2, <1>5
  <2>2. CASE k = i
    BY <2>1, <2>2, BeforeIsOrder
  <2>3. CASE i < k
    <3>1. ~Before(s[k], s[i])
      BY <2>1, <2>3 DEF InOrder
    <3> QED  BY <2>1, <3>1, BeforeIsOrder
  <2> QED  BY <1>5, <2>1, <2>2, <2>3
<1>6. ASSUME NEW a \in 1..Len(r), NEW b \in 1..Len(r), a < b PROVE ~Before(r[b], r[a])
  <2>1. CASE a = i
    <3>1. b # i
      BY <1>6, <2>1
    <3>2. PICK l \in 1..Len(s) : r[b] = s[l] /\ l = (IF b < i THEN b ELSE b - 1)
      BY <1>4, <3>1
    <3>3. l >= i
      BY <1>1, <1>6, <2>1, <3>2
    <3> QED  BY <1>3, <1>5, <2>1, <3>2, <3>3
  <2>2. CASE b = i
    <3>1. a # i
      BY <1>6, <2>2
    <3>2. PICK k \in 1..Len(s) : r[a] = s[k] /\ k = (IF a < i THEN a ELSE a - 1)
      BY <1>4, <3>1
    <3>3. k \in 1..(i - 1)
      BY <1>1, <1>6, <2>2, <3>2
    <3> QED  BY <1>2, <1>3, <2>2, <3>2, <3>3
  <2>3. CASE a # i /\ b # i
    <3>1. PICK k \in 1..Len(s) : r[a] = s[k] /\ k = (IF a < i THEN a ELSE a - 1)
      BY <1>4, <2>3
    <3>2. PICK l \in 1..Len(s) : r[b] = s[l] /\ l = (IF b < i THEN b ELSE b - 1)
      BY <1>4, <2>3
    <3>3. k < l
      BY <1>1, <1>6, <2>3, <3>1, <3>2
    <3> QED  BY <3>1, <3>2, <3>3 DEF InOrder
  <2> QED  BY <2>1, <2>2, <2>3
<1> QED  BY <1>6 DEF InOrder, r

-----------------------------------------------------------------------------
(***************************************************************************)
(* Types.                                                                  *)
(***************************************************************************)

\* The loop of processQueue is at an entry of the queue, or past its end.
Typed == TypeOK /\ (lock = "scan" => scanAt >= 1)

LEMMA TimesIsNat ==
    ASSUME NEW t \in Tasks, NEW h \in Hosts
    PROVE  Times(t, h) \in Nat
<1>1. HostIDs[t] \in Seq(Hosts)
  BY QueueSets
<1>2. DOMAIN HostIDs[t] = 1..Len(HostIDs[t]) /\ Len(HostIDs[t]) \in Nat
  BY <1>1
<1>3. IsFiniteSet(DOMAIN HostIDs[t])
  BY <1>2, FS_Interval
<1>4. {i \in DOMAIN HostIDs[t] : HostIDs[t][i] = h} \in SUBSET DOMAIN HostIDs[t]
  OBVIOUS
<1> HIDE DEF Times
<1>5. IsFiniteSet({i \in DOMAIN HostIDs[t] : HostIDs[t][i] = h})
  BY <1>3, <1>4, FS_Subset
<1> QED  BY <1>5, FS_CardinalityType DEF Times

LEMMA LoadTypes ==
    ASSUME TypeOK, NEW t \in Tasks
    PROVE  /\ Loaded(t) \in [Hosts -> Nat] /\ Unloaded(t) \in [Hosts -> Nat]
           /\ HostSet(t) \subseteq Hosts
<1>1. \A h \in Hosts : Times(t, h) \in Nat /\ load[h] \in Nat
  BY TimesIsNat DEF TypeOK
<1>2. HostIDs[t] \in Seq(Hosts)
  BY QueueSets
<1>3. HostSet(t) \subseteq Hosts
  BY <1>2 DEF HostSet, Items
<1> QED  BY <1>1, <1>3 DEF Loaded, Unloaded

\* The entry that the loop of processQueue looks at.
LEMMA ScannedEntry ==
    ASSUME Typed, lock = "scan", ~ScanOver
    PROVE  /\ scanAt \in DOMAIN taskQueue /\ scanAt \in 1..Len(taskQueue)
           /\ taskQueue[scanAt] \in Entry /\ taskQueue[scanAt].task \in Tasks
<1>1. scanAt \in DOMAIN taskQueue /\ scanAt \in 1..Len(taskQueue)
  BY DEF Typed, TypeOK, ScanOver
<1>2. taskQueue[scanAt] \in Entry
  BY <1>1 DEF Typed, TypeOK
<1> QED  BY <1>1, <1>2, EntryFields

\* The entry of the next attempt.
LEMMA RetriedEntry ==
    ASSUME NEW e \in Entry, RetriesLeft(e)
    PROVE  /\ [e EXCEPT !.retries = @ + 1] \in Entry
           /\ [e EXCEPT !.retries = @ + 1].createdAt = e.createdAt
           /\ [e EXCEPT !.retries = @ + 1].retries >= 1
<1>1. e.retries + 1 \in 0..MaxRetries /\ e.retries + 1 >= 1
  BY QueueBounds, EntryFields DEF RetriesLeft
<1> QED  BY <1>1 DEF Entry

LEMMA TypedInit == Init => Typed
<1> SUFFICES ASSUME Init PROVE Typed
  OBVIOUS
<1>1. << >> \in Seq(Entry) /\ 0 \in 0..MaxEnqueues
  BY QueueBounds
<1> QED  BY <1>1 DEF Init, Typed, TypeOK, Lock

LEMMA TypedNext == Typed /\ [Next]_vars => Typed'
<1> SUFFICES ASSUME Typed, [Next]_vars PROVE Typed'
  OBVIOUS
<1> USE DEF Typed, vars, queueVars, loadVars, workerVars, lockVars, lifeVars
<1>0. /\ taskQueue \in Seq(Entry) /\ runningTasks \in [Tasks -> Entry \cup {None}]
      /\ load \in [Hosts -> Nat] /\ sleeping \subseteq Entry /\ scanAt \in Nat
      /\ channels \in [Workers -> Seq(Entry)] /\ executing \in [Workers -> Entry \cup {None}]
  BY DEF TypeOK
<1>1. CASE UNCHANGED vars
  BY <1>1 DEF TypeOK
<1>2. ASSUME NEW t \in Tasks, NEW p \in Priorities, EnqueueTask(t, p) PROVE Typed'
  <2>1. clock + 1 \in 1..MaxEnqueues /\ 0 \in 0..MaxRetries
    BY <1>2, QueueBounds DEF TypeOK, EnqueueTask
  <2>2. [task |-> t, priority |-> p, createdAt |-> clock + 1, retries |-> 0] \in Entry
    BY <2>1 DEF Entry
  <2>3. taskQueue' \in Seq(Entry)
    BY <1>0, <1>2, <2>2, InsertedAt DEF EnqueueTask
  <2>4. clock' \in 0..MaxEnqueues
    BY <1>2, <2>1, QueueBounds DEF EnqueueTask
  <2> QED  BY <1>2, <2>3, <2>4 DEF EnqueueTask, TypeOK
<1>3. ASSUME NEW t \in Tasks, CancelTask(t) PROVE Typed'
  <2>1. CASE \E i \in DOMAIN taskQueue : taskQueue' = RemoveAt(taskQueue, i) /\ UNCHANGED <<runningTasks, loadVars>>
    <3>1. taskQueue' \in Seq(Entry)
      BY <1>0, <2>1, RemoveAtAt
    <3> QED  BY <1>3, <2>1, <3>1 DEF CancelTask, TypeOK
  <2>2. CASE /\ runningTasks' = NotRunning(t) /\ load' = Unloaded(t) /\ Touched(t)
             /\ UNCHANGED <<taskQueue, available, overUsed>>
    <3>1. load' \in [Hosts -> Nat] /\ HostSet(t) \subseteq Hosts
      BY <2>2, LoadTypes
    <3>2. runningTasks' \in [Tasks -> Entry \cup {None}]
      BY <1>0, <2>2 DEF NotRunning
    <3> QED  BY <1>3, <2>2, <3>1, <3>2 DEF CancelTask, TypeOK, Touched
  <2> QED  BY <1>3, <2>1, <2>2 DEF CancelTask
<1>4. CASE StatusLocks \/ StatusReturns \/ WriterArrives
  BY <1>4 DEF TypeOK, StatusLocks, StatusReturns, WriterArrives, Lock
<1>5. ASSUME NEW h \in Hosts, NEW over \in BOOLEAN, NEW av \in BOOLEAN, UpdateHostLoad(h, over, av) PROVE Typed'
  BY <1>5 DEF TypeOK, UpdateHostLoad
<1>6. CASE Shutdown
  BY <1>6 DEF TypeOK, Shutdown
<1>7. CASE ScanEnds
  BY <1>7 DEF TypeOK, ScanEnds, Lock
<1>8. CASE ScanSkips
  <2> DEFINE t == taskQueue[scanAt].task
  <2>1. t \in Tasks
    BY <1>8, ScannedEntry DEF ScanSkips
  <2>2. \A i \in DOMAIN HostIDs[t] : HostIDs[t][i] \in Hosts
    BY <2>1, QueueSets
  <2>3. hostLoads' \subseteq Hosts
    BY <1>8, <2>2 DEF ScanSkips, TypeOK
  <2>4. scanAt' \in Nat /\ scanAt' >= 1
    BY <1>0, <1>8 DEF ScanSkips
  <2> QED  BY <1>8, <2>3, <2>4 DEF TypeOK, ScanSkips
<1>9. ASSUME NEW w \in Workers, ScanDispatches(w) PROVE Typed'
  <2> DEFINE e == taskQueue[scanAt]
  <2>1. e \in Entry /\ e.task \in Tasks /\ scanAt \in DOMAIN taskQueue
    BY <1>9, ScannedEntry DEF ScanDispatches
  <2>2. taskQueue' \in Seq(Entry)
    BY <1>0, <1>9, <2>1, RemoveAtAt DEF ScanDispatches
  <2>3. load' \in [Hosts -> Nat] /\ HostSet(e.task) \subseteq Hosts
    BY <1>9, <2>1, LoadTypes DEF ScanDispatches
  <2>4. runningTasks' \in [Tasks -> Entry \cup {None}]
    BY <1>0, <1>9, <2>1 DEF ScanDispatches
  <2>5. channels' \in [Workers -> Seq(Entry)] /\ crashed' \in BOOLEAN
    <3>1. Append(channels[w], e) \in Seq(Entry)
      BY <1>0, <2>1
    <3> QED  BY <1>0, <1>9, <3>1 DEF ScanDispatches, TypeOK
  <2>6. hostLoads' \subseteq Hosts /\ stale' \subseteq Hosts
    BY <1>9, <2>3 DEF ScanDispatches, Touched, TypeOK
  <2> QED  BY <1>9, <2>2, <2>3, <2>4, <2>5, <2>6 DEF TypeOK, ScanDispatches
<1>10. ASSUME NEW w \in Workers, ScanPutsBack(w) PROVE Typed'
  <2> DEFINE e == taskQueue[scanAt]
  <2>1. e \in Entry /\ e.task \in Tasks /\ scanAt \in DOMAIN taskQueue
    BY <1>10, ScannedEntry DEF ScanPutsBack
  <2>2. PutBack(e) \in Seq(Entry)
    BY <1>0, <2>1, RemoveAtAt DEF PutBack
  <2>3. NotRunning(e.task) \in [Tasks -> Entry \cup {None}]
    BY <1>0 DEF NotRunning
  <2>4. hostLoads' \subseteq Hosts /\ stale' \subseteq Hosts
    BY <1>10, <2>1, LoadTypes DEF ScanPutsBack, Touched, TypeOK
  <2>5. /\ taskQueue' \in Seq(Entry) /\ runningTasks' \in [Tasks -> Entry \cup {None}]
        /\ load' \in [Hosts -> Nat] /\ crashed' \in BOOLEAN
    BY <1>10, <2>2, <2>3 DEF ScanPutsBack, TypeOK
  <2> QED  BY <1>10, <2>4, <2>5 DEF TypeOK, ScanPutsBack
<1>11. CASE ProcessQueue \/ AdjustConcurrency
  BY <1>11 DEF TypeOK, ProcessQueue, AdjustConcurrency, Lock, Locks
<1>12. CASE UpdateHostLoads
  BY <1>12 DEF TypeOK, UpdateHostLoads
<1>13. ASSUME NEW e \in sleeping, RetryInserts(e) PROVE Typed'
  <2>1. taskQueue' \in Seq(Entry)
    BY <1>0, <1>13, InsertedAt DEF RetryInserts
  <2> QED  BY <1>13, <2>1 DEF TypeOK, RetryInserts
<1>14. ASSUME NEW h \in Hosts, FiveMinutesPass(h) PROVE Typed'
  BY <1>14 DEF TypeOK, FiveMinutesPass
<1>15. ASSUME NEW w \in Workers, WorkerReceives(w) PROVE Typed'
  <2>1. Head(channels[w]) \in Entry /\ Tail(channels[w]) \in Seq(Entry)
    BY <1>0, <1>15 DEF WorkerReceives
  <2>2. executing' \in [Workers -> Entry \cup {None}] /\ channels' \in [Workers -> Seq(Entry)]
    BY <1>0, <1>15, <2>1 DEF WorkerReceives
  <2> QED  BY <1>15, <2>2 DEF TypeOK, WorkerReceives
<1>16. ASSUME NEW w \in Workers, NEW ok \in BOOLEAN, ExecuteTask(w, ok) PROVE Typed'
  <2> DEFINE e == executing[w]
  <2>1. e \in Entry /\ e.task \in Tasks
    BY <1>0, <1>16, EntryFields DEF ExecuteTask
  <2>2. sleeping' \subseteq Entry
    BY <1>0, <1>16, <2>1, RetriedEntry DEF ExecuteTask
  <2>3. runningTasks' \in [Tasks -> Entry \cup {None}] /\ executing' \in [Workers -> Entry \cup {None}]
    BY <1>0, <1>16 DEF ExecuteTask, NotRunning
  <2>4. load' \in [Hosts -> Nat] /\ hostLoads' \subseteq Hosts /\ stale' \subseteq Hosts
    BY <1>16, <2>1, LoadTypes DEF ExecuteTask, Touched, TypeOK, Released
  <2> QED  BY <1>16, <2>2, <2>3, <2>4 DEF TypeOK, ExecuteTask
<1>17. ASSUME NEW w \in Workers, WorkerStops(w) \/ WorkerReceivesNil(w) PROVE Typed'
  BY <1>17 DEF TypeOK, WorkerStops, WorkerReceivesNil
<1> QED  BY <1>1, <1>2, <1>3, <1>4, <1>5, <1>6, <1>7, <1>8, <1>9, <1>10, <1>11, <1>12, <1>13, <1>14,
            <1>15, <1>16, <1>17 DEF Next, CallerStep, ScanStep, TimerStep, WorkerStep

-----------------------------------------------------------------------------
(***************************************************************************)
(* The load that a finite set of entries puts on a host: the sum does not  *)
(* depend on the order in which the entries are taken.                     *)
(***************************************************************************)

\* A nonempty set of subsets of a finite set has a minimal one.
LEMMA MinimalSubset ==
    ASSUME NEW U, IsFiniteSet(U), NEW T \in SUBSET (SUBSET U), T # {}
    PROVE  \E s \in T : \A r \in T : r \subseteq s => r = s
<1>1. IsWellFoundedOn(StrictSubsetOrdering(U), SUBSET U)
  BY FS_StrictSubsetOrderingWellFounded, FS_FiniteSubsetsOfFinite
<1>2. PICK s \in T : \A r \in T : ~(<<r, s>> \in StrictSubsetOrdering(U))
  BY <1>1, WFMin
<1> QED  BY <1>2 DEF StrictSubsetOrdering

Weight(h, e) == Times(e.task, h)
Chosen(s) == CHOOSE x \in s : TRUE

\* f is the function that the sum of LoadIsExact computes with, on the subsets of U.
IsFold(h, U, f) ==
    f = [s \in SUBSET U |-> IF s = {} THEN 0 ELSE Weight(h, Chosen(s)) + f[s \ {Chosen(s)}]]

LEMMA LoadOfIs ==
    ASSUME NEW h, NEW A
    PROVE  LoadOf(h, A) = (CHOOSE f : IsFold(h, A, f))[A]
  BY DEF LoadOf, MapThenSumSet, MapThenFoldSet, IsFold, Weight, Chosen

LEMMA ChosenIn ==
    ASSUME NEW s, s # {}
    PROVE  Chosen(s) \in s
  BY DEF Chosen

FoldLaw(h, U, f) ==
    /\ \A s \in SUBSET U : s # {} => f[s] = Weight(h, Chosen(s)) + f[s \ {Chosen(s)}]
    /\ f[{}] = 0

LEMMA FoldAt ==
    ASSUME NEW h, NEW U, NEW f, IsFold(h, U, f)
    PROVE  FoldLaw(h, U, f)
<1> DEFINE F(s) == IF s = {} THEN 0 ELSE Weight(h, Chosen(s)) + f[s \ {Chosen(s)}]
<1>1. f = [s \in SUBSET U |-> F(s)]
  BY DEF IsFold
<1>2. \A s \in SUBSET U : f[s] = F(s)
  <2> HIDE DEF F
  <2> QED  BY <1>1
<1>3. {} \in SUBSET U
  OBVIOUS
<1> QED  BY <1>2, <1>3 DEF FoldLaw

\* It does not depend on U.
LEMMA FoldUnique ==
    ASSUME NEW h, NEW U, NEW V, IsFiniteSet(U), NEW f, NEW g, IsFold(h, U, f), IsFold(h, V, g)
    PROVE  \A s \in SUBSET U : s \in SUBSET V => f[s] = g[s]
<1> DEFINE T == {s \in SUBSET U : s \in SUBSET V /\ f[s] # g[s]}
<1> SUFFICES ASSUME T # {} PROVE FALSE
  OBVIOUS
<1>1. PICK s \in T : \A r \in T : r \subseteq s => r = s
  <2>1. T \in SUBSET (SUBSET U)
    OBVIOUS
  <2> HIDE DEF T
  <2> QED  BY <2>1, MinimalSubset
<1>2. s \in SUBSET U /\ s \in SUBSET V /\ f[s] # g[s]
  OBVIOUS
<1>3. s # {}
  BY <1>2, FoldAt DEF FoldLaw
<1>4. Chosen(s) \in s
  BY <1>3, ChosenIn
<1> DEFINE r == s \ {Chosen(s)}
<1>5. r \in SUBSET U /\ r \in SUBSET V /\ r \subseteq s /\ r # s
  BY <1>2, <1>4
<1>6. f[r] = g[r]
  BY <1>1, <1>5
<1>7. f[s] = Weight(h, Chosen(s)) + f[r] /\ g[s] = Weight(h, Chosen(s)) + g[r]
  <2>1. FoldLaw(h, U, f) /\ FoldLaw(h, V, g)
    BY FoldAt
  <2> QED  BY <1>2, <1>3, <2>1, Zenon DEF FoldLaw
<1> QED  BY <1>2, <1>6, <1>7

LEMMA FoldExists ==
    ASSUME NEW h, NEW U, IsFiniteSet(U)
    PROVE  \E f : IsFold(h, U, f)
<1> DEFINE T == {V \in SUBSET U : ~\E f : IsFold(h, V, f)}
<1> SUFFICES ASSUME T # {} PROVE FALSE
  OBVIOUS
<1>1. PICK V \in T : \A r \in T : r \subseteq V => r = V
  <2>1. T \in SUBSET (SUBSET U)
    OBVIOUS
  <2> HIDE DEF T
  <2> QED  BY <2>1, MinimalSubset
<1> DEFINE F(s) == CHOOSE f : IsFold(h, s, f)
<1>2. \A s \in SUBSET V : s # V => IsFold(h, s, F(s))
  <2>1. ASSUME NEW s \in SUBSET V, s # V PROVE \E f : IsFold(h, s, f)
    BY <1>1, <2>1
  <2> HIDE DEF IsFold
  <2> QED  BY <2>1
<1>3. \A s \in SUBSET V : IsFiniteSet(s)
  BY FS_Subset, <1>1
<1>4. \A r, s \in SUBSET V : r \in SUBSET s /\ s # V => F(s)[r] = F(r)[r]
  <2> SUFFICES ASSUME NEW r \in SUBSET V, NEW s \in SUBSET V, r \in SUBSET s, s # V
               PROVE  F(s)[r] = F(r)[r]
    OBVIOUS
  <2>1. r # V
    OBVIOUS
  <2>2. IsFold(h, s, F(s)) /\ IsFold(h, r, F(r)) /\ IsFiniteSet(s) /\ r \in SUBSET r
    BY <1>2, <1>3, <2>1
  <2> HIDE DEF F
  <2> QED  BY <2>2, FoldUnique
<1> DEFINE G(s) == IF s # V THEN F(s)[s] ELSE
                     IF V = {} THEN 0 ELSE Weight(h, Chosen(V)) + F(V \ {Chosen(V)})[V \ {Chosen(V)}]
           g == [s \in SUBSET V |-> G(s)]
<1>5. ASSUME NEW s \in SUBSET V
      PROVE  G(s) = IF s = {} THEN 0 ELSE Weight(h, Chosen(s)) + G(s \ {Chosen(s)})
  <2>1. CASE s = {}
    <3>1. CASE s = V
      BY <2>1, <3>1
    <3>2. CASE s # V
      <4>1. F(s)[s] = 0
        <5>1. IsFold(h, s, F(s))
          BY <1>2, <3>2
        <5> HIDE DEF F
        <5> QED  BY <2>1, <5>1, FoldAt DEF FoldLaw
      <4> QED  BY <2>1, <3>2, <4>1
    <3> QED  BY <3>1, <3>2
  <2>2. CASE s # {}
    <3> DEFINE r == s \ {Chosen(s)}
    <3>1. Chosen(s) \in s
      BY <2>2, ChosenIn
    <3>2. r \in SUBSET V /\ r # V /\ r \in SUBSET s
      BY <3>1
    <3>3. G(r) = F(r)[r]
      BY <3>2
    <3>4. CASE s = V
      BY <2>2, <3>3, <3>4
    <3>5. CASE s # V
      <4>1. F(s)[s] = Weight(h, Chosen(s)) + F(s)[r]
        <5>1. IsFold(h, s, F(s)) /\ s \in SUBSET s
          BY <1>2, <3>5
        <5> HIDE DEF F
        <5>2. FoldLaw(h, s, F(s))
          BY <5>1, FoldAt
        <5> QED  BY <2>2, <5>1, <5>2, Zenon DEF FoldLaw
      <4>2. F(s)[r] = F(r)[r]
        BY <1>4, <3>2, <3>5
      <4>3. G(s) = F(s)[s]
        BY <3>5
      <4> HIDE DEF F, G
      <4> QED  BY <2>2, <3>3, <4>1, <4>2, <4>3
    <3> QED  BY <3>4, <3>5
  <2> QED  BY <2>1, <2>2
<1>6. \A s \in SUBSET V : g[s] = G(s)
  <2> HIDE DEF G
  <2> QED  OBVIOUS
<1>7. ASSUME NEW s \in SUBSET V
      PROVE  G(s) = IF s = {} THEN 0 ELSE Weight(h, Chosen(s)) + g[s \ {Chosen(s)}]
  <2>1. s \ {Chosen(s)} \in SUBSET V
    OBVIOUS
  <2> HIDE DEF G, g
  <2> QED  BY <1>5, <1>6, <2>1
<1>8. IsFold(h, V, g)
  <2> DEFINE R(s) == IF s = {} THEN 0 ELSE Weight(h, Chosen(s)) + g[s \ {Chosen(s)}]
  <2>1. \A s \in SUBSET V : G(s) = R(s)
    BY <1>7
  <2>2. g = [s \in SUBSET V |-> R(s)]
    <3> HIDE DEF G, R
    <3> QED  BY <2>1
  <2> HIDE DEF g
  <2> QED  BY <2>2 DEF IsFold
<1> QED  BY <1>1, <1>8

\* The entries of a set may be counted in any order.
LEMMA FoldAnyOrder ==
    ASSUME NEW h \in Hosts, NEW U \in SUBSET Entry, IsFiniteSet(U), NEW f, IsFold(h, U, f)
    PROVE  \A s \in SUBSET U : f[s] \in Nat /\ \A x \in s : f[s] = Weight(h, x) + f[s \ {x}]
<1> DEFINE P(s) == f[s] \in Nat /\ \A x \in s : f[s] = Weight(h, x) + f[s \ {x}]
           T == {s \in SUBSET U : ~P(s)}
<1> SUFFICES ASSUME T # {} PROVE FALSE
  OBVIOUS
<1>1. PICK s \in T : \A r \in T : r \subseteq s => r = s
  <2>1. T \in SUBSET (SUBSET U)
    OBVIOUS
  <2> HIDE DEF T
  <2> QED  BY <2>1, MinimalSubset
<1>2. s \in SUBSET U /\ ~P(s)
  OBVIOUS
<1>3. \A r \in SUBSET U : r \subseteq s /\ r # s => P(r)
  BY <1>1
<1>4. s # {}
  <2>1. f[{}] = 0
    BY FoldAt DEF FoldLaw
  <2> QED  BY <1>2, <2>1
<1> DEFINE c == Chosen(s)
<1>5. c \in s
  BY <1>4, ChosenIn
<1>6. \A x \in s : Weight(h, x) \in Nat
  BY <1>2, EntryFields, TimesIsNat DEF Weight
<1>7. f[s] = Weight(h, c) + f[s \ {c}]
  <2>1. FoldLaw(h, U, f)
    BY FoldAt
  <2> QED  BY <1>2, <1>4, <2>1, Zenon DEF FoldLaw
<1> HIDE DEF c
<1>8. P(s \ {c})
  BY <1>2, <1>3, <1>5
<1>9. f[s] \in Nat
  BY <1>5, <1>6, <1>7, <1>8
<1>10. ASSUME NEW x \in s PROVE f[s] = Weight(h, x) + f[s \ {x}]
  <2>1. CASE x = c
    BY <1>7, <2>1
  <2>2. CASE x # c
    <3>1. P(s \ {x})
      BY <1>2, <1>3
    <3>2. x \in s \ {c} /\ c \in s \ {x} /\ (s \ {c}) \ {x} = (s \ {x}) \ {c}
      BY <1>5, <2>2
    <3>3. f[s \ {c}] = Weight(h, x) + f[(s \ {x}) \ {c}]
      BY <1>8, <3>2
    <3>4. f[s \ {x}] = Weight(h, c) + f[(s \ {x}) \ {c}]
      BY <3>1, <3>2
    <3>5. P((s \ {x}) \ {c})
      <4>1. (s \ {x}) \ {c} \in SUBSET U /\ (s \ {x}) \ {c} \subseteq s /\ (s \ {x}) \ {c} # s
        BY <1>2
      <4> HIDE DEF P
      <4> QED  BY <1>3, <4>1
    <3> DEFINE a == Weight(h, x)
               b == Weight(h, c)
               d == f[(s \ {x}) \ {c}]
    <3>6. a \in Nat /\ b \in Nat /\ d \in Nat
      BY <1>5, <1>6, <3>5
    <3>7. f[s] = b + (a + d) /\ f[s \ {x}] = b + d
      BY <1>7, <3>3, <3>4
    <3> HIDE DEF a, b, d
    <3>8. f[s] = a + f[s \ {x}]
      BY <3>6, <3>7
    <3> QED  BY <3>8 DEF a
  <2> QED  BY <2>1, <2>2
<1> QED  BY <1>2, <1>9, <1>10

\* One entry more adds what its task puts on the host.
LEMMA LoadOfMore ==
    ASSUME NEW h \in Hosts, NEW A \in SUBSET Entry, IsFiniteSet(A), NEW x \in A
    PROVE  /\ LoadOf(h, A) = Times(x.task, h) + LoadOf(h, A \ {x})
           /\ LoadOf(h, A) \in Nat /\ LoadOf(h, A \ {x}) \in Nat
<1> DEFINE B == A \ {x}
           f == CHOOSE k : IsFold(h, A, k)
           g == CHOOSE k : IsFold(h, B, k)
<1>1. IsFiniteSet(B) /\ B \in SUBSET A /\ B \in SUBSET Entry /\ B \in SUBSET B /\ A \in SUBSET A
  BY FS_RemoveElement
<1> HIDE DEF B
<1>2. IsFold(h, A, f)
  <2>1. \E k : IsFold(h, A, k)
    BY FoldExists
  <2> QED  BY <2>1, Zenon
<1>3. IsFold(h, B, g)
  <2>1. \E k : IsFold(h, B, k)
    BY <1>1, FoldExists
  <2> QED  BY <2>1, Zenon
<1>4. LoadOf(h, A) = f[A] /\ LoadOf(h, B) = g[B]
  BY LoadOfIs
<1> HIDE DEF f, g
<1>5. f[B] = g[B]
  BY <1>1, <1>2, <1>3, FoldUnique
<1>6. \A s \in SUBSET A : f[s] \in Nat /\ \A y \in s : f[s] = Weight(h, y) + f[s \ {y}]
  BY <1>2, FoldAnyOrder
<1>7. f[A] = Weight(h, x) + f[B] /\ f[A] \in Nat /\ f[B] \in Nat
  BY <1>1, <1>6 DEF B
<1> QED  BY <1>4, <1>5, <1>7 DEF B, Weight

LEMMA LoadOfNone ==
    ASSUME NEW h
    PROVE  LoadOf(h, {}) = 0
<1> DEFINE f == CHOOSE k : IsFold(h, {}, k)
<1>1. \E k : IsFold(h, {}, k)
  BY FoldExists, FS_EmptySet
<1>2. IsFold(h, {}, f)
  BY <1>1, Zenon
<1>3. LoadOf(h, {}) = f[{}]
  BY LoadOfIs
<1> HIDE DEF f
<1> QED  BY <1>2, <1>3, FoldAt DEF FoldLaw

\* Two sets with the same entries put the same load on a host, also after a step.
LEMMA LoadOfNext ==
    ASSUME NEW h
    PROVE  LoadOf(h, Assigned)' = LoadOf(h, Assigned')
  BY DEF LoadOf, MapThenSumSet, MapThenFoldSet

-----------------------------------------------------------------------------
(***************************************************************************)
(* Where the entries are.                                                  *)
(***************************************************************************)

Own(w)  == {executing[w]} \ {None}
With(w) == Items(channels[w]) \cup Own(w)

\* Every entry is in one place.
PlacedOnce ==
    /\ Distinct(taskQueue)
    /\ \A w \in Workers : Distinct(channels[w]) /\ Apart(Items(channels[w]), Own(w))
    /\ \A v, w \in Workers : v # w => Apart(With(v), With(w))
    /\ \A e, f \in sleeping : e.createdAt = f.createdAt => e = f
    /\ Apart(Items(taskQueue), sleeping)
    /\ \A w \in Workers : Apart(Items(taskQueue) \cup sleeping, With(w))

\* The time of a new entry is later than all others.
InTime == \A e \in Held : e.createdAt <= clock

Retried == \A e \in sleeping : e.retries >= 1

\* The running map has an entry under its own task.
RunningOwn == \A t \in Running : runningTasks[t].task = t

\* Entries in the queue that were never tried.
Fresh == {e \in Items(taskQueue) : e.retries = 0}
FreshFit == Cardinality(Fresh) <= QueueCapacity

Inv ==
    /\ Typed /\ PlacedOnce /\ InTime /\ Retried /\ RunningOwn /\ RunningIsAssigned /\ FreshFit
    /\ LoadIsExact

\* What a step of the queue keeps besides: it loses no entry and spoils no order.
EntriesKept == \A e \in Held : (\A f \in Held' : f.createdAt # e.createdAt)
                  => e \in Executing \/ (\E t \in Tasks : CancelTask(t)) \/ crashed'
OrderStays == Sorted /\ ~(\E w \in Workers : ScanPutsBack(w)) => Sorted'

LEMMA HeldIs ==
    /\ \A e : e \in Assigned <=> \E w \in Workers : e \in With(w)
    /\ \A e : e \in Held <=> e \in Items(taskQueue) \/ e \in sleeping \/ \E w \in Workers : e \in With(w)
    /\ \A e : e \in Assigned' <=> \E w \in Workers : e \in With(w)'
    /\ \A e : e \in Held' <=> e \in Items(taskQueue)' \/ e \in sleeping' \/ \E w \in Workers : e \in With(w)'
  BY DEF Held, Assigned, InChannels, Executing, With, Own

LEMMA HeldEntries ==
    ASSUME Typed
    PROVE  Held \subseteq Entry
<1>1. Items(taskQueue) \subseteq Entry /\ sleeping \subseteq Entry
  BY ItemsOf DEF Typed, TypeOK
<1>2. ASSUME NEW w \in Workers PROVE With(w) \subseteq Entry
  <2>1. channels[w] \in Seq(Entry) /\ executing[w] \in Entry \cup {None}
    BY DEF Typed, TypeOK
  <2>2. Items(channels[w]) \subseteq Entry
    BY <2>1, ItemsOf
  <2> QED  BY <2>1, <2>2 DEF With, Own
<1> QED  BY <1>1, <1>2, HeldIs

LEMMA FreshFinite ==
    ASSUME Typed
    PROVE  /\ IsFiniteSet(Fresh) /\ Cardinality(Fresh) \in Nat
           /\ Cardinality(Fresh) <= Len(taskQueue)
<1>1. taskQueue \in [1..Len(taskQueue) -> Items(taskQueue)] /\ Len(taskQueue) \in Nat
  BY DEF Typed, TypeOK, Items
<1>2. taskQueue \in Surjection(1..Len(taskQueue), Items(taskQueue))
  BY <1>1 DEF Surjection, Items
<1>3. IsFiniteSet(1..Len(taskQueue)) /\ Cardinality(1..Len(taskQueue)) = Len(taskQueue)
  <2>1. IsFiniteSet(1..Len(taskQueue)) /\ Cardinality(1..Len(taskQueue)) =
          IF 1 > Len(taskQueue) THEN 0 ELSE Len(taskQueue) - 1 + 1
    BY <1>1, FS_Interval
  <2> QED  BY <1>1, <2>1
<1>4. IsFiniteSet(Items(taskQueue)) /\ Cardinality(Items(taskQueue)) <= Len(taskQueue)
  BY <1>2, <1>3, FS_Surjection
<1>5. Fresh \in SUBSET Items(taskQueue)
  BY DEF Fresh
<1>6. IsFiniteSet(Fresh) /\ Cardinality(Fresh) <= Cardinality(Items(taskQueue))
  BY <1>4, <1>5, FS_Subset
<1>7. Cardinality(Fresh) \in Nat /\ Cardinality(Items(taskQueue)) \in Nat
  BY <1>4, <1>6, FS_CardinalityType
<1> QED  BY <1>1, <1>4, <1>6, <1>7

LEMMA FreshShrinks ==
    ASSUME Typed, Typed', FreshFit, Fresh' \subseteq Fresh
    PROVE  FreshFit'
<1>1. IsFiniteSet(Fresh) /\ Cardinality(Fresh) \in Nat
  BY FreshFinite
<1> DEFINE F == Fresh
           G == Fresh'
<1>2. G \in SUBSET F /\ IsFiniteSet(F)
  BY <1>1
<1> HIDE DEF F, G
<1>3. IsFiniteSet(G) /\ Cardinality(G) <= Cardinality(F)
  BY <1>2, FS_Subset
<1>4. Cardinality(G) \in Nat
  BY <1>3, FS_CardinalityType
<1> QED  BY <1>1, <1>3, <1>4, QueueBounds DEF FreshFit, F, G

\* The indices that NewTasksWithinCapacity counts are as many as the entries.
LEMMA FreshCounted ==
    ASSUME Typed, Distinct(taskQueue)
    PROVE  Cardinality({i \in DOMAIN taskQueue : taskQueue[i].retries = 0}) = Cardinality(Fresh)
<1> DEFINE I == {i \in DOMAIN taskQueue : taskQueue[i].retries = 0}
           f == [i \in I |-> taskQueue[i]]
<1>1. DOMAIN taskQueue = 1..Len(taskQueue) /\ Len(taskQueue) \in Nat
  BY DEF Typed, TypeOK
<1>2. I \in SUBSET (1..Len(taskQueue))
  BY <1>1
<1>3. IsFiniteSet(I)
  <2> HIDE DEF I
  <2>1. IsFiniteSet(1..Len(taskQueue))
    BY <1>1, FS_Interval
  <2> QED  BY <1>2, <2>1, FS_Subset
<1>4. f \in [I -> Fresh]
  BY DEF Fresh, Items
<1>5. \A i, j \in I : f[i] = f[j] => i = j
  BY DEF Distinct
<1>6. \A e \in Fresh : \E i \in I : f[i] = e
  BY DEF Fresh, Items
<1>7. f \in Bijection(I, Fresh)
  <2> HIDE DEF I, f
  <2> QED  BY <1>4, <1>5, <1>6 DEF Bijection, Injection, Surjection, IsInjective
<1>8. ExistsBijection(I, Fresh)
  <2> HIDE DEF I, f
  <2> QED  BY <1>7 DEF ExistsBijection
<1>9. Cardinality(Fresh) = Cardinality(I)
  <2> HIDE DEF I, f
  <2> QED  BY <1>3, <1>8, FS_Bijection
<1> QED  BY <1>9

\* The entries of the workers are finitely many: their times are different.
LEMMA AssignedFinite ==
    ASSUME Typed, PlacedOnce
    PROVE  Assigned \in SUBSET Entry /\ IsFiniteSet(Assigned)
<1>1. Assigned \in SUBSET Entry
  BY HeldEntries, HeldIs
<1>2. ASSUME NEW e \in Assigned, NEW f \in Assigned, e.createdAt = f.createdAt PROVE e = f
  <2>1. PICK v \in Workers : e \in With(v)
    BY HeldIs
  <2>2. PICK w \in Workers : f \in With(w)
    BY HeldIs
  <2>3. v = w
    BY <1>2, <2>1, <2>2 DEF PlacedOnce, Apart
  <2>4. e \in Items(channels[v]) <=> f \in Items(channels[v])
    BY <1>2, <2>1, <2>2, <2>3 DEF PlacedOnce, Apart, With
  <2>5. CASE e \in Items(channels[v])
    BY <1>2, <2>4, <2>5 DEF PlacedOnce, Distinct, Items
  <2>6. CASE e \notin Items(channels[v])
    BY <2>1, <2>2, <2>3, <2>4, <2>6 DEF With, Own
  <2> QED  BY <2>5, <2>6
<1> DEFINE A == Assigned
           f == [e \in A |-> e.createdAt]
<1>3. f \in [A -> 1..MaxEnqueues]
  BY <1>1, EntryFields
<1>4. f \in Injection(A, 1..MaxEnqueues)
  BY <1>2, <1>3 DEF Injection, IsInjective
<1>5. IsFiniteSet(1..MaxEnqueues)
  BY FS_Interval, QueueBounds
<1>6. IsFiniteSet(A)
  <2> HIDE DEF A, f
  <2> QED  BY <1>4, <1>5, FS_Injection
<1> QED  BY <1>1, <1>6

LEMMA LoadRests ==
    ASSUME Inv, load' = load, crashed => crashed', \A w \in Workers : With(w)' = With(w)
    PROVE  LoadIsExact'
<1>1. Assigned' = Assigned
  BY HeldIs
<1> QED  BY <1>1, LoadOfNext DEF Inv, LoadIsExact

-----------------------------------------------------------------------------
(***************************************************************************)
(* The steps.                                                              *)
(***************************************************************************)

LEMMA SortedIs == (Typed => (Sorted <=> InOrder(taskQueue))) /\ (Typed' => (Sorted' <=> InOrder(taskQueue')))
<1>1. Typed => DOMAIN taskQueue = 1..Len(taskQueue)
  BY DEF Typed, TypeOK
<1>2. Typed' => DOMAIN taskQueue' = 1..Len(taskQueue')
  BY DEF Typed, TypeOK
<1> QED  BY <1>1, <1>2 DEF Sorted, InOrder

\* Steps that move no entry.
LEMMA NothingMoves ==
    ASSUME Inv, Typed', UNCHANGED <<queueVars, load, channels, executing>>, crashed => crashed'
    PROVE  Inv' /\ EntriesKept /\ OrderStays
<1>1. /\ Items(taskQueue)' = Items(taskQueue) /\ sleeping' = sleeping /\ clock' = clock /\ Held' = Held
      /\ \A w \in Workers : With(w)' = With(w) /\ Own(w)' = Own(w)
  BY DEF queueVars, Items, With, Own, Held, Assigned, InChannels, Executing
<1>2. PlacedOnce'
  BY <1>1 DEF Inv, PlacedOnce, Distinct, queueVars
<1>3. InTime' /\ Retried' /\ RunningOwn' /\ FreshFit'
  BY <1>1 DEF Inv, InTime, Retried, RunningOwn, Running, FreshFit, Fresh, queueVars
<1>4. RunningIsAssigned'
  BY <1>1, HeldIs DEF Inv, RunningIsAssigned, Running, queueVars
<1>5. OrderStays
  BY DEF OrderStays, Sorted, queueVars
<1>6. EntriesKept
  BY <1>1 DEF EntriesKept
<1>7. LoadIsExact'
  BY <1>1, LoadRests
<1> QED  BY <1>2, <1>3, <1>4, <1>5, <1>6, <1>7 DEF Inv

LEMMA EnqueueKeeps ==
    ASSUME Inv, Typed', NEW t \in Tasks, NEW p \in Priorities, EnqueueTask(t, p)
    PROVE  Inv' /\ EntriesKept /\ OrderStays
<1> DEFINE n == [task |-> t, priority |-> p, createdAt |-> clock + 1, retries |-> 0]
<1>1. n \in Entry /\ n.createdAt = clock + 1 /\ clock \in Nat /\ MaxEnqueues \in Nat
  <2>1. clock + 1 \in 1..MaxEnqueues /\ 0 \in 0..MaxRetries /\ clock \in Nat /\ MaxEnqueues \in Nat
    BY QueueBounds DEF Inv, Typed, TypeOK, EnqueueTask
  <2> QED  BY <2>1 DEF Entry
<1>2. /\ taskQueue' = Inserted(taskQueue, n) /\ clock' = clock + 1
      /\ UNCHANGED <<runningTasks, sleeping, channels, executing, crashed>>
  BY DEF EnqueueTask, workerVars, lifeVars
<1> HIDE DEF n
<1>3. \A e \in Held : e \in Entry /\ e.createdAt \in Nat /\ e.createdAt <= clock
  BY HeldEntries, EntryFields DEF Inv, InTime
<1>4. Apart(Held, {n})
  BY <1>1, <1>3 DEF Apart
<1>5. /\ Items(taskQueue)' = Items(taskQueue) \cup {n} /\ Distinct(taskQueue')
  <2>1. Apart(Items(taskQueue), {n}) /\ taskQueue \in Seq(Entry) /\ Distinct(taskQueue)
    BY <1>4, HeldIs DEF Apart, Inv, Typed, TypeOK, PlacedOnce
  <2>2. Items(Inserted(taskQueue, n)) = Items(taskQueue) \cup {n} /\ Distinct(Inserted(taskQueue, n))
    BY <1>1, <2>1, InsertedItems
  <2> QED  BY <1>2, <2>2 DEF Items
<1>6. \A w \in Workers : With(w)' = With(w) /\ Own(w)' = Own(w) /\ Items(channels[w])' = Items(channels[w])
  BY <1>2 DEF With, Own, Items
<1>7. \A e : e \in Held' <=> e \in Held \/ e = n
  BY <1>2, <1>5, <1>6, HeldIs
<1>8. PlacedOnce'
  <2>1. Apart(sleeping, {n}) /\ \A w \in Workers : Apart(With(w), {n})
    BY <1>4, HeldIs DEF Apart
  <2>2. Apart(Items(taskQueue)', sleeping')
    BY <1>2, <1>5, <2>1 DEF Inv, PlacedOnce, Apart
  <2>3. \A w \in Workers : Apart(Items(taskQueue)' \cup sleeping', With(w)')
    BY <1>2, <1>5, <1>6, <2>1 DEF Inv, PlacedOnce, Apart
  <2> QED  BY <1>2, <1>5, <1>6, <2>2, <2>3 DEF Inv, PlacedOnce
<1>9. InTime' /\ Retried' /\ RunningOwn' /\ RunningIsAssigned'
  <2>1. InTime'
    BY <1>1, <1>2, <1>3, <1>7 DEF InTime
  <2> QED  BY <1>2, <1>6, <2>1, HeldIs DEF Inv, Retried, RunningOwn, RunningIsAssigned, Running
<1>10. FreshFit'
  <2> DEFINE F == Fresh
             G == Fresh'
  <2>1. G \subseteq F \cup {n}
    BY <1>5 DEF Fresh
  <2>2. IsFiniteSet(F) /\ Cardinality(F) \in Nat /\ Cardinality(F) <= Len(taskQueue)
    BY FreshFinite DEF Inv
  <2>3. Len(taskQueue) \in Nat /\ Len(taskQueue) < QueueCapacity /\ QueueCapacity \in Nat
    BY QueueBounds DEF Inv, Typed, TypeOK, EnqueueTask, Full
  <2> HIDE DEF F, G
  <2>4. IsFiniteSet(F \cup {n}) /\ Cardinality(F \cup {n}) <= Cardinality(F) + 1
    <3>1. IsFiniteSet(F \cup {n}) /\ Cardinality(F \cup {n}) =
            IF n \in F THEN Cardinality(F) ELSE Cardinality(F) + 1
      BY <2>2, FS_AddElement
    <3> QED  BY <2>2, <3>1
  <2>5. IsFiniteSet(G) /\ Cardinality(G) <= Cardinality(F \cup {n})
    BY <2>1, <2>4, FS_Subset
  <2>6. Cardinality(G) \in Nat /\ Cardinality(F \cup {n}) \in Nat
    BY <2>4, <2>5, FS_CardinalityType
  <2>7. Cardinality(G) <= QueueCapacity
    BY <2>2, <2>3, <2>4, <2>5, <2>6
  <2> QED  BY <2>7 DEF FreshFit, G
<1>11. EntriesKept
  BY <1>7 DEF EntriesKept
<1>12. OrderStays
  <2>1. Sorted => InOrder(taskQueue) /\ taskQueue \in Seq(Entry)
    BY SortedIs DEF Inv, Typed, TypeOK
  <2>2. InOrder(taskQueue') => Sorted'
    BY SortedIs
  <2> QED  BY <1>1, <1>2, <2>1, <2>2, InsertedInOrder DEF OrderStays
<1>13. LoadIsExact'
  BY <1>2, <1>6, LoadRests DEF EnqueueTask, loadVars
<1> QED  BY <1>8, <1>9, <1>10, <1>11, <1>12, <1>13 DEF Inv

LEMMA CancelKeeps ==
    ASSUME Inv, Typed', NEW t \in Tasks, CancelTask(t)
    PROVE  Inv' /\ EntriesKept /\ OrderStays
<1>1. /\ UNCHANGED <<sleeping, clock, channels, executing, crashed>>
      /\ taskQueue \in Seq(Entry) /\ Distinct(taskQueue)
  BY DEF CancelTask, workerVars, lifeVars, Inv, Typed, TypeOK, PlacedOnce
<1>2. \A w \in Workers : With(w)' = With(w) /\ Own(w)' = Own(w) /\ Items(channels[w])' = Items(channels[w])
  BY <1>1 DEF With, Own, Items
<1>3. EntriesKept
  BY DEF EntriesKept
<1>4. \/ taskQueue' = taskQueue /\ runningTasks' = NotRunning(t)
      \/ runningTasks' = runningTasks /\ \E i \in DOMAIN taskQueue : taskQueue' = RemoveAt(taskQueue, i)
  BY DEF CancelTask
<1>5. Distinct(taskQueue') /\ Items(taskQueue)' \subseteq Items(taskQueue) /\ (Sorted => Sorted')
  <2>1. CASE taskQueue' = taskQueue
    BY <1>1, <2>1 DEF Items, Sorted
  <2>2. ASSUME NEW i \in DOMAIN taskQueue, taskQueue' = RemoveAt(taskQueue, i)
        PROVE  Distinct(taskQueue') /\ Items(taskQueue)' \subseteq Items(taskQueue) /\ (Sorted => Sorted')
    <3>1. Items(RemoveAt(taskQueue, i)) \subseteq Items(taskQueue) /\ Distinct(RemoveAt(taskQueue, i))
      BY <1>1, RemoveAtItems
    <3>2. Items(taskQueue)' = Items(taskQueue')
      BY DEF Items
    <3>3. Sorted => Sorted'
      BY <1>1, <2>2, SortedIs, RemoveAtInOrder DEF Inv
    <3> QED  BY <2>2, <3>1, <3>2, <3>3
  <2> QED  BY <1>4, <2>1, <2>2
<1>6. PlacedOnce'
  <2>1. Apart(Items(taskQueue)', sleeping')
    BY <1>1, <1>5 DEF Inv, PlacedOnce, Apart
  <2>2. \A w \in Workers : Apart(Items(taskQueue)' \cup sleeping', With(w)')
    BY <1>1, <1>2, <1>5 DEF Inv, PlacedOnce, Apart
  <2> QED  BY <1>1, <1>2, <1>5, <2>1, <2>2 DEF Inv, PlacedOnce
<1>7. InTime' /\ Retried'
  BY <1>1, <1>2, <1>5, HeldIs DEF Inv, InTime, Retried
<1>8. \A u \in Running' : u \in Running /\ runningTasks'[u] = runningTasks[u]
  BY <1>4 DEF Running, NotRunning, Inv, Typed, TypeOK
<1>9. RunningOwn' /\ RunningIsAssigned'
  BY <1>1, <1>2, <1>8, HeldIs DEF Inv, RunningOwn, RunningIsAssigned
<1>10. FreshFit'
  BY <1>5, FreshShrinks DEF Inv, Fresh
<1>11. LoadIsExact'
  BY DEF CancelTask, LoadIsExact
<1> QED  BY <1>3, <1>5, <1>6, <1>7, <1>9, <1>10, <1>11 DEF Inv, OrderStays

LEMMA DispatchKeeps ==
    ASSUME Inv, Typed', NEW w \in Workers, ScanDispatches(w)
    PROVE  Inv' /\ EntriesKept /\ OrderStays
<1> DEFINE e == taskQueue[scanAt]
<1>1. /\ e \in Entry /\ e.task \in Tasks /\ scanAt \in DOMAIN taskQueue /\ e \in Items(taskQueue)
      /\ taskQueue \in Seq(Entry) /\ Distinct(taskQueue)
  BY ScannedEntry DEF ScanDispatches, Inv, Typed, TypeOK, PlacedOnce, Items
<1>2. /\ UNCHANGED <<sleeping, clock, executing>>
      /\ taskQueue' = RemoveAt(taskQueue, scanAt)
      /\ runningTasks' = [runningTasks EXCEPT ![e.task] = e]
      /\ \/ crashed' /\ channels' = channels
         \/ channels' = [channels EXCEPT ![w] = Append(@, e)]
  BY DEF ScanDispatches
<1>3. Items(taskQueue)' = Items(taskQueue) \ {e} /\ Distinct(taskQueue')
  <2>1. Items(taskQueue)' = Items(taskQueue')
    BY DEF Items
  <2> QED  BY <1>1, <1>2, <2>1, RemoveAtItems
<1>4. Sorted => Sorted'
  BY <1>1, <1>2, SortedIs, RemoveAtInOrder DEF Inv
<1>5. FreshFit'
  BY <1>3, FreshShrinks DEF Inv, Fresh
<1>6. RunningOwn'
  BY <1>1, <1>2 DEF Inv, RunningOwn, Running, Typed, TypeOK
<1>7. CASE crashed' /\ channels' = channels
  <2>1. \A v \in Workers : With(v)' = With(v) /\ Own(v)' = Own(v) /\ Items(channels[v])' = Items(channels[v])
    BY <1>2, <1>7 DEF With, Own, Items
  <2>2. PlacedOnce'
    <3>1. Apart(Items(taskQueue)', sleeping')
      BY <1>2, <1>3 DEF Inv, PlacedOnce, Apart
    <3>2. \A v \in Workers : Apart(Items(taskQueue)' \cup sleeping', With(v)')
      BY <1>2, <1>3, <2>1 DEF Inv, PlacedOnce, Apart
    <3>3. \A v \in Workers : Distinct(channels[v]') /\ Apart(Items(channels[v])', Own(v)')
      BY <1>7, <2>1 DEF Inv, PlacedOnce
    <3>4. \A u, v \in Workers : u # v => Apart(With(u)', With(v)')
      BY <2>1 DEF Inv, PlacedOnce
    <3>5. \A f, g \in sleeping' : f.createdAt = g.createdAt => f = g
      BY <1>2 DEF Inv, PlacedOnce
    <3> QED  BY <1>3, <3>1, <3>2, <3>3, <3>4, <3>5 DEF PlacedOnce
  <2>3. InTime' /\ Retried'
    BY <1>2, <1>3, <2>1, HeldIs DEF Inv, InTime, Retried
  <2>4. RunningIsAssigned' /\ EntriesKept /\ LoadIsExact'
    BY <1>7 DEF RunningIsAssigned, EntriesKept, LoadIsExact
  <2> QED  BY <1>4, <1>5, <1>6, <2>2, <2>3, <2>4 DEF Inv, OrderStays
<1>8. CASE channels' = [channels EXCEPT ![w] = Append(@, e)]
  <2>1. /\ channels \in [Workers -> Seq(Entry)] /\ channels[w] \in Seq(Entry) /\ Distinct(channels[w])
        /\ \A v \in Workers : Apart(Items(taskQueue), With(v)) /\ Apart(With(v), {e})
    BY <1>1 DEF Inv, Typed, TypeOK, PlacedOnce, Apart
  <2>2. Apart(Items(channels[w]), {e})
    BY <2>1 DEF With, Apart
  <2>3. /\ Items(Append(channels[w], e)) = Items(channels[w]) \cup {e} /\ Distinct(Append(channels[w], e))
        /\ channels'[w] = Append(channels[w], e) /\ \A v \in Workers \ {w} : channels'[v] = channels[v]
    BY <1>1, <1>8, <2>1, <2>2, AppendItems
  <2>4. /\ \A v \in Workers : Own(v)' = Own(v)
        /\ Items(channels[w])' = Items(channels[w]) \cup {e}
        /\ \A v \in Workers \ {w} : Items(channels[v])' = Items(channels[v]) /\ With(v)' = With(v)
        /\ With(w)' = With(w) \cup {e}
    <3>1. \A v \in Workers : Own(v)' = Own(v)
      BY <1>2 DEF Own
    <3>2. Items(channels[w])' = Items(channels'[w]) /\ \A v \in Workers : Items(channels[v])' = Items(channels'[v])
      BY DEF Items
    <3> QED  BY <2>3, <3>1, <3>2 DEF With
  <2>5. PlacedOnce'
    <3>1. Apart(Items(taskQueue)', sleeping')
      BY <1>2, <1>3 DEF Inv, PlacedOnce, Apart
    <3>2. Apart(Items(taskQueue)', {e})
      <4>1. \A f \in Items(taskQueue) : f.createdAt = e.createdAt => f = e
        BY <1>1 DEF Items, Distinct
      <4> QED  BY <1>3, <4>1 DEF Apart
    <3>3. Apart(sleeping, {e})
      BY <1>1 DEF Inv, PlacedOnce, Apart
    <3>4. \A v \in Workers : Apart(Items(taskQueue)' \cup sleeping', With(v)')
      BY <1>2, <1>3, <2>4, <3>2, <3>3 DEF Inv, PlacedOnce, Apart
    <3>5. \A v \in Workers : Distinct(channels'[v])
      BY <2>3 DEF Inv, PlacedOnce
    <3>6. \A v \in Workers : Apart(Items(channels[v])', Own(v)')
      BY <2>1, <2>4 DEF Inv, PlacedOnce, Apart, With
    <3>7. ASSUME NEW u \in Workers, NEW v \in Workers, u # v PROVE Apart(With(u)', With(v)')
      <4>1. Apart(With(u), With(v)) /\ Apart(With(u), {e}) /\ Apart(With(v), {e})
        BY <2>1, <3>7 DEF Inv, PlacedOnce
      <4> QED  BY <2>4, <3>7, <4>1 DEF Apart
    <3> QED  BY <1>2, <1>3, <3>1, <3>4, <3>5, <3>6, <3>7 DEF Inv, PlacedOnce
  <2>6. \A f : f \in Held' <=> f \in Held
    BY <1>1, <1>2, <1>3, <2>4, HeldIs
  <2>7. InTime' /\ Retried' /\ EntriesKept
    BY <1>2, <2>6 DEF Inv, InTime, Retried, EntriesKept
  <2>8. RunningIsAssigned'
    <3>1. e \in Assigned' /\ \A f \in Assigned : f \in Assigned'
      BY <2>4, HeldIs
    <3>2. ~crashed
      BY DEF ScanDispatches
    <3> QED  BY <1>1, <1>2, <3>1, <3>2 DEF Inv, RunningIsAssigned, Running, Typed, TypeOK
  <2>9. LoadIsExact'
    <3>1. e \in Assigned' /\ Assigned' \ {e} = Assigned
      <4>1. e \notin Assigned
        BY <2>1, HeldIs DEF Apart
      <4> QED  BY <2>4, <4>1, HeldIs
    <3>2. Assigned' \in SUBSET Entry /\ IsFiniteSet(Assigned')
      <4>1. Assigned' = Assigned \cup {e}
        BY <3>1
      <4> QED  BY <1>1, <4>1, AssignedFinite, FS_AddElement DEF Inv
    <3>3. ASSUME NEW h \in Hosts, ~Cancels PROVE load'[h] = LoadOf(h, Assigned')
      <4>1. load'[h] = load[h] + Times(e.task, h) /\ Times(e.task, h) \in Nat
        BY <1>1, TimesIsNat DEF ScanDispatches, Loaded
      <4>2. load[h] = LoadOf(h, Assigned)
        BY <3>3 DEF Inv, LoadIsExact, ScanDispatches
      <4>3. LoadOf(h, Assigned') = Times(e.task, h) + LoadOf(h, Assigned) /\ LoadOf(h, Assigned) \in Nat
        <5> DEFINE A == Assigned'
        <5>1. A \in SUBSET Entry /\ IsFiniteSet(A) /\ e \in A /\ A \ {e} = Assigned
          BY <3>1, <3>2
        <5> HIDE DEF A
        <5>2. LoadOf(h, A) = Times(e.task, h) + LoadOf(h, A \ {e}) /\ LoadOf(h, A \ {e}) \in Nat
          BY <5>1, LoadOfMore
        <5> QED  BY <5>1, <5>2 DEF A
      <4> QED  BY <4>1, <4>2, <4>3
    <3> QED  BY <3>3, LoadOfNext DEF LoadIsExact
  <2> QED  BY <1>4, <1>5, <1>6, <2>5, <2>7, <2>8, <2>9 DEF Inv, OrderStays
<1> QED  BY <1>2, <1>7, <1>8

LEMMA PutBackKeeps ==
    ASSUME Inv, Typed', NEW w \in Workers, ScanPutsBack(w)
    PROVE  Inv' /\ EntriesKept /\ OrderStays
<1> DEFINE e == taskQueue[scanAt]
<1>1. /\ e \in Entry /\ e.task \in Tasks /\ scanAt \in DOMAIN taskQueue /\ e \in Items(taskQueue)
      /\ taskQueue \in Seq(Entry) /\ Distinct(taskQueue)
  BY ScannedEntry DEF ScanPutsBack, Inv, Typed, TypeOK, PlacedOnce, Items
<1>2. OrderStays
  BY DEF OrderStays
<1>3. UNCHANGED <<sleeping, clock, channels, executing>>
  BY DEF ScanPutsBack, workerVars
<1>4. CASE down
  <2>1. UNCHANGED <<taskQueue, runningTasks, load>> /\ crashed'
    BY <1>4 DEF ScanPutsBack
  <2> QED  BY <1>3, <2>1, NothingMoves DEF queueVars
<1>5. CASE ~down
  <2>1. taskQueue' = <<e>> \o RemoveAt(taskQueue, scanAt) /\ runningTasks' = NotRunning(e.task) /\ crashed' = crashed
    BY <1>5 DEF ScanPutsBack, PutBack
  <2> DEFINE r == RemoveAt(taskQueue, scanAt)
  <2>2. r \in Seq(Entry) /\ Items(r) = Items(taskQueue) \ {e} /\ Distinct(r)
    BY <1>1, RemoveAtAt, RemoveAtItems
  <2>3. Apart(Items(r), {e})
    <3>1. \A f \in Items(taskQueue) : f.createdAt = e.createdAt => f = e
      BY <1>1 DEF Items, Distinct
    <3> QED  BY <2>2, <3>1 DEF Apart
  <2>4. Items(taskQueue') = Items(taskQueue) /\ Distinct(taskQueue')
    <3> HIDE DEF r
    <3>1. taskQueue' = <<e>> \o r
      BY <2>1 DEF r
    <3>2. Items(taskQueue') = Items(r) \cup {e} /\ Distinct(taskQueue')
      BY <1>1, <2>2, <2>3, <3>1, FrontItems
    <3> QED  BY <1>1, <2>2, <3>2
  <2>5. /\ Items(taskQueue)' = Items(taskQueue)
        /\ \A v \in Workers : With(v)' = With(v) /\ Own(v)' = Own(v) /\ Items(channels[v])' = Items(channels[v])
    BY <1>3, <2>4 DEF With, Own, Items
  <2>6. PlacedOnce'
    BY <1>3, <2>4, <2>5 DEF Inv, PlacedOnce
  <2>7. \A f : f \in Held' <=> f \in Held
    BY <1>3, <2>5, HeldIs
  <2>8. InTime' /\ Retried' /\ EntriesKept
    BY <1>3, <2>7 DEF Inv, InTime, Retried, EntriesKept
  <2>9. \A u \in Running' : u \in Running /\ runningTasks'[u] = runningTasks[u]
    BY <2>1 DEF Running, NotRunning, Inv, Typed, TypeOK
  <2>10. RunningOwn' /\ RunningIsAssigned'
    <3>1. RunningOwn /\ RunningIsAssigned
      BY DEF Inv
    <3>2. \A f \in Assigned : f \in Assigned'
      BY <2>5, HeldIs
    <3> QED  BY <2>1, <2>9, <3>1, <3>2 DEF RunningOwn, RunningIsAssigned
  <2>11. FreshFit'
    BY <2>5, FreshShrinks DEF Inv, Fresh
  <2>12. LoadIsExact'
    BY <1>5, <2>1, <2>5, LoadRests DEF ScanPutsBack
  <2> QED  BY <1>2, <2>6, <2>8, <2>10, <2>11, <2>12 DEF Inv
<1> QED  BY <1>4, <1>5

LEMMA ReceiveKeeps ==
    ASSUME Inv, Typed', NEW w \in Workers, WorkerReceives(w)
    PROVE  Inv' /\ EntriesKept /\ OrderStays
<1> DEFINE e == Head(channels[w])
<1>1. /\ channels[w] \in Seq(Entry) /\ channels[w] # << >> /\ Distinct(channels[w])
      /\ channels \in [Workers -> Seq(Entry)] /\ executing \in [Workers -> Entry \cup {None}]
      /\ executing[w] = None
  BY DEF Inv, Typed, TypeOK, PlacedOnce, WorkerReceives, Idle
<1>2. /\ UNCHANGED <<taskQueue, runningTasks, sleeping, clock, crashed>>
      /\ executing' = [executing EXCEPT ![w] = e] /\ channels' = [channels EXCEPT ![w] = Tail(@)]
  BY DEF WorkerReceives, queueVars, lifeVars
<1>3. /\ e \in Items(channels[w]) /\ Items(Tail(channels[w])) = Items(channels[w]) \ {e}
      /\ Distinct(Tail(channels[w])) /\ e \in Entry /\ e # None
  <2>1. e \in Items(channels[w]) /\ Items(Tail(channels[w])) = Items(channels[w]) \ {e} /\ Distinct(Tail(channels[w]))
    BY <1>1, TailItems
  <2> QED  BY <1>1, <2>1, ItemsOf, NoneIsNoEntry
<1>4. \A f \in Items(channels[w]) : f.createdAt = e.createdAt => f = e
  BY <1>1, <1>3 DEF Items, Distinct
<1> HIDE DEF e
<1>5. /\ channels'[w] = Tail(channels[w]) /\ \A v \in Workers \ {w} : channels'[v] = channels[v]
      /\ Own(w) = {} /\ Own(w)' = {e} /\ \A v \in Workers \ {w} : Own(v)' = Own(v)
  BY <1>1, <1>2, <1>3 DEF Own
<1>6. /\ Items(channels[w])' = Items(channels[w]) \ {e}
      /\ \A v \in Workers \ {w} : Items(channels[v])' = Items(channels[v])
      /\ \A v \in Workers : With(v)' = With(v)
  <2>1. \A v \in Workers : Items(channels[v])' = Items(channels'[v])
    BY DEF Items
  <2> QED  BY <1>3, <1>5, <2>1 DEF With
<1>7. Items(taskQueue)' = Items(taskQueue)
  BY <1>2 DEF Items
<1>8. PlacedOnce'
  <2>1. \A v \in Workers : Distinct(channels[v]')
    BY <1>3, <1>5 DEF Inv, PlacedOnce
  <2>2. \A v \in Workers : Apart(Items(channels[v])', Own(v)')
    <3>1. Apart(Items(channels[w])', Own(w)')
      BY <1>4, <1>5, <1>6 DEF Apart
    <3> QED  BY <1>5, <1>6, <3>1 DEF Inv, PlacedOnce
  <2> QED  BY <1>2, <1>6, <1>7, <2>1, <2>2 DEF Inv, PlacedOnce
<1>9. \A f : f \in Held' <=> f \in Held
  BY <1>2, <1>6, <1>7, HeldIs
<1>10. InTime' /\ Retried' /\ EntriesKept /\ OrderStays
  BY <1>2, <1>9 DEF Inv, InTime, Retried, EntriesKept, OrderStays, Sorted
<1>11. RunningOwn' /\ RunningIsAssigned'
  BY <1>2, <1>6, HeldIs DEF Inv, RunningOwn, RunningIsAssigned, Running
<1>12. FreshFit'
  BY <1>7 DEF Inv, FreshFit, Fresh
<1>13. LoadIsExact'
  BY <1>2, <1>6, LoadRests DEF WorkerReceives, loadVars
<1> QED  BY <1>8, <1>10, <1>11, <1>12, <1>13 DEF Inv

LEMMA ExecuteKeeps ==
    ASSUME Inv, Typed', NEW w \in Workers, NEW ok \in BOOLEAN, ExecuteTask(w, ok)
    PROVE  Inv' /\ EntriesKept /\ OrderStays
<1> DEFINE e == executing[w]
           n == [e EXCEPT !.retries = @ + 1]
<1>1. /\ e \in Entry /\ e # None /\ e.task \in Tasks /\ Own(w) = {e} /\ e \in With(w)
      /\ executing \in [Workers -> Entry \cup {None}] /\ runningTasks \in [Tasks -> Entry \cup {None}]
  BY EntryFields DEF Inv, Typed, TypeOK, ExecuteTask, Own, With
<1>2. /\ UNCHANGED <<taskQueue, clock, channels, crashed>>
      /\ runningTasks' = NotRunning(e.task) /\ executing' = [executing EXCEPT ![w] = None]
      /\ sleeping' = IF ~ok /\ RetriesLeft(e) THEN sleeping \cup {n} ELSE sleeping
  <2> HIDE DEF n
  <2>1. sleeping' = IF ~ok /\ RetriesLeft(e) THEN sleeping \cup {n} ELSE sleeping
    BY Zenon DEF ExecuteTask, n
  <2> QED  BY <2>1 DEF ExecuteTask, lifeVars
<1>3. RetriesLeft(e) => n \in Entry /\ n.createdAt = e.createdAt /\ n.retries >= 1
  BY <1>1, RetriedEntry
<1>4. \A f \in sleeping' : f \in sleeping \/ (f.createdAt = e.createdAt /\ f = n /\ f.retries >= 1)
  <2> HIDE DEF n
  <2>1. CASE ~ok /\ RetriesLeft(e)
    <3>1. sleeping' = sleeping \cup {n}
      BY <1>2, <2>1, Zenon
    <3> QED  BY <1>3, <2>1, <3>1
  <2>2. CASE ~(~ok /\ RetriesLeft(e))
    <3>1. sleeping' = sleeping
      BY <1>2, <2>2, Zenon
    <3> QED  BY <3>1
  <2> QED  BY <2>1, <2>2
<1> HIDE DEF n
<1>5. /\ Own(w)' = {} /\ \A v \in Workers \ {w} : Own(v)' = Own(v)
      /\ \A v \in Workers : Items(channels[v])' = Items(channels[v]) /\ Items(taskQueue)' = Items(taskQueue)
  BY <1>1, <1>2 DEF Own, Items
<1>6. /\ \A v \in Workers : With(v)' \subseteq With(v) /\ Apart(With(v)', {e})
      /\ \A v \in Workers \ {w} : With(v)' = With(v)
      /\ With(w)' = Items(channels[w])
  <2>1. /\ With(w)' = Items(channels[w]) /\ \A v \in Workers \ {w} : With(v)' = With(v)
        /\ With(w)' \subseteq With(w)
    BY <1>5 DEF With
  <2>2. Apart(Items(channels[w]), {e}) /\ \A v \in Workers \ {w} : Apart(With(v), {e})
    BY <1>1 DEF Inv, PlacedOnce, Apart
  <2> QED  BY <2>1, <2>2
<1>7. Apart(Items(taskQueue) \cup sleeping, {e})
  BY <1>1 DEF Inv, PlacedOnce, Apart
<1>8. PlacedOnce'
  <2>1. Apart(Items(taskQueue)', sleeping')
    BY <1>4, <1>5, <1>7 DEF Inv, PlacedOnce, Apart
  <2>2. \A v \in Workers : Apart(Items(taskQueue)' \cup sleeping', With(v)')
    BY <1>4, <1>5, <1>6 DEF Inv, PlacedOnce, Apart
  <2>3. \A f, g \in sleeping' : f.createdAt = g.createdAt => f = g
    BY <1>4, <1>7 DEF Inv, PlacedOnce, Apart
  <2>4. \A v \in Workers : Distinct(channels[v]') /\ Apart(Items(channels[v])', Own(v)')
    BY <1>2, <1>5 DEF Inv, PlacedOnce, Apart
  <2>5. \A u, v \in Workers : u # v => Apart(With(u)', With(v)')
    BY <1>6 DEF Inv, PlacedOnce, Apart
  <2> QED  BY <1>2, <2>1, <2>2, <2>3, <2>4, <2>5 DEF Inv, PlacedOnce
<1>9. InTime' /\ Retried'
  <2>1. e.createdAt <= clock
    BY <1>1, HeldIs DEF Inv, InTime
  <2> QED  BY <1>2, <1>4, <1>5, <1>6, <2>1, HeldIs DEF Inv, InTime, Retried
<1>10. EntriesKept
  <2>1. ASSUME NEW f \in Held, f \notin Executing PROVE f \in Held'
    <3>1. f # e
      BY <1>1, <2>1 DEF Executing
    <3>2. \A v \in Workers : f \in With(v) => f \in With(v)'
      BY <1>1, <1>6, <3>1 DEF With
    <3> QED  BY <1>2, <1>5, <3>2, HeldIs
  <2> QED  BY <2>1 DEF EntriesKept
<1>11. \A t \in Running' : t \in Running /\ runningTasks'[t] = runningTasks[t] /\ t # e.task
  BY <1>1, <1>2 DEF Running, NotRunning
<1>12. RunningOwn' /\ RunningIsAssigned'
  <2>1. RunningOwn'
    BY <1>11 DEF Inv, RunningOwn
  <2>2. ASSUME NEW t \in Running', ~crashed PROVE runningTasks'[t] \in Assigned'
    <3>1. runningTasks[t] # e /\ runningTasks[t] \in Assigned
      BY <1>11, <2>2 DEF Inv, RunningOwn, RunningIsAssigned
    <3>2. PICK v \in Workers : runningTasks[t] \in With(v)
      BY <3>1, HeldIs
    <3>3. runningTasks[t] \in With(v)'
      BY <1>1, <1>6, <3>1, <3>2 DEF With
    <3> QED  BY <1>11, <3>3, HeldIs
  <2> QED  BY <1>2, <2>1, <2>2 DEF RunningIsAssigned
<1>13. FreshFit' /\ OrderStays
  BY <1>2 DEF Inv, FreshFit, Fresh, Items, OrderStays, Sorted
<1>14. LoadIsExact'
  <2>1. e \in Assigned /\ Assigned' = Assigned \ {e}
    <3>1. e \in Assigned /\ e \notin Assigned'
      BY <1>1, <1>6, HeldIs DEF Apart
    <3>2. \A f : f \in Assigned' => f \in Assigned
      BY <1>6, HeldIs
    <3>3. \A f : f \in Assigned /\ f # e => f \in Assigned'
      <4>1. \A v \in Workers : \A f \in With(v) : f # e => f \in With(v)'
        BY <1>1, <1>6 DEF With
      <4> QED  BY <4>1, HeldIs
    <3> QED  BY <3>1, <3>2, <3>3
  <2>2. ASSUME NEW h \in Hosts, ~Cancels, ~crashed PROVE load'[h] = LoadOf(h, Assigned')
    <3>1. load'[h] = IF load[h] > Times(e.task, h) THEN load[h] - Times(e.task, h) ELSE 0
      BY DEF ExecuteTask, Released, Unloaded
    <3>2. load[h] = LoadOf(h, Assigned) /\ Times(e.task, h) \in Nat
      BY <1>1, <2>2, TimesIsNat DEF Inv, LoadIsExact
    <3>3. LoadOf(h, Assigned) = Times(e.task, h) + LoadOf(h, Assigned \ {e}) /\ LoadOf(h, Assigned \ {e}) \in Nat
      BY <2>1, AssignedFinite, LoadOfMore DEF Inv
    <3>4. load'[h] = LoadOf(h, Assigned \ {e})
      BY <3>1, <3>2, <3>3
    <3> QED  BY <2>1, <3>4
  <2> QED  BY <1>2, <2>2, LoadOfNext DEF LoadIsExact
<1> QED  BY <1>8, <1>9, <1>10, <1>12, <1>13, <1>14 DEF Inv

LEMMA RetryKeeps ==
    ASSUME Inv, Typed', NEW e \in sleeping, RetryInserts(e)
    PROVE  Inv' /\ EntriesKept /\ OrderStays
<1>1. /\ UNCHANGED <<runningTasks, clock, channels, executing, crashed>>
      /\ sleeping' = sleeping \ {e} /\ taskQueue' = Inserted(taskQueue, e)
      /\ e \in Entry /\ taskQueue \in Seq(Entry) /\ Distinct(taskQueue) /\ Apart(Items(taskQueue), {e})
  BY DEF RetryInserts, workerVars, lifeVars, Inv, Typed, TypeOK, PlacedOnce, Apart
<1>2. Items(taskQueue)' = Items(taskQueue) \cup {e} /\ Distinct(taskQueue')
  <2>1. Items(taskQueue)' = Items(taskQueue')
    BY DEF Items
  <2> QED  BY <1>1, <2>1, InsertedItems
<1>3. \A w \in Workers : With(w)' = With(w) /\ Own(w)' = Own(w) /\ Items(channels[w])' = Items(channels[w])
  BY <1>1 DEF With, Own, Items
<1>4. PlacedOnce'
  <2>1. Apart(Items(taskQueue)', sleeping')
    <3>1. Apart(sleeping', {e})
      BY <1>1 DEF Inv, PlacedOnce, Apart
    <3> QED  BY <1>1, <1>2, <3>1 DEF Inv, PlacedOnce, Apart
  <2>2. \A w \in Workers : Apart(Items(taskQueue)' \cup sleeping', With(w)')
    BY <1>1, <1>2, <1>3 DEF Inv, PlacedOnce, Apart
  <2>3. \A f, g \in sleeping' : f.createdAt = g.createdAt => f = g
    BY <1>1 DEF Inv, PlacedOnce
  <2>4. \A w \in Workers : Distinct(channels[w]') /\ Apart(Items(channels[w])', Own(w)')
    BY <1>1, <1>3 DEF Inv, PlacedOnce
  <2>5. \A v, w \in Workers : v # w => Apart(With(v)', With(w)')
    BY <1>3 DEF Inv, PlacedOnce
  <2> QED  BY <1>2, <2>1, <2>2, <2>3, <2>4, <2>5 DEF PlacedOnce
<1>5. \A f : f \in Held' <=> f \in Held
  BY <1>1, <1>2, <1>3, HeldIs
<1>6. InTime' /\ Retried' /\ EntriesKept
  BY <1>1, <1>5 DEF Inv, InTime, Retried, EntriesKept
<1>7. RunningOwn' /\ RunningIsAssigned'
  BY <1>1, <1>3, HeldIs DEF Inv, RunningOwn, RunningIsAssigned, Running
<1>8. FreshFit'
  <2>1. e.retries # 0
    BY <1>1, EntryFields DEF Inv, Retried
  <2>2. Fresh' \subseteq Fresh
    BY <1>2, <2>1 DEF Fresh
  <2> QED  BY <2>2, FreshShrinks DEF Inv
<1>9. OrderStays
  BY <1>1, SortedIs, InsertedInOrder DEF OrderStays, Inv
<1>10. LoadIsExact'
  BY <1>1, <1>3, LoadRests DEF RetryInserts, loadVars
<1> QED  BY <1>4, <1>6, <1>7, <1>8, <1>9, <1>10 DEF Inv

LEMMA QueueInit == Init => Inv
<1> SUFFICES ASSUME Init PROVE Inv
  OBVIOUS
<1>1. Typed
  BY TypedInit
<1>2. taskQueue = << >> /\ sleeping = {} /\ Running = {} /\ Items(taskQueue) = {}
  BY DEF Init, Running, Items
<1>3. \A w \in Workers : channels[w] = << >> /\ Items(channels[w]) = {} /\ Own(w) = {} /\ With(w) = {}
  BY DEF Init, Own, With, Items
<1>4. PlacedOnce
  BY <1>2, <1>3 DEF PlacedOnce, Apart, Distinct
<1>5. InTime /\ Retried /\ RunningOwn /\ RunningIsAssigned
  BY <1>2, <1>3, HeldIs DEF InTime, Retried, RunningOwn, RunningIsAssigned
<1>6. FreshFit
  <2>1. Fresh = {}
    BY <1>2 DEF Fresh
  <2> QED  BY <2>1, FS_EmptySet, QueueBounds DEF FreshFit
<1>7. LoadIsExact
  <2>1. Assigned = {}
    BY <1>3, HeldIs
  <2>2. \A h \in Hosts : load[h] = 0
    BY DEF Init
  <2> QED  BY <2>1, <2>2, LoadOfNone DEF LoadIsExact
<1> QED  BY <1>1, <1>4, <1>5, <1>6, <1>7 DEF Inv

LEMMA QueueNext == Inv /\ [Next]_vars => Inv' /\ [EntriesKept /\ OrderStays]_vars
<1> SUFFICES ASSUME Inv, [Next]_vars PROVE Inv' /\ EntriesKept /\ OrderStays
  OBVIOUS
<1> DEFINE Goal == Inv' /\ EntriesKept /\ OrderStays
<1> HIDE DEF Goal
<1> SUFFICES Goal
  BY DEF Goal
<1>0. Typed'
  BY TypedNext DEF Inv
<1>1. ASSUME UNCHANGED <<queueVars, load, channels, executing>>, crashed => crashed' PROVE Goal
  BY <1>0, <1>1, NothingMoves DEF Goal
<1>2. CASE UNCHANGED vars
  BY <1>1, <1>2 DEF vars, queueVars, workerVars, loadVars, lifeVars
<1>3. CASE CallerStep
  <2>1. ASSUME NEW t \in Tasks, NEW p \in Priorities, EnqueueTask(t, p) PROVE Goal
    BY <1>0, <2>1, EnqueueKeeps DEF Goal
  <2>2. ASSUME NEW t \in Tasks, CancelTask(t) PROVE Goal
    BY <1>0, <2>2, CancelKeeps DEF Goal
  <2>3. CASE StatusLocks \/ StatusReturns \/ WriterArrives
    BY <1>1, <2>3 DEF StatusLocks, StatusReturns, WriterArrives, workerVars, loadVars, lifeVars
  <2>4. ASSUME NEW h \in Hosts, NEW over \in BOOLEAN, NEW av \in BOOLEAN, UpdateHostLoad(h, over, av) PROVE Goal
    BY <1>1, <2>4 DEF UpdateHostLoad, workerVars, loadVars, lifeVars
  <2>5. CASE Shutdown
    BY <1>1, <2>5 DEF Shutdown, workerVars, loadVars, lifeVars
  <2> QED  BY <1>3, <2>1, <2>2, <2>3, <2>4, <2>5 DEF CallerStep
<1>4. CASE ScanStep
  <2>1. CASE ScanEnds \/ ScanSkips
    BY <1>1, <2>1 DEF ScanEnds, ScanSkips, workerVars, loadVars, lifeVars
  <2>2. ASSUME NEW w \in Workers, ScanDispatches(w) PROVE Goal
    BY <1>0, <2>2, DispatchKeeps DEF Goal
  <2>3. ASSUME NEW w \in Workers, ScanPutsBack(w) PROVE Goal
    BY <1>0, <2>3, PutBackKeeps DEF Goal
  <2> QED  BY <1>4, <2>1, <2>2, <2>3 DEF ScanStep
<1>5. CASE TimerStep
  <2>1. CASE ProcessQueue \/ AdjustConcurrency \/ UpdateHostLoads
    BY <1>1, <2>1 DEF ProcessQueue, AdjustConcurrency, UpdateHostLoads, workerVars, loadVars, lifeVars
  <2>2. ASSUME NEW e \in sleeping, RetryInserts(e) PROVE Goal
    BY <1>0, <2>2, RetryKeeps DEF Goal
  <2>3. ASSUME NEW h \in Hosts, FiveMinutesPass(h) PROVE Goal
    BY <1>1, <2>3 DEF FiveMinutesPass, workerVars, loadVars, lifeVars
  <2> QED  BY <1>5, <2>1, <2>2, <2>3 DEF TimerStep
<1>6. ASSUME NEW w \in Workers, WorkerStep(w) PROVE Goal
  <2>1. CASE WorkerReceives(w)
    BY <1>0, <2>1, ReceiveKeeps DEF Goal
  <2>2. ASSUME NEW ok \in BOOLEAN, ExecuteTask(w, ok) PROVE Goal
    BY <1>0, <2>2, ExecuteKeeps DEF Goal
  <2>3. CASE WorkerStops(w) \/ WorkerReceivesNil(w)
    BY <1>1, <2>3 DEF WorkerStops, WorkerReceivesNil, workerVars, loadVars, lifeVars
  <2> QED  BY <1>6, <2>1, <2>2, <2>3 DEF WorkerStep
<1> QED  BY <1>2, <1>3, <1>4, <1>5, <1>6 DEF Next

LEMMA QueueInv == Spec => []Inv /\ [][EntriesKept /\ OrderStays]_vars
<1>1. Inv /\ [Next]_vars => [EntriesKept /\ OrderStays]_vars
  BY QueueNext
<1>2. Inv /\ [Next]_vars => Inv'
  BY QueueNext
<1> QED  BY <1>1, <1>2, QueueInit, PTL DEF Spec

-----------------------------------------------------------------------------
\* Every variable of the queue manager keeps its type, in every setting.
THEOREM QueueTypeCorrect == Spec => []TypeOK
<1>1. Inv => TypeOK
  BY DEF Inv, Typed
<1> QED  BY <1>1, QueueInv, PTL

\* No slot of the running map is taken for ever: whatever is cancelled, put back or
\* retried, what the map names is in a channel or with a worker.
THEOREM RunningHasWorker == Spec => []RunningIsAssigned
<1>1. Inv => RunningIsAssigned
  BY DEF Inv
<1> QED  BY <1>1, QueueInv, PTL

\* Every entry is in one place, once, although the loop of processQueue changes the
\* queue that it walks over and retries are inserted without looking.
THEOREM EntriesPlacedOnce == Spec => []EntryInOnePlace
<1>1. Inv => EntryInOnePlace
  <2> SUFFICES ASSUME Inv PROVE EntryInOnePlace
    OBVIOUS
  <2>1. \A i, j \in DOMAIN taskQueue : taskQueue[i].createdAt = taskQueue[j].createdAt => i = j
    BY DEF Inv, PlacedOnce, Distinct
  <2>2. \A e \in Items(taskQueue) \cup sleeping, f \in Assigned : e.createdAt # f.createdAt
    BY HeldIs DEF Inv, PlacedOnce, Apart
  <2>3. \A e \in Items(taskQueue), f \in sleeping : e.createdAt # f.createdAt
    BY DEF Inv, PlacedOnce, Apart
  <2>4. ASSUME NEW w \in Workers, NEW f \in InChannels, executing[w] # None
        PROVE  executing[w].createdAt # f.createdAt
    <3>1. PICK v \in Workers : f \in Items(channels[v])
      BY DEF InChannels
    <3>2. executing[w] \in Own(w) /\ executing[w] \in With(w) /\ f \in With(v)
      BY <2>4, <3>1 DEF Own, With
    <3>3. CASE v = w
      BY <3>1, <3>2, <3>3 DEF Inv, PlacedOnce, Apart
    <3>4. CASE v # w
      BY <3>2, <3>4 DEF Inv, PlacedOnce, Apart
    <3> QED  BY <3>3, <3>4
  <2> QED  BY <2>1, <2>2, <2>3, <2>4 DEF EntryInOnePlace
<1> QED  BY <1>1, QueueInv, PTL

\* The load that processQueue balances by is what the entries with the workers put on
\* a host, as long as nobody cancels a running task: no path through put-backs,
\* failures and retries leaks load or releases it twice.
THEOREM LoadStaysExact == Spec => []LoadIsExact
<1>1. Inv => LoadIsExact
  BY DEF Inv
<1> QED  BY <1>1, QueueInv, PTL

\* EnqueueTask never lets the tasks that were not tried yet exceed QueueCapacity.
THEOREM NewTasksFit == Spec => []NewTasksWithinCapacity
<1>1. Inv => NewTasksWithinCapacity
  BY FreshCounted DEF Inv, PlacedOnce, FreshFit, NewTasksWithinCapacity
<1> QED  BY <1>1, QueueInv, PTL

\* An entry leaves the queue manager only from the hands of a worker, by a cancel or
\* with the process.
THEOREM EntriesNotLost == Spec => NothingLost
<1>1. [EntriesKept /\ OrderStays]_vars =>
        [ \A e \in Held : (\A f \in Held' : f.createdAt # e.createdAt) =>
              \/ e \in Executing
              \/ \E t \in Tasks : CancelTask(t)
              \/ crashed' ]_vars
  BY DEF EntriesKept
<1> QED  BY <1>1, QueueInv, PTL DEF NothingLost

\* insertTaskByPriority, the cancels and the dispatches keep the queue in order.
THEOREM QueueOrder == Spec => OrderKept
<1>1. [EntriesKept /\ OrderStays]_vars =>
        [ Sorted /\ ~(\E w \in Workers : ScanPutsBack(w)) => Sorted' ]_vars
  BY DEF OrderStays
<1> QED  BY <1>1, QueueInv, PTL DEF OrderKept
=============================================================================
