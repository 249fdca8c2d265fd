------------------------ MODULE BatchUpdates_proofs ------------------------
(***************************************************************************)
(* Theorems about results that are stored in batches, for any commands,    *)
(* results, faults, and sizes of the queue and the batches.                *)
(***************************************************************************)
EXTENDS BatchUpdates, FiniteSetTheorems, SequenceTheorems, TLAPS

\* An update of one row, and what a sequence of updates says of it: whether there is
\* one, and that the last one is of kind k.
OfRow(u, t, c)       == u.table = t /\ u.cmd = c
Has(s, t, c)         == \E i \in DOMAIN s : OfRow(s[i], t, c)
LastAt(s, t, c, i)   == OfRow(s[i], t, c) /\ \A j \in DOMAIN s : j > i => ~OfRow(s[j], t, c)
EndsWith(s, t, c, k) == \A i \in DOMAIN s : LastAt(s, t, c, i) => s[i].kind = k

\* The result that was handed over last for a row of table t.
Latest(t, c) == IF t = "command_host" /\ handler[c].at = "command" THEN handler[c].kind ELSE last[c]

\* A handler that is not at rest has a result; a buffer has updates of its own table.
Busy      == \A c \in Commands : handler[c].at # "idle" => handler[c].kind \in ResultKinds
OwnBuffer == \A t \in Tables : \A i \in DOMAIN buffer[t] : buffer[t][i].table = t

\* A result of kind k is at the end of what still waits for the row, and in the row
\* when nothing does.
Shows(t, c, k) ==
    /\ EndsWith(queue, t, c, k)
    /\ ~Has(queue, t, c) => EndsWith(buffer[t], t, c, k)
    /\ ~Has(queue, t, c) /\ ~Has(buffer[t], t, c) /\ k # "none" => row[t][c].status = StatusOf(k)

LatestWins(t, c) == up /\ <<t, c>> \notin disturbed => Shows(t, c, Latest(t, c))

Inv ==
    /\ TypeOK /\ Busy /\ OwnBuffer /\ CodeMatchesStatus
    /\ \A t \in Tables, c \in Commands : LatestWins(t, c)

-----------------------------------------------------------------------------
(***************************************************************************)
(* Sequences of updates.                                                   *)
(***************************************************************************)

\* A nonempty set of numbers has a least one.
LEMMA LeastNumber ==
    ASSUME NEW T \in SUBSET Nat, T # {}
    PROVE  \E n \in T : \A m \in T : n <= m
<1>1. PICK n \in T : \A m \in T : ~(<<m, n>> \in OpToRel(<, Nat))
  BY NatLessThanWellFounded, WFMin
<1>2. \A m \in T : ~(m < n)
  BY <1>1 DEF OpToRel
<1> QED  BY <1>2

\* A nonempty set of positions has a greatest one.
LEMMA GreatestPosition ==
    ASSUME NEW n \in Nat, NEW T \in SUBSET (1..n), T # {}
    PROVE  \E i \in T : \A j \in T : i >= j
<1> DEFINE D == {n - i : i \in T}
<1>1. D \in SUBSET Nat /\ D # {}
  <2>1. \A i \in T : n - i \in Nat
    OBVIOUS
  <2> QED  BY <2>1
<1>2. PICK d \in D : \A e \in D : d <= e
  <2> HIDE DEF D
  <2> QED  BY <1>1, LeastNumber
<1>3. PICK i \in T : d = n - i
  OBVIOUS
<1>4. \A j \in T : n - i <= n - j
  BY <1>2, <1>3
<1> QED  BY <1>4

LEMMA MaxOf ==
    ASSUME NEW n \in Nat, NEW T \in SUBSET (1..n), T # {}
    PROVE  Max(T) \in T /\ \A j \in T : Max(T) >= j
  BY GreatestPosition DEF Max

\* What an update that joins the end of the sequence changes.
LEMMA AppendOfRow ==
    ASSUME NEW s \in Seq(Update), NEW u \in Update, NEW t, NEW c, NEW k
    PROVE  /\ Append(s, u) \in Seq(Update)
           /\ Has(Append(s, u), t, c) <=> Has(s, t, c) \/ OfRow(u, t, c)
           /\ OfRow(u, t, c) /\ u.kind = k => EndsWith(Append(s, u), t, c, k)
           /\ ~OfRow(u, t, c) /\ EndsWith(s, t, c, k) => EndsWith(Append(s, u), t, c, k)
<1> DEFINE r == Append(s, u)
           n == Len(s)
<1>1. /\ r \in Seq(Update) /\ n \in Nat /\ DOMAIN s = 1..n /\ DOMAIN r = 1..(n + 1)
      /\ r[n + 1] = u /\ \A j \in 1..n : r[j] = s[j]
  OBVIOUS
<1> HIDE DEF r, n
<1>2. Has(r, t, c) <=> Has(s, t, c) \/ OfRow(u, t, c)
  BY <1>1 DEF Has
<1>3. ASSUME OfRow(u, t, c), u.kind = k PROVE EndsWith(r, t, c, k)
  <2> SUFFICES ASSUME NEW i \in DOMAIN r, LastAt(r, t, c, i) PROVE r[i].kind = k
    BY DEF EndsWith
  <2>1. ~(n + 1 > i)
    BY <1>1, <1>3 DEF LastAt
  <2>2. i = n + 1
    BY <1>1, <2>1
  <2> QED  BY <1>1, <1>3, <2>2
<1>4. ASSUME ~OfRow(u, t, c), EndsWith(s, t, c, k) PROVE EndsWith(r, t, c, k)
  <2> SUFFICES ASSUME NEW i \in DOMAIN r, LastAt(r, t, c, i) PROVE r[i].kind = k
    BY DEF EndsWith
  <2>1. i # n + 1
    BY <1>1, <1>4 DEF LastAt
  <2>2. i \in 1..n
    BY <1>1, <2>1
  <2>3. LastAt(s, t, c, i)
    BY <1>1, <2>2 DEF LastAt
  <2> QED  BY <1>1, <1>4, <2>2, <2>3 DEF EndsWith
<1> QED  BY <1>1, <1>2, <1>3, <1>4 DEF r

\* What the update that leaves the front leaves behind.
LEMMA TailOfRow ==
    ASSUME NEW s \in Seq(Update), s # << >>, NEW t, NEW c, NEW k
    PROVE  /\ Tail(s) \in Seq(Update) /\ Head(s) \in Update
           /\ Has(s, t, c) <=> Has(Tail(s), t, c) \/ OfRow(Head(s), t, c)
           /\ EndsWith(s, t, c, k) => EndsWith(Tail(s), t, c, k)
           /\ EndsWith(s, t, c, k) /\ OfRow(Head(s), t, c) /\ ~Has(Tail(s), t, c) => Head(s).kind = k
<1> DEFINE r == Tail(s)
           n == Len(s)
<1>1. /\ r \in Seq(Update) /\ n \in Nat \ {0} /\ DOMAIN s = 1..n /\ DOMAIN r = 1..(n - 1)
      /\ Head(s) = s[1] /\ \A j \in 1..(n - 1) : r[j] = s[j + 1]
  OBVIOUS
<1> HIDE DEF r, n
<1>2. \A j \in 1..n : j # 1 => j - 1 \in 1..(n - 1) /\ r[j - 1] = s[j]
  <2> SUFFICES ASSUME NEW j \in 1..n, j # 1 PROVE j - 1 \in 1..(n - 1) /\ r[j - 1] = s[j]
    OBVIOUS
  <2>1. j - 1 \in 1..(n - 1) /\ (j - 1) + 1 = j
    BY <1>1
  <2> QED  BY <1>1, <2>1
<1>3. \A j \in 1..(n - 1) : j + 1 \in 1..n /\ r[j] = s[j + 1]
  BY <1>1
<1>4. Head(s) \in Update
  BY <1>1
<1>5. Has(s, t, c) <=> Has(r, t, c) \/ OfRow(Head(s), t, c)
  <2>1. ASSUME Has(s, t, c), ~OfRow(Head(s), t, c) PROVE Has(r, t, c)
    BY <1>1, <1>2, <2>1 DEF Has
  <2>2. ASSUME Has(r, t, c) PROVE Has(s, t, c)
    BY <1>1, <1>3, <2>2 DEF Has
  <2>3. ASSUME OfRow(Head(s), t, c) PROVE Has(s, t, c)
    BY <1>1, <2>3 DEF Has
  <2> QED  BY <2>1, <2>2, <2>3
<1>6. ASSUME EndsWith(s, t, c, k) PROVE EndsWith(r, t, c, k)
  <2> SUFFICES ASSUME NEW i \in 1..(n - 1), LastAt(r, t, c, i) PROVE r[i].kind = k
    BY <1>1 DEF EndsWith
  <2>1. i + 1 \in DOMAIN s /\ r[i] = s[i + 1]
    BY <1>1, <1>3
  <2>2. ASSUME NEW j \in DOMAIN s, j > i + 1 PROVE ~OfRow(s[j], t, c)
    <3>1. j # 1 /\ j - 1 > i
      BY <1>1, <2>2
    <3>2. j - 1 \in DOMAIN r /\ r[j - 1] = s[j]
      BY <1>1, <1>2, <3>1
    <3> QED  BY <3>1, <3>2 DEF LastAt
  <2>3. LastAt(s, t, c, i + 1)
    BY <2>1, <2>2 DEF LastAt
  <2> QED  BY <1>6, <2>1, <2>3 DEF EndsWith
<1>7. ASSUME EndsWith(s, t, c, k), OfRow(Head(s), t, c), ~Has(r, t, c) PROVE Head(s).kind = k
  <2>1. ASSUME NEW j \in DOMAIN s, j > 1 PROVE ~OfRow(s[j], t, c)
    BY <1>1, <1>2, <1>7, <2>1 DEF Has
  <2>2. 1 \in DOMAIN s /\ LastAt(s, t, c, 1)
    BY <1>1, <1>7, <2>1 DEF LastAt
  <2> QED  BY <1>1, <1>7, <2>2 DEF EndsWith
<1> QED  BY <1>1, <1>4, <1>5, <1>6, <1>7 DEF r

\* Among the updates of a row there is a last one.
LEMMA HasLast ==
    ASSUME NEW s \in Seq(Update), NEW t, NEW c, Has(s, t, c)
    PROVE  \E i \in DOMAIN s : LastAt(s, t, c, i)
<1> DEFINE T == {i \in DOMAIN s : OfRow(s[i], t, c)}
<1>1. Len(s) \in Nat /\ DOMAIN s = 1..Len(s)
  OBVIOUS
<1>2. T \in SUBSET (1..Len(s)) /\ T # {}
  BY <1>1 DEF Has
<1>3. PICK i \in T : \A j \in T : i >= j
  <2> HIDE DEF T
  <2> QED  BY <1>1, <1>2, GreatestPosition
<1>4. \A j \in DOMAIN s : j > i => ~OfRow(s[j], t, c)
  BY <1>1, <1>3
<1> QED  BY <1>3, <1>4 DEF LastAt

-----------------------------------------------------------------------------
(***************************************************************************)
(* The groups of a batch.                                                  *)
(***************************************************************************)

\* Row r of command c was written by the update of a group that c is in.
FromGroup(batch, c, r) ==
    \E i, j \in DOMAIN batch :
        batch[j].cmd = c /\ Key(batch[i]) = Key(batch[j]) /\ r = UpdateFields(batch[i], r)

InGroup(batch, c, key) == c \in Members(batch, key)

LEMMA GroupStep ==
    ASSUME NEW batch \in Seq(Update), NEW rows, NEW key \in Groups(batch), NEW c \in Commands
    PROVE  /\ InGroup(batch, c, key) => FromGroup(batch, c, GroupWritten(rows, batch, key)[c])
           /\ ~InGroup(batch, c, key) => GroupWritten(rows, batch, key)[c] = rows[c]
<1> DEFINE T == {i \in DOMAIN batch : Key(batch[i]) = key}
           r == GroupWritten(rows, batch, key)[c]
<1>1. Len(batch) \in Nat /\ DOMAIN batch = 1..Len(batch)
  OBVIOUS
<1>2. T \in SUBSET (1..Len(batch)) /\ T # {}
  BY <1>1 DEF Groups
<1>3. Max(T) \in T
  <2> HIDE DEF T
  <2> QED  BY <1>1, <1>2, MaxOf
<1>4. ~InGroup(batch, c, key) => r = rows[c]
  BY DEF GroupWritten, InGroup
<1>5. ASSUME InGroup(batch, c, key) PROVE FromGroup(batch, c, r)
  <2>1. r = UpdateFields(batch[Max(T)], rows[c])
    BY <1>5 DEF GroupWritten, InGroup, LastOf
  <2>2. r = UpdateFields(batch[Max(T)], r)
    BY <2>1 DEF UpdateFields
  <2>3. PICK j \in DOMAIN batch : Key(batch[j]) = key /\ batch[j].cmd = c
    BY <1>5 DEF InGroup, Members
  <2>4. Max(T) \in DOMAIN batch /\ Key(batch[Max(T)]) = key
    BY <1>3
  <2> HIDE DEF T, r
  <2> QED  BY <2>2, <2>3, <2>4 DEF FromGroup
<1> QED  BY <1>4, <1>5

\* An order of the groups has each of them.
LEMMA OrderHasAll ==
    ASSUME NEW batch \in Seq(Update), NEW order \in SetToSeqs(Groups(batch))
    PROVE  \E n \in Nat : /\ order \in [1..n -> Groups(batch)]
                          /\ \A key \in Groups(batch) : \E i \in 1..n : order[i] = key
<1> DEFINE G == Groups(batch)
           n == Cardinality(G)
           f == [i \in DOMAIN batch |-> Key(batch[i])]
<1>1. IsFiniteSet(G)
  <2>1. IsFiniteSet(DOMAIN batch)
    <3>1. Len(batch) \in Nat /\ DOMAIN batch = 1..Len(batch)
      OBVIOUS
    <3> QED  BY <3>1, FS_Interval
  <2>2. f \in Surjection(DOMAIN batch, G)
    BY DEF Surjection, Groups
  <2> HIDE DEF f, G
  <2> QED  BY <2>1, <2>2, FS_Surjection
<1>2. n \in Nat
  <2> HIDE DEF G
  <2> QED  BY <1>1, FS_CardinalityType
<1>3. order \in [1..n -> G] /\ \A i, j \in 1..n : i # j => order[i] # order[j]
  BY DEF SetToSeqs
<1> HIDE DEF n, G
<1>4. order \in Injection(1..n, G)
  BY <1>3 DEF Injection, IsInjective
<1>5. Cardinality(1..n) = n
  <2>1. Cardinality(1..n) = IF 1 > n THEN 0 ELSE n - 1 + 1
    BY <1>2, FS_Interval
  <2> QED  BY <1>2, <2>1
<1>6. order \in Surjection(1..n, G)
  <2>1. Cardinality(1..n) = Cardinality(G)
    BY <1>5 DEF n
  <2> QED  BY <1>1, <1>4, <2>1, FS_Injection
<1> QED  BY <1>2, <1>3, <1>6 DEF Surjection, G

-----------------------------------------------------------------------------
(***************************************************************************)
(* Writing the groups one after the other.  The fold of the library        *)
(* applies a function that is defined by recursion on sets of positions;   *)
(* there is one, as for a least set without one, all smaller sets would    *)
(* have theirs.                                                            *)
(***************************************************************************)
LEMMA MinimalSubset ==
    ASSUME NEW U, IsFiniteSet(U), NEW T \in SUBSET (SUBSET U), T # {}
    PROVE  \E s \in T : \A r \in T : r \subseteq s => r = s
<1>1. IsWellFoundedOn(StrictSubsetOrdering(U), SUBSET U)
  BY FS_StrictSubsetOrderingWellFounded, FS_FiniteSubsetsOfFinite
<1>2. PICK s \in T : \A r \in T : ~(<<r, s>> \in StrictSubsetOrdering(U))
  BY <1>1, WFMin
<1> QED  BY <1>2 DEF StrictSubsetOrdering

Rest(s) == s \ {Max(s)}

\* f is that function, on the subsets of U.
IsFold(rows, batch, order, U, f) ==
    f = [s \in SUBSET U |->
            IF s = {} THEN rows ELSE GroupWritten(f[Rest(s)], batch, order[Max(s)])]

FoldLaw(rows, batch, order, U, f) ==
    /\ \A s \in SUBSET U : s # {} => f[s] = GroupWritten(f[Rest(s)], batch, order[Max(s)])
    /\ f[{}] = rows

Folded(rows, batch, order) ==
    (CHOOSE f : IsFold(rows, batch, order, DOMAIN order, f))[DOMAIN order]

LEMMA WrittenIs ==
    ASSUME NEW rows, NEW batch
    PROVE  Written(rows, batch) = {Folded(rows, batch, order) : order \in SetToSeqs(Groups(batch))}
  BY DEF Written, FoldLeft, MapThenFoldSet, IsFold, Rest, Folded

LEMMA FoldAt ==
    ASSUME NEW rows, NEW batch, NEW order, NEW U, NEW f, IsFold(rows, batch, order, U, f)
    PROVE  FoldLaw(rows, batch, order, U, f)
<1> DEFINE F(s) == IF s = {} THEN rows ELSE GroupWritten(f[Rest(s)], batch, order[Max(s)])
<1>1. f = [s \in SUBSET U |-> F(s)]
  BY DEF IsFold
<1>2. \A s \in SUBSET U : f[s] = F(s)
  <2> HIDE DEF F
  <2> QED  BY <1>1
<1>3. {} \in SUBSET U
  OBVIOUS
<1> QED  BY <1>2, <1>3 DEF FoldLaw

\* A set whose subsets have a greatest element each.
Ordered(U) == IsFiniteSet(U) /\ \A s \in SUBSET U : s # {} => Max(s) \in s

LEMMA PositionsOrdered ==
    ASSUME NEW n \in Nat
    PROVE  Ordered(1..n)
<1>1. IsFiniteSet(1..n)
  BY FS_Interval
<1>2. ASSUME NEW s \in SUBSET (1..n), s # {} PROVE Max(s) \in s
  BY <1>2, MaxOf
<1> QED  BY <1>1, <1>2 DEF Ordered

LEMMA FoldUnique ==
    ASSUME NEW rows, NEW batch, NEW order, NEW U, NEW V, Ordered(U),
           NEW f, NEW g, IsFold(rows, batch, order, U, f), IsFold(rows, batch, order, V, g)
    PROVE  \A s \in SUBSET U : s \in SUBSET V => f[s] = g[s]
<1> DEFINE T == {s \in SUBSET U : s \in SUBSET V /\ f[s] # g[s]}
<1> SUFFICES ASSUME T # {} PROVE FALSE
  OBVIOUS
<1>1. PICK s \in T : \A r \in T : r \subseteq s => r = s
  <2>1. T \in SUBSET (SUBSET U)
    OBVIOUS
  <2>2. IsFiniteSet(U)
    BY DEF Ordered
  <2> HIDE DEF T
  <2> QED  BY <2>1, <2>2, MinimalSubset
<1>2. s \in SUBSET U /\ s \in SUBSET V /\ f[s] # g[s]
  OBVIOUS
<1>3. FoldLaw(rows, batch, order, U, f) /\ FoldLaw(rows, batch, order, V, g)
  BY FoldAt
<1>4. s # {}
  BY <1>2, <1>3 DEF FoldLaw
<1>5. Max(s) \in s
  BY <1>2, <1>4 DEF Ordered
<1>6. Rest(s) \in SUBSET U /\ Rest(s) \in SUBSET V /\ Rest(s) \subseteq s /\ Rest(s) # s
  BY <1>2, <1>5 DEF Rest
<1>7. f[Rest(s)] = g[Rest(s)]
  BY <1>1, <1>6
<1>8. /\ f[s] = GroupWritten(f[Rest(s)], batch, order[Max(s)])
      /\ g[s] = GroupWritten(g[Rest(s)], batch, order[Max(s)])
  BY <1>2, <1>3, <1>4, Zenon DEF FoldLaw
<1> QED  BY <1>2, <1>7, <1>8

LEMMA FoldExists ==
    ASSUME NEW rows, NEW batch, NEW order, NEW U, Ordered(U)
    PROVE  \E f : IsFold(rows, batch, order, U, f)
<1> DEFINE Is(s, f) == IsFold(rows, batch, order, s, f)
           T == {V \in SUBSET U : ~\E f : Is(V, f)}
<1> SUFFICES ASSUME T # {} PROVE FALSE
  OBVIOUS
<1>1. PICK V \in T : \A r \in T : r \subseteq V => r = V
  <2>1. T \in SUBSET (SUBSET U) /\ IsFiniteSet(U)
    BY DEF Ordered
  <2> HIDE DEF T
  <2> QED  BY <2>1, MinimalSubset
<1> DEFINE F(s) == CHOOSE f : Is(s, f)
<1>2. \A s \in SUBSET V : s # V => Is(s, F(s))
  <2>1. ASSUME NEW s \in SUBSET V, s # V PROVE \E f : Is(s, f)
    BY <1>1, <2>1
  <2> HIDE DEF Is
  <2> QED  BY <2>1
<1>3. \A r, s \in SUBSET V : r \in SUBSET s /\ s # V => F(s)[r] = F(r)[r]
  <2> SUFFICES ASSUME NEW r \in SUBSET V, NEW s \in SUBSET V, r \in SUBSET s, s # V
               PROVE  F(s)[r] = F(r)[r]
    OBVIOUS
  <2>1. r # V
    OBVIOUS
  <2>2. IsFold(rows, batch, order, s, F(s)) /\ IsFold(rows, batch, order, r, F(r))
    BY <1>2, <2>1
  <2>3. Ordered(s) /\ r \in SUBSET r
    <3>1. IsFiniteSet(s)
      BY FS_Subset DEF Ordered
    <3> QED  BY <3>1 DEF Ordered
  <2> HIDE DEF F
  <2> QED  BY <2>2, <2>3, FoldUnique
<1> DEFINE W(r, s) == GroupWritten(r, batch, order[Max(s)])
           G(s) == IF s # V THEN F(s)[s] ELSE IF V = {} THEN rows ELSE W(F(Rest(V))[Rest(V)], V)
           g == [s \in SUBSET V |-> G(s)]
<1>4. ASSUME NEW s \in SUBSET V
      PROVE  G(s) = IF s = {} THEN rows ELSE W(G(Rest(s)), s)
  <2> HIDE DEF W
  <2>1. CASE s = {}
    <3>1. CASE s = V
      BY <2>1, <3>1
    <3>2. CASE s # V
      <4>1. F(s)[s] = rows
        <5>1. Is(s, F(s))
          BY <1>2, <3>2
        <5> HIDE DEF F
        <5> QED  BY <2>1, <5>1, FoldAt DEF FoldLaw
      <4> QED  BY <2>1, <3>2, <4>1
    <3> QED  BY <3>1, <3>2
  <2>2. CASE s # {}
    <3>1. Max(s) \in s
      BY <2>2 DEF Ordered
    <3>2. Rest(s) \in SUBSET V /\ Rest(s) # V /\ Rest(s) \in SUBSET s
      BY <3>1 DEF Rest
    <3>3. G(Rest(s)) = F(Rest(s))[Rest(s)]
      BY <3>2
    <3>4. CASE s = V
      BY <2>2, <3>3, <3>4
    <3>5. CASE s # V
      <4>1. F(s)[s] = W(F(s)[Rest(s)], s)
        <5>1. Is(s, F(s)) /\ s \in SUBSET s
          BY <1>2, <3>5
        <5> HIDE DEF F
        <5>2. FoldLaw(rows, batch, order, s, F(s))
          BY <5>1, FoldAt
        <5> QED  BY <2>2, <5>1, <5>2, Zenon DEF FoldLaw, W
      <4>2. F(s)[Rest(s)] = F(Rest(s))[Rest(s)]
        BY <1>3, <3>2, <3>5
      <4>3. G(s) = F(s)[s]
        BY <3>5
      <4> HIDE DEF F, G
      <4> QED  BY <2>2, <3>3, <4>1, <4>2, <4>3
    <3> QED  BY <3>4, <3>5
  <2> QED  BY <2>1, <2>2
<1>5. \A s \in SUBSET V : g[s] = G(s)
  <2> HIDE DEF G
  <2> QED  OBVIOUS
<1>6. ASSUME NEW s \in SUBSET V
      PROVE  G(s) = IF s = {} THEN rows ELSE W(g[Rest(s)], s)
  <2>1. Rest(s) \in SUBSET V
    BY DEF Rest
  <2> HIDE DEF G, g, W
  <2> QED  BY <1>4, <1>5, <2>1
<1>7. Is(V, g)
  <2> DEFINE R(s) == IF s = {} THEN rows ELSE W(g[Rest(s)], s)
  <2>1. \A s \in SUBSET V : G(s) = R(s)
    BY <1>6
  <2>2. g = [s \in SUBSET V |-> R(s)]
    <3> HIDE DEF G, R
    <3> QED  BY <2>1
  <2> HIDE DEF g
  <2> QED  BY <2>2 DEF IsFold
<1> QED  BY <1>1, <1>7

\* The status and the exit code of a row agree.
Honest(r) == r.status # "" => (r.code > 0 <=> r.status = "failed")

LEMMA UpdateIsHonest ==
    ASSUME NEW u \in Update, NEW old
    PROVE  UpdateFields(u, old) \in RowState /\ Honest(UpdateFields(u, old))
<1>1. u.kind \in {"started", "ok", "err1", "err2", "bare", "bareErr"}
  BY BatchAssumption DEF Update
<1>2. /\ StatusOf(u.kind) \in {"running", "completed", "failed", ""} /\ CodeOf(u.kind) \in {0, 1, 2}
      /\ StatusOf(u.kind) # "" => (CodeOf(u.kind) > 0 <=> StatusOf(u.kind) = "failed")
  BY <1>1 DEF StatusOf, CodeOf
<1>3. CodeOf(u.kind) \in -1..2
  <2>1. CodeOf(u.kind) \in 0..2
    BY <1>1 DEF CodeOf
  <2> QED  BY <2>1
<1> QED  BY <1>2, <1>3 DEF UpdateFields, RowState, Honest

LEMMA GroupRowIsHonest ==
    ASSUME NEW batch \in Seq(Update), NEW c, NEW r, FromGroup(batch, c, r)
    PROVE  r \in RowState /\ Honest(r)
<1>1. PICK i \in DOMAIN batch : r = UpdateFields(batch[i], r)
  BY DEF FromGroup
<1>2. batch[i] \in Update
  OBVIOUS
<1> QED  BY <1>1, <1>2, UpdateIsHonest

\* Whatever the order, a command of the batch ends with a row from one of its groups,
\* and all other rows stay.
LEMMA WrittenRow ==
    ASSUME NEW batch \in Seq(Update), NEW rows \in [Commands -> RowState],
           NEW new \in Written(rows, batch)
    PROVE  /\ new \in [Commands -> RowState]
           /\ \A c \in Commands :
                  IF \E key \in Groups(batch) : InGroup(batch, c, key)
                  THEN FromGroup(batch, c, new[c])
                  ELSE new[c] = rows[c]
<1>1. PICK order \in SetToSeqs(Groups(batch)) : new = Folded(rows, batch, order)
  BY WrittenIs
<1>2. PICK n \in Nat : /\ order \in [1..n -> Groups(batch)]
                       /\ \A key \in Groups(batch) : \E i \in 1..n : order[i] = key
  BY OrderHasAll
<1> DEFINE f == CHOOSE h : IsFold(rows, batch, order, 1..n, h)
<1>3. IsFold(rows, batch, order, 1..n, f)
  BY FoldExists, PositionsOrdered
<1>4. new = f[1..n]
  <2>1. DOMAIN order = 1..n
    BY <1>2
  <2> QED  BY <1>1, <2>1 DEF Folded
<1> HIDE DEF f
<1>5. FoldLaw(rows, batch, order, 1..n, f)
  BY <1>3, FoldAt
<1> DEFINE Done(k, c) == \E i \in 1..k : InGroup(batch, c, order[i])
           Q(k) == \A c \in Commands : IF Done(k, c) THEN FromGroup(batch, c, f[1..k][c])
                                                     ELSE f[1..k][c] = rows[c]
           P(k) == f[1..k] \in [Commands -> RowState] /\ Q(k)
<1>6. P(0)
  <2>1. 1..0 = {}
    OBVIOUS
  <2> QED  BY <1>5, <2>1 DEF FoldLaw
<1>7. ASSUME NEW k \in 1..n, P(k - 1) PROVE P(k)
  <2>1. 1..k \in SUBSET (1..n) /\ 1..k # {} /\ k \in Nat
    <3>1. k \in Nat /\ k \in 1..k /\ \A i \in 1..k : i \in 1..n
      OBVIOUS
    <3> QED  BY <3>1
  <2>2. Max(1..k) = k
    <3>1. Max(1..k) \in 1..k /\ \A j \in 1..k : Max(1..k) >= j
      BY <2>1, MaxOf
    <3> QED  BY <3>1
  <2>3. Rest(1..k) = 1..(k - 1)
    BY <2>2 DEF Rest
  <2>4. f[1..k] = GroupWritten(f[1..(k - 1)], batch, order[k])
    BY <1>5, <2>1, <2>2, <2>3, Zenon DEF FoldLaw
  <2>5. order[k] \in Groups(batch)
    BY <1>2
  <2>6. ASSUME NEW c \in Commands
        PROVE  /\ f[1..k][c] \in RowState
               /\ IF Done(k, c) THEN FromGroup(batch, c, f[1..k][c])
                                ELSE f[1..k][c] = rows[c]
    <3>1. /\ InGroup(batch, c, order[k]) => FromGroup(batch, c, f[1..k][c])
          /\ ~InGroup(batch, c, order[k]) => f[1..k][c] = f[1..(k - 1)][c]
      BY <2>4, <2>5, GroupStep
    <3>2. Done(k, c) <=> Done(k - 1, c) \/ InGroup(batch, c, order[k])
      <4>1. 1..k = 1..(k - 1) \cup {k}
        OBVIOUS
      <4> QED  BY <4>1
    <3>3. IF Done(k - 1, c) THEN FromGroup(batch, c, f[1..(k - 1)][c])
                            ELSE f[1..(k - 1)][c] = rows[c]
      BY <1>7
    <3>4. FromGroup(batch, c, f[1..k][c]) => f[1..k][c] \in RowState
      BY GroupRowIsHonest
    <3>5. rows[c] \in RowState
      OBVIOUS
    <3> HIDE DEF Done
    <3> QED  BY <3>1, <3>2, <3>3, <3>4, <3>5
  <2>7. f[1..k] \in [Commands -> RowState]
    <3>1. f[1..k] = [c \in Commands |-> f[1..k][c]]
      BY <2>4 DEF GroupWritten
    <3>2. \A c \in Commands : f[1..k][c] \in RowState
      BY <2>6
    <3> QED  BY <3>1, <3>2
  <2>8. Q(k)
    <3> HIDE DEF Done
    <3> QED  BY <2>6
  <2> QED  BY <2>7, <2>8
<1>8. P(n)
  <2> SUFFICES ASSUME ~P(n) PROVE FALSE
    OBVIOUS
  <2> DEFINE T == {k \in 0..n : ~P(k)}
  <2>1. T \in SUBSET Nat /\ T # {}
    <3> HIDE DEF P
    <3> QED  OBVIOUS
  <2>2. PICK k \in T : \A m \in T : k <= m
    <3> HIDE DEF T
    <3> QED  BY <2>1, LeastNumber
  <2> HIDE DEF P
  <2>3. k # 0 /\ k \in 0..n /\ ~P(k)
    BY <1>6
  <2>4. k - 1 \in 0..n /\ ~(k <= k - 1) /\ k \in 1..n
    BY <2>3
  <2>5. P(k - 1)
    BY <2>2, <2>4
  <2> QED  BY <1>7, <2>3, <2>4, <2>5
<1>9. ASSUME NEW c \in Commands
      PROVE  Done(n, c) <=> \E key \in Groups(batch) : InGroup(batch, c, key)
  BY <1>2
<1> HIDE DEF Done
<1> QED  BY <1>4, <1>8, <1>9

-----------------------------------------------------------------------------
(***************************************************************************)
(* Transactions.                                                           *)
(***************************************************************************)

\* A batch of table t leaves the other rows alone; the rows it writes, unless it
\* disturbed them, have the status of their last update.
StoreLaw(t, batch) ==
    /\ row' \in [Tables -> [Commands -> RowState]]
    /\ disturbed \subseteq disturbed' /\ disturbed' \subseteq Tables \X Commands
    /\ \A s \in Tables : s # t => row'[s] = row[s]
    /\ \A c \in Commands : ~Has(batch, t, c) => row'[t][c] = row[t][c]
    /\ \A c \in Commands : \A k :
           Has(batch, t, c) /\ EndsWith(batch, t, c, k) /\ <<t, c>> \notin disturbed' =>
               row'[t][c].status = StatusOf(k)

Overtaken(t, batch, cs) == \A c \in cs : Has(batch, t, c) => <<t, c>> \in disturbed'

LEMMA StoreHolds ==
    ASSUME TypeOK, CodeMatchesStatus, NEW t \in Tables, NEW batch \in Seq(Update),
           \A i \in DOMAIN batch : batch[i].table = t,
           NEW overtaken \in SUBSET Commands, NEW commits \in BOOLEAN,
           Store(t, batch, overtaken, commits)
    PROVE  StoreLaw(t, batch) /\ CodeMatchesStatus' /\ Overtaken(t, batch, overtaken)
<1>1. row \in [Tables -> [Commands -> RowState]] /\ disturbed \subseteq Tables \X Commands
  BY DEF TypeOK
<1>2. \A i \in DOMAIN batch : batch[i].cmd \in Commands
  <2>1. \A i \in DOMAIN batch : batch[i] \in Update
    OBVIOUS
  <2> QED  BY <2>1 DEF Update
<1>3. ASSUME NEW c, Has(batch, t, c)
      PROVE  c \in {batch[i].cmd : i \in DOMAIN batch}
  BY <1>3 DEF Has, OfRow
<1>4. CASE ~commits
  <2>1. /\ row' = row
        /\ disturbed' = disturbed \cup ({t} \X {batch[i].cmd : i \in DOMAIN batch})
    BY <1>4 DEF Store
  <2>2. \A c \in Commands : Has(batch, t, c) => <<t, c>> \in disturbed'
    BY <1>3, <2>1
  <2>3. disturbed \subseteq disturbed' /\ disturbed' \subseteq Tables \X Commands
    BY <1>1, <1>2, <2>1
  <2>4. CodeMatchesStatus'
    BY <2>1 DEF CodeMatchesStatus
  <2>5. Overtaken(t, batch, overtaken)
    BY <2>2 DEF Overtaken
  <2> QED  BY <1>1, <2>1, <2>2, <2>3, <2>4, <2>5, Zenon DEF StoreLaw
<1>5. CASE commits
  <2>1. PICK new \in Written(row[t], batch) : row' = [row EXCEPT ![t] = new]
    BY <1>5 DEF Store
  <2>2. disturbed' = disturbed \cup ({t} \X (Mixed(batch) \cup overtaken))
    BY <1>5 DEF Store
  <2>3. row[t] \in [Commands -> RowState]
    BY <1>1
  <2>4. /\ new \in [Commands -> RowState]
        /\ \A c \in Commands :
              IF \E key \in Groups(batch) : InGroup(batch, c, key)
              THEN FromGroup(batch, c, new[c])
              ELSE new[c] = row[t][c]
    BY <2>3, WrittenRow
  <2>5. row' \in [Tables -> [Commands -> RowState]] /\ row'[t] = new
    BY <1>1, <2>1, <2>4
  <2>6. \A s \in Tables : s # t => row'[s] = row[s]
    BY <1>1, <2>1
  <2>7. disturbed \subseteq disturbed' /\ disturbed' \subseteq Tables \X Commands
    <3>1. Mixed(batch) \subseteq Commands
      BY DEF Mixed
    <3> QED  BY <1>1, <2>2, <3>1
  <2>8. ASSUME NEW c \in Commands
        PROVE  Has(batch, t, c) <=> \E key \in Groups(batch) : InGroup(batch, c, key)
    BY DEF Has, OfRow, InGroup, Members, Groups
  <2>9. \A c \in Commands : ~Has(batch, t, c) => row'[t][c] = row[t][c]
    BY <2>4, <2>5, <2>8
  <2>10. ASSUME NEW c \in Commands, NEW k, Has(batch, t, c), EndsWith(batch, t, c, k),
                <<t, c>> \notin disturbed'
         PROVE  row'[t][c].status = StatusOf(k)
    <3>1. PICK l \in DOMAIN batch : LastAt(batch, t, c, l)
      BY <2>10, HasLast
    <3>2. batch[l].cmd = c /\ batch[l].kind = k
      BY <2>10, <3>1 DEF EndsWith, LastAt, OfRow
    <3>3. FromGroup(batch, c, new[c])
      BY <2>4, <2>8, <2>10
    <3>4. PICK i \in DOMAIN batch, j \in DOMAIN batch :
              batch[j].cmd = c /\ Key(batch[i]) = Key(batch[j]) /\ new[c] = UpdateFields(batch[i], new[c])
      BY <3>3 DEF FromGroup
    <3>5. c \notin Mixed(batch)
      BY <2>2, <2>10
    <3>6. /\ Key(batch[j]) \in Groups(batch) /\ Key(batch[l]) \in Groups(batch)
          /\ c \in Members(batch, Key(batch[j])) /\ c \in Members(batch, Key(batch[l]))
      BY <3>2, <3>4 DEF Groups, Members
    <3>7. Key(batch[j]) = Key(batch[l])
      <4> HIDE DEF Groups, Members, Key
      <4> QED  BY <3>5, <3>6 DEF Mixed
    <3>8. StatusOf(batch[i].kind) = StatusOf(batch[l].kind)
      BY <3>4, <3>7 DEF Key
    <3>9. new[c].status = StatusOf(batch[i].kind)
      <4>1. UpdateFields(batch[i], new[c]).status = StatusOf(batch[i].kind)
        BY DEF UpdateFields
      <4> QED  BY <3>4, <4>1
    <3> QED  BY <2>5, <3>2, <3>8, <3>9
  <2>11. CodeMatchesStatus'
    <3>1. ASSUME NEW s \in Tables, NEW c \in Commands PROVE Honest(row'[s][c])
      <4>1. Honest(row[s][c])
        BY DEF CodeMatchesStatus, Honest
      <4>2. CASE s # t
        BY <2>6, <4>1, <4>2
      <4>3. CASE s = t /\ ~Has(batch, t, c)
        BY <2>9, <4>1, <4>3
      <4>4. CASE s = t /\ Has(batch, t, c)
        BY <2>4, <2>5, <2>8, <4>4, GroupRowIsHonest
      <4> QED  BY <4>2, <4>3, <4>4
    <3> QED  BY <3>1 DEF CodeMatchesStatus, Honest
  <2>12. Overtaken(t, batch, overtaken)
    BY <2>2 DEF Overtaken
  <2> QED  BY <2>5, <2>6, <2>7, <2>9, <2>10, <2>11, <2>12, Zenon DEF StoreLaw
<1> QED  BY <1>4, <1>5

-----------------------------------------------------------------------------
(***************************************************************************)
(* The steps.                                                              *)
(***************************************************************************)
LEMMA InitHolds == Init => Inv
<1> SUFFICES ASSUME Init PROVE Inv
  OBVIOUS
<1>1. \A t \in Tables : buffer[t] = << >>
  BY DEF Init
<1>2. NoRow \in RowState
  BY DEF NoRow, RowState
<1>3. AtRest \in Handler
  BY DEF AtRest, Handler
<1>4. TypeOK
  <2>1. row \in [Tables -> [Commands -> RowState]]
    BY <1>2 DEF Init
  <2>2. handler \in [Commands -> Handler]
    BY <1>3 DEF Init
  <2>3. buffer \in [Tables -> Seq(Update)]
    BY DEF Init
  <2>4. proc \in [stage : Tables \cup {"select"}, need : {0, 1, BatchSize}]
    BY DEF Init, Select
  <2>5. last \in [Commands -> ResultKinds \cup {"none"}]
    BY DEF Init
  <2>6. queue \in Seq(Update)
    BY DEF Init
  <2> QED  BY <2>1, <2>2, <2>3, <2>4, <2>5, <2>6, Zenon DEF Init, TypeOK
<1>5. Busy
  BY DEF Init, Busy, AtRest
<1>6. OwnBuffer
  BY <1>1 DEF OwnBuffer
<1>7. CodeMatchesStatus
  <2>1. \A t \in Tables, c \in Commands : row[t][c] = NoRow
    BY DEF Init
  <2>2. NoRow.code = -1 /\ NoRow.status = "pending"
    BY DEF NoRow
  <2>3. ~(NoRow.code > 0) /\ NoRow.status # "failed"
    BY <2>2
  <2> QED  BY <2>1, <2>3 DEF CodeMatchesStatus
<1>8. ASSUME NEW t \in Tables, NEW c \in Commands PROVE LatestWins(t, c)
  <2>1. Latest(t, c) = "none"
    BY DEF Init, Latest, AtRest
  <2> QED  BY <1>1, <2>1 DEF Init, LatestWins, Shows, EndsWith
<1> QED  BY <1>4, <1>5, <1>6, <1>7, <1>8 DEF Inv

\* What QueueBatchUpdate does to the rows and what waits for them.
Queued(t, c) ==
    /\ queue' \in Seq(Update) /\ up' \in BOOLEAN
    /\ row' \in [Tables -> [Commands -> RowState]]
    /\ disturbed' \subseteq Tables \X Commands
    /\ \A s \in Tables, d \in Commands : \A k :
           /\ up' /\ <<s, d>> \notin disturbed'
           /\ IF s = t /\ d = c THEN k = handler[c].kind
                               ELSE <<s, d>> \notin disturbed => Shows(s, d, k)
           => Shows(s, d, k)'

LEMMA QueueHolds ==
    ASSUME TypeOK, OwnBuffer, CodeMatchesStatus, NEW t \in Tables, NEW c \in Commands,
           handler[c].kind \in ResultKinds, NEW commits \in BOOLEAN,
           QueueBatchUpdate(t, c, commits), buffer' = buffer
    PROVE  Queued(t, c) /\ CodeMatchesStatus'
<1> DEFINE u == [table |-> t, cmd |-> c, kind |-> handler[c].kind]
           overtaken == IF Waiting(t, c) THEN {c} ELSE {}
<1>1. /\ queue \in Seq(Update) /\ buffer \in [Tables -> Seq(Update)] /\ closed \in BOOLEAN
      /\ row \in [Tables -> [Commands -> RowState]] /\ disturbed \subseteq Tables \X Commands
  BY DEF TypeOK
<1>2. u \in Update /\ u.kind = handler[c].kind
  BY DEF Update
<1>3. \A s, d : OfRow(u, s, d) <=> s = t /\ d = c
  BY DEF OfRow
<1>4. up' = ~closed
  BY DEF QueueBatchUpdate
<1>5. CASE closed
  <2>1. queue' = queue /\ row' = row /\ disturbed' = disturbed /\ ~up'
    BY <1>4, <1>5 DEF QueueBatchUpdate
  <2>2. CodeMatchesStatus'
    BY <2>1 DEF CodeMatchesStatus
  <2> QED  BY <1>1, <1>4, <2>1, <2>2 DEF Queued
<1>6. CASE ~closed /\ Len(queue) < QueueCap
  <2>1. queue' = Append(queue, u) /\ row' = row /\ disturbed' = disturbed /\ up'
    BY <1>4, <1>6 DEF QueueBatchUpdate
  <2>2. CodeMatchesStatus'
    BY <2>1 DEF CodeMatchesStatus
  <2> HIDE DEF u
  <2>3. queue' \in Seq(Update)
    BY <1>1, <1>2, <2>1, AppendOfRow
  <2>4. ASSUME NEW s \in Tables, NEW d \in Commands, NEW k,
               IF s = t /\ d = c THEN k = handler[c].kind ELSE Shows(s, d, k)
        PROVE  Shows(s, d, k)'
    <3>1. /\ Has(queue', s, d) <=> Has(queue, s, d) \/ OfRow(u, s, d)
          /\ OfRow(u, s, d) /\ u.kind = k => EndsWith(queue', s, d, k)
          /\ ~OfRow(u, s, d) /\ EndsWith(queue, s, d, k) => EndsWith(queue', s, d, k)
      BY <1>1, <1>2, <2>1, AppendOfRow
    <3>2. CASE s = t /\ d = c
      <4>1. Has(queue', s, d) /\ EndsWith(queue', s, d, k)
        BY <1>2, <1>3, <2>4, <3>1, <3>2
      <4>2. Has(queue, s, d)' /\ EndsWith(queue, s, d, k)'
        BY <4>1 DEF Has, EndsWith, LastAt, OfRow
      <4> QED  BY <4>2 DEF Shows
    <3>3. CASE ~(s = t /\ d = c)
      <4>1. Shows(s, d, k) /\ ~OfRow(u, s, d)
        BY <1>3, <2>4, <3>3
      <4>2. EndsWith(queue', s, d, k) /\ (Has(queue', s, d) <=> Has(queue, s, d))
        BY <3>1, <4>1 DEF Shows
      <4>3. EndsWith(queue, s, d, k)' /\ (Has(queue, s, d)' <=> Has(queue, s, d))
        BY <4>2 DEF Has, EndsWith, LastAt, OfRow
      <4>4. EndsWith(buffer[s], s, d, k)' <=> EndsWith(buffer[s], s, d, k)
        BY DEF EndsWith, LastAt, OfRow
      <4>5. Has(buffer[s], s, d)' <=> Has(buffer[s], s, d)
        BY DEF Has, OfRow
      <4>6. row[s][d].status' = row[s][d].status
        BY <2>1
      <4> QED  BY <4>1, <4>3, <4>4, <4>5, <4>6 DEF Shows
    <3> QED  BY <3>2, <3>3
  <2> QED  BY <1>1, <1>4, <2>1, <2>2, <2>3, <2>4 DEF Queued
<1>7. CASE ~closed /\ ~(Len(queue) < QueueCap)
  <2>1. queue' = queue /\ up' /\ Store(t, <<u>>, overtaken, commits)
    BY <1>4, <1>7 DEF QueueBatchUpdate
  <2>2. <<u>> \in Seq(Update) /\ \A i \in DOMAIN <<u>> : <<u>>[i] = u
    BY <1>2
  <2>3. \A i \in DOMAIN <<u>> : <<u>>[i].table = t
    BY <2>2
  <2>4. overtaken \in SUBSET Commands
    OBVIOUS
  <2> HIDE DEF u, overtaken
  <2>5. StoreLaw(t, <<u>>) /\ CodeMatchesStatus' /\ Overtaken(t, <<u>>, overtaken)
    BY <2>1, <2>2, <2>3, <2>4, StoreHolds
  <2>6. \A s, d : Has(<<u>>, s, d) <=> s = t /\ d = c
    <3>1. DOMAIN <<u>> = 1..1 /\ <<u>>[1] = u
      OBVIOUS
    <3> QED  BY <1>3, <3>1 DEF Has
  <2>7. EndsWith(<<u>>, t, c, handler[c].kind)
    BY <1>2, <2>2 DEF EndsWith
  <2>8. ASSUME NEW s \in Tables, NEW d \in Commands, NEW k, <<s, d>> \notin disturbed',
               IF s = t /\ d = c THEN k = handler[c].kind
                               ELSE <<s, d>> \notin disturbed => Shows(s, d, k)
        PROVE  Shows(s, d, k)'
    <3>1. EndsWith(queue, s, d, k)' <=> EndsWith(queue, s, d, k)
      BY <2>1 DEF EndsWith, LastAt, OfRow
    <3>2. Has(queue, s, d)' <=> Has(queue, s, d)
      BY <2>1 DEF Has, OfRow
    <3>3. EndsWith(buffer[s], s, d, k)' <=> EndsWith(buffer[s], s, d, k)
      BY DEF EndsWith, LastAt, OfRow
    <3>4. Has(buffer[s], s, d)' <=> Has(buffer[s], s, d)
      BY DEF Has, OfRow
    <3>5. CASE s = t /\ d = c
      <4>1. ~Waiting(t, c)
        <5>1. Has(<<u>>, t, c)
          BY <2>6
        <5> QED  BY <2>5, <2>8, <3>5, <5>1 DEF Overtaken, overtaken
      <4>2. ~Has(queue, t, c) /\ ~Has(buffer[t], t, c)
        BY <4>1 DEF Waiting, Has, OfRow
      <4>3. EndsWith(queue, t, c, k) /\ EndsWith(buffer[t], t, c, k)
        BY <4>2 DEF EndsWith, LastAt, Has
      <4>4. row'[t][c].status = StatusOf(k)
        BY <2>5, <2>6, <2>7, <2>8, <3>5 DEF StoreLaw
      <4> QED  BY <3>1, <3>2, <3>3, <3>4, <3>5, <4>2, <4>3, <4>4 DEF Shows
    <3>6. CASE ~(s = t /\ d = c)
      <4>1. Shows(s, d, k)
        BY <2>5, <2>8, <3>6 DEF StoreLaw
      <4>2. row'[s][d] = row[s][d]
        BY <2>5, <2>6, <3>6 DEF StoreLaw
      <4> QED  BY <3>1, <3>2, <3>3, <3>4, <4>1, <4>2 DEF Shows
    <3> QED  BY <3>5, <3>6
  <2>9. row' \in [Tables -> [Commands -> RowState]] /\ disturbed' \subseteq Tables \X Commands
    BY <2>5 DEF StoreLaw
  <2> QED  BY <1>1, <1>4, <2>1, <2>5, <2>8, <2>9 DEF Queued
<1> QED  BY <1>1, <1>5, <1>6, <1>7

\* Nothing that LatestWins speaks of changes, but for the handlers.
LEMMA RowsUnchanged ==
    ASSUME Inv, queue' = queue, buffer' = buffer, row' = row, disturbed' = disturbed, up' = up,
           \A t \in Tables, c \in Commands : Latest(t, c)' = Latest(t, c)
    PROVE  OwnBuffer' /\ CodeMatchesStatus' /\ \A t \in Tables, c \in Commands : LatestWins(t, c)'
<1>1. OwnBuffer' /\ CodeMatchesStatus'
  BY DEF Inv, OwnBuffer, CodeMatchesStatus
<1>2. ASSUME NEW t \in Tables, NEW c \in Commands PROVE LatestWins(t, c)'
  <2> DEFINE k == Latest(t, c)
  <2>1. LatestWins(t, c) /\ k' = k
    BY DEF Inv
  <2>2. Shows(t, c, k)' <=> Shows(t, c, k)
    BY <2>1 DEF Shows, Has, EndsWith, LastAt, OfRow
  <2> QED  BY <2>1, <2>2 DEF LatestWins
<1> QED  BY <1>1, <1>2

LEMMA ArriveHolds ==
    ASSUME Inv, NEW c \in Commands, NEW k \in ResultKinds, Arrive(c, k)
    PROVE  Inv'
<1>1. handler \in [Commands -> Handler]
  BY DEF Inv, TypeOK
<1> DEFINE h == [at |-> "command_host", kind |-> k]
<1>2. /\ handler' = [handler EXCEPT ![c] = h] /\ handler[c] = AtRest
      /\ UNCHANGED <<queue, buffer, row, last, disturbed, up>>
  BY DEF Arrive
<1>3. h \in Handler /\ h.at = "command_host" /\ h.kind = k
  BY DEF Handler, Tables
<1> HIDE DEF h
<1>4. /\ handler' \in [Commands -> Handler] /\ handler'[c] = h
      /\ \A d \in Commands : d # c => handler'[d] = handler[d]
  BY <1>1, <1>2, <1>3
<1>5. TypeOK'
  <2>1. got' \in Nat
    BY DEF Arrive, Inv, TypeOK
  <2> QED  BY <1>4, <2>1 DEF Arrive, Inv, TypeOK
<1>6. Busy'
  BY <1>3, <1>4 DEF Inv, Busy
<1>7. \A t \in Tables, d \in Commands : Latest(t, d)' = Latest(t, d)
  <2>1. handler[c].at # "command"
    BY <1>2 DEF AtRest
  <2> QED  BY <1>2, <1>3, <1>4, <2>1 DEF Latest
<1>8. OwnBuffer' /\ CodeMatchesStatus' /\ \A t \in Tables, d \in Commands : LatestWins(t, d)'
  BY <1>2, <1>7, RowsUnchanged
<1> QED  BY <1>5, <1>6, <1>8 DEF Inv

LEMMA ShowsLatest ==
    ASSUME NEW s, NEW d,
           \A k : k = Latest(s, d)' /\ up' /\ <<s, d>> \notin disturbed' => Shows(s, d, k)'
    PROVE  LatestWins(s, d)'
<1>1. PICK k : k = Latest(s, d)'
  OBVIOUS
<1>2. Shows(s, d, k)' => Shows(s, d, Latest(s, d))'
  BY <1>1 DEF Shows, EndsWith
<1> QED  BY <1>1, <1>2 DEF LatestWins

LEMMA QueueHostHolds ==
    ASSUME Inv, NEW c \in Commands, QueueHost(c)
    PROVE  Inv'
<1> DEFINE t == "command_host"
           h == [handler[c] EXCEPT !.at = "command"]
<1>1. handler \in [Commands -> Handler] /\ handler[c].at = t /\ up
  BY DEF Inv, TypeOK, QueueHost
<1>2. handler[c].kind \in ResultKinds
  BY <1>1 DEF Inv, Busy
<1>3. handler' = [handler EXCEPT ![c] = h] /\ last' = last /\ buffer' = buffer
  BY DEF QueueHost
<1>4. h \in Handler /\ h.at = "command" /\ h.kind = handler[c].kind
  BY <1>1 DEF Handler, Tables
<1> HIDE DEF h
<1>5. /\ handler' \in [Commands -> Handler] /\ handler'[c] = h
      /\ \A d \in Commands : d # c => handler'[d] = handler[d]
  BY <1>1, <1>3, <1>4
<1>6. Queued(t, c) /\ CodeMatchesStatus'
  <2>1. PICK commits \in BOOLEAN : QueueBatchUpdate(t, c, commits)
    BY DEF QueueHost
  <2>2. t \in Tables
    BY DEF Tables
  <2> HIDE DEF t
  <2> QED  BY <1>2, <1>3, <2>1, <2>2, QueueHolds DEF Inv
<1>7. TypeOK'
  <2>1. faults' \in Nat
    <3>1. PICK commits \in BOOLEAN : Failing(IF commits THEN 0 ELSE 1)
      BY DEF QueueHost
    <3> QED  BY <3>1 DEF Failing, Inv, TypeOK
  <2>2. UNCHANGED <<closed, buffer, proc, last, got, due, task>>
    BY DEF QueueHost
  <2> QED  BY <1>5, <1>6, <2>1, <2>2 DEF Queued, Inv, TypeOK
<1>8. Busy'
  BY <1>2, <1>4, <1>5 DEF Inv, Busy
<1>9. OwnBuffer'
  BY <1>3 DEF Inv, OwnBuffer
<1>10. ASSUME NEW s \in Tables, NEW d \in Commands PROVE LatestWins(s, d)'
  <2>1. ASSUME NEW k, k = Latest(s, d)', up', <<s, d>> \notin disturbed' PROVE Shows(s, d, k)'
    <3>1. CASE s = t /\ d = c
      <4>1. k = handler[c].kind
        BY <1>4, <1>5, <2>1, <3>1 DEF Latest
      <4> QED  BY <1>6, <2>1, <3>1, <4>1 DEF Queued
    <3>2. CASE ~(s = t /\ d = c)
      <4>1. k = Latest(s, d)
        BY <1>3, <1>5, <2>1, <3>2 DEF Latest
      <4>2. <<s, d>> \notin disturbed => Shows(s, d, k)
        BY <1>1, <4>1 DEF Inv, LatestWins
      <4> QED  BY <1>6, <2>1, <3>2, <4>2 DEF Queued
    <3> QED  BY <3>1, <3>2
  <2> QED  BY <2>1, ShowsLatest
<1> QED  BY <1>6, <1>7, <1>8, <1>9, <1>10 DEF Inv

LEMMA QueueCommandHolds ==
    ASSUME Inv, NEW c \in Commands, QueueCommand(c)
    PROVE  Inv'
<1> DEFINE t == "command"
           r == handler[c].kind
<1>1. handler \in [Commands -> Handler] /\ handler[c].at = t /\ up
  BY DEF Inv, TypeOK, QueueCommand
<1>2. r \in ResultKinds
  BY <1>1 DEF Inv, Busy
<1>3. /\ handler' = [handler EXCEPT ![c] = AtRest] /\ buffer' = buffer
      /\ last' = [last EXCEPT ![c] = IF closed THEN @ ELSE r]
  BY DEF QueueCommand
<1>4. AtRest \in Handler /\ AtRest.at = "idle"
  BY DEF AtRest, Handler
<1>5. /\ handler' \in [Commands -> Handler] /\ handler'[c] = AtRest
      /\ \A d \in Commands : d # c => handler'[d] = handler[d]
  BY <1>1, <1>3, <1>4
<1>6. /\ last' \in [Commands -> ResultKinds \cup {"none"}]
      /\ closed \/ last'[c] = r
      /\ \A d \in Commands : d # c => last'[d] = last[d]
  BY <1>2, <1>3 DEF Inv, TypeOK
<1>7. Queued(t, c) /\ CodeMatchesStatus' /\ up' = ~closed
  <2>1. PICK commits \in BOOLEAN : QueueBatchUpdate(t, c, commits)
    BY DEF QueueCommand
  <2>2. t \in Tables
    BY DEF Tables
  <2>3. up' = ~closed
    BY <2>1 DEF QueueBatchUpdate
  <2> HIDE DEF t
  <2> QED  BY <1>2, <1>3, <2>1, <2>2, <2>3, QueueHolds DEF Inv
<1>8. TypeOK'
  <2>1. faults' \in Nat /\ due' \in Nat
    <3>1. PICK commits \in BOOLEAN, saves \in BOOLEAN :
              /\ Failing((IF commits THEN 0 ELSE 1) + (IF saves THEN 0 ELSE 1))
              /\ due' = IF saves /\ ~closed THEN due + 1 ELSE due
      BY DEF QueueCommand
    <3> QED  BY <3>1 DEF Failing, Inv, TypeOK
  <2>2. UNCHANGED <<closed, buffer, proc, got, task>>
    BY DEF QueueCommand
  <2> QED  BY <1>5, <1>6, <1>7, <2>1, <2>2 DEF Queued, Inv, TypeOK
<1>9. Busy'
  BY <1>4, <1>5 DEF Inv, Busy
<1>10. OwnBuffer'
  BY <1>3 DEF Inv, OwnBuffer
<1>11. ASSUME NEW s \in Tables, NEW d \in Commands PROVE LatestWins(s, d)'
  <2>1. ASSUME NEW k, k = Latest(s, d)', up', <<s, d>> \notin disturbed' PROVE Shows(s, d, k)'
    <3>0. ~closed
      BY <1>7, <2>1 DEF Inv, TypeOK
    <3>1. CASE s = t /\ d = c
      <4>1. k = r
        BY <1>6, <2>1, <3>0, <3>1 DEF Latest
      <4> QED  BY <1>7, <2>1, <3>1, <4>1 DEF Queued
    <3>2. CASE ~(s = t /\ d = c)
      <4>1. k = Latest(s, d)
        <5>1. CASE d = c
          <6>1. s = "command_host"
            BY <3>2, <5>1 DEF Tables
          <6> QED  BY <1>1, <1>4, <1>5, <1>6, <2>1, <3>0, <5>1, <6>1 DEF Latest
        <5>2. CASE d # c
          BY <1>5, <1>6, <2>1, <5>2 DEF Latest
        <5> QED  BY <5>1, <5>2
      <4>2. <<s, d>> \notin disturbed => Shows(s, d, k)
        BY <1>1, <4>1 DEF Inv, LatestWins
      <4> QED  BY <1>7, <2>1, <3>2, <4>2 DEF Queued
    <3> QED  BY <3>1, <3>2
  <2> QED  BY <2>1, ShowsLatest
<1> QED  BY <1>7, <1>8, <1>9, <1>10, <1>11 DEF Inv

LEMMA ReceiveHolds ==
    ASSUME Inv, Receive
    PROVE  Inv'
<1> DEFINE u == Head(queue)
           t == u.table
           b == Append(buffer[t], u)
<1>1. queue \in Seq(Update) /\ queue # << >> /\ buffer \in [Tables -> Seq(Update)] /\ up
  BY DEF Inv, TypeOK, Receive
<1>2. u \in Update /\ t \in Tables
  BY <1>1, TailOfRow DEF Update
<1>3. /\ queue' = Tail(queue) /\ buffer' = [buffer EXCEPT ![t] = b]
      /\ UNCHANGED <<closed, row, handler, last, got, due, task, up, faults, disturbed>>
  BY DEF Receive
<1>4. queue' \in Seq(Update)
  BY <1>1, <1>3, TailOfRow
<1> HIDE DEF u
<1>5. b \in Seq(Update)
  BY <1>1, <1>2, AppendOfRow
<1>6. /\ buffer' \in [Tables -> Seq(Update)] /\ buffer'[t] = b
      /\ \A s \in Tables : s # t => buffer'[s] = buffer[s]
  BY <1>1, <1>2, <1>3, <1>5
<1>7. TypeOK'
  <2>1. proc' \in [stage : Tables \cup {"select"}, need : {0, 1, BatchSize}]
    <3>1. proc' = [stage |-> "command_host", need |-> BatchSize] \/ proc' = Select
      BY DEF Receive
    <3> QED  BY <3>1 DEF Tables, Select
  <2> QED  BY <1>3, <1>4, <1>6, <2>1 DEF Inv, TypeOK
<1>8. Busy' /\ CodeMatchesStatus'
  BY <1>3 DEF Inv, Busy, CodeMatchesStatus
<1>9. OwnBuffer'
  <2> SUFFICES ASSUME NEW s \in Tables, NEW i \in DOMAIN buffer'[s] PROVE buffer'[s][i].table = s
    BY DEF OwnBuffer
  <2>1. CASE s # t
    BY <1>6, <2>1 DEF Inv, OwnBuffer
  <2>2. CASE s = t
    <3>1. Len(buffer[t]) \in Nat /\ DOMAIN buffer[t] = 1..Len(buffer[t])
      BY <1>1, <1>2
    <3>2. /\ DOMAIN b = 1..(Len(buffer[t]) + 1) /\ b[Len(buffer[t]) + 1] = u
          /\ \A j \in 1..Len(buffer[t]) : b[j] = buffer[t][j]
      BY <1>1, <1>2
    <3>3. CASE i = Len(buffer[t]) + 1
      BY <1>6, <2>2, <3>2, <3>3
    <3>4. CASE i # Len(buffer[t]) + 1
      <4>1. i \in DOMAIN buffer[t] /\ b[i] = buffer[t][i]
        BY <1>6, <2>2, <3>1, <3>2, <3>4
      <4> QED  BY <1>2, <1>6, <2>2, <4>1 DEF Inv, OwnBuffer
    <3> QED  BY <3>3, <3>4
  <2> QED  BY <2>1, <2>2
<1>10. ASSUME NEW s \in Tables, NEW d \in Commands PROVE LatestWins(s, d)'
  <2>1. ASSUME NEW k, k = Latest(s, d)', up', <<s, d>> \notin disturbed' PROVE Shows(s, d, k)'
    <3>1. Shows(s, d, k)
      <4>1. k = Latest(s, d)
        BY <1>3, <2>1 DEF Latest
      <4> QED  BY <1>1, <1>3, <2>1, <4>1 DEF Inv, LatestWins
    <3>2. /\ Has(queue, s, d) <=> Has(queue', s, d) \/ OfRow(u, s, d)
          /\ EndsWith(queue, s, d, k) => EndsWith(queue', s, d, k)
          /\ EndsWith(queue, s, d, k) /\ OfRow(u, s, d) /\ ~Has(queue', s, d) => u.kind = k
      BY <1>1, <1>3, TailOfRow DEF u
    <3>3. /\ Has(buffer[s], s, d) => Has(buffer'[s], s, d)
          /\ OfRow(u, s, d) => Has(buffer'[s], s, d)
          /\ OfRow(u, s, d) /\ u.kind = k => EndsWith(buffer'[s], s, d, k)
          /\ ~OfRow(u, s, d) => /\ Has(buffer'[s], s, d) => Has(buffer[s], s, d)
                                /\ EndsWith(buffer[s], s, d, k) => EndsWith(buffer'[s], s, d, k)
      <4>1. CASE s = t
        BY <1>1, <1>2, <1>6, <4>1, AppendOfRow
      <4>2. CASE s # t
        BY <1>6, <4>2 DEF OfRow
      <4> QED  BY <4>1, <4>2
    <3>4. /\ EndsWith(queue', s, d, k)
          /\ ~Has(queue', s, d) => EndsWith(buffer'[s], s, d, k)
          /\ ~Has(queue', s, d) /\ ~Has(buffer'[s], s, d) /\ k # "none" => row[s][d].status = StatusOf(k)
      BY <3>1, <3>2, <3>3 DEF Shows
    <3>5. /\ EndsWith(queue, s, d, k)' <=> EndsWith(queue', s, d, k)
          /\ EndsWith(buffer[s], s, d, k)' <=> EndsWith(buffer'[s], s, d, k)
          /\ Has(queue, s, d)' <=> Has(queue', s, d)
          /\ Has(buffer[s], s, d)' <=> Has(buffer'[s], s, d)
      BY DEF EndsWith, LastAt, Has, OfRow
    <3> QED  BY <1>3, <3>4, <3>5 DEF Shows
  <2> QED  BY <2>1, ShowsLatest
<1> QED  BY <1>7, <1>8, <1>9, <1>10 DEF Inv

LEMMA FlushHolds ==
    ASSUME Inv, Flush
    PROVE  Inv'
<1> DEFINE t == proc.stage
<1>1. /\ t \in Tables /\ up /\ buffer \in [Tables -> Seq(Update)]
      /\ UNCHANGED <<queue, closed, handler, last, got, due, task, up>>
  BY DEF Inv, TypeOK, Flush
<1>2. \A s \in Tables, d \in Commands : Latest(s, d)' = Latest(s, d)
  BY <1>1 DEF Latest
<1>3. proc' \in [stage : Tables \cup {"select"}, need : {0, 1, BatchSize}]
  <2>1. [proc EXCEPT !.stage = "command"] \in [stage : Tables \cup {"select"}, need : {0, 1, BatchSize}]
    BY DEF Inv, TypeOK, Tables
  <2>2. Select \in [stage : Tables \cup {"select"}, need : {0, 1, BatchSize}]
    BY DEF Select
  <2> QED  BY <2>1, <2>2 DEF Flush, NextStage
<1>4. Busy'
  BY <1>1 DEF Inv, Busy
<1>5. CASE ~(Len(buffer[t]) >= proc.need)
  <2>1. UNCHANGED <<row, faults, disturbed, buffer>>
    BY <1>5 DEF Flush
  <2>2. OwnBuffer' /\ CodeMatchesStatus' /\ \A s \in Tables, d \in Commands : LatestWins(s, d)'
    BY <1>1, <1>2, <2>1, RowsUnchanged
  <2>3. TypeOK'
    BY <1>1, <1>3, <2>1 DEF Inv, TypeOK
  <2> QED  BY <1>4, <2>2, <2>3 DEF Inv
<1>6. CASE Len(buffer[t]) >= proc.need
  <2>1. PICK commits \in BOOLEAN :
            Store(t, buffer[t], {}, commits) /\ Failing(IF commits THEN 0 ELSE 1)
    BY <1>6 DEF Flush
  <2>2. buffer' = [buffer EXCEPT ![t] = << >>]
    BY <1>6 DEF Flush
  <2>3. buffer[t] \in Seq(Update) /\ \A i \in DOMAIN buffer[t] : buffer[t][i].table = t
    BY <1>1 DEF Inv, OwnBuffer
  <2> HIDE DEF t
  <2>4. StoreLaw(t, buffer[t]) /\ CodeMatchesStatus'
    BY <1>1, <2>1, <2>3, StoreHolds DEF Inv
  <2>5. /\ buffer' \in [Tables -> Seq(Update)] /\ buffer'[t] = << >>
        /\ \A s \in Tables : s # t => buffer'[s] = buffer[s]
    BY <1>1, <2>2
  <2>6. TypeOK'
    <3>1. faults' \in Nat
      BY <2>1 DEF Failing, Inv, TypeOK
    <3> QED  BY <1>1, <1>3, <2>4, <2>5, <3>1 DEF StoreLaw, Inv, TypeOK
  <2>7. OwnBuffer'
    <3>1. ASSUME NEW s \in Tables, NEW i \in DOMAIN buffer'[s] PROVE buffer'[s][i].table = s
      BY <2>5 DEF Inv, OwnBuffer
    <3> QED  BY <3>1 DEF OwnBuffer
  <2>8. ASSUME NEW s \in Tables, NEW d \in Commands PROVE LatestWins(s, d)'
    <3>1. ASSUME NEW k, k = Latest(s, d)', up', <<s, d>> \notin disturbed' PROVE Shows(s, d, k)'
      <4>1. Shows(s, d, k)
        <5>1. k = Latest(s, d)
          BY <1>2, <3>1
        <5>2. <<s, d>> \notin disturbed
          BY <2>4, <3>1 DEF StoreLaw
        <5> QED  BY <1>1, <5>1, <5>2 DEF Inv, LatestWins
      <4>2. /\ EndsWith(buffer'[s], s, d, k) \/ s # t
            /\ ~Has(buffer'[s], s, d) \/ s # t
        BY <2>5 DEF EndsWith, Has
      <4>3. s = t /\ ~Has(buffer[t], t, d) => row'[s][d] = row[s][d]
        BY <2>4 DEF StoreLaw
      <4>4. s = t /\ Has(buffer[t], t, d) /\ EndsWith(buffer[t], t, d, k) => row'[s][d].status = StatusOf(k)
        BY <2>4, <3>1 DEF StoreLaw
      <4>5. s # t => row'[s] = row[s] /\ buffer'[s] = buffer[s]
        BY <2>4, <2>5 DEF StoreLaw
      <4>6. /\ EndsWith(queue, s, d, k)
            /\ ~Has(queue, s, d) => EndsWith(buffer'[s], s, d, k)
            /\ ~Has(queue, s, d) /\ ~Has(buffer'[s], s, d) /\ k # "none" => row'[s][d].status = StatusOf(k)
        BY <4>1, <4>2, <4>3, <4>4, <4>5 DEF Shows
      <4>7. /\ EndsWith(queue, s, d, k)' <=> EndsWith(queue, s, d, k)
            /\ EndsWith(buffer[s], s, d, k)' <=> EndsWith(buffer'[s], s, d, k)
            /\ Has(queue, s, d)' <=> Has(queue, s, d)
            /\ Has(buffer[s], s, d)' <=> Has(buffer'[s], s, d)
        BY <1>1 DEF EndsWith, LastAt, Has, OfRow
      <4> QED  BY <4>6, <4>7 DEF Shows
    <3> QED  BY <3>1, ShowsLatest
  <2> QED  BY <1>4, <2>4, <2>6, <2>7, <2>8 DEF Inv
<1> QED  BY <1>5, <1>6

\* The steps that touch neither the rows nor what waits for them.
LEMMA OthersHold ==
    ASSUME Inv, UpdateTaskProgress \/ Tick \/ Shutdown \/ UNCHANGED vars
    PROVE  Inv'
<1>1. UNCHANGED <<queue, buffer, row, handler, last, disturbed, up>>
  BY DEF UpdateTaskProgress, Tick, Shutdown, vars
<1>2. \A s \in Tables, d \in Commands : Latest(s, d)' = Latest(s, d)
  BY <1>1 DEF Latest
<1>3. OwnBuffer' /\ CodeMatchesStatus' /\ \A s \in Tables, d \in Commands : LatestWins(s, d)'
  BY <1>1, <1>2, RowsUnchanged
<1>4. Busy'
  BY <1>1 DEF Inv, Busy
<1>5. TypeOK'
  <2>1. CASE UpdateTaskProgress
    <3>1. due' \in Nat
      BY <2>1 DEF UpdateTaskProgress, Inv, TypeOK
    <3>2. task' \in {"running", "completed", "failed"}
      BY <2>1 DEF UpdateTaskProgress, ProgressStatus, Inv, TypeOK
    <3>3. UNCHANGED <<queue, closed, buffer, proc, row, handler, last, got, up, faults, disturbed>>
      BY <2>1 DEF UpdateTaskProgress
    <3> QED  BY <3>1, <3>2, <3>3 DEF Inv, TypeOK
  <2>2. CASE Tick
    <3>1. proc' \in [stage : Tables \cup {"select"}, need : {0, 1, BatchSize}]
      BY <2>2 DEF Tick, Tables
    <3>2. UNCHANGED <<queue, closed, buffer, row, handler, last, got, due, task, up, faults, disturbed>>
      BY <2>2 DEF Tick
    <3> QED  BY <3>1, <3>2 DEF Inv, TypeOK
  <2>3. CASE Shutdown
    <3>1. faults' \in Nat
      BY <2>3 DEF Shutdown, Failing, Inv, TypeOK
    <3> QED  BY <2>3, <3>1 DEF Shutdown, Inv, TypeOK
  <2>4. CASE UNCHANGED vars
    BY <2>4 DEF vars, Inv, TypeOK
  <2> QED  BY <2>1, <2>2, <2>3, <2>4
<1> QED  BY <1>3, <1>4, <1>5 DEF Inv

LEMMA StepHolds == Inv /\ [Next]_vars => Inv'
<1> SUFFICES ASSUME Inv, [Next]_vars PROVE Inv'
  OBVIOUS
<1>1. CASE \E c \in Commands, k \in ResultKinds : Arrive(c, k)
  BY <1>1, ArriveHolds
<1>2. CASE \E c \in Commands : QueueHost(c)
  BY <1>2, QueueHostHolds
<1>3. CASE \E c \in Commands : QueueCommand(c)
  BY <1>3, QueueCommandHolds
<1>4. CASE Receive
  BY <1>4, ReceiveHolds
<1>5. CASE Flush
  BY <1>5, FlushHolds
<1>6. CASE UpdateTaskProgress \/ Tick \/ Shutdown \/ UNCHANGED vars
  BY <1>6, OthersHold
<1> QED  BY <1>1, <1>2, <1>3, <1>4, <1>5, <1>6, Zenon DEF Next, Handles, Processor

-----------------------------------------------------------------------------
(***************************************************************************)
(* Theorems.                                                               *)
(***************************************************************************)
LEMMA InvHolds == Spec => []Inv
<1>1. Init => Inv
  BY InitHolds
<1>2. Inv /\ [Next]_vars => Inv'
  BY StepHolds
<1> QED  BY <1>1, <1>2, PTL DEF Spec

\* Every variable keeps its type: queue and buffers hold updates, the rows of both
\* tables statuses and exit codes.
THEOREM BatchTypes == Spec => []TypeOK
<1>1. Inv => TypeOK
  BY DEF Inv
<1> QED  BY <1>1, InvHolds, PTL

\* A failed row has an exit code and no other row with a status has one, whatever
\* batches, groups and direct writes it went through: updateFields sets both.
THEOREM CodesBelongToStatuses == Spec => []CodeMatchesStatus
<1>1. Inv => CodeMatchesStatus
  BY DEF Inv
<1> QED  BY <1>1, InvHolds, PTL

\* When queue and buffers are empty and the handlers are done, each row shows the last
\* result of its command, unless updates shared a batch, overtook one another at a full
\* queue, or were lost with a transaction.
THEOREM LastResultsWin == Spec => []LastResultWinsUnlessDisturbed
<1>1. Inv => LastResultWinsUnlessDisturbed
  <2> SUFFICES ASSUME Inv, AllHandled, NEW t \in Tables, NEW c \in Commands,
                      <<t, c>> \notin disturbed, last[c] # "none"
               PROVE  row[t][c].status = StatusOf(last[c])
    BY DEF LastResultWinsUnlessDisturbed
  <2>1. Latest(t, c) = last[c]
    BY DEF AllHandled, AtRest, Latest
  <2>2. ~Has(queue, t, c) /\ ~Has(buffer[t], t, c)
    BY DEF AllHandled, Has
  <2>3. Shows(t, c, last[c])
    BY <2>1 DEF Inv, LatestWins, AllHandled
  <2> QED  BY <2>2, <2>3 DEF Shows
<1> QED  BY <1>1, InvHolds, PTL
=============================================================================
