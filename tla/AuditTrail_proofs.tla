-------------------------- MODULE AuditTrail_proofs --------------------------
(***************************************************************************)
(* Theorems about the logs and the daily statistics, for any retention,    *)
(* page sizes, numbers of tasks, requests and faults.                      *)
(***************************************************************************)
EXTENDS AuditTrail, FiniteSetTheorems, SequenceTheorems, TLAPS

\* The rows of a table are in the order of their timestamps.
Sorted(rows) == \A i, j \in DOMAIN rows : i < j => rows[i].at <= rows[j].at

LogsInOrder ==
    \A t \in Tables :
        /\ deleted[t] \subseteq DOMAIN log[t]
        /\ Sorted(log[t])
        /\ \A i \in DOMAIN log[t] : log[t][i].at <= clock

\* A count that is true: of the tasks of a day, less the removed ones or not.
True(n, d) == Created(d) <= n /\ n <= Born(d)

\* A day that was counted when it was over has a true count.
StatsAreTrue ==
    \A d \in Days : stats[d] # NoStats /\ d \notin early =>
        d < Day(clock) /\ True(stats[d].total, d)

\* A count that is under way is of a day that has begun, and will be true.
JobIsTrue(j) ==
    /\ j.at \in {"count", "store"} => j.date \in Days /\ j.date <= Day(clock)
    /\ j.at = "store" =>
           /\ j.counts \in Counts
           /\ j.date \notin early => j.date < Day(clock) /\ True(j.counts.total, j.date)

JobsAreTrue == \A j \in Jobs : JobIsTrue(job[j])

\* No row has gone from in front of the reader, and no answer was outdated.
Whole(r) == "shrunk" \notin r.shaken /\ "stale" \notin r.shaken

\* Where the reader of list t has been, every row it wants was seen; the total it has
\* counted covers them all.
Ahead(t) ==
    /\ reader.size >= 1
    /\ reader.from \subseteq DOMAIN log[t]
    /\ reader.at = "find" => reader.page > 0
    /\ \A i \in reader.from \cap Visible(t) :
           /\ Whole(reader) /\ reader.page > 0 /\ Place(t, i) <= (reader.page - 1) * reader.size
                => i \in reader.seen
           /\ reader.shaken = {} /\ reader.page = 0 => i \in reader.seen
           /\ reader.shaken = {} /\ reader.at = "find" => Place(t, i) <= reader.total

ReaderIsAhead == \A t \in Tables : reader.table = t => Ahead(t)

Inv == TypeOK /\ LogsInOrder /\ StatsAreTrue /\ JobsAreTrue /\ ReaderIsAhead

\* One o'clock of day d, and the age that the nightly cleanup leaves behind.
OneOClock(d) == d * HoursPerDay + 1
Young(t, d)  == \A i \in Visible(t) : log[t][i].at >= OneOClock(d) - RetentionDays * HoursPerDay
Counted(d)   == stats[d] # NoStats
PastOne(d)   == clock > OneOClock(d)

\* How far the nightly job is.
Working(d) ==
    LET j == job["nightly"] IN
    /\ j.at \in {"count", "store"} => j.date = d - 1
    /\ j.at \in Logs => Counted(d - 1) /\ j.cutoff = OneOClock(d) - RetentionDays * HoursPerDay
    /\ j.at = "exec" => Young("audit", d)
    /\ j.at = "idle" => Counted(d - 1) /\ Young("audit", d) /\ Young("exec", d)

NightWork ==
    \A d \in Days : d > 1 /\ d \notin missed =>
        /\ clock = OneOClock(d) /\ ticked => Working(d)
        /\ PastOne(d) => Counted(d - 1) /\ Young("audit", d) /\ Young("exec", d)

-----------------------------------------------------------------------------
(***************************************************************************)
(* Hours and days.                                                         *)
(***************************************************************************)
LEMMA TimesHours ==
    ASSUME NEW a \in Int, NEW b \in Int, a <= b
    PROVE  a * HoursPerDay <= b * HoursPerDay
<1>1. HoursPerDay \in Nat
  BY AuditAssumption
<1>2. (b - a) * HoursPerDay >= 0
  BY <1>1
<1>3. b * HoursPerDay = a * HoursPerDay + (b - a) * HoursPerDay
  BY <1>1
<1> QED  BY <1>1, <1>2, <1>3

LEMMA DayBounds ==
    ASSUME NEW t \in Int
    PROVE  /\ Day(t) \in Int /\ Hour(t) \in 0..(HoursPerDay - 1)
           /\ t = Day(t) * HoursPerDay + Hour(t)
           /\ Day(t) * HoursPerDay \in Int
<1>1. HoursPerDay \in Nat \ {0}
  BY AuditAssumption
<1> QED  BY <1>1 DEF Day, Hour

LEMMA DayIsNat ==
    ASSUME NEW t \in Nat
    PROVE  Day(t) \in Nat
<1>1. HoursPerDay \in Nat \ {0}
  BY AuditAssumption
<1>2. t \in Int /\ t >= 0
  OBVIOUS
<1>3. Day(t) \in Int /\ Day(t) * HoursPerDay + HoursPerDay > t
  BY <1>1, <1>2, DayBounds
<1> SUFFICES ASSUME Day(t) + 1 <= 0 PROVE FALSE
  BY <1>3
<1>4. (Day(t) + 1) * HoursPerDay <= 0 * HoursPerDay
  BY <1>3, TimesHours
<1>5. (Day(t) + 1) * HoursPerDay = Day(t) * HoursPerDay + HoursPerDay /\ 0 * HoursPerDay = 0
  BY <1>1, <1>3
<1> QED  BY <1>1, <1>2, <1>3, <1>4, <1>5

LEMMA DayUnique ==
    ASSUME NEW t \in Int, NEW d \in Int, NEW h \in 0..(HoursPerDay - 1), t = d * HoursPerDay + h
    PROVE  Day(t) = d /\ Hour(t) = h
<1>1. HoursPerDay \in Nat \ {0} /\ d * HoursPerDay \in Int
  BY AuditAssumption
<1>2. /\ Day(t) \in Int /\ Hour(t) \in 0..(HoursPerDay - 1)
      /\ t = Day(t) * HoursPerDay + Hour(t)
      /\ Day(t) * HoursPerDay \in Int
  BY DayBounds
<1>3. ~(Day(t) + 1 <= d)
  <2> SUFFICES ASSUME Day(t) + 1 <= d PROVE FALSE
    OBVIOUS
  <2>1. (Day(t) + 1) * HoursPerDay <= d * HoursPerDay
    BY <1>2, TimesHours
  <2>2. (Day(t) + 1) * HoursPerDay = Day(t) * HoursPerDay + HoursPerDay
    BY <1>1, <1>2
  <2> QED  BY <1>1, <1>2, <2>1, <2>2
<1>4. ~(d + 1 <= Day(t))
  <2> SUFFICES ASSUME d + 1 <= Day(t) PROVE FALSE
    OBVIOUS
  <2>1. (d + 1) * HoursPerDay <= Day(t) * HoursPerDay
    BY <1>2, TimesHours
  <2>2. (d + 1) * HoursPerDay = d * HoursPerDay + HoursPerDay
    BY <1>1
  <2> QED  BY <1>1, <1>2, <2>1, <2>2
<1>5. Day(t) = d
  BY <1>2, <1>3, <1>4
<1>6. Day(t) * HoursPerDay = d * HoursPerDay /\ Hour(t) \in Int /\ h \in Int
  BY <1>1, <1>2, <1>5
<1>7. Hour(t) = h
  <2> DEFINE x == Day(t) * HoursPerDay
             y == d * HoursPerDay
             z == Hour(t)
  <2>1. x = y /\ y \in Int /\ z \in Int /\ h \in Int /\ t = x + z /\ t = y + h
    BY <1>1, <1>2, <1>6
  <2> HIDE DEF x, y, z
  <2>2. z = h
    BY <2>1
  <2> QED  BY <2>2 DEF z
<1> QED  BY <1>5, <1>7

LEMMA DayMonotone ==
    ASSUME NEW s \in Int, NEW t \in Int, s <= t
    PROVE  Day(s) <= Day(t)
<1>1. HoursPerDay \in Nat \ {0}
  BY AuditAssumption
<1>2. /\ Day(t) \in Int /\ t < Day(t) * HoursPerDay + HoursPerDay /\ Day(t) * HoursPerDay \in Int
      /\ Day(s) \in Int /\ Day(s) * HoursPerDay <= s /\ Day(s) * HoursPerDay \in Int
  BY <1>1, DayBounds
<1> SUFFICES ASSUME Day(t) + 1 <= Day(s) PROVE FALSE
  BY <1>2
<1>3. (Day(t) + 1) * HoursPerDay <= Day(s) * HoursPerDay
  BY <1>2, TimesHours
<1>4. (Day(t) + 1) * HoursPerDay = Day(t) * HoursPerDay + HoursPerDay
  BY <1>1, <1>2
<1> QED  BY <1>1, <1>2, <1>3, <1>4

LEMMA OneOClockIs ==
    ASSUME NEW d \in Int
    PROVE  OneOClock(d) \in Int /\ Day(OneOClock(d)) = d /\ Hour(OneOClock(d)) = 1
<1>1. HoursPerDay \in Nat /\ HoursPerDay > 2
  BY AuditAssumption
<1>2. OneOClock(d) \in Int /\ 1 \in 0..(HoursPerDay - 1) /\ OneOClock(d) = d * HoursPerDay + 1
  BY <1>1 DEF OneOClock
<1> QED  BY <1>2, DayUnique

\* The day that is meant by today is not in the future.
LEMMA TruncatedDayIs ==
    ASSUME clock \in Nat
    PROVE  TruncatedDay \in Int /\ TruncatedDay <= Day(clock)
<1> DEFINE t == clock - ZoneOffset
           s == (t \div HoursPerDay) * HoursPerDay + ZoneOffset
<1>1. HoursPerDay \in Nat \ {0} /\ ZoneOffset \in Int
  BY AuditAssumption
<1>2. t \in Int /\ clock \in Int
  BY <1>1
<1>3. Day(t) * HoursPerDay \in Int /\ Day(t) * HoursPerDay <= t
  <2> HIDE DEF t
  <2> QED  BY <1>1, <1>2, DayBounds
<1>4. s \in Int /\ s <= clock
  BY <1>1, <1>2, <1>3 DEF Day
<1> HIDE DEF s
<1>5. Day(s) \in Int /\ Day(s) <= Day(clock)
  BY <1>2, <1>4, DayBounds, DayMonotone
<1> QED  BY <1>5 DEF TruncatedDay, s

-----------------------------------------------------------------------------
(***************************************************************************)
(* Rows and their places.                                                  *)
(***************************************************************************)
LEMMA RowsTyped ==
    ASSUME TypeOK, NEW t \in Tables
    PROVE  /\ log[t] \in Seq(Row) /\ Len(log[t]) \in Nat /\ DOMAIN log[t] = 1..Len(log[t])
           /\ \A i \in DOMAIN log[t] : log[t][i] \in Row /\ log[t][i].op \in Nat /\ log[t][i].at \in Nat
<1>1. log[t] \in Seq(Row)
  BY DEF TypeOK
<1>2. \A i \in DOMAIN log[t] : log[t][i] \in Row
  BY <1>1
<1> QED  BY <1>1, <1>2 DEF Row

LEMMA VisibleIs ==
    ASSUME TypeOK, NEW t \in Tables
    PROVE  /\ Visible(t) \subseteq DOMAIN log[t] /\ Visible(t) \subseteq Nat
           /\ IsFiniteSet(DOMAIN log[t]) /\ IsFiniteSet(Visible(t)) /\ Total(t) \in Nat
<1>1. DOMAIN log[t] = 1..Len(log[t]) /\ Len(log[t]) \in Nat
  BY RowsTyped
<1>2. Visible(t) \subseteq DOMAIN log[t]
  BY DEF Visible
<1>3. IsFiniteSet(DOMAIN log[t])
  BY <1>1, FS_Interval
<1>4. IsFiniteSet(Visible(t))
  BY <1>2, <1>3, FS_Subset
<1> QED  BY <1>1, <1>2, <1>3, <1>4, FS_CardinalityType DEF Total

\* A part of a finite set has no more elements.
LEMMA PartIsSmaller ==
    ASSUME NEW S, NEW T, IsFiniteSet(S), T \subseteq S
    PROVE  /\ IsFiniteSet(T) /\ Cardinality(T) \in Nat /\ Cardinality(S) \in Nat
           /\ Cardinality(T) <= Cardinality(S)
BY FS_Subset, FS_CardinalityType

LEMMA PlaceIs ==
    ASSUME TypeOK, NEW t \in Tables, NEW i \in Visible(t)
    PROVE  Place(t, i) \in Nat /\ 1 <= Place(t, i) /\ Place(t, i) <= Total(t)
<1> DEFINE S == {j \in Visible(t) : IF t = "exec" THEN j <= i ELSE j >= i}
<1>1. IsFiniteSet(Visible(t)) /\ i \in Nat /\ Total(t) \in Nat
  BY VisibleIs
<1>2. S \subseteq Visible(t) /\ i \in S
  BY <1>1
<1> HIDE DEF S
<1>3. Cardinality(S) \in Nat /\ Cardinality(S) <= Total(t) /\ IsFiniteSet(S)
  BY <1>1, <1>2, PartIsSmaller DEF Total
<1>4. Cardinality(S) # 0
  BY <1>2, <1>3, FS_EmptySet
<1>5. 1 <= Cardinality(S)
  BY <1>3, <1>4
<1> QED  BY <1>3, <1>5 DEF Place, S

LEMMA CreatedIs ==
    ASSUME TypeOK, NEW d
    PROVE  Created(d) \in Nat /\ Born(d) \in Nat /\ True(Created(d), d)
<1> DEFINE D == DOMAIN log["tasks"]
           B == {i \in D : Day(log["tasks"][i].at) = d}
<1>1. IsFiniteSet(D) /\ Visible("tasks") \subseteq D
  BY VisibleIs DEF Tables
<1>2. B \subseteq D /\ CreatedOn(d) \subseteq B
  BY <1>1 DEF CreatedOn
<1>3. Born(d) = Cardinality(B) /\ Created(d) = Cardinality(CreatedOn(d))
  BY DEF Born, Created
<1> HIDE DEF B, D
<1>4. IsFiniteSet(B) /\ Cardinality(B) \in Nat
  BY <1>1, <1>2, PartIsSmaller
<1>5. Cardinality(CreatedOn(d)) \in Nat /\ Cardinality(CreatedOn(d)) <= Cardinality(B)
  BY <1>2, <1>4, PartIsSmaller
<1> QED  BY <1>3, <1>4, <1>5 DEF True

LEMMA ReaderTyped ==
    ASSUME TypeOK
    PROVE  /\ reader \in Reader /\ reader.table \in Tables \cup {"none"}
           /\ reader.page \in Nat /\ reader.size \in Nat /\ reader.total \in Nat
           /\ reader.at \in {"ask", "find"}
           /\ reader.from \subseteq Nat /\ reader.seen \subseteq Nat
           /\ reader.shaken \subseteq {"grown", "shrunk", "stale"}
           /\ (reader.page - 1) * reader.size \in Int /\ reader.page * reader.size \in Nat
<1>1. reader \in Reader
  BY DEF TypeOK
<1>2. reader.page \in Nat /\ reader.size \in Nat
  BY <1>1 DEF Reader
<1> QED  BY <1>1, <1>2 DEF Reader

-----------------------------------------------------------------------------
(***************************************************************************)
(* What a step leaves alone.                                               *)
(***************************************************************************)

\* A true count of a day that is over stays true.
CountsStay ==
    /\ clock' \in Nat /\ clock <= clock' /\ early \subseteq early'
    /\ \A d \in Days : d < Day(clock) => \A n \in Nat : True(n, d) => True(n, d)'

LEMMA TablesSame ==
    ASSUME log' = log, deleted' = deleted
    PROVE  /\ \A t \in Tables : Visible(t)' = Visible(t)
           /\ \A d \in Days, n \in Nat : True(n, d) => True(n, d)'
           /\ \A d : True(Created(d), d) => True(Created(d), d)'
BY DEF Visible, True, Created, CreatedOn, Born, Day

LEMMA LogsKept ==
    ASSUME Inv, log' = log, deleted' = deleted, clock' \in Nat, clock <= clock'
    PROVE  LogsInOrder'
<1> SUFFICES ASSUME NEW t \in Tables
             PROVE  /\ deleted[t] \subseteq DOMAIN log[t] /\ Sorted(log[t])
                    /\ \A i \in DOMAIN log[t] : log[t][i].at <= clock'
  BY DEF LogsInOrder, Sorted
<1>1. /\ deleted[t] \subseteq DOMAIN log[t] /\ Sorted(log[t])
      /\ \A i \in DOMAIN log[t] : log[t][i].at <= clock
  BY DEF Inv, LogsInOrder
<1>2. ASSUME NEW i \in DOMAIN log[t] PROVE log[t][i].at <= clock'
  <2>1. log[t][i].at \in Nat /\ clock \in Nat
    BY RowsTyped DEF Inv, TypeOK
  <2> QED  BY <1>1, <2>1
<1> QED  BY <1>1, <1>2

LEMMA DaysGoBy ==
    ASSUME clock \in Nat, clock' \in Nat, clock <= clock'
    PROVE  Day(clock) \in Int /\ Day(clock') \in Int /\ Day(clock) <= Day(clock')
<1>1. clock \in Int /\ clock' \in Int
  OBVIOUS
<1>2. Day(clock) \in Int /\ Day(clock') \in Int
  BY <1>1, DayBounds
<1>3. Day(clock) <= Day(clock')
  BY <1>1, DayMonotone
<1> QED  BY <1>2, <1>3

LEMMA StatsKept ==
    ASSUME Inv, stats' = stats, CountsStay
    PROVE  StatsAreTrue'
<1>1. clock \in Nat /\ clock' \in Nat /\ clock <= clock' /\ early \subseteq early'
  BY DEF Inv, TypeOK, CountsStay
<1>2. Day(clock) \in Int /\ Day(clock') \in Int /\ Day(clock) <= Day(clock')
  BY <1>1, DaysGoBy
<1>3. Day(clock)' = Day(clock')
  BY DEF Day
<1> SUFFICES ASSUME NEW d \in Days, stats[d] # NoStats, d \notin early'
             PROVE  d < Day(clock') /\ True(stats[d].total, d)'
  BY <1>3 DEF StatsAreTrue, True
<1>4. d < Day(clock) /\ True(stats[d].total, d) /\ d \in Int /\ stats[d].total \in Nat
  <2>1. stats[d] \in Counts
    BY DEF Inv, TypeOK
  <2> QED  BY <1>1, <2>1 DEF Inv, StatsAreTrue, Days, Counts
<1>5. PICK n \in Nat : n = stats[d].total
  BY <1>4
<1>6. True(n, d)'
  BY <1>4, <1>5 DEF CountsStay
<1>7. True(stats[d].total, d)'
  BY <1>5, <1>6 DEF True
<1> QED  BY <1>2, <1>4, <1>7

\* A job goes on, ends, or begins.
JobStep(old, new) ==
    \/ new = old
    \/ new.at \notin {"count", "store"}
    \/ new.at = "count" /\ new.date \in Days /\ new.date <= Day(clock')

LEMMA JobKept ==
    ASSUME Inv, CountsStay, NEW j \in Jobs, JobStep(job[j], job'[j])
    PROVE  JobIsTrue(job[j])'
<1>1. clock \in Nat /\ clock' \in Nat /\ clock <= clock' /\ early \subseteq early'
  BY DEF Inv, TypeOK, CountsStay
<1>2. Day(clock) \in Int /\ Day(clock') \in Int /\ Day(clock) <= Day(clock')
  BY <1>1, DaysGoBy
<1>3. Day(clock)' = Day(clock')
  BY DEF Day
<1>4. CASE job'[j] = job[j]
  <2> DEFINE x == job[j]
  <2>1. JobIsTrue(x)
    BY DEF Inv, JobsAreTrue
  <2>2. ASSUME x.at \in {"count", "store"} PROVE x.date \in Days /\ x.date <= Day(clock')
    <3>1. x.date \in Days /\ x.date <= Day(clock) /\ x.date \in Int
      BY <2>1, <2>2 DEF JobIsTrue, Days
    <3> QED  BY <1>2, <3>1
  <2>3. ASSUME x.at = "store", x.date \notin early'
        PROVE  x.date < Day(clock') /\ True(x.counts.total, x.date)'
    <3>1. /\ x.date \in Days /\ x.date \in Int /\ x.date < Day(clock)
          /\ True(x.counts.total, x.date) /\ x.counts.total \in Nat
      BY <1>1, <2>1, <2>3 DEF JobIsTrue, Days, Counts
    <3>2. True(x.counts.total, x.date)'
      <4>1. PICK d \in Days, n \in Nat : d = x.date /\ n = x.counts.total
        BY <3>1
      <4>2. True(n, d)'
        BY <3>1, <4>1 DEF CountsStay
      <4> QED  BY <1>4, <4>1, <4>2 DEF True, Created, CreatedOn, Visible, Born
    <3> QED  BY <1>2, <3>1, <3>2
  <2>4. x.at = "store" => x.counts \in Counts
    BY <2>1 DEF JobIsTrue
  <2> QED  BY <1>3, <1>4, <2>2, <2>3, <2>4 DEF JobIsTrue, True, Created, CreatedOn, Visible, Born
<1>5. CASE job'[j].at \notin {"count", "store"}
  BY <1>5 DEF JobIsTrue
<1>6. CASE job'[j].at = "count" /\ job'[j].date \in Days /\ job'[j].date <= Day(clock')
  BY <1>3, <1>6 DEF JobIsTrue
<1> QED  BY <1>4, <1>5, <1>6 DEF JobStep

LEMMA JobsKept ==
    ASSUME Inv, CountsStay, \A j \in Jobs : JobStep(job[j], job'[j])
    PROVE  JobsAreTrue'
  BY JobKept DEF JobsAreTrue

\* The reader is where it was, and perhaps shaken.
StaysAt(x) ==
    /\ x \in Reader /\ x.table = reader.table /\ x.page = reader.page /\ x.size = reader.size
    /\ x.at = reader.at /\ x.total = reader.total /\ x.from = reader.from /\ x.seen = reader.seen
    /\ reader.shaken \subseteq x.shaken

LEMMA ShakeIs ==
    ASSUME TypeOK, NEW w \in {"grown", "shrunk", "stale"}
    PROVE  /\ StaysAt([reader EXCEPT !.shaken = @ \cup {w}])
           /\ w \in [reader EXCEPT !.shaken = @ \cup {w}].shaken
<1> DEFINE shaken == reader.shaken \cup {w}
           x == [reader EXCEPT !.shaken = shaken]
<1>1. reader \in Reader /\ shaken \subseteq {"grown", "shrunk", "stale"}
  BY ReaderTyped
<1>2. reader.shaken \subseteq shaken /\ w \in shaken
  OBVIOUS
<1>3. [reader EXCEPT !.shaken = @ \cup {w}] = x
  BY <1>1 DEF Reader
<1> HIDE DEF shaken
<1>4. x \in Reader /\ x.shaken = shaken
  BY <1>1 DEF Reader
<1>5. /\ x.table = reader.table /\ x.page = reader.page /\ x.size = reader.size
      /\ x.at = reader.at /\ x.total = reader.total /\ x.from = reader.from /\ x.seen = reader.seen
  BY <1>1 DEF Reader
<1> HIDE DEF x
<1> QED  BY <1>2, <1>3, <1>4, <1>5 DEF StaysAt

LEMMA StandsStill == ASSUME TypeOK PROVE StaysAt(reader)
  BY ReaderTyped DEF StaysAt

LEMMA GrownIs ==
    ASSUME TypeOK, NEW t \in Tables
    PROVE  /\ StaysAt(Grown(t))
           /\ reader.table = t /\ t # "exec" /\ reader.at = "find" => Grown(t).shaken # {}
<1>1. CASE reader.table = t /\ t # "exec" /\ reader.at = "find"
  <2> DEFINE x == [reader EXCEPT !.shaken = @ \cup {"grown"}]
  <2>1. Grown(t) = x
    BY <1>1 DEF Grown
  <2>2. StaysAt(x) /\ "grown" \in x.shaken
    BY ShakeIs
  <2> HIDE DEF x
  <2> QED  BY <2>1, <2>2
<1>2. CASE ~(reader.table = t /\ t # "exec" /\ reader.at = "find")
  BY <1>2, StandsStill DEF Grown
<1> QED  BY <1>1, <1>2

LEMMA ShrunkIs ==
    ASSUME TypeOK, NEW t \in Tables, NEW gone
    PROVE  /\ StaysAt(Shrunk(t, gone))
           /\ reader.table = t /\ t # "audit" /\ gone # {} => "shrunk" \in Shrunk(t, gone).shaken
<1>1. CASE reader.table = t /\ t # "audit" /\ gone # {}
  <2> DEFINE x == [reader EXCEPT !.shaken = @ \cup {"shrunk"}]
  <2>1. Shrunk(t, gone) = x
    BY <1>1 DEF Shrunk
  <2>2. StaysAt(x) /\ "shrunk" \in x.shaken
    BY ShakeIs
  <2> HIDE DEF x
  <2> QED  BY <2>1, <2>2
<1>2. CASE ~(reader.table = t /\ t # "audit" /\ gone # {})
  BY <1>2, StandsStill DEF Shrunk
<1> QED  BY <1>1, <1>2

\* The rows that reader x wants in list t are where they were, or behind, or it was shaken.
RowsStay(t, x) ==
    \A i \in reader.from : i \in Visible(t)' =>
        /\ i \in Visible(t) /\ Place(t, i)' \in Nat
        /\ Whole(x) => Place(t, i) <= Place(t, i)'
        /\ x.shaken = {} /\ reader.at = "find" => Place(t, i)' <= Place(t, i)

LEMMA AheadKept ==
    ASSUME Inv, NEW t \in Tables, reader.table = t, StaysAt(reader'),
           RowsStay(t, reader'), reader.from \subseteq DOMAIN log'[t]
    PROVE  Ahead(t)'
<1>1. Ahead(t) /\ TypeOK
  BY DEF Inv, ReaderIsAhead
<1>2. /\ reader'.table = t /\ reader'.page = reader.page /\ reader'.size = reader.size
      /\ reader'.at = reader.at /\ reader'.total = reader.total /\ reader'.from = reader.from
      /\ reader'.seen = reader.seen /\ (Whole(reader') => Whole(reader))
      /\ (reader'.shaken = {} => reader.shaken = {})
  BY DEF StaysAt, Whole
<1> DEFINE q == (reader.page - 1) * reader.size
<1>3. q \in Int /\ reader.total \in Nat
  BY <1>1, ReaderTyped
<1>4. ASSUME NEW i \in reader.from, i \in Visible(t)'
      PROVE  /\ Whole(reader') /\ reader.page > 0 /\ Place(t, i)' <= q => i \in reader.seen
             /\ reader'.shaken = {} /\ reader.page = 0 => i \in reader.seen
             /\ reader'.shaken = {} /\ reader.at = "find" => Place(t, i)' <= reader.total
  <2>1. /\ i \in Visible(t) /\ Place(t, i)' \in Nat
        /\ Whole(reader') => Place(t, i) <= Place(t, i)'
        /\ reader'.shaken = {} /\ reader.at = "find" => Place(t, i)' <= Place(t, i)
    BY <1>4 DEF RowsStay
  <2>2. Place(t, i) \in Nat
    BY <1>1, <2>1, PlaceIs
  <2>3. /\ Whole(reader) /\ reader.page > 0 /\ Place(t, i) <= q => i \in reader.seen
        /\ reader.shaken = {} /\ reader.page = 0 => i \in reader.seen
        /\ reader.shaken = {} /\ reader.at = "find" => Place(t, i) <= reader.total
    BY <1>1, <1>4, <2>1 DEF Ahead
  <2> HIDE DEF q
  <2>4. Whole(reader') /\ reader.page > 0 /\ Place(t, i)' <= q => i \in reader.seen
    BY <1>2, <1>3, <2>1, <2>2, <2>3
  <2>5. reader'.shaken = {} /\ reader.at = "find" => Place(t, i)' <= reader.total
    BY <1>2, <1>3, <2>1, <2>2, <2>3
  <2> QED  BY <1>2, <2>3, <2>4, <2>5
<1>5. /\ reader.size >= 1 /\ (reader.at = "find" => reader.page > 0)
  BY <1>1 DEF Ahead
<1> QED  BY <1>2, <1>4, <1>5 DEF Ahead

LEMMA ReaderKept ==
    ASSUME Inv, log' = log, deleted' = deleted, StaysAt(reader')
    PROVE  ReaderIsAhead'
<1> SUFFICES ASSUME NEW t \in Tables, reader'.table = t PROVE Ahead(t)'
  BY DEF ReaderIsAhead
<1>1. reader.table = t
  BY DEF StaysAt
<1>2. reader.from \subseteq DOMAIN log'[t]
  BY <1>1 DEF Inv, ReaderIsAhead, Ahead
<1>3. ASSUME NEW i \in reader.from, i \in Visible(t)'
      PROVE  i \in Visible(t) /\ Place(t, i)' = Place(t, i) /\ Place(t, i) \in Nat
  <2>1. Visible(t)' = Visible(t)
    BY TablesSame
  <2>2. i \in Visible(t)
    BY <1>3, <2>1
  <2>3. Place(t, i)' = Place(t, i)
    BY <2>1 DEF Place
  <2>4. Place(t, i) \in Nat
    BY <2>2, PlaceIs DEF Inv
  <2> QED  BY <2>2, <2>3, <2>4
<1>4. RowsStay(t, reader')
  BY <1>3 DEF RowsStay
<1> QED  BY <1>1, <1>2, <1>4, AheadKept

\* Steps that touch neither the tables nor the reader.
LEMMA TablesKept ==
    ASSUME Inv, log' = log, deleted' = deleted, reader' = reader, stats' = stats, early' = early,
           clock' = clock, \A j \in Jobs : JobStep(job[j], job'[j])
    PROVE  LogsInOrder' /\ StatsAreTrue' /\ JobsAreTrue' /\ ReaderIsAhead'
<1>1. clock \in Nat /\ clock <= clock' /\ TypeOK
  BY DEF Inv, TypeOK
<1>2. CountsStay
  BY <1>1, TablesSame DEF CountsStay
<1>3. StaysAt(reader')
  BY <1>1, StandsStill
<1> QED  BY <1>1, <1>2, <1>3, LogsKept, StatsKept, JobsKept, ReaderKept

-----------------------------------------------------------------------------
(***************************************************************************)
(* Rows that come and go.                                                  *)
(***************************************************************************)
LEMMA AppendKeeps ==
    ASSUME Inv, NEW t \in Tables, NEW r \in Row, r.at = clock, clock' = clock,
           log' = [log EXCEPT ![t] = Append(@, r)], deleted' = deleted, reader' = Grown(t)
    PROVE  /\ log' \in [Tables -> Seq(Row)] /\ reader' \in Reader
           /\ LogsInOrder' /\ ReaderIsAhead'
           /\ \A d \in Days : d < Day(clock) => \A n \in Nat : True(n, d) => True(n, d)'
           /\ \A s \in Tables : \A i \in Visible(s)' :
                  (i \in Visible(s) /\ log'[s][i] = log[s][i]) \/ log'[s][i] = r
<1> DEFINE n == Len(log[t])
<1>1. /\ log \in [Tables -> Seq(Row)] /\ clock \in Nat /\ log[t] \in Seq(Row) /\ n \in Nat
      /\ DOMAIN log[t] = 1..n /\ TypeOK
  BY RowsTyped DEF Inv, TypeOK
<1>2. Append(log[t], r) \in Seq(Row)
  BY <1>1
<1>3. /\ log' \in [Tables -> Seq(Row)] /\ log'[t] = Append(log[t], r)
      /\ \A s \in Tables : s # t => log'[s] = log[s]
  BY <1>1, <1>2
<1>4. /\ DOMAIN log'[t] = 1..(n + 1)
      /\ log'[t][n + 1] = r /\ \A i \in 1..n : log'[t][i] = log[t][i]
  BY <1>1, <1>3
<1> HIDE DEF n
<1>5. 1..(n + 1) = (1..n) \cup {n + 1} /\ n + 1 \notin 1..n
  BY <1>1
<1>6. deleted[t] \subseteq 1..n /\ Sorted(log[t]) /\ \A i \in 1..n : log[t][i].at <= clock
  BY <1>1 DEF Inv, LogsInOrder
<1>7. Visible(t)' = Visible(t) \cup {n + 1} /\ Visible(t) \subseteq 1..n
  BY <1>1, <1>4, <1>5, <1>6 DEF Visible
<1>8. \A s \in Tables : s # t => Visible(s)' = Visible(s)
  BY <1>3 DEF Visible
<1>9. LogsInOrder'
  <2> SUFFICES ASSUME NEW s \in Tables
               PROVE  /\ deleted[s] \subseteq DOMAIN log'[s]
                      /\ Sorted(log'[s]) /\ \A i \in DOMAIN log'[s] : log'[s][i].at <= clock
    BY DEF LogsInOrder, Sorted
  <2>1. CASE s # t
    BY <1>3, <2>1 DEF Inv, LogsInOrder
  <2>2. CASE s = t
    <3>1. ASSUME NEW i \in 1..(n + 1) PROVE log'[t][i].at <= clock /\ log'[t][i].at \in Nat
      <4>1. CASE i = n + 1
        BY <1>1, <1>4, <4>1
      <4>2. CASE i \in 1..n
        BY <1>1, <1>4, <1>6, <4>2, RowsTyped
      <4> QED  BY <1>5, <4>1, <4>2
    <3>2. ASSUME NEW i \in 1..(n + 1), NEW j \in 1..(n + 1), i < j
          PROVE  log'[t][i].at <= log'[t][j].at
      <4>1. i \in 1..n
        BY <1>1, <3>2
      <4>2. CASE j = n + 1
        BY <1>1, <1>4, <3>1, <4>1, <4>2
      <4>3. CASE j \in 1..n
        BY <1>1, <1>4, <1>6, <3>2, <4>1, <4>3 DEF Sorted
      <4> QED  BY <1>5, <4>2, <4>3
    <3> QED  BY <1>4, <1>5, <1>6, <2>2, <3>1, <3>2 DEF Sorted
  <2> QED  BY <2>1, <2>2
<1>10. StaysAt(reader') /\ reader' \in Reader
       /\ (reader.table = t /\ t # "exec" /\ reader.at = "find" => reader'.shaken # {})
  BY <1>1, GrownIs DEF StaysAt
<1>11. ReaderIsAhead'
  <2> SUFFICES ASSUME NEW s \in Tables, reader'.table = s PROVE Ahead(s)'
    BY DEF ReaderIsAhead
  <2>1. reader.table = s /\ reader.from \subseteq DOMAIN log[s]
    BY <1>10 DEF StaysAt, Inv, ReaderIsAhead, Ahead
  <2>2. CASE s # t
    <3>1. ASSUME NEW i \in reader.from, i \in Visible(s)'
          PROVE  i \in Visible(s) /\ Place(s, i)' = Place(s, i) /\ Place(s, i) \in Nat
      <4>1. Visible(s)' = Visible(s)
        BY <1>8, <2>2
      <4>2. i \in Visible(s)
        BY <3>1, <4>1
      <4>3. Place(s, i)' = Place(s, i)
        BY <4>1 DEF Place
      <4> QED  BY <1>1, <4>2, <4>3, PlaceIs
    <3>2. RowsStay(s, reader')
      BY <3>1 DEF RowsStay
    <3>3. reader.from \subseteq DOMAIN log'[s]
      BY <1>3, <2>1, <2>2
    <3> QED  BY <1>10, <2>1, <3>2, <3>3, AheadKept
  <2>3. CASE s = t
    <3>1. ASSUME NEW i \in reader.from, i \in Visible(t)'
          PROVE  /\ i \in Visible(t) /\ Place(t, i)' \in Nat /\ Place(t, i) <= Place(t, i)'
                 /\ t = "exec" => Place(t, i)' = Place(t, i)
      <4>1. i \in 1..n /\ i \in Visible(t)
        BY <1>1, <1>5, <1>7, <2>1, <2>3, <3>1
      <4> DEFINE S == {j \in Visible(t) : IF t = "exec" THEN j <= i ELSE j >= i}
                 T == {j \in Visible(t)' : IF t = "exec" THEN j <= i ELSE j >= i}
      <4>2. S \subseteq T /\ (t = "exec" => T = S)
        <5>1. ~(n + 1 <= i)
          BY <1>1, <4>1
        <5> QED  BY <1>7, <5>1
      <4>3. IsFiniteSet(T)
        <5>1. T \subseteq 1..(n + 1)
          BY <1>5, <1>7
        <5> HIDE DEF T
        <5>2. IsFiniteSet(1..(n + 1))
          BY <1>1, FS_Interval
        <5> QED  BY <5>1, <5>2, FS_Subset
      <4>4. Place(t, i) = Cardinality(S) /\ Place(t, i)' = Cardinality(T)
        BY DEF Place
      <4> HIDE DEF S, T
      <4>5. Cardinality(S) <= Cardinality(T) /\ Cardinality(T) \in Nat
        BY <4>2, <4>3, PartIsSmaller
      <4> QED  BY <4>1, <4>2, <4>4, <4>5
    <3>2. ASSUME NEW i \in reader.from, i \in Visible(t)', reader'.shaken = {}, reader.at = "find"
          PROVE  Place(t, i)' <= Place(t, i)
      <4>1. t = "exec"
        BY <1>10, <2>1, <2>3, <3>2
      <4> QED  BY <3>1, <3>2, <4>1
    <3>3. RowsStay(t, reader')
      BY <3>1, <3>2 DEF RowsStay
    <3>4. reader.from \subseteq DOMAIN log'[t]
      BY <1>1, <1>4, <1>5, <2>1, <2>3
    <3> QED  BY <1>10, <2>1, <2>3, <3>3, <3>4, AheadKept
  <2> QED  BY <2>2, <2>3
<1>12. \A d \in Days : d < Day(clock) => \A m \in Nat : True(m, d) => True(m, d)'
  <2> SUFFICES ASSUME NEW d \in Days, d < Day(clock), NEW m \in Nat, True(m, d) PROVE True(m, d)'
    OBVIOUS
  <2>1. CASE t # "tasks"
    <3>1. log'["tasks"] = log["tasks"] /\ Visible("tasks")' = Visible("tasks")
      BY <1>3, <1>8, <2>1 DEF Tables
    <3> QED  BY <3>1 DEF True, Created, CreatedOn, Born, Day
  <2>2. CASE t = "tasks"
    <3>1. Day(r.at) # d
      <4>1. d \in Int
        BY DEF Days
      <4> QED  BY <4>1
    <3>2. {i \in DOMAIN log'[t] : Day(log'[t][i].at) = d} = {i \in DOMAIN log[t] : Day(log[t][i].at) = d}
      BY <1>1, <1>4, <1>5, <3>1
    <3>3. {i \in Visible(t)' : Day(log'[t][i].at) = d} = {i \in Visible(t) : Day(log[t][i].at) = d}
      BY <1>4, <1>7, <3>1
    <3>4. Created(d)' = Created(d) /\ Born(d)' = Born(d)
      BY <2>2, <3>2, <3>3 DEF Created, CreatedOn, Born, Day
    <3> QED  BY <3>4 DEF True
  <2> QED  BY <2>1, <2>2
<1>13. ASSUME NEW s \in Tables, NEW i \in Visible(s)'
       PROVE  (i \in Visible(s) /\ log'[s][i] = log[s][i]) \/ log'[s][i] = r
  <2>1. CASE s # t
    BY <1>3, <1>8, <1>13, <2>1
  <2>2. CASE s = t
    <3>1. i = n + 1 \/ i \in Visible(t)
      BY <1>7, <1>13, <2>2
    <3> QED  BY <1>4, <1>7, <2>2, <3>1
  <2> QED  BY <2>1, <2>2
<1> QED  BY <1>3, <1>9, <1>10, <1>11, <1>12, <1>13

LEMMA RemoveKeeps ==
    ASSUME Inv, NEW t \in Tables, NEW gone, gone \subseteq Visible(t), clock' = clock,
           log' = log, deleted' = [deleted EXCEPT ![t] = @ \cup gone], reader' = Shrunk(t, gone),
           t = "audit" => \A i \in gone, j \in Visible(t) \ gone : i < j
    PROVE  /\ deleted' \in [Tables -> SUBSET Nat] /\ reader' \in Reader
           /\ LogsInOrder' /\ ReaderIsAhead'
           /\ \A d \in Days, n \in Nat : True(n, d) => True(n, d)'
           /\ Visible(t)' = Visible(t) \ gone
           /\ \A s \in Tables : s # t => Visible(s)' = Visible(s)
<1>1. /\ TypeOK /\ deleted \in [Tables -> SUBSET Nat] /\ clock \in Nat
      /\ Visible(t) \subseteq Nat /\ Visible(t) \subseteq DOMAIN log[t] /\ IsFiniteSet(Visible(t))
  BY VisibleIs DEF Inv, TypeOK
<1>2. deleted[t] \cup gone \in SUBSET Nat
  BY <1>1
<1>3. /\ deleted' \in [Tables -> SUBSET Nat] /\ deleted'[t] = deleted[t] \cup gone
      /\ \A s \in Tables : s # t => deleted'[s] = deleted[s]
  BY <1>1, <1>2
<1>4. Visible(t)' = Visible(t) \ gone
  BY <1>3 DEF Visible
<1>5. \A s \in Tables : s # t => Visible(s)' = Visible(s)
  BY <1>3 DEF Visible
<1>6. LogsInOrder'
  <2> SUFFICES ASSUME NEW s \in Tables
               PROVE  /\ deleted'[s] \subseteq DOMAIN log[s]
                      /\ Sorted(log[s]) /\ \A i \in DOMAIN log[s] : log[s][i].at <= clock
    BY DEF LogsInOrder, Sorted
  <2>1. /\ deleted[s] \subseteq DOMAIN log[s]
        /\ Sorted(log[s]) /\ \A i \in DOMAIN log[s] : log[s][i].at <= clock
    BY DEF Inv, LogsInOrder
  <2>2. deleted'[s] \subseteq DOMAIN log[s]
    <3>1. CASE s = t
      BY <1>1, <1>3, <2>1, <3>1
    <3>2. CASE s # t
      BY <1>3, <2>1, <3>2
    <3> QED  BY <3>1, <3>2
  <2> QED  BY <2>1, <2>2
<1>7. StaysAt(reader') /\ reader' \in Reader
      /\ (reader.table = t /\ t # "audit" /\ gone # {} => "shrunk" \in reader'.shaken)
  BY <1>1, ShrunkIs DEF StaysAt
<1>8. ReaderIsAhead'
  <2> SUFFICES ASSUME NEW s \in Tables, reader'.table = s PROVE Ahead(s)'
    BY DEF ReaderIsAhead
  <2>1. reader.table = s /\ reader.from \subseteq DOMAIN log'[s]
    BY <1>7 DEF StaysAt, Inv, ReaderIsAhead, Ahead
  <2>2. ASSUME NEW i \in reader.from, i \in Visible(s)'
        PROVE  /\ i \in Visible(s) /\ Place(s, i)' \in Nat
               /\ Whole(reader') => Place(s, i)' = Place(s, i)
    <3>1. Visible(s)' \subseteq Visible(s)
      BY <1>4, <1>5
    <3> DEFINE S == {j \in Visible(s) : IF s = "exec" THEN j <= i ELSE j >= i}
               T == {j \in Visible(s)' : IF s = "exec" THEN j <= i ELSE j >= i}
    <3>2. Place(s, i) = Cardinality(S) /\ Place(s, i)' = Cardinality(T)
      BY DEF Place
    <3>3. IsFiniteSet(Visible(s)) /\ T \subseteq Visible(s) /\ i \in Visible(s) /\ Visible(s) \subseteq Nat
      BY <1>1, <2>2, <3>1, VisibleIs
    <3>4. ASSUME Whole(reader') PROVE S = T
      <4>1. CASE s # t
        BY <1>5, <4>1
      <4>2. CASE s = t /\ gone = {}
        BY <1>4, <4>2
      <4>3. CASE s = t /\ gone # {}
        <5>1. t = "audit"
          BY <1>7, <2>1, <3>4, <4>3 DEF Whole
        <5>2. i \in Visible(t) \ gone
          BY <1>4, <2>2, <4>3
        <5>3. \A j \in gone : j < i /\ j \in Nat /\ i \in Nat
          BY <1>1, <5>1, <5>2
        <5>4. \A j \in gone : ~(j >= i)
          BY <5>3
        <5> QED  BY <1>4, <4>3, <5>1, <5>4
      <4> QED  BY <4>1, <4>2, <4>3
    <3> HIDE DEF S, T
    <3>5. Cardinality(T) \in Nat
      BY <3>3, PartIsSmaller
    <3> QED  BY <3>2, <3>3, <3>4, <3>5
  <2>3. reader'.shaken = {} => Whole(reader')
    BY DEF Whole
  <2>4. \A n \in Nat : n <= n
    OBVIOUS
  <2>5. RowsStay(s, reader')
    BY <2>2, <2>3, <2>4 DEF RowsStay
  <2> QED  BY <1>7, <2>1, <2>5, AheadKept
<1>9. ASSUME NEW d \in Days, NEW n \in Nat, True(n, d) PROVE True(n, d)'
  <2> DEFINE S == CreatedOn(d)
             T == {i \in Visible("tasks")' : Day(log["tasks"][i].at) = d}
  <2>1. Visible("tasks")' \subseteq Visible("tasks") /\ IsFiniteSet(Visible("tasks"))
    BY <1>1, <1>4, <1>5, VisibleIs DEF Tables
  <2>2. T \subseteq S /\ S \subseteq Visible("tasks")
    BY <2>1 DEF CreatedOn
  <2>3. Created(d) = Cardinality(S) /\ Created(d)' = Cardinality(T) /\ Born(d)' = Born(d)
    BY DEF Created, CreatedOn, Born, Day
  <2> HIDE DEF S, T
  <2>4. IsFiniteSet(S) /\ Cardinality(S) \in Nat
    BY <2>1, <2>2, PartIsSmaller
  <2>5. Cardinality(T) \in Nat /\ Cardinality(T) <= Cardinality(S)
    BY <2>2, <2>4, PartIsSmaller
  <2>6. Created(d)' <= n
    BY <1>9, <2>3, <2>4, <2>5 DEF True
  <2> QED  BY <1>9, <2>3, <2>6 DEF True
<1> QED  BY <1>3, <1>4, <1>5, <1>6, <1>7, <1>8, <1>9

-----------------------------------------------------------------------------
(***************************************************************************)
(* The steps.                                                              *)
(***************************************************************************)
LEMMA NoJobIs == NoJob \in Job /\ NoJob.at = "idle"
  BY DEF NoJob, Job

LEMMA NoReaderIs == NoReader \in Reader /\ NoReader.table = "none" /\ "none" \notin Tables
  BY DEF NoReader, Reader, Tables, Logs

LEMMA InitHolds == Init => Inv
<1> SUFFICES ASSUME Init PROVE Inv
  OBVIOUS
<1>1. TypeOK
  <2>1. clock \in Nat
    BY AuditAssumption DEF Init
  <2>2. log \in [Tables -> Seq(Row)] /\ ops \in Seq(Op)
    BY DEF Init
  <2>3. /\ deleted \in [Tables -> SUBSET Nat] /\ ended \subseteq Nat
        /\ stats \in [Days -> Counts \cup {NoStats}]
    BY DEF Init
  <2>4. job \in [Jobs -> Job]
    BY NoJobIs DEF Init
  <2>5. reader \in Reader
    BY NoReaderIs DEF Init
  <2> QED  BY <2>1, <2>2, <2>3, <2>4, <2>5 DEF Init, TypeOK
<1>2. LogsInOrder
  BY DEF Init, LogsInOrder, Sorted
<1>3. StatsAreTrue
  BY DEF Init, StatsAreTrue
<1>4. JobsAreTrue
  BY NoJobIs DEF Init, JobsAreTrue, JobIsTrue
<1>5. ReaderIsAhead
  BY NoReaderIs DEF Init, ReaderIsAhead
<1> QED  BY <1>1, <1>2, <1>3, <1>4, <1>5 DEF Inv

LEMMA CreateTaskHolds ==
    ASSUME Inv, CreateTask
    PROVE  Inv'
<1> DEFINE o == [tx |-> "committed", task |-> 0, todo |-> {"audit"}]
           r == [op |-> Len(ops) + 1, at |-> clock]
<1>1. /\ ops' = Append(ops, o) /\ log' = [log EXCEPT !["tasks"] = Append(@, r)] /\ reader' = Grown("tasks")
      /\ UNCHANGED <<clock, phase, ticked, deleted, ended, stats, job, fills, cache,
                     requests, faults, missed, early>>
  BY DEF CreateTask
<1>2. o \in Op /\ ops \in Seq(Op)
  BY DEF Op, Inv, TypeOK
<1>3. ops' \in Seq(Op)
  <2> HIDE DEF o
  <2> QED  BY <1>1, <1>2
<1>4. r \in Row /\ r.at = clock
  BY <1>2 DEF Row, Inv, TypeOK
<1> HIDE DEF r, o
<1>5. /\ log' \in [Tables -> Seq(Row)] /\ LogsInOrder' /\ ReaderIsAhead' /\ reader' \in Reader
      /\ \A d \in Days : d < Day(clock) => \A n \in Nat : True(n, d) => True(n, d)'
  <2>1. "tasks" \in Tables
    BY DEF Tables
  <2> QED  BY <1>1, <1>4, <2>1, AppendKeeps
<1>6. CountsStay
  BY <1>1, <1>5 DEF CountsStay, Inv, TypeOK
<1>7. StatsAreTrue' /\ JobsAreTrue'
  BY <1>1, <1>6, StatsKept, JobsKept DEF JobStep
<1>8. TypeOK'
  BY <1>1, <1>3, <1>5 DEF Inv, TypeOK
<1> QED  BY <1>5, <1>7, <1>8 DEF Inv

\* Steps of transactions: the tables of the model's observers are left alone.
LEMMA TransactionHolds ==
    ASSUME Inv, UNCHANGED <<clock, phase, ticked, log, deleted, stats, job, lists, requests, missed, early>>,
           ops' \in Seq(Op), ended' \subseteq Nat, faults' \in Nat
    PROVE  Inv'
<1>1. LogsInOrder' /\ StatsAreTrue' /\ JobsAreTrue' /\ ReaderIsAhead'
  BY TablesKept DEF JobStep, lists
<1>2. TypeOK'
  BY DEF Inv, TypeOK, lists
<1> QED  BY <1>1, <1>2 DEF Inv

LEMMA FinishTaskHolds ==
    ASSUME Inv, NEW i \in Visible("tasks"), FinishTask(i)
    PROVE  Inv'
<1> DEFINE o == [tx |-> "open", task |-> i, todo |-> {"audit"}]
<1>1. i \in Nat
  BY VisibleIs DEF Inv, Tables
<1>2. ops' = Append(ops, o) /\ o \in Op /\ ops \in Seq(Op)
  BY <1>1 DEF FinishTask, Op, Inv, TypeOK
<1> HIDE DEF o
<1>3. ops' \in Seq(Op)
  BY <1>2
<1>4. ended' \subseteq Nat /\ faults' \in Nat
  BY DEF FinishTask, Inv, TypeOK
<1> QED  BY <1>3, <1>4, TransactionHolds DEF FinishTask

LEMMA CommitHolds ==
    ASSUME Inv, NEW i \in DOMAIN ops, Commit(i)
    PROVE  Inv'
<1> DEFINE o == [ops[i] EXCEPT !.tx = "committed", !.task = 0]
<1>1. ops \in Seq(Op) /\ ops[i] \in Op /\ ended \subseteq Nat
  BY DEF Inv, TypeOK
<1>2. ops' = [ops EXCEPT ![i] = o]
  BY <1>1 DEF Commit, Op
<1>3. o \in Op /\ ops[i].task \in Nat
  BY <1>1 DEF Op
<1> HIDE DEF o
<1>4. ops' \in Seq(Op)
  BY <1>1, <1>2, <1>3
<1>5. ended' \subseteq Nat
  BY <1>1, <1>3 DEF Commit
<1>6. faults' \in Nat
  BY DEF Commit, Inv, TypeOK
<1> QED  BY <1>4, <1>5, <1>6, TransactionHolds DEF Commit

LEMMA RollbackHolds ==
    ASSUME Inv, NEW i \in DOMAIN ops, Rollback(i)
    PROVE  Inv'
<1> DEFINE o == [ops[i] EXCEPT !.tx = "rolled back", !.task = 0]
<1>1. ops \in Seq(Op) /\ ops[i] \in Op
  BY DEF Inv, TypeOK
<1>2. ops' = [ops EXCEPT ![i] = o]
  BY <1>1 DEF Rollback, Op
<1>3. o \in Op
  BY <1>1 DEF Op
<1> HIDE DEF o
<1>4. ops' \in Seq(Op)
  BY <1>1, <1>2, <1>3
<1>5. ended' = ended /\ faults' = faults + 1
  BY DEF Rollback, Fault
<1>6. ended' \subseteq Nat /\ faults' \in Nat
  BY <1>5 DEF Inv, TypeOK
<1> QED  BY <1>4, <1>6, TransactionHolds DEF Rollback

LEMMA LogRowHolds ==
    ASSUME Inv, NEW i \in DOMAIN ops, NEW t \in Logs, LogRow(i, t)
    PROVE  Inv'
<1> DEFINE o == [ops[i] EXCEPT !.todo = IF t = "audit" THEN {"exec"} ELSE {}]
           r == [op |-> i, at |-> clock]
<1>1. ops \in Seq(Op) /\ ops[i] \in Op /\ i \in Nat /\ t \in Tables
  <2>1. ops \in Seq(Op) /\ DOMAIN ops = 1..Len(ops)
    BY DEF Inv, TypeOK
  <2> QED  BY <2>1 DEF Tables
<1>2. /\ UNCHANGED <<clock, phase, ticked, deleted, ended, stats, job, fills, cache, requests, missed, early>>
      /\ ops' = [ops EXCEPT ![i] = o]
  BY DEF LogRow
<1>3. o \in Op
  BY <1>1 DEF Op
<1> HIDE DEF o
<1>4. ops' \in Seq(Op)
  BY <1>1, <1>2, <1>3
<1>5. CASE log' = [log EXCEPT ![t] = Append(@, r)] /\ reader' = Grown(t) /\ faults' = faults
  <2>1. r \in Row /\ r.at = clock
    BY <1>1 DEF Row, Inv, TypeOK
  <2> HIDE DEF r
  <2>2. /\ log' \in [Tables -> Seq(Row)] /\ LogsInOrder' /\ ReaderIsAhead' /\ reader' \in Reader
        /\ \A d \in Days : d < Day(clock) => \A n \in Nat : True(n, d) => True(n, d)'
    BY <1>1, <1>2, <1>5, <2>1, AppendKeeps
  <2>3. CountsStay
    BY <1>2, <2>2 DEF CountsStay, Inv, TypeOK
  <2>4. StatsAreTrue' /\ JobsAreTrue'
    BY <1>2, <2>3, StatsKept, JobsKept DEF JobStep
  <2>5. TypeOK'
    BY <1>2, <1>4, <1>5, <2>2 DEF Inv, TypeOK
  <2> QED  BY <2>2, <2>4, <2>5 DEF Inv
<1>6. CASE Fault /\ log' = log /\ reader' = reader
  <2>1. LogsInOrder' /\ StatsAreTrue' /\ JobsAreTrue' /\ ReaderIsAhead'
    BY <1>2, <1>6, TablesKept DEF JobStep
  <2>2. faults' \in Nat
    BY <1>6 DEF Fault, Inv, TypeOK
  <2>3. TypeOK'
    BY <1>2, <1>4, <1>6, <2>2 DEF Inv, TypeOK
  <2> QED  BY <2>1, <2>3 DEF Inv
<1> QED  BY <1>5, <1>6 DEF LogRow

LEMMA NewCount ==
    ASSUME NEW d \in Int, NEW x, x = [NoJob EXCEPT !.at = "count", !.date = d]
    PROVE  x \in Job /\ x.at = "count" /\ x.date = d
<1>1. x = [at |-> "count", date |-> d, counts |-> NoStats, cutoff |-> 0]
  BY DEF NoJob
<1> QED  BY <1>1 DEF Job

LEMMA NewCleanup ==
    ASSUME NEW n \in Int, NEW x, x = [NoJob EXCEPT !.at = "audit", !.cutoff = n]
    PROVE  x \in Job /\ x.at = "audit" /\ x.cutoff = n
<1>1. x = [at |-> "audit", date |-> 0, counts |-> NoStats, cutoff |-> n]
  BY DEF NoJob
<1> QED  BY <1>1 DEF Job, Logs

\* A job begins.
LEMMA BeginHolds ==
    ASSUME Inv, Tick \/ UpdateDailyStatistics \/ \E days \in 0..2 : CleanupOldLogs(days)
    PROVE  Inv'
<1>1. UNCHANGED <<clock, phase, ops, log, deleted, ended, stats, lists, faults, early>>
  BY DEF Tick, UpdateDailyStatistics, CleanupOldLogs
<1>2. job \in [Jobs -> Job] /\ clock \in Nat /\ HoursPerDay \in Nat /\ missed \subseteq Nat
  BY AuditAssumption DEF Inv, TypeOK
<1>3. Day(clock) \in Nat /\ TruncatedDay \in Int /\ TruncatedDay <= Day(clock)
  BY <1>2, DayIsNat, TruncatedDayIs
<1>4. ticked' \in BOOLEAN /\ requests' \in Nat /\ missed' \subseteq Nat
  <2>1. CASE Tick
    <3>1. missed' = missed \cup {Day(clock)} \/ missed' = missed
      BY <2>1 DEF Tick
    <3>2. missed' \subseteq Nat
      BY <1>2, <1>3, <3>1
    <3> QED  BY <2>1, <3>2 DEF Tick, Inv, TypeOK
  <2>2. CASE UpdateDailyStatistics
    BY <2>2 DEF UpdateDailyStatistics, Request, Inv, TypeOK
  <2>3. CASE \E days \in 0..2 : CleanupOldLogs(days)
    BY <2>3 DEF CleanupOldLogs, Request, Inv, TypeOK
  <2> QED  BY <2>1, <2>2, <2>3
<1>5. job' \in [Jobs -> Job] /\ \A j \in Jobs : JobStep(job[j], job'[j])
  <2>1. CASE Tick
    <3>1. CASE IsNight /\ Yesterday \in Days
      <4> DEFINE x == [NoJob EXCEPT !.at = "count", !.date = Yesterday]
      <4>1. job' = [job EXCEPT !["nightly"] = x]
        BY <2>1, <3>1 DEF Tick
      <4>2. Yesterday \in Int /\ Yesterday <= Day(clock)
        BY <1>3 DEF Yesterday
      <4>3. x \in Job /\ x.at = "count" /\ x.date = Yesterday
        BY <4>2, NewCount
      <4> HIDE DEF x
      <4>4. /\ job' \in [Jobs -> Job]
            /\ \A j \in Jobs : job'[j] = job[j] \/ job'[j] = x
        BY <1>2, <4>1, <4>3
      <4> QED  BY <1>1, <3>1, <4>2, <4>3, <4>4 DEF JobStep
    <3>2. CASE ~(IsNight /\ Yesterday \in Days)
      BY <1>2, <2>1, <3>2 DEF Tick, JobStep
    <3> QED  BY <3>1, <3>2
  <2>2. CASE UpdateDailyStatistics
    <3> DEFINE x == [NoJob EXCEPT !.at = "count", !.date = TruncatedDay]
    <3>1. job' = [job EXCEPT !["update"] = x] /\ TruncatedDay \in Days
      BY <2>2 DEF UpdateDailyStatistics
    <3>2. x \in Job /\ x.at = "count" /\ x.date = TruncatedDay
      BY <1>3, NewCount
    <3> HIDE DEF x
    <3>3. /\ job' \in [Jobs -> Job]
          /\ \A j \in Jobs : job'[j] = job[j] \/ job'[j] = x
      BY <1>2, <3>1, <3>2
    <3> QED  BY <1>1, <1>3, <3>1, <3>2, <3>3 DEF JobStep
  <2>3. CASE \E days \in 0..2 : CleanupOldLogs(days)
    <3>1. PICK days \in 0..2 : CleanupOldLogs(days)
      BY <2>3
    <3> DEFINE x == [NoJob EXCEPT !.at = "audit", !.cutoff = Cutoff(days)]
    <3>2. job' = [job EXCEPT !["cleanup"] = x]
      BY <3>1 DEF CleanupOldLogs
    <3>3. Cutoff(days) \in Int
      BY <1>2 DEF Cutoff
    <3>4. x \in Job /\ x.at = "audit"
      BY <3>3, NewCleanup
    <3> HIDE DEF x
    <3>5. /\ job' \in [Jobs -> Job]
          /\ \A j \in Jobs : job'[j] = job[j] \/ job'[j] = x
      BY <1>2, <3>2, <3>4
    <3> QED  BY <3>4, <3>5 DEF JobStep
  <2> QED  BY <2>1, <2>2, <2>3
<1>6. LogsInOrder' /\ StatsAreTrue' /\ JobsAreTrue' /\ ReaderIsAhead'
  BY <1>1, <1>5, TablesKept DEF lists
<1>7. TypeOK'
  BY <1>1, <1>4, <1>5 DEF Inv, TypeOK, lists
<1> QED  BY <1>6, <1>7 DEF Inv

\* The tasks that a cleanup removes.
LEMMA CleanupOldRecordsHolds ==
    ASSUME Inv, NEW days \in 0..2, CleanupOldRecords(days)
    PROVE  Inv'
<1>1. /\ UNCHANGED <<clock, phase, ticked, ops, log, ended, stats, job, fills, cache, faults, missed, early>>
      /\ Request
  BY DEF CleanupOldRecords
<1>2. PICK gone : /\ gone \subseteq Visible("tasks")
                  /\ deleted' = [deleted EXCEPT !["tasks"] = @ \cup gone]
                  /\ reader' = Shrunk("tasks", gone)
  BY DEF CleanupOldRecords
<1>3. /\ deleted' \in [Tables -> SUBSET Nat] /\ reader' \in Reader
      /\ LogsInOrder' /\ ReaderIsAhead'
      /\ \A d \in Days, n \in Nat : True(n, d) => True(n, d)'
  BY <1>1, <1>2, RemoveKeeps DEF Tables
<1>4. CountsStay
  BY <1>1, <1>3 DEF CountsStay, Inv, TypeOK
<1>5. StatsAreTrue' /\ JobsAreTrue'
  BY <1>1, <1>4, StatsKept, JobsKept DEF JobStep
<1>6. requests' \in Nat
  BY <1>1 DEF Request, Inv, TypeOK
<1>7. TypeOK'
  BY <1>1, <1>3, <1>6 DEF Inv, TypeOK
<1> QED  BY <1>3, <1>5, <1>7 DEF Inv

LEMMA CountHolds ==
    ASSUME Inv, NEW j \in Jobs, Count(j)
    PROVE  Inv'
<1> DEFINE d == job[j].date
           counted == [total |-> Created(d), done |-> Cardinality(CreatedOn(d) \cap ended)]
           x == [job[j] EXCEPT !.at = "store", !.counts = counted]
<1>1. /\ UNCHANGED <<clock, phase, ticked, ops, log, deleted, ended, stats, lists, requests, faults, missed>>
      /\ job' = [job EXCEPT ![j] = x] /\ job[j].at = "count"
      /\ early' = IF d = Day(clock) THEN early \cup {Day(clock)} ELSE early
  BY DEF Count
<1>2. /\ job \in [Jobs -> Job] /\ job[j] \in Job /\ clock \in Nat /\ early \subseteq Nat /\ TypeOK
  BY DEF Inv, TypeOK
<1>3. d \in Days /\ d <= Day(clock) /\ d \in Nat /\ Day(clock) \in Nat
  <2>1. JobIsTrue(job[j])
    BY DEF Inv, JobsAreTrue
  <2>2. d \in Days /\ d <= Day(clock)
    BY <1>1, <2>1 DEF JobIsTrue
  <2> HIDE DEF d
  <2> QED  BY <1>2, <2>2, DayIsNat, AuditAssumption DEF Days
<1>4. counted \in Counts /\ True(counted.total, d)
  <2> HIDE DEF d
  <2>1. Created(d) \in Nat /\ True(Created(d), d)
    BY <1>2, CreatedIs
  <2>2. Cardinality(CreatedOn(d) \cap ended) \in Nat
    <3>1. CreatedOn(d) \cap ended \subseteq Visible("tasks") /\ IsFiniteSet(Visible("tasks"))
      BY <1>2, VisibleIs DEF CreatedOn, Tables
    <3> QED  BY <3>1, PartIsSmaller
  <2> QED  BY <2>1, <2>2 DEF Counts
<1>5. x \in Job /\ x.at = "store" /\ x.date = d /\ x.counts = counted
  <2> HIDE DEF counted
  <2> QED  BY <1>2, <1>4 DEF Job
<1> HIDE DEF x
<1>6. /\ job' \in [Jobs -> Job] /\ job'[j] = x /\ \A k \in Jobs : k # j => job'[k] = job[k]
  BY <1>1, <1>2, <1>5
<1>7. early' \subseteq Nat /\ early \subseteq early' /\ (d = Day(clock) => d \in early')
  BY <1>1, <1>2, <1>3
<1>8. CountsStay
  BY <1>1, <1>2, <1>7, TablesSame DEF CountsStay
<1>9. StatsAreTrue'
  BY <1>1, <1>8, StatsKept
<1>10. LogsInOrder' /\ ReaderIsAhead'
  <2>1. clock <= clock' /\ StaysAt(reader')
    BY <1>1, <1>2, StandsStill DEF lists
  <2> QED  BY <1>1, <1>2, <2>1, LogsKept, ReaderKept
<1>11. JobsAreTrue'
  <2> SUFFICES ASSUME NEW k \in Jobs PROVE JobIsTrue(job[k])'
    BY DEF JobsAreTrue
  <2>1. CASE k # j
    BY <1>6, <1>8, <2>1, JobKept DEF JobStep
  <2>2. CASE k = j
    <3>1. Day(clock)' = Day(clock)
      BY <1>1 DEF Day
    <3>2. d \notin early' => d < Day(clock)
      <4> HIDE DEF d
      <4> QED  BY <1>3, <1>7
    <3>3. /\ x.date \in Days /\ x.date <= Day(clock) /\ x.counts \in Counts
          /\ x.date \notin early' => x.date < Day(clock)
          /\ True(x.counts.total, x.date)
      <4> HIDE DEF d, counted
      <4> QED  BY <1>3, <1>4, <1>5, <3>2
    <3>4. PICK e \in Days, n \in Nat : e = x.date /\ n = x.counts.total
      BY <3>3 DEF Counts
    <3>5. True(n, e)'
      BY <1>1, <3>3, <3>4, TablesSame
    <3> QED  BY <1>6, <2>2, <3>1, <3>3, <3>4, <3>5 DEF JobIsTrue, True, Created, CreatedOn, Visible, Born
  <2> QED  BY <2>1, <2>2
<1>12. TypeOK'
  BY <1>1, <1>6, <1>7 DEF Inv, TypeOK, lists
<1> QED  BY <1>9, <1>10, <1>11, <1>12 DEF Inv

LEMMA AfterCountIs ==
    ASSUME TypeOK, NEW j \in Jobs
    PROVE  AfterCount(j) \in Job /\ AfterCount(j).at \notin {"count", "store"}
<1>1. Cutoff(RetentionDays) \in Int
  BY AuditAssumption DEF Cutoff, TypeOK
<1>2. CASE j = "nightly"
  <2>1. AfterCount(j) = [NoJob EXCEPT !.at = "audit", !.cutoff = Cutoff(RetentionDays)]
    BY <1>2 DEF AfterCount
  <2>2. AfterCount(j) \in Job /\ AfterCount(j).at = "audit"
    BY <1>1, <2>1, NewCleanup
  <2> QED  BY <2>2
<1>3. CASE j # "nightly"
  BY <1>3, NoJobIs DEF AfterCount
<1> QED  BY <1>2, <1>3

LEMMA StoreCountsHolds ==
    ASSUME Inv, NEW j \in Jobs, StoreCounts(j)
    PROVE  Inv'
<1> DEFINE x == job[j]
           d == x.date
<1>1. /\ UNCHANGED <<clock, phase, ticked, ops, log, deleted, ended, lists, requests, early>>
      /\ job' = [job EXCEPT ![j] = AfterCount(j)] /\ x.at = "store"
  BY DEF StoreCounts
<1>2. /\ job \in [Jobs -> Job] /\ clock \in Nat /\ stats \in [Days -> Counts \cup {NoStats}]
      /\ TypeOK
  BY DEF Inv, TypeOK
<1>3. /\ job' \in [Jobs -> Job]
      /\ \A k \in Jobs : JobStep(job[k], job'[k])
  <2>1. AfterCount(j) \in Job /\ AfterCount(j).at \notin {"count", "store"}
    BY <1>2, AfterCountIs
  <2>2. /\ job' \in [Jobs -> Job]
        /\ \A k \in Jobs : job'[k] = job[k] \/ job'[k] = AfterCount(j)
    BY <1>1, <1>2, <2>1
  <2> QED  BY <2>1, <2>2 DEF JobStep
<1>4. CountsStay /\ clock <= clock' /\ StaysAt(reader')
  BY <1>1, <1>2, TablesSame, StandsStill DEF CountsStay, lists
<1>5. LogsInOrder' /\ ReaderIsAhead' /\ JobsAreTrue'
  BY <1>1, <1>2, <1>3, <1>4, LogsKept, ReaderKept, JobsKept
<1>6. CASE stats' \in {[stats EXCEPT ![d] = s] : s \in FirstOrCreate(stats[d], x.counts)}
           /\ faults' = faults /\ missed' = missed
  <2>1. PICK s \in FirstOrCreate(stats[d], x.counts) : stats' = [stats EXCEPT ![d] = s]
    BY <1>6
  <2>2. /\ d \in Days /\ x.counts \in Counts
        /\ d \notin early => d < Day(clock) /\ True(x.counts.total, d)
    BY <1>1 DEF Inv, JobsAreTrue, JobIsTrue
  <2>3. s = x.counts \/ s = stats[d]
    BY <2>1 DEF FirstOrCreate
  <2> HIDE DEF x, d
  <2>4. stats' \in [Days -> Counts \cup {NoStats}]
    BY <1>2, <2>1, <2>2, <2>3
  <2>5. ASSUME NEW e \in Days, stats'[e] # NoStats, e \notin early
        PROVE  e < Day(clock) /\ True(stats'[e].total, e)
    <3>1. stats[e] # NoStats => e < Day(clock) /\ True(stats[e].total, e)
      BY <2>5 DEF Inv, StatsAreTrue
    <3>2. stats'[e] = stats[e] \/ (e = d /\ stats'[e] = x.counts)
      BY <1>2, <2>1, <2>2, <2>3
    <3> QED  BY <2>2, <2>5, <3>1, <3>2
  <2>6. StatsAreTrue'
    <3>1. Day(clock)' = Day(clock) /\ \A e \in Days, n \in Nat : True(n, e) => True(n, e)'
      BY <1>1, TablesSame DEF Day
    <3> SUFFICES ASSUME NEW e \in Days, stats'[e] # NoStats, e \notin early
                 PROVE  e < Day(clock) /\ True(stats[e].total, e)'
      BY <1>1, <3>1 DEF StatsAreTrue, True
    <3>2. e < Day(clock) /\ True(stats'[e].total, e)
      BY <2>5
    <3>3. stats'[e].total \in Nat
      BY <2>4 DEF Counts
    <3>4. PICK n \in Nat : n = stats'[e].total
      BY <3>3
    <3>5. True(n, e)'
      BY <3>1, <3>2, <3>4
    <3> QED  BY <3>2, <3>4, <3>5 DEF True
  <2>7. TypeOK'
    BY <1>1, <1>3, <1>6, <2>4 DEF Inv, TypeOK, lists
  <2> QED  BY <1>5, <2>6, <2>7 DEF Inv
<1>7. CASE Fault /\ missed' = missed \cup MissedBy(j) /\ stats' = stats
  <2>1. StatsAreTrue'
    BY <1>4, <1>7, StatsKept
  <2>2. missed' \subseteq Nat /\ faults' \in Nat
    <3>1. MissedBy(j) \subseteq Nat
      <4>1. Day(clock) \in Nat
        BY <1>2, DayIsNat
      <4> QED  BY <4>1 DEF MissedBy
    <3>2. missed \subseteq Nat /\ faults \in Nat
      BY <1>2 DEF TypeOK
    <3>3. missed' = missed \cup MissedBy(j) /\ faults' = faults + 1
      BY <1>7 DEF Fault
    <3> HIDE DEF x, d
    <3>4. missed' \subseteq Nat
      BY <3>1, <3>2, <3>3
    <3>5. faults' \in Nat
      BY <3>2, <3>3
    <3> QED  BY <3>4, <3>5
  <2>3. TypeOK'
    BY <1>1, <1>3, <1>7, <2>2 DEF Inv, TypeOK, lists
  <2> QED  BY <1>5, <2>1, <2>3 DEF Inv
<1> QED  BY <1>6, <1>7 DEF StoreCounts

\* The rows that have expired are the first ones.
LEMMA ExpiredFirst ==
    ASSUME Inv, NEW t \in Tables, NEW cutoff \in Int,
           NEW i \in Visible(t), Expired(log[t][i], cutoff),
           NEW j \in Visible(t), ~Expired(log[t][j], cutoff)
    PROVE  i < j
<1>1. i \in DOMAIN log[t] /\ j \in DOMAIN log[t] /\ i \in Nat /\ j \in Nat
  BY VisibleIs DEF Inv
<1>2. log[t][i].at \in Nat /\ log[t][j].at \in Nat
  BY <1>1, RowsTyped DEF Inv
<1>3. Sorted(log[t])
  BY DEF Inv, LogsInOrder
<1>4. log[t][i].at < log[t][j].at
  BY <1>2 DEF Expired
<1> SUFFICES ASSUME ~(i < j) PROVE FALSE
  OBVIOUS
<1>5. CASE i = j
  BY <1>5
<1>6. CASE j < i
  <2>1. log[t][j].at <= log[t][i].at
    BY <1>1, <1>3, <1>6 DEF Sorted
  <2> QED  BY <1>2, <1>4, <2>1
<1> QED  BY <1>1, <1>5, <1>6

\* What a DELETE leaves.
LEMMA DeletedAre ==
    ASSUME Inv, NEW t \in Logs, NEW cutoff \in Int, NEW gone,
           gone = {i \in Visible(t) : Expired(log[t][i], cutoff)}
    PROVE  /\ gone \subseteq Visible(t) /\ t \in Tables /\ t # "tasks"
           /\ \A i \in gone, j \in Visible(t) \ gone : i < j
<1>1. t \in Tables /\ t # "tasks"
  BY DEF Tables, Logs
<1>2. ASSUME NEW i \in gone, NEW j \in Visible(t) \ gone PROVE i < j
  <2>1. i \in Visible(t) /\ Expired(log[t][i], cutoff) /\ j \in Visible(t) /\ ~Expired(log[t][j], cutoff)
    OBVIOUS
  <2> QED  BY <1>1, <2>1, ExpiredFirst
<1> QED  BY <1>1, <1>2

LEMMA DeleteHolds ==
    ASSUME Inv, NEW j \in Jobs, Delete(j)
    PROVE  Inv'
<1>1. /\ job \in [Jobs -> Job] /\ job[j] \in Job /\ clock \in Nat
      /\ missed \subseteq Nat /\ faults \in Nat
  BY DEF Inv, TypeOK
<1>2. job[j].at \in Logs /\ UNCHANGED <<clock, phase, ticked, ops, log, ended, stats, fills, cache, requests, early>>
  BY DEF Delete
<1>3. job[j].cutoff \in Int
  BY <1>1 DEF Job
<1> PICK t \in Logs, cutoff \in Int : t = job[j].at /\ cutoff = job[j].cutoff
  BY <1>2, <1>3
<1> PICK gone : gone = {i \in Visible(t) : Expired(log[t][i], cutoff)}
  OBVIOUS
<1>4. CASE /\ deleted' = [deleted EXCEPT ![t] = @ \cup gone]
           /\ reader' = Shrunk(t, gone)
           /\ job' = [job EXCEPT ![j] = IF t = "audit" THEN [@ EXCEPT !.at = "exec"] ELSE NoJob]
           /\ UNCHANGED <<faults, missed>>
  <2> DEFINE x == IF t = "audit" THEN [job[j] EXCEPT !.at = "exec"] ELSE NoJob
  <2>1. x \in Job /\ x.at \notin {"count", "store"}
    <3>1. [job[j] EXCEPT !.at = "exec"] \in Job /\ [job[j] EXCEPT !.at = "exec"].at = "exec"
      BY <1>1 DEF Job, Logs
    <3> QED  BY <3>1, NoJobIs
  <2>2. job' = [job EXCEPT ![j] = x]
    BY <1>4
  <2> HIDE DEF x
  <2>3. job' \in [Jobs -> Job] /\ \A k \in Jobs : JobStep(job[k], job'[k])
    <3>1. job' \in [Jobs -> Job] /\ \A k \in Jobs : job'[k] = job[k] \/ job'[k] = x
      BY <1>1, <2>1, <2>2
    <3> QED  BY <2>1, <3>1 DEF JobStep
  <2>4. /\ gone \subseteq Visible(t) /\ t \in Tables
        /\ \A i \in gone, k \in Visible(t) \ gone : i < k
    BY DeletedAre
  <2>5. /\ deleted' \in [Tables -> SUBSET Nat] /\ reader' \in Reader
        /\ LogsInOrder' /\ ReaderIsAhead'
        /\ \A d \in Days, n \in Nat : True(n, d) => True(n, d)'
    BY <1>2, <1>4, <2>4, RemoveKeeps
  <2>6. CountsStay
    BY <1>1, <1>2, <2>5 DEF CountsStay
  <2>7. StatsAreTrue' /\ JobsAreTrue'
    BY <1>2, <2>3, <2>6, StatsKept, JobsKept
  <2>8. TypeOK'
    BY <1>2, <1>4, <2>3, <2>5 DEF Inv, TypeOK
  <2> QED  BY <2>5, <2>7, <2>8 DEF Inv
<1>5. CASE /\ Fault
           /\ missed' = missed \cup MissedBy(j)
           /\ job' = [job EXCEPT ![j] = NoJob]
           /\ UNCHANGED <<deleted, reader>>
  <2>1. job' \in [Jobs -> Job] /\ \A k \in Jobs : JobStep(job[k], job'[k])
    <3>1. job' \in [Jobs -> Job] /\ \A k \in Jobs : job'[k] = job[k] \/ job'[k] = NoJob
      BY <1>1, <1>5, NoJobIs
    <3> QED  BY <3>1, NoJobIs DEF JobStep
  <2>2. LogsInOrder' /\ StatsAreTrue' /\ JobsAreTrue' /\ ReaderIsAhead'
    BY <1>2, <1>5, <2>1, TablesKept
  <2>3. MissedBy(j) \subseteq Nat
    BY <1>1, DayIsNat DEF MissedBy
  <2>4. missed' \subseteq Nat
    BY <1>1, <1>5, <2>3
  <2>5. faults' \in Nat
    BY <1>1, <1>5 DEF Fault
  <2>6. TypeOK'
    BY <1>2, <1>5, <2>1, <2>4, <2>5 DEF Inv, TypeOK
  <2> QED  BY <2>2, <2>6 DEF Inv
<1> QED  BY <1>4, <1>5 DEF Delete

-----------------------------------------------------------------------------
(***************************************************************************)
(* Steps of the reader.                                                    *)
(***************************************************************************)
LEMMA ReadingKept ==
    ASSUME Inv, UNCHANGED <<clock, log, deleted, stats, job, early>>
    PROVE  LogsInOrder' /\ StatsAreTrue' /\ JobsAreTrue'
<1>1. clock \in Nat /\ clock <= clock'
  BY DEF Inv, TypeOK
<1>2. CountsStay
  BY <1>1, TablesSame DEF CountsStay
<1> QED  BY <1>1, <1>2, LogsKept, StatsKept, JobsKept DEF JobStep

LEMMA TurnedIs ==
    ASSUME TypeOK, NEW rows \in SUBSET Nat, NEW total \in Nat
    PROVE  LET x == Turned(rows, total) IN
           /\ x \in Reader /\ x.table = reader.table /\ x.size = reader.size /\ x.at = "ask"
           /\ x.from = reader.from /\ x.shaken = reader.shaken /\ x.seen = reader.seen \cup rows
           /\ x.page = IF reader.page * reader.size < total THEN reader.page + 1 ELSE 0
<1> DEFINE next == IF reader.page * reader.size < total THEN reader.page + 1 ELSE 0
           seen == reader.seen \cup rows
           x == [reader EXCEPT !.at = "ask", !.seen = seen, !.page = next]
<1>1. reader \in Reader /\ next \in Nat /\ seen \in SUBSET Nat
  <2>1. reader \in Reader /\ reader.page \in Nat /\ reader.seen \subseteq Nat
    BY ReaderTyped
  <2>2. next = reader.page + 1 \/ next = 0
    OBVIOUS
  <2>3. next \in Nat
    <3> HIDE DEF next
    <3> QED  BY <2>1, <2>2
  <2> QED  BY <2>1, <2>3
<1>2. Turned(rows, total) = x
  BY <1>1 DEF Turned, Reader
<1> HIDE DEF next, seen
<1>3. /\ x \in Reader /\ x.table = reader.table /\ x.size = reader.size /\ x.at = "ask"
      /\ x.from = reader.from /\ x.shaken = reader.shaken /\ x.seen = seen /\ x.page = next
  BY <1>1 DEF Reader
<1> QED  BY <1>2, <1>3 DEF next, seen

LEMMA ShakenIs ==
    ASSUME NEW r \in Reader, NEW w \in SUBSET {"grown", "shrunk", "stale"}
    PROVE  LET x == [r EXCEPT !.shaken = w] IN
           /\ x \in Reader /\ x.table = r.table /\ x.size = r.size /\ x.at = r.at
           /\ x.from = r.from /\ x.shaken = w /\ x.seen = r.seen /\ x.page = r.page
BY DEF Reader

\* A reader that has got page reader.page, and turns.
LEMMA AheadTurned ==
    ASSUME Inv, NEW t \in Tables, reader.table = t, reader.page > 0,
           log' = log, deleted' = deleted, NEW rows \in SUBSET Nat, NEW total \in Nat,
           reader'.table = t, reader'.size = reader.size, reader'.at = "ask",
           reader'.from = reader.from, reader'.seen = reader.seen \cup rows,
           reader'.page = IF reader.page * reader.size < total THEN reader.page + 1 ELSE 0,
           Whole(reader') => Whole(reader) /\ rows = PageOf(t, reader.page, reader.size),
           reader'.shaken = {} => \A i \in reader.from \cap Visible(t) : Place(t, i) <= total
    PROVE  ReaderIsAhead'
<1> DEFINE p == reader.page
           z == reader.size
           q == (p - 1) * z
           b == p * z
<1>1. p \in Nat /\ z \in Nat /\ q \in Int /\ b \in Nat /\ TypeOK
  BY ReaderTyped DEF Inv
<1>2. Ahead(t)
  BY DEF Inv, ReaderIsAhead
<1>3. Visible(t)' = Visible(t)
  BY TablesSame
<1>4. reader'.page > 0 => (reader'.page - 1) * z = b
  BY <1>1
<1>5. reader'.page = 0 => total <= b
  BY <1>1
<1>6. PageOf(t, p, z) = {i \in Visible(t) : Place(t, i) \in (q + 1)..b}
  BY DEF PageOf
<1> HIDE DEF q, b
<1>7. ASSUME NEW i \in reader.from \cap Visible(t), Whole(reader'), Place(t, i) <= b
      PROVE  i \in reader'.seen
  <2>1. Place(t, i) \in Nat
    BY <1>1, PlaceIs
  <2>2. CASE Place(t, i) <= q
    <3>1. i \in reader.seen
      BY <1>2, <1>7, <2>2 DEF Ahead, q
    <3> QED  BY <3>1
  <2>3. CASE ~(Place(t, i) <= q)
    <3>1. Place(t, i) \in (q + 1)..b
      BY <1>1, <1>7, <2>1, <2>3
    <3>2. i \in PageOf(t, p, z)
      BY <1>6, <3>1
    <3> QED  BY <1>7, <3>2
  <2> QED  BY <2>2, <2>3
<1>8. ASSUME NEW i \in reader.from \cap Visible(t)
      PROVE  /\ Whole(reader') /\ reader'.page > 0 /\ Place(t, i) <= (reader'.page - 1) * z
                  => i \in reader'.seen
             /\ reader'.shaken = {} /\ reader'.page = 0 => i \in reader'.seen
  <2>1. ASSUME Whole(reader'), reader'.page > 0, Place(t, i) <= (reader'.page - 1) * z
        PROVE  i \in reader'.seen
    BY <1>4, <1>7, <2>1
  <2>2. ASSUME reader'.shaken = {}, reader'.page = 0 PROVE i \in reader'.seen
    <3>1. Whole(reader')
      BY <2>2 DEF Whole
    <3>2. Place(t, i) <= total /\ Place(t, i) \in Nat /\ total <= b
      BY <1>1, <1>5, <2>2, PlaceIs
    <3>3. Place(t, i) <= b
      BY <1>1, <3>2
    <3> QED  BY <1>7, <3>1, <3>3
  <2> QED  BY <2>1, <2>2
<1>9. \A i \in Visible(t) : Place(t, i)' = Place(t, i)
  BY <1>3 DEF Place
<1>10. reader.size >= 1 /\ reader.from \subseteq DOMAIN log[t]
  BY <1>2 DEF Ahead
<1>11. Ahead(t)'
  BY <1>3, <1>8, <1>9, <1>10 DEF Ahead
<1> QED  BY <1>11 DEF ReaderIsAhead

LEMMA OpenLogHolds ==
    ASSUME Inv, NEW t \in Tables, NEW page \in {0, 1}, NEW size \in Sizes, OpenLog(t, page, size)
    PROVE  Inv'
<1> DEFINE page1 == IF t = "tasks" THEN AskedPage(page) ELSE page
           size1 == IF t = "tasks" THEN AskedSize(size) ELSE size
           x == [NoReader EXCEPT !.table = t, !.from = Visible(t), !.page = page1, !.size = size1]
<1>1. /\ UNCHANGED <<clock, phase, ticked, ops, log, deleted, ended, stats, job, fills, cache,
                     faults, missed, early>>
      /\ reader' = x /\ Request /\ (t # "tasks" => size > 0 /\ page > 0)
  BY DEF OpenLog
<1>2. size \in Nat /\ DefaultSize \in Nat \ {0}
  BY AuditAssumption
<1>3. page1 = 1 /\ size1 \in Nat /\ size1 >= 1
  BY <1>1, <1>2 DEF AskedPage, AskedSize
<1>4. /\ Visible(t) \in SUBSET Nat /\ Visible(t) \subseteq DOMAIN log[t] /\ TypeOK
  BY VisibleIs DEF Inv
<1> HIDE DEF page1, size1
<1>5. /\ NoReader \in Reader /\ NoReader.at = "ask" /\ NoReader.seen = {} /\ NoReader.shaken = {}
      /\ t \in Tables \cup {"none"}
  BY NoReaderIs DEF NoReader
<1>6. /\ x.table = t /\ x.page = page1 /\ x.size = size1 /\ x.at = "ask" /\ x.from = Visible(t)
      /\ x.seen = {} /\ x.shaken = {}
  BY <1>5 DEF Reader
<1>7. x \in Reader
  BY <1>3, <1>4, <1>5 DEF Reader
<1> HIDE DEF x
<1>8. Visible(t)' = Visible(t)
  BY <1>1, TablesSame
<1>9. \A i \in Visible(t) : Place(t, i)' = Place(t, i) /\ Place(t, i) \in Nat /\ Place(t, i) >= 1
  BY <1>4, <1>8, PlaceIs DEF Place
<1>10. (x.page - 1) * x.size = 0
  BY <1>3, <1>6
<1>11. \A i \in Visible(t) : ~(Place(t, i)' <= (x.page - 1) * x.size)
  BY <1>9, <1>10
<1>12. Ahead(t)'
  BY <1>1, <1>3, <1>4, <1>6, <1>8, <1>11 DEF Ahead
<1>13. ReaderIsAhead'
  BY <1>1, <1>6, <1>12 DEF ReaderIsAhead
<1>14. requests' \in Nat
  BY <1>1 DEF Request, Inv, TypeOK
<1>15. TypeOK'
  BY <1>1, <1>7, <1>14 DEF Inv, TypeOK
<1> QED  BY <1>1, <1>13, <1>15, ReadingKept DEF Inv

LEMMA AnswerFromCacheHolds ==
    ASSUME Inv, AnswerFromCache
    PROVE  Inv'
<1>1. /\ UNCHANGED <<clock, phase, ticked, ops, log, deleted, ended, stats, job, fills, cache,
                     requests, faults, missed, early>>
      /\ reader.table # "none" /\ reader.page > 0
  BY DEF AnswerFromCache, Asking
<1> DEFINE fresh(e) == e.rows = PageOf("tasks", e.page, e.size) /\ e.total = Total("tasks")
           y(e) == Turned(e.rows, e.total)
           w(e) == (reader.shaken \ {"grown"}) \cup IF fresh(e) THEN {} ELSE {"stale"}
<1>2. PICK e \in Cached : reader' = [y(e) EXCEPT !.shaken = (@ \ {"grown"}) \cup IF fresh(e) THEN {} ELSE {"stale"}]
  BY DEF AnswerFromCache
<1>3. /\ e.rows \in SUBSET Nat /\ e.total \in Nat /\ TypeOK
      /\ reader.table = "tasks" /\ e.page = reader.page /\ e.size = reader.size
  <2>1. e \in Answer
    BY <1>2 DEF Cached, Inv, TypeOK
  <2> QED  BY <1>2, <2>1 DEF Cached, Answer, Inv
<1>4. /\ y(e) \in Reader /\ y(e).table = reader.table /\ y(e).size = reader.size /\ y(e).at = "ask"
      /\ y(e).from = reader.from /\ y(e).shaken = reader.shaken /\ y(e).seen = reader.seen \cup e.rows
      /\ y(e).page = IF reader.page * reader.size < e.total THEN reader.page + 1 ELSE 0
  BY <1>3, TurnedIs
<1> HIDE DEF y, fresh
<1>5. reader' = [y(e) EXCEPT !.shaken = w(e)]
  BY <1>2, <1>4 DEF Reader
<1>6. w(e) \in SUBSET {"grown", "shrunk", "stale"}
  BY <1>3, ReaderTyped
<1>7. /\ Whole([shaken |-> w(e)]) => Whole(reader) /\ fresh(e)
      /\ w(e) = {} => fresh(e)
  BY DEF Whole
<1> HIDE DEF w
<1>8. /\ reader' \in Reader /\ reader'.table = "tasks" /\ reader'.size = reader.size /\ reader'.at = "ask"
      /\ reader'.from = reader.from /\ reader'.shaken = w(e) /\ reader'.seen = reader.seen \cup e.rows
      /\ reader'.page = IF reader.page * reader.size < e.total THEN reader.page + 1 ELSE 0
  BY <1>3, <1>4, <1>5, <1>6, ShakenIs
<1>9. Whole(reader') => Whole(reader) /\ e.rows = PageOf("tasks", reader.page, reader.size)
  BY <1>3, <1>7, <1>8 DEF Whole, fresh
<1>10. reader'.shaken = {} => \A i \in reader.from \cap Visible("tasks") : Place("tasks", i) <= e.total
  BY <1>3, <1>7, <1>8, PlaceIs DEF Tables, fresh
<1>11. ReaderIsAhead'
  BY <1>1, <1>3, <1>8, <1>9, <1>10, AheadTurned DEF Tables
<1>12. TypeOK'
  BY <1>1, <1>8 DEF Inv, TypeOK
<1> QED  BY <1>1, <1>11, <1>12, ReadingKept DEF Inv

\* The reader asks again, or has counted: it is on the page it was on.
LEMMA AheadAsks ==
    ASSUME Inv, log' = log, deleted' = deleted, NEW total \in Nat, NEW at \in {"ask", "find"},
           NEW shaken \in SUBSET {"grown", "shrunk", "stale"},
           reader' = [reader EXCEPT !.at = at, !.total = total, !.shaken = shaken],
           reader.shaken \subseteq shaken \cup {"grown"},
           at = "ask" => shaken = reader.shaken,
           at = "find" => reader.page > 0 /\ reader.table # "none" /\ total = Total(reader.table)
    PROVE  reader' \in Reader /\ ReaderIsAhead'
<1>1. reader \in Reader /\ TypeOK
  BY ReaderTyped DEF Inv
<1>2. /\ reader' \in Reader /\ reader'.table = reader.table /\ reader'.page = reader.page
      /\ reader'.size = reader.size /\ reader'.at = at /\ reader'.total = total
      /\ reader'.from = reader.from /\ reader'.seen = reader.seen /\ reader'.shaken = shaken
  BY <1>1 DEF Reader
<1>3. ASSUME NEW t \in Tables, reader.table = t PROVE Ahead(t)'
  <2>1. Ahead(t)
    BY <1>3 DEF Inv, ReaderIsAhead
  <2>2. Visible(t)' = Visible(t)
    BY TablesSame
  <2>3. \A i \in Visible(t) : Place(t, i)' = Place(t, i)
    BY <2>2 DEF Place
  <2>4. Whole(reader') => Whole(reader)
    BY <1>2 DEF Whole
  <2>5. reader.page = 0 => shaken = reader.shaken
    BY <2>1, ReaderTyped, <1>1
  <2>6. reader.size >= 1 /\ reader.from \subseteq DOMAIN log[t]
    BY <2>1 DEF Ahead
  <2> DEFINE q == (reader.page - 1) * reader.size
  <2>7. ASSUME NEW i \in reader.from \cap Visible(t)
        PROVE  /\ Whole(reader') /\ reader.page > 0 /\ Place(t, i) <= q => i \in reader.seen
               /\ shaken = {} /\ reader.page = 0 => i \in reader.seen
               /\ shaken = {} /\ at = "find" => Place(t, i) <= total
    <3>1. /\ Whole(reader) /\ reader.page > 0 /\ Place(t, i) <= q => i \in reader.seen
          /\ reader.shaken = {} /\ reader.page = 0 => i \in reader.seen
      BY <2>1, <2>7 DEF Ahead
    <3>2. Place(t, i) <= Total(t)
      BY <1>1, <2>7, PlaceIs
    <3> HIDE DEF q
    <3> QED  BY <1>3, <2>4, <2>5, <3>1, <3>2
  <2> QED  BY <1>2, <2>2, <2>3, <2>6, <2>7 DEF Ahead
<1> QED  BY <1>2, <1>3 DEF ReaderIsAhead

LEMMA CountRowsHolds ==
    ASSUME Inv, CountRows
    PROVE  Inv'
<1>1. /\ UNCHANGED <<clock, phase, ticked, ops, log, deleted, ended, stats, job, fills, cache,
                     requests, faults, missed, early>>
      /\ reader.table # "none" /\ reader.page > 0
      /\ reader' = [reader EXCEPT !.at = "find", !.total = Total(reader.table), !.shaken = @ \ {"grown"}]
  BY DEF CountRows, Asking
<1>2. reader \in Reader /\ reader.table \in Tables /\ reader.shaken \subseteq {"grown", "shrunk", "stale"}
  BY <1>1, ReaderTyped DEF Inv
<1>3. Total(reader.table) \in Nat
  BY <1>2, VisibleIs DEF Inv
<1> PICK total \in Nat, shaken \in SUBSET {"grown", "shrunk", "stale"} :
         total = Total(reader.table) /\ shaken = reader.shaken \ {"grown"}
  BY <1>2, <1>3
<1>4. reader' = [reader EXCEPT !.at = "find", !.total = total, !.shaken = shaken]
  BY <1>1, <1>2 DEF Reader
<1>5. reader' \in Reader /\ ReaderIsAhead'
  BY <1>1, <1>4, AheadAsks
<1>6. TypeOK'
  BY <1>1, <1>5 DEF Inv, TypeOK
<1> QED  BY <1>1, <1>5, <1>6, ReadingKept DEF Inv

\* A reader that asks again.
LEMMA AskedAgain ==
    ASSUME Inv, log' = log, deleted' = deleted, reader' = [reader EXCEPT !.at = "ask"]
    PROVE  reader' \in Reader /\ ReaderIsAhead'
<1>1. reader \in Reader /\ reader.total \in Nat /\ reader.shaken \in SUBSET {"grown", "shrunk", "stale"}
  BY ReaderTyped DEF Inv
<1>2. reader' = [reader EXCEPT !.at = "ask", !.total = reader.total, !.shaken = reader.shaken]
  BY <1>1 DEF Reader
<1> QED  BY <1>1, <1>2, AheadAsks

LEMMA FindPageHolds ==
    ASSUME Inv, FindPage
    PROVE  Inv'
<1> DEFINE t == reader.table
           got == PageOf(t, reader.page, reader.size)
           f == [page |-> reader.page, size |-> reader.size, rows |-> got, total |-> reader.total]
<1>1. /\ UNCHANGED <<clock, phase, ticked, ops, log, deleted, ended, stats, job, cache,
                     requests, missed, early>>
      /\ reader.table # "none" /\ reader.at = "find"
  BY DEF FindPage
<1>2. /\ TypeOK /\ reader \in Reader /\ t \in Tables /\ reader.page \in Nat /\ reader.size \in Nat
      /\ reader.total \in Nat
  BY <1>1, ReaderTyped DEF Inv
<1>3. Ahead(t) /\ reader.page > 0
  BY <1>1, <1>2 DEF Inv, ReaderIsAhead, Ahead
<1>4. got \in SUBSET Nat
  <2>1. Visible(t) \subseteq Nat /\ got \subseteq Visible(t)
    BY <1>2, VisibleIs DEF PageOf
  <2> QED  BY <2>1
<1>5. CASE /\ reader' = Turned(got, reader.total)
           /\ fills' = fills \cup {f} \/ fills' = fills
           /\ UNCHANGED faults
  <2> PICK rows \in SUBSET Nat, total \in Nat : rows = got /\ total = reader.total
    BY <1>2, <1>4
  <2>1. /\ reader' \in Reader /\ reader'.table = t /\ reader'.size = reader.size /\ reader'.at = "ask"
        /\ reader'.from = reader.from /\ reader'.shaken = reader.shaken /\ reader'.seen = reader.seen \cup rows
        /\ reader'.page = IF reader.page * reader.size < total THEN reader.page + 1 ELSE 0
    BY <1>2, <1>5, TurnedIs
  <2>2. Whole(reader') => Whole(reader) /\ rows = PageOf(t, reader.page, reader.size)
    BY <2>1 DEF Whole
  <2>3. reader'.shaken = {} => \A i \in reader.from \cap Visible(t) : Place(t, i) <= total
    BY <1>1, <1>3, <2>1 DEF Ahead
  <2>4. ReaderIsAhead'
    <3> HIDE DEF got
    <3> QED  BY <1>1, <1>2, <1>3, <2>1, <2>2, <2>3, AheadTurned
  <2>5. f \in Answer
    BY <1>2, <1>4 DEF Answer
  <2>6. fills' \subseteq Answer
    <3> HIDE DEF f
    <3>1. fills \subseteq Answer
      BY DEF Inv, TypeOK
    <3> QED  BY <1>5, <2>5, <3>1
  <2>7. TypeOK'
    BY <1>1, <1>5, <2>1, <2>6 DEF Inv, TypeOK
  <2> QED  BY <1>1, <2>4, <2>7, ReadingKept DEF Inv
<1>6. CASE Fault /\ reader' = [reader EXCEPT !.at = "ask"] /\ UNCHANGED fills
  <2>1. reader' \in Reader /\ ReaderIsAhead'
    BY <1>1, <1>6, AskedAgain
  <2>2. faults' \in Nat
    BY <1>6 DEF Fault, Inv, TypeOK
  <2>3. TypeOK'
    BY <1>1, <1>6, <2>1, <2>2 DEF Inv, TypeOK
  <2> QED  BY <1>1, <2>1, <2>3, ReadingKept DEF Inv
<1>7. \/ /\ reader' = Turned(got, reader.total)
         /\ fills' = fills \cup {f} \/ fills' = fills
         /\ UNCHANGED faults
      \/ Fault /\ reader' = [reader EXCEPT !.at = "ask"] /\ UNCHANGED fills
  BY DEF FindPage
<1> QED  BY <1>5, <1>6, <1>7

\* Steps of the cache of the task list.
LEMMA CacheHolds ==
    ASSUME Inv, (\E f \in fills : CacheTaskList(f)) \/ (\E e \in cache : EntryGoes(e))
    PROVE  Inv'
<1>1. UNCHANGED <<clock, phase, ticked, ops, log, deleted, ended, stats, job, reader,
                  requests, faults, missed, early>>
  BY DEF CacheTaskList, EntryGoes
<1>2. fills' \subseteq Answer /\ cache' \subseteq Answer
  <2>1. fills \subseteq Answer /\ cache \subseteq Answer
    BY DEF Inv, TypeOK
  <2>2. CASE \E f \in fills : CacheTaskList(f)
    BY <2>1, <2>2 DEF CacheTaskList
  <2>3. CASE \E e \in cache : EntryGoes(e)
    BY <2>1, <2>3 DEF EntryGoes
  <2> QED  BY <2>2, <2>3
<1>3. StaysAt(reader')
  BY <1>1, StandsStill DEF Inv
<1>4. ReaderIsAhead'
  BY <1>1, <1>3, ReaderKept
<1>5. TypeOK'
  BY <1>1, <1>2 DEF Inv, TypeOK
<1> QED  BY <1>1, <1>4, <1>5, ReadingKept DEF Inv

LEMMA CloseLogHolds ==
    ASSUME Inv, CloseLog
    PROVE  Inv'
<1>1. /\ UNCHANGED <<clock, phase, ticked, ops, log, deleted, ended, stats, job, fills, cache,
                     requests, faults, missed, early>>
      /\ reader' = NoReader
  BY DEF CloseLog
<1>2. ReaderIsAhead'
  BY <1>1, NoReaderIs DEF ReaderIsAhead
<1>3. TypeOK'
  BY <1>1, NoReaderIs DEF Inv, TypeOK
<1> QED  BY <1>1, <1>2, <1>3, ReadingKept DEF Inv

LEMMA NextHourHolds ==
    ASSUME Inv, NextHour
    PROVE  Inv'
<1>1. /\ UNCHANGED <<phase, ops, log, deleted, ended, stats, job, reader, fills, requests, faults,
                     missed, early>>
      /\ clock' = clock + 1 /\ ticked' \in BOOLEAN /\ cache' = {}
  BY DEF NextHour
<1>2. clock \in Nat /\ clock' \in Nat /\ clock <= clock' /\ TypeOK
  BY <1>1 DEF Inv, TypeOK
<1>3. CountsStay /\ StaysAt(reader')
  BY <1>1, <1>2, TablesSame, StandsStill DEF CountsStay
<1>4. LogsInOrder' /\ StatsAreTrue' /\ JobsAreTrue' /\ ReaderIsAhead'
  BY <1>1, <1>2, <1>3, LogsKept, StatsKept, JobsKept, ReaderKept DEF JobStep
<1>5. TypeOK'
  BY <1>1, <1>2 DEF Inv, TypeOK
<1> QED  BY <1>4, <1>5 DEF Inv

LEMMA RestartHolds ==
    ASSUME Inv, Restart
    PROVE  Inv'
<1>1. /\ UNCHANGED <<clock, log, deleted, ended, stats, cache, requests, early>>
      /\ phase' \in Phases /\ ticked' = TRUE /\ Fault
      /\ job' = [j \in Jobs |-> NoJob]
      /\ reader' = [reader EXCEPT !.at = "ask"] /\ fills' = {}
  BY DEF Restart
<1> DEFINE o(i) == [ops[i] EXCEPT !.todo = {}, !.task = 0,
                                  !.tx = IF @ = "open" THEN "rolled back" ELSE @]
<1>2. ops' = [i \in DOMAIN ops |-> o(i)]
  BY DEF Restart
<1>3. ops \in Seq(Op) /\ DOMAIN ops = 1..Len(ops) /\ Len(ops) \in Nat
  BY DEF Inv, TypeOK
<1>4. ASSUME NEW i \in DOMAIN ops PROVE o(i) \in Op
  <2>1. ops[i] \in Op
    BY <1>3
  <2> QED  BY <2>1 DEF Op
<1> HIDE DEF o
<1>5. ops' \in Seq(Op)
  BY <1>2, <1>3, <1>4, IsASeq
<1>6. job' \in [Jobs -> Job] /\ \A j \in Jobs : JobStep(job[j], job'[j])
  BY <1>1, NoJobIs DEF JobStep
<1>7. clock \in Nat /\ clock <= clock'
  BY <1>1 DEF Inv, TypeOK
<1>8. CountsStay
  BY <1>1, <1>7, TablesSame DEF CountsStay
<1>9. LogsInOrder' /\ StatsAreTrue' /\ JobsAreTrue' /\ ReaderIsAhead' /\ reader' \in Reader
  BY <1>1, <1>6, <1>7, <1>8, LogsKept, StatsKept, JobsKept, AskedAgain
<1>10. missed' \subseteq Nat /\ faults' \in Nat
  <2>1. Day(clock) \in Nat /\ missed \subseteq Nat /\ faults \in Nat
    BY DayIsNat DEF Inv, TypeOK
  <2>2. missed' = missed \cup {Day(clock)} \/ missed' = missed
    BY DEF Restart
  <2>3. faults' \in Nat
    BY <1>1, <2>1 DEF Fault
  <2> QED  BY <2>1, <2>2, <2>3
<1>11. TypeOK'
  <2>1. ticked' \in BOOLEAN
    BY <1>1
  <2> QED  BY <1>1, <1>5, <1>6, <1>9, <1>10, <2>1 DEF Inv, TypeOK
<1> QED  BY <1>9, <1>11 DEF Inv

LEMMA StutterHolds ==
    ASSUME Inv, UNCHANGED vars
    PROVE  Inv'
<1>1. LogsInOrder' /\ StatsAreTrue' /\ JobsAreTrue' /\ ReaderIsAhead'
  BY TablesKept DEF JobStep, vars, lists
<1>2. TypeOK'
  BY DEF Inv, TypeOK, vars, lists
<1> QED  BY <1>1, <1>2 DEF Inv

LEMMA StepHolds == Inv /\ [Next]_vars => Inv'
<1> SUFFICES ASSUME Inv, [Next]_vars PROVE Inv'
  OBVIOUS
<1>1. CASE CreateTask
  BY <1>1, CreateTaskHolds
<1>2. CASE \E i \in Visible("tasks") : FinishTask(i)
  BY <1>2, FinishTaskHolds
<1>3. CASE \E i \in DOMAIN ops : Commit(i) \/ Rollback(i)
  BY <1>3, CommitHolds, RollbackHolds
<1>4. CASE \E i \in DOMAIN ops : \E t \in Logs : LogRow(i, t)
  BY <1>4, LogRowHolds
<1>5. CASE Tick \/ UpdateDailyStatistics \/ \E n \in 0..2 : CleanupOldLogs(n)
  BY <1>5, BeginHolds
<1>6. CASE \E n \in 0..2 : CleanupOldRecords(n)
  BY <1>6, CleanupOldRecordsHolds
<1>7. CASE \E j \in Jobs : Count(j) \/ StoreCounts(j) \/ Delete(j)
  BY <1>7, CountHolds, StoreCountsHolds, DeleteHolds
<1>8. CASE \E t \in Tables, page \in {0, 1}, size \in Sizes : OpenLog(t, page, size)
  BY <1>8, OpenLogHolds
<1>9. CASE AnswerFromCache \/ CountRows \/ FindPage \/ CloseLog
  BY <1>9, AnswerFromCacheHolds, CountRowsHolds, FindPageHolds, CloseLogHolds
<1>10. CASE (\E f \in fills : CacheTaskList(f)) \/ (\E e \in cache : EntryGoes(e))
  BY <1>10, CacheHolds
<1>11. CASE NextHour \/ Restart \/ UNCHANGED vars
  BY <1>11, NextHourHolds, RestartHolds, StutterHolds
<1> QED  BY <1>1, <1>2, <1>3, <1>4, <1>5, <1>6, <1>7, <1>8, <1>9, <1>10, <1>11, Zenon DEF Next

LEMMA InvHolds == Spec => []Inv
<1>1. Init => Inv
  BY InitHolds
<1>2. Inv /\ [Next]_vars => Inv'
  BY StepHolds
<1> QED  BY <1>1, <1>2, PTL DEF Spec

\* The tables, the counts and the jobs are what their Go structs allow, for any number
\* of tasks, requests, restarts and failed statements.
THEOREM AuditTypes == Spec => []TypeOK
<1>1. Inv => TypeOK
  BY DEF Inv
<1> QED  BY <1>1, InvHolds, PTL

\* Paging (the Count, the Offset and the Limit of the lists and of the log queries, the
\* cached pages of tasks) shows every row that was there at the beginning and still is,
\* for any page size and any number of rows added between the pages and deleted from
\* the audit log; unless a row is added between the last page's Count and its Find,
\* rows go from tasks or the execution log, or a cached page is outdated.
THEOREM PagesAreComplete == Spec => []NothingSkipped
<1>1. Inv => NothingSkipped
  <2> SUFFICES ASSUME Inv, reader.table # "none", reader.page = 0, reader.shaken = {},
                      NEW i \in reader.from \cap Visible(reader.table)
               PROVE  i \in reader.seen
    BY DEF NothingSkipped
  <2>1. PICK t \in Tables : t = reader.table
    BY ReaderTyped DEF Inv
  <2>2. Ahead(t)
    BY <2>1 DEF Inv, ReaderIsAhead
  <2> QED  BY <2>1, <2>2 DEF Ahead
<1> QED  BY <1>1, InvHolds, PTL

-----------------------------------------------------------------------------
(***************************************************************************)
(* The night.                                                              *)
(***************************************************************************)

\* Nothing that is counted becomes uncounted, and no old row appears.
NightStays ==
    /\ \A d \in Days : Counted(d) => Counted(d)'
    /\ \A d \in Days, t \in Logs : OneOClock(d) <= clock /\ Young(t, d) => Young(t, d)'

LEMMA NightKept ==
    ASSUME Inv, NightWork, NightStays, clock' = clock, missed \subseteq missed',
           \A d \in Days : d > 1 /\ clock = OneOClock(d) /\ ticked' /\ d \notin missed' => Working(d)'
    PROVE  NightWork'
<1> SUFFICES ASSUME NEW d \in Days, d > 1, d \notin missed'
             PROVE  /\ clock' = OneOClock(d) /\ ticked' => Working(d)'
                    /\ PastOne(d)' => Counted(d - 1)' /\ Young("audit", d)' /\ Young("exec", d)'
  BY DEF NightWork, OneOClock
<1>1. clock' = OneOClock(d) /\ ticked' => Working(d)'
  OBVIOUS
<1>2. ASSUME PastOne(d)' PROVE Counted(d - 1)' /\ Young("audit", d)' /\ Young("exec", d)'
  <2>1. d - 1 \in Days /\ d \in Int /\ clock \in Int
    BY AuditAssumption DEF Days, Inv, TypeOK
  <2>2. PastOne(d) /\ OneOClock(d) \in Int /\ clock > OneOClock(d)
    BY <1>2, <2>1, OneOClockIs DEF PastOne, OneOClock
  <2>3. Counted(d - 1) /\ Young("audit", d) /\ Young("exec", d)
    BY <2>2 DEF NightWork
  <2>4. OneOClock(d) <= clock /\ "audit" \in Logs /\ "exec" \in Logs
    BY <2>1, <2>2 DEF Logs
  <2> QED  BY <2>1, <2>3, <2>4 DEF NightStays
<1> QED  BY <1>1, <1>2

LEMMA NightGoesOn ==
    ASSUME Inv, NightWork, NightStays, clock' = clock, ticked' = ticked, missed \subseteq missed',
           job'["nightly"] = job["nightly"]
    PROVE  NightWork'
<1> SUFFICES ASSUME NEW d \in Days, d > 1, clock = OneOClock(d), ticked, d \notin missed'
             PROVE  Working(d)'
  BY NightKept
<1>1. Working(d)
  BY DEF NightWork
<1>2. d - 1 \in Days /\ OneOClock(d) <= clock /\ "audit" \in Logs /\ "exec" \in Logs
  BY AuditAssumption DEF Days, Logs, Inv, TypeOK
<1>3. /\ Counted(d - 1) => Counted(d - 1)'
      /\ Young("audit", d) => Young("audit", d)'
      /\ Young("exec", d) => Young("exec", d)'
  BY <1>2 DEF NightStays
<1> QED  BY <1>1, <1>3 DEF Working

\* Steps that touch neither the statistics nor the logs.
LEMMA NothingTouched ==
    ASSUME stats' = stats, log' = log, deleted' = deleted
    PROVE  NightStays
BY TablesSame DEF NightStays, Counted, Young, Tables

LEMMA RowAppended ==
    ASSUME Inv, NEW u \in Tables, NEW r \in Row, r.at = clock, clock' = clock, stats' = stats,
           log' = [log EXCEPT ![u] = Append(@, r)], deleted' = deleted, reader' = Grown(u)
    PROVE  NightStays
<1> SUFFICES ASSUME NEW d \in Days, NEW t \in Logs, OneOClock(d) <= clock, Young(t, d)
             PROVE  Young(t, d)'
  BY DEF NightStays, Counted
<1> DEFINE limit == OneOClock(d) - RetentionDays * HoursPerDay
<1>1. limit \in Int /\ limit <= clock
  <2>1. RetentionDays \in Nat /\ HoursPerDay \in Nat /\ d \in Int /\ clock \in Int
    BY AuditAssumption DEF Days, Inv, TypeOK
  <2>2. RetentionDays * HoursPerDay \in Nat /\ OneOClock(d) \in Int
    BY <2>1, OneOClockIs
  <2> DEFINE x == RetentionDays * HoursPerDay
  <2> HIDE DEF x
  <2>3. x \in Nat
    BY <2>2 DEF x
  <2>4. OneOClock(d) - x \in Int /\ OneOClock(d) - x <= clock
    BY <2>1, <2>2, <2>3
  <2> QED  BY <2>4 DEF x
<1> HIDE DEF limit
<1>2. \A i \in Visible(t) : log[t][i].at >= limit
  BY DEF Young, limit
<1>3. ASSUME NEW i \in Visible(t)' PROVE log'[t][i].at >= limit
  <2>1. (i \in Visible(t) /\ log'[t][i] = log[t][i]) \/ log'[t][i] = r
    BY AppendKeeps DEF Tables
  <2>2. CASE i \in Visible(t) /\ log'[t][i] = log[t][i]
    BY <1>2, <2>2
  <2>3. CASE log'[t][i] = r
    BY <1>1, <2>3
  <2> QED  BY <2>1, <2>2, <2>3
<1> QED  BY <1>3 DEF Young, limit

LEMMA RowsDeleted ==
    ASSUME Inv, NEW u \in Tables, NEW gone, stats' = stats, log' = log,
           deleted' = [deleted EXCEPT ![u] = @ \cup gone]
    PROVE  /\ NightStays
           /\ \A cutoff \in Int, d \in Days :
                  /\ gone = {i \in Visible(u) : Expired(log[u][i], cutoff)}
                  /\ cutoff = OneOClock(d) - RetentionDays * HoursPerDay
                  => Young(u, d)'
<1>1. \A t \in Tables : Visible(t)' \subseteq Visible(t)
  BY DEF Visible, Inv, TypeOK
<1>2. NightStays
  BY <1>1 DEF NightStays, Counted, Young, Tables
<1>3. ASSUME NEW cutoff \in Int, gone = {i \in Visible(u) : Expired(log[u][i], cutoff)},
             NEW d \in Days, cutoff = OneOClock(d) - RetentionDays * HoursPerDay
      PROVE  Young(u, d)'
  <2>1. ASSUME NEW i \in Visible(u)' PROVE log[u][i].at >= cutoff
    <3>1. i \in Visible(u) /\ i \notin gone
      BY <1>1, <2>1 DEF Visible, Inv, TypeOK
    <3>2. log[u][i].at \in Nat
      BY <3>1, VisibleIs, RowsTyped DEF Inv
    <3>3. ~(log[u][i].at < cutoff)
      BY <1>3, <3>1 DEF Expired
    <3> QED  BY <3>2, <3>3
  <2> QED  BY <1>3, <2>1 DEF Young
<1> QED  BY <1>2, <1>3

LEMMA NightInit == Init => NightWork
<1> SUFFICES ASSUME Init, NEW d \in Days, d > 1
             PROVE  ~(clock = OneOClock(d)) /\ ~PastOne(d)
  BY DEF NightWork
<1>1. HoursPerDay \in Nat /\ d \in Int /\ clock = HoursPerDay
  BY AuditAssumption DEF Days, Init
<1>2. 1 * HoursPerDay <= d * HoursPerDay /\ d * HoursPerDay \in Int
  BY <1>1, TimesHours
<1> QED  BY <1>1, <1>2 DEF OneOClock, PastOne

\* What the day is at one o'clock.
LEMMA AtOneOClock ==
    ASSUME Inv, NEW d \in Days, d > 1, clock = OneOClock(d)
    PROVE  /\ Day(clock) = d /\ Hour(clock) = 1 /\ Yesterday = d - 1 /\ d - 1 \in Days
           /\ Cutoff(RetentionDays) = OneOClock(d) - RetentionDays * HoursPerDay
           /\ OneOClock(d) <= clock
<1>1. d \in Int /\ d - 1 \in Days
  BY AuditAssumption DEF Days
<1>2. Day(clock) = d /\ Hour(clock) = 1 /\ OneOClock(d) \in Int
  BY <1>1, OneOClockIs
<1> QED  BY <1>1, <1>2 DEF Yesterday, Cutoff

LEMMA NightTick ==
    ASSUME Inv, NightWork, Tick
    PROVE  NightWork'
<1>1. UNCHANGED <<clock, phase, ops, log, deleted, ended, stats, lists, requests, faults, early>>
  BY DEF Tick
<1>2. NightStays
  BY <1>1, NothingTouched
<1>3. missed \subseteq missed'
  BY DEF Tick
<1> SUFFICES ASSUME NEW d \in Days, d > 1, clock = OneOClock(d), d \notin missed' PROVE Working(d)'
  BY <1>1, <1>2, <1>3, NightKept
<1>4. Day(clock) = d /\ Hour(clock) = 1 /\ Yesterday \in Days /\ Yesterday = d - 1 /\ d - 1 \in Int
  BY AtOneOClock DEF Days
<1>5. IsNight
  BY <1>4 DEF Tick
<1> DEFINE x == [NoJob EXCEPT !.at = "count", !.date = Yesterday]
<1>6. job' = [job EXCEPT !["nightly"] = x] /\ job \in [Jobs -> Job] /\ "nightly" \in Jobs
  BY <1>4, <1>5 DEF Tick, Inv, TypeOK, Jobs
<1>7. x.at = "count" /\ x.date = d - 1
  BY <1>4, NewCount
<1> HIDE DEF x
<1>8. job'["nightly"] = x
  BY <1>6
<1> QED  BY <1>7, <1>8 DEF Working, Logs

LEMMA NightCount ==
    ASSUME Inv, NightWork, NEW j \in Jobs, Count(j)
    PROVE  NightWork'
<1> DEFINE x == [job[j] EXCEPT !.at = "store",
                               !.counts = [total |-> Created(job[j].date),
                                           done |-> Cardinality(CreatedOn(job[j].date) \cap ended)]]
<1>1. /\ UNCHANGED <<clock, phase, ticked, ops, log, deleted, ended, stats, lists, requests, faults, missed>>
      /\ job' = [job EXCEPT ![j] = x] /\ job[j].at = "count"
  BY DEF Count
<1>2. job \in [Jobs -> Job] /\ "nightly" \in Jobs /\ job[j] \in Job
  BY DEF Inv, TypeOK, Jobs
<1>3. x.at = "store" /\ x.date = job[j].date
  BY <1>2 DEF Job
<1> HIDE DEF x
<1>4. NightStays
  BY <1>1, NothingTouched
<1>5. CASE j # "nightly"
  BY <1>1, <1>2, <1>4, <1>5, NightGoesOn
<1>6. CASE j = "nightly"
  <2> SUFFICES ASSUME NEW d \in Days, d > 1, clock = OneOClock(d), ticked, d \notin missed
               PROVE  Working(d)'
    BY <1>1, <1>4, NightKept
  <2>1. job["nightly"].date = d - 1
    BY <1>1, <1>6 DEF NightWork, Working
  <2>2. job'["nightly"] = x
    BY <1>1, <1>2, <1>6
  <2> QED  BY <1>3, <1>6, <2>1, <2>2 DEF Working, Logs
<1> QED  BY <1>5, <1>6

LEMMA NightStore ==
    ASSUME Inv, NightWork, NEW j \in Jobs, StoreCounts(j)
    PROVE  NightWork'
<1> DEFINE e == job[j].date
           c == job[j].counts
<1>1. /\ UNCHANGED <<clock, phase, ticked, ops, log, deleted, ended, lists, requests, early>>
      /\ job' = [job EXCEPT ![j] = AfterCount(j)] /\ job[j].at = "store"
  BY DEF StoreCounts
<1>2. /\ job \in [Jobs -> Job] /\ "nightly" \in Jobs /\ stats \in [Days -> Counts \cup {NoStats}]
      /\ AfterCount(j) \in Job
  BY AfterCountIs DEF Inv, TypeOK, Jobs
<1>3. e \in Days /\ c \in Counts /\ c # NoStats
  <2>1. JobIsTrue(job[j])
    BY DEF Inv, JobsAreTrue
  <2> QED  BY <1>1, <2>1, AuditAssumption DEF JobIsTrue, Counts
<1>4. \/ /\ \E s \in FirstOrCreate(stats[e], c) : stats' = [stats EXCEPT ![e] = s]
         /\ UNCHANGED <<faults, missed>>
      \/ missed' = missed \cup MissedBy(j) /\ stats' = stats
  BY DEF StoreCounts
<1> HIDE DEF e, c
<1>5. \A d \in Days : Counted(d) => Counted(d)'
  <2>1. CASE \E s \in FirstOrCreate(stats[e], c) : stats' = [stats EXCEPT ![e] = s]
    <3>1. PICK s \in FirstOrCreate(stats[e], c) : stats' = [stats EXCEPT ![e] = s]
      BY <2>1
    <3>2. s = c \/ s = stats[e]
      BY <3>1 DEF FirstOrCreate
    <3> QED  BY <1>2, <1>3, <3>1, <3>2 DEF Counted
  <2>2. CASE stats' = stats
    BY <2>2 DEF Counted
  <2> QED  BY <1>4, <2>1, <2>2
<1>6. NightStays
  BY <1>1, <1>5, TablesSame DEF NightStays, Young, Tables
<1>7. missed \subseteq missed'
  BY <1>4
<1>8. CASE j # "nightly"
  BY <1>1, <1>2, <1>6, <1>7, <1>8, NightGoesOn
<1>9. CASE j = "nightly"
  <2> SUFFICES ASSUME NEW d \in Days, d > 1, clock = OneOClock(d), ticked, d \notin missed'
               PROVE  Working(d)'
    BY <1>1, <1>6, <1>7, NightKept
  <2>1. e = d - 1
    BY <1>1, <1>7, <1>9 DEF NightWork, Working, e
  <2>2. PICK s \in FirstOrCreate(stats[e], c) : stats' = [stats EXCEPT ![e] = s]
    <3>1. MissedBy(j) = {d}
      BY <1>9, AtOneOClock DEF MissedBy
    <3> QED  BY <1>4, <3>1
  <2>3. Counted(d - 1)'
    <3>1. s = c \/ (s = stats[e] /\ s # NoStats)
      BY <2>2 DEF FirstOrCreate
    <3> QED  BY <1>2, <1>3, <2>1, <2>2, <3>1 DEF Counted
  <2> DEFINE x == [NoJob EXCEPT !.at = "audit", !.cutoff = Cutoff(RetentionDays)]
  <2>4. x.at = "audit" /\ x.cutoff = OneOClock(d) - RetentionDays * HoursPerDay
    <3>1. Cutoff(RetentionDays) \in Int
      BY AuditAssumption DEF Cutoff, Inv, TypeOK
    <3> QED  BY <3>1, NewCleanup, AtOneOClock
  <2>5. job'["nightly"] = x
    BY <1>1, <1>2, <1>9 DEF AfterCount
  <2> HIDE DEF x
  <2> QED  BY <2>3, <2>4, <2>5 DEF Working, Logs
<1> QED  BY <1>8, <1>9

LEMMA NightDelete ==
    ASSUME Inv, NightWork, NEW j \in Jobs, Delete(j)
    PROVE  NightWork'
<1>1. job[j].at \in Logs /\ UNCHANGED <<clock, phase, ticked, ops, log, ended, stats, fills, cache, requests, early>>
  BY DEF Delete
<1>2. job \in [Jobs -> Job] /\ "nightly" \in Jobs /\ job[j] \in Job /\ job[j].cutoff \in Int
  <2>1. job[j] \in Job
    BY DEF Inv, TypeOK
  <2> QED  BY <2>1 DEF Inv, TypeOK, Jobs, Job
<1> PICK u \in Logs, cutoff \in Int : job[j].at = u /\ job[j].cutoff = cutoff
  BY <1>1, <1>2
<1> PICK gone : gone = {i \in Visible(u) : Expired(log[u][i], cutoff)}
  OBVIOUS
<1>3. CASE /\ deleted' = [deleted EXCEPT ![u] = @ \cup gone]
           /\ job' = [job EXCEPT ![j] = IF u = "audit" THEN [@ EXCEPT !.at = "exec"] ELSE NoJob]
           /\ UNCHANGED <<faults, missed>>
  <2>1. /\ NightStays
        /\ \A d \in Days : cutoff = OneOClock(d) - RetentionDays * HoursPerDay => Young(u, d)'
    BY <1>1, <1>3, RowsDeleted DEF Tables
  <2>2. CASE j # "nightly"
    <3>1. job'["nightly"] = job["nightly"]
      BY <1>2, <1>3, <2>2
    <3> QED  BY <1>1, <1>3, <2>1, <3>1, NightGoesOn
  <2>3. CASE j = "nightly"
    <3> SUFFICES ASSUME NEW d \in Days, d > 1, clock = OneOClock(d), ticked, d \notin missed
                 PROVE  Working(d)'
      BY <1>1, <1>3, <2>1, NightKept
    <3>1. Working(d)
      BY DEF NightWork
    <3>2. Counted(d - 1) /\ cutoff = OneOClock(d) - RetentionDays * HoursPerDay
      BY <1>1, <2>3, <3>1 DEF Working
    <3>3. Counted(d - 1)' /\ Young(u, d)'
      BY <2>1, <3>2, AtOneOClock DEF NightStays
    <3>4. CASE u = "audit"
      <4>1. job'["nightly"] = [job[j] EXCEPT !.at = "exec"]
        BY <1>2, <1>3, <2>3, <3>4
      <4>2. job'["nightly"].at = "exec" /\ job'["nightly"].cutoff = cutoff
        BY <1>2, <4>1 DEF Job
      <4> QED  BY <3>2, <3>3, <3>4, <4>2 DEF Working, Logs
    <3>5. CASE u = "exec"
      <4>1. job'["nightly"] = NoJob
        BY <1>2, <1>3, <2>3, <3>5
      <4>2. Young("audit", d)'
        <5>1. Young("audit", d)
          BY <2>3, <3>1, <3>5 DEF Working
        <5> QED  BY <2>1, <5>1, AtOneOClock DEF NightStays, Logs
      <4> QED  BY <3>3, <3>5, <4>1, <4>2, NoJobIs DEF Working, Logs
    <3> QED  BY <1>1, <3>4, <3>5 DEF Logs
  <2> QED  BY <2>2, <2>3
<1>4. CASE /\ Fault
           /\ missed' = missed \cup MissedBy(j)
           /\ job' = [job EXCEPT ![j] = NoJob]
           /\ UNCHANGED <<deleted, reader>>
  <2>1. NightStays /\ missed \subseteq missed'
    BY <1>1, <1>4, NothingTouched
  <2>2. CASE j # "nightly"
    <3>1. job'["nightly"] = job["nightly"]
      BY <1>2, <1>4, <2>2
    <3> QED  BY <1>1, <2>1, <3>1, NightGoesOn
  <2>3. CASE j = "nightly"
    <3>1. ASSUME NEW d \in Days, d > 1, clock = OneOClock(d) PROVE d \in missed'
      BY <1>4, <2>3, <3>1, AtOneOClock DEF MissedBy
    <3> QED  BY <1>1, <2>1, <3>1, NightKept
  <2> QED  BY <2>2, <2>3
<1> QED  BY <1>3, <1>4 DEF Delete

LEMMA NightNextHour ==
    ASSUME Inv, NightWork, NextHour
    PROVE  NightWork'
<1>1. /\ UNCHANGED <<log, deleted, stats, job, missed>>
      /\ clock' = clock + 1 /\ ticked' = (Hour(clock + 1) # 1) /\ ticked /\ job["nightly"] = NoJob
  BY DEF NextHour, Jobs
<1> SUFFICES ASSUME NEW d \in Days, d > 1, d \notin missed
             PROVE  /\ ~(clock' = OneOClock(d) /\ ticked')
                    /\ PastOne(d)' => Counted(d - 1)' /\ Young("audit", d)' /\ Young("exec", d)'
  BY <1>1 DEF NightWork, OneOClock
<1>4. d \in Int /\ clock \in Int
  BY DEF Days, Inv, TypeOK
<1>5. ~(clock' = OneOClock(d) /\ ticked')
  BY <1>1, <1>4, OneOClockIs
<1> SUFFICES ASSUME PastOne(d)'
             PROVE  Counted(d - 1)' /\ Young("audit", d)' /\ Young("exec", d)'
  BY <1>5
<1>2. clock \in Int /\ OneOClock(d) \in Int /\ clock + 1 > OneOClock(d)
  BY <1>1, <1>4, OneOClockIs DEF PastOne, OneOClock
<1>3. Counted(d - 1) /\ Young("audit", d) /\ Young("exec", d)
  <2>1. CASE clock = OneOClock(d)
    BY <1>1, <2>1, NoJobIs DEF NightWork, Working
  <2>2. CASE clock > OneOClock(d)
    BY <2>2 DEF NightWork, PastOne
  <2> QED  BY <1>2, <2>1, <2>2
<1> QED  BY <1>1, <1>3, TablesSame DEF Counted, Young, Tables, Logs

LEMMA NightRestart ==
    ASSUME Inv, NightWork, Restart
    PROVE  NightWork'
<1>1. /\ UNCHANGED <<clock, log, deleted, stats>>
      /\ job' = [j \in Jobs |-> NoJob]
      /\ missed' = IF job["nightly"] # NoJob \/ (Hour(clock) = 1 /\ ~ticked)
                   THEN missed \cup {Day(clock)} ELSE missed
  BY DEF Restart
<1>2. NightStays /\ missed \subseteq missed'
  BY <1>1, NothingTouched
<1> SUFFICES ASSUME NEW d \in Days, d > 1, clock = OneOClock(d), d \notin missed'
             PROVE  Working(d)'
  BY <1>1, <1>2, NightKept
<1>3. job["nightly"] = NoJob /\ ticked /\ d \notin missed
  BY <1>1, AtOneOClock
<1>4. Counted(d - 1) /\ Young("audit", d) /\ Young("exec", d)
  BY <1>3, NoJobIs DEF NightWork, Working
<1>5. Counted(d - 1)' /\ Young("audit", d)' /\ Young("exec", d)'
  BY <1>2, <1>4, AtOneOClock DEF NightStays, Logs
<1>6. job'["nightly"] = NoJob
  BY <1>1 DEF Jobs
<1> QED  BY <1>5, <1>6, NoJobIs DEF Working, Logs

LEMMA NightStep == Inv /\ NightWork /\ [Next]_vars => NightWork'
<1> SUFFICES ASSUME Inv, NightWork, [Next]_vars PROVE NightWork'
  OBVIOUS
<1>1. CASE CreateTask
  <2> DEFINE r == [op |-> Len(ops) + 1, at |-> clock]
  <2>1. /\ log' = [log EXCEPT !["tasks"] = Append(@, r)] /\ reader' = Grown("tasks")
        /\ UNCHANGED <<clock, ticked, deleted, stats, job, missed>>
    BY <1>1 DEF CreateTask
  <2>2. r \in Row /\ r.at = clock /\ "tasks" \in Tables
    BY DEF Row, Tables, Inv, TypeOK
  <2> HIDE DEF r
  <2>3. NightStays
    BY <2>1, <2>2, RowAppended
  <2> QED  BY <2>1, <2>3, NightGoesOn
<1>2. CASE \E i \in DOMAIN ops : \E t \in Logs : LogRow(i, t)
  <2>1. PICK i \in DOMAIN ops : \E t \in Logs : LogRow(i, t)
    BY <1>2
  <2>2. PICK t \in Logs : LogRow(i, t)
    BY <2>1
  <2> DEFINE r == [op |-> i, at |-> clock]
  <2>3. /\ (log' = [log EXCEPT ![t] = Append(@, r)] /\ reader' = Grown(t)) \/ log' = log
        /\ UNCHANGED <<clock, ticked, deleted, stats, job, missed>>
    BY <2>2 DEF LogRow
  <2>4. r \in Row /\ r.at = clock /\ t \in Tables
    BY DEF Row, Tables, Inv, TypeOK
  <2> HIDE DEF r
  <2>5. NightStays
    BY <2>3, <2>4, RowAppended, NothingTouched
  <2> QED  BY <2>3, <2>5, NightGoesOn
<1>3. ASSUME UNCHANGED <<clock, ticked, log, deleted, stats, missed>>, job'["nightly"] = job["nightly"]
      PROVE  NightWork'
  BY <1>3, NothingTouched, NightGoesOn
<1>4. CASE (\E i \in Visible("tasks") : FinishTask(i)) \/ (\E i \in DOMAIN ops : Commit(i) \/ Rollback(i))
  BY <1>3, <1>4 DEF FinishTask, Commit, Rollback
<1>5. CASE Tick
  BY <1>5, NightTick
<1>6. CASE UpdateDailyStatistics \/ \E n \in 0..2 : CleanupOldLogs(n)
  <2>1. job \in [Jobs -> Job] /\ "nightly" \in Jobs
    BY DEF Inv, TypeOK, Jobs
  <2>2. job'["nightly"] = job["nightly"]
    BY <1>6, <2>1 DEF UpdateDailyStatistics, CleanupOldLogs
  <2>3. UNCHANGED <<clock, ticked, log, deleted, stats, missed>>
    BY <1>6 DEF UpdateDailyStatistics, CleanupOldLogs
  <2> QED  BY <1>3, <2>2, <2>3
<1>7. CASE \E n \in 0..2 : CleanupOldRecords(n)
  <2>1. /\ \E gone : deleted' = [deleted EXCEPT !["tasks"] = @ \cup gone]
        /\ UNCHANGED <<clock, ticked, log, stats, job, missed>>
    BY <1>7 DEF CleanupOldRecords
  <2>2. NightStays
    BY <2>1, RowsDeleted DEF Tables
  <2> QED  BY <2>1, <2>2, NightGoesOn
<1>8. CASE \E j \in Jobs : Count(j) \/ StoreCounts(j) \/ Delete(j)
  BY <1>8, NightCount, NightStore, NightDelete
<1>9. CASE (\E t \in Tables, page \in {0, 1}, size \in Sizes : OpenLog(t, page, size)) \/ CloseLog
  BY <1>3, <1>9 DEF OpenLog, CloseLog
<1>10. CASE AnswerFromCache \/ CountRows \/ FindPage
  BY <1>3, <1>10 DEF AnswerFromCache, CountRows, FindPage
<1>11. CASE (\E f \in fills : CacheTaskList(f)) \/ (\E e \in cache : EntryGoes(e))
  BY <1>3, <1>11 DEF CacheTaskList, EntryGoes
<1>12. CASE NextHour \/ Restart
  BY <1>12, NightNextHour, NightRestart
<1>13. CASE UNCHANGED vars
  BY <1>3, <1>13 DEF vars
<1> QED  BY <1>1, <1>2, <1>4, <1>5, <1>6, <1>7, <1>8, <1>9, <1>10, <1>11, <1>12, <1>13, Zenon DEF Next

LEMMA NightHolds == Spec => []NightWork
<1>1. Init => NightWork
  BY NightInit
<1>2. Inv /\ NightWork /\ [Next]_vars => NightWork'
  BY NightStep
<1> QED  BY <1>1, <1>2, InvHolds, PTL DEF Spec

\* What a night that was not missed has done, from the moment its job is over.
LEMMA NightDone ==
    ASSUME NightWork, NEW d \in Days, d > 1, NightOver(d), d \notin missed
    PROVE  Counted(d - 1) /\ Young("audit", d) /\ Young("exec", d)
<1>1. CASE PastOne(d)
  BY <1>1 DEF NightWork
<1>2. CASE clock = OneOClock(d) /\ ticked /\ job["nightly"] = NoJob
  BY <1>2, NoJobIs DEF NightWork, Working
<1> QED  BY <1>1, <1>2 DEF NightOver, PastOne, OneOClock

\* A night on which the ticker fires in the first minutes after one o'clock, and on
\* which no statement fails and no restart falls, leaves the day before with its
\* statistics (updateExecutionStatistics of the statistics task): the total counts every
\* task of the day that is still there and none of another day, whichever tasks cleanups
\* remove, unless somebody had the day counted before it was over.
THEOREM StatisticsAreComplete == Spec => []GoodNightCounts
<1>1. Inv /\ NightWork => GoodNightCounts
  <2> SUFFICES ASSUME Inv, NightWork, NEW d \in Days, d > 1, NightOver(d), d \notin missed
               PROVE  /\ stats[d - 1] # NoStats
                      /\ d - 1 \notin early => stats[d - 1].total \in Created(d - 1)..Born(d - 1)
    BY DEF GoodNightCounts
  <2>1. d - 1 \in Days
    BY AuditAssumption DEF Days
  <2>2. stats[d - 1] # NoStats
    BY NightDone DEF Counted
  <2> PICK e \in Days : e = d - 1
    BY <2>1
  <2> DEFINE n == stats[e].total
  <2>3. n \in Nat /\ Created(e) \in Nat /\ Born(e) \in Nat
    <3>1. stats[e] \in Counts
      BY <2>2 DEF Inv, TypeOK
    <3> QED  BY <3>1, CreatedIs DEF Inv, Counts
  <2>4. e \notin early => Created(e) <= n /\ n <= Born(e)
    BY <2>2 DEF Inv, StatsAreTrue, True
  <2> QED  BY <2>2, <2>3, <2>4
<1> QED  BY <1>1, InvHolds, NightHolds, PTL

\* Such a night also leaves no row in either log that is older than the retention
\* (CleanupOldAuditLogs of the nightly cleanup), whatever the nights before it left
\* behind.
THEOREM CleanupCatchesUp == Spec => []ExpiryCatchesUp
<1>1. NightWork => ExpiryCatchesUp
  <2> SUFFICES ASSUME NightWork, NEW d \in Days, d > 1, NightOver(d), d \notin missed,
                      NEW t \in Logs, NEW i \in Visible(t)
               PROVE  log[t][i].at >= d * HoursPerDay + 1 - RetentionDays * HoursPerDay
    BY DEF ExpiryCatchesUp
  <2>1. Young(t, d)
    BY NightDone DEF Logs
  <2>2. log[t][i].at >= OneOClock(d) - RetentionDays * HoursPerDay
    BY <2>1 DEF Young
  <2>3. OneOClock(d) - RetentionDays * HoursPerDay = d * HoursPerDay + 1 - RetentionDays * HoursPerDay
    <3> DEFINE x == d * HoursPerDay
               y == RetentionDays * HoursPerDay
    <3>1. x \in Int /\ y \in Int
      BY AuditAssumption DEF Days
    <3>2. OneOClock(d) = x + 1
      BY DEF OneOClock
    <3> HIDE DEF x, y
    <3>3. OneOClock(d) - y = x + 1 - y
      BY <3>1, <3>2
    <3> QED  BY <3>3 DEF x, y
  <2> QED  BY <2>2, <2>3, Zenon
<1> QED  BY <1>1, NightHolds, PTL
=============================================================================
