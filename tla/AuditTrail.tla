----------------------------- MODULE AuditTrail -----------------------------
(***************************************************************************)
(* The audit and execution logs and the daily statistics                   *)
(* (audit_service.go, the statistics task and the log queries of           *)
(* task_service.go, the paged lists of http_task_controller.go).  The      *)
(* goroutines that write log rows run beside the transactions they report; *)
(* an hourly ticker counts yesterday's tasks and deletes old rows at one   *)
(* o'clock; users read the lists page by page, each page with a Count, a   *)
(* Find and, of tasks, a cached answer; they ask for a count or a cleanup  *)
(* at any time; the server may be restarted.                               *)
(*                                                                         *)
(* Time is counted in hours.  A row is known by its place in the table of  *)
(* all rows ever written, in the order of their timestamps, which are      *)
(* distinct.                                                               *)
(***************************************************************************)
EXTENDS Integers, Sequences, FiniteSets

CONSTANTS
    HoursPerDay,        \* 24 in the code
    ZoneOffset,         \* local time minus UTC, in hours
    RetentionDays,      \* what the nightly cleanup keeps (30)
    Sizes,              \* the page sizes readers ask for
    DefaultSize, LargestSize,   \* what a list of tasks makes of them (20, 100)
    Phases,             \* where in the hour the ticker may fire
    NoStats,            \* no row in execution_statistics
    MaxDays,            \* bound: days of the run
    MaxOps,             \* bound: tasks created or finished
    MaxEvents,          \* bound: counts, cleanups and readings users ask for, and faults
    MaxFaults           \* bound: failed statements and restarts among them

ASSUME AuditAssumption ==
    /\ HoursPerDay \in Nat /\ HoursPerDay > 2 /\ ZoneOffset \in 0..(HoursPerDay - 1)
    /\ RetentionDays \in Nat \ {0} /\ Sizes \subseteq Nat /\ DefaultSize \in 1..LargestSize
    /\ Phases \subseteq {"early", "late"} /\ MaxDays \in Nat
    /\ NoStats \notin [total : Nat, done : Nat]

Days == 1..MaxDays

VARIABLES
    clock,              \* local time, in hours; day 1 is the first
    phase, ticked,      \* the ticker: its place in the hour, will it do nothing more in this one?
    ops,                \* transactions of the task service and the goroutines that log them
    log,                \* the rows written to tasks, audit_logs and task_execution_logs
    deleted,            \* the rows of each table that are gone (of tasks: soft-deleted)
    ended,              \* the tasks that have ended
    stats,              \* execution_statistics
    job,                \* the statistics task and the two requests that do the same
    reader,             \* somebody who pages through a list
    fills, cache,       \* pages of the task list: goroutines that cache one; those cached
    requests, faults,   \* counters of the bounds
    missed,             \* nights without the ticker's five minutes, with a failure or a restart
    early               \* days that were counted before they were over

lists == <<reader, fills, cache>>
vars == <<clock, phase, ticked, ops, log, deleted, ended, stats, job, lists,
          requests, faults, missed, early>>

Day(t)  == t \div HoursPerDay
Hour(t) == t % HoursPerDay

Logs   == {"audit", "exec"}
Tables == Logs \cup {"tasks"}
Jobs   == {"nightly", "update", "cleanup"}
NoJob  == [at |-> "idle", date |-> 0, counts |-> NoStats, cutoff |-> 0]
NoReader == [table |-> "none", page |-> 0, size |-> 0, at |-> "ask", total |-> 0,
             from |-> {}, seen |-> {}, shaken |-> {}]

Row    == [op : Nat, at : Nat]
Op     == [tx : {"open", "committed", "rolled back"}, task : Nat, todo : {{"audit"}, {"exec"}, {}}]
Counts == [total : Nat, done : Nat]
Job    == [at : Logs \cup {"idle", "count", "store"}, date : Int, counts : Counts \cup {NoStats}, cutoff : Int]
Reader == [table : Tables \cup {"none"}, page : Nat, size : Nat, at : {"ask", "find"}, total : Nat,
           from : SUBSET Nat, seen : SUBSET Nat, shaken : SUBSET {"grown", "shrunk", "stale"}]
Answer == [page : Nat, size : Nat, rows : SUBSET Nat, total : Nat]

TypeOK ==
    /\ clock \in Nat /\ phase \in Phases /\ ticked \in BOOLEAN
    /\ ops \in Seq(Op)
    /\ log \in [Tables -> Seq(Row)]
    /\ deleted \in [Tables -> SUBSET Nat] /\ ended \subseteq Nat
    /\ stats \in [Days -> Counts \cup {NoStats}]
    /\ job \in [Jobs -> Job]
    /\ reader \in Reader /\ fills \subseteq Answer /\ cache \subseteq Answer
    /\ requests \in Nat /\ faults \in Nat
    /\ missed \subseteq Nat /\ early \subseteq Nat

Init ==
    /\ clock = HoursPerDay
    /\ phase \in Phases /\ ticked = TRUE
    /\ ops = <<>>
    /\ log = [t \in Tables |-> <<>>]
    /\ deleted = [t \in Tables |-> {}] /\ ended = {}
    /\ stats = [d \in Days |-> NoStats]
    /\ job = [j \in Jobs |-> NoJob]
    /\ reader = NoReader /\ fills = {} /\ cache = {}
    /\ requests = 0 /\ faults = 0
    /\ missed = {} /\ early = {}

-----------------------------------------------------------------------------
(***************************************************************************)
(* Transactions and their log rows.                                        *)
(***************************************************************************)

Visible(t) == DOMAIN log[t] \ deleted[t]
CreatedOn(d) == {i \in Visible("tasks") : Day(log["tasks"][i].at) = d}
Created(d) == Cardinality(CreatedOn(d))

\* A row more in front of the list, when its reader has counted and not found yet.
Grown(t) ==
    IF reader.table = t /\ t # "exec" /\ reader.at = "find"
    THEN [reader EXCEPT !.shaken = @ \cup {"grown"}] ELSE reader

\* Rows that go from a list, in front of its reader.
Shrunk(t, gone) ==
    IF reader.table = t /\ t # "audit" /\ gone # {}
    THEN [reader EXCEPT !.shaken = @ \cup {"shrunk"}] ELSE reader

\* CreateTask has committed, and starts the goroutine that logs it.
CreateTask ==
    /\ Len(ops) < MaxOps
    /\ log' = [log EXCEPT !["tasks"] = Append(@, [op |-> Len(ops) + 1, at |-> clock])]
    /\ ops' = Append(ops, [tx |-> "committed", task |-> 0, todo |-> {"audit"}])
    /\ reader' = Grown("tasks")
    /\ UNCHANGED <<clock, phase, ticked, deleted, ended, stats, job, fills, cache,
                   requests, faults, missed, early>>

\* A transaction that ends task i; the computation of progress starts the goroutine
\* that logs it before the commit.
FinishTask(i) ==
    /\ Len(ops) < MaxOps
    /\ i \notin ended /\ \A o \in DOMAIN ops : ops[o].task # i
    /\ ops' = Append(ops, [tx |-> "open", task |-> i, todo |-> {"audit"}])
    /\ UNCHANGED <<clock, phase, ticked, log, deleted, ended, stats, job, lists,
                   requests, faults, missed, early>>

Commit(i) ==
    /\ ops[i].tx = "open"
    /\ ops' = [ops EXCEPT ![i].tx = "committed", ![i].task = 0]
    /\ ended' = ended \cup {ops[i].task}
    /\ UNCHANGED <<clock, phase, ticked, log, deleted, stats, job, lists,
                   requests, faults, missed, early>>

Fault ==
    /\ faults < MaxFaults /\ requests + faults < MaxEvents
    /\ faults' = faults + 1

Rollback(i) ==
    /\ ops[i].tx = "open" /\ Fault
    /\ ops' = [ops EXCEPT ![i].tx = "rolled back", ![i].task = 0]
    /\ UNCHANGED <<clock, phase, ticked, log, deleted, ended, stats, job, lists,
                   requests, missed, early>>

\* LogTaskAction, then LogTaskExecution; a failed one is reported to the server's log.
LogRow(i, t) ==
    /\ t \in ops[i].todo
    /\ \/ /\ log' = [log EXCEPT ![t] = Append(@, [op |-> i, at |-> clock])]
          /\ reader' = Grown(t)
          /\ UNCHANGED faults
       \/ Fault /\ UNCHANGED <<log, reader>>
    /\ ops' = [ops EXCEPT ![i].todo = IF t = "audit" THEN {"exec"} ELSE {}]
    /\ UNCHANGED <<clock, phase, ticked, deleted, ended, stats, job, fills, cache,
                   requests, missed, early>>

-----------------------------------------------------------------------------
(***************************************************************************)
(* Counting and cleaning up: jobs of several statements.                   *)
(***************************************************************************)

\* The day UpdateDailyStatistics means by today: Truncate rounds in UTC.
TruncatedDay == Day(((clock - ZoneOffset) \div HoursPerDay) * HoursPerDay + ZoneOffset)

\* mutant: the statistics task counts the day that has just begun
StartedDay == Day(clock)
\* now.AddDate(0, 0, -1)
Yesterday == Day(clock) - 1

Cutoff(days) == clock - days * HoursPerDay

IsNight == Hour(clock) = 1 /\ phase = "early"

\* The hourly tick; it counts yesterday in the first minutes after one o'clock, and
\* does nothing at any other time.
Tick ==
    /\ ~ticked /\ ticked' = TRUE
    /\ job' = [job EXCEPT !["nightly"] =
            IF IsNight /\ Yesterday \in Days THEN [NoJob EXCEPT !.at = "count", !.date = Yesterday] ELSE @]
    /\ missed' = IF Hour(clock) = 1 /\ ~IsNight THEN missed \cup {Day(clock)} ELSE missed
    /\ UNCHANGED <<clock, phase, ops, log, deleted, ended, stats, lists, requests, faults, early>>

Request == requests + faults < MaxEvents /\ requests' = requests + 1

UpdateDailyStatistics ==
    /\ Request /\ job["update"] = NoJob /\ TruncatedDay \in Days
    /\ job' = [job EXCEPT !["update"] = [NoJob EXCEPT !.at = "count", !.date = TruncatedDay]]
    /\ UNCHANGED <<clock, phase, ticked, ops, log, deleted, ended, stats, lists, faults, missed, early>>

\* Fewer than one day are refused.
CleanupOldLogs(days) ==
    /\ days >= 1
    /\ Request /\ job["cleanup"] = NoJob
    /\ job' = [job EXCEPT !["cleanup"] = [NoJob EXCEPT !.at = "audit", !.cutoff = Cutoff(days)]]
    /\ UNCHANGED <<clock, phase, ticked, ops, log, deleted, ended, stats, lists, faults, missed, early>>

\* CleanupOldRecords, one transaction: soft-deletes old tasks that have ended, but not
\* those that failed.  Fewer than one day are refused.
CleanupOldRecords(days) ==
    /\ days >= 1 /\ Request
    /\ \E gone \in SUBSET {i \in Visible("tasks") \cap ended : log["tasks"][i].at < Cutoff(days)} :
        /\ deleted' = [deleted EXCEPT !["tasks"] = @ \cup gone]
        /\ reader' = Shrunk("tasks", gone)
    /\ UNCHANGED <<clock, phase, ticked, ops, log, ended, stats, job, fills, cache, faults, missed, early>>

\* The nightly job goes on with the cleanup, whether or not the count succeeded.
AfterCount(j) ==
    IF j = "nightly" THEN [NoJob EXCEPT !.at = "audit", !.cutoff = Cutoff(RetentionDays)] ELSE NoJob

MissedBy(j) == IF j = "nightly" THEN {Day(clock)} ELSE {}

\* UpdateExecutionStatistics reads the counts of the day.
Count(j) ==
    /\ job[j].at = "count"
    /\ LET counted == [total |-> Created(job[j].date),
                       done |-> Cardinality(CreatedOn(job[j].date) \cap ended)] IN
       job' = [job EXCEPT ![j] = [@ EXCEPT !.at = "store", !.counts = counted]]
    /\ early' = IF job[j].date = Day(clock) THEN early \cup {Day(clock)} ELSE early
    /\ UNCHANGED <<clock, phase, ticked, ops, log, deleted, ended, stats, lists, requests, faults, missed>>

\* gorm's FirstOrCreate.  The struct with the new counts is also the one the found
\* row is read into, so either of the two may be what an existing row ends up with.
FirstOrCreate(old, new) == IF old = NoStats THEN {new} ELSE {old, new}

StoreCounts(j) ==
    /\ job[j].at = "store"
    /\ \/ /\ \E s \in FirstOrCreate(stats[job[j].date], job[j].counts) :
                stats' = [stats EXCEPT ![job[j].date] = s]
          /\ UNCHANGED <<faults, missed>>
       \/ Fault /\ missed' = missed \cup MissedBy(j) /\ UNCHANGED stats
    /\ job' = [job EXCEPT ![j] = AfterCount(j)]
    /\ UNCHANGED <<clock, phase, ticked, ops, log, deleted, ended, lists, requests, early>>

\* mutant: only the rows that have expired since the last night
ExpiredLastDay(r, cutoff) == r.at < cutoff /\ r.at >= cutoff - HoursPerDay
Expired(r, cutoff) == r.at < cutoff

\* CleanupOldAuditLogs: the audit log, then the execution log, which is not reached
\* when the first DELETE fails.
Delete(j) ==
    /\ job[j].at \in Logs
    /\ LET t == job[j].at
           gone == {i \in Visible(t) : Expired(log[t][i], job[j].cutoff)} IN
       \/ /\ deleted' = [deleted EXCEPT ![t] = @ \cup gone]
          /\ reader' = Shrunk(t, gone)
          /\ job' = [job EXCEPT ![j] = IF t = "audit" THEN [@ EXCEPT !.at = "exec"] ELSE NoJob]
          /\ UNCHANGED <<faults, missed>>
       \/ /\ Fault
          /\ missed' = missed \cup MissedBy(j)
          /\ job' = [job EXCEPT ![j] = NoJob]
          /\ UNCHANGED <<deleted, reader>>
    /\ UNCHANGED <<clock, phase, ticked, ops, log, ended, stats, fills, cache, requests, early>>

-----------------------------------------------------------------------------
(***************************************************************************)
(* Paged reading.                                                          *)
(***************************************************************************)

\* What the lists of tasks make of the page and the size somebody asks for.  The
\* queries of the logs take them as they are.
AskedPage(page) == IF page < 1 THEN 1 ELSE page
AskedSize(size) == IF size < 1 \/ size > LargestSize THEN DefaultSize ELSE size

\* The place of a visible row in the list: tasks and the audit log are listed newest
\* first, the execution log oldest first.
Place(t, i) == Cardinality({j \in Visible(t) : IF t = "exec" THEN j <= i ELSE j >= i})

\* mutant: pages are counted from zero
PageFromZero(t, page, size) ==
    {i \in Visible(t) : Place(t, i) \in (page * size + 1)..((page + 1) * size)}
\* Offset (page - 1) * size, limit size.
PageOf(t, page, size) ==
    {i \in Visible(t) : Place(t, i) \in ((page - 1) * size + 1)..(page * size)}

\* Somebody begins to read; of a log with a size, of the tasks also without a page.
OpenLog(t, page, size) ==
    /\ reader.table = "none" /\ Request
    /\ t # "tasks" => size > 0 /\ page > 0
    /\ reader' = [NoReader EXCEPT
            !.table = t, !.from = Visible(t),
            !.page = IF t = "tasks" THEN AskedPage(page) ELSE page,
            !.size = IF t = "tasks" THEN AskedSize(size) ELSE size]
    /\ UNCHANGED <<clock, phase, ticked, ops, log, deleted, ended, stats, job, fills, cache,
                   faults, missed, early>>

Total(t) == Cardinality(Visible(t))

\* The reader has a page, and asks for the next until the total says that there is none.
Turned(rows, total) ==
    [reader EXCEPT !.at = "ask", !.seen = @ \cup rows,
                   !.page = IF @ * reader.size < total THEN @ + 1 ELSE 0]

Asking == reader.table # "none" /\ reader.page > 0 /\ reader.at = "ask"
Cached == {e \in cache : reader.table = "tasks" /\ e.page = reader.page /\ e.size = reader.size}

\* GetTasks looks into the cache first.
AnswerFromCache ==
    /\ Asking
    /\ \E e \in Cached :
        LET fresh == e.rows = PageOf("tasks", e.page, e.size) /\ e.total = Total("tasks") IN
        reader' = [Turned(e.rows, e.total) EXCEPT
                    !.shaken = (@ \ {"grown"}) \cup IF fresh THEN {} ELSE {"stale"}]
    /\ UNCHANGED <<clock, phase, ticked, ops, log, deleted, ended, stats, job, fills, cache,
                   requests, faults, missed, early>>

\* The query's Count.
CountRows ==
    /\ Asking /\ Cached = {}
    /\ reader' = [reader EXCEPT !.at = "find", !.total = Total(reader.table), !.shaken = @ \ {"grown"}]
    /\ UNCHANGED <<clock, phase, ticked, ops, log, deleted, ended, stats, job, fills, cache,
                   requests, faults, missed, early>>

\* The query's Find; GetTasks starts a goroutine that caches a page of tasks.  A page
\* without rows is never taken from the cache.
FindPage ==
    /\ reader.table # "none" /\ reader.at = "find"
    /\ LET rows == PageOf(reader.table, reader.page, reader.size) IN
       \/ /\ reader' = Turned(rows, reader.total)
          /\ fills' = IF reader.table = "tasks" /\ rows # {}
                      THEN fills \cup {[page |-> reader.page, size |-> reader.size,
                                        rows |-> rows, total |-> reader.total]}
                      ELSE fills
          /\ UNCHANGED faults
       \/ Fault /\ reader' = [reader EXCEPT !.at = "ask"] /\ UNCHANGED fills
    /\ UNCHANGED <<clock, phase, ticked, ops, log, deleted, ended, stats, job, cache,
                   requests, missed, early>>

\* CacheTaskList overwrites what is cached for the page.
CacheTaskList(f) ==
    /\ fills' = fills \ {f}
    /\ cache' = {e \in cache : e.page # f.page \/ e.size # f.size} \cup {f}
    /\ UNCHANGED <<clock, phase, ticked, ops, log, deleted, ended, stats, job, reader,
                   requests, faults, missed, early>>

\* An entry expires, or one of the goroutines of CreateTask, StartTask and CancelTask
\* invalidates it.
EntryGoes(e) ==
    /\ cache' = cache \ {e}
    /\ UNCHANGED <<clock, phase, ticked, ops, log, deleted, ended, stats, job, reader, fills,
                   requests, faults, missed, early>>

CloseLog ==
    /\ reader.table # "none" /\ reader.page = 0
    /\ reader' = NoReader
    /\ UNCHANGED <<clock, phase, ticked, ops, log, deleted, ended, stats, job, fills, cache,
                   requests, faults, missed, early>>

-----------------------------------------------------------------------------
(***************************************************************************)
(* Time and restarts.  Transactions, goroutines, jobs and readers are done *)
(* within the hour, and what is cached has expired by then.                *)
(***************************************************************************)
NextHour ==
    /\ clock < MaxDays * HoursPerDay + 1
    /\ ticked /\ reader = NoReader /\ fills = {}
    /\ \A j \in Jobs : job[j] = NoJob
    /\ \A i \in DOMAIN ops : ops[i].tx # "open" /\ ops[i].todo = {}
    /\ clock' = clock + 1 /\ ticked' = (Hour(clock + 1) # 1) /\ cache' = {}
    /\ UNCHANGED <<phase, ops, log, deleted, ended, stats, job, reader, fills, requests, faults,
                   missed, early>>

\* The new process starts its ticker now: it fires for the first time in an hour.  A
\* reader whose page was being read asks for it again.
Restart ==
    /\ Fault
    /\ phase' \in Phases /\ ticked' = TRUE
    /\ ops' = [i \in DOMAIN ops |-> [ops[i] EXCEPT !.todo = {}, !.task = 0,
                    !.tx = IF @ = "open" THEN "rolled back" ELSE @]]
    /\ job' = [j \in Jobs |-> NoJob]
    /\ reader' = [reader EXCEPT !.at = "ask"] /\ fills' = {}
    /\ missed' = IF job["nightly"] # NoJob \/ (Hour(clock) = 1 /\ ~ticked)
                 THEN missed \cup {Day(clock)} ELSE missed
    /\ UNCHANGED <<clock, log, deleted, ended, stats, cache, requests, early>>

Next ==
    \/ CreateTask \/ \E i \in Visible("tasks") : FinishTask(i)
    \/ \E i \in DOMAIN ops : Commit(i) \/ Rollback(i) \/ (\E t \in Logs : LogRow(i, t))
    \/ Tick \/ UpdateDailyStatistics \/ (\E n \in 0..2 : CleanupOldLogs(n) \/ CleanupOldRecords(n))
    \/ \E j \in Jobs : Count(j) \/ StoreCounts(j) \/ Delete(j)
    \/ (\E t \in Tables, page \in {0, 1}, size \in Sizes : OpenLog(t, page, size)) \/ CloseLog
    \/ AnswerFromCache \/ CountRows \/ FindPage
    \/ (\E f \in fills : CacheTaskList(f)) \/ \E e \in cache : EntryGoes(e)
    \/ NextHour \/ Restart

Spec == Init /\ [][Next]_vars

-----------------------------------------------------------------------------
(***************************************************************************)
(* Properties.                                                             *)
(***************************************************************************)
NightOver(d) ==
    LET one == d * HoursPerDay + 1 IN
    clock > one \/ (clock = one /\ ticked /\ job["nightly"] = NoJob)

Born(d) == Cardinality({i \in DOMAIN log["tasks"] : Day(log["tasks"][i].at) = d})

\* After a night that was not missed the day before has its statistics, and they count
\* every task of that day that is still there and none of another day, among cleanups
\* that remove tasks; unless somebody had the day counted while it lasted.
GoodNightCounts ==
    \A d \in Days : d > 1 /\ NightOver(d) /\ d \notin missed =>
        /\ stats[d - 1] # NoStats
        /\ d - 1 \notin early => stats[d - 1].total \in Created(d - 1)..Born(d - 1)

\* A night whose cleanup succeeds makes up for the nights before: no row of either log
\* is older than the retention, although a failed DELETE skips the second table.
ExpiryCatchesUp ==
    \A d \in Days : d > 1 /\ NightOver(d) /\ d \notin missed =>
        \A t \in Logs : \A i \in Visible(t) :
            log[t][i].at >= d * HoursPerDay + 1 - RetentionDays * HoursPerDay

\* Somebody who has read a list to the end has seen every row that was there at the
\* beginning and still is, however many were added between the pages, and however many
\* old rows of the audit log were deleted.  Three things shake the reader, and each of
\* them may cost it rows: a row in front of the list between the last page's Count and
\* its Find, rows removed from tasks or the execution log, an outdated cached page.
NothingSkipped ==
    reader.table # "none" /\ reader.page = 0 /\ reader.shaken = {} =>
        reader.from \cap Visible(reader.table) \subseteq reader.seen

-----------------------------------------------------------------------------
(***************************************************************************)
(* What comments say and the code does not do; see the README.             *)
(***************************************************************************)

\* "Every day at one o'clock": the day before has its statistics, in whatever minute
\* the server was started.
EveryDayIsCounted == \A d \in Days : d > 1 /\ NightOver(d) => stats[d - 1] # NoStats

\* The log tells what happened: only committed changes are logged.
LoggedMeansCommitted ==
    \A t \in Logs : \A i \in Visible(t) : ops[log[t][i].op].tx # "rolled back"

\* "today" is the day it is.
TodayMeansToday == job["update"].at = "count" => job["update"].date = Day(clock)

\* The night's count replaces one that was asked for during the day.
CountIsFinal ==
    \A d \in Days : d > 1 /\ NightOver(d) /\ d \notin missed =>
        stats[d - 1].total \in Created(d - 1)..Born(d - 1)

\* The statistics of a day show how its tasks ended.
OutcomesAreCounted ==
    \A d \in Days : d > 1 /\ NightOver(d) /\ d \notin missed /\ d - 1 \notin early =>
        stats[d - 1].done >= Cardinality(CreatedOn(d - 1) \cap ended)

\* Pages are complete whatever shakes their reader; and all but one kind at a time.
CompleteAmong(kinds) ==
    reader.table # "none" /\ reader.page = 0 /\ reader.shaken \subseteq kinds =>
        reader.from \cap Visible(reader.table) \subseteq reader.seen
CompleteThoughGrown  == CompleteAmong({"grown"})
CompleteThoughShrunk == CompleteAmong({"shrunk"})
CompleteThoughStale  == CompleteAmong({"stale"})
=============================================================================
