----------------------------- MODULE TaskQueue -----------------------------
(***************************************************************************)
(* The task queue of the server (server/pkg/service/task_queue_manager.go):*)
(* a priority queue, a map of running tasks, the load of each host, a pool *)
(* of workers fed through buffered channels, and one RWMutex over the      *)
(* first three.                                                            *)
(*                                                                         *)
(* A critical section is one step, except where the code can be seen from  *)
(* outside in the middle of one: the loop of processQueue (a worker takes  *)
(* a task from its channel without the lock) and the two places where a    *)
(* goroutine asks for the lock again while it holds it.                    *)
(***************************************************************************)
EXTENDS Integers, Sequences, FiniteSetsExt

CONSTANTS
    Tasks, Hosts, Workers,
    HostIDs,            \* HostIDs[t]: the hosts of task t, in order
    Priorities,         \* the priorities a caller may choose
    MaxConcurrentTasks, MaxTasksPerHost, QueueCapacity,
    ChanCap,            \* buffer of a worker's channel (10 in the code)
    MaxRetries,         \* 3 in the code
    LeastBusy,          \* LeastConnections or ResourceBased, else RoundRobin
    Throttling,         \* the values that AdaptiveThrottling is configured with
    Cancels,            \* do callers cancel tasks?
    StatusQueries,      \* do callers ask for the status of the queue?
    LoadReports,        \* does anything call UpdateHostLoad?
    IdleHosts,          \* may a host be unused for five minutes?
    Shutdowns,          \* may the service be shut down?
    MaxEnqueues,        \* bound: how often EnqueueTask succeeds
    None

ASSUME QueueBounds ==
    /\ MaxConcurrentTasks \in Nat /\ MaxTasksPerHost \in Nat \ {0} /\ QueueCapacity \in Nat
    /\ ChanCap \in Nat \ {0} /\ MaxRetries \in Nat /\ MaxEnqueues \in Nat
    /\ Priorities \subseteq Nat /\ Throttling \subseteq BOOLEAN
ASSUME QueueSets == IsFiniteSet(Tasks) /\ HostIDs \in [Tasks -> Seq(Hosts)] /\ Workers # {}

VARIABLES
    taskQueue,          \* sequence of entries
    runningTasks,       \* runningTasks[t]: the running entry of task t, or None
    hostLoads,          \* hosts that have an entry in the map hostLoads
    load,               \* RunningTasks of a host
    available, overUsed,\* Available; CPUUsage or MemoryUsage above 80
    stale,              \* hosts whose LastUpdated is more than five minutes old
    channels,           \* channels[w]: buffered entries of worker w
    executing,          \* executing[w]: the entry in executeTask, or None
    sleeping,           \* entries whose retry goroutine sleeps
    lock,               \* the RWMutex
    scanAt,             \* loop index of processQueue (from 1) while it has the lock
    down, stopped,      \* Shutdown was called; workers that returned
    crashed,            \* a goroutine panicked: the process is gone
    adaptiveThrottling, \* from the configuration
    clock               \* time.Now() of EnqueueTask

queueVars  == <<taskQueue, runningTasks, sleeping, clock>>
loadVars   == <<hostLoads, load, available, overUsed, stale>>
workerVars == <<channels, executing, stopped>>
lockVars   == <<lock, scanAt>>
lifeVars   == <<down, crashed, adaptiveThrottling>>
vars       == <<queueVars, loadVars, workerVars, lockVars, lifeVars>>

\* QueuedTask.  CreatedAt tells entries apart.
Entry == [task : Tasks, priority : Priorities, createdAt : 1..MaxEnqueues, retries : 0..MaxRetries]
ASSUME NoneIsNoEntry == None \notin Entry

\* "scan": held by processQueue; "reading": GetQueueStatus is between its own RLock
\* and the one of getSystemLoad; "stuck": a goroutine waits for itself.
Lock == {"free", "scan", "reading", "stuck"}

TypeOK ==
    /\ taskQueue \in Seq(Entry)
    /\ runningTasks \in [Tasks -> Entry \cup {None}]
    /\ hostLoads \subseteq Hosts
    /\ load \in [Hosts -> Nat]
    /\ available \in [Hosts -> BOOLEAN]
    /\ overUsed \in [Hosts -> BOOLEAN]
    /\ stale \subseteq Hosts
    /\ channels \in [Workers -> Seq(Entry)]
    /\ executing \in [Workers -> Entry \cup {None}]
    /\ sleeping \subseteq Entry
    /\ lock \in Lock
    /\ scanAt \in Nat
    /\ down \in BOOLEAN /\ crashed \in BOOLEAN /\ adaptiveThrottling \in Throttling
    /\ stopped \subseteq Workers
    /\ clock \in 0..MaxEnqueues

Init ==
    /\ taskQueue = << >>
    /\ runningTasks = [t \in Tasks |-> None]
    /\ hostLoads = {} /\ stale = {}
    /\ load = [h \in Hosts |-> 0]
    /\ available = [h \in Hosts |-> TRUE]
    /\ overUsed = [h \in Hosts |-> FALSE]
    /\ channels = [w \in Workers |-> << >>]
    /\ executing = [w \in Workers |-> None]
    /\ sleeping = {}
    /\ lock = "free" /\ scanAt = 0
    /\ down = FALSE /\ stopped = {} /\ crashed = FALSE
    /\ adaptiveThrottling \in Throttling
    /\ clock = 0

\* Lock() succeeds, in a process that lives.
Locks == lock = "free" /\ ~crashed

Running == {t \in Tasks : runningTasks[t] # None}
Items(s) == {s[i] : i \in DOMAIN s}
HostSet(t) == Items(HostIDs[t])
Times(t, h) == Cardinality({i \in DOMAIN HostIDs[t] : HostIDs[t][i] = h})

RemoveAt(s, i) == SubSeq(s, 1, i - 1) \o SubSeq(s, i + 1, Len(s))

-----------------------------------------------------------------------------
(***************************************************************************)
(* The queue.                                                              *)
(***************************************************************************)

Before(e, f) ==
    \/ e.priority > f.priority
    \/ e.priority = f.priority /\ e.createdAt < f.createdAt

\* mutant: the time is not looked at, so a retry goes behind its younger peers
InsertedBehindPeers(s, e) ==
    LET i == CHOOSE j \in 1..(Len(s) + 1) :
                /\ j <= Len(s) => e.priority > s[j].priority
                /\ \A k \in 1..(j - 1) : e.priority <= s[k].priority
    IN  SubSeq(s, 1, i - 1) \o <<e>> \o SubSeq(s, i, Len(s))
\* insertTaskByPriority: in front of the first entry that it precedes.
Inserted(s, e) ==
    LET i == CHOOSE j \in 1..(Len(s) + 1) :
                /\ j <= Len(s) => Before(e, s[j])
                /\ \A k \in 1..(j - 1) : ~Before(e, s[k])
    IN  SubSeq(s, 1, i - 1) \o <<e>> \o SubSeq(s, i, Len(s))

\* mutant: one more than the capacity
FullByOne == Len(taskQueue) > QueueCapacity
Full == Len(taskQueue) >= QueueCapacity

EnqueueTask(t, p) ==
    /\ Locks /\ clock < MaxEnqueues
    /\ ~Full
    /\ t \notin Running
    /\ \A i \in DOMAIN taskQueue : taskQueue[i].task # t
    /\ clock' = clock + 1
    /\ taskQueue' = Inserted(taskQueue,
            [task |-> t, priority |-> p, createdAt |-> clock + 1, retries |-> 0])
    /\ UNCHANGED <<runningTasks, sleeping, loadVars, workerVars, lockVars, lifeVars>>

\* updateHostLoadForTask: the load of the hosts of t, and their LastUpdated.
Loaded(t) == [h \in Hosts |-> load[h] + Times(t, h)]
Unloaded(t) == [h \in Hosts |-> IF load[h] > Times(t, h) THEN load[h] - Times(t, h) ELSE 0]
Touched(t) == hostLoads' = hostLoads \cup HostSet(t) /\ stale' = stale \ HostSet(t)

\* delete(runningTasks, t)
\* mutant: the entry stays in the map
StillRunning(t) == runningTasks
NotRunning(t) == [runningTasks EXCEPT ![t] = None]

\* From the queue, else from the running tasks: the worker goes on with it.
CancelTask(t) ==
    /\ Cancels /\ Locks
    /\ \/ \E i \in DOMAIN taskQueue :
            /\ taskQueue[i].task = t
            /\ \A j \in 1..(i - 1) : taskQueue[j].task # t
            /\ taskQueue' = RemoveAt(taskQueue, i)
            /\ UNCHANGED <<runningTasks, loadVars>>
       \/ /\ \A i \in DOMAIN taskQueue : taskQueue[i].task # t
          /\ t \in Running
          /\ runningTasks' = NotRunning(t)
          /\ load' = Unloaded(t)
          /\ Touched(t)
          /\ UNCHANGED <<taskQueue, available, overUsed>>
    /\ UNCHANGED <<sleeping, clock, workerVars, lockVars, lifeVars>>

-----------------------------------------------------------------------------
(***************************************************************************)
(* processQueue, once a second.                                            *)
(***************************************************************************)

\* With adaptive throttling getSystemLoad asks for the read lock, which waits for
\* the write lock that this goroutine holds.
ProcessQueue ==
    /\ Locks
    /\ Cardinality(Running) < MaxConcurrentTasks
    /\ IF adaptiveThrottling THEN lock' = "stuck" /\ scanAt' = scanAt
                             ELSE lock' = "scan" /\ scanAt' = 1
    /\ UNCHANGED <<queueVars, loadVars, workerVars, lifeVars>>

\* adjustConcurrency calls getSystemLoad too, whatever the number of tasks.  What
\* follows that call, the new limit, is never reached.
AdjustConcurrency ==
    /\ adaptiveThrottling /\ Locks
    /\ lock' = "stuck"
    /\ UNCHANGED <<queueVars, loadVars, workerVars, scanAt, lifeVars>>

ScanOver == scanAt > Len(taskQueue) \/ Cardinality(Running) >= MaxConcurrentTasks

Refuses(h) == h \in hostLoads /\ (~available[h] \/ load[h] >= MaxTasksPerHost \/ overUsed[h])
CanExecute(t) == \A h \in HostSet(t) : ~Refuses(h)

ScanEnds ==
    /\ lock = "scan" /\ ~crashed /\ ScanOver
    /\ lock' = "free" /\ scanAt' = 0
    /\ UNCHANGED <<queueVars, loadVars, workerVars, lifeVars>>

\* The hosts in front of the one that refuses get their default entry.
ScanSkips ==
    /\ lock = "scan" /\ ~crashed /\ ~ScanOver
    /\ LET t == taskQueue[scanAt].task IN
       /\ ~CanExecute(t)
       /\ hostLoads' = hostLoads \cup
            {HostIDs[t][i] : i \in {j \in DOMAIN HostIDs[t] : \A k \in 1..j : ~Refuses(HostIDs[t][k])}}
    /\ scanAt' = scanAt + 1
    /\ UNCHANGED <<queueVars, load, available, overUsed, stale, workerVars, lock, lifeVars>>

\* selectWorker
Selected(w) == LeastBusy => \A v \in Workers : Len(channels[w]) <= Len(channels[v])

\* The entry goes to a channel with room.  A closed channel panics instead.
ScanDispatches(w) ==
    /\ lock = "scan" /\ ~crashed /\ ~ScanOver
    /\ LET e == taskQueue[scanAt] IN
       /\ CanExecute(e.task)
       /\ Selected(w) /\ Len(channels[w]) < ChanCap
       /\ taskQueue' = RemoveAt(taskQueue, scanAt)
       /\ runningTasks' = [runningTasks EXCEPT ![e.task] = e]
       /\ load' = Loaded(e.task)
       /\ Touched(e.task)
       /\ IF down THEN crashed' = TRUE /\ UNCHANGED channels
                  ELSE channels' = [channels EXCEPT ![w] = Append(@, e)] /\ UNCHANGED crashed
    /\ UNCHANGED <<sleeping, clock, available, overUsed, executing, stopped, lockVars, down,
                   adaptiveThrottling>>

\* mutant: the entry is taken out but not put back
Dropped(e) == RemoveAt(taskQueue, scanAt)
\* mutant: the entry is put back but not taken out first
PutBackTwice(e) == <<e>> \o taskQueue
\* The channel is full: the entry goes back to the front of the queue, and `break`
\* leaves the select but not the loop.
PutBack(e) == <<e>> \o RemoveAt(taskQueue, scanAt)

ScanPutsBack(w) ==
    /\ lock = "scan" /\ ~crashed /\ ~ScanOver
    /\ LET e == taskQueue[scanAt] IN
       /\ CanExecute(e.task)
       /\ Selected(w) /\ Len(channels[w]) >= ChanCap
       /\ IF down THEN crashed' = TRUE /\ UNCHANGED <<taskQueue, runningTasks, load>>
          ELSE /\ taskQueue' = PutBack(e)
               /\ runningTasks' = NotRunning(e.task)
               /\ UNCHANGED <<load, crashed>>
       /\ Touched(e.task)
    /\ UNCHANGED <<sleeping, clock, available, overUsed, workerVars, lockVars, down, adaptiveThrottling>>

-----------------------------------------------------------------------------
(***************************************************************************)
(* The workers and the retries.                                            *)
(***************************************************************************)

Idle(w) == executing[w] = None /\ w \notin stopped /\ ~crashed

\* The select of worker(): a task from the channel, which needs no lock.
WorkerReceives(w) ==
    /\ Idle(w) /\ channels[w] # << >>
    /\ executing' = [executing EXCEPT ![w] = Head(channels[w])]
    /\ channels' = [channels EXCEPT ![w] = Tail(@)]
    /\ UNCHANGED <<queueVars, loadVars, stopped, lockVars, lifeVars>>

RetriesLeft(e) == e.retries < MaxRetries

\* mutant: only a success releases the host
ReleasedIfOk(t, ok) == IF ok THEN Unloaded(t) ELSE load
Released(t, ok) == Unloaded(t)

\* executeTask after StartTask returned.
ExecuteTask(w, ok) ==
    /\ Locks
    /\ executing[w] # None
    /\ LET e == executing[w] IN
       /\ sleeping' = IF ~ok /\ RetriesLeft(e)
                      THEN sleeping \cup {[e EXCEPT !.retries = @ + 1]} ELSE sleeping
       /\ runningTasks' = NotRunning(e.task)
       /\ load' = Released(e.task, ok)
       /\ Touched(e.task)
    /\ executing' = [executing EXCEPT ![w] = None]
    /\ UNCHANGED <<taskQueue, clock, available, overUsed, channels, stopped, lockVars, lifeVars>>

\* The sleeping goroutine: neither the capacity nor the presence of the task in the
\* queue or among the running ones is checked.
RetryInserts(e) ==
    /\ Locks
    /\ e \in sleeping
    /\ sleeping' = sleeping \ {e}
    /\ taskQueue' = Inserted(taskQueue, e)
    /\ UNCHANGED <<runningTasks, clock, loadVars, workerVars, lockVars, lifeVars>>

-----------------------------------------------------------------------------
(***************************************************************************)
(* Host loads, status queries, shutdown.                                   *)
(***************************************************************************)

FiveMinutesPass(h) ==
    /\ IdleHosts /\ h \in hostLoads /\ h \notin stale /\ ~crashed
    /\ stale' = stale \cup {h}
    /\ UNCHANGED <<queueVars, hostLoads, load, available, overUsed, workerVars, lockVars, lifeVars>>

UpdateHostLoads ==
    /\ Locks
    /\ available' = [h \in Hosts |-> IF h \in hostLoads THEN h \notin stale ELSE available[h]]
    /\ UNCHANGED <<queueVars, hostLoads, load, overUsed, stale, workerVars, lockVars, lifeVars>>

UpdateHostLoad(h, over, av) ==
    /\ LoadReports /\ Locks
    /\ hostLoads' = hostLoads \cup {h}
    /\ overUsed' = [overUsed EXCEPT ![h] = over]
    /\ available' = [available EXCEPT ![h] = av]
    /\ stale' = stale \ {h}
    /\ UNCHANGED <<queueVars, load, workerVars, lockVars, lifeVars>>

\* GetQueueStatus takes the read lock twice.
StatusLocks ==
    /\ StatusQueries /\ Locks
    /\ lock' = "reading"
    /\ UNCHANGED <<queueVars, loadVars, workerVars, scanAt, lifeVars>>

StatusReturns ==
    /\ lock = "reading" /\ ~crashed
    /\ lock' = "free"
    /\ UNCHANGED <<queueVars, loadVars, workerVars, scanAt, lifeVars>>

\* A writer that waits makes the second RLock wait for it, and it waits for the
\* first RLock to be released.
WriterArrives ==
    /\ lock = "reading" /\ ~crashed
    /\ lock' = "stuck"
    /\ UNCHANGED <<queueVars, loadVars, workerVars, scanAt, lifeVars>>

\* Shutdown cancels the context and closes the channels, without the lock and
\* without waiting for the workers.
Shutdown ==
    /\ Shutdowns /\ ~down /\ ~crashed
    /\ down' = TRUE
    /\ UNCHANGED <<queueVars, loadVars, workerVars, lockVars, crashed, adaptiveThrottling>>

WorkerStops(w) ==
    /\ down /\ Idle(w)
    /\ stopped' = stopped \cup {w}
    /\ UNCHANGED <<queueVars, loadVars, channels, executing, lockVars, lifeVars>>

\* A closed and empty channel yields nil, which executeTask dereferences.
WorkerReceivesNil(w) ==
    /\ down /\ Idle(w) /\ channels[w] = << >>
    /\ crashed' = TRUE
    /\ UNCHANGED <<queueVars, loadVars, workerVars, lockVars, down, adaptiveThrottling>>

-----------------------------------------------------------------------------
CallerStep ==
    \/ \E t \in Tasks, p \in Priorities : EnqueueTask(t, p)
    \/ \E t \in Tasks : CancelTask(t)
    \/ StatusLocks \/ StatusReturns \/ WriterArrives
    \/ \E h \in Hosts, over, av \in BOOLEAN : UpdateHostLoad(h, over, av)
    \/ Shutdown

ScanStep ==
    \/ ScanEnds \/ ScanSkips
    \/ \E w \in Workers : ScanDispatches(w) \/ ScanPutsBack(w)

WorkerStep(w) ==
    \/ WorkerReceives(w)
    \/ \E ok \in BOOLEAN : ExecuteTask(w, ok)
    \/ WorkerStops(w) \/ WorkerReceivesNil(w)

TimerStep ==
    \/ ProcessQueue \/ AdjustConcurrency \/ UpdateHostLoads
    \/ \E e \in sleeping : RetryInserts(e)
    \/ \E h \in Hosts : FiveMinutesPass(h)

Next == CallerStep \/ ScanStep \/ TimerStep \/ \E w \in Workers : WorkerStep(w)

Spec == Init /\ [][Next]_vars

\* The tickers tick, the loop of processQueue and a status query go on, the workers run
\* and the sleeping goroutines wake up.  Another user of the mutex may be first each time,
\* but sync.RWMutex lets nobody wait forever, hence strong fairness where the lock
\* is needed.
FairSpec ==
    /\ Spec
    /\ SF_vars(ProcessQueue)
    /\ WF_vars(ScanStep) /\ WF_vars(StatusReturns \/ WriterArrives)
    /\ \A w \in Workers : WF_vars(WorkerReceives(w))
                          /\ SF_vars(\E ok \in BOOLEAN : ExecuteTask(w, ok))
    /\ SF_vars(UpdateHostLoads)
    /\ SF_vars(\E e \in sleeping : RetryInserts(e))
-----------------------------------------------------------------------------
(***************************************************************************)
(* Properties.                                                             *)
(***************************************************************************)

InChannels == UNION {Items(channels[w]) : w \in Workers}
Executing  == {executing[w] : w \in Workers} \ {None}
Assigned   == InChannels \cup Executing
Held       == Items(taskQueue) \cup sleeping \cup Assigned

\* A slot of the running map always belongs to an entry that a worker has or will
\* get: no slot is taken for ever by an entry that was put back, canceled or retried.
RunningIsAssigned == ~crashed => \A t \in Running : runningTasks[t] \in Assigned

\* What a set of entries puts on host h.
LoadOf(h, A) == MapThenSumSet(LAMBDA e : Times(e.task, h), A)

\* Unless running tasks are canceled, the load of a host is exactly what its
\* assigned entries put on it: put-backs, retries and failures neither leak load
\* nor release it twice.
LoadIsExact ==
    ~Cancels /\ ~crashed => \A h \in Hosts : load[h] = LoadOf(h, Assigned)

\* An entry is in one place only, once: in the queue, asleep, in a channel or with a
\* worker.  The loop of processQueue moves entries while it walks over them.
EntryInOnePlace ==
    /\ \A i, j \in DOMAIN taskQueue :
            taskQueue[i].createdAt = taskQueue[j].createdAt => i = j
    /\ ~crashed => \A e \in Items(taskQueue) \cup sleeping, f \in Assigned : e.createdAt # f.createdAt
    /\ \A e \in Items(taskQueue), f \in sleeping : e.createdAt # f.createdAt
    /\ \A w \in Workers, f \in InChannels :
            executing[w] # None => executing[w].createdAt # f.createdAt

\* The capacity is checked for new tasks only; they never exceed it, retries may.
NewTasksWithinCapacity ==
    Cardinality({i \in DOMAIN taskQueue : taskQueue[i].retries = 0}) <= QueueCapacity

\* An entry disappears only from the hands of a worker or by a cancel.
NothingLost ==
    [][ \A e \in Held :
          (\A f \in Held' : f.createdAt # e.createdAt) =>
              \/ e \in Executing
              \/ \E t \in Tasks : CancelTask(t)
              \/ crashed' ]_vars

\* The order that insertTaskByPriority promises: a higher priority first, then the
\* older entry.
Sorted == \A i, j \in DOMAIN taskQueue : i < j => ~Before(taskQueue[j], taskQueue[i])

\* Every operation but the put-back of processQueue keeps the queue in order: new
\* tasks, retries that are older than what is queued, cancels and dispatches.
OrderKept == [][ Sorted /\ ~(\E w \in Workers : ScanPutsBack(w)) => Sorted' ]_vars

Waiting(t) == \E i \in DOMAIN taskQueue : taskQueue[i].task = t

\* A scan that puts the same entry back for ever: every worker waits for the lock to
\* report a task, and every channel is full.
Spinning ==
    /\ lock = "scan" /\ ~ScanOver /\ CanExecute(taskQueue[scanAt].task)
    /\ \A w \in Workers : executing[w] # None /\ Len(channels[w]) >= ChanCap

\* A host that was idle for five minutes and has no task that would refresh it.
Forsaken(h) == h \in stale /\ ~available[h] /\ load[h] = 0

\* A queued task is taken out of the queue some time, in spite of failures, retries,
\* full channels and status queries.  There are three things only that keep it there: a
\* goroutine that waits for its own lock, a scan that spins on full channels, and a host
\* given up while it was idle.
ServedUnlessHeldUp ==
    \A t \in Tasks :
        Waiting(t) ~> \/ ~Waiting(t)
                      \/ lock = "stuck" \/ Spinning
                      \/ \E h \in HostSet(t) : Forsaken(h)

-----------------------------------------------------------------------------
(***************************************************************************)
(* What the documents and comments say and the code does not do.  TLC      *)
(* refutes each of these; the README says with which constants.            *)
(***************************************************************************)

\* TASK_QUEUE_IMPLEMENTATION.md: operations of the queue do not block.
NeverStuck == lock # "stuck"

\* requirements.md: a task that is started is sent to its hosts.
EveryTaskIsServed == \A t \in Tasks : Waiting(t) ~> ~Waiting(t)

\* TASK_QUEUE_IMPLEMENTATION.md: the capacity of the queue bounds its memory.
WithinCapacity == Len(taskQueue) <= QueueCapacity

\* TASK_QUEUE_IMPLEMENTATION.md: at most MaxConcurrentTasks tasks run.
ConcurrencyBounded == Cardinality(Assigned) <= MaxConcurrentTasks

\* Comment of insertTaskByPriority: higher priorities are in front, equal ones are
\* ordered by time.
AlwaysSorted == lock = "free" => Sorted

\* Comment of Shutdown: it waits for all workers to finish.
ShutdownIsClean == ~crashed
=============================================================================
