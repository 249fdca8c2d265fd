----------------------------- MODULE TaskCache -----------------------------
(***************************************************************************)
(* The Redis cache in front of the task queries (task_cache_service.go and *)
(* its callers in task_service.go).  A query answers from its key, or      *)
(* reads MySQL and leaves a goroutine behind that writes the key.  A write *)
(* runs a transaction and a goroutine that deletes keys; StartTask,        *)
(* CancelTask and HandleCommandResult start that goroutine inside the      *)
(* transaction, so it may be through before the commit, and many writes    *)
(* delete nothing.  An answer is only the number of commits it has seen.   *)
(***************************************************************************)
EXTENDS Naturals, Sequences

CONSTANTS
  Kinds,       \* the key families in play
  WriteOps,    \* the writes in play
  Writers,     \* goroutines that write
  Readers,     \* goroutines that query
  MaxCommits,
  RedisFails,  \* deletions may fail, which is only logged
  None

AllKinds == {"status", "progress", "execution", "stats", "list", "host_tasks"}

AllWrites == {"create", "start", "cancel", "result", "other"}

ASSUME KindsAssumption == Kinds \subseteq AllKinds
ASSUME WritesAssumption == WriteOps \subseteq AllWrites
ASSUME CommitsAssumption == MaxCommits \in Nat
ASSUME NoneIsNoCount == None \notin 0..MaxCommits
ASSUME RedisAssumption == RedisFails \in BOOLEAN

VARIABLES
  db,       \* commits so far
  changed,  \* the last commit that changed the answer each family gives
  entry,    \* what each key holds: the commits its answer has seen, or None
  writer,   \* the writes under way
  reader    \* the answers on their way into the cache

vars == <<db, changed, entry, writer, reader>>

----------------------------------------------------------------------------
\* InvalidateTaskCache: three keys of the task, then the statistics.
TaskKeys == <<"status", "progress", "execution", "stats">>

\* The keys a write deletes, in order.  "other" stands for every write that
\* deletes none: timeouts, lost connections, retries, added and removed hosts.
Deletes(op) ==
  CASE op = "create" -> <<"list", "stats">>
    [] op \in {"start", "cancel"} -> TaskKeys \o <<"list">>
    [] op = "result" -> TaskKeys \o <<"host_tasks">>
    [] OTHER -> <<>>

\* The families whose answer a write changes.
Changes(op) == IF op = "create" THEN {"stats", "list", "host_tasks"} ELSE AllKinds

\* CreateTask starts the goroutine after its transaction, the others inside it.
InTransaction(op) == op \in {"start", "cancel", "result"}

NoWrite == [op |-> "none", open |-> FALSE, left |-> <<>>]

NoAnswer == [kinds |-> {}, seen |-> 0]

TypeOK ==
  /\ db \in 0..MaxCommits
  /\ changed \in [Kinds -> 0..db]
  /\ entry \in [Kinds -> 0..db \cup {None}]
  /\ \A w \in Writers : /\ writer[w].op \in AllWrites \cup {"none"}
                        /\ writer[w].open \in BOOLEAN
                        /\ writer[w].left \in Seq(Kinds)
  /\ \A r \in Readers : reader[r].kinds \subseteq Kinds /\ reader[r].seen \in 0..db

Init ==
  /\ db = 0
  /\ changed = [k \in Kinds |-> 0]
  /\ entry = [k \in Kinds |-> None]
  /\ writer = [w \in Writers |-> NoWrite]
  /\ reader = [r \in Readers |-> NoAnswer]

----------------------------------------------------------------------------
\* Writes.

\* The transaction has run its statements; its commit is still to come.
Begin(w, op) ==
  /\ writer[w] = NoWrite
  /\ writer' = [writer EXCEPT ![w] =
       [op |-> op, open |-> TRUE,
        left |-> SelectSeq(Deletes(op), LAMBDA k : k \in Kinds)]]
  /\ UNCHANGED <<db, changed, entry, reader>>

Closed(x) == IF x.left = <<>> THEN NoWrite ELSE [x EXCEPT !.open = FALSE]

Commit(w) ==
  /\ writer[w].open
  /\ db < MaxCommits
  /\ db' = db + 1
  /\ changed' = [k \in Kinds |-> IF k \in Changes(writer[w].op) THEN db' ELSE changed[k]]
  /\ writer' = [writer EXCEPT ![w] = Closed(@)]
  /\ UNCHANGED <<entry, reader>>

\* The commit fails.  CreateTask then returns before it starts its goroutine.
Rollback(w) ==
  /\ writer[w].open
  /\ writer' = [writer EXCEPT ![w] =
       IF InTransaction(writer[w].op) THEN Closed(@) ELSE NoWrite]
  /\ UNCHANGED <<db, changed, entry, reader>>

\* The goroutine goes on to its next key ...
NextKey(w) ==
  /\ writer[w].left # <<>>
  /\ writer[w].open => InTransaction(writer[w].op)
  /\ writer' = [writer EXCEPT ![w] =
       IF ~writer[w].open /\ Len(@.left) = 1 THEN NoWrite ELSE [@ EXCEPT !.left = Tail(@)]]

\* ... and deletes it, or fails to and logs that.
Delete(w) ==
  /\ NextKey(w)
  /\ entry' = [entry EXCEPT ![Head(writer[w].left)] = None]
  /\ UNCHANGED <<db, changed, reader>>

DeleteFails(w) ==
  /\ RedisFails
  /\ NextKey(w)
  /\ UNCHANGED <<db, changed, entry, reader>>

----------------------------------------------------------------------------
\* Queries.

\* mutant: a query that sees what no transaction has committed yet.
QueryDirty == IF \E w \in Writers : writer[w].open THEN db + 1 ELSE db

\* A query sees what is committed.
Query == db

\* GetTaskProgress builds its answer on GetTaskStatus, which may answer from its
\* own key; the other queries go to MySQL.
Source(k) ==
  IF k = "progress" /\ "status" \in Kinds /\ entry["status"] # None
    THEN entry["status"] ELSE Query

\* mutant: a progress query that caches again the status it was served from the cache.
FillsAgain(k) == IF k = "progress" THEN {"progress", "status"} \cap Kinds ELSE {k}

\* The keys a query that missed will write: its own, and the status behind the
\* progress when that missed too.
Fills(k) ==
  IF k = "progress" /\ "status" \in Kinds /\ entry["status"] = None
    THEN {"progress", "status"} ELSE {k}

\* A query that misses: it returns its answer, and keeps it for the cache.
Miss(r, k) ==
  /\ reader[r] = NoAnswer
  /\ entry[k] = None
  /\ reader' = [reader EXCEPT ![r] = [kinds |-> Fills(k), seen |-> Source(k)]]
  /\ UNCHANGED <<db, changed, entry, writer>>

\* The goroutine writes a key of the answer.
Fill(r, k) ==
  /\ k \in reader[r].kinds
  /\ entry' = [entry EXCEPT ![k] = reader[r].seen]
  /\ reader' = [reader EXCEPT ![r] =
       IF @.kinds = {k} THEN NoAnswer ELSE [@ EXCEPT !.kinds = @ \ {k}]]
  /\ UNCHANGED <<db, changed, writer>>

\* The time to live of a key runs out, one to ten minutes after it was written.
Expire(k) ==
  /\ entry[k] # None
  /\ entry' = [entry EXCEPT ![k] = None]
  /\ UNCHANGED <<db, changed, writer, reader>>

----------------------------------------------------------------------------
Next ==
  \/ \E w \in Writers, op \in WriteOps : Begin(w, op)
  \/ \E w \in Writers : Commit(w) \/ Rollback(w) \/ Delete(w) \/ DeleteFails(w)
  \/ \E r \in Readers, k \in Kinds : Miss(r, k) \/ Fill(r, k)
  \/ \E k \in Kinds : Expire(k)

Spec == Init /\ [][Next]_vars

\* Redis expires keys.  Nothing else is owed: an answer may take for ever on its
\* way to the cache, a deletion may never come.
ExpirySpec == Spec /\ \A k \in Kinds : WF_vars(Expire(k))

----------------------------------------------------------------------------
\* Properties.

Fresh(k) == entry[k] = None \/ entry[k] >= changed[k]

\* Once the writes are over, the cache comes to hold only what MySQL would
\* answer, for good, whatever deletions were lost or came too early: a stale key
\* may feed another one (the status the progress), but not itself.
EventuallyFresh == <>[](\A k \in Kinds : Fresh(k))

----------------------------------------------------------------------------
(***************************************************************************)
(* What the documents say and the code does not do.  TLC refutes each of   *)
(* these; the README says with which constants.                            *)
(***************************************************************************)

\* A change of a task deletes the keys it makes stale: with no write under way
\* and no answer on its way into the cache, what is cached is current.
FreshAtRest ==
  (\A w \in Writers : writer[w] = NoWrite) /\ (\A r \in Readers : reader[r] = NoAnswer)
    => \A k \in Kinds : Fresh(k)

=============================================================================
