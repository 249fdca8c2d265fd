---------------------- MODULE ProgressIsolation_proofs ----------------------
(***************************************************************************)
(* Theorems about the overlapping transactions of the task service, for a  *)
(* task with any number of commands, any number of connections and without *)
(* the bounds on requests and runs.                                        *)
(***************************************************************************)
EXTENDS ProgressIsolation, FiniteSetTheorems, TLAPS

\* The rows x has still to write and those it has written.
Left(x) == {tx[x].todo[i] : i \in DOMAIN tx[x].todo}
Done(x) == DOMAIN tx[x].own

\* What a transaction makes of the two rows of a command, given the committed ones.
FinalCmd(op, k, old) ==
    CASE op = "start"   -> "pending"
      [] op = "timeout" -> "timeout"
      [] op = "cancel"  -> IF old \in {"pending", "running", "Pending", "Running"} THEN "canceled" ELSE old
      [] OTHER -> ResultCommandStatus(k, old)

FinalHost(op, k, old) ==
    CASE op = "start"   -> "Pending"
      [] op = "timeout" -> "Timeout"
      [] op = "cancel"  -> IF old \in {"pending", "running", "Pending", "Running"} THEN "Canceled" ELSE old
      [] OTHER -> ResultHostStatus(k, old)

TxRecord(o, c, k, p, q, w) == [op |-> o, cmd |-> c, kind |-> k, todo |-> p, snap |-> q, own |-> w]

\* The shape of a transaction under way.
TxShape(x) ==
    LET t == tx[x] IN
    /\ t = TxRecord(t.op, t.cmd, t.kind, t.todo, t.snap, t.own)
    /\ t.op \in {"start", "cancel", "status", "timeout", "result"}
    /\ t.todo \in Seq(Row \cup {ReadView}) /\ t.todo # <<>> /\ t.todo[Len(t.todo)] # ReadView
    /\ Done(x) \subseteq Row

\* A transaction that writes one row of a command writes the other one too.
Closed(x) ==
    \A c \in Commands : Cmd(c) \in Left(x) \cup Done(x) <=> Host(c) \in Left(x) \cup Done(x)

\* What was written is made from rows that are still the committed ones.
OwnCommands(op, k, own) ==
    \A c \in Commands :
        /\ Cmd(c)  \in DOMAIN own => own[Cmd(c)]  = FinalCmd(op, k, db[Cmd(c)])
        /\ Host(c) \in DOMAIN own => own[Host(c)] = FinalHost(op, k, db[Host(c)])

OwnTask(op, own) ==
    TaskRow \in DOMAIN own =>
        \/ op = "start"  /\ own[TaskRow] = [status |-> "running", began |-> TRUE]
        \/ op = "cancel" /\ own[TaskRow] = [status |-> "canceled", began |-> db[TaskRow].began]

\* The progress computation comes last, on a snapshot that has been taken before.
ProgressLast(x) ==
    tx[x].op \notin {"start", "cancel"} =>
        /\ \A i \in DOMAIN tx[x].todo : tx[x].todo[i] = TaskRow => i = Len(tx[x].todo)
        /\ ReadView \notin Left(x) => (tx[x].snap[TaskRow].began => db[TaskRow].began)

TxOK(x) ==
    /\ TxShape(x) /\ Closed(x) /\ ProgressLast(x)
    /\ OwnCommands(tx[x].op, tx[x].kind, tx[x].own)
    /\ OwnTask(tx[x].op, tx[x].own)

\* InnoDB's row locks: no two transactions have written the same row.
RowLocks == \A x, y \in Connections : x # y /\ Busy(x) /\ Busy(y) => Done(x) \cap Done(y) = {}

TaskStates == [status : {"absent", "pending", "running", "completed", "failed", "canceled"}, began : BOOLEAN]

DbOK ==
    /\ db = [r \in Row |-> db[r]] /\ db[TaskRow] \in TaskStates
    /\ db[TaskRow].status = "absent" => ~db[TaskRow].began /\ \A x \in Connections : ~Busy(x)

Inv ==
    /\ tx = [x \in Connections |-> tx[x]]
    /\ DbOK /\ RowsAgree /\ RowLocks
    /\ \A x \in Connections : Busy(x) => TxOK(x)

-----------------------------------------------------------------------------
\* The rows of the task, of its commands and of its hosts are different rows.
LEMMA RowsDiffer ==
    /\ TaskRow \in Row /\ ReadView \notin Row
    /\ \A c \in Commands : /\ Cmd(c) \in Row /\ Host(c) \in Row
                           /\ Cmd(c) # TaskRow /\ Host(c) # TaskRow
                           /\ Cmd(c)[1] = "cmd" /\ Host(c)[1] = "host"
    /\ \A c, d \in Commands : /\ Cmd(c) # Host(d)
                              /\ Cmd(c) = Cmd(d) => c = d
                              /\ Host(c) = Host(d) => c = d
    /\ \A r \in Row : r = TaskRow \/ \E c \in Commands : r = Cmd(c) \/ r = Host(c)
  BY DEF Row, TaskRow, ReadView, Cmd, Host

\* The statements of a program.
Statements(s) == {s[i] : i \in DOMAIN s}

\* What is left of a program after its first statement.
LEMMA AfterHead ==
    ASSUME NEW S, NEW s \in Seq(S), s # <<>>
    PROVE  /\ Head(s) \in S /\ Tail(s) \in Seq(S)
           /\ Len(s) \in Nat /\ Len(Tail(s)) = Len(s) - 1
           /\ DOMAIN s = 1..Len(s) /\ DOMAIN Tail(s) = 1..Len(Tail(s)) /\ Head(s) = s[1]
           /\ \A i \in DOMAIN Tail(s) : i + 1 \in DOMAIN s /\ Tail(s)[i] = s[i + 1]
           /\ Statements(s) = {Head(s)} \cup Statements(Tail(s))
           /\ Tail(s) = <<>> <=> Len(s) = 1
           /\ Tail(s) = <<>> => Statements(Tail(s)) = {}
<1>1. /\ Head(s) \in S /\ Tail(s) \in Seq(S)
      /\ Len(s) \in Nat /\ Len(Tail(s)) = Len(s) - 1
      /\ Len(s) > 0 /\ DOMAIN s = 1..Len(s) /\ DOMAIN Tail(s) = 1..Len(Tail(s)) /\ Head(s) = s[1]
  OBVIOUS
<1>2. \A i \in DOMAIN Tail(s) : i + 1 \in DOMAIN s /\ Tail(s)[i] = s[i + 1]
  BY <1>1
<1>3. ASSUME NEW i \in DOMAIN s PROVE s[i] = Head(s) \/ \E j \in DOMAIN Tail(s) : s[i] = Tail(s)[j]
  <2>1. CASE i = 1
    BY <1>1, <2>1
  <2>2. CASE i # 1
    <3>1. i - 1 \in DOMAIN Tail(s) /\ s[i] = Tail(s)[i - 1]
      BY <1>1, <1>2, <2>2
    <3> QED  BY <3>1
  <2> QED  BY <2>1, <2>2
<1>4. 1 \in DOMAIN s
  BY <1>1
<1>5. Statements(s) = {Head(s)} \cup Statements(Tail(s))
  BY <1>1, <1>2, <1>3, <1>4 DEF Statements
<1>6. Tail(s) = <<>> <=> Len(s) = 1
  BY <1>1
<1>7. Tail(s) = <<>> => Statements(Tail(s)) = {}
  BY <1>1 DEF Statements
<1> QED  BY <1>1, <1>2, <1>5, <1>6, <1>7

\* A transaction turns rows that agree into rows that agree, ...
LEMMA FinalAgrees ==
    ASSUME NEW op, NEW k, NEW cs, NEW hs, Agrees(cs, hs)
    PROVE  Agrees(FinalCmd(op, k, cs), FinalHost(op, k, hs))
  BY DEF FinalCmd, FinalHost, Agrees, ResultCommandStatus, ResultHostStatus

\* ... does so once and for all, ...
LEMMA FinalIsFinal ==
    ASSUME NEW op, NEW k, NEW old
    PROVE  /\ FinalCmd(op, k, FinalCmd(op, k, old)) = FinalCmd(op, k, old)
           /\ FinalHost(op, k, FinalHost(op, k, old)) = FinalHost(op, k, old)
  BY DEF FinalCmd, FinalHost, ResultCommandStatus, ResultHostStatus

\* ... and does not cancel a host that has ended.
LEMMA FinalKeepsResults ==
    ASSUME NEW op, NEW k, NEW old \in FailKinds \cup {"Completed"}
    PROVE  FinalHost(op, k, old) # "Canceled"
  BY DEF FinalHost, ResultHostStatus, FailKinds
-----------------------------------------------------------------------------
(***************************************************************************)
(* The programs of the transactions.                                       *)
(***************************************************************************)
\* What a program has to be: statements on rows, both rows of a command or neither,
\* and an UPDATE at the end.
Proper(s) ==
    /\ s \in Seq(Row \cup {ReadView}) /\ s # <<>> /\ s[Len(s)] # ReadView
    /\ \A c \in Commands : Cmd(c) \in Statements(s) <=> Host(c) \in Statements(s)

LEMMA CommandIndex ==
    /\ N \in Nat /\ DOMAIN CommandSeq = 1..N
    /\ \A i \in 1..N : CommandSeq[i] \in Commands
    /\ \A c \in Commands : \E i \in 1..N : c = CommandSeq[i]
  BY SeqAssumption DEF N, Commands

\* The statements of two programs run one after the other.
LEMMA ConcatStatements ==
    ASSUME NEW S, NEW s \in Seq(S), NEW t \in Seq(S)
    PROVE  /\ s \o t \in Seq(S) /\ Len(s \o t) = Len(s) + Len(t)
           /\ Statements(s) \subseteq Statements(s \o t) /\ Statements(t) \subseteq Statements(s \o t)
<1> DEFINE u == s \o t
<1>1. /\ u \in Seq(S) /\ DOMAIN u = 1..(Len(s) + Len(t)) /\ Len(u) = Len(s) + Len(t)
      /\ Len(s) \in Nat /\ Len(t) \in Nat /\ DOMAIN s = 1..Len(s) /\ DOMAIN t = 1..Len(t)
      /\ \A i \in 1..Len(s) : u[i] = s[i]
      /\ \A i \in 1..Len(t) : u[Len(s) + i] = t[i]
  OBVIOUS
<1> HIDE DEF u
<1>2. ASSUME NEW i \in DOMAIN s PROVE s[i] \in Statements(u)
  <2>1. i \in DOMAIN u /\ u[i] = s[i]
    BY <1>1
  <2> QED  BY <2>1 DEF Statements
<1>3. ASSUME NEW i \in DOMAIN t PROVE t[i] \in Statements(u)
  <2>1. Len(s) + i \in DOMAIN u /\ u[Len(s) + i] = t[i]
    BY <1>1
  <2> QED  BY <2>1 DEF Statements
<1>4. Statements(s) \subseteq Statements(u) /\ Statements(t) \subseteq Statements(u)
  BY <1>2, <1>3 DEF Statements
<1> QED  BY <1>1, <1>4 DEF u

LEMMA TaskFirst ==
    ASSUME NEW f \in Seq(Row)
    PROVE  /\ <<TaskRow>> \o f \in Seq(Row) /\ Len(<<TaskRow>> \o f) = 1 + Len(f)
           /\ Statements(f) \subseteq Statements(<<TaskRow>> \o f)
<1> DEFINE h == <<TaskRow>>
<1>1. h \in Seq(Row) /\ Len(h) = 1
  BY RowsDiffer
<1> HIDE DEF h
<1>2. h \o f \in Seq(Row) /\ Len(h \o f) = Len(h) + Len(f) /\ Statements(f) \subseteq Statements(h \o f)
  BY <1>1, ConcatStatements, Zenon
<1>3. Len(h \o f) = 1 + Len(f)
  BY <1>1, <1>2
<1> QED  BY <1>2, <1>3 DEF h

LEMMA StartIsProper == Proper(StartProgram)
<1> DEFINE f == [i \in 1..(2 * N) |-> IF i % 2 = 1 THEN Cmd(CommandSeq[(i + 1) \div 2])
                                                 ELSE Host(CommandSeq[i \div 2])]
<1> USE CommandIndex, RowsDiffer
<1>1. \A i \in 1..(2 * N) : /\ i % 2 = 1 => (i + 1) \div 2 \in 1..N
                           /\ i % 2 # 1 => i \div 2 \in 1..N
  OBVIOUS
<1>2. f \in [1..(2 * N) -> Row]
  BY <1>1
<1>3. f \in Seq(Row) /\ Len(f) = 2 * N
  <2>1. 2 * N \in Nat
    OBVIOUS
  <2> HIDE DEF f
  <2> QED  BY <1>2, <2>1
<1>4. \A j \in 1..N : /\ 2 * j - 1 \in 1..(2 * N) /\ f[2 * j - 1] = Cmd(CommandSeq[j])
                     /\ 2 * j \in 1..(2 * N) /\ f[2 * j] = Host(CommandSeq[j])
  <2> SUFFICES ASSUME NEW j \in 1..N
               PROVE  /\ 2 * j - 1 \in 1..(2 * N) /\ f[2 * j - 1] = Cmd(CommandSeq[j])
                      /\ 2 * j \in 1..(2 * N) /\ f[2 * j] = Host(CommandSeq[j])
    OBVIOUS
  <2>1. /\ 2 * j - 1 \in 1..(2 * N) /\ (2 * j - 1) % 2 = 1 /\ ((2 * j - 1) + 1) \div 2 = j
        /\ 2 * j \in 1..(2 * N) /\ (2 * j) % 2 = 0 /\ (2 * j) \div 2 = j
    OBVIOUS
  <2> QED  BY <2>1
<1> HIDE DEF f
<1>5. StartProgram = <<TaskRow>> \o f
  BY DEF f, StartProgram
<1>6. /\ StartProgram \in Seq(Row) /\ Len(StartProgram) = 1 + 2 * N
      /\ Statements(f) \subseteq Statements(StartProgram)
  BY <1>3, <1>5, TaskFirst, Zenon
<1>7. \A j \in 1..N : Cmd(CommandSeq[j]) \in Statements(f) /\ Host(CommandSeq[j]) \in Statements(f)
  BY <1>2, <1>4 DEF Statements
<1>8. \A c \in Commands : Cmd(c) \in Statements(StartProgram) /\ Host(c) \in Statements(StartProgram)
  BY <1>6, <1>7
<1>9. /\ StartProgram # <<>> /\ StartProgram \in Seq(Row \cup {ReadView})
      /\ StartProgram[Len(StartProgram)] # ReadView
  BY <1>6
<1> QED  BY <1>8, <1>9 DEF Proper

LEMMA CancelIsProper == Proper(CancelProgram)
<1> DEFINE f == [i \in 1..N |-> Cmd(CommandSeq[i])]
           g == [i \in 1..N |-> Host(CommandSeq[i])]
<1> USE CommandIndex, RowsDiffer
<1>1. f \in [1..N -> Row] /\ g \in [1..N -> Row]
  OBVIOUS
<1>2. f \in Seq(Row) /\ Len(f) = N /\ g \in Seq(Row) /\ Len(g) = N
  <2> HIDE DEF f, g
  <2> QED  BY <1>1
<1>3. \A i \in 1..N : f[i] = Cmd(CommandSeq[i]) /\ g[i] = Host(CommandSeq[i])
  OBVIOUS
<1>4. CancelProgram = (<<TaskRow>> \o f) \o g
  BY DEF CancelProgram
<1> HIDE DEF f, g
<1>5. /\ <<TaskRow>> \o f \in Seq(Row) /\ Len(<<TaskRow>> \o f) = 1 + N
      /\ Statements(f) \subseteq Statements(<<TaskRow>> \o f)
  BY <1>2, TaskFirst, Zenon
<1>6. /\ CancelProgram \in Seq(Row) /\ Len(CancelProgram) = 1 + N + N
      /\ Statements(f) \subseteq Statements(CancelProgram) /\ Statements(g) \subseteq Statements(CancelProgram)
  <2> DEFINE h == <<TaskRow>> \o f
  <2>1. h \in Seq(Row) /\ Len(h) = 1 + N /\ Statements(f) \subseteq Statements(h)
    BY <1>5
  <2> HIDE DEF h
  <2>2. /\ h \o g \in Seq(Row) /\ Len(h \o g) = Len(h) + Len(g)
        /\ Statements(h) \subseteq Statements(h \o g) /\ Statements(g) \subseteq Statements(h \o g)
    BY <1>2, <2>1, ConcatStatements, Zenon
  <2>3. Len(h \o g) = 1 + N + N
    BY <1>2, <2>1, <2>2
  <2>4. Statements(f) \subseteq Statements(h \o g)
    BY <2>1, <2>2
  <2> QED  BY <1>4, <2>2, <2>3, <2>4, Zenon DEF h
<1>7. \A i \in 1..N : Cmd(CommandSeq[i]) \in Statements(f) /\ Host(CommandSeq[i]) \in Statements(g)
  BY <1>1, <1>3 DEF Statements
<1>8. \A c \in Commands : Cmd(c) \in Statements(CancelProgram) /\ Host(c) \in Statements(CancelProgram)
  BY <1>6, <1>7
<1>9. /\ CancelProgram # <<>> /\ CancelProgram \in Seq(Row \cup {ReadView})
      /\ CancelProgram[Len(CancelProgram)] # ReadView
  BY <1>6
<1> QED  BY <1>8, <1>9 DEF Proper

\* The programs of a result, a timeout and a query end with the update of the task.
LEMMA ProgressIsProper ==
    ASSUME NEW op \in {"status", "timeout", "result"}, NEW c, op # "status" => c \in Commands
    PROVE  /\ Proper(ProgressProgram(op, c))
           /\ \A i \in DOMAIN ProgressProgram(op, c) :
                 ProgressProgram(op, c)[i] = TaskRow => i = Len(ProgressProgram(op, c))
           /\ op # "status" => ReadView \in Statements(ProgressProgram(op, c))
<1> USE RowsDiffer
<1>1. CASE op = "status"
  BY <1>1 DEF ProgressProgram, Proper, Statements
<1>2. CASE op = "timeout"
  <2> DEFINE s == <<Cmd(c), Host(c), ReadView, TaskRow>>
  <2>1. /\ s \in Seq(Row \cup {ReadView}) /\ s # <<>> /\ DOMAIN s = 1..4 /\ Len(s) = 4
        /\ s[1] = Cmd(c) /\ s[2] = Host(c) /\ s[3] = ReadView /\ s[4] = TaskRow
    BY <1>2
  <2>2. ProgressProgram(op, c) = s
    BY <1>2 DEF ProgressProgram
  <2> HIDE DEF s
  <2>3. Statements(s) = {Cmd(c), Host(c), ReadView, TaskRow}
    BY <2>1 DEF Statements
  <2>4. \A d \in Commands : Cmd(d) \in Statements(s) <=> Host(d) \in Statements(s)
    BY <1>2, <2>3
  <2>5. \A i \in DOMAIN s : s[i] = TaskRow => i = Len(s)
    BY <1>2, <2>1
  <2> QED  BY <2>1, <2>2, <2>3, <2>4, <2>5 DEF Proper
<1>3. CASE op = "result"
  <2> DEFINE s == <<Host(c), Cmd(c), ReadView, TaskRow>>
  <2>1. /\ s \in Seq(Row \cup {ReadView}) /\ s # <<>> /\ DOMAIN s = 1..4 /\ Len(s) = 4
        /\ s[1] = Host(c) /\ s[2] = Cmd(c) /\ s[3] = ReadView /\ s[4] = TaskRow
    BY <1>3
  <2>2. ProgressProgram(op, c) = s
    BY <1>3 DEF ProgressProgram
  <2> HIDE DEF s
  <2>3. Statements(s) = {Cmd(c), Host(c), ReadView, TaskRow}
    BY <2>1 DEF Statements
  <2>4. \A d \in Commands : Cmd(d) \in Statements(s) <=> Host(d) \in Statements(s)
    BY <1>3, <2>3
  <2>5. \A i \in DOMAIN s : s[i] = TaskRow => i = Len(s)
    BY <1>3, <2>1
  <2> QED  BY <2>1, <2>2, <2>3, <2>4, <2>5 DEF Proper
<1> QED  BY <1>1, <1>2, <1>3
-----------------------------------------------------------------------------
(***************************************************************************)
(* The steps of the transactions.                                          *)
(***************************************************************************)
\* The two assignments of Read and of Write to a transaction.
LEMMA ReadRecord ==
    ASSUME NEW t, t = TxRecord(t.op, t.cmd, t.kind, t.todo, t.snap, t.own), NEW d, NEW e
    PROVE  [t EXCEPT !.snap = d, !.todo = e] = TxRecord(t.op, t.cmd, t.kind, e, d, t.own)
<1>1. [t EXCEPT !.snap = d, !.todo = e] = [[t EXCEPT !.snap = d] EXCEPT !.todo = e]
  OBVIOUS
<1>2. \A o, c, k, p, q, w : [TxRecord(o, c, k, p, q, w) EXCEPT !.snap = d] = TxRecord(o, c, k, p, d, w)
  BY DEF TxRecord
<1>3. \A o, c, k, p, q, w : [TxRecord(o, c, k, p, q, w) EXCEPT !.todo = e] = TxRecord(o, c, k, e, q, w)
  BY DEF TxRecord
<1>4. [t EXCEPT !.snap = d] = TxRecord(t.op, t.cmd, t.kind, t.todo, d, t.own)
  BY <1>2
<1>5. [TxRecord(t.op, t.cmd, t.kind, t.todo, d, t.own) EXCEPT !.todo = e] = TxRecord(t.op, t.cmd, t.kind, e, d, t.own)
  BY <1>3
<1> QED  BY <1>1, <1>4, <1>5, Zenon

LEMMA WriteRecord ==
    ASSUME NEW t, t = TxRecord(t.op, t.cmd, t.kind, t.todo, t.snap, t.own), NEW d, NEW e
    PROVE  [t EXCEPT !.own = d, !.todo = e] = TxRecord(t.op, t.cmd, t.kind, e, t.snap, d)
<1>1. [t EXCEPT !.own = d, !.todo = e] = [[t EXCEPT !.own = d] EXCEPT !.todo = e]
  OBVIOUS
<1>2. \A o, c, k, p, q, w : [TxRecord(o, c, k, p, q, w) EXCEPT !.own = d] = TxRecord(o, c, k, p, q, d)
  BY DEF TxRecord
<1>3. \A o, c, k, p, q, w : [TxRecord(o, c, k, p, q, w) EXCEPT !.todo = e] = TxRecord(o, c, k, e, q, w)
  BY DEF TxRecord
<1>4. [t EXCEPT !.own = d] = TxRecord(t.op, t.cmd, t.kind, t.todo, t.snap, d)
  BY <1>2
<1>5. [TxRecord(t.op, t.cmd, t.kind, t.todo, t.snap, d) EXCEPT !.todo = e] = TxRecord(t.op, t.cmd, t.kind, e, t.snap, d)
  BY <1>3
<1> QED  BY <1>1, <1>4, <1>5, Zenon

\* A transaction is not disturbed by what happens to rows it has not written.
LEMMA OthersStay ==
    ASSUME NEW y \in Connections, TxOK(y), tx'[y] = tx[y],
           \A r \in Done(y) : db'[r] = db[r], db[TaskRow].began => db'[TaskRow].began
    PROVE  TxOK(y)'
<1>1. TxShape(y)'
  BY DEF TxOK, TxShape, Done
<1>2. Closed(y)'
  BY DEF TxOK, Closed, Left, Done
<1>3. ProgressLast(y)'
  BY DEF TxOK, ProgressLast, Left
<1>4. OwnCommands(tx[y].op, tx[y].kind, tx[y].own)'
  BY DEF TxOK, OwnCommands, Done
<1>5. OwnTask(tx[y].op, tx[y].own)'
  BY DEF TxOK, OwnTask, Done
<1> QED  BY <1>1, <1>2, <1>3, <1>4, <1>5 DEF TxOK

\* A transaction begins with a proper program and nothing written.
LEMMA BeginKeeps ==
    ASSUME Inv, NEW x \in Connections, NEW op \in {"start", "cancel", "status", "timeout", "result"},
           NEW c, op \in {"timeout", "result"} => c \in Commands, NEW k, Begin(x, op, c, k)
    PROVE  Inv'
<1> DEFINE t == TxRecord(op, c, k, Program(op, c), IF op = "status" THEN db ELSE <<>>, <<>>)
<1>1. /\ tx' = [tx EXCEPT ![x] = t] /\ db' = db /\ db[TaskRow].status # "absent" /\ ~Busy(x)
      /\ tx = [y \in Connections |-> tx[y]]
  BY DEF Begin, Busy, Inv, TxRecord
<1>2. /\ t = TxRecord(t.op, t.cmd, t.kind, t.todo, t.snap, t.own)
      /\ t.op = op /\ t.todo = Program(op, c) /\ t.snap = (IF op = "status" THEN db ELSE <<>>)
      /\ t.own = <<>> /\ DOMAIN t.own = {}
  BY DEF TxRecord
<1> HIDE DEF t
<1>3. tx'[x] = t /\ (\A y \in Connections \ {x} : tx'[y] = tx[y]) /\ tx' = [y \in Connections |-> tx'[y]]
  BY <1>1
<1>4. Proper(Program(op, c))
  BY StartIsProper, CancelIsProper, ProgressIsProper DEF Program
<1>5. TxOK(x)'
  <2>1. TxShape(x)'
    BY <1>2, <1>3, <1>4 DEF TxShape, Proper, Done
  <2>2. Closed(x)'
    BY <1>2, <1>3, <1>4 DEF Closed, Proper, Left, Done, Statements
  <2>3. ProgressLast(x)'
    <3> SUFFICES ASSUME op \notin {"start", "cancel"}
                 PROVE  /\ \A i \in DOMAIN t.todo : t.todo[i] = TaskRow => i = Len(t.todo)
                        /\ ReadView \notin Statements(t.todo) => (t.snap[TaskRow].began => db[TaskRow].began)
      BY <1>1, <1>2, <1>3 DEF ProgressLast, Left, Statements
    <3>1. t.todo = ProgressProgram(op, c)
      BY <1>2 DEF Program
    <3> QED  BY <1>2, <3>1, ProgressIsProper
  <2>4. OwnCommands(tx[x].op, tx[x].kind, tx[x].own)' /\ OwnTask(tx[x].op, tx[x].own)'
    BY <1>2, <1>3 DEF OwnCommands, OwnTask
  <2> QED  BY <2>1, <2>2, <2>3, <2>4 DEF TxOK
<1>6. ASSUME NEW y \in Connections \ {x}, Busy(y)' PROVE TxOK(y)'
  <2>1. tx'[y] = tx[y] /\ TxOK(y)
    BY <1>3, <1>6 DEF Inv, Busy
  <2> QED  BY <1>1, <2>1, OthersStay
<1>7. DbOK' /\ RowsAgree'
  BY <1>1 DEF Inv, DbOK, RowsAgree
<1>8. RowLocks'
  BY <1>2, <1>3 DEF Inv, RowLocks, Done, Busy
<1> QED  BY <1>3, <1>5, <1>6, <1>7, <1>8 DEF Inv

\* A transaction that is rolled back leaves its connection idle.
LEMMA VictimKeeps ==
    ASSUME Inv, NEW x \in Connections, DeadlockVictim(x)
    PROVE  Inv'
<1>1. tx' = [tx EXCEPT ![x] = Idle] /\ db' = db /\ tx = [y \in Connections |-> tx[y]]
  BY DEF DeadlockVictim, Inv
<1>2. ~Busy(x)' /\ (\A y \in Connections \ {x} : tx'[y] = tx[y]) /\ tx' = [y \in Connections |-> tx'[y]]
  BY <1>1 DEF Busy
<1>3. ASSUME NEW y \in Connections, Busy(y)' PROVE TxOK(y)' /\ tx'[y] = tx[y]
  <2>1. tx'[y] = tx[y] /\ TxOK(y)
    BY <1>2, <1>3 DEF Inv, Busy
  <2> QED  BY <1>1, <2>1, OthersStay
<1>4. DbOK' /\ RowsAgree'
  BY <1>1, <1>2 DEF Inv, DbOK, RowsAgree, Busy
<1>5. RowLocks'
  BY <1>3 DEF Inv, RowLocks, Done, Busy
<1> QED  BY <1>2, <1>3, <1>4, <1>5 DEF Inv

\* A statement that is not the last one: the program goes on behind it.
LEMMA Advance ==
    ASSUME Inv, NEW x \in Connections, Busy(x), db' = db, NEW snap, NEW own,
           tx' = [tx EXCEPT ![x] = TxRecord(tx[x].op, tx[x].cmd, tx[x].kind, Tail(tx[x].todo), snap, own)],
           Tail(tx[x].todo) # <<>>,
           DOMAIN own = Done(x) \cup ({Head(tx[x].todo)} \ {ReadView}),
           snap = IF Head(tx[x].todo) = ReadView THEN db ELSE tx[x].snap,
           OwnCommands(tx[x].op, tx[x].kind, own), OwnTask(tx[x].op, own),
           \A y \in Connections \ {x} : Busy(y) => Head(tx[x].todo) \notin Done(y)
    PROVE  Inv'
<1> DEFINE t == tx[x]
           u == TxRecord(t.op, t.cmd, t.kind, Tail(t.todo), snap, own)
<1>1. tx = [y \in Connections |-> tx[y]] /\ TxOK(x)
  BY DEF Inv
<1>2. tx'[x] = u /\ (\A y \in Connections \ {x} : tx'[y] = tx[y]) /\ tx' = [y \in Connections |-> tx'[y]]
  BY <1>1
<1>3. /\ u = TxRecord(u.op, u.cmd, u.kind, u.todo, u.snap, u.own)
      /\ u.op = t.op /\ u.kind = t.kind /\ u.todo = Tail(t.todo) /\ u.snap = snap /\ u.own = own
  BY DEF TxRecord
<1> HIDE DEF u
<1>4. /\ t.todo \in Seq(Row \cup {ReadView}) /\ t.todo # <<>> /\ t.todo[Len(t.todo)] # ReadView
      /\ t.op \in {"start", "cancel", "status", "timeout", "result"} /\ Done(x) \subseteq Row
  BY <1>1 DEF TxOK, TxShape
<1>5. /\ Head(t.todo) \in Row \cup {ReadView}
      /\ u.todo \in Seq(Row \cup {ReadView}) /\ u.todo # <<>>
      /\ Len(u.todo) = Len(t.todo) - 1 /\ Len(t.todo) \in Nat /\ DOMAIN u.todo = 1..Len(u.todo)
      /\ \A i \in DOMAIN u.todo : i + 1 \in DOMAIN t.todo /\ u.todo[i] = t.todo[i + 1]
      /\ Statements(t.todo) = {Head(t.todo)} \cup Statements(u.todo)
  <2> HIDE DEF t
  <2>1. /\ Head(t.todo) \in Row \cup {ReadView}
        /\ Tail(t.todo) \in Seq(Row \cup {ReadView})
        /\ Len(Tail(t.todo)) = Len(t.todo) - 1 /\ Len(t.todo) \in Nat
        /\ DOMAIN Tail(t.todo) = 1..Len(Tail(t.todo))
        /\ \A i \in DOMAIN Tail(t.todo) : i + 1 \in DOMAIN t.todo /\ Tail(t.todo)[i] = t.todo[i + 1]
        /\ Statements(t.todo) = {Head(t.todo)} \cup Statements(Tail(t.todo))
    BY <1>4, AfterHead, Zenon
  <2>2. Tail(t.todo) # <<>>
    BY DEF t
  <2> QED  BY <1>3, <2>1, <2>2, Zenon
<1>6. Left(x) = Statements(t.todo) /\ Left(x)' = Statements(u.todo) /\ Done(x)' = DOMAIN own
  <2>1. tx'[x].todo = u.todo /\ tx'[x].own = own
    BY <1>2, <1>3
  <2> QED  BY <2>1 DEF Left, Statements, Done
<1>7. TxOK(x)'
  <2>1. TxShape(x)'
    <3>1. u.todo[Len(u.todo)] # ReadView
      <4>1. Len(u.todo) \in DOMAIN u.todo
        BY <1>5
      <4>2. u.todo[Len(u.todo)] = t.todo[Len(u.todo) + 1] /\ Len(u.todo) + 1 = Len(t.todo)
        <5> HIDE DEF t
        <5>1. u.todo[Len(u.todo)] = t.todo[Len(u.todo) + 1]
          BY <1>5, <4>1, Zenon
        <5>2. \A n \in Nat : (n - 1) + 1 = n
          OBVIOUS
        <5>3. (Len(t.todo) - 1) + 1 = Len(t.todo)
          BY <1>5, <5>2, Zenon
        <5>4. Len(u.todo) + 1 = Len(t.todo)
          BY <1>5, <5>3, Zenon
        <5> QED  BY <5>1, <5>4, Zenon
      <4> QED  BY <1>4, <4>2
    <3>2. u.op \in {"start", "cancel", "status", "timeout", "result"}
      BY <1>3, <1>4, Zenon
    <3>3. Done(x)' \subseteq Row
      BY <1>4, <1>5, <1>6, Zenon
    <3>4. /\ u = TxRecord(u.op, u.cmd, u.kind, u.todo, u.snap, u.own)
          /\ u.todo \in Seq(Row \cup {ReadView}) /\ u.todo # <<>>
      BY <1>3, <1>5, Zenon
    <3> QED  BY <1>2, <3>1, <3>2, <3>3, <3>4, Zenon DEF TxShape
  <2>2. Closed(x)'
    <3>1. \A r \in Row : r \in Left(x)' \cup Done(x)' <=> r \in Left(x) \cup Done(x)
      BY <1>5, <1>6, RowsDiffer
    <3>2. Closed(x)
      BY <1>1 DEF TxOK
    <3> QED  BY <3>1, <3>2, RowsDiffer DEF Closed
  <2>3. ProgressLast(x)'
    <3> SUFFICES ASSUME t.op \notin {"start", "cancel"}
                 PROVE  /\ \A i \in DOMAIN u.todo : u.todo[i] = TaskRow => i = Len(u.todo)
                        /\ ReadView \notin Left(x)' => (snap[TaskRow].began => db[TaskRow].began)
      BY <1>2, <1>3 DEF ProgressLast
    <3>1. /\ \A i \in DOMAIN t.todo : t.todo[i] = TaskRow => i = Len(t.todo)
          /\ ReadView \notin Left(x) => (t.snap[TaskRow].began => db[TaskRow].began)
      BY <1>1 DEF TxOK, ProgressLast
    <3>2. \A i \in DOMAIN u.todo : u.todo[i] = TaskRow => i = Len(u.todo)
      BY <1>5, <3>1
    <3>3. CASE Head(t.todo) = ReadView
      BY <3>2, <3>3
    <3>4. CASE Head(t.todo) # ReadView
      BY <1>5, <1>6, <3>1, <3>2, <3>4
    <3> QED  BY <3>3, <3>4
  <2>4. OwnCommands(tx[x].op, tx[x].kind, tx[x].own)' /\ OwnTask(tx[x].op, tx[x].own)'
    BY <1>2, <1>3 DEF OwnCommands, OwnTask
  <2> QED  BY <2>1, <2>2, <2>3, <2>4 DEF TxOK
<1>8. ASSUME NEW y \in Connections \ {x}, Busy(y)' PROVE TxOK(y)'
  <2>1. tx'[y] = tx[y] /\ TxOK(y)
    BY <1>2, <1>8 DEF Inv, Busy
  <2> QED  BY <2>1, OthersStay
<1>9. DbOK' /\ RowsAgree'
  BY <1>2 DEF Inv, DbOK, RowsAgree, Busy
<1>10. RowLocks'
  <2>1. \A y \in Connections \ {x} : Busy(y)' => Busy(y) /\ Done(y)' = Done(y)
    BY <1>2 DEF Busy, Done
  <2>2. \A y \in Connections \ {x} : Busy(y)' => Done(x)' \cap Done(y)' = {}
    BY <1>6, <2>1 DEF Inv, RowLocks
  <2> QED  BY <2>1, <2>2 DEF Inv, RowLocks
<1> QED  BY <1>2, <1>7, <1>8, <1>9, <1>10 DEF Inv

\* The SELECT of the progress computation takes the snapshot.
LEMMA ReadKeeps ==
    ASSUME Inv, NEW x \in Connections, Read(x)
    PROVE  Inv'
<1> DEFINE t == tx[x]
<1>1. /\ tx' = [tx EXCEPT ![x].snap = db, ![x].todo = Tail(@)] /\ db' = db /\ Busy(x)
      /\ tx = [y \in Connections |-> tx[y]] /\ Head(t.todo) = ReadView /\ TxOK(x)
  BY DEF Read, Inv
<1>2. tx' = [tx EXCEPT ![x] = TxRecord(t.op, t.cmd, t.kind, Tail(t.todo), db, t.own)]
  <2>1. t = TxRecord(t.op, t.cmd, t.kind, t.todo, t.snap, t.own)
    BY <1>1 DEF TxOK, TxShape
  <2>2. tx' = [tx EXCEPT ![x] = [t EXCEPT !.snap = db, !.todo = Tail(t.todo)]]
    BY <1>1
  <2>3. [t EXCEPT !.snap = db, !.todo = Tail(t.todo)] = TxRecord(t.op, t.cmd, t.kind, Tail(t.todo), db, t.own)
    <3> HIDE DEF t
    <3> QED  BY <2>1, ReadRecord, Zenon
  <2> QED  BY <2>2, <2>3
<1>3. Tail(t.todo) # <<>>
  <2>1. t.todo \in Seq(Row \cup {ReadView}) /\ t.todo # <<>> /\ t.todo[Len(t.todo)] # ReadView
    BY <1>1 DEF TxOK, TxShape
  <2> HIDE DEF t
  <2>2. Head(t.todo) = t.todo[1] /\ (Tail(t.todo) = <<>> => Len(t.todo) = 1)
    BY <2>1, AfterHead, Zenon
  <2> QED  BY <1>1, <2>1, <2>2 DEF t
<1>4. ReadView \notin Row /\ Done(x) \subseteq Row /\ DOMAIN t.own = Done(x)
  BY <1>1, RowsDiffer DEF TxOK, TxShape, Done
<1>5. \A y \in Connections \ {x} : Busy(y) => ReadView \notin Done(y)
  BY RowsDiffer DEF Inv, TxOK, TxShape
<1>6. OwnCommands(t.op, t.kind, t.own) /\ OwnTask(t.op, t.own)
  BY <1>1 DEF TxOK
<1> HIDE DEF t
<1>7. /\ DOMAIN t.own = Done(x) \cup ({Head(t.todo)} \ {ReadView})
      /\ db = IF Head(t.todo) = ReadView THEN db ELSE t.snap
      /\ \A y \in Connections \ {x} : Busy(y) => Head(t.todo) \notin Done(y)
  BY <1>1, <1>4, <1>5 DEF t
<1> QED  BY <1>1, <1>2, <1>3, <1>6, <1>7, Advance DEF t

-----------------------------------------------------------------------------
\* How a step may change the committed row of the task.
TaskStep ==
    \/ db'[TaskRow] = db[TaskRow]
    \/ /\ db[TaskRow].status = "absent"
       /\ db'[TaskRow] = [status |-> "pending", began |-> FALSE]
    \/ /\ db[TaskRow].status # "absent"
       /\ \/ db'[TaskRow] = [status |-> "running", began |-> TRUE]
          \/ \E s \in {"completed", "failed", "canceled"} :
                db'[TaskRow] = [status |-> s, began |-> db[TaskRow].began]

\* A host counted among two kinds is counted among one of them.
LEMMA SeenEither ==
    ASSUME NEW x
    PROVE  /\ \A kinds : Seen(x, kinds) \in Nat
           /\ Seen(x, {"Running", "Completed"}) > 0
                 <=> Seen(x, {"Running"}) > 0 \/ Seen(x, {"Completed"}) > 0
<1> DEFINE S(kinds) == {c \in Commands : View(x, Host(c)) \in kinds}
<1>1. IsFiniteSet(Commands)
  <2>1. IsFiniteSet(1..N)
    BY CommandIndex, FS_Interval
  <2>2. CommandSeq \in Surjection(1..N, Commands)
    BY CommandIndex, SeqAssumption DEF Surjection
  <2> QED  BY <2>1, <2>2, FS_Surjection
<1>2. \A kinds : IsFiniteSet(S(kinds)) /\ S(kinds) \subseteq Commands
  BY <1>1, FS_Subset
<1>3. \A kinds : Cardinality(S(kinds)) \in Nat /\ (Cardinality(S(kinds)) = 0 <=> S(kinds) = {})
  BY <1>2, FS_CardinalityType, FS_EmptySet
<1>4. S({"Running", "Completed"}) = S({"Running"}) \cup S({"Completed"})
  OBVIOUS
<1>5. \A kinds : Seen(x, kinds) = Cardinality(S(kinds))
  BY DEF Seen
<1> HIDE DEF S
<1> QED  BY <1>3, <1>4, <1>5

\* What the progress computation stores is one of the steps of a task.
LEMMA StoredStep ==
    ASSUME Inv, NEW x \in Connections, Busy(x), TaskRow \notin Done(x), NEW failed,
           tx[x].snap[TaskRow].began => db[TaskRow].began, db[TaskRow].status # "absent"
    PROVE  LET v == StoredProgress(x, failed) IN
           \/ v = db[TaskRow]
           \/ v = [status |-> "running", began |-> TRUE]
           \/ \E s \in {"completed", "failed", "canceled"} : v = [status |-> s, began |-> db[TaskRow].began]
<1> DEFINE p == db[TaskRow]
           all == AllFinishedBy(N, Seen(x, {"Completed"}), failed, Seen(x, {"Canceled"}))
           acts == Seen(x, {"Running"}) > 0 \/ Seen(x, {"Completed"}) > 0
           status == ProgressStatus(p.status, N, Seen(x, {"Completed"}), failed, Seen(x, {"Running"}),
                                    Seen(x, {"Canceled"}))
           old == tx[x].snap[TaskRow].began
           v == StoredProgress(x, failed)
<1>1. Current(x, TaskRow) = p /\ View(x, TaskRow) = tx[x].snap[TaskRow]
  BY DEF Current, View, Done
<1>2. v = [status |-> status, began |-> p.began \/ ((~all /\ acts) /\ ~old)]
  BY <1>1, SeenEither DEF StoredProgress
<1>3. p \in TaskStates
  BY DEF Inv, DbOK
<1>4. p = [status |-> p.status, began |-> p.began] /\ p.began \in BOOLEAN
  BY <1>3 DEF TaskStates
<1>5. CASE all
  <2>1. status \in {"completed", "failed", "canceled"}
    BY <1>5 DEF ProgressStatus
  <2>2. (p.began \/ ((~all /\ acts) /\ ~old)) = p.began
    BY <1>4, <1>5, Zenon
  <2> QED  BY <1>2, <2>1, <2>2
<1>6. CASE ~all /\ acts
  <2>1. status = "running"
    BY <1>6 DEF ProgressStatus
  <2>2. (p.began \/ ((~all /\ acts) /\ ~old)) = TRUE
    BY <1>4, <1>6, Zenon
  <2> QED  BY <1>2, <2>1, <2>2
<1>7. CASE ~all /\ ~acts
  <2>1. status = p.status
    BY <1>7 DEF ProgressStatus
  <2>2. (p.began \/ ((~all /\ acts) /\ ~old)) = p.began
    BY <1>4, <1>7, Zenon
  <2> QED  BY <1>2, <1>4, <2>1, <2>2
<1> QED  BY <1>5, <1>6, <1>7

\* What an UPDATE adds to the rows its transaction has written.
LEMMA WriteOwn ==
    ASSUME Inv, NEW x \in Connections, Busy(x), NEW r \in Row, NEW v \in Written(x, r)
    PROVE  LET own == Holding(tx[x].own, r, v) IN
           /\ DOMAIN own = Done(x) \cup {r}
           /\ OwnCommands(tx[x].op, tx[x].kind, own)
           /\ r = TaskRow => own[TaskRow] = v
           /\ tx[x].op \in {"start", "cancel"} \/ r # TaskRow => OwnTask(tx[x].op, own)
<1> DEFINE t == tx[x]
           own == Holding(tx[x].own, r, v)
<1>1. /\ DOMAIN own = Done(x) \cup {r} /\ own[r] = v
      /\ \A q \in Done(x) \ {r} : own[q] = t.own[q]
  BY DEF Holding, Done
<1> HIDE DEF own
<1>2. OwnCommands(t.op, t.kind, t.own) /\ OwnTask(t.op, t.own)
  BY DEF Inv, TxOK
<1>3. ASSUME NEW c \in Commands, r = Cmd(c) PROVE v = FinalCmd(t.op, t.kind, db[Cmd(c)])
  <2>1. v = FinalCmd(t.op, t.kind, Current(x, r))
    BY <1>3, RowsDiffer DEF Written, CommandValue, FinalCmd, Cancels
  <2>2. Current(x, r) = db[Cmd(c)] \/ Current(x, r) = FinalCmd(t.op, t.kind, db[Cmd(c)])
    BY <1>2, <1>3 DEF Current, OwnCommands
  <2> QED  BY <2>1, <2>2, FinalIsFinal
<1>4. ASSUME NEW c \in Commands, r = Host(c) PROVE v = FinalHost(t.op, t.kind, db[Host(c)])
  <2>1. v = FinalHost(t.op, t.kind, Current(x, r))
    BY <1>4, RowsDiffer DEF Written, HostValue, FinalHost, Cancels
  <2>2. Current(x, r) = db[Host(c)] \/ Current(x, r) = FinalHost(t.op, t.kind, db[Host(c)])
    BY <1>2, <1>4 DEF Current, OwnCommands
  <2> QED  BY <2>1, <2>2, FinalIsFinal
<1>5. OwnCommands(t.op, t.kind, own)
  <2> SUFFICES ASSUME NEW c \in Commands
               PROVE  /\ Cmd(c)  \in DOMAIN own => own[Cmd(c)]  = FinalCmd(t.op, t.kind, db[Cmd(c)])
                      /\ Host(c) \in DOMAIN own => own[Host(c)] = FinalHost(t.op, t.kind, db[Host(c)])
    BY DEF OwnCommands
  <2>1. /\ Cmd(c)  \in Done(x) => t.own[Cmd(c)]  = FinalCmd(t.op, t.kind, db[Cmd(c)])
        /\ Host(c) \in Done(x) => t.own[Host(c)] = FinalHost(t.op, t.kind, db[Host(c)])
    BY <1>2 DEF OwnCommands, Done
  <2> QED  BY <1>1, <1>3, <1>4, <2>1
<1>6. ASSUME t.op \in {"start", "cancel"}, r = TaskRow PROVE OwnTask(t.op, own)
  <2>1. v = TaskValue(x, 0)
    <3> DEFINE F == IF tx[x].op \in {"start", "cancel"} THEN {0} ELSE FailedCounts(x)
    <3>1. Written(x, r) = {TaskValue(x, failed) : failed \in F}
      BY <1>6 DEF Written, TaskRow
    <3>2. F = {0}
      BY <1>6
    <3> QED  BY <3>1, <3>2
  <2>2. db[TaskRow] = [status |-> db[TaskRow].status, began |-> db[TaskRow].began]
    BY DEF Inv, DbOK, TaskStates
  <2>3. \A a, b : [[status |-> a, began |-> b] EXCEPT !.status = "canceled"] = [status |-> "canceled", began |-> b]
    OBVIOUS
  <2>4. [db[TaskRow] EXCEPT !.status = "canceled"] = [status |-> "canceled", began |-> db[TaskRow].began]
    BY <2>2, <2>3
  <2> QED  BY <1>1, <1>6, <2>1, <2>4 DEF TaskValue, OwnTask
<1>7. ASSUME r # TaskRow PROVE OwnTask(t.op, own)
  BY <1>1, <1>2, <1>7 DEF OwnTask, Done
<1> QED  BY <1>1, <1>5, <1>6, <1>7 DEF own

\* The last UPDATE of a progress computation is that of the task.
LEMMA LastIsTask ==
    ASSUME Inv, NEW x \in Connections, Busy(x), Head(tx[x].todo) # ReadView
    PROVE  /\ Head(tx[x].todo) \in Row
           /\ Statements(tx[x].todo) = {Head(tx[x].todo)} \cup Statements(Tail(tx[x].todo))
           /\ Tail(tx[x].todo) = <<>> => Left(x) = {Head(tx[x].todo)}
           /\ tx[x].op \notin {"start", "cancel"} /\ Head(tx[x].todo) = TaskRow
                => Tail(tx[x].todo) = <<>> /\ TaskRow \notin Done(x)
<1> DEFINE s == tx[x].todo
<1>1. TxOK(x) /\ s \in Seq(Row \cup {ReadView}) /\ s # <<>>
  BY DEF Inv, TxOK, TxShape
<1> HIDE DEF s
<1>2. /\ Head(s) \in Row \cup {ReadView} /\ Tail(s) \in Seq(Row \cup {ReadView})
      /\ Len(s) \in Nat /\ Len(Tail(s)) = Len(s) - 1 /\ DOMAIN s = 1..Len(s) /\ Head(s) = s[1]
      /\ Statements(s) = {Head(s)} \cup Statements(Tail(s))
      /\ Tail(s) = <<>> <=> Len(s) = 1
      /\ Tail(s) = <<>> => Statements(Tail(s)) = {}
  BY <1>1, AfterHead, Zenon
<1>3. Left(x) = Statements(s)
  BY DEF Left, Statements, s
<1>4. ASSUME tx[x].op \notin {"start", "cancel"}, Head(s) = TaskRow
      PROVE  Tail(s) = <<>> /\ TaskRow \notin Done(x)
  <2>1. \A i \in DOMAIN s : s[i] = TaskRow => i = Len(s)
    BY <1>1, <1>4 DEF TxOK, ProgressLast, s
  <2>2. 1 \in DOMAIN s
    BY <1>1, <1>2
  <2>3. Len(s) = 1
    BY <1>2, <1>4, <2>1, <2>2
  <2>4. TaskRow \notin Done(x)
    BY <1>1, <1>4 DEF TxOK, OwnTask, Done
  <2> QED  BY <1>2, <2>3, <2>4
<1> QED  BY <1>2, <1>3, <1>4 DEF s

\* No step cancels a host that has ended.
ResultsKept ==
    \A c \in Commands : db[Host(c)] \in FailKinds \cup {"Completed"} => db'[Host(c)] # "Canceled"

\* A commit publishes pairs of rows that agree and moves the task as it may.
LEMMA CommitKeeps ==
    ASSUME Inv, NEW x \in Connections, Busy(x), Head(tx[x].todo) # ReadView, Tail(tx[x].todo) = <<>>,
           \A y \in Connections : ~WaitsFor(x, y),
           NEW v \in Written(x, Head(tx[x].todo)),
           db' = [q \in Row |-> IF q \in DOMAIN Holding(tx[x].own, Head(tx[x].todo), v)
                                 THEN Holding(tx[x].own, Head(tx[x].todo), v)[q] ELSE db[q]],
           tx' = [tx EXCEPT ![x] = Idle]
    PROVE  Inv' /\ TaskStep /\ ResultsKept
<1> DEFINE t == tx[x]
           r == Head(tx[x].todo)
           own == Holding(tx[x].own, r, v)
<1>1. TxOK(x) /\ r \in Row /\ Left(x) = {r} /\ tx = [y \in Connections |-> tx[y]]
  BY LastIsTask DEF Inv
<1>2. /\ DOMAIN own = Done(x) \cup {r} /\ OwnCommands(t.op, t.kind, own)
      /\ r = TaskRow => own[TaskRow] = v
      /\ t.op \in {"start", "cancel"} \/ r # TaskRow => OwnTask(t.op, own)
  BY <1>1, WriteOwn
<1>3. db' = [q \in Row |-> IF q \in DOMAIN own THEN own[q] ELSE db[q]]
  OBVIOUS
<1> HIDE DEF own
<1>4. /\ db' = [q \in Row |-> db'[q]]
      /\ \A q \in Row : db'[q] = IF q \in DOMAIN own THEN own[q] ELSE db[q]
  BY <1>3
<1>5. /\ ~Busy(x)' /\ (\A y \in Connections \ {x} : tx'[y] = tx[y])
      /\ tx' = [y \in Connections |-> tx'[y]]
  BY <1>1 DEF Busy
<1>6. \A c \in Commands : Cmd(c) \in DOMAIN own <=> Host(c) \in DOMAIN own
  BY <1>1, <1>2 DEF TxOK, Closed
<1>7. \A y \in Connections \ {x} : Busy(y) => DOMAIN own \cap Done(y) = {}
  BY <1>2 DEF Inv, RowLocks, WaitsFor, Done
<1>8. db[TaskRow] \in TaskStates /\ db[TaskRow].status # "absent"
  BY DEF Inv, DbOK
<1>9. RowsAgree'
  <2> SUFFICES ASSUME NEW c \in Commands PROVE Agrees(db'[Cmd(c)], db'[Host(c)])
    BY DEF RowsAgree
  <2>1. Agrees(db[Cmd(c)], db[Host(c)]) /\ Cmd(c) \in Row /\ Host(c) \in Row
    BY RowsDiffer DEF Inv, RowsAgree
  <2>2. CASE Cmd(c) \notin DOMAIN own
    BY <1>4, <1>6, <2>1, <2>2
  <2>3. CASE Cmd(c) \in DOMAIN own
    <3>1. db'[Cmd(c)] = FinalCmd(t.op, t.kind, db[Cmd(c)]) /\ db'[Host(c)] = FinalHost(t.op, t.kind, db[Host(c)])
      BY <1>2, <1>4, <1>6, <2>1, <2>3 DEF OwnCommands
    <3> QED  BY <2>1, <3>1, FinalAgrees
  <2> QED  BY <2>2, <2>3
<1>10. ResultsKept
  <2> SUFFICES ASSUME NEW c \in Commands, db[Host(c)] \in FailKinds \cup {"Completed"}
               PROVE  db'[Host(c)] # "Canceled"
    BY DEF ResultsKept
  <2>1. db'[Host(c)] = db[Host(c)] \/ db'[Host(c)] = FinalHost(t.op, t.kind, db[Host(c)])
    BY <1>2, <1>4, RowsDiffer DEF OwnCommands
  <2> QED  BY <2>1, FinalKeepsResults DEF FailKinds
<1>11. TaskStep
  <2>1. CASE TaskRow \notin DOMAIN own
    BY <1>4, <2>1, RowsDiffer DEF TaskStep
  <2>2. CASE TaskRow \in DOMAIN own /\ OwnTask(t.op, own)
    BY <1>4, <1>8, <2>2, RowsDiffer DEF TaskStep, OwnTask
  <2>3. CASE r = TaskRow /\ t.op \notin {"start", "cancel"}
    <3>1. PICK failed : v = StoredProgress(x, failed)
      <4> DEFINE F == IF tx[x].op \in {"start", "cancel"} THEN {0} ELSE FailedCounts(x)
      <4>1. Written(x, r) = {TaskValue(x, failed) : failed \in F}
        BY <2>3 DEF Written, TaskRow
      <4>2. PICK failed \in F : v = TaskValue(x, failed)
        BY <4>1
      <4> QED  BY <2>3, <4>2 DEF TaskValue
    <3>2. TaskRow \notin Done(x)
      BY <2>3, LastIsTask
    <3>3. t.snap[TaskRow].began => db[TaskRow].began
      BY <1>1, <2>3, RowsDiffer DEF TxOK, ProgressLast
    <3>4. db'[TaskRow] = v
      BY <1>2, <1>4, <2>3, RowsDiffer
    <3> QED  BY <1>8, <3>1, <3>2, <3>3, <3>4, StoredStep DEF TaskStep
  <2> QED  BY <1>1, <1>2, <2>1, <2>2, <2>3
<1>12. db'[TaskRow] \in TaskStates /\ db'[TaskRow].status # "absent" /\ (db[TaskRow].began => db'[TaskRow].began)
  <2>1. db[TaskRow].began \in BOOLEAN
    BY <1>8 DEF TaskStates
  <2>2. CASE db'[TaskRow] = db[TaskRow]
    BY <1>8, <2>2
  <2>3. CASE db'[TaskRow] = [status |-> "running", began |-> TRUE]
    <3>1. [status |-> "running", began |-> TRUE] \in TaskStates
      BY DEF TaskStates
    <3> QED  BY <2>3, <3>1
  <2>4. ASSUME NEW s \in {"completed", "failed", "canceled"},
               db'[TaskRow] = [status |-> s, began |-> db[TaskRow].began]
        PROVE  /\ db'[TaskRow] \in TaskStates /\ db'[TaskRow].status # "absent"
               /\ db'[TaskRow].began = db[TaskRow].began
    <3>1. [status |-> s, began |-> db[TaskRow].began] \in TaskStates
      BY <2>1 DEF TaskStates
    <3> QED  BY <2>4, <3>1
  <2> QED  BY <1>8, <1>11, <2>2, <2>3, <2>4 DEF TaskStep
<1>13. DbOK'
  BY <1>4, <1>12 DEF DbOK
<1>14. ASSUME NEW y \in Connections, Busy(y)' PROVE TxOK(y)' /\ tx'[y] = tx[y]
  <2>1. y # x /\ tx'[y] = tx[y] /\ TxOK(y) /\ Busy(y)
    BY <1>5, <1>14 DEF Inv, Busy
  <2>2. Done(y) \subseteq Row
    BY <2>1 DEF TxOK, TxShape
  <2>3. \A q \in Done(y) : db'[q] = db[q]
    BY <1>4, <1>7, <2>1, <2>2
  <2> QED  BY <1>12, <2>1, <2>3, OthersStay
<1>15. RowLocks'
  BY <1>14 DEF Inv, RowLocks, Done, Busy
<1> QED  BY <1>5, <1>9, <1>10, <1>11, <1>13, <1>14, <1>15 DEF Inv

\* An UPDATE keeps the invariant, whether it is the last one or not.
LEMMA WriteKeeps ==
    ASSUME Inv, NEW x \in Connections, Write(x)
    PROVE  Inv' /\ TaskStep /\ ResultsKept
<1> DEFINE t == tx[x]
           r == Head(tx[x].todo)
           own(v) == Holding(tx[x].own, r, v)
<1>1. Busy(x) /\ r # ReadView /\ \A y \in Connections : ~WaitsFor(x, y)
  BY DEF Write
<1>2. PICK v \in Written(x, r) :
         IF Tail(t.todo) # <<>>
         THEN /\ tx' = [tx EXCEPT ![x].own = own(v), ![x].todo = Tail(@)]
              /\ UNCHANGED db
         ELSE /\ db' = [q \in Row |-> IF q \in DOMAIN own(v) THEN own(v)[q] ELSE db[q]]
              /\ tx' = [tx EXCEPT ![x] = Idle]
  BY DEF Write
<1>3. CASE Tail(t.todo) = <<>>
  BY <1>1, <1>2, <1>3, CommitKeeps
<1>4. CASE Tail(t.todo) # <<>>
  <2>1. TxOK(x) /\ r \in Row /\ tx = [y \in Connections |-> tx[y]]
    BY <1>1, LastIsTask DEF Inv
  <2>2. db' = db /\ tx' = [tx EXCEPT ![x] = TxRecord(t.op, t.cmd, t.kind, Tail(t.todo), t.snap, own(v))]
    <3>1. t = TxRecord(t.op, t.cmd, t.kind, t.todo, t.snap, t.own)
      BY <2>1 DEF TxOK, TxShape
    <3> HIDE DEF own
    <3>2. tx' = [tx EXCEPT ![x] = [t EXCEPT !.own = own(v), !.todo = Tail(t.todo)]]
      BY <1>2, <1>4
    <3> HIDE DEF t
    <3>3. [t EXCEPT !.own = own(v), !.todo = Tail(t.todo)]
            = TxRecord(t.op, t.cmd, t.kind, Tail(t.todo), t.snap, own(v))
      BY <3>1, WriteRecord, Zenon
    <3> QED  BY <1>2, <1>4, <3>2, <3>3
  <2>3. /\ DOMAIN own(v) = Done(x) \cup {r} /\ OwnCommands(t.op, t.kind, own(v))
        /\ t.op \in {"start", "cancel"} \/ r # TaskRow => OwnTask(t.op, own(v))
    BY <1>1, <1>2, <2>1, WriteOwn
  <2>4. OwnTask(t.op, own(v))
    BY <1>1, <1>4, <2>3, LastIsTask
  <2>5. \A y \in Connections \ {x} : Busy(y) => r \notin Done(y)
    BY <1>1 DEF WaitsFor, Done
  <2>6. Inv'
    <3> HIDE DEF own
    <3>1. DOMAIN own(v) = Done(x) \cup ({r} \ {ReadView}) /\ t.snap = IF r = ReadView THEN db ELSE t.snap
      BY <1>1, <2>3
    <3> QED  BY <1>1, <1>4, <2>2, <2>3, <2>4, <2>5, <3>1, Advance
  <2>7. ResultsKept
    BY <2>2 DEF ResultsKept, FailKinds
  <2> QED  BY <2>2, <2>6, <2>7 DEF TaskStep
<1> QED  BY <1>3, <1>4

\* The INSERTs of CreateTask come before any transaction.
LEMMA CreateKeeps ==
    ASSUME Inv, CreateTask
    PROVE  Inv' /\ TaskStep /\ ResultsKept
<1>1. /\ db[TaskRow].status = "absent" /\ tx' = tx
      /\ db' = [r \in Row |-> CASE r = TaskRow -> [status |-> "pending", began |-> FALSE]
                                [] r[1] = "cmd" -> "pending" [] OTHER -> "Pending"]
  BY DEF CreateTask
<1>2. /\ db' = [r \in Row |-> db'[r]] /\ db'[TaskRow] = [status |-> "pending", began |-> FALSE]
      /\ \A c \in Commands : db'[Cmd(c)] = "pending" /\ db'[Host(c)] = "Pending"
  BY <1>1, RowsDiffer DEF TaskRow
<1>3. \A x \in Connections : ~Busy(x)'
  BY <1>1 DEF Inv, DbOK, Busy
<1>4. DbOK' /\ RowsAgree'
  BY <1>2 DEF DbOK, RowsAgree, TaskStates, Agrees
<1>5. RowLocks'
  BY <1>3 DEF RowLocks
<1>6. tx' = [x \in Connections |-> tx'[x]]
  BY <1>1 DEF Inv
<1>7. TaskStep /\ ResultsKept
  BY <1>1, <1>2 DEF TaskStep, ResultsKept
<1> QED  BY <1>3, <1>4, <1>5, <1>6, <1>7 DEF Inv

\* A step without a commit leaves the rows as they are.
LEMMA RowsRest == db' = db => TaskStep /\ ResultsKept
  BY DEF TaskStep, ResultsKept, FailKinds

\* Every step keeps the invariant, moves the task as it may and keeps the results.
LEMMA IsolationNext == Inv /\ [Next]_vars => Inv' /\ TaskStep /\ ResultsKept
<1> SUFFICES ASSUME Inv, [Next]_vars PROVE Inv' /\ TaskStep /\ ResultsKept
  OBVIOUS
<1> DEFINE Goal == Inv' /\ TaskStep /\ ResultsKept
<1>1. CASE UNCHANGED vars
  <2>1. db' = db /\ tx' = tx
    BY <1>1 DEF vars
  <2>2. ASSUME NEW y \in Connections, Busy(y)' PROVE TxOK(y)'
    BY <2>1, <2>2, OthersStay DEF Inv, Busy
  <2>3. DbOK' /\ RowsAgree' /\ RowLocks'
    BY <2>1 DEF Inv, DbOK, RowsAgree, RowLocks, Busy, Done
  <2> QED  BY <2>1, <2>2, <2>3, RowsRest DEF Inv
<1>2. CASE CreateTask
  BY <1>2, CreateKeeps
<1>3. ASSUME NEW x \in Connections, NEW op, NEW c, NEW k, Begin(x, op, c, k),
             op \in {"start", "cancel", "status", "timeout", "result"},
             op \in {"timeout", "result"} => c \in Commands
      PROVE  Goal
  BY <1>3, BeginKeeps, RowsRest DEF Begin
<1>4. ASSUME NEW x \in Connections, BeginStart(x) \/ BeginCancel(x) \/ BeginStatus(x) PROVE Goal
  BY <1>3, <1>4 DEF BeginStart, BeginCancel, BeginStatus
<1>5. ASSUME NEW x \in Connections, NEW c \in Commands, BeginTimeout(x, c) PROVE Goal
  BY <1>3, <1>5 DEF BeginTimeout
<1>6. ASSUME NEW x \in Connections, NEW c \in Commands, NEW k, BeginResult(x, c, k) PROVE Goal
  BY <1>3, <1>6 DEF BeginResult
<1>7. ASSUME NEW x \in Connections, Read(x) PROVE Goal
  BY <1>7, ReadKeeps, RowsRest DEF Read
<1>8. ASSUME NEW x \in Connections, Write(x) PROVE Goal
  BY <1>8, WriteKeeps
<1>9. ASSUME NEW x \in Connections, DeadlockVictim(x) PROVE Goal
  BY <1>9, VictimKeeps, RowsRest DEF DeadlockVictim
<1> QED  BY <1>1, <1>2, <1>4, <1>5, <1>6, <1>7, <1>8, <1>9 DEF Next, Step

LEMMA IsolationInit == Init => Inv
<1> SUFFICES ASSUME Init PROVE Inv
  OBVIOUS
<1>1. \A x \in Connections : ~Busy(x)
  BY DEF Init, Busy
<1>2. /\ db = [r \in Row |-> db[r]] /\ db[TaskRow] = [status |-> "absent", began |-> FALSE]
      /\ \A c \in Commands : db[Cmd(c)] = "absent" /\ db[Host(c)] = "absent"
  BY RowsDiffer DEF Init
<1>3. DbOK
  <2>0. [status |-> "absent", began |-> FALSE] \in TaskStates
    BY DEF TaskStates
  <2>1. db[TaskRow] \in TaskStates
    BY <1>2, <2>0
  <2> QED  BY <1>1, <1>2, <2>1 DEF DbOK
<1>5. RowsAgree
  BY <1>2 DEF RowsAgree, Agrees
<1>4. tx = [x \in Connections |-> tx[x]]
  BY DEF Init
<1> QED  BY <1>1, <1>3, <1>4, <1>5 DEF Inv, RowLocks

LEMMA IsolationInv == Spec => []Inv /\ [][TaskStep /\ ResultsKept]_vars
<1>1. Inv /\ [Next]_vars => [TaskStep /\ ResultsKept]_vars
  BY IsolationNext
<1>2. Inv /\ [Next]_vars => Inv'
  BY IsolationNext
<1> QED  BY <1>1, <1>2, IsolationInit, PTL DEF Spec

-----------------------------------------------------------------------------
\* The Command and the CommandHost of an execution agree in every committed state,
\* however transactions overlap and in whatever order they take the rows: InnoDB's
\* row locks suffice because every transaction that writes one row writes both.
THEOREM CommittedRowsAgree == Spec => []RowsAgree
<1>1. Inv => RowsAgree
  BY DEF Inv
<1> QED  BY <1>1, IsolationInv, PTL

\* CancelTask never overwrites the result of a host that has ended: its UPDATEs look
\* at the current rows although the check of the task was made on an old one.
THEOREM CancelSparesResults == Spec => CancelKeepsResults
<1>1. [TaskStep /\ ResultsKept]_vars
        => [ \A c \in Commands : db[Host(c)] \in FailKinds \cup {"Completed"} => db'[Host(c)] # "Canceled" ]_vars
  BY DEF ResultsKept
<1> QED  BY <1>1, IsolationInv, PTL DEF CancelKeepsResults

\* Overlapping transactions implement the contract of the task: computed from old
\* snapshots or not, what they commit never makes the task pending again and never
\* lets it run without a start time.
THEOREM IsolationKeepsContract == Spec => ImplementsContract
<1>1. Init => Contract!Init
  BY DEF Init, Contract!Init, Stage, Completed, Row
<1>2. Inv /\ [TaskStep /\ ResultsKept]_vars => Contract!Next
  <2> SUFFICES ASSUME Inv, [TaskStep /\ ResultsKept]_vars
               PROVE  \/ Contract!Create(TaskRow) \/ Contract!Begin(TaskRow) \/ Contract!End(TaskRow)
                      \/ Contract!Reopen(TaskRow) \/ Contract!Rest(TaskRow)
    BY DEF Contract!Next
  <2> USE DEF Contract!Moves
  <2>1. TaskStep
    BY RowsRest DEF vars
  <2>2. db[TaskRow] \in TaskStates /\ (db[TaskRow].status = "absent" => db[TaskRow].began = FALSE)
    BY DEF Inv, DbOK, TaskStates
  <2>3. CASE db'[TaskRow] = db[TaskRow]
    BY <2>3 DEF Contract!Rest
  <2>4. CASE db[TaskRow].status = "absent" /\ db'[TaskRow] = [status |-> "pending", began |-> FALSE]
    <3>1. Stage(db[TaskRow].status) = "absent" /\ Stage(db'[TaskRow].status) = "pending"
      BY <2>4 DEF Stage, Completed
    <3>2. db[TaskRow].began = FALSE
      BY <2>2, <2>4, Zenon
    <3>3. [status |-> "pending", began |-> FALSE].began = FALSE
      OBVIOUS
    <3>4. db'[TaskRow].began = db[TaskRow].began
      BY <2>4, <3>2, <3>3, Zenon
    <3> QED  BY <3>1, <3>4 DEF Contract!Create
  <2>5. CASE db[TaskRow].status # "absent" /\ db'[TaskRow] = [status |-> "running", began |-> TRUE]
    <3>1. db[TaskRow].status \in {"pending", "running", "completed", "failed", "canceled"}
      BY <2>2, <2>5 DEF TaskStates
    <3>2. Stage(db[TaskRow].status) \in {"pending", "active", "over"}
      BY <3>1 DEF Stage, Completed
    <3>3. Stage(db'[TaskRow].status) = "active" /\ db'[TaskRow].began
      BY <2>5 DEF Stage, Completed
    <3>4. CASE Stage(db[TaskRow].status) = "over"
      BY <3>3, <3>4 DEF Contract!Reopen
    <3>5. CASE Stage(db[TaskRow].status) \in {"pending", "active"}
      BY <3>3, <3>5 DEF Contract!Begin
    <3> QED  BY <3>2, <3>4, <3>5
  <2>6. ASSUME NEW s \in {"completed", "failed", "canceled"}, db[TaskRow].status # "absent",
               db'[TaskRow] = [status |-> s, began |-> db[TaskRow].began]
        PROVE  Contract!End(TaskRow)
    BY <2>2, <2>6 DEF Contract!End, Stage, Completed, TaskStates
  <2> QED  BY <2>1, <2>3, <2>4, <2>5, <2>6 DEF TaskStep
<1>3. Spec => Init
  BY PTL DEF Spec
<1> QED  BY <1>1, <1>2, <1>3, IsolationInv, PTL DEF ImplementsContract, Contract!Spec
=============================================================================
