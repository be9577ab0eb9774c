---------------------------- MODULE BulkInserter ----------------------------
(***************************************************************************)
(* BulkInserter of core/stores/sqlx: records are formatted by Insert,      *)
(* collected by a PeriodicalExecutor and inserted in bulk with the         *)
(* statement of the inserter.  The executor is abstracted to the batches   *)
(* its background goroutine has taken and not executed yet (see            *)
(* PeriodicalExecutor); one goroutine changes the statement.               *)
(***************************************************************************)
EXTENDS Naturals, Sequences, FiniteSets

CONSTANTS
    MaxBulkRows,    \* maxBulkRows, 1000 in the code
    MaxInserts, MaxUpdates

VARIABLE bi

\* A statement: the columns it names (0 for none) and the variables of its values.
Statements == {[table |-> 1, columns |-> 1, variables |-> 1],
               [table |-> 2, columns |-> 0, variables |-> 1],
               [table |-> 3, columns |-> 2, variables |-> 2],
               [table |-> 4, columns |-> 2, variables |-> 1],
               [table |-> 5, columns |-> 1, variables |-> 0]}

\* parseInsertStmt: an error for a statement without variables, or with other than its columns.
ParseInsertStmt(s) == s.variables # 0 /\ (s.columns > 0 => s.columns = s.variables)

First == CHOOSE s \in Statements : s.table = 1

\* stmt is that of the BulkInserter and instmt that of its dbInserter; values are the records that
\* wait, flight the batches of the executor, own the batch that Flush has taken.  A batch is a set:
\* its records, numbered as they come, go into one statement.  Ghosts: inserted, the numbers of the
\* records inserted; done, how, each with the statement used; raced, a batch was in flight during an
\* UpdateStmt or UpdateOrDelete, or a record came between Flush and Sync; missed, a record inserted
\* before UpdateOrDelete was called was still to come when its function ran.
Init ==
    bi = [stmt |-> First, instmt |-> First, values |-> {}, flight |-> <<>>, own |-> {},
          pc |-> "idle", next |-> First, before |-> 0, inserts |-> 0, updates |-> 0, done |-> {},
          inserted |-> {}, raced |-> FALSE, missed |-> FALSE]

\* The record of an Insert.
Record == [n |-> bi.inserts + 1, format |-> bi.stmt, at |-> bi.instmt]

\* Mutant of Insert: a batch is full one record late.
InsertLate(args) ==
    /\ bi.inserts < MaxInserts /\ args = bi.stmt.variables
    /\ LET all == bi.values \cup {Record}
       IN  bi' = IF Cardinality(all) > MaxBulkRows
                 THEN [bi EXCEPT !.inserts = @ + 1, !.values = {}, !.flight = Append(@, all)]
                 ELSE [bi EXCEPT !.inserts = @ + 1, !.values = all]

\* Insert: format gives an error when the arguments are not as many as the variables; AddTask says
\* whether the batch is full, and a full one goes to the background goroutine.
Insert(args) ==
    /\ bi.inserts < MaxInserts /\ args = bi.stmt.variables
    /\ LET all == bi.values \cup {Record}
       IN  bi' = IF Cardinality(all) >= MaxBulkRows
                 THEN [bi EXCEPT !.inserts = @ + 1, !.values = {}, !.flight = Append(@, all)]
                 ELSE [bi EXCEPT !.inserts = @ + 1, !.values = all]

\* The flush interval has passed: RemoveAll.
TakeBatch ==
    /\ bi.values # {}
    /\ bi' = [bi EXCEPT !.values = {}, !.flight = Append(@, bi.values)]

\* Execute: the records of a batch with the statement of the inserter.
Executed(b, batch) ==
    [b EXCEPT !.inserted = @ \cup {r.n : r \in batch},
              !.done = @ \cup {[format |-> r.format, at |-> r.at, with |-> b.instmt] : r \in batch}]

Execute ==
    /\ bi.flight # <<>>
    /\ bi' = [Executed(bi, Head(bi.flight)) EXCEPT !.flight = Tail(@)]

\* Mutant of UpdateStmt: the statement changes before the records that wait are flushed.
UpdateStmtFirst(s) ==
    /\ bi.pc = "idle" /\ bi.updates < MaxUpdates
    /\ bi' = IF ParseInsertStmt(s)
             THEN [bi EXCEPT !.pc = "flush", !.next = s, !.instmt = s, !.updates = @ + 1]
             ELSE [bi EXCEPT !.updates = @ + 1]

\* UpdateStmt: a statement that does not parse changes nothing.
UpdateStmt(s) ==
    /\ bi.pc = "idle" /\ bi.updates < MaxUpdates
    /\ bi' = IF ParseInsertStmt(s)
             THEN [bi EXCEPT !.pc = "flush", !.next = s, !.updates = @ + 1]
             ELSE [bi EXCEPT !.updates = @ + 1]

UpdateOrDelete ==
    /\ bi.pc = "idle" /\ bi.updates < MaxUpdates
    /\ bi' = [bi EXCEPT !.pc = "flushFirst", !.updates = @ + 1, !.before = bi.inserts,
                        !.raced = @ \/ bi.flight # <<>>]

\* Flush: RemoveAll under the lock,
Flush ==
    /\ bi.pc \in {"flush", "flushFirst"}
    /\ bi' = [bi EXCEPT !.pc = IF @ = "flush" THEN "exec" ELSE "execFirst",
                        !.own = bi.values, !.values = {}, !.raced = @ \/ bi.flight # <<>>]

\* and Execute on the caller's goroutine.
FlushExecutes ==
    /\ bi.pc \in {"exec", "execFirst"}
    /\ bi' = [Executed(bi, bi.own) EXCEPT !.pc = IF @ = "exec" THEN "sync" ELSE "fn", !.own = {}]

\* Sync: the statement of the inserter changes, that of the BulkInserter does not.
Sync ==
    /\ bi.pc = "sync"
    /\ bi' = [bi EXCEPT !.pc = "idle", !.instmt = bi.next,
                        !.raced = @ \/ bi.flight # <<>> \/ bi.values # {}]

\* The function of UpdateOrDelete.
Fn ==
    /\ bi.pc = "fn"
    /\ bi' = [bi EXCEPT !.pc = "idle", !.missed = ~(1..bi.before \subseteq bi.inserted)]

Next ==
    \/ \E n \in {1, 2} : Insert(n)
    \/ \E s \in Statements : UpdateStmt(s)
    \/ TakeBatch \/ Execute \/ UpdateOrDelete \/ Flush \/ FlushExecutes \/ Sync \/ Fn

Spec == Init /\ [][Next]_bi

TypeOK ==
    /\ Cardinality(bi.values) < MaxBulkRows
    /\ bi.inserted \subseteq 1..bi.inserts
    /\ ParseInsertStmt(bi.instmt) /\ bi.stmt = First
-----------------------------------------------------------------------------
\* A record goes into the table of the statement that was in force when it was inserted, unless its
\* batch was in flight, or it came between Flush and Sync of UpdateStmt.
OnlyRacesMixStatements ==
    ~bi.raced => \A r \in bi.done : r.with = r.at

\* When the function of UpdateOrDelete runs, the records inserted before are in the table, unless
\* the background goroutine had taken a batch with some of them: Flush does not wait for it.
OnlyRacesMissRecords == ~bi.raced => ~bi.missed

\* UpdateStmt and UpdateOrDelete come between the records before and after them, but for races with
\* the background goroutine.
OnlyRacesMoveRecords == OnlyRacesMixStatements /\ OnlyRacesMissRecords

\* "UpdateStmt updates the insert statement": the values of a bulk have as many variables as the
\* statement they are inserted with, when that has not changed since Insert.
FormatFollowsStatement ==
    \A r \in bi.done : r.with = r.at => r.format.variables = r.with.variables
=============================================================================
