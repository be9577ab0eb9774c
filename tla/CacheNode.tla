----------------------------- MODULE CacheNode -----------------------------
(***************************************************************************)
(* core/stores/cache and core/stores/sqlc: one row of the database and its *)
(* entry in the cache.  Readers take the row through the cache (QueryRow,  *)
(* doTake, with the barrier of singleflight), writers change the row and   *)
(* delete the entry (Exec, DelCtx), and a delete that failed is retried by *)
(* the cleaner at delays of 1 s, 5 s, 1 min, 5 min and 1 h.                *)
(*                                                                         *)
(* Redis and the database are external; each call of Redis may fail.  An   *)
(* entry that has an expiry may expire at any time.  The timing wheel and  *)
(* the task runner are the nondeterministic moment of a clean task.        *)
(***************************************************************************)
EXTENDS Naturals, FiniteSets

CONSTANTS
    Readers, Writers,   \* model values
    Nil,                \* no row, and no entry
    Placeholder,        \* the entry for a row that does not exist
    Garbage,            \* an entry that does not unmarshal
    Error,              \* what a reader gets when a call failed
    Expiry,             \* expiry and notFoundExpiry, in twentieths of a second
    Retries,            \* the delays of nextDelay: 5 in the code
    MaxErrors           \* bound on the calls of Redis that fail

VARIABLE cn

Versions == 1..(Cardinality(Writers) + 1)

CacheNodeAssumption ==
    /\ IsFiniteSet(Writers) /\ Retries \in Nat \ {0}
    /\ Nil \notin Readers \cup {Placeholder, Garbage, Error} /\ Placeholder # Garbage
    /\ {Nil, Placeholder, Garbage, Error} \cap Versions = {}

\* The row has a version, or does not exist (Nil); ttl is the expiry the entry was set with.  flight
\* is the reader whose call of the barrier runs; got[r] is what its query returned, or what a reader
\* got in the end.  cleans are the attempts left of the clean tasks.  Ghosts: overtaken, a delete has
\* run since the query of the flight; excused, a value was stored or shared by an overtaken flight,
\* or a clean task gave up; valid[r], what r may get: the rows since it began, or any if a delete was
\* still to come then.
Init ==
    cn = [row |-> 1, entry |-> Garbage, ttl |-> Expiry, flight |-> Nil, next |-> 2, errors |-> 0,
          pc |-> [r \in Readers |-> "idle"], got |-> [r \in Readers |-> Nil],
          valid |-> [r \in Readers |-> {}],
          wpc |-> [w \in Writers |-> "idle"], cleans |-> [w \in Writers |-> 0],
          overtaken |-> FALSE, excused |-> FALSE]

May == cn.errors < MaxErrors

\* A delete, or a retry of one, is still to come.
Dirty == \E w \in Writers : cn.wpc[w] = "del" \/ cn.cleans[w] > 0
Rows  == Versions \cup {Nil}

Deleted(c) == [c EXCEPT !.entry = Nil, !.ttl = Expiry, !.overtaken = TRUE]
Failing(c) == [c EXCEPT !.errors = @ + 1]

\* DoEx: the first reader runs the function,
Lead(r) ==
    /\ cn.pc[r] = "idle" /\ cn.flight = Nil
    /\ cn' = [cn EXCEPT !.pc[r] = "get", !.flight = r,
                        !.valid[r] = IF Dirty THEN Rows ELSE {cn.row}]

\* the others wait for it.
Join(r) ==
    /\ cn.pc[r] = "idle" /\ cn.flight # Nil
    /\ cn' = [cn EXCEPT !.pc[r] = "wait", !.valid[r] = IF Dirty THEN Rows ELSE {cn.row},
                        !.excused = @ \/ (cn.overtaken /\ cn.pc[cn.flight] = "set")]

\* The function returns v to all that wait; Nil is the error that there is no row.
Answered(c, r, v) ==
    [c EXCEPT !.flight = Nil, !.overtaken = FALSE,
              !.pc = [q \in Readers |-> IF q = r \/ @[q] = "wait" THEN "done" ELSE @[q]],
              !.got = [q \in Readers |-> IF q = r \/ c.pc[q] = "wait" THEN v ELSE @[q]]]

\* doGetCache: a placeholder is the answer; an entry that does not unmarshal is deleted first, and
\* taken as missing (processCache).
Get(r) ==
    /\ cn.pc[r] = "get"
    /\ CASE cn.entry = Nil         -> cn' = [cn EXCEPT !.pc[r] = "query"]
         [] cn.entry = Placeholder -> cn' = Answered(cn, r, Nil)
         [] cn.entry = Garbage     -> cn' = [cn EXCEPT !.pc[r] = "purge"]
         [] OTHER                  -> cn' = Answered(cn, r, cn.entry)

\* An error of Redis is returned: "we don't allow the disaster pass to the dbs".
GetFails(r) ==
    /\ cn.pc[r] = "get" /\ May
    /\ cn' = Answered(Failing(cn), r, Error)

Purge(r) ==
    /\ cn.pc[r] = "purge"
    /\ \/ cn' = [Deleted(cn) EXCEPT !.pc[r] = "query"]
       \/ May /\ cn' = [Failing(cn) EXCEPT !.pc[r] = "query"]

\* query: the row, or an error, which is returned to all.
Query(r) ==
    /\ cn.pc[r] = "query"
    /\ \/ cn' = [cn EXCEPT !.pc[r] = "set", !.got[r] = cn.row, !.overtaken = FALSE]
       \/ May /\ cn' = Answered(Failing(cn), r, Error)

Entry(v) == IF v = Nil THEN Placeholder ELSE v

\* aroundDuration: up to 5% less or more.
Around(d) == {d - d \div 20, d, d + d \div 20}

\* SetCtx, or setCacheWithNotFound; an error is only logged.
Set(r) ==
    /\ cn.pc[r] = "set"
    /\ \/ \E d \in Around(Expiry) :
            cn' = Answered([cn EXCEPT !.entry = Entry(cn.got[r]), !.ttl = d,
                                      !.excused = @ \/ cn.overtaken],
                           r, cn.got[r])
       \/ May /\ cn' = Answered(Failing(cn), r, cn.got[r])

ReaderAgain(r) ==
    /\ cn.pc[r] = "done"
    /\ cn' = [cn EXCEPT !.pc[r] = "idle", !.got[r] = Nil, !.valid[r] = {}]
-----------------------------------------------------------------------------
Written(v) ==
    [cn EXCEPT !.row = v, !.next = @ + 1,
               !.valid = [r \in Readers |-> IF cn.pc[r] = "idle" THEN {} ELSE @[r] \cup {v}]]

\* Mutant of Exec: the entry is deleted before the row changes.
ExecAfterDel(w) ==
    \/ /\ cn.wpc[w] = "idle"
       /\ cn' = [Deleted(cn) EXCEPT !.wpc[w] = "del"]
    \/ /\ cn.wpc[w] = "del"
       /\ \E v \in {cn.next, Nil} : cn' = [Written(v) EXCEPT !.wpc[w] = "done"]

\* ExecCtx: the row changes, or goes,
Exec(w) ==
    /\ cn.wpc[w] = "idle"
    /\ \E v \in {cn.next, Nil} : cn' = [Written(v) EXCEPT !.wpc[w] = "del"]

\* then the entry is deleted; a failure goes to the cleaner (asyncRetryDelCache), and no error is
\* returned.
Del(w) ==
    /\ cn.wpc[w] = "del"
    /\ \/ cn' = [Deleted(cn) EXCEPT !.wpc[w] = "done"]
       \/ May /\ cn' = [Failing(cn) EXCEPT !.wpc[w] = "done", !.cleans[w] = Retries]

\* clean: another attempt, until none is left.
Clean(w) ==
    /\ cn.cleans[w] > 0
    /\ \/ cn' = [Deleted(cn) EXCEPT !.cleans[w] = 0]
       \/ May /\ cn' = [Failing(cn) EXCEPT !.cleans[w] = @ - 1,
                                           !.excused = @ \/ cn.cleans[w] = 1]

\* SetWithExpireCtx gives SetexCtx whole seconds,
Seconds(d) == d \div 20

\* and an expiry of 0 is none.  Redis drops an entry that has expired.
Expire ==
    /\ cn.entry # Nil /\ Seconds(cn.ttl) > 0
    /\ cn' = [cn EXCEPT !.entry = Nil, !.ttl = Expiry]

Next ==
    \/ \E r \in Readers : \/ Lead(r) \/ Join(r) \/ Get(r) \/ GetFails(r) \/ Purge(r) \/ Query(r)
                          \/ Set(r) \/ ReaderAgain(r)
    \/ \E w \in Writers : Exec(w) \/ Del(w) \/ Clean(w)
    \/ Expire

Spec == Init /\ [][Next]_cn

\* An entry expires in the end, if it can.
FairSpec == Spec /\ WF_cn(Expire)

TypeOK ==
    /\ cn.row \in Versions \cup {Nil}
    /\ cn.entry \in Versions \cup {Nil, Placeholder, Garbage}
    /\ cn.flight # Nil => cn.pc[cn.flight] \in {"get", "purge", "query", "set"}
    /\ \A w \in Writers : cn.cleans[w] \in 0..Retries
-----------------------------------------------------------------------------
\* After all deletes and retries the entry is that of the row, unless the query of a reader was
\* overtaken by a delete before its result was stored, or a clean task gave up after its retries.
OnlyOvertakenReadStaysStale ==
    ~Dirty /\ ~cn.excused => cn.entry \in {Nil, Garbage, Entry(cn.row)}

\* A reader that begins when the deletes of all writes so far are done gets the row of then or a
\* later one, whether it takes it from the cache, the database or another reader's flight; the
\* exceptions are the same.
OnlyOvertakenReadIsStale ==
    \A r \in Readers : cn.pc[r] = "done" /\ ~cn.excused => cn.got[r] \in cn.valid[r] \cup {Error}

\* Neither the entry nor what a reader gets is older than the deletes, with these exceptions.
OnlyOvertakenReadsAreStale == OnlyOvertakenReadStaysStale /\ OnlyOvertakenReadIsStale

\* A stale entry goes away in the end, whatever failed, unless it was set with less than a second,
\* which the conversion to seconds makes an entry without expiry.
OnlySubSecondEntryStays ==
    cn.entry \notin {Nil, Entry(cn.row)} ~> cn.entry \in {Nil, Entry(cn.row)} \/ cn.ttl < 20
=============================================================================
