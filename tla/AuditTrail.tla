------------------------------ MODULE AuditTrail ------------------------------
(***************************************************************************)
(* The hash-chained audit log, its verifier, and the retention sweep that  *)
(* deletes its oldest rows together with old jobs and outbox rows.         *)
(*                                                                         *)
(* record_audit takes the time, reads the last hash and inserts its row:   *)
(* three moments between which other writers, in this process or another,  *)
(* do the same.  The verifier reads the rows by time and id.  Ids are      *)
(* random, so their order says nothing of who wrote first; a row's hash    *)
(* stands for the row, since no two rows have the same content.            *)
(***************************************************************************)
EXTENDS Naturals, FiniteSets, Retention

CONSTANTS
    Writers,     \* calls of record_audit, named by the ids they draw
    Legacy,      \* ids of rows from before the log was chained
    Records,     \* rows of the other tables: <<table, number>>
    NoHash,
    MaxTime,     \* bound on the clock
    Settings     \* the circumstances a behaviour may be in

\* What is given and never changes: may writers overlap, may two of them take
\* the same time, may somebody edit a row or clear its hash.
Circumstances == [overlap : BOOLEAN, sameInstant : BOOLEAN, altered : BOOLEAN]

Ids == Writers \cup Legacy

ASSUME AuditAssumption ==
    /\ Ids \subseteq Nat /\ Writers \cap Legacy = {}
    /\ NoHash \notin Ids
    /\ Records \subseteq {"external_outbox", "workflow_jobs"} \X Nat
    /\ MaxTime \in Nat
    /\ Days \in [Tables -> Nat]
    /\ Settings \subseteq Circumstances

VARIABLES
    clock,
    log,        \* audit_logs
    pc,         \* where each writer continues
    stamp,      \* the created_at it has taken
    last,       \* the hash it has read
    alone,      \* has no other writer been under way at the same time?
    record,     \* the rows of the other tables
    setting

writing == <<log, pc, stamp, last, alone>>
vars == <<clock, writing, record, setting>>

LogRow ==
    [id : Ids, created_at : Nat, previous_hash : Ids \cup {NoHash}, row_hash : Ids \cup {NoHash},
     edited : BOOLEAN, cleared : BOOLEAN, status : {"none"}]

RecordRow ==
    [created_at : Nat, updated_at : Nat,
     status : {"absent", "running", "completed", "failed", "deleted"}]

TypeOK ==
    /\ clock \in 0..MaxTime
    /\ log \subseteq LogRow
    /\ pc \in [Writers -> {"idle", "read", "insert", "done"}]
    /\ stamp \in [Writers -> Nat]
    /\ last \in [Writers -> Ids \cup {NoHash}]
    /\ alone \in [Writers -> BOOLEAN]
    /\ record \in [Records -> RecordRow]
    /\ setting \in Settings

Row(id, time, previous, hash) ==
    [id |-> id, created_at |-> time, previous_hash |-> previous, row_hash |-> hash,
     edited |-> FALSE, cleared |-> FALSE, status |-> "none"]

Init ==
    /\ clock = 0
    /\ log = {Row(id, 0, NoHash, NoHash) : id \in Legacy}
    /\ pc = [w \in Writers |-> "idle"]
    /\ stamp = [w \in Writers |-> 0]
    /\ last = [w \in Writers |-> NoHash]
    /\ alone = [w \in Writers |-> TRUE]
    /\ record = [k \in Records |-> [created_at |-> 0, updated_at |-> 0, status |-> "absent"]]
    /\ setting \in Settings

-----------------------------------------------------------------------------
(* record_audit                                                            *)

UnderWay == {w \in Writers : pc[w] \in {"read", "insert"}}

\* ORDER BY created_at, id
Before(a, b) == a.created_at < b.created_at \/ (a.created_at = b.created_at /\ a.id < b.id)

Hashed(rows) == {a \in rows : a.row_hash # NoHash}

\* The rows of a set that no other row of it follows: one row, or none.
Latest(rows) == {a \in rows : \A b \in rows : b = a \/ Before(b, a)}

\* The time is taken before the database is opened.
TakeTime(w) ==
    /\ pc[w] = "idle"
    /\ setting.overlap \/ UnderWay = {}
    /\ setting.sameInstant \/ \A v \in Writers : pc[v] = "idle" \/ stamp[v] < clock
    /\ clock > 0
    /\ stamp' = [stamp EXCEPT ![w] = clock]
    /\ pc' = [pc EXCEPT ![w] = "read"]
    /\ alone' = [v \in Writers |->
                    IF v = w THEN UnderWay = {} ELSE alone[v] /\ v \notin UnderWay]
    /\ UNCHANGED <<clock, log, last, record, setting>>

\* What the row that sorts last among the hashed ones has for a hash.
LastHashes ==
    IF Hashed(log) = {} THEN {NoHash} ELSE {a.row_hash : a \in Latest(Hashed(log))}

\* Faulty variant: the last hash by insertion is not looked for; a chain of one.
ReadNothing(w) ==
    /\ pc[w] = "read"
    /\ last' = [last EXCEPT ![w] = NoHash]
    /\ pc' = [pc EXCEPT ![w] = "insert"]
    /\ UNCHANGED <<clock, log, stamp, alone, record, setting>>

ReadLast(w) ==
    /\ pc[w] = "read"
    /\ \E hash \in LastHashes : last' = [last EXCEPT ![w] = hash]
    /\ pc' = [pc EXCEPT ![w] = "insert"]
    /\ UNCHANGED <<clock, log, stamp, alone, record, setting>>

Insert(w) ==
    /\ pc[w] = "insert"
    /\ log' = log \cup {Row(w, stamp[w], last[w], w)}
    /\ pc' = [pc EXCEPT ![w] = "done"]
    /\ UNCHANGED <<clock, stamp, last, alone, record, setting>>

-----------------------------------------------------------------------------
(* verify_audit_log_integrity                                              *)

FirstHashed == {a \in Hashed(log) : \A b \in Hashed(log) : b = a \/ Before(a, b)}

\* A row whose content no longer gives its hash.
Tampered == {a \in Hashed(log) : a.edited}

\* Neighbours among the hashed rows whose link does not hold.
BrokenLinks ==
    {b \in Hashed(log) \ FirstHashed :
        LET earlier == {a \in Hashed(log) : Before(a, b)} IN
        \A a \in Latest(earlier) : b.previous_hash # a.row_hash}

\* Faulty variant: every row without a hash counts as one from before the chain.
NoGaps == {}

\* A row without a hash is benign before the first hashed row only.
Unhashed == {b \in log \ Hashed(log) : \E a \in Hashed(log) : Before(a, b)}

Degraded == \E b \in log \ Hashed(log) : b \notin Unhashed

OrphanedPrefix == \E a \in FirstHashed : a.previous_hash # NoHash

Valid == Tampered = {} /\ BrokenLinks = {} /\ Unhashed = {} /\ Hashed(log) # {}

-----------------------------------------------------------------------------
(* Somebody alters the table behind the application's back.                *)

Edit(a) ==
    /\ setting.altered /\ a \in Hashed(log)
    /\ log' = (log \ {a}) \cup {[a EXCEPT !.edited = TRUE]}
    /\ UNCHANGED <<clock, pc, stamp, last, alone, record, setting>>

ClearHash(a) ==
    /\ setting.altered /\ a \in Hashed(log)
    /\ log' = (log \ {a}) \cup {[a EXCEPT !.row_hash = NoHash, !.cleared = TRUE]}
    /\ UNCHANGED <<clock, pc, stamp, last, alone, record, setting>>

-----------------------------------------------------------------------------
(* The other tables, time, and apply_retention.                            *)

\* A job or outbox row is inserted, taken up, finished, and taken up again.
Work(k, status) ==
    /\ <<record[k].status, status>> \in
           {<<"absent", "running">>, <<"running", "completed">>, <<"running", "failed">>,
            <<"failed", "running">>}
    /\ record' = [record EXCEPT
          ![k] = [created_at |-> IF @.status = "absent" THEN clock ELSE @.created_at,
                  updated_at |-> clock, status |-> status]]
    /\ UNCHANGED <<clock, writing, setting>>

\* Time passes; where old rows are deleted, a write of the log takes less than
\* the audit window.
Tick ==
    /\ clock < MaxTime
    /\ Enabled("audit_logs") =>
          \A w \in UnderWay : clock < stamp[w] + Days["audit_logs"]
    /\ clock' = clock + 1
    /\ UNCHANGED <<writing, record, setting>>

Swept(a) == Old("audit_logs", a, clock)

\* Faulty variant: one of the old rows stays behind.
SweepAllButOne ==
    /\ \E kept \in log : Swept(kept) /\ log' = {a \in log : a = kept \/ ~Swept(a)}
    /\ UNCHANGED <<clock, pc, stamp, last, alone, record, setting>>

\* _retention_result(apply=True): the deletes of all tables in one transaction.
Sweep ==
    /\ log' = {a \in log : ~Swept(a)}
    /\ record' = [k \in Records |->
          IF Old(k[1], record[k], clock) THEN [record[k] EXCEPT !.status = "deleted"]
          ELSE record[k]]
    /\ UNCHANGED <<clock, pc, stamp, last, alone, setting>>

-----------------------------------------------------------------------------

Next ==
    \/ \E w \in Writers : TakeTime(w) \/ ReadLast(w) \/ Insert(w)
    \/ \E a \in log : Edit(a) \/ ClearHash(a)
    \/ \E k \in Records, status \in {"running", "completed", "failed"} : Work(k, status)
    \/ Tick \/ Sweep

Spec == Init /\ [][Next]_vars

-----------------------------------------------------------------------------
(* Properties.                                                             *)

\* Whatever forks other writers have caused, the row of a writer that nobody
\* overlapped, at an instant of its own, links to the row before it: forks stay
\* where writers met (record_audit reading the last hash without a lock).
LoneWriterLinks ==
    ~setting.altered /\ ~setting.sameInstant =>
        \A b \in BrokenLinks : ~alone[b.id]

\* A log written by one writer at a time verifies, however often it is swept;
\* then alone it starts with a link to a deleted row.
SerialLogVerifies ==
    ~setting.overlap /\ ~setting.sameInstant /\ ~setting.altered /\ Hashed(log) # {} => Valid

\* "A hole in the chain is not a pass": an edited row, or a hash cleared behind a
\* chained row, is never reported as valid, and one cleared at the start of the
\* log not without the report that part of it precedes the chain.
AlterationsAreReported ==
    \A a \in log :
        /\ a.edited /\ ~a.cleared => ~Valid
        /\ a.cleared => ~Valid \/ Degraded
        /\ a.cleared /\ (\E b \in Hashed(log) : Before(b, a)) => ~Valid

\* Deleting old rows breaks no link of those that are left (apply_retention
\* between any two steps of the writers).
SweepKeepsVerdict ==
    Valid /\ log' # log /\ log' \subseteq log /\ Hashed(log)' # {} => Valid'

\* No job or outbox row disappears while it is worked on, and no job that was
\* touched within the window: it is as old as its last change.
SweptIsSettled ==
    \A k \in Records :
        record[k].status # "deleted" /\ record'[k].status = "deleted" =>
            /\ record[k].status \in {"completed", "failed"}
            /\ k[1] = "workflow_jobs" => record[k].updated_at + Days["workflow_jobs"] < clock

\* An untouched log is as broken as its writers met, and no more.
TrailIsSound == TypeOK /\ LoneWriterLinks /\ SerialLogVerifies

\* Retention takes nothing that is needed: neither a link nor a row at work.
SweepIsHarmless == [][SweepKeepsVerdict /\ SweptIsSettled]_vars

=============================================================================
