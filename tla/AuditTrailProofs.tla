-------------------------- MODULE AuditTrailProofs --------------------------
(***************************************************************************)
(* Proofs about AuditTrail, for any writers, records, windows and clock:   *)
(* no alteration passes unreported, retention takes nothing that is        *)
(* needed, and forks are only where writers met.                           *)
(***************************************************************************)
EXTENDS AuditTrail, TLAPS

-----------------------------------------------------------------------------
(* What holds of every log.                                                *)

\* One row to an id; a writer's row is there only when it is done; a row lost
\* its hash by a hand that cleared it, which is the only way to hide an edit.
Rows ==
    /\ \A a, b \in log : a.id = b.id => a = b
    /\ \A a \in log :
        /\ a.id \in Writers => pc[a.id] = "done"
        /\ a.cleared => a.row_hash = NoHash
        /\ a.edited /\ ~a.cleared => a.row_hash # NoHash

IInv == TypeOK /\ Rows

\* The log starts with the rows from before the chain.
LEMMA InitIInv == Init => IInv
<1> SUFFICES ASSUME Init PROVE IInv
  OBVIOUS
<1> USE AuditAssumption DEF Init
<1>1. \A id \in Legacy : Row(id, 0, NoHash, NoHash) \in LogRow
  BY DEF Row, LogRow, Ids
<1>2. [k \in Records |-> [created_at |-> 0, updated_at |-> 0, status |-> "absent"]]
          \in [Records -> RecordRow]
  BY DEF RecordRow
<1>3. TypeOK
  <2>1. log \subseteq LogRow
    BY <1>1
  <2>2. alone \in [Writers -> BOOLEAN] /\ last \in [Writers -> Ids \cup {NoHash}]
    OBVIOUS
  <2>3. pc \in [Writers -> {"idle", "read", "insert", "done"}] /\ stamp \in [Writers -> Nat]
    OBVIOUS
  <2>4. clock \in 0..MaxTime /\ setting \in Settings
    OBVIOUS
  <2>5. record \in [Records -> RecordRow]
    BY <1>2
  <2> HIDE DEF Init
  <2> QED
    BY <2>1, <2>2, <2>3, <2>4, <2>5, Zenon DEF TypeOK
<1>4. Rows
  <2>1. \A a \in log : /\ a.id \in Legacy /\ a.row_hash = NoHash /\ ~a.edited
                       /\ a = Row(a.id, 0, NoHash, NoHash)
    BY DEF Row
  <2> HIDE DEF Init
  <2> QED
    BY <2>1 DEF Rows
<1> QED
  BY <1>3, <1>4 DEF IInv

\* No step leaves the types.
LEMMA TypeStep == TypeOK /\ [Next]_vars => TypeOK'
<1> SUFFICES ASSUME TypeOK, [Next]_vars PROVE TypeOK'
  OBVIOUS
<1> USE AuditAssumption DEF TypeOK
<1>1. ASSUME NEW w \in Writers, TakeTime(w) PROVE TypeOK'
  <2>1. alone' \in [Writers -> BOOLEAN]
    <3>1. \A v \in Writers :
              (IF v = w THEN UnderWay = {} ELSE alone[v] /\ v \notin UnderWay) \in BOOLEAN
      OBVIOUS
    <3> QED
      BY <1>1, <3>1 DEF TakeTime
  <2> QED
    BY <1>1, <2>1 DEF TakeTime
<1>2. ASSUME NEW w \in Writers, ReadLast(w) PROVE TypeOK'
  <2>1. LastHashes \subseteq Ids \cup {NoHash}
    BY DEF LastHashes, Latest, Hashed, LogRow
  <2> QED
    BY <1>2, <2>1 DEF ReadLast
<1>3. ASSUME NEW w \in Writers, Insert(w) PROVE TypeOK'
  <2>1. Row(w, stamp[w], last[w], w) \in LogRow
    BY DEF Row, LogRow, Ids
  <2> QED
    BY <1>3, <2>1 DEF Insert
<1>4. ASSUME NEW a \in log, Edit(a) \/ ClearHash(a) PROVE TypeOK'
  <2>1. [a EXCEPT !.edited = TRUE] \in LogRow
    BY DEF LogRow
  <2>2. [a EXCEPT !.row_hash = NoHash, !.cleared = TRUE] \in LogRow
    BY DEF LogRow
  <2> QED
    BY <1>4, <2>1, <2>2 DEF Edit, ClearHash
<1>5. ASSUME NEW k \in Records, NEW status \in {"running", "completed", "failed"}, Work(k, status)
      PROVE  TypeOK'
  <2>1. record' \in [Records -> RecordRow]
    BY <1>5 DEF Work, RecordRow
  <2> QED
    BY <1>5, <2>1 DEF Work, writing
<1>6. CASE Tick
  BY <1>6 DEF Tick, writing
<1>7. CASE Sweep
  <2>1. record' \in [Records -> RecordRow]
    BY <1>7 DEF Sweep, RecordRow
  <2> QED
    BY <1>7, <2>1 DEF Sweep
<1>8. CASE UNCHANGED vars
  BY <1>8 DEF vars, writing
<1> QED
  BY <1>1, <1>2, <1>3, <1>4, <1>5, <1>6, <1>7, <1>8 DEF Next

\* Nor does one add a second row to an id, or an edit that cannot be seen.
LEMMA RowsStep == IInv /\ [Next]_vars => Rows'
<1> SUFFICES ASSUME IInv, [Next]_vars PROVE Rows'
  OBVIOUS
<1> USE AuditAssumption DEF IInv, Rows
<1>1. ASSUME NEW w \in Writers, TakeTime(w) \/ ReadLast(w) PROVE Rows'
  BY <1>1 DEF TakeTime, ReadLast, TypeOK
<1>2. ASSUME NEW w \in Writers, Insert(w) PROVE Rows'
  <2> DEFINE new == Row(w, stamp[w], last[w], w)
  <2>1. \A a \in log : a.id # w
    BY <1>2 DEF Insert
  <2>2. new.id = w /\ new.row_hash = w /\ ~new.edited /\ ~new.cleared /\ w # NoHash
    BY DEF Row, Ids
  <2>3. log' = log \cup {new} /\ pc'[w] = "done" /\ \A v \in Writers : v # w => pc'[v] = pc[v]
    BY <1>2 DEF Insert, TypeOK
  <2> QED
    BY <2>1, <2>2, <2>3
<1>3. ASSUME NEW a \in log, Edit(a) PROVE Rows'
  <2> DEFINE new == [a EXCEPT !.edited = TRUE]
  <2>1. new.id = a.id /\ new.row_hash = a.row_hash /\ new.cleared = a.cleared
    BY DEF TypeOK, LogRow
  <2>2. log' = (log \ {a}) \cup {new} /\ pc' = pc /\ a.row_hash # NoHash
    BY <1>3 DEF Edit, Hashed
  <2> HIDE DEF new
  <2> QED
    BY <2>1, <2>2
<1>4. ASSUME NEW a \in log, ClearHash(a) PROVE Rows'
  <2> DEFINE new == [a EXCEPT !.row_hash = NoHash, !.cleared = TRUE]
  <2>1. new.id = a.id /\ new.row_hash = NoHash /\ new.cleared
    BY DEF TypeOK, LogRow
  <2>2. log' = (log \ {a}) \cup {new} /\ pc' = pc
    BY <1>4 DEF ClearHash
  <2> HIDE DEF new
  <2> QED
    BY <2>1, <2>2
<1>5. CASE Sweep
  BY <1>5 DEF Sweep
<1>6. ASSUME NEW k \in Records, NEW status \in {"running", "completed", "failed"}, Work(k, status)
      PROVE  Rows'
  BY <1>6 DEF Work, writing
<1>7. CASE Tick \/ UNCHANGED vars
  BY <1>7 DEF Tick, vars, writing
<1> QED
  BY <1>1, <1>2, <1>3, <1>4, <1>5, <1>6, <1>7 DEF Next

\* Both hold of every reachable state.
LEMMA Invariance == Spec => []IInv
<1>1. IInv /\ [Next]_vars => IInv'
  BY TypeStep, RowsStep DEF IInv
<1> QED
  BY <1>1, InitIInv, PTL DEF Spec

\* The log, its writers and the other tables keep their types.
THEOREM TypeCorrect == Spec => []TypeOK
  BY Invariance, PTL DEF IInv

\* Whoever edits a row or clears its hash, the verifier says so.
THEOREM NoAlterationPasses == Spec => []AlterationsAreReported
<1>1. IInv => AlterationsAreReported
  BY DEF IInv, Rows, AlterationsAreReported, Valid, Tampered, Hashed, Unhashed, Degraded
<1> QED
  BY <1>1, Invariance, PTL

-----------------------------------------------------------------------------
(* Retention.                                                              *)

\* Rows are swept from the oldest on.
LEMMA OldestFirst ==
  ASSUME IInv, NEW a \in log, NEW b \in log, a.created_at <= b.created_at, Swept(b)
  PROVE  Swept(a)
  BY AuditAssumption
  DEF IInv, TypeOK, LogRow, Swept, Old, Enabled, TimestampColumn, Deletable, Tables

\* A sweep of a log that verifies leaves one that does.
LEMMA SweepStep == IInv /\ Sweep => SweepKeepsVerdict
<1> SUFFICES ASSUME IInv, Sweep, Valid, Hashed(log)' # {} PROVE Valid'
  BY DEF SweepKeepsVerdict
<1>1. log' \subseteq log /\ \A a \in log : ~Swept(a) => a \in log'
  BY DEF Sweep
<1>2. Tampered' = {} /\ Unhashed' = {}
  BY <1>1 DEF Valid, Tampered, Unhashed, Hashed
<1>3. ASSUME NEW b \in BrokenLinks' PROVE FALSE
  <2>1. b \in Hashed(log) /\ b \in log'
    BY <1>1, <1>3 DEF BrokenLinks, Hashed
  <2>2. PICK c \in Hashed(log') : c # b /\ ~Before(b, c)
    BY <1>3, <2>1 DEF BrokenLinks, FirstHashed, Hashed
  <2>3. c \in Hashed(log) /\ c \in log /\ b \in log /\ c \in log'
    BY <1>1, <2>1, <2>2 DEF Hashed
  <2>4. Before(c, b)
    <3>1. c.id # b.id /\ {c.id, b.id} \subseteq Nat /\ {c.created_at, b.created_at} \subseteq Nat
      BY <2>2, <2>3, AuditAssumption DEF IInv, Rows, TypeOK, LogRow
    <3> QED
      BY <2>2, <3>1 DEF Before
  <2>5. b \in Hashed(log) \ FirstHashed /\ b \notin BrokenLinks
    BY <2>1, <2>2, <2>3 DEF FirstHashed, Valid
  <2> DEFINE earlier == {a \in Hashed(log) : Before(a, b)}
  <2>6. PICK a \in Latest(earlier) : b.previous_hash = a.row_hash
    BY <2>5 DEF BrokenLinks
  <2>7. a \in log /\ a \in Hashed(log) /\ Before(a, b) /\ \A d \in earlier : d = a \/ Before(d, a)
    BY <2>6 DEF Latest, Hashed
  <2>8. c.created_at <= a.created_at
    BY <2>3, <2>4, <2>7 DEF Before, IInv, TypeOK, LogRow
  <2>9. a \in log'
    BY <1>1, <2>3, <2>7, <2>8, OldestFirst DEF Sweep
  <2>10. a \in Latest({d \in Hashed(log') : Before(d, b)})
    BY <1>1, <2>7, <2>9 DEF Latest, Hashed
  <2> QED
    BY <1>3, <2>6, <2>10 DEF BrokenLinks, Hashed
<1> QED
  BY <1>2, <1>3 DEF Valid

\* No other step takes a row away.
LEMMA OtherSteps ==
  ASSUME IInv, [Next]_vars, ~Sweep, log' \subseteq log
  PROVE  log' = log
<1> USE DEF IInv, Rows, TypeOK, LogRow
<1>1. ASSUME NEW a \in log, Edit(a) PROVE log' = log
  <2>1. [a EXCEPT !.edited = TRUE] \in log
    BY <1>1 DEF Edit
  <2>2. [a EXCEPT !.edited = TRUE] = a
    BY <2>1
  <2> QED
    BY <1>1, <2>2 DEF Edit
<1>2. ASSUME NEW a \in log, ClearHash(a) PROVE log' = log
  <2>1. [a EXCEPT !.row_hash = NoHash, !.cleared = TRUE] \in log
    BY <1>2 DEF ClearHash
  <2>2. [a EXCEPT !.row_hash = NoHash, !.cleared = TRUE] = a
    BY <2>1
  <2> QED
    BY <1>2, <2>2 DEF ClearHash
<1>3. ASSUME NEW w \in Writers, TakeTime(w) \/ ReadLast(w) \/ Insert(w) PROVE log' = log
  BY <1>3 DEF TakeTime, ReadLast, Insert
<1>4. ASSUME NEW k \in Records, NEW status \in {"running", "completed", "failed"}, Work(k, status)
      PROVE  log' = log
  BY <1>4 DEF Work, writing
<1>5. CASE Tick \/ UNCHANGED vars
  BY <1>5 DEF Tick, vars, writing
<1> QED
  BY <1>1, <1>2, <1>3, <1>4, <1>5 DEF Next

\* A job or outbox row that disappears was finished, and old enough.
LEMMA SettledStep == IInv /\ [Next]_vars => SweptIsSettled
<1> SUFFICES ASSUME IInv, [Next]_vars, NEW k \in Records,
                    record[k].status # "deleted", record'[k].status = "deleted"
             PROVE  /\ record[k].status \in {"completed", "failed"}
                    /\ k[1] = "workflow_jobs" =>
                          record[k].updated_at + Days["workflow_jobs"] < clock
  BY DEF SweptIsSettled
<1>1. k[1] \in {"external_outbox", "workflow_jobs"}
  BY AuditAssumption
<1>2. CASE Sweep
  <2>1. Old(k[1], record[k], clock)
    BY <1>2 DEF Sweep
  <2> QED
    BY <1>1, <2>1 DEF Old, Deletable, TimestampColumn
<1>3. CASE \E j \in Records, status \in {"running", "completed", "failed"} : Work(j, status)
  BY <1>3 DEF Work, IInv, TypeOK, RecordRow
<1>4. CASE UNCHANGED record
  BY <1>4
<1> QED
  BY <1>2, <1>3, <1>4
  DEF Next, TakeTime, ReadLast, Insert, Edit, ClearHash, Tick, vars, writing

\* Retention takes nothing that is needed: neither a link of the chain nor a row
\* that somebody works on, wherever it falls between the steps of the others.
THEOREM SweepsAreHarmless == Spec => SweepIsHarmless
<1>1. IInv /\ [Next]_vars => [SweepKeepsVerdict /\ SweptIsSettled]_vars
  BY SweepStep, OtherSteps, SettledStep DEF SweepKeepsVerdict
<1> QED
  BY <1>1, Invariance, PTL DEF Spec, SweepIsHarmless

-----------------------------------------------------------------------------
(* The chain of a log that nobody has altered, at distinct instants.       *)

Quiet == ~setting.altered /\ ~setting.sameInstant

\* A row is as its writer inserted it.
Untouched ==
    \A a \in log :
        /\ ~a.edited /\ ~a.cleared
        /\ a.id \in Writers =>
              a.created_at = stamp[a.id] /\ a.row_hash = a.id /\ a.previous_hash = last[a.id]
        /\ a.id \notin Writers => a.row_hash = NoHash /\ a.created_at = 0

\* Times lie in the past, and no two are equal.
Timed ==
    /\ \A w \in Writers : pc[w] # "idle" => stamp[w] > 0 /\ stamp[w] <= clock
    /\ \A v, w \in Writers :
          v # w /\ pc[v] # "idle" /\ pc[w] # "idle" => stamp[v] # stamp[w]

\* What a lone writer has before it is done, and what it has after it is later.
Solo ==
    \A v, w \in Writers :
        alone[w] /\ v # w /\ pc[w] # "idle" =>
            \/ pc[v] = "idle"
            \/ pc[v] = "done" /\ stamp[v] < stamp[w]
            \/ pc[w] = "done" /\ stamp[w] < stamp[v]

\* The last row with a hash before row b of a lone writer is the one it read,
\* as long as the log has any.
Reaches(w, a) ==
    \E b \in Hashed(log) :
        b.row_hash = last[w] /\ a.created_at <= b.created_at /\ b.created_at < stamp[w]

Linked ==
    \A w \in Writers : alone[w] /\ pc[w] \in {"insert", "done"} =>
        \A a \in Hashed(log) : a.created_at < stamp[w] => Reaches(w, a)

Chained == Untouched /\ Timed /\ Solo /\ Linked

\* What a behaviour was given, it keeps.
LEMMA SettingStep == [Next]_vars => setting' = setting
  BY DEF Next, TakeTime, ReadLast, Insert, Edit, ClearHash, Work, Tick, Sweep, vars, writing

\* At first there is nothing but rows without a hash.
LEMMA InitChained == Init => Chained
<1> SUFFICES ASSUME Init PROVE Chained
  OBVIOUS
<1> USE AuditAssumption DEF Init
<1>1. \A a \in log : /\ a.id \in Legacy /\ a.row_hash = NoHash /\ a.created_at = 0
                     /\ ~a.edited /\ ~a.cleared
  BY DEF Row
<1>2. Untouched
  <2> HIDE DEF Init
  <2> QED
    BY <1>1 DEF Untouched
<1>3. Timed /\ Solo /\ Linked
  BY DEF Timed, Solo, Linked
<1> QED
  BY <1>2, <1>3 DEF Chained

\* The row of a writer is its own; a row with a hash is some writer's.
LEMMA HashedRow ==
  ASSUME IInv, Untouched, NEW a \in Hashed(log)
  PROVE  /\ a \in log /\ a.id \in Writers /\ pc[a.id] = "done" /\ a.row_hash = a.id
         /\ a.created_at = stamp[a.id] /\ a.previous_hash = last[a.id] /\ stamp[a.id] \in Nat
  BY DEF Hashed, Untouched, IInv, Rows, TypeOK

\* No step of a writer, of retention or of time alters a row.
LEMMA UntouchedStep == IInv /\ Quiet /\ Chained /\ [Next]_vars => Untouched'
<1> SUFFICES ASSUME IInv, Quiet, Chained, [Next]_vars PROVE Untouched'
  OBVIOUS
<1> USE DEF Chained, Untouched
<1>1. ASSUME NEW w \in Writers, TakeTime(w) \/ ReadLast(w) PROVE Untouched'
  <2>1. \A a \in log : a.id # w
    BY <1>1 DEF TakeTime, ReadLast, IInv, Rows
  <2>2. log' = log /\ \A v \in Writers : v # w => stamp'[v] = stamp[v] /\ last'[v] = last[v]
    BY <1>1 DEF TakeTime, ReadLast, IInv, TypeOK
  <2> QED
    BY <2>1, <2>2
<1>2. ASSUME NEW w \in Writers, Insert(w) PROVE Untouched'
  <2> DEFINE new == Row(w, stamp[w], last[w], w)
  <2>1. /\ new.id = w /\ new.row_hash = w /\ new.created_at = stamp[w]
        /\ new.previous_hash = last[w] /\ ~new.edited /\ ~new.cleared
    BY DEF Row
  <2>2. log' = log \cup {new} /\ stamp' = stamp /\ last' = last
    BY <1>2 DEF Insert
  <2> HIDE DEF new
  <2> QED
    BY <2>1, <2>2
<1>3. ASSUME NEW a \in log, Edit(a) \/ ClearHash(a) PROVE Untouched'
  BY <1>3 DEF Edit, ClearHash, Quiet
<1>4. CASE log' \subseteq log /\ stamp' = stamp /\ last' = last
  BY <1>4
<1> QED
  BY <1>1, <1>2, <1>3, <1>4 DEF Next, Sweep, Work, Tick, vars, writing

\* Nor does one bring two writers to one time.
LEMMA TimedStep == IInv /\ Quiet /\ Chained /\ [Next]_vars => Timed'
<1> SUFFICES ASSUME IInv, Quiet, Chained, [Next]_vars PROVE Timed'
  OBVIOUS
<1> USE AuditAssumption DEF Chained, Timed, IInv, TypeOK
<1>1. ASSUME NEW w \in Writers, TakeTime(w) PROVE Timed'
  BY <1>1 DEF TakeTime, Quiet
<1>2. ASSUME NEW w \in Writers, ReadLast(w) \/ Insert(w) PROVE Timed'
  BY <1>2 DEF ReadLast, Insert
<1>3. CASE Tick
  BY <1>3 DEF Tick, writing
<1>4. CASE UNCHANGED <<clock, pc, stamp>>
  BY <1>4
<1> QED
  BY <1>1, <1>2, <1>3, <1>4 DEF Next, Edit, ClearHash, Sweep, Work, vars, writing

\* A writer that comes while another is under way ends the other's solitude.
LEMMA SoloStep == IInv /\ Quiet /\ Chained /\ [Next]_vars => Solo'
<1> SUFFICES ASSUME IInv, Quiet, Chained, [Next]_vars PROVE Solo'
  OBVIOUS
<1> USE AuditAssumption DEF Chained, Solo, IInv, TypeOK
<1>1. ASSUME NEW u \in Writers, TakeTime(u) PROVE Solo'
  <2> SUFFICES ASSUME NEW v \in Writers, NEW w \in Writers,
                      alone'[w], v # w, pc'[w] # "idle", pc'[v] # "idle"
               PROVE  \/ pc'[v] = "done" /\ stamp'[v] < stamp'[w]
                      \/ pc'[w] = "done" /\ stamp'[w] < stamp'[v]
    OBVIOUS
  <2>1. CASE w = u
    <3>1. UnderWay = {} /\ pc'[v] = pc[v] /\ stamp'[v] = stamp[v] /\ stamp'[w] = clock
      BY <1>1, <2>1 DEF TakeTime
    <3>2. pc[v] = "done" /\ stamp[v] < clock
      BY <1>1, <2>1, <3>1 DEF TakeTime, UnderWay, Quiet
    <3> QED
      BY <3>1, <3>2
  <2>2. CASE w # u
    <3>1. alone[w] /\ w \notin UnderWay /\ pc'[w] = pc[w] /\ stamp'[w] = stamp[w]
      BY <1>1, <2>2 DEF TakeTime
    <3>2. pc[w] = "done"
      BY <3>1 DEF UnderWay
    <3>3. CASE v = u
      BY <1>1, <3>1, <3>2, <3>3 DEF TakeTime, Quiet
    <3>4. CASE v # u
      BY <1>1, <3>1, <3>2, <3>4 DEF TakeTime
    <3> QED
      BY <3>3, <3>4
  <2> QED
    BY <2>1, <2>2
<1>2. ASSUME NEW u \in Writers, ReadLast(u) \/ Insert(u) PROVE Solo'
  BY <1>2 DEF ReadLast, Insert
<1>3. CASE UNCHANGED <<pc, stamp, alone>>
  BY <1>3
<1> QED
  BY <1>1, <1>2, <1>3 DEF Next, Edit, ClearHash, Sweep, Work, Tick, vars, writing

\* Of a lone writer that inserts, every row there is came before it; of one that
\* has inserted, every later row comes after it; and a sweep takes the row it
\* links to only with all that are older.
LEMMA LinkedStep == IInv /\ Quiet /\ Chained /\ [Next]_vars => Linked'
<1> SUFFICES ASSUME IInv, Quiet, Chained, [Next]_vars PROVE Linked'
  OBVIOUS
<1> USE DEF Chained
<1>1. ASSUME NEW u \in Writers, TakeTime(u) PROVE Linked'
  <2> SUFFICES ASSUME NEW w \in Writers, alone'[w], pc'[w] \in {"insert", "done"},
                      NEW a \in Hashed(log)', a.created_at < stamp'[w]
               PROVE  Reaches(w, a)'
    BY DEF Linked
  <2>1. /\ w # u /\ alone[w] /\ pc'[w] = pc[w] /\ stamp'[w] = stamp[w]
        /\ last' = last /\ log' = log
    BY <1>1 DEF TakeTime, IInv, TypeOK
  <2> QED
    BY <2>1 DEF Linked, Reaches, Hashed
<1>2. ASSUME NEW u \in Writers, ReadLast(u) PROVE Linked'
  <2> SUFFICES ASSUME NEW w \in Writers, alone[w], pc'[w] \in {"insert", "done"},
                      NEW a \in Hashed(log), a.created_at < stamp[w]
               PROVE  \E b \in Hashed(log) :
                          b.row_hash = last'[w] /\ a.created_at <= b.created_at
                          /\ b.created_at < stamp[w]
    BY <1>2 DEF Linked, Reaches, ReadLast, Hashed
  <2>1. CASE w # u
    <3>1. pc'[w] = pc[w] /\ last'[w] = last[w]
      BY <1>2, <2>1 DEF ReadLast, IInv, TypeOK
    <3> QED
      BY <3>1 DEF Linked, Reaches
  <2>2. CASE w = u
    <3>1. pc[u] = "read" /\ last'[u] \in {b.row_hash : b \in Latest(Hashed(log))}
      BY <1>2 DEF ReadLast, LastHashes, IInv, TypeOK
    <3>2. PICK b \in Latest(Hashed(log)) : last'[u] = b.row_hash
      BY <3>1
    <3>3. b \in Hashed(log) /\ (a = b \/ Before(a, b))
      BY <3>2 DEF Latest
    <3>4. a.created_at <= b.created_at
      BY <3>3, HashedRow DEF Before
    <3>5. b.id # u /\ b.created_at < stamp[u]
      BY <2>2, <3>1, <3>3, HashedRow DEF Solo
    <3> QED
      BY <2>2, <3>2, <3>3, <3>4, <3>5
  <2> QED
    BY <2>1, <2>2
<1>3. ASSUME NEW u \in Writers, Insert(u) PROVE Linked'
  <2> SUFFICES ASSUME NEW w \in Writers, alone[w], pc'[w] \in {"insert", "done"},
                      NEW a \in Hashed(log'), a.created_at < stamp[w]
               PROVE  \E b \in Hashed(log') :
                          b.row_hash = last[w] /\ a.created_at <= b.created_at
                          /\ b.created_at < stamp[w]
    BY <1>3 DEF Linked, Reaches, Insert, Hashed
  <2> DEFINE new == Row(u, stamp[u], last[u], u)
  <2>1. log' = log \cup {new} /\ pc[u] = "insert" /\ new.created_at = stamp[u]
    BY <1>3 DEF Insert, Row
  <2>2. pc[w] \in {"insert", "done"} /\ (w # u => pc[w] = pc'[w])
    BY <1>3, <2>1 DEF Insert, IInv, TypeOK
  <2>3. a # new
    <3>1. CASE w = u
      BY <2>1, <3>1 DEF IInv, TypeOK
    <3>2. CASE w # u
      BY <2>1, <2>2, <3>2 DEF Solo, IInv, TypeOK
    <3> QED
      BY <3>1, <3>2
  <2>4. a \in Hashed(log)
    BY <2>1, <2>3 DEF Hashed
  <2>5. PICK b \in Hashed(log) :
            b.row_hash = last[w] /\ a.created_at <= b.created_at /\ b.created_at < stamp[w]
    BY <2>2, <2>4 DEF Linked, Reaches
  <2>6. b \in Hashed(log')
    BY <2>1 DEF Hashed
  <2> QED
    BY <2>5, <2>6
<1>4. CASE Sweep
  <2> SUFFICES ASSUME NEW w \in Writers, alone[w], pc[w] \in {"insert", "done"},
                      NEW a \in Hashed(log'), a.created_at < stamp[w]
               PROVE  \E b \in Hashed(log') :
                          b.row_hash = last[w] /\ a.created_at <= b.created_at
                          /\ b.created_at < stamp[w]
    BY <1>4 DEF Linked, Reaches, Sweep, Hashed
  <2>1. a \in Hashed(log) /\ a \in log /\ ~Swept(a)
    BY <1>4 DEF Hashed, Sweep
  <2>2. PICK b \in Hashed(log) :
            b.row_hash = last[w] /\ a.created_at <= b.created_at /\ b.created_at < stamp[w]
    BY <2>1 DEF Linked, Reaches
  <2>3. ~Swept(b)
    BY <2>1, <2>2, OldestFirst DEF Hashed
  <2>4. b \in Hashed(log')
    BY <1>4, <2>2, <2>3 DEF Sweep, Hashed
  <2> QED
    BY <2>2, <2>4
<1>5. ASSUME NEW a \in log, Edit(a) \/ ClearHash(a) PROVE Linked'
  BY <1>5 DEF Edit, ClearHash, Quiet
<1>6. CASE UNCHANGED <<log, pc, stamp, last, alone>>
  BY <1>6 DEF Linked, Reaches, Hashed
<1> QED
  BY <1>1, <1>2, <1>3, <1>4, <1>5, <1>6 DEF Next, Work, Tick, vars, writing

\* Where nobody alters the log and times differ, the chain is as described.
LEMMA ChainInvariance == Spec => [](IInv /\ (Quiet => Chained))
<1> DEFINE C == Quiet => Chained
<1>1. Init => C
  BY InitChained
<1>2. IInv /\ C /\ [Next]_vars => C'
  <2> SUFFICES ASSUME IInv, C, [Next]_vars, Quiet' PROVE Chained'
    OBVIOUS
  <2>1. Quiet
    BY SettingStep DEF Quiet
  <2> QED
    BY <2>1, UntouchedStep, TimedStep, SoloStep, LinkedStep DEF Chained
<1> QED
  BY <1>1, <1>2, Invariance, PTL DEF Spec

\* In such a log only rows of writers that met others fail to link.
LEMMA ChainLinks ==
  ASSUME IInv, Chained, NEW b \in BrokenLinks
  PROVE  ~alone[b.id]
<1> SUFFICES ASSUME alone[b.id] PROVE FALSE
  OBVIOUS
<1> USE DEF Chained
<1>1. b \in Hashed(log)
  BY DEF BrokenLinks
<1>2. PICK c \in Hashed(log) : c # b /\ ~Before(b, c)
  BY DEF BrokenLinks, FirstHashed
<1>3. c.id # b.id /\ stamp[c.id] # stamp[b.id]
  BY <1>1, <1>2, HashedRow DEF IInv, Rows, Timed
<1>4. c.created_at < stamp[b.id] /\ stamp[b.id] = b.created_at
  BY <1>1, <1>2, <1>3, HashedRow DEF Before
<1>5. PICK d \in Hashed(log) :
          d.row_hash = last[b.id] /\ c.created_at <= d.created_at /\ d.created_at < stamp[b.id]
  BY <1>1, <1>2, <1>4, HashedRow DEF Linked, Reaches
<1> DEFINE earlier == {a \in Hashed(log) : Before(a, b)}
<1>6. d \in earlier
  BY <1>4, <1>5 DEF Before
<1>7. \A a \in earlier : a = d \/ Before(a, d)
  <2> SUFFICES ASSUME NEW a \in earlier, a # d PROVE Before(a, d)
    OBVIOUS
  <2>1. a \in Hashed(log) /\ Before(a, b)
    OBVIOUS
  <2>2. a.id # b.id /\ stamp[a.id] < stamp[b.id]
    <3>1. a.id # b.id
      <4>1. b.id \in Nat /\ b.created_at \in Nat
        BY <1>1, HashedRow, AuditAssumption DEF Ids
      <4>2. a # b
        BY <2>1, <4>1 DEF Before
      <4> QED
        BY <1>1, <2>1, <4>2, HashedRow DEF IInv, Rows
    <3>2. stamp[a.id] # stamp[b.id]
      BY <1>1, <2>1, <3>1, HashedRow DEF Timed
    <3> QED
      BY <1>1, <2>1, <3>1, <3>2, HashedRow DEF Before
  <2>3. PICK e \in Hashed(log) :
            e.row_hash = last[b.id] /\ a.created_at <= e.created_at
            /\ e.created_at < stamp[b.id]
    BY <1>1, <2>1, <2>2, HashedRow DEF Linked, Reaches
  <2>4. e = d
    BY <1>5, <2>3, HashedRow DEF IInv, Rows
  <2>5. stamp[a.id] # stamp[d.id]
    BY <1>5, <2>1, HashedRow DEF IInv, Rows, Timed
  <2> QED
    BY <1>5, <2>1, <2>3, <2>4, <2>5, HashedRow DEF Before
<1>8. d \in Latest(earlier)
  BY <1>6, <1>7 DEF Latest
<1> QED
  BY <1>1, <1>5, <1>8, HashedRow DEF BrokenLinks

\* Whatever forks overlapping writers have caused, the row of a writer that met
\* nobody, at an instant of its own, links to the row before it.
THEOREM LoneWritersLink == Spec => []LoneWriterLinks
<1>1. IInv /\ (Quiet => Chained) => LoneWriterLinks
  BY ChainLinks DEF LoneWriterLinks, Quiet
<1> QED
  BY <1>1, ChainInvariance, PTL

\* A log that is written by one writer at a time verifies, swept or not.
THEOREM SerialLogsVerify == Spec => []SerialLogVerifies
<1> DEFINE A == ~setting.overlap => \A w \in Writers : alone[w]
<1>1. Init => A
  BY DEF Init
<1>2. IInv /\ A /\ [Next]_vars => A'
  <2> SUFFICES ASSUME IInv, A, [Next]_vars, ~setting'.overlap, NEW w \in Writers
               PROVE  alone'[w]
    OBVIOUS
  <2>1. ~setting.overlap /\ alone[w]
    BY SettingStep
  <2>2. ASSUME NEW u \in Writers, TakeTime(u) PROVE alone'[w]
    BY <2>1, <2>2 DEF TakeTime
  <2>3. CASE UNCHANGED alone
    BY <2>1, <2>3
  <2> QED
    BY <2>2, <2>3
    DEF Next, ReadLast, Insert, Edit, ClearHash, Sweep, Work, Tick, vars, writing
<1>3. IInv /\ (Quiet => Chained) /\ A => SerialLogVerifies
  <2> SUFFICES ASSUME IInv, Chained, \A w \in Writers : alone[w], Hashed(log) # {} PROVE Valid
    <3> HIDE DEF Valid
    <3> QED
      BY Zenon DEF SerialLogVerifies, Quiet
  <2> USE DEF Chained
  <2>1. Tampered = {}
    BY DEF Tampered, Untouched, Hashed
  <2>2. BrokenLinks = {}
    BY ChainLinks, HashedRow DEF BrokenLinks
  <2>3. Unhashed = {}
    <3> SUFFICES ASSUME NEW b \in log, b \notin Hashed(log), NEW a \in Hashed(log), Before(a, b)
                 PROVE  FALSE
      BY DEF Unhashed
    <3>1. b.created_at = 0
      BY AuditAssumption DEF Hashed, Untouched, Ids
    <3>2. a.created_at > 0
      BY HashedRow DEF Timed
    <3> QED
      BY <3>1, <3>2, HashedRow DEF Before
  <2> QED
    BY <2>1, <2>2, <2>3 DEF Valid
<1> QED
  BY <1>1, <1>2, <1>3, ChainInvariance, PTL DEF Spec

\* An untouched log is as broken as its writers met, in one statement.
THEOREM TrailsAreSound == Spec => []TrailIsSound
  BY TypeCorrect, LoneWritersLink, SerialLogsVerify, PTL DEF TrailIsSound

=============================================================================
