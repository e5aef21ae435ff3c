---------------------------- MODULE OutboxProofs ----------------------------
(***************************************************************************)
(* Proofs about Outbox, for any number of callers, dispatchers, retries    *)
(* and crashes.                                                            *)
(*                                                                         *)
(* RecordedMeansPerformed and CompletedIsRecorded say nothing of the       *)
(* processes that are about to write the record or to complete the row.    *)
(* Grounded adds what such a process knows: its own call succeeded, its    *)
(* own record was inserted.  Neither fact can be taken back by anybody.    *)
(*                                                                         *)
(* CompletedIsFinal, and EffectOnce without a key, hold for one process at *)
(* a time: Serial says that there is only one and what it has looked up,   *)
(* Once that the provider acts again only after an effect that left no     *)
(* trace.                                                                  *)
(***************************************************************************)
EXTENDS Outbox, TLAPS

\* Everything on record is backed by what happened before it.
Grounded ==
    /\ local => effects > 0
    /\ row = "completed" => local
    /\ \A p \in Procs :
        /\ pc[p] = "record" => effects > 0
        /\ pc[p] = "complete" => local

IInv == TypeOK /\ Grounded

\* Initially no process runs and there is no row.
LEMMA InitGrounded == Init => IInv
<1> SUFFICES ASSUME Init PROVE IInv
  OBVIOUS
<1>1. TypeOK
  <2>1. due \in BOOLEAN /\ local \in BOOLEAN
    BY Zenon DEF Init
  <2>2. setting \in Settings /\ crashes \in 0..setting.crashes
    BY OutboxAssumption DEF Init, Circumstances
  <2> QED
    BY <2>1, <2>2 DEF Init, TypeOK, Statuses, Resting
<1>2. Grounded
  BY DEF Init, Grounded
<1> QED
  BY <1>1, <1>2 DEF IInv

\* The type survives every step of every process.
LEMMA TypeStep == TypeOK /\ [Next]_vars => TypeOK'
<1> SUFFICES ASSUME TypeOK, [Next]_vars PROVE TypeOK'
  OBVIOUS
<1> USE DEF TypeOK, Statuses, Resting, Goto, Return, Raise, ServiceCreate
<1>1. CASE UNCHANGED vars
  BY <1>1 DEF vars
<1>2. CASE BackoffEnds
  BY <1>2 DEF BackoffEnds
<1>3. ASSUME NEW p \in Procs PROVE CallTool(p) \/ ListDue(p) \/ RequestRetry(p) => TypeOK'
  BY DEF CallTool, ListDue, RequestRetry
<1>4. ASSUME NEW p \in Procs
      PROVE GetEvent(p) \/ FindLocal(p) \/ FindEvent(p) \/ InsertEvent(p) => TypeOK'
  BY DEF GetEvent, FindLocal, FindEvent, InsertEvent
<1>5. ASSUME NEW p \in Procs
      PROVE MarkRunning(p) \/ CallProvider(p) \/ MarkFailed(p) => TypeOK'
  <2>1. MarkRunning(p) => TypeOK'
    BY DEF MarkRunning
  <2>2. CallProvider(p) => TypeOK'
    BY DEF CallProvider
  <2>3. MarkFailed(p) => TypeOK'
    BY DEF MarkFailed
  <2> QED
    BY <2>1, <2>2, <2>3
<1>6. ASSUME NEW p \in Procs
      PROVE RecordLocal(p) \/ MarkCompleted(p) \/ ReadAttempts(p) \/ ScheduleRetry(p) => TypeOK'
  BY DEF RecordLocal, MarkCompleted, ReadAttempts, ScheduleRetry
<1>7. ASSUME NEW p \in Procs PROVE Crash(p) => TypeOK'
  <2>1. setting.crashes \in Nat
    BY OutboxAssumption DEF Circumstances
  <2> QED
    BY <2>1 DEF Crash
<1> QED
  BY <1>1, <1>2, <1>3, <1>4, <1>5, <1>6, <1>7 DEF Next, Run

\* A process reaches "record" by a call that succeeded and "complete" by an
\* insert that was accepted; records and effects are never removed.
LEMMA GroundedStep == IInv /\ [Next]_vars => Grounded'
<1> SUFFICES ASSUME IInv, [Next]_vars PROVE Grounded'
  OBVIOUS
<1> USE DEF IInv, TypeOK, Grounded, Resting, Goto, Return, Raise, ServiceCreate
<1>1. CASE UNCHANGED vars
  BY <1>1 DEF vars
<1>2. CASE BackoffEnds
  BY <1>2 DEF BackoffEnds
<1>3. ASSUME NEW p \in Procs PROVE CallTool(p) \/ ListDue(p) \/ RequestRetry(p) => Grounded'
  BY DEF CallTool, ListDue, RequestRetry
<1>4. ASSUME NEW p \in Procs
      PROVE GetEvent(p) \/ FindLocal(p) \/ FindEvent(p) \/ InsertEvent(p) => Grounded'
  BY DEF GetEvent, FindLocal, FindEvent, InsertEvent
<1>5. ASSUME NEW p \in Procs
      PROVE MarkRunning(p) \/ CallProvider(p) \/ MarkFailed(p) => Grounded'
  BY DEF MarkRunning, CallProvider, MarkFailed
<1>6. ASSUME NEW p \in Procs
      PROVE RecordLocal(p) \/ MarkCompleted(p) \/ ReadAttempts(p) \/ ScheduleRetry(p)
            => Grounded'
  BY DEF RecordLocal, MarkCompleted, ReadAttempts, ScheduleRetry
<1>7. ASSUME NEW p \in Procs PROVE Crash(p) => Grounded'
  BY DEF Crash
<1> QED
  BY <1>1, <1>2, <1>3, <1>4, <1>5, <1>6, <1>7 DEF Next, Run

\* The invariant of every behaviour of the outbox.
LEMMA Invariance == Spec => []IInv
<1>1. Init => IInv
  BY InitGrounded
<1>2. IInv /\ [Next]_vars => IInv'
  BY TypeStep, GroundedStep DEF IInv
<1> QED
  BY <1>1, <1>2, PTL DEF Spec

\* The row, its counters and the processes keep their types.
THEOREM TypeCorrect == Spec => []TypeOK
  BY Invariance, PTL DEF IInv

\* No ticket, sent email or completed event is on record that the provider did
\* not perform, however many processes work on the event, overlap or die.
THEOREM RecordsArePerformed == Spec => []RecordedMeansPerformed
<1>1. IInv => RecordedMeansPerformed
  BY DEF IInv, Grounded, RecordedMeansPerformed
<1> QED
  BY <1>1, Invariance, PTL

\* A completed event always has its local record to be reused.
THEOREM CompletionsAreRecorded == Spec => []CompletedIsRecorded
<1>1. IInv => CompletedIsRecorded
  BY DEF IInv, Grounded, CompletedIsRecorded
<1> QED
  BY <1>1, Invariance, PTL

-----------------------------------------------------------------------------
(* What holds in some circumstances only, which no step changes.           *)

LEMMA SettingStep == [Next]_vars => setting' = setting
<1> SUFFICES ASSUME [Next]_vars PROVE setting' = setting
  OBVIOUS
<1>1. ASSUME NEW p \in Procs, CallTool(p) \/ ListDue(p) \/ RequestRetry(p) \/ Crash(p)
      PROVE  setting' = setting
  BY <1>1 DEF CallTool, ListDue, RequestRetry, Crash
<1>2. ASSUME NEW p \in Procs, Run(p) PROVE setting' = setting
  BY <1>2 DEF Run, GetEvent, FindLocal, FindEvent, InsertEvent, MarkRunning, CallProvider,
     MarkFailed, RecordLocal, MarkCompleted, ReadAttempts, ScheduleRetry
<1> QED
  BY <1>1, <1>2 DEF Next, BackoffEnds, vars

-----------------------------------------------------------------------------
(* One process at a time.                                                  *)

Alone == \A p, q \in Procs : p # q => pc[p] \in Resting \/ pc[q] \in Resting

\* Between its look-up and its record a process knows that there is none, and
\* it schedules a retry only for a row that is not completed.
Knows(p) ==
    /\ pc[p] \in {"event", "insert", "run", "call", "fail", "record"} => ~local
    /\ pc[p] \in {"schedule", "backoff", "exhausted"} => row # "completed"

Serial == Alone /\ \A p \in Procs : Knows(p)

Once ==
    /\ effects <= 1
    /\ ~local /\ (\A p \in Procs : pc[p] # "record") => effects = 0

\* Initially everybody is idle and nothing was done.
LEMMA InitSerial == Init => Serial /\ Once
BY DEF Init, Serial, Alone, Knows, Once, Resting

\* Processes that start only when all others rest stay alone, and nobody
\* records or completes behind the back of the one at work.
LEMMA SerialStep ==
    ASSUME Serialised, IInv, Serial, [Next]_vars
    PROVE  Serial'
<1> USE DEF IInv, TypeOK, Resting, Goto, Return, Raise
<1> DEFINE Rest(p) == \A q \in Procs : q # p => pc[q] \in Resting
<1>a. ASSUME NEW p \in Procs, pc[p] \notin Resting PROVE Rest(p) /\ Knows(p)
  BY <1>a DEF Serial, Alone
<1>b. ASSUME NEW p \in Procs, MayStart(p) PROVE Rest(p)
  BY <1>b DEF MayStart, Serialised
<1>c. ASSUME NEW p \in Procs, Rest(p), NEW l, pc' = [pc EXCEPT ![p] = l], Knows(p)'
      PROVE  Serial'
  <2>1. \A q \in Procs : q # p => pc'[q] = pc[q] /\ pc[q] \in Resting
    BY <1>c
  <2>2. Alone'
    BY <2>1 DEF Alone
  <2>3. \A q \in Procs : q # p => Knows(q)'
    BY <2>1 DEF Knows
  <2> QED
    BY <1>c, <2>2, <2>3 DEF Serial
<1>1. CASE UNCHANGED vars \/ BackoffEnds
  BY <1>1 DEF vars, BackoffEnds, Serial, Alone, Knows
<1>2. ASSUME NEW p \in Procs, CallTool(p) \/ ListDue(p) \/ RequestRetry(p) PROVE Serial'
  <2>1. Rest(p)
    BY <1>2, <1>b DEF CallTool, ListDue, RequestRetry
  <2>2. PICK l \in {"find", "get"} : pc' = [pc EXCEPT ![p] = l]
    BY <1>2 DEF CallTool, ListDue, RequestRetry
  <2>3. Knows(p)'
    BY <2>2 DEF Knows
  <2> QED
    BY <1>c, <2>1, <2>2, <2>3
<1>3. ASSUME NEW p \in Procs, Run(p) \/ Crash(p) PROVE Serial'
  <2>1. Rest(p) /\ Knows(p)
    BY <1>3, <1>a
    DEF Run, GetEvent, FindLocal, FindEvent, InsertEvent, MarkRunning, CallProvider,
        MarkFailed, RecordLocal, MarkCompleted, ReadAttempts, ScheduleRetry, Crash
  <2>2. CASE GetEvent(p) \/ FindLocal(p) \/ MarkCompleted(p) \/ Crash(p)
    <3>1. PICK l \in {"idle", "done", "crashed", "find", "event"} :
            pc' = [pc EXCEPT ![p] = l] /\ (l = "event" => ~local')
      BY <2>2 DEF GetEvent, FindLocal, MarkCompleted, Crash
    <3>2. Knows(p)'
      BY <3>1 DEF Knows
    <3> QED
      BY <1>c, <2>1, <3>1, <3>2
  <2>3. CASE FindEvent(p) \/ InsertEvent(p)
    <3>1. ~local /\ ~local' /\ row' # "completed"
      BY <2>1, <2>3 DEF FindEvent, InsertEvent, Knows, Grounded
    <3>2. PICK l \in {"insert", "run", "done", "schedule"} : pc' = [pc EXCEPT ![p] = l]
      BY <2>3 DEF FindEvent, InsertEvent
    <3> QED
      BY <1>c, <2>1, <3>1, <3>2 DEF Knows
  <2>4. CASE MarkRunning(p) \/ CallProvider(p) \/ MarkFailed(p)
    <3>1. ~local' /\ row' # "completed"
      BY <2>1, <2>4 DEF MarkRunning, CallProvider, MarkFailed, Knows, Grounded
    <3>2. PICK l \in {"call", "record", "fail", "done", "schedule"} :
            pc' = [pc EXCEPT ![p] = l]
      BY <2>4 DEF MarkRunning, CallProvider, MarkFailed
    <3> QED
      BY <1>c, <2>1, <3>1, <3>2 DEF Knows
  <2>5. CASE RecordLocal(p)
    <3>1. pc' = [pc EXCEPT ![p] = "complete"]
      BY <2>1, <2>5 DEF RecordLocal, Knows
    <3>2. Knows(p)'
      BY <3>1 DEF Knows
    <3> QED
      BY <1>c, <2>1, <3>1, <3>2
  <2>6. CASE ReadAttempts(p) \/ ScheduleRetry(p)
    <3>1. row' # "completed"
      BY <2>1, <2>6 DEF ReadAttempts, ScheduleRetry, Knows
    <3>2. PICK l \in {"exhausted", "backoff", "idle", "done"} : pc' = [pc EXCEPT ![p] = l]
      BY <2>6 DEF ReadAttempts, ScheduleRetry
    <3> QED
      BY <1>c, <2>1, <3>1, <3>2 DEF Knows
  <2> QED
    BY <1>3, <2>2, <2>3, <2>4, <2>5, <2>6 DEF Run
<1> QED
  BY <1>1, <1>2, <1>3 DEF Next

\* A process that is alone has looked for the record before it touches the row,
\* so that a completed event is left as it is, whatever is lost or crashes.
THEOREM CompletionIsFinal == Spec => CompletedIsFinal
<1> DEFINE S == Serialised => Serial
<1>1. IInv /\ S /\ [Next]_vars => [Serialised /\ row = "completed" => row' = "completed"]_vars
  <2> SUFFICES ASSUME IInv, Serial, Next, row = "completed" PROVE row' = "completed"
    OBVIOUS
  <2>1. local
    BY DEF IInv, Grounded
  <2>2. \A p \in Procs :
          pc[p] \notin {"event", "insert", "run", "call", "fail", "record",
                       "schedule", "backoff", "exhausted"}
    BY <2>1 DEF Serial, Knows
  <2> QED
    BY <2>2 DEF Next, Run, CallTool, ListDue, RequestRetry, GetEvent, FindLocal, FindEvent,
       InsertEvent, MarkRunning, CallProvider, MarkFailed, RecordLocal, MarkCompleted,
       ReadAttempts, ScheduleRetry, BackoffEnds, Crash
<1>2. IInv /\ S /\ [Next]_vars => S'
  BY SerialStep, SettingStep DEF Serialised
<1>3. Init => S
  BY InitSerial
<1> QED
  BY <1>1, <1>2, <1>3, Invariance, PTL DEF Spec, CompletedIsFinal

\* If besides answers are not lost and nobody dies, every effect leaves a trace:
\* a record, or a process that is about to write one.
LEMMA OnceStep ==
    ASSUME Calm, IInv, Serial, Once, [Next]_vars
    PROVE  Once'
<1> USE DEF IInv, TypeOK, Resting, Goto, Return, Raise
<1>1. CASE UNCHANGED vars \/ BackoffEnds
  BY <1>1 DEF vars, BackoffEnds, Once
<1>2. ASSUME NEW p \in Procs, Crash(p) PROVE FALSE
  BY <1>2 DEF Crash, Calm
<1>3. ASSUME NEW p \in Procs, CallProvider(p) PROVE Once'
  <2>1. ~local /\ \A q \in Procs : pc[q] # "record"
    BY <1>3 DEF CallProvider, Serial, Alone, Knows
  <2>2. effects = 0
    BY <2>1 DEF Once
  <2>3. CASE effects' = effects
    BY <2>2, <2>3 DEF Once
  <2>4. CASE pc' = [pc EXCEPT ![p] = "record"] /\ effects' = effects + 1
    BY <2>2, <2>4 DEF Once
  <2> QED
    BY <1>3, <2>2, <2>3, <2>4 DEF CallProvider, ServiceCreate, Calm
<1>4. ASSUME NEW p \in Procs, RecordLocal(p) PROVE Once'
  BY <1>4 DEF RecordLocal, Once
<1>5. ASSUME NEW p \in Procs, pc[p] # "record", NEW l, pc' = [pc EXCEPT ![p] = l],
             UNCHANGED <<local, effects>>
      PROVE  Once'
  BY <1>5 DEF Once
<1>6. ASSUME NEW p \in Procs, CallTool(p) \/ ListDue(p) \/ RequestRetry(p) PROVE Once'
  BY <1>5, <1>6 DEF CallTool, ListDue, RequestRetry
<1>7. ASSUME NEW p \in Procs,
             \/ GetEvent(p) \/ FindLocal(p) \/ FindEvent(p) \/ InsertEvent(p)
             \/ MarkRunning(p) \/ MarkFailed(p) \/ MarkCompleted(p)
             \/ ReadAttempts(p) \/ ScheduleRetry(p)
      PROVE  Once'
  <2>1. pc[p] # "record" /\ UNCHANGED <<local, effects>>
    BY <1>7 DEF GetEvent, FindLocal, FindEvent, InsertEvent, MarkRunning, MarkFailed,
       MarkCompleted, ReadAttempts, ScheduleRetry
  <2>2. \E l : pc' = [pc EXCEPT ![p] = l]
    BY <1>7 DEF GetEvent, FindLocal, FindEvent, InsertEvent, MarkRunning, MarkFailed,
       MarkCompleted, ReadAttempts, ScheduleRetry
  <2> QED
    BY <1>5, <2>1, <2>2
<1> QED
  BY <1>1, <1>2, <1>3, <1>4, <1>6, <1>7 DEF Next, Run

\* A provider that takes keys acts once, since it looks for the key itself.
LEMMA KeyedStep ==
    ASSUME TypeOK, setting.keyed, effects <= 1, [Next]_vars
    PROVE  effects' <= 1
<1> USE DEF TypeOK
<1>1. CASE UNCHANGED vars \/ BackoffEnds
  BY <1>1 DEF vars, BackoffEnds
<1>2. ASSUME NEW p \in Procs, CallTool(p) \/ ListDue(p) \/ RequestRetry(p) \/ Crash(p)
      PROVE  effects' <= 1
  BY <1>2 DEF CallTool, ListDue, RequestRetry, Crash
<1>3. ASSUME NEW p \in Procs, Run(p) PROVE effects' <= 1
  BY <1>3 DEF Run, GetEvent, FindLocal, FindEvent, InsertEvent, MarkRunning, CallProvider,
     ServiceCreate, MarkFailed, RecordLocal, MarkCompleted, ReadAttempts, ScheduleRetry
<1> QED
  BY <1>1, <1>2, <1>3 DEF Next

\* The provider acts at most once, however often callers, dispatchers and
\* retries come back: with a key always, without one if there is one process at
\* a time, no answer is lost and nobody dies.
THEOREM EffectsHappenOnce == Spec => []EffectOnce
<1> DEFINE S == (Serialised => Serial) /\ (Calm => Once)
           K == setting.keyed => effects <= 1
<1>1. Init => S /\ K
  BY InitSerial DEF Init
<1>2. IInv /\ S /\ K /\ [Next]_vars => S' /\ K'
  <2> SUFFICES ASSUME IInv, S, K, [Next]_vars PROVE S' /\ K'
    OBVIOUS
  <2>1. (Serialised' <=> Serialised) /\ (Calm' <=> Calm) /\ setting' = setting
    BY SettingStep DEF Serialised, Calm
  <2>2. Calm => Serialised
    BY DEF Calm
  <2>3. Serialised => Serial'
    BY SerialStep
  <2>4. Calm => Once'
    BY <2>2, OnceStep
  <2>5. setting.keyed => effects' <= 1
    BY KeyedStep DEF IInv
  <2> QED
    BY <2>1, <2>3, <2>4, <2>5
<1>3. S /\ K => EffectOnce
  BY DEF Once, EffectOnce
<1> QED
  BY <1>1, <1>2, <1>3, Invariance, PTL DEF Spec

\* Provider, record and row, in one statement.
THEOREM RecordsAreTrue == Spec => []OnRecordMeansDone
  BY TypeCorrect, RecordsArePerformed, CompletionsAreRecorded, PTL DEF OnRecordMeansDone

=============================================================================
