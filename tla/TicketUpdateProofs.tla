-------------------------- MODULE TicketUpdateProofs --------------------------
(***************************************************************************)
(* Proofs about TicketUpdate, for any number of updates, dispatchers and   *)
(* retries.                                                                *)
(*                                                                         *)
(* NoUpdateSwallowed rests on the keys.  An applied event has a base older *)
(* than the ticket, so that an update asked afterwards has another key; an *)
(* update asked before has seen the status come into force.  Keyed says    *)
(* so of every event that is completed or about to be.                     *)
(*                                                                         *)
(* LegalMoves and InStep hold for one process at a time.  Alone says that  *)
(* there is only one, and Serial what it knows at each place.              *)
(***************************************************************************)
EXTENDS TicketUpdate, TLAPS

Replaying ==
    {"get", "replay", "run", "call", "patch", "apply", "complete", "fail",
     "schedule", "backoff", "exhausted"}

Asked(u) == pc[u] \notin {"idle", "refused", "crashed"}

\* Every row at work exists, and an update works on a row of its own key.
Events ==
    /\ \A u \in Updates :
        /\ row[u] # "absent" => pc[u] # "idle"
        /\ pc[u] \in {"event", "insert"} => row[u] = "absent"
        /\ pc[u] \notin {"get", "schedule", "backoff", "exhausted"}
    /\ \A p \in Procs : pc[p] \in Replaying =>
        /\ event[p] \in Updates
        /\ row[event[p]] # "absent"
        /\ p \in Updates => key[event[p]] = key[p]
    /\ \A p \in Procs \ Updates : pc[p] \notin {"event", "insert"}

\* The event has been applied: whoever asked under its key has seen it.
Applied(e) ==
    /\ key[e].base < updated_at
    /\ \A u \in Updates : Asked(u) /\ key[u] = key[e] => inForce[u]

Keyed ==
    /\ \A e \in Updates : key[e].base <= updated_at
    /\ \A e \in Updates : row[e] = "completed" => Applied(e)
    /\ \A p \in Procs : pc[p] = "complete" => Applied(event[p])
    /\ \A u \in Updates : pc[u] = "answered" => inForce[u]

Alone == \A p, q \in Procs : p # q => pc[p] \in Resting \/ pc[q] \in Resting

Serial ==
    /\ Alone
    /\ \A p \in Procs :
        /\ pc[p] \in {"run", "call", "patch", "apply"} => LegalTransition(ticket, Status(p))
        /\ pc[p] \in {"run", "call"} /\ ~sends[p] => ticket = Status(p)

\* The provider is ahead of the row only while the row is about to follow.
Following ==
    /\ \A p \in Procs : pc[p] = "apply" => external = Status(p)
    /\ (\A p \in Procs : pc[p] # "apply") => ticket = external

EInv == TypeOK /\ Events

\* Initially no process runs and there is no row.
LEMMA InitEInv == Init => EInv
<1> SUFFICES ASSUME Init PROVE EInv
  OBVIOUS
<1>1. TypeOK
  <2>1. setting \in Settings /\ crashes \in 0..setting.crashes
    BY UpdateAssumption DEF Init, Circumstances
  <2>2. due \in [Updates -> BOOLEAN] /\ inForce \in [Updates -> BOOLEAN]
        /\ sends \in [Procs -> BOOLEAN]
    BY Zenon DEF Init
  <2>3. key \in [Updates -> [base : Nat, status : TicketStatuses]]
    BY DEF Init, NoKey, TicketStatuses
  <2> QED
    BY <2>1, <2>2, <2>3 DEF Init, TypeOK, TicketStatuses, Resting
<1>2. Events
  BY DEF Init, Events, Replaying, Procs
<1> QED
  BY <1>1, <1>2 DEF EInv

\* The type survives every step of every process.
LEMMA TypeStep == EInv /\ [Next]_vars => TypeOK'
<1> SUFFICES ASSUME EInv, [Next]_vars PROVE TypeOK'
  OBVIOUS
<1> USE DEF EInv, TypeOK, Resting, Goto, Return, Raise, outbox
<1>1. CASE UNCHANGED vars
  BY <1>1 DEF vars
<1>2. ASSUME NEW u \in Updates, NEW s \in setting.wanted, Ask(u, s) PROVE TypeOK'
  <2>1. Key(s) \in [base : Nat, status : TicketStatuses]
    BY UpdateAssumption DEF Key, Circumstances
  <2>2. u \in Procs
    BY DEF Procs
  <2>3. inForce' \in [Updates -> BOOLEAN]
    <3>1. CASE LegalTransition(ticket, s)
      <4>1. (ticket = s) \in BOOLEAN
        OBVIOUS
      <4> QED
        BY <1>2, <3>1, <4>1, Zenon DEF Ask
    <3>2. CASE ~LegalTransition(ticket, s)
      BY <1>2, <3>2 DEF Ask
    <3> QED
      BY <3>1, <3>2
  <2> QED
    BY <1>2, <2>1, <2>2, <2>3 DEF Ask
<1>3. ASSUME NEW u \in Updates, FindEvent(u) \/ InsertEvent(u) PROVE TypeOK'
  BY <1>3 DEF FindEvent, InsertEvent, SameEvent, Procs
<1>4. ASSUME NEW p \in Procs, GetEvent(p) PROVE TypeOK'
  BY <1>4 DEF GetEvent
<1>5. ASSUME NEW p \in Procs, ValidateReplay(p) PROVE TypeOK'
  <2>1. sends' \in [Procs -> BOOLEAN]
    BY <1>5, Zenon DEF ValidateReplay
  <2> QED
    BY <1>5, <2>1 DEF ValidateReplay
<1>6. ASSUME NEW p \in Procs, MarkRunning(p) PROVE TypeOK'
  BY <1>6 DEF MarkRunning, Events, Replaying
<1>7. ASSUME NEW p \in Procs, CallService(p) PROVE TypeOK'
  BY <1>7 DEF CallService
<1>8. ASSUME NEW p \in Procs, PatchExternal(p) PROVE TypeOK'
  BY <1>8 DEF PatchExternal, Status, Events, Replaying
<1>9. ASSUME NEW p \in Procs, ApplyLocal(p) PROVE TypeOK'
  <2>1. inForce' \in [Updates -> BOOLEAN]
    BY <1>9, Zenon DEF ApplyLocal
  <2>2. ticket' \in TicketStatuses
    BY <1>9 DEF ApplyLocal, Status, Events, Replaying
  <2> QED
    BY <1>9, <2>1, <2>2 DEF ApplyLocal
<1>10. ASSUME NEW p \in Procs, MarkCompleted(p) PROVE TypeOK'
  BY <1>10 DEF MarkCompleted
<1>11. ASSUME NEW p \in Procs, MarkFailed(p) PROVE TypeOK'
  BY <1>11 DEF MarkFailed
<1>12. ASSUME NEW p \in Procs, ReadAttempts(p) PROVE TypeOK'
  BY <1>12 DEF ReadAttempts
<1>13. ASSUME NEW p \in Procs, ScheduleRetry(p) PROVE TypeOK'
  <2>1. due' \in [Updates -> BOOLEAN]
    <3>1. (pc[p] = "exhausted") \in BOOLEAN
      OBVIOUS
    <3> QED
      BY <1>13, <3>1, Zenon DEF ScheduleRetry
  <2> QED
    BY <1>13, <2>1 DEF ScheduleRetry
<1>14. ASSUME NEW p \in Procs, Crash(p) PROVE TypeOK'
  <2>1. setting.crashes \in Nat
    BY UpdateAssumption DEF Circumstances
  <2> QED
    BY <1>14, <2>1 DEF Crash
<1>15. ASSUME NEW e \in Updates, BackoffEnds(e) PROVE TypeOK'
  BY <1>15 DEF BackoffEnds
<1>16. ASSUME NEW e \in Updates, NEW p \in Dispatchers \cup Admins, TakeUp(p, e) PROVE TypeOK'
  BY <1>16 DEF TakeUp, Procs
<1> QED
  BY <1>1, <1>2, <1>3, <1>4, <1>5, <1>6, <1>7, <1>8, <1>9, <1>10, <1>11, <1>12, <1>13,
     <1>14, <1>15, <1>16 DEF Next, Run

\* A row is created by its update before anybody works on it, its key stays as
\* it was asked for, and no row is removed.
LEMMA EventsStep == EInv /\ [Next]_vars => Events'
<1> SUFFICES ASSUME EInv, [Next]_vars PROVE Events'
  OBVIOUS
<1> USE DEF EInv, TypeOK, Events, Replaying, Resting, Goto, Return, Raise, outbox
<1>0. /\ \A u \in Updates : u \in Procs /\ u \notin Dispatchers \cup Admins
      /\ Dispatchers \cup Admins \subseteq Procs
  BY UpdateAssumption DEF Procs
<1>1. CASE UNCHANGED vars
  BY <1>1 DEF vars
<1>2. ASSUME NEW u \in Updates, NEW s \in setting.wanted, Ask(u, s) PROVE Events'
  BY <1>0, <1>2 DEF Ask, MayStart
<1>3. ASSUME NEW u \in Updates, FindEvent(u) PROVE Events'
  BY <1>0, <1>3 DEF FindEvent, SameEvent
<1>4. ASSUME NEW u \in Updates, InsertEvent(u) PROVE Events'
  <2>1. CASE SameEvent(u) = {}
    <3>1. /\ pc' = [pc EXCEPT ![u] = "replay"]
          /\ row' = [row EXCEPT ![u] = "pending"]
          /\ event' = [event EXCEPT ![u] = u]
          /\ key' = key
          /\ u \in Procs
      BY <1>0, <1>4, <2>1 DEF InsertEvent
    <3> QED
      BY <3>1
  <2>2. CASE SameEvent(u) # {}
    <3>1. /\ pc' = [pc EXCEPT ![u] = "refused"]
          /\ UNCHANGED <<row, event, key>>
      BY <1>0, <1>4, <2>2 DEF InsertEvent
    <3> QED
      BY <1>0, <3>1
  <2> QED
    BY <2>1, <2>2
<1>5. ASSUME NEW p \in Procs, GetEvent(p) \/ ValidateReplay(p) \/ CallService(p) PROVE Events'
  BY <1>0, <1>5 DEF GetEvent, ValidateReplay, CallService
<1>6. ASSUME NEW p \in Procs, MarkRunning(p) \/ MarkCompleted(p) \/ MarkFailed(p) PROVE Events'
  BY <1>0, <1>6 DEF MarkRunning, MarkCompleted, MarkFailed
<1>7. ASSUME NEW p \in Procs, PatchExternal(p) \/ ApplyLocal(p) PROVE Events'
  BY <1>0, <1>7 DEF PatchExternal, ApplyLocal
<1>8. ASSUME NEW p \in Procs, ReadAttempts(p) \/ ScheduleRetry(p) \/ Crash(p) PROVE Events'
  BY <1>0, <1>8 DEF ReadAttempts, ScheduleRetry, Crash
<1>9. ASSUME NEW e \in Updates, BackoffEnds(e) PROVE Events'
  BY <1>9 DEF BackoffEnds
<1>10. ASSUME NEW e \in Updates, NEW p \in Dispatchers \cup Admins, TakeUp(p, e) PROVE Events'
  BY <1>0, <1>10 DEF TakeUp, Due
<1> QED
  BY <1>1, <1>2, <1>3, <1>4, <1>5, <1>6, <1>7, <1>8, <1>9, <1>10 DEF Next, Run

\* The bookkeeping of rows and keys is invariant.
LEMMA EventsInvariance == Spec => []EInv
<1>1. Init => EInv
  BY InitEInv
<1>2. EInv /\ [Next]_vars => EInv'
  BY TypeStep, EventsStep DEF EInv
<1> QED
  BY <1>1, <1>2, PTL DEF Spec

\* Tickets, rows, keys and processes keep their types.
THEOREM TypeCorrect == Spec => []TypeOK
  BY EventsInvariance, PTL DEF EInv

-----------------------------------------------------------------------------
(* What holds in some circumstances only, which no step changes.           *)

LEMMA SettingStep == [Next]_vars => setting' = setting
<1> SUFFICES ASSUME [Next]_vars PROVE setting' = setting
  OBVIOUS
<1>1. ASSUME NEW u \in Updates, (\E s \in setting.wanted : Ask(u, s)) \/ FindEvent(u) \/ InsertEvent(u)
      PROVE  setting' = setting
  BY <1>1 DEF Ask, FindEvent, InsertEvent
<1>2. ASSUME NEW p \in Procs, Run(p) \/ Crash(p) PROVE setting' = setting
  BY <1>2 DEF Run, GetEvent, ValidateReplay, MarkRunning, CallService, PatchExternal, ApplyLocal,
     MarkCompleted, MarkFailed, ReadAttempts, ScheduleRetry, Crash
<1>3. ASSUME NEW e \in Updates, BackoffEnds(e) \/ \E p \in Dispatchers \cup Admins : TakeUp(p, e)
      PROVE  setting' = setting
  BY <1>3 DEF BackoffEnds, TakeUp
<1> QED
  BY <1>1, <1>2, <1>3 DEF Next, vars

-----------------------------------------------------------------------------
(* Keys.                                                                   *)

\* Initially nothing was applied.
LEMMA InitKeyed == Init => Keyed
BY DEF Init, Keyed, NoKey, Procs

\* If every local write has a later updated_at, an event that is completed was
\* applied before anybody could ask for the same again.
LEMMA KeyedStep ==
    ASSUME ~setting.sameSecond, EInv, EInv', Keyed, [Next]_vars
    PROVE  Keyed'
<1> USE DEF EInv, TypeOK, Resting, Goto, Return, Raise, outbox, Procs
<1>1. ASSUME UNCHANGED <<key, inForce, updated_at>>,
             \A e \in Updates : row'[e] = "completed" => row[e] = "completed",
             \A u \in Updates : Asked(u)' => Asked(u),
             \A p \in Procs : pc'[p] = "complete" => pc[p] = "complete" /\ event'[p] = event[p],
             \A u \in Updates : pc'[u] = "answered" => inForce[u]
      PROVE  Keyed'
  <2>1. ASSUME NEW e \in Updates, Applied(e) PROVE Applied(e)'
    BY <1>1, <2>1 DEF Applied
  <2>2. \A p \in Procs : pc'[p] = "complete" => event[p] \in Updates
    BY <1>1 DEF Events, Replaying
  <2> QED
    BY <1>1, <2>1, <2>2 DEF Keyed
<1>2. CASE UNCHANGED vars
  BY <1>1, <1>2 DEF vars, Keyed, Asked
<1>3. ASSUME NEW u \in Updates, NEW s \in setting.wanted, Ask(u, s) PROVE Keyed'
  <2>1. CASE LegalTransition(ticket, s)
    <3>1. /\ key' = [key EXCEPT ![u] = [base |-> updated_at, status |-> s]]
          /\ inForce' = [inForce EXCEPT ![u] = (ticket = s)]
          /\ pc' = [pc EXCEPT ![u] = "event"]
          /\ UNCHANGED <<updated_at, row, event>>
          /\ pc[u] = "idle"
      BY <1>3, <2>1 DEF Ask, MayStart, Key
    <3>2. row[u] = "absent"
      BY <3>1 DEF Events
    <3>3. ASSUME NEW e \in Updates, e # u, Applied(e) PROVE Applied(e)'
      <4>1. key'[e] = key[e] /\ key'[u].base = updated_at /\ key[e].base < updated_at
        BY <3>1, <3>3 DEF Applied
      <4>2. key'[u] # key'[e]
        BY <4>1
      <4>3. \A v \in Updates : v # u => key'[v] = key[v] /\ inForce'[v] = inForce[v]
                                       /\ (Asked(v)' <=> Asked(v))
        BY <3>1 DEF Asked
      <4> QED
        BY <3>1, <3>3, <4>1, <4>2, <4>3 DEF Applied
    <3>4. \A p \in Procs : pc'[p] = "complete" =>
              pc[p] = "complete" /\ event'[p] \in Updates /\ event'[p] = event[p] /\ event[p] # u
      BY <3>1, <3>2 DEF Events, Replaying
    <3>5. \A e \in Updates : key'[e].base <= updated_at'
      BY <3>1 DEF Keyed
    <3>6. \A v \in Updates : pc'[v] = "answered" => inForce'[v]
      BY <3>1 DEF Keyed
    <3> QED
      BY <3>1, <3>2, <3>3, <3>4, <3>5, <3>6 DEF Keyed
  <2>2. CASE ~LegalTransition(ticket, s)
    BY <1>1, <1>3, <2>2 DEF Ask, Keyed, Asked
  <2> QED
    BY <2>1, <2>2
<1>4. ASSUME NEW u \in Updates, FindEvent(u) PROVE Keyed'
  <2>1. CASE SameEvent(u) = {}
    BY <1>1, <1>4, <2>1 DEF FindEvent, Keyed, Asked
  <2>2. CASE SameEvent(u) # {}
    <3>1. PICK e \in SameEvent(u) :
            /\ event' = [event EXCEPT ![u] = e]
            /\ IF row[e] = "completed" THEN Return(u) ELSE Goto(u, "replay")
      BY <1>4, <2>2 DEF FindEvent
    <3>2. e \in Updates /\ key[e] = key[u] /\ Asked(u) /\ u \notin Dispatchers
      BY <1>4, UpdateAssumption DEF SameEvent, FindEvent, Asked
    <3>3. row[e] = "completed" => inForce[u]
      BY <3>2 DEF Keyed, Applied
    <3> QED
      BY <1>1, <1>4, <3>1, <3>2, <3>3 DEF FindEvent, Keyed, Asked
  <2> QED
    BY <2>1, <2>2
<1>5. ASSUME NEW u \in Updates, InsertEvent(u) PROVE Keyed'
  BY <1>1, <1>5 DEF InsertEvent, Keyed, Asked
<1>6. ASSUME NEW p \in Procs,
             GetEvent(p) \/ ValidateReplay(p) \/ CallService(p) \/ PatchExternal(p)
      PROVE Keyed'
  <2>1. pc[p] = "get" => p \notin Updates
    BY DEF Events
  <2> QED
    BY <1>1, <1>6, <2>1 DEF GetEvent, ValidateReplay, CallService, PatchExternal, Keyed, Asked
<1>7. ASSUME NEW p \in Procs, MarkRunning(p) \/ MarkFailed(p) PROVE Keyed'
  BY <1>1, <1>7 DEF MarkRunning, MarkFailed, Keyed, Asked
<1>8. ASSUME NEW p \in Procs, ApplyLocal(p) PROVE Keyed'
  <2>1. /\ updated_at' = updated_at + 1
        /\ key' = key /\ event' = event /\ row' = row
        /\ pc' = [pc EXCEPT ![p] = "complete"]
        /\ pc[p] = "apply" /\ event[p] \in Updates
    BY <1>8 DEF ApplyLocal, Events, Replaying
  <2>2. \A u \in Updates : inForce'[u] <=> inForce[u] \/ key[u].status = Status(p)
    BY <1>8, Zenon DEF ApplyLocal
  <2>3. ASSUME NEW e \in Updates, Applied(e) PROVE Applied(e)'
    BY <2>1, <2>2, <2>3 DEF Applied, Asked
  <2>4. Applied(event[p])'
    <3>1. key[event[p]].base < updated_at + 1
      BY <2>1 DEF Keyed
    <3>2. \A u \in Updates : key[u] = key[event[p]] => inForce'[u]
      BY <2>2 DEF Status
    <3> QED
      BY <2>1, <3>1, <3>2 DEF Applied
  <2>5. \A q \in Procs : pc[q] = "complete" => event[q] \in Updates
    BY DEF Events, Replaying
  <2> QED
    BY <2>1, <2>2, <2>3, <2>4, <2>5 DEF Keyed
<1>9. ASSUME NEW p \in Procs, MarkCompleted(p) PROVE Keyed'
  <2>1. /\ UNCHANGED <<key, inForce, updated_at, event>>
        /\ row' = [row EXCEPT ![event[p]] = "completed"]
        /\ pc[p] = "complete" /\ event[p] \in Updates
        /\ p \in Updates => key[event[p]] = key[p]
    BY <1>9 DEF MarkCompleted, Events, Replaying
  <2>2. pc' = [pc EXCEPT ![p] = IF p \in Dispatchers THEN "idle" ELSE "answered"]
    BY <1>9 DEF MarkCompleted
  <2>3. \A u \in Updates : Asked(u)' => Asked(u)
    BY <2>1, <2>2 DEF Asked
  <2>4. ASSUME NEW e \in Updates, Applied(e) PROVE Applied(e)'
    BY <2>1, <2>3, <2>4 DEF Applied
  <2>5. p \in Updates => inForce[p]
    BY <2>1 DEF Keyed, Applied, Asked
  <2>6. \A q \in Procs : pc[q] = "complete" => event[q] \in Updates
    BY DEF Events, Replaying
  <2>7. \A e \in Updates : row'[e] = "completed" => Applied(e)
    BY <2>1 DEF Keyed
  <2> QED
    BY <2>1, <2>2, <2>4, <2>5, <2>6, <2>7 DEF Keyed
<1>10. ASSUME NEW p \in Procs, ReadAttempts(p) \/ ScheduleRetry(p) \/ Crash(p) PROVE Keyed'
  <2>1. pc[p] \in {"backoff", "exhausted"} => p \notin Updates
    BY DEF Events
  <2> QED
    BY <1>1, <1>10, <2>1 DEF ReadAttempts, ScheduleRetry, Crash, Keyed, Asked
<1>11. ASSUME NEW e \in Updates, BackoffEnds(e) PROVE Keyed'
  BY <1>1, <1>11 DEF BackoffEnds, Keyed, Asked
<1>12. ASSUME NEW e \in Updates, NEW p \in Dispatchers \cup Admins, TakeUp(p, e) PROVE Keyed'
  <2>1. p \in Procs /\ p \notin Updates
    BY UpdateAssumption
  <2> QED
    BY <1>1, <1>12, <2>1 DEF TakeUp, Keyed, Asked
<1> QED
  BY <1>2, <1>3, <1>4, <1>5, <1>6, <1>7, <1>8, <1>9, <1>10, <1>11, <1>12 DEF Next, Run

\* No update that was answered with success has been taken for an earlier one:
\* if local writes differ in updated_at, its status was in force meanwhile.
THEOREM NoUpdateIsSwallowed == Spec => []NoUpdateSwallowed
<1> DEFINE K == ~setting.sameSecond => Keyed
<1>1. Init => K
  BY InitKeyed
<1>2. EInv /\ EInv' /\ K /\ [Next]_vars => K'
  BY KeyedStep, SettingStep
<1>3. K => NoUpdateSwallowed
  BY DEF Keyed, NoUpdateSwallowed
<1> QED
  BY <1>1, <1>2, <1>3, EventsInvariance, PTL DEF Spec

-----------------------------------------------------------------------------
(* One process at a time.                                                  *)

\* Initially everybody is idle.
LEMMA InitSerial == Init => Serial
BY DEF Init, Serial, Alone, Resting

\* Processes that start only when all others rest stay alone, and what one
\* of them validated nobody changes before it writes.
LEMMA SerialStep ==
    ASSUME Serialised, EInv, Serial, [Next]_vars
    PROVE  Serial'
<1> USE DEF EInv, TypeOK, Resting, Goto, Return, Raise, outbox
<1> DEFINE Rest(p) == \A q \in Procs : q # p => pc[q] \in Resting
           Knows(p) == /\ pc[p] \in {"run", "call", "patch", "apply"}
                             => LegalTransition(ticket, Status(p))
                       /\ pc[p] \in {"run", "call"} /\ ~sends[p] => ticket = Status(p)
<1>0. /\ \A u \in Updates : u \in Procs
      /\ \A p \in Dispatchers \cup Admins : p \in Procs
  BY DEF Procs
<1>a. ASSUME NEW p \in Procs, pc[p] \notin Resting PROVE Rest(p) /\ Knows(p)
  BY <1>a DEF Serial, Alone
<1>b. ASSUME NEW p \in Procs, MayStart(p) PROVE Rest(p)
  BY <1>b DEF MayStart, Serialised
<1>c. ASSUME NEW p \in Procs, Rest(p), NEW l, pc' = [pc EXCEPT ![p] = l], Knows(p)'
      PROVE  Serial'
  <2>1. \A q \in Procs : q # p => pc'[q] = pc[q] /\ pc[q] \in Resting
    BY <1>c
  <2>2. Alone'
    BY <2>1 DEF Alone
  <2>3. \A q \in Procs : q # p => Knows(q)'
    BY <2>1
  <2> QED
    BY <1>c, <2>2, <2>3 DEF Serial
<1>1. CASE UNCHANGED vars
  BY <1>1 DEF vars, Serial, Alone, Status
<1>2. ASSUME NEW u \in Updates, NEW s \in setting.wanted, Ask(u, s) PROVE Serial'
  <2>1. Rest(u) /\ pc' \in {[pc EXCEPT ![u] = "event"], [pc EXCEPT ![u] = "refused"]}
    BY <1>0, <1>2, <1>b DEF Ask
  <2>2. pc'[u] \in {"event", "refused"}
    BY <1>0, <2>1
  <2> QED
    BY <1>0, <1>c, <2>1, <2>2
<1>3. ASSUME NEW u \in Updates, FindEvent(u) PROVE Serial'
  <2>1. Rest(u)
    BY <1>0, <1>3, <1>a DEF FindEvent
  <2>2. PICK l \in {"insert", "idle", "answered", "replay"} : pc' = [pc EXCEPT ![u] = l]
    BY <1>3 DEF FindEvent
  <2>3. pc'[u] = l
    BY <1>0, <2>2
  <2> QED
    BY <1>0, <1>c, <2>1, <2>2, <2>3
<1>4. ASSUME NEW u \in Updates, InsertEvent(u) PROVE Serial'
  <2>1. Rest(u)
    BY <1>0, <1>4, <1>a DEF InsertEvent
  <2>2. PICK l \in {"replay", "refused", "schedule"} : pc' = [pc EXCEPT ![u] = l]
    BY <1>4 DEF InsertEvent
  <2>3. pc'[u] = l
    BY <1>0, <2>2
  <2> QED
    BY <1>0, <1>c, <2>1, <2>2, <2>3
<1>5. ASSUME NEW p \in Procs, ValidateReplay(p) PROVE Serial'
  <2>1. Rest(p)
    BY <1>5, <1>a DEF ValidateReplay
  <2>2. CASE LegalTransition(ticket, Status(p))
    <3>1. /\ pc' = [pc EXCEPT ![p] = "run"]
          /\ UNCHANGED <<ticket, key, event>>
      BY <1>5, <2>2 DEF ValidateReplay
    <3>2. sends' = [sends EXCEPT ![p] = ~setting.jira \/ ticket # Status(p)]
      BY <1>5 DEF ValidateReplay
    <3>3. sends'[p] = (~setting.jira \/ ticket # Status(p))
      BY <3>2, Zenon
    <3>4. ~sends'[p] => ticket = Status(p)
      BY <3>3, Zenon
    <3>5. Status(p)' = Status(p)
      BY <3>1 DEF Status
    <3> QED
      BY <1>c, <2>1, <2>2, <3>1, <3>4, <3>5, ZenonT(40)
  <2>3. CASE ~LegalTransition(ticket, Status(p))
    <3>1. PICK l \in {"refused", "schedule"} : pc' = [pc EXCEPT ![p] = l]
      BY <1>5, <2>3 DEF ValidateReplay
    <3> QED
      BY <1>c, <2>1, <3>1
  <2> QED
    BY <2>2, <2>3
<1>6. ASSUME NEW p \in Procs, MarkRunning(p) \/ CallService(p) \/ PatchExternal(p) PROVE Serial'
  <2>1. Rest(p) /\ Knows(p)
    BY <1>6, <1>a DEF MarkRunning, CallService, PatchExternal
  <2>2. PICK l \in {"call", "patch", "apply", "fail"} : pc' = [pc EXCEPT ![p] = l]
    BY <1>6 DEF MarkRunning, CallService, PatchExternal
  <2>3. Knows(p)'
    BY <1>6, <2>1 DEF MarkRunning, CallService, PatchExternal, Status
  <2> QED
    BY <1>c, <2>1, <2>2, <2>3
<1>7. ASSUME NEW p \in Procs,
             \/ GetEvent(p) \/ ApplyLocal(p) \/ MarkCompleted(p)
             \/ MarkFailed(p) \/ ReadAttempts(p) \/ ScheduleRetry(p) \/ Crash(p)
      PROVE Serial'
  <2>1. Rest(p)
    BY <1>7, <1>a DEF GetEvent, ApplyLocal, MarkCompleted, MarkFailed, ReadAttempts,
       ScheduleRetry, Crash
  <2>2. PICK l \in {"idle", "answered", "replay", "complete", "refused", "schedule",
                   "exhausted", "backoff", "crashed"} : pc' = [pc EXCEPT ![p] = l]
    BY <1>7 DEF GetEvent, ApplyLocal, MarkCompleted, MarkFailed, ReadAttempts,
       ScheduleRetry, Crash
  <2>3. pc'[p] = l
    BY <2>2
  <2> QED
    BY <1>c, <2>1, <2>2, <2>3
<1>8. ASSUME NEW e \in Updates, BackoffEnds(e) PROVE Serial'
  BY <1>8 DEF BackoffEnds, Serial, Alone, Status
<1>9. ASSUME NEW e \in Updates, NEW p \in Dispatchers \cup Admins, TakeUp(p, e) PROVE Serial'
  <2>1. Rest(p) /\ pc' = [pc EXCEPT ![p] = "get"]
    BY <1>0, <1>9, <1>b DEF TakeUp
  <2>2. pc'[p] = "get"
    BY <1>0, <2>1
  <2> QED
    BY <1>0, <1>c, <2>1, <2>2
<1> QED
  BY <1>1, <1>2, <1>3, <1>4, <1>5, <1>6, <1>7, <1>8, <1>9 DEF Next, Run

\* The lone process validated the transition it writes.
THEOREM MovesAreLegal == Spec => LegalMoves
<1> DEFINE S == Serialised => Serial
<1>1. EInv /\ S /\ [Next]_vars => [Serialised => LegalTransition(ticket, ticket')]_vars
  <2> SUFFICES ASSUME EInv, Serial, Next PROVE LegalTransition(ticket, ticket')
    OBVIOUS
  <2>1. ASSUME NEW p \in Procs, ApplyLocal(p) PROVE LegalTransition(ticket, ticket')
    BY <2>1 DEF ApplyLocal, Serial
  <2>2. ticket' = ticket => LegalTransition(ticket, ticket')
    BY DEF LegalTransition
  <2>3. (\E p \in Procs : ApplyLocal(p)) \/ ticket' = ticket
    BY DEF Next, Run, Ask, FindEvent, InsertEvent, GetEvent, ValidateReplay, MarkRunning,
       CallService, PatchExternal, MarkCompleted, MarkFailed, ReadAttempts, ScheduleRetry,
       Crash, BackoffEnds, TakeUp
  <2> QED
    BY <2>1, <2>2, <2>3
<1>2. EInv /\ S /\ [Next]_vars => S'
  BY SerialStep, SettingStep DEF Serialised
<1>3. Init => S
  BY InitSerial
<1> QED
  BY <1>1, <1>2, <1>3, EventsInvariance, PTL DEF Spec, LegalMoves

\* If answers are not lost and nobody dies, a lone process that changed the
\* provider writes the same status to the row.
LEMMA FollowingStep ==
    ASSUME Calm, EInv, Serial, Following, [Next]_vars
    PROVE  Following'
<1> USE DEF EInv, TypeOK, Serial, Alone, Following, Resting, Goto, Return, Raise, outbox, Status
<1>0. /\ \A u \in Updates : u \in Procs
      /\ \A p \in Dispatchers \cup Admins : p \in Procs
  BY DEF Procs
<1>1. CASE UNCHANGED vars
  BY <1>1 DEF vars
<1>2. ASSUME NEW u \in Updates, NEW s \in setting.wanted, Ask(u, s) PROVE Following'
  <2>1. u \in Procs /\ \A p \in Procs : pc[p] # "apply"
    BY <1>0, <1>2 DEF Ask, MayStart, Calm, Serialised
  <2>2. PICK l \in {"event", "refused"} : pc' = [pc EXCEPT ![u] = l]
    BY <1>2 DEF Ask
  <2>3. \A p \in Procs : pc'[p] # "apply"
    BY <2>1, <2>2
  <2>4. ticket' = ticket /\ external' = external
    BY <1>2 DEF Ask
  <2> QED
    BY <2>1, <2>3, <2>4
<1>3. ASSUME NEW u \in Updates, FindEvent(u) PROVE Following'
  BY <1>0, <1>3 DEF FindEvent
<1>4. ASSUME NEW u \in Updates, InsertEvent(u) PROVE Following'
  <2>1. u \in Procs /\ pc[u] = "insert"
    BY <1>0, <1>4 DEF InsertEvent
  <2>2. \A p \in Procs : pc[p] # "apply"
    BY <2>1
  <2>3. PICK l \in {"replay", "refused", "schedule"} : pc' = [pc EXCEPT ![u] = l]
    BY <1>4 DEF InsertEvent
  <2>4. \A p \in Procs : pc'[p] # "apply"
    BY <2>1, <2>2, <2>3
  <2>5. ticket' = ticket /\ external' = external
    BY <1>4 DEF InsertEvent
  <2> QED
    BY <2>2, <2>4, <2>5
<1>5. ASSUME NEW p \in Procs, GetEvent(p) \/ ValidateReplay(p) \/ MarkRunning(p) PROVE Following'
  BY <1>5 DEF GetEvent, ValidateReplay, MarkRunning
<1>6. ASSUME NEW p \in Procs, CallService(p) PROVE Following'
  BY <1>6 DEF CallService
<1>7. ASSUME NEW p \in Procs, PatchExternal(p) PROVE Following'
  BY <1>7 DEF PatchExternal, Calm
<1>8. ASSUME NEW p \in Procs, ApplyLocal(p) PROVE Following'
  BY <1>8 DEF ApplyLocal
<1>9. ASSUME NEW p \in Procs,
             MarkCompleted(p) \/ MarkFailed(p) \/ ReadAttempts(p) \/ ScheduleRetry(p)
      PROVE Following'
  BY <1>9 DEF MarkCompleted, MarkFailed, ReadAttempts, ScheduleRetry
<1>10. ASSUME NEW p \in Procs, Crash(p) PROVE Following'
  <2>1. crashes \in 0..0 /\ crashes < 0
    BY <1>10 DEF Crash, Calm
  <2> QED
    BY <2>1
<1>11. ASSUME NEW e \in Updates, BackoffEnds(e) PROVE Following'
  BY <1>11 DEF BackoffEnds
<1>12. ASSUME NEW e \in Updates, NEW p \in Dispatchers \cup Admins, TakeUp(p, e) PROVE Following'
  <2>1. p \in Procs /\ \A q \in Procs : pc[q] # "apply"
    BY <1>0, <1>12 DEF TakeUp, MayStart, Calm, Serialised
  <2>2. pc' = [pc EXCEPT ![p] = "get"] /\ UNCHANGED <<ticket, external>>
    BY <1>12 DEF TakeUp
  <2>3. \A q \in Procs : pc'[q] # "apply"
    BY <2>1, <2>2
  <2> QED
    BY <2>1, <2>2, <2>3
<1> QED
  BY <1>1, <1>2, <1>3, <1>4, <1>5, <1>6, <1>7, <1>8, <1>9, <1>10, <1>11, <1>12 DEF Next, Run

\* Between updates that do not overlap, the platform and its provider agree.
THEOREM StaysInStep == Spec => []InStep
<1> DEFINE S == (Serialised => Serial) /\ (Calm => Following)
<1>1. Init => S
  BY InitSerial DEF Init, Following
<1>2. EInv /\ S /\ [Next]_vars => S'
  <2> SUFFICES ASSUME EInv, S, [Next]_vars PROVE S'
    OBVIOUS
  <2>1. (Serialised' <=> Serialised) /\ (Calm' <=> Calm) /\ (Calm => Serialised)
    BY SettingStep DEF Serialised, Calm
  <2>2. Serialised => Serial'
    BY SerialStep
  <2>3. Calm => Following'
    BY <2>1, FollowingStep
  <2> QED
    BY <2>1, <2>2, <2>3
<1>3. S => InStep
  BY DEF Following, InStep, Resting
<1> QED
  BY <1>1, <1>2, <1>3, EventsInvariance, PTL DEF Spec

\* What callers are told and what the two sides hold, in one statement.
THEOREM TheAnswersAreTrue == Spec => []AnswersAreTrue
  BY TypeCorrect, NoUpdateIsSwallowed, StaysInStep, PTL DEF AnswersAreTrue

=============================================================================
