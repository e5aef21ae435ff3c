--------------------------- MODULE JobQueueProofs ---------------------------
(***************************************************************************)
(* Theorems about JobQueue, for any number of jobs, workers and retries    *)
(* and any limit of each job.                                              *)
(***************************************************************************)
EXTENDS JobQueue, FiniteSetTheorems, SequenceTheorems, TLAPS

-----------------------------------------------------------------------------
(* Types, and what is in the hands of a worker or of a retry.              *)

TypeInv ==
    /\ TypeOK
    /\ \A w \in Workers : pc[w] \in Holding \cup {"claim"} => hold[w] \in Jobs
    /\ \A a \in Admins : admin[a] \in {"write", "signal"} => target[a] \in Jobs

\* Before anything happened the variables are of their types.
LEMMA TypeInit == Init => TypeInv
BY JobAssumption DEF Init, TypeInv, TypeOK, Holding, Statuses

\* Every step keeps the types, and names a job whenever one is needed.
LEMMA TypeStep == TypeInv /\ [Next]_vars => TypeInv'
<1> SUFFICES ASSUME TypeInv, [Next]_vars PROVE TypeInv'
  OBVIOUS
<1> USE JobAssumption DEF TypeInv, TypeOK, Holding, Statuses
<1>1. ASSUME NEW j \in Jobs, Push(j) PROVE signals' \in Seq(Jobs)
  <2>1. Append(signals, j) \in Seq(Jobs)
    BY AppendProperties
  <2>2. signals' = signals \/ signals' = Append(signals, j)
    BY <1>1 DEF Push
  <2> QED
    BY <2>1, <2>2
<1>2. ASSUME signals # <<>> PROVE Head(signals) \in Jobs /\ Tail(signals) \in Seq(Jobs)
  BY <1>2, HeadTailProperties
<1>3. ASSUME NEW j \in Jobs, Create(j) PROVE TypeInv'
  BY <1>3 DEF Create
<1>4. ASSUME NEW j \in Jobs, SignalCreated(j) PROVE TypeInv'
  BY <1>1, <1>4 DEF SignalCreated
<1>5. ASSUME NEW a \in Admins, NEW j \in Jobs, ReadForRetry(a, j) PROVE TypeInv'
  BY <1>5 DEF ReadForRetry
<1>6. ASSUME NEW a \in Admins, WriteRetry(a) PROVE TypeInv'
  BY <1>6 DEF WriteRetry
<1>7. ASSUME NEW a \in Admins, SignalRetried(a) PROVE TypeInv'
  BY <1>1, <1>7 DEF SignalRetried
<1>8. ASSUME NEW w \in Workers, Poll(w) PROVE TypeInv'
  BY <1>2, <1>8, ZenonT(40) DEF Poll
<1>9. ASSUME NEW w \in Workers, NEW j \in Jobs, Claim(w, j),
             UNCHANGED <<runs, owed, signals, admin, target, crashes, raced>>
      PROVE  TypeInv'
  BY <1>9 DEF Claim
<1>10. ASSUME NEW w \in Workers, ClaimSignalled(w) PROVE TypeInv'
  BY <1>9, <1>10 DEF ClaimSignalled
<1>11. ASSUME NEW w \in Workers, DiscardSignal(w) PROVE TypeInv'
  BY <1>11 DEF DiscardSignal
<1>12. ASSUME NEW w \in Workers, ScanTable(w) PROVE TypeInv'
  <2>1. ASSUME NEW j \in Jobs, Claim(w, j) PROVE TypeInv'
    BY <1>9, <1>12, <2>1 DEF ScanTable
  <2>2. CASE pc' = [pc EXCEPT ![w] = "idle"] /\ UNCHANGED <<job, attempts, hold>>
    BY <1>12, <2>2 DEF ScanTable
  <2> QED
    BY <1>12, <2>1, <2>2 DEF ScanTable
<1>13. ASSUME NEW w \in Workers, RunJob(w) PROVE TypeInv'
  <2>1. PICK next \in {"complete", "read"} : pc' = [pc EXCEPT ![w] = next]
    BY <1>13 DEF RunJob
  <2>2. PICK j \in Jobs : j = hold[w]
    BY <1>13 DEF RunJob
  <2>3. runs' = [runs EXCEPT ![j] = runs[j] + 1] /\ runs[j] + 1 \in Nat
    BY <1>13, <2>2 DEF RunJob
  <2>4. TypeOK'
    BY <1>13, <2>1, <2>3 DEF RunJob
  <2> QED
    BY <1>13, <2>1, <2>4 DEF RunJob
<1>14. ASSUME NEW w \in Workers, ReadAttempts(w) PROVE TypeInv'
  BY <1>14 DEF ReadAttempts
<1>15. ASSUME NEW w \in Workers, MarkJob(w) PROVE TypeInv'
  BY <1>15 DEF MarkJob
<1>16. ASSUME NEW w \in Workers, Crash(w) PROVE TypeInv'
  BY <1>16 DEF Crash
<1>17. ASSUME NEW w \in Workers, Restart(w) PROVE TypeInv'
  BY <1>17 DEF Restart
<1>18. CASE UNCHANGED vars
  BY <1>18 DEF vars
<1> HIDE DEF TypeInv
<1> QED
  BY <1>3, <1>4, <1>5, <1>6, <1>7, <1>8, <1>10, <1>11, <1>12, <1>13, <1>14, <1>15, <1>16,
     <1>17, <1>18 DEF Next, AdminStep, WorkerStep

\* Every variable keeps its type.
THEOREM TypeCorrect == Spec => []TypeOK
<1>1. Init => TypeInv
  BY TypeInit
<1>2. TypeInv /\ [Next]_vars => TypeInv'
  BY TypeStep
<1>3. TypeInv => TypeOK
  BY DEF TypeInv
<1> QED
  BY <1>1, <1>2, <1>3, PTL DEF Spec

-----------------------------------------------------------------------------
(* Attempts.  A worker at "start" has used an attempt for a run it is      *)
(* about to start, so runs and started attempts together stay within the   *)
(* attempts taken.                                                         *)

Starting(j) == {w \in Workers : pc[w] = "start" /\ hold[w] = j}

AttemptInv ==
    /\ \A j \in Jobs :
        /\ attempts[j] <= max_attempts[j]
        /\ runs[j] + Cardinality(Starting(j)) <= attempts[j]
        /\ job[j] = "failed" => attempts[j] = max_attempts[j]
    /\ \A w \in Workers : pc[w] = "giveup" => attempts[hold[w]] = max_attempts[hold[w]]

\* Only finitely many workers are about to start a job, and their number is
\* known when one joins them or leaves.
LEMMA StartingCounts ==
    \A j : /\ Cardinality(Starting(j)) \in Nat
           /\ \A w : /\ w \notin Starting(j) =>
                           Cardinality(Starting(j) \cup {w}) = Cardinality(Starting(j)) + 1
                     /\ w \in Starting(j) =>
                           Cardinality(Starting(j) \ {w}) = Cardinality(Starting(j)) - 1
           /\ \A S \in SUBSET Starting(j) :
                 Cardinality(S) \in Nat /\ Cardinality(S) <= Cardinality(Starting(j))
<1> TAKE j
<1>1. IsFiniteSet(Starting(j))
  BY JobAssumption, FS_Subset DEF Starting
<1>2. Cardinality(Starting(j)) \in Nat
  BY <1>1, FS_CardinalityType
<1>3. ASSUME NEW w
      PROVE  /\ w \notin Starting(j) =>
                   Cardinality(Starting(j) \cup {w}) = Cardinality(Starting(j)) + 1
             /\ w \in Starting(j) =>
                   Cardinality(Starting(j) \ {w}) = Cardinality(Starting(j)) - 1
  BY <1>1, FS_AddElement, FS_RemoveElement
<1>4. ASSUME NEW S \in SUBSET Starting(j)
      PROVE  Cardinality(S) \in Nat /\ Cardinality(S) <= Cardinality(Starting(j))
  BY <1>1, FS_CardinalityType, FS_Subset
<1> QED
  BY <1>2, <1>3, <1>4

\* Before anything happened no attempt was taken.
LEMMA AttemptInit == Init => AttemptInv
<1> SUFFICES ASSUME Init PROVE AttemptInv
  OBVIOUS
<1>1. \A j : Starting(j) = {}
  BY DEF Init, Starting
<1> QED
  <2>1. \A j : Cardinality(Starting(j)) = 0
    BY <1>1, FS_EmptySet
  <2>2. ASSUME NEW j \in Jobs
        PROVE  /\ attempts[j] <= max_attempts[j]
               /\ runs[j] + Cardinality(Starting(j)) <= attempts[j]
               /\ job[j] # "failed"
    BY <2>1, JobAssumption DEF Init
  <2> QED
    BY <2>2 DEF Init, AttemptInv

\* Every step keeps the attempts within the limit and the runs within the
\* attempts, racing retries and lost workers included.
LEMMA AttemptStep == TypeInv /\ TypeInv' /\ AttemptInv /\ [Next]_vars => AttemptInv'
<1> SUFFICES ASSUME TypeInv, TypeInv', AttemptInv, [Next]_vars PROVE AttemptInv'
  OBVIOUS
<1> USE JobAssumption DEF TypeInv, TypeOK, Holding, AttemptInv
<1> DEFINE Calm ==
      /\ UNCHANGED <<attempts, runs>>
      /\ \A j \in Jobs : Starting(j)' \subseteq Starting(j)
      /\ \A j \in Jobs : job'[j] = "failed" =>
            \/ job[j] = "failed"
            \/ \E w \in Workers : pc[w] = "giveup" /\ hold[w] = j
      /\ \A w \in Workers : pc'[w] = "giveup" =>
            \/ pc[w] = "giveup" /\ hold'[w] = hold[w]
            \/ attempts[hold'[w]] >= max_attempts[hold'[w]]
<1>1. ASSUME Calm PROVE AttemptInv'
  <2>1. ASSUME NEW j \in Jobs PROVE runs'[j] + Cardinality(Starting(j)') <= attempts'[j]
    <3>1. /\ Cardinality(Starting(j)') \in Nat /\ Cardinality(Starting(j)) \in Nat
          /\ Cardinality(Starting(j)') <= Cardinality(Starting(j))
      BY <1>1, StartingCounts
    <3> QED
      BY <1>1, <3>1
  <2>2. ASSUME NEW j \in Jobs, job'[j] = "failed" PROVE attempts'[j] = max_attempts[j]
    BY <1>1, <2>2
  <2>3. ASSUME NEW w \in Workers, pc'[w] = "giveup"
        PROVE  attempts'[hold'[w]] = max_attempts[hold'[w]]
    <3>1. hold'[w] \in Jobs
      BY <2>3
    <3>2. attempts[hold'[w]] \in Nat /\ attempts[hold'[w]] <= max_attempts[hold'[w]]
      BY <3>1
    <3>3. max_attempts[hold'[w]] \in Nat /\ attempts' = attempts
      BY <1>1, <3>1
    <3>4. CASE pc[w] = "giveup" /\ hold'[w] = hold[w]
      BY <3>3, <3>4, SMTT(30)
    <3>5. CASE attempts[hold'[w]] >= max_attempts[hold'[w]]
      BY <3>2, <3>3, <3>5
    <3> QED
      BY <1>1, <2>3, <3>4, <3>5
  <2> QED
    BY <1>1, <2>1, <2>2, <2>3
<1>2. ASSUME NEW j \in Jobs, Create(j) \/ SignalCreated(j) PROVE Calm
  BY <1>2 DEF Create, SignalCreated, Starting
<1>3. ASSUME NEW a \in Admins, (\E j \in Jobs : ReadForRetry(a, j)) \/ AdminStep(a) PROVE Calm
  BY <1>3 DEF ReadForRetry, AdminStep, WriteRetry, SignalRetried, Starting
<1>4. ASSUME NEW w \in Workers,
             Poll(w) \/ DiscardSignal(w) \/ Crash(w) \/ Restart(w)
      PROVE  Calm
  BY <1>4 DEF Poll, DiscardSignal, Crash, Restart, Starting
<1>5. ASSUME NEW w \in Workers, ReadAttempts(w) PROVE Calm
  <2>1. UNCHANGED <<attempts, runs, job, hold>>
    BY <1>5 DEF ReadAttempts
  <2>2. \A j \in Jobs : Starting(j)' \subseteq Starting(j)
    BY <1>5 DEF ReadAttempts, Starting
  <2>3. ASSUME NEW v \in Workers, pc'[v] = "giveup", pc[v] # "giveup"
        PROVE  attempts[hold'[v]] >= max_attempts[hold'[v]]
    <3>1. v = w /\ hold[w] \in Jobs /\ hold'[w] = hold[w]
      BY <1>5, <2>3 DEF ReadAttempts
    <3>2. ~(attempts[hold[w]] < max_attempts[hold[w]])
      BY <1>5, <2>3, <3>1 DEF ReadAttempts
    <3>3. attempts[hold[w]] \in Nat /\ max_attempts[hold[w]] \in Nat
      BY <3>1
    <3> QED
      BY <3>1, <3>2, <3>3
  <2> QED
    BY <2>1, <2>2, <2>3
<1>6. ASSUME NEW w \in Workers, MarkJob(w) PROVE Calm
  BY <1>6 DEF MarkJob, Starting
<1>7. ASSUME UNCHANGED vars PROVE Calm
  BY <1>7 DEF vars, Starting
<1>8. ASSUME NEW w \in Workers, NEW j \in Jobs, Claim(w, j), UNCHANGED runs,
             pc[w] \in {"claim", "scan"}
      PROVE  AttemptInv'
  <2>1. /\ Starting(j)' = Starting(j) \cup {w} /\ w \notin Starting(j)
        /\ \A k \in Jobs \ {j} : Starting(k)' = Starting(k)
    BY <1>8 DEF Claim, Starting
  <2>2. /\ Cardinality(Starting(j)) \in Nat
        /\ Cardinality(Starting(j)') = Cardinality(Starting(j)) + 1
    BY <2>1, StartingCounts
  <2>3. /\ attempts'[j] = attempts[j] + 1 /\ attempts[j] < max_attempts[j]
        /\ job'[j] = "running"
        /\ \A k \in Jobs \ {j} : attempts'[k] = attempts[k] /\ job'[k] = job[k]
    BY <1>8 DEF Claim, Claimable
  <2>4. ASSUME NEW k \in Jobs PROVE runs'[k] + Cardinality(Starting(k)') <= attempts'[k]
    <3>1. /\ runs[k] \in Nat /\ attempts[k] \in Nat /\ Cardinality(Starting(k)) \in Nat
          /\ runs'[k] = runs[k] /\ runs[k] + Cardinality(Starting(k)) <= attempts[k]
      BY <1>8, StartingCounts
    <3>2. CASE k = j
      BY <3>1, <3>2, <2>2, <2>3
    <3>3. CASE k # j
      BY <3>1, <3>3, <2>1, <2>3
    <3> QED
      BY <3>2, <3>3
  <2>5. ASSUME NEW v \in Workers, pc'[v] = "giveup"
        PROVE  attempts'[hold'[v]] = max_attempts[hold'[v]]
    <3>1. pc[v] = "giveup" /\ hold'[v] = hold[v]
      BY <1>8, <2>5 DEF Claim
    <3>2. hold[v] \in Jobs /\ attempts[hold[v]] = max_attempts[hold[v]]
      BY <3>1
    <3>3. hold[v] # j
      BY <2>3, <3>2
    <3> QED
      BY <2>3, <3>1, <3>2, <3>3
  <2>6. ASSUME NEW k \in Jobs
        PROVE  /\ attempts'[k] <= max_attempts[k]
               /\ job'[k] = "failed" => attempts'[k] = max_attempts[k]
    <3>1. CASE k = j
      BY <2>3, <3>1
    <3>2. CASE k # j
      BY <2>3, <3>2
    <3> QED
      BY <3>1, <3>2
  <2> QED
    BY <2>4, <2>5, <2>6
<1>9. ASSUME NEW w \in Workers, ClaimSignalled(w) PROVE AttemptInv'
  BY <1>8, <1>9 DEF ClaimSignalled
<1>10. ASSUME NEW w \in Workers, ScanTable(w) PROVE AttemptInv' \/ Calm
  <2>1. ASSUME NEW j \in Jobs, Claim(w, j) PROVE AttemptInv'
    BY <1>8, <1>10, <2>1 DEF ScanTable
  <2>2. CASE pc' = [pc EXCEPT ![w] = "idle"] /\ UNCHANGED <<job, attempts, hold>>
    BY <1>10, <2>2 DEF ScanTable, Starting
  <2> QED
    BY <1>10, <2>1, <2>2 DEF ScanTable
<1>11. ASSUME NEW w \in Workers, RunJob(w) PROVE AttemptInv'
  <2>0. PICK j \in Jobs : j = hold[w]
    BY <1>11 DEF RunJob
  <2>1. /\ w \in Starting(j) /\ Starting(j)' = Starting(j) \ {w}
        /\ \A k \in Jobs \ {j} : Starting(k)' = Starting(k)
    BY <1>11, <2>0 DEF RunJob, Starting
  <2>2. /\ Cardinality(Starting(j)) \in Nat
        /\ Cardinality(Starting(j)') = Cardinality(Starting(j)) - 1
    BY <2>1, StartingCounts
  <2>3. ASSUME NEW k \in Jobs PROVE runs'[k] + Cardinality(Starting(k)') <= attempts'[k]
    <3>1. /\ runs[k] \in Nat /\ attempts[k] \in Nat /\ Cardinality(Starting(k)) \in Nat
          /\ attempts'[k] = attempts[k] /\ runs[k] + Cardinality(Starting(k)) <= attempts[k]
      BY <1>11, StartingCounts DEF RunJob
    <3>2. runs'[k] = IF k = j THEN runs[k] + 1 ELSE runs[k]
      BY <1>11, <2>0 DEF RunJob
    <3>3. CASE k = j
      BY <3>1, <3>2, <3>3, <2>2
    <3>4. CASE k # j
      BY <3>1, <3>2, <3>4, <2>1
    <3> QED
      BY <3>3, <3>4
  <2>4. UNCHANGED <<attempts, job, hold>> /\ \A v \in Workers : pc'[v] = "giveup" => pc[v] = "giveup"
    BY <1>11 DEF RunJob
  <2> QED
    BY <2>3, <2>4
<1> HIDE DEF Calm, AttemptInv
<1> QED
  BY <1>1, <1>2, <1>3, <1>4, <1>5, <1>6, <1>7, <1>9, <1>10, <1>11 DEF Next, WorkerStep

AttemptsKept == TypeInv /\ AttemptInv

\* Types and attempts hold of every reachable state.
LEMMA AttemptsInvariant == Spec => []AttemptsKept
<1>1. Init => AttemptsKept
  BY TypeInit, AttemptInit DEF AttemptsKept
<1>2. AttemptsKept /\ [Next]_vars => AttemptsKept'
  BY TypeStep, AttemptStep DEF AttemptsKept
<1> QED
  BY <1>1, <1>2, PTL DEF Spec

\* No job is run more often than it was given attempts, although a retry writes
\* the row without looking at it and a crash loses the worker's memory.
THEOREM RunsAreWithinAttempts == Spec => []RunsWithinAttempts
<1>1. ASSUME AttemptsKept PROVE RunsWithinAttempts
  <2> SUFFICES ASSUME NEW j \in Jobs PROVE runs[j] <= max_attempts[j]
    BY DEF RunsWithinAttempts
  <2> QED
    BY <1>1, StartingCounts, JobAssumption DEF AttemptsKept, AttemptInv, TypeInv, TypeOK
<1> QED
  BY <1>1, AttemptsInvariant, PTL

\* A job is never given up early, so that a retry of a failed job always meets
\* one that no worker will claim again.
THEOREM GivenUpIsExhausted == Spec => []GivenUpMeansExhausted
<1>1. AttemptsKept => GivenUpMeansExhausted
  BY DEF AttemptsKept, AttemptInv, GivenUpMeansExhausted
<1> QED
  BY <1>1, AttemptsInvariant, PTL

-----------------------------------------------------------------------------
(* Ownership.  A worker's job is running as long as no retry has            *)
(* overwritten it; raced remembers the jobs for which one has.             *)

OwnerInv ==
    /\ \A w \in Workers :
        pc[w] \in Holding => job[hold[w]] = "running" \/ hold[w] \in raced
    /\ OneWorkerPerJob

\* Every step but a retry's keeps a running job with its one worker, and the
\* retry that takes a job from its worker is remembered.
LEMMA OwnerStep == TypeInv /\ OwnerInv /\ [Next]_vars => OwnerInv'
<1> SUFFICES ASSUME TypeInv, OwnerInv, [Next]_vars PROVE OwnerInv'
  OBVIOUS
<1> USE DEF TypeInv, TypeOK, Holding, OwnerInv, OneWorkerPerJob
<1>1. ASSUME NEW j \in Jobs, Create(j) \/ SignalCreated(j) PROVE OwnerInv'
  BY <1>1 DEF Create, SignalCreated
<1>2. ASSUME NEW a \in Admins, NEW j \in Jobs, ReadForRetry(a, j) PROVE OwnerInv'
  BY <1>2 DEF ReadForRetry
<1>3. ASSUME NEW a \in Admins, WriteRetry(a) PROVE OwnerInv'
  BY <1>3 DEF WriteRetry, Unclaimed, Retryable
<1>4. ASSUME NEW a \in Admins, SignalRetried(a) PROVE OwnerInv'
  BY <1>4 DEF SignalRetried
<1>5. ASSUME NEW w \in Workers, Poll(w) \/ DiscardSignal(w) \/ Crash(w) \/ Restart(w)
      PROVE  OwnerInv'
  <2>1. /\ UNCHANGED <<job, raced>> /\ pc'[w] \notin Holding
        /\ \A v \in Workers \ {w} : pc'[v] = pc[v] /\ hold'[v] = hold[v]
    BY <1>5 DEF Poll, DiscardSignal, Crash, Restart
  <2>2. ASSUME NEW v \in Workers, pc'[v] \in Holding
        PROVE  v # w /\ pc[v] \in Holding /\ hold'[v] = hold[v]
    BY <2>1, <2>2
  <2> QED
    BY <2>1, <2>2
<1>6. ASSUME NEW w \in Workers, NEW j \in Jobs, Claim(w, j), UNCHANGED raced
      PROVE  OwnerInv'
  BY <1>6 DEF Claim, Claimable
<1>7. ASSUME NEW w \in Workers, ClaimSignalled(w) PROVE OwnerInv'
  BY <1>6, <1>7 DEF ClaimSignalled
<1>8. ASSUME NEW w \in Workers, ScanTable(w) PROVE OwnerInv'
  <2>1. CASE pc' = [pc EXCEPT ![w] = "idle"] /\ UNCHANGED <<job, attempts, hold>>
    BY <1>8, <2>1 DEF ScanTable
  <2> QED
    BY <1>6, <1>8, <2>1 DEF ScanTable
<1>9. ASSUME NEW w \in Workers, RunJob(w) \/ ReadAttempts(w) PROVE OwnerInv'
  <2>1. UNCHANGED <<job, hold, raced>> /\ pc[w] \in Holding /\ \A v \in Workers \ {w} : pc'[v] = pc[v]
    BY <1>9 DEF RunJob, ReadAttempts
  <2> QED
    BY <2>1
<1>10. ASSUME NEW w \in Workers, MarkJob(w) PROVE OwnerInv'
  <2>1. /\ pc[w] \in Holding /\ pc'[w] = "idle" /\ hold[w] \in Jobs
        /\ \A v \in Workers \ {w} : pc'[v] = pc[v] /\ hold'[v] = hold[v]
        /\ \A j \in Jobs \ {hold[w]} : job'[j] = job[j]
        /\ UNCHANGED raced
    BY <1>10 DEF MarkJob
  <2>2. ASSUME NEW v \in Workers, pc'[v] \in Holding
        PROVE  /\ v # w /\ pc[v] \in Holding /\ hold'[v] = hold[v]
               /\ job'[hold[v]] = "running" \/ hold[v] \in raced
    BY <2>1, <2>2
  <2> QED
    BY <2>1, <2>2
<1>11. CASE UNCHANGED vars
  BY <1>11 DEF vars
<1> HIDE DEF OwnerInv
<1> QED
  BY <1>1, <1>2, <1>3, <1>4, <1>5, <1>7, <1>8, <1>9, <1>10, <1>11
     DEF Next, AdminStep, WorkerStep

Owned == TypeInv /\ OwnerInv

\* In every reachable state a job that no retry took away has one worker at most.
LEMMA OwnerInvariant == Spec => []Owned
<1>1. Init => Owned
  BY TypeInit DEF Owned, Init, OwnerInv, OneWorkerPerJob, Holding
<1>2. Owned /\ [Next]_vars => Owned'
  BY TypeStep, OwnerStep DEF Owned
<1> QED
  BY <1>1, <1>2, PTL DEF Spec

\* The claim is exclusive: crashes, restarts, any signals and any other retry
\* notwithstanding, two workers never work on one job unless a retry overwrote it
\* when it was claimed or done.
THEOREM ClaimsAreExclusive == Spec => []OneWorkerPerJob
<1>1. Owned => OneWorkerPerJob
  BY DEF Owned, OwnerInv
<1> QED
  BY <1>1, OwnerInvariant, PTL

\* No signal and no worker ever brings a completed job back, and no retry but one
\* that wrote on a job it had not seen claimed.
THEOREM CompletionIsFinal == Spec => CompletedIsFinal
<1> DEFINE Final ==
      \A j \in Jobs : job[j] = "completed" /\ j \notin raced' => job'[j] = "completed"
<1>1. Owned /\ [Next]_vars => [Final]_vars
  <2> SUFFICES ASSUME Owned, Next PROVE Final
    OBVIOUS
  <2> USE DEF Owned, OwnerInv, TypeInv, TypeOK, Holding
  <2>1. ASSUME NEW j \in Jobs, Create(j) \/ SignalCreated(j) PROVE Final
    BY <2>1 DEF Create, SignalCreated
  <2>2. ASSUME NEW a \in Admins, (\E j \in Jobs : ReadForRetry(a, j)) \/ AdminStep(a) PROVE Final
    BY <2>2 DEF ReadForRetry, AdminStep, WriteRetry, SignalRetried, Unclaimed,
                Retryable
  <2>3. ASSUME NEW w \in Workers, Crash(w) \/ Restart(w) \/ WorkerStep(w) PROVE Final
    BY <2>3 DEF Crash, Restart, WorkerStep, Poll, ClaimSignalled, DiscardSignal, ScanTable, Claim,
                Claimable, RunJob, ReadAttempts, MarkJob
  <2> QED
    BY <2>1, <2>2, <2>3 DEF Next
<1> QED
  BY <1>1, OwnerInvariant, PTL DEF Spec, CompletedIsFinal

\* Types and attempts, in one statement.
THEOREM JobsKeepTheirAttempts == Spec => []JobsKeepAttempts
  BY TypeCorrect, RunsAreWithinAttempts, GivenUpIsExhausted, PTL DEF JobsKeepAttempts

=============================================================================
