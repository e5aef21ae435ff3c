------------------------------ MODULE JobQueue ------------------------------
(***************************************************************************)
(* Background workflow jobs: the workflow_jobs table, the Redis list of    *)
(* job ids that only wakes workers up, the workers' loop, and the          *)
(* administrator's retry (POST /api/jobs/{id}/retry).                      *)
(*                                                                         *)
(* The table decides; a signal may be lost, duplicated or stale.  Nothing  *)
(* leases a claimed job: it stays "running" if its worker dies.            *)
(*                                                                         *)
(* A job is named by its place in the order (created_at, id).  created_at  *)
(* is taken before the row is inserted, so rows may appear in any order.   *)
(***************************************************************************)
EXTENDS Naturals, Sequences, FiniteSets

CONSTANTS
    Jobs,           \* job names, in the order of (created_at, id)
    Workers,        \* worker processes (and callers of /api/jobs/run-next)
    Admins,         \* retry requests
    max_attempts,   \* workflow_jobs.max_attempts of each job
    RedisEnabled,   \* AGENT_QUEUE_BACKEND is redis
    MaxCrashes      \* bound on worker crashes

ASSUME JobAssumption ==
    /\ Jobs \subseteq Nat \ {0}
    /\ IsFiniteSet(Workers)
    /\ max_attempts \in [Jobs -> Nat \ {0}]
    /\ RedisEnabled \in BOOLEAN
    /\ MaxCrashes \in Nat

NoJob == 0

VARIABLES
    job,       \* workflow_jobs.status
    attempts,  \* workflow_jobs.attempts
    runs,      \* workflow runs started for each job
    owed,      \* created jobs whose signal has not been pushed yet
    signals,   \* the Redis list
    pc,        \* where each worker continues
    hold,      \* the job a worker has popped or claimed
    admin,     \* where each retry continues
    target,    \* the job it retries
    crashes,
    raced      \* history: the jobs a retry queued that had left "failed" and "queued"

vars == <<job, attempts, runs, owed, signals, pc, hold, admin, target, crashes, raced>>

Statuses == {"absent", "queued", "running", "completed", "failed"}

\* The places at which a worker has claimed the job it holds.
Holding == {"start", "complete", "read", "requeue", "giveup"}

TypeOK ==
    /\ job \in [Jobs -> Statuses]
    /\ attempts \in [Jobs -> Nat] /\ runs \in [Jobs -> Nat]
    /\ owed \subseteq Jobs
    /\ signals \in Seq(Jobs)
    /\ pc \in [Workers -> {"idle", "claim", "scan", "crashed"} \cup Holding]
    /\ hold \in [Workers -> Jobs \cup {NoJob}]
    /\ admin \in [Admins -> {"idle", "write", "signal", "done"}]
    /\ target \in [Admins -> Jobs \cup {NoJob}]
    /\ crashes \in 0..MaxCrashes
    /\ raced \subseteq Jobs

Init ==
    /\ job = [j \in Jobs |-> "absent"]
    /\ attempts = [j \in Jobs |-> 0]
    /\ runs = [j \in Jobs |-> 0]
    /\ owed = {}
    /\ signals = <<>>
    /\ pc = [w \in Workers |-> "idle"]
    /\ hold = [w \in Workers |-> NoJob]
    /\ admin = [a \in Admins |-> "idle"]
    /\ target = [a \in Admins |-> NoJob]
    /\ crashes = 0
    /\ raced = {}

-----------------------------------------------------------------------------
(* Creation, retry and the signal that follows either.                     *)

\* enqueue_workflow_job: a push that fails is logged and forgotten.
Push(j) == signals' \in (IF RedisEnabled THEN {signals, Append(signals, j)} ELSE {signals})

Create(j) ==
    /\ job[j] = "absent"
    /\ job' = [job EXCEPT ![j] = "queued"]
    /\ owed' = owed \cup {j}
    /\ UNCHANGED <<attempts, runs, signals, pc, hold, admin, target, crashes, raced>>

SignalCreated(j) ==
    /\ j \in owed
    /\ Push(j)
    /\ owed' = owed \ {j}
    /\ UNCHANGED <<job, attempts, runs, pc, hold, admin, target, crashes, raced>>

Retryable == {"failed", "queued"}

Unclaimed == {j \in Jobs : job[j] \in Retryable}

\* retry_workflow_job reads the status, and returns if it is another one ...
ReadForRetry(a, j) ==
    /\ admin[a] = "idle"
    /\ j \in Unclaimed
    /\ admin' = [admin EXCEPT ![a] = "write"]
    /\ target' = [target EXCEPT ![a] = j]
    /\ UNCHANGED <<job, attempts, runs, owed, signals, pc, hold, crashes, raced>>

\* Faulty variant: a retry grants the job its attempts anew.
WriteRetryAfresh(a) ==
    /\ admin[a] = "write"
    /\ job' = [job EXCEPT ![target[a]] = "queued"]
    /\ attempts' = [attempts EXCEPT ![target[a]] = 0]
    /\ admin' = [admin EXCEPT ![a] = "signal"]
    /\ raced' = raced \cup ({target[a]} \ Unclaimed)
    /\ UNCHANGED <<runs, owed, signals, pc, hold, target, crashes>>

\* ... and writes it in another transaction, without looking at it again: it may
\* have been claimed, or even have been completed, meanwhile.
WriteRetry(a) ==
    /\ admin[a] = "write"
    /\ job' = [job EXCEPT ![target[a]] = "queued"]
    /\ admin' = [admin EXCEPT ![a] = "signal"]
    /\ raced' = raced \cup ({target[a]} \ Unclaimed)
    /\ UNCHANGED <<attempts, runs, owed, signals, pc, hold, target, crashes>>

SignalRetried(a) ==
    /\ admin[a] = "signal"
    /\ Push(target[a])
    /\ admin' = [admin EXCEPT ![a] = "done"]
    /\ UNCHANGED <<job, attempts, runs, owed, pc, hold, target, crashes, raced>>

-----------------------------------------------------------------------------
(* process_next_job                                                        *)

\* dequeue_workflow_job: the head of the list, or nothing because the list is
\* empty, Redis cannot be reached, or its answer got lost.
Poll(w) ==
    /\ pc[w] = "idle"
    /\ \/ /\ RedisEnabled /\ signals # <<>>
          /\ hold' = [hold EXCEPT ![w] = Head(signals)]
          /\ pc' = [pc EXCEPT ![w] = "claim"]
          /\ signals' = Tail(signals)
       \/ /\ pc' = [pc EXCEPT ![w] = "scan"]
          /\ signals' \in {signals} \cup (IF signals = <<>> THEN {} ELSE {Tail(signals)})
          /\ UNCHANGED hold
    /\ UNCHANGED <<job, attempts, runs, owed, admin, target, crashes, raced>>

\* Faulty variant: an interrupted job is taken over without knowing that its
\* worker is gone.
ClaimableRunning(j) == job[j] \in {"queued", "running"} /\ attempts[j] < max_attempts[j]

Claimable(j) == job[j] = "queued" /\ attempts[j] < max_attempts[j]

\* claim_job: select and update in one locking transaction.
Claim(w, j) ==
    /\ Claimable(j)
    /\ job' = [job EXCEPT ![j] = "running"]
    /\ attempts' = [attempts EXCEPT ![j] = @ + 1]
    /\ hold' = [hold EXCEPT ![w] = j]
    /\ pc' = [pc EXCEPT ![w] = "start"]

ClaimSignalled(w) ==
    /\ pc[w] = "claim"
    /\ Claim(w, hold[w])
    /\ UNCHANGED <<runs, owed, signals, admin, target, crashes, raced>>

\* A signal for a job that cannot be claimed is discarded; the table is scanned.
DiscardSignal(w) ==
    /\ pc[w] = "claim"
    /\ ~Claimable(hold[w])
    /\ pc' = [pc EXCEPT ![w] = "scan"]
    /\ hold' = [hold EXCEPT ![w] = NoJob]
    /\ UNCHANGED <<job, attempts, runs, owed, signals, admin, target, crashes, raced>>

\* Faulty variant: workers rely on the signals alone.
ScanNothing(w) ==
    /\ pc[w] = "scan"
    /\ RedisEnabled
    /\ pc' = [pc EXCEPT ![w] = "idle"]
    /\ UNCHANGED <<job, attempts, hold, runs, owed, signals, admin, target, crashes, raced>>

\* claim_next_job: the oldest job that can be claimed.
ScanTable(w) ==
    /\ pc[w] = "scan"
    /\ \/ \E j \in Jobs : Claim(w, j) /\ \A k \in Jobs : Claimable(k) => j <= k
       \/ /\ \A j \in Jobs : ~Claimable(j)
          /\ pc' = [pc EXCEPT ![w] = "idle"]
          /\ UNCHANGED <<job, attempts, hold>>
    /\ UNCHANGED <<runs, owed, signals, admin, target, crashes, raced>>

\* run_workflow returns, or it fails or raises.
RunJob(w) ==
    /\ pc[w] = "start"
    /\ runs' = [runs EXCEPT ![hold[w]] = @ + 1]
    /\ \E next \in {"complete", "read"} : pc' = [pc EXCEPT ![w] = next]
    /\ UNCHANGED <<job, attempts, owed, signals, hold, admin, target, crashes, raced>>

\* mark_job_failed reads the row to decide whether the job is queued again ...
ReadAttempts(w) ==
    /\ pc[w] = "read"
    /\ pc' = [pc EXCEPT ![w] = IF attempts[hold[w]] < max_attempts[hold[w]]
                               THEN "requeue" ELSE "giveup"]
    /\ UNCHANGED <<job, attempts, runs, owed, signals, hold, admin, target, crashes, raced>>

\* ... and it and mark_job_completed write the status without looking at it.
MarkJob(w) ==
    /\ pc[w] \in {"complete", "requeue", "giveup"}
    /\ job' = [job EXCEPT ![hold[w]] =
                  CASE pc[w] = "complete" -> "completed"
                    [] pc[w] = "requeue"  -> "queued"
                    [] pc[w] = "giveup"   -> "failed"]
    /\ pc' = [pc EXCEPT ![w] = "idle"]
    /\ hold' = [hold EXCEPT ![w] = NoJob]
    /\ UNCHANGED <<attempts, runs, owed, signals, admin, target, crashes, raced>>

\* The worker dies, or an error outside run_workflow ends its loop.
Crash(w) ==
    /\ crashes < MaxCrashes
    /\ pc[w] # "crashed"
    /\ crashes' = crashes + 1
    /\ pc' = [pc EXCEPT ![w] = "crashed"]
    /\ hold' = [hold EXCEPT ![w] = NoJob]
    /\ UNCHANGED <<job, attempts, runs, owed, signals, admin, target, raced>>

Restart(w) ==
    /\ pc[w] = "crashed"
    /\ pc' = [pc EXCEPT ![w] = "idle"]
    /\ UNCHANGED <<job, attempts, runs, owed, signals, hold, admin, target, crashes, raced>>

-----------------------------------------------------------------------------

WorkerStep(w) ==
    \/ Poll(w) \/ ClaimSignalled(w) \/ DiscardSignal(w) \/ ScanTable(w)
    \/ RunJob(w) \/ ReadAttempts(w) \/ MarkJob(w)

AdminStep(a) == WriteRetry(a) \/ SignalRetried(a)

Next ==
    \/ \E j \in Jobs : Create(j) \/ SignalCreated(j)
    \/ \E a \in Admins : (\E j \in Jobs : ReadForRetry(a, j)) \/ AdminStep(a)
    \/ \E w \in Workers : WorkerStep(w) \/ Crash(w) \/ Restart(w)

Spec == Init /\ [][Next]_vars

\* run_worker_loop never stops polling, and a handler that started runs on.
FairSpec ==
    /\ Spec
    /\ \A w \in Workers : WF_vars(WorkerStep(w))
    /\ \A a \in Admins : WF_vars(AdminStep(a))

-----------------------------------------------------------------------------
(* Properties.                                                             *)

\* However often a job is signalled, retried, or lost with its worker, no more
\* workflow runs are started for it than it was given attempts.
RunsWithinAttempts == \A j \in Jobs : runs[j] <= max_attempts[j]

\* A claimed job belongs to one worker until that worker writes its result.  Only
\* a retry that overwrote the claim (retry_workflow_job) can bring a second one.
OneWorkerPerJob ==
    \A v, w \in Workers :
        v # w /\ pc[v] \in Holding /\ pc[w] \in Holding /\ hold[v] = hold[w] =>
            hold[v] \in raced

\* A job is given up only when every attempt it had was used
\* (mark_job_failed's read and write around other workers and retries).
GivenUpMeansExhausted ==
    \A j \in Jobs : job[j] = "failed" => attempts[j] = max_attempts[j]

\* A completed job is never run again, nor reported otherwise, unless a retry
\* overwrote its claim or its completion.
CompletedIsFinal ==
    [][\A j \in Jobs : job[j] = "completed" /\ j \notin raced' => job'[j] = "completed"]_vars

\* The worker that ran the job is gone, and no code notices: the job is running
\* for ever, or a retry queued it when its last attempt was under way.
Interrupted(j) ==
    /\ job[j] = "running" \/ (job[j] = "queued" /\ ~Claimable(j))
    /\ \A w \in Workers : pc[w] \in Holding => hold[w] # j

\* A queued job with attempts left ends unless its worker dies: lost, duplicate
\* and stale signals, older jobs and retries only delay it.
EveryJobEnds ==
    \A j \in Jobs :
        Claimable(j) ~> (job[j] \in {"completed", "failed"} \/ Interrupted(j))

\* Whatever is lost, retried or crashed, a job gets the attempts it was given:
\* no more runs than these, and no giving up before they are used.
JobsKeepAttempts == TypeOK /\ RunsWithinAttempts /\ GivenUpMeansExhausted

=============================================================================
