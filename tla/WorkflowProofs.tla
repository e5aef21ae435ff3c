--------------------------- MODULE WorkflowProofs ---------------------------
(***************************************************************************)
(* Proofs about the two modules that follow a workflow run.                *)
(*                                                                         *)
(* WorkflowRun sees it from inside, for any number of runs and reviewers,  *)
(* any request, and any number of failing calls and lost workers.          *)
(*                                                                         *)
(* CorrectionLoop sees it from the graph that repeats it, for any number   *)
(* of manual updates and any judgement of the critic's review.  Neither of *)
(* its properties is inductive.  OnlyLastPassTouches needs that the        *)
(* critic's report remembers what touched counts (Guarded).                *)
(* CompletedAsDecided needs what a pass knows at every node of the gate's  *)
(* verdict, its steps and its workflow run (Pass), and that a passing      *)
(* report says so of the pass it was written for (Passed).                 *)
(***************************************************************************)
EXTENDS WorkflowRun, CorrectionLoop, WellFoundedInduction, TLAPS

-----------------------------------------------------------------------------
(* What a worker holds, and where it goes.                                 *)

Places == {"idle"} \cup Steps \cup Silent \cup Ends

WorkerRec ==
    [run : Runs \cup {NoRun}, at : Places, phase : Phases, tries : 0..MaxAttempts,
     result : Results, number : Nat, verdict : RunStatuses, seen : Departments]

RunRec == [status : RunStatuses, plan : Plans \cup {NoPlan}, known : BOOLEAN,
    attached : BOOLEAN]

StepRows == [step : Steps, number : Nat \ {0}, ok : BOOLEAN]

\* Steps are numbered with naturals, of which every run has used up to some.
Numbered ==
    /\ steps \in [Runs -> Seq(StepRows)]
    /\ \A r \in Runs : \E n \in Nat : \A i \in DOMAIN steps[r] : steps[r][i].number <= n

\* A worker that is about to insert a row has a number for it.
Ready(rec) == rec.phase = "insert" => rec.number # 0

TypeInv == TypeOKWorkflow /\ Numbered /\ \A w \in Workers : Ready(worker[w])

\* The part of a run that creates its ticket and sends its mail, in the run's own
\* worker or in that of the reviewer who approved it.
Carrying == {"ticket", "attach", "notify", "sync", "draft", "send", "finalize"}

Judged == {"approved", "denied"}

\* A run's worker that has asked for approval has nothing left to do but to park.
Parked(r) ==
    \/ worker[r].at = "approval" /\ worker[r].phase \in {"number", "insert"}
    \/ worker[r].at \in {"settle", "report"} /\ worker[r].verdict = "waiting_approval"
    \/ worker[r].at \in Ends

OwnRole(r) ==
    /\ worker[r].at = "idle" => worker[r].run = NoRun
    /\ worker[r].at # "idle" => worker[r].run = r
    /\ worker[r].at # "denied"
    /\ worker[r].at \in {"settle", "report"} =>
          worker[r].verdict \in {"waiting_approval", "completed", "failed", "refused"}
    /\ approvals[r] # "none" => Parked(r)

ReviewerRole(v) ==
    /\ worker[v].run = NoRun => worker[v].at \in {"idle", "done"}
    /\ worker[v].run # NoRun =>
        \/ /\ approvals[worker[v].run] = "approved"
           /\ worker[v].at \in Carrying \cup {"settle"} \cup Ends
           /\ worker[v].at = "settle" => worker[v].verdict \in {"completed", "failed"}
        \/ /\ approvals[worker[v].run] = "denied"
           /\ worker[v].at \in {"denied", "settle"} \cup Ends
           /\ worker[v].at = "settle" => worker[v].verdict = "cancelled"

\* Who works on which run, and on which part of it.
Roles ==
    /\ \A r \in Runs : OwnRole(r)
    /\ \A v \in Reviewers : ReviewerRole(v)
    /\ \A u, v \in Reviewers : worker[u].run = worker[v].run /\ worker[u].run # NoRun => u = v

Base == TypeInv /\ Roles

\* The one thing a step does to the workers: w goes on as new.
Becomes(w, new) ==
    /\ new \in WorkerRec /\ Ready(new)
    /\ worker' = [worker EXCEPT ![w] = new]

Stays(w, new) ==
    /\ new.run = worker[w].run /\ new.at = worker[w].at /\ new.verdict = worker[w].verdict

Goes(w, new, place) ==
    /\ new.run = worker[w].run /\ new.at = place /\ new.verdict = worker[w].verdict
    /\ new.phase = FirstPhase(place)

LEMMA WorkersTyped == TypeInv => worker \in [Workers -> WorkerRec]
BY DEF TypeInv, TypeOKWorkflow, WorkerRec, Places

\* A worker that is somewhere in a run works on that run.
LEMMA AtWorkOnARun ==
    ASSUME Base, NEW w \in Workers, worker[w].at \notin {"idle", "done"}
    PROVE  /\ worker[w].run \in Runs
           /\ w \in Runs => worker[w].run = w
<1>1. worker[w].run \in Runs \cup {NoRun}
  BY WorkersTyped DEF Base, WorkerRec
<1> QED
  BY <1>1 DEF Base, Roles, OwnRole, ReviewerRole, Workers

LEMMA AtFields ==
    ASSUME NEW w \in Workers, worker[w] \in WorkerRec, NEW place \in Places
    PROVE  /\ At(w, place) \in WorkerRec
           /\ Goes(w, At(w, place), place)
           /\ At(w, place).number = worker[w].number
           /\ At(w, place).seen = worker[w].seen
<1>1. FirstPhase(place) \in Phases
  BY DEF FirstPhase, Phases
<1>2. 0 \in 0..MaxAttempts
  BY WorkflowAssumption
<1>3. "none" \in Results
  BY DEF Results
<1> HIDE DEF FirstPhase, Phases, Results
<1> QED
  BY <1>1, <1>2, <1>3 DEF At, Goes, WorkerRec

LEMMA EndingFields ==
    ASSUME NEW w \in Workers, worker[w] \in WorkerRec, NEW verdict \in RunStatuses
    PROVE  /\ Ending(w, verdict) \in WorkerRec
           /\ Ending(w, verdict).run = worker[w].run
           /\ Ending(w, verdict).at = "settle"
           /\ Ending(w, verdict).phase = "call"
           /\ Ending(w, verdict).verdict = verdict
           /\ Ending(w, verdict).number = worker[w].number
           /\ Ending(w, verdict).seen = worker[w].seen
<1>1. "settle" \in Places
  BY DEF Places, Silent
<1>2. At(w, "settle") \in WorkerRec /\ Goes(w, At(w, "settle"), "settle")
      /\ At(w, "settle").number = worker[w].number /\ At(w, "settle").seen = worker[w].seen
  BY <1>1, AtFields
<1> HIDE DEF At
<1> QED
  BY <1>2 DEF Ending, Goes, FirstPhase, WorkerRec
EndsAs(new, verdict) == new.at = "settle" /\ new.verdict = verdict

\* Where the row of a step takes the worker.
LeadsBefore(w, new) ==
    LET step == worker[w].at
        wrong == worker[w].result = "error"
        acting == IF PlanOf(w).approval THEN "approval" ELSE "ticket"
    IN /\ step = "guard" => IF Input.safe THEN new.at = "plan" ELSE EndsAs(new, "refused")
       /\ step = "plan" => new.at = IF wrong THEN "raised" ELSE "classify"
       /\ step = "interpret" => new.at = "begin"
       /\ step = "query" => EndsAs(new, IF wrong THEN "failed" ELSE "completed")
       /\ step = "update" =>
             \E verdict \in {"failed", "refused", "completed"} : EndsAs(new, verdict)
       /\ step = "rag" => new.at = "policy"
       /\ step = "policy" => new.at = IF PlanOf(w).category \in CustomerFacing THEN "customer" ELSE acting
       /\ step = "customer" => new.at = acting
       /\ step = "approval" => IF wrong THEN new.at = "raised"
                               ELSE EndsAs(new, "waiting_approval")
       /\ step = "denied" => EndsAs(new, "cancelled")

LeadsAfter(w, new) ==
    LET step == worker[w].at
        wrong == worker[w].result = "error"
    IN /\ step = "ticket" => IF wrong THEN EndsAs(new, "failed") ELSE new.at = "attach"
       /\ step = "notify" => new.at = "sync"
       /\ step = "sync" => new.at = IF Mails(w) THEN "draft" ELSE "finalize"
       /\ step = "draft" => new.at = "send"
       /\ step = "send" => IF wrong THEN EndsAs(new, "failed") ELSE new.at = "finalize"
       /\ step = "finalize" => EndsAs(new, IF wrong THEN "failed" ELSE "completed")

LEMMA AfterFields ==
    ASSUME TypeInv, NEW w \in Workers, worker[w].at \in Steps
    PROVE  /\ After(w) \in WorkerRec
           /\ After(w).run = worker[w].run
           /\ After(w).phase = FirstPhase(After(w).at)
           /\ After(w).seen = worker[w].seen
           /\ LeadsBefore(w, After(w)) /\ LeadsAfter(w, After(w))
<1> DEFINE Kept(new) == /\ new \in WorkerRec /\ new.run = worker[w].run
                        /\ new.phase = FirstPhase(new.at) /\ new.seen = worker[w].seen
           Good(new) == Kept(new) /\ LeadsBefore(w, new) /\ LeadsAfter(w, new)
<1>0. worker[w] \in WorkerRec
  BY WorkersTyped
<1>1. ASSUME NEW place \in Places PROVE Kept(At(w, place)) /\ At(w, place).at = place
  BY <1>0, <1>1, AtFields DEF Goes
<1>2. ASSUME NEW verdict \in RunStatuses
      PROVE  Kept(Ending(w, verdict)) /\ EndsAs(Ending(w, verdict), verdict)
  BY <1>0, <1>2, EndingFields DEF FirstPhase, EndsAs
<1>3. \A place \in {"plan", "begin", "classify", "raised", "policy", "customer", "approval",
          "ticket", "attach", "sync", "send", "draft", "finalize"} :
        Kept(At(w, place)) /\ At(w, place).at = place
  BY <1>1 DEF Places, Steps, Silent, Ends
<1>4. \A verdict \in {"refused", "failed", "completed", "waiting_approval", "cancelled"} :
        Kept(Ending(w, verdict)) /\ EndsAs(Ending(w, verdict), verdict)
  BY <1>2 DEF RunStatuses
<1> HIDE DEF Kept
<1> SUFFICES Good(After(w))
  BY DEF Kept
<1> DEFINE step == worker[w].at
           wrong == worker[w].result = "error"
<1>5. CASE wrong /\ step \in Raising
  <2>1. After(w) = At(w, "raised")
    BY <1>5 DEF After
  <2> QED
    BY <1>3, <1>5, <2>1 DEF Raising, LeadsBefore, LeadsAfter
<1>6. CASE wrong /\ step \in Failing
  <2>1. After(w) = Ending(w, "failed")
    BY <1>6 DEF After, Raising, Failing
  <2> QED
    BY <1>4, <1>6, <2>1 DEF Failing, LeadsBefore, LeadsAfter
<1>7. CASE ~(wrong /\ step \in Raising \cup Failing)
  <2>1. After(w) = Onward(w)
    BY <1>7 DEF After
  <2>2. CASE step \in {"guard", "interpret", "query", "update"}
    <3>1. After(w) = OnwardToCommand(w)
      BY <2>1, <2>2 DEF Onward
    <3>2. CASE step = "guard"
      BY <1>3, <1>4, <3>1, <3>2 DEF OnwardToCommand, LeadsBefore, LeadsAfter
    <3>3. CASE step = "interpret"
      BY <1>3, <3>1, <3>3 DEF OnwardToCommand, LeadsBefore, LeadsAfter
    <3>4. CASE step = "query"
      BY <1>4, <1>7, <3>1, <3>4 DEF OnwardToCommand, Failing, LeadsBefore, LeadsAfter
    <3>5. CASE step = "update"
      BY <1>4, <3>1, <3>5 DEF OnwardToCommand, LeadsBefore, LeadsAfter
    <3> QED
      BY <2>2, <3>2, <3>3, <3>4, <3>5
  <2>3. CASE step \in {"plan", "rag", "policy", "customer", "approval", "denied"}
    <3>1. After(w) = OnwardToTicket(w)
      BY <2>1, <2>3 DEF Onward
    <3>2. CASE step = "plan"
      BY <1>3, <1>7, <3>1, <3>2 DEF OnwardToTicket, Raising, LeadsBefore, LeadsAfter
    <3>3. CASE step = "rag"
      BY <1>3, <3>1, <3>3 DEF OnwardToTicket, LeadsBefore, LeadsAfter
    <3>4. CASE step = "policy"
      BY <1>3, <3>1, <3>4 DEF OnwardToTicket, Acting, LeadsBefore, LeadsAfter
    <3>5. CASE step = "customer"
      BY <1>3, <3>1, <3>5 DEF OnwardToTicket, Acting, LeadsBefore, LeadsAfter
    <3>6. CASE step = "approval"
      BY <1>4, <1>7, <3>1, <3>6 DEF OnwardToTicket, Raising, LeadsBefore, LeadsAfter
    <3>7. CASE step = "denied"
      BY <1>4, <3>1, <3>7 DEF OnwardToTicket, LeadsBefore, LeadsAfter
    <3> QED
      BY <2>3, <3>2, <3>3, <3>4, <3>5, <3>6, <3>7
  <2>4. CASE step \in {"ticket", "notify", "sync", "draft", "send", "finalize"}
    <3>1. After(w) = OnwardFromTicket(w)
      BY <2>1, <2>4 DEF Onward
    <3>2. CASE step = "ticket"
      BY <1>3, <1>7, <3>1, <3>2 DEF OnwardFromTicket, Failing, LeadsBefore, LeadsAfter
    <3>3. CASE step = "notify"
      BY <1>3, <3>1, <3>3 DEF OnwardFromTicket, LeadsBefore, LeadsAfter
    <3>4. CASE step = "sync"
      BY <1>3, <3>1, <3>4 DEF OnwardFromTicket, Replying, LeadsBefore, LeadsAfter
    <3>5. CASE step = "draft"
      BY <1>3, <3>1, <3>5 DEF OnwardFromTicket, LeadsBefore, LeadsAfter
    <3>6. CASE step = "send"
      BY <1>3, <1>7, <3>1, <3>6 DEF OnwardFromTicket, Failing, LeadsBefore, LeadsAfter
    <3>7. CASE step = "finalize"
      BY <1>4, <1>7, <3>1, <3>7 DEF OnwardFromTicket, Failing, LeadsBefore, LeadsAfter
    <3> QED
      BY <2>4, <3>2, <3>3, <3>4, <3>5, <3>6, <3>7
  <2> QED
    BY <2>2, <2>3, <2>4 DEF Steps
<1> QED
  BY <1>5, <1>6, <1>7


-----------------------------------------------------------------------------
(* What each step does to its worker.                                      *)

LEMMA ReadDeskShape ==
    ASSUME Base, NEW w \in Workers, ReadDesk(w)
    PROVE  \E new : /\ Becomes(w, new) /\ Stays(w, new)
                    /\ new.phase = "call" /\ new.seen = desk /\ new.result = worker[w].result
<1>1. worker[w] \in WorkerRec /\ desk \in Departments /\ worker \in [Workers -> WorkerRec]
  BY WorkersTyped DEF Base, TypeInv, TypeOKWorkflow
<1> DEFINE new == [worker[w] EXCEPT !.phase = "call", !.seen = desk]
<1>2. worker' = [worker EXCEPT ![w] = new]
  BY <1>1 DEF ReadDesk
<1>3. /\ new \in WorkerRec /\ Stays(w, new)
      /\ new.phase = "call" /\ new.seen = desk /\ new.result = worker[w].result
  BY <1>1 DEF WorkerRec, Stays, Phases
<1> HIDE DEF new
<1> QED
  BY <1>2, <1>3 DEF Becomes, Ready

\* A tool that answered.
LEMMA CallShape ==
    ASSUME Base, NEW w \in Workers, CallTool(w)
    PROVE  \E new : /\ Becomes(w, new) /\ Stays(w, new)
                    /\ new.phase = "number" /\ new.result \in {"ok", "permission_denied"}
                    /\ new.seen = worker[w].seen
<1>1. worker[w] \in WorkerRec /\ worker \in [Workers -> WorkerRec]
  BY WorkersTyped DEF Base
<1> DEFINE new == [worker[w] EXCEPT !.phase = "number", !.result = Answer(w)]
<1>2. worker' = [worker EXCEPT ![w] = new]
  BY <1>1 DEF CallTool
<1>3. Answer(w) \in {"ok", "permission_denied"}
  BY DEF Answer
<1>4. /\ new \in WorkerRec /\ Stays(w, new) /\ new.phase = "number" /\ new.result = Answer(w)
      /\ new.seen = worker[w].seen
  BY <1>1, <1>3 DEF WorkerRec, Stays, Phases, Results
<1> HIDE DEF new
<1> QED
  BY <1>2, <1>3, <1>4 DEF Becomes, Ready

\* A tool that raised is called again, or its error is the step's result.
LEMMA AgainShape ==
    ASSUME Base, NEW w \in Workers, worker[w].at \in Steps, AttemptAgain(w)
    PROVE  \E new : /\ Becomes(w, new) /\ Stays(w, new) /\ new.seen = worker[w].seen
                    /\ \/ /\ worker[w].at \in Retried
                          /\ new.phase = FirstPhase(worker[w].at)
                          /\ new.result = worker[w].result
                       \/ new.phase = "number" /\ new.result = "error"
<1>1. worker[w] \in WorkerRec /\ worker \in [Workers -> WorkerRec]
  BY WorkersTyped DEF Base
<1>2. CASE worker[w].tries + 1 < Attempts(worker[w].at)
  <2> DEFINE new == [worker[w] EXCEPT !.tries = worker[w].tries + 1,
                                      !.phase = FirstPhase(worker[w].at)]
             old == [worker[w] EXCEPT !.phase = "number", !.result = "error"]
  <2>0. worker' = [worker EXCEPT ![w] =
                      IF worker[w].tries + 1 < Attempts(worker[w].at) THEN new ELSE old]
    BY DEF AttemptAgain
  <2>1. worker' = [worker EXCEPT ![w] = new]
    <3> HIDE DEF new, old
    <3> QED
      BY <1>2, <2>0
  <2>2. worker[w].at \in Retried /\ worker[w].tries + 1 \in 0..MaxAttempts
    BY <1>1, <1>2, WorkflowAssumption DEF Attempts, WorkerRec
  <2>3. FirstPhase(worker[w].at) \in Phases
    BY DEF FirstPhase, Phases
  <2>4. /\ new \in WorkerRec /\ Stays(w, new) /\ new.seen = worker[w].seen
        /\ new.phase = FirstPhase(worker[w].at) /\ new.result = worker[w].result
    BY <1>1, <2>2, <2>3 DEF WorkerRec, Stays
  <2> HIDE DEF new
  <2> QED
    BY <2>1, <2>2, <2>4 DEF Becomes, Ready, FirstPhase
<1>3. CASE ~(worker[w].tries + 1 < Attempts(worker[w].at))
  <2> DEFINE new == [worker[w] EXCEPT !.phase = "number", !.result = "error"]
  <2>1. worker' = [worker EXCEPT ![w] = new]
    BY <1>1, <1>3 DEF AttemptAgain
  <2>2. /\ new \in WorkerRec /\ Stays(w, new) /\ new.seen = worker[w].seen
        /\ new.phase = "number" /\ new.result = "error"
    BY <1>1 DEF WorkerRec, Stays, Phases, Results
  <2> HIDE DEF new
  <2> QED
    BY <2>1, <2>2 DEF Becomes, Ready
<1> QED
  BY <1>2, <1>3

\* A run that has steps has a last one.
LEMMA LastNumberIsOne ==
    ASSUME Base, NEW r \in Runs
    PROVE  /\ LastNumber(r) \in Nat
           /\ \A i \in DOMAIN steps[r] : steps[r][i].number <= LastNumber(r)
           /\ steps[r] # <<>> => \E i \in DOMAIN steps[r] : LastNumber(r) = steps[r][i].number
<1>1. steps[r] \in Seq(StepRows)
  BY DEF Base, TypeInv, Numbered
<1>2. PICK B \in Nat : \A i \in DOMAIN steps[r] : steps[r][i].number <= B
  BY DEF Base, TypeInv, Numbered
<1>3. CASE steps[r] = <<>>
  BY <1>3 DEF LastNumber
<1>4. CASE steps[r] # <<>>
  <2> DEFINE Numbers == {steps[r][i].number : i \in DOMAIN steps[r]}
             Gaps == {B - n : n \in Numbers}
  <2>0. \A i \in DOMAIN steps[r] : steps[r][i] \in StepRows
    BY <1>1
  <2>1. \A i \in DOMAIN steps[r] : steps[r][i].number \in Nat
    BY <2>0 DEF StepRows
  <2>a. 1 \in DOMAIN steps[r]
    BY <1>1, <1>4
  <2>2. Numbers \subseteq Nat /\ Numbers # {} /\ \A n \in Numbers : n <= B
    BY <1>2, <2>1, <2>a
  <2>3. Gaps \subseteq Nat /\ Gaps # {}
    <3> HIDE DEF Numbers
    <3>1. ASSUME NEW n \in Numbers PROVE B - n \in Nat
      BY <2>2
    <3> QED
      BY <2>2, <3>1
  <2>4. PICK g \in Gaps : \A h \in Gaps : ~(<<h, g>> \in OpToRel(<, Nat))
    BY <2>3, NatLessThanWellFounded, WFMin
  <2>5. \A h \in Gaps : ~(h < g)
    BY <2>3, <2>4 DEF OpToRel
  <2>6. \E n \in Numbers : \A m \in Numbers : m <= n
    <3> HIDE DEF Numbers
    <3>1. PICK n \in Numbers : g = B - n
      OBVIOUS
    <3>2. ASSUME NEW m \in Numbers PROVE m <= n
      <4>1. ~(B - m < B - n)
        BY <2>5, <3>1
      <4> QED
        BY <2>2, <4>1
    <3> QED
      BY <3>2
  <2>7. LastNumber(r) = CHOOSE n \in Numbers : \A i \in DOMAIN steps[r] : steps[r][i].number <= n
    BY <1>4 DEF LastNumber
  <2>8. \E n \in Numbers : \A i \in DOMAIN steps[r] : steps[r][i].number <= n
    BY <2>6
  <2>9. /\ LastNumber(r) \in Numbers
        /\ \A i \in DOMAIN steps[r] : steps[r][i].number <= LastNumber(r)
    <3> HIDE DEF Numbers
    <3> QED
      BY <2>7, <2>8
  <2> QED
    BY <2>2, <2>9
<1> QED
  BY <1>3, <1>4


LEMMA ReadNumberShape ==
    ASSUME Base, NEW w \in Workers, ReadNumber(w)
    PROVE  \E new : /\ Becomes(w, new) /\ Stays(w, new)
                    /\ new.phase = "insert" /\ new.number = LastNumber(worker[w].run) + 1
                    /\ new.number \in Nat \ {0}
                    /\ new.result = worker[w].result /\ new.seen = worker[w].seen
<1>1. worker[w] \in WorkerRec /\ worker \in [Workers -> WorkerRec]
  BY WorkersTyped DEF Base
<1>2. worker[w].run \in Runs
  BY AtWorkOnARun DEF ReadNumber, InPhase, Steps
<1>3. LastNumber(worker[w].run) + 1 \in Nat \ {0}
  BY <1>2, LastNumberIsOne
<1> DEFINE new == [worker[w] EXCEPT !.number = LastNumber(worker[w].run) + 1,
        !.phase = "insert"]
<1>4. worker' = [worker EXCEPT ![w] = new]
  BY <1>1 DEF ReadNumber, RunOf
<1>5. /\ new \in WorkerRec /\ Stays(w, new)
      /\ new.phase = "insert" /\ new.number = LastNumber(worker[w].run) + 1
      /\ new.result = worker[w].result /\ new.seen = worker[w].seen
  BY <1>1, <1>3 DEF WorkerRec, Stays, Phases
<1> HIDE DEF new
<1> QED
  BY <1>3, <1>4, <1>5 DEF Becomes, Ready

LEMMA InsertShape ==
    ASSUME Base, NEW w \in Workers, InsertStep(w)
    PROVE  \E new : /\ Becomes(w, new)
                    /\ new.run = worker[w].run /\ new.phase = FirstPhase(new.at)
                    /\ LeadsBefore(w, new) /\ LeadsAfter(w, new)
<1>1. worker[w].at \in Steps /\ worker' = [worker EXCEPT ![w] = After(w)]
  BY DEF InsertStep, InPhase
<1> QED
  BY <1>1, AfterFields DEF Becomes, Base, Ready, FirstPhase

\* A worker that goes on without a step.
LEMMA GotoShape ==
    ASSUME Base, NEW w \in Workers, NEW place \in Places, Goto(w, place)
    PROVE  \E new : Becomes(w, new) /\ Goes(w, new, place)
<1>1. worker[w] \in WorkerRec
  BY WorkersTyped DEF Base
<1>2. At(w, place) \in WorkerRec /\ Goes(w, At(w, place), place)
  BY <1>1, AtFields
<1>3. worker' = [worker EXCEPT ![w] = At(w, place)]
  BY DEF Goto
<1>4. Ready(At(w, place))
  BY <1>2 DEF Goes, Ready, FirstPhase
<1> QED
  BY <1>2, <1>3, <1>4 DEF Becomes

LEMMA StartShape ==
    ASSUME Base, NEW r \in Runs, Start(r)
    PROVE  \E new : /\ Becomes(r, new)
                    /\ new.run = r /\ new.at = "guard" /\ new.phase = "call"
<1>1. worker[r] \in WorkerRec /\ r \in Workers /\ "guard" \in Places
  BY WorkersTyped DEF Base, Workers, Places, Steps
<1>2. At(r, "guard") \in WorkerRec /\ Goes(r, At(r, "guard"), "guard")
  BY <1>1, AtFields
<1> DEFINE new == [At(r, "guard") EXCEPT !.run = r]
<1>3. worker' = [worker EXCEPT ![r] = new]
  BY DEF Start
<1> HIDE DEF At
<1>4. new \in WorkerRec /\ new.run = r /\ new.at = "guard" /\ new.phase = "call"
  BY <1>2 DEF WorkerRec, Goes, FirstPhase
<1> HIDE DEF new
<1> QED
  BY <1>3, <1>4 DEF Becomes, Ready

\* A reviewer who is the first to decide, and one who is not.
LEMMA DecideShape ==
    ASSUME Base, NEW v \in Reviewers, NEW r \in Runs, NEW approved \in BOOLEAN,
        Decide(v, r, approved)
    PROVE  \E new :
             /\ Becomes(v, new)
             /\ \/ /\ approvals[r] = "pending"
                   /\ approvals' = [approvals EXCEPT ![r] = IF approved THEN "approved" ELSE "denied"]
                   /\ new.run = r /\ new.at = (IF approved THEN "ticket" ELSE "denied")
                   /\ new.phase = "call"
                \/ /\ approvals[r] # "pending" /\ UNCHANGED approvals
                   /\ new.run = worker[v].run /\ new.at = "done"
<1>1. worker[v] \in WorkerRec /\ v \in Workers
  BY WorkersTyped DEF Base, Workers
<1> DEFINE place == IF approved THEN "ticket" ELSE "denied"
<1>2. place \in Places /\ "done" \in Places /\ FirstPhase(place) = "call"
  BY DEF Places, Steps, Ends, FirstPhase
<1>3. /\ At(v, place) \in WorkerRec /\ Goes(v, At(v, place), place)
      /\ At(v, "done") \in WorkerRec /\ Goes(v, At(v, "done"), "done")
  BY <1>1, <1>2, AtFields
<1>4. CASE approvals[r] = "pending"
  <2> DEFINE new == [At(v, place) EXCEPT !.run = r]
  <2>1. /\ worker' = [worker EXCEPT ![v] = new]
        /\ approvals' = [approvals EXCEPT ![r] = IF approved THEN "approved" ELSE "denied"]
    BY <1>4 DEF Decide
  <2> HIDE DEF At, place
  <2>2. new \in WorkerRec /\ new.run = r /\ new.at = place /\ new.phase = "call"
    BY <1>2, <1>3 DEF WorkerRec, Goes
  <2> HIDE DEF new
  <2> QED
    BY <1>4, <2>1, <2>2 DEF Becomes, Ready, place
<1>5. CASE approvals[r] # "pending"
  BY <1>3, <1>5 DEF Decide, Goto, Becomes, Goes, Ready, FirstPhase
<1> QED
  BY <1>4, <1>5

\* What is given never changes.
LEMMA Given == ASSUME [Next]_vars PROVE setting' = setting
BY DEF Next, Start, MoveTicket, Work, FailCall, Crash, Decide, Reassign, ReadDesk, CallTool,
   RefuseMove, ReadNumber, InsertStep, Classify, Begin, Attach, Settle, Report, limits, vars


-----------------------------------------------------------------------------
(* The types.                                                              *)

LEMMA InputTyped == ASSUME Base PROVE Input \in Inputs
<1>1. setting \in Settings
  BY DEF Base, TypeInv, TypeOKWorkflow
<1> QED
  BY <1>1, WorkflowAssumption DEF Circumstances, Input

\* What the planner hands to a run is a plan.
LEMMA PlanIsPlan ==
    ASSUME NEW category \in Categories, NEW amount \in Nat \cup {NoAmount},
        NEW recipient \in BOOLEAN
    PROVE  PlanFor(category, amount, recipient) \in Plans
<1>1. Risk(category, amount) \in {"low", "medium", "high"}
  BY DEF Risk
<1>2. NeedsApproval(category, amount, recipient) \in BOOLEAN
  BY DEF NeedsApproval
<1>3. FinalStatus(category, amount, recipient) \in {"investigating", "approved", "open",
          "waiting_customer"}
  BY DEF FinalStatus, Categories
<1> QED
  BY <1>1, <1>2, <1>3 DEF PlanFor, Plans

LEMMA EscalatedIsPlan ==
    ASSUME NEW plan \in Plans, NEW consensus \in Consensus
    PROVE  Escalate(plan, consensus) \in Plans
<1> DEFINE risk == IF Rank[consensus.risk] > Rank[plan.risk] THEN consensus.risk ELSE plan.risk
           approval == plan.approval \/ consensus.approval
<1>1. risk \in {"low", "medium", "high"} /\ approval \in BOOLEAN
  BY DEF Plans, Consensus
<1>2. Escalate(plan, consensus) = [plan EXCEPT !.risk = risk, !.approval = approval]
  BY DEF Escalate
<1> HIDE DEF risk, approval
<1> QED
  BY <1>1, <1>2 DEF Plans

LEMMA PlanGivenTyped == ASSUME Base PROVE PlanGiven \in Plans \cup {NoPlan}
<1>1. /\ Input.text \in Readings /\ Input.model \in Suggestions /\ Input.consensus \in Consensus
  BY InputTyped DEF Inputs
<1>2. PlanWorkflow(Input.text, Input.model) \in Plans
  <2> DEFINE c == IF Input.model.category = Unusable THEN Input.text.category ELSE Input.model.category
             a == IF Input.model.amount = NoAmount THEN Input.text.amount ELSE Input.model.amount
             e == Input.model.recipient \/ Input.text.recipient
  <2>1. /\ Input.text.category \in Categories /\ Input.text.amount \in Nat \cup {NoAmount}
        /\ Input.text.recipient \in BOOLEAN
    BY <1>1 DEF Readings
  <2>2. c \in Categories /\ a \in Nat \cup {NoAmount} /\ e \in BOOLEAN
    BY <1>1, <2>1 DEF Suggestions
  <2>3. PlanFor(c, a, e) \in Plans
            /\ PlanFor(Input.text.category, Input.text.amount, Input.text.recipient) \in Plans
    <3> HIDE DEF c, a, e
    <3> QED
      BY <2>1, <2>2, PlanIsPlan
  <2> QED
    BY <2>3 DEF PlanWorkflow
<1> QED
  BY <1>1, <1>2, EscalatedIsPlan DEF PlanGiven

LEMMA EffectTyped ==
    ASSUME Base, NEW w \in Workers, worker[w].at \in Steps, Effect(w)
    PROVE  /\ approvals' \in [Runs -> {"none", "pending", "approved", "denied"}]
           /\ tickets' \in [Runs -> TicketStatuses \cup {NoTicket}]
           /\ created' \in [Runs -> Nat] /\ mailed' \in [Runs -> Nat]
           /\ changes' \subseteq [by : {"all", "nothing"} \cup Departments,
                  department : Departments]
<1> DEFINE r == worker[w].run
<1>1. r \in Runs
  BY AtWorkOnARun DEF Steps
<1>2. /\ approvals \in [Runs -> {"none", "pending", "approved", "denied"}]
      /\ tickets \in [Runs -> TicketStatuses \cup {NoTicket}]
      /\ created \in [Runs -> Nat] /\ mailed \in [Runs -> Nat]
      /\ changes \subseteq [by : {"all", "nothing"} \cup Departments, department : Departments]
      /\ desk \in Departments
      /\ runs[r].plan \in Plans \cup {NoPlan}
  BY <1>1 DEF Base, TypeInv, TypeOKWorkflow
<1>3. FinalTicketStatus(w) \in TicketStatuses
  BY <1>2 DEF FinalTicketStatus, PlanOf, RunOf, Plans, NoPlan, TicketStatuses
<1>4. Input.sees \in {"all", "nothing"} \cup Departments
  BY InputTyped DEF Inputs
<1>5. approvals' \in [Runs -> {"none", "pending", "approved", "denied"}]
  BY <1>1, <1>2 DEF Effect, RunOf
<1>6. tickets' \in [Runs -> TicketStatuses \cup {NoTicket}]
  <2>1. "open" \in TicketStatuses
    BY DEF TicketStatuses
  <2>2. \E t \in TicketStatuses : tickets' = tickets \/ tickets' = [tickets EXCEPT ![r] = t]
    BY <1>3, <2>1 DEF Effect, RunOf
  <2> QED
    BY <1>1, <1>2, <2>2
<1>7. created' \in [Runs -> Nat] /\ mailed' \in [Runs -> Nat]
  BY <1>1, <1>2 DEF Effect, RunOf
<1>8. changes' \subseteq [by : {"all", "nothing"} \cup Departments, department : Departments]
  BY <1>2, <1>4 DEF Effect
<1> QED
  BY <1>5, <1>6, <1>7, <1>8

\* A row is appended with the number of its worker.
LEMMA AppendNumbered ==
    ASSUME Base, NEW r \in Runs, NEW row \in StepRows,
        steps' = [steps EXCEPT ![r] = Append(@, row)]
    PROVE  Numbered'
<1>1. steps \in [Runs -> Seq(StepRows)]
  BY DEF Base, TypeInv, Numbered
<1>2. steps' \in [Runs -> Seq(StepRows)]
  BY <1>1
<1>3. ASSUME NEW s \in Runs
      PROVE  \E n \in Nat : \A i \in DOMAIN steps'[s] : steps'[s][i].number <= n
  <2>1. PICK n \in Nat : \A i \in DOMAIN steps[s] : steps[s][i].number <= n
    BY DEF Base, TypeInv, Numbered
  <2>2. CASE s # r
    BY <1>1, <2>1, <2>2
  <2>3. CASE s = r
    <3>1. steps'[s] = Append(steps[s], row) /\ steps[s] \in Seq(StepRows)
      BY <1>1, <2>3
    <3>2. row.number \in Nat
      BY DEF StepRows
    <3>3. \A i \in DOMAIN steps[s] : steps[s][i] \in StepRows
      BY <3>1
    <3>4. \A i \in DOMAIN steps[s] : steps[s][i].number \in Nat
      BY <3>3 DEF StepRows
    <3>5. \A i \in DOMAIN steps'[s] :
            steps'[s][i] = row \/ (i \in DOMAIN steps[s] /\ steps'[s][i] = steps[s][i])
      BY <3>1
    <3>6. \A i \in DOMAIN steps'[s] : steps'[s][i].number <= n + row.number
      BY <2>1, <3>2, <3>4, <3>5
    <3>7. n + row.number \in Nat
      BY <3>2
    <3> QED
      BY <3>6, <3>7
  <2> QED
    BY <2>2, <2>3
<1> QED
  BY <1>2, <1>3 DEF Numbered


\* The tables that a step of a worker leaves as they are keep their types.
LEMMA TypeStep == ASSUME Base, [Next]_vars PROVE TypeInv'
<1> DEFINE Counts ==
             /\ created \in [Runs -> Nat] /\ mailed \in [Runs -> Nat]
             /\ changes \subseteq [by : {"all", "nothing"} \cup Departments,
                    department : Departments]
           Limits == faults \in 0..setting.faults /\ crashes \in 0..setting.crashes
               /\ setting \in Settings
           Approvals == approvals \in [Runs -> {"none", "pending", "approved", "denied"}]
           Tickets == tickets \in [Runs -> TicketStatuses \cup {NoTicket}]
           RunRows == runs \in [Runs -> RunRec]
           People == worker \in [Workers -> WorkerRec] /\ \A w \in Workers : Ready(worker[w])
           Requested == request \in {"new"} \cup (RunStatuses \ {"none", "cancelled"})
           All == /\ RunRows /\ Requested /\ Approvals /\ Tickets /\ desk \in Departments
                       /\ People
                  /\ Counts /\ Limits /\ Numbered
<1>a. TypeInv => All
  BY DEF TypeInv, TypeOKWorkflow, RunRec, WorkerRec, Places
<1>b. All' => \A r \in Runs : \A i \in DOMAIN steps'[r] : steps'[r][i] \in StepRows
  <2> SUFFICES ASSUME Numbered', NEW r \in Runs,
          NEW i \in DOMAIN steps'[r] PROVE steps'[r][i] \in StepRows
    OBVIOUS
  <2> QED
    BY DEF Numbered
<1>c. All' => TypeInv'
  BY <1>b DEF TypeInv, TypeOKWorkflow, RunRec, WorkerRec, Places, StepRows
<1>d. All
  BY <1>a DEF Base
<1>e. setting' = setting
  BY Given
<1>f. \A w, new : Becomes(w, new) => People'
  BY <1>d DEF Becomes
<1>w. \A w \in Workers : worker[w].at \notin {"idle", "done"} => worker[w].run \in Runs
  BY AtWorkOnARun
<1>v. \A r \in Runs, value \in RunRec : [runs EXCEPT ![r] = value] \in [Runs -> RunRec]
  BY <1>d
<1> USE <1>d, <1>e
<1>1. ASSUME NEW r \in Runs, Start(r) PROVE All'
  <2>1. People'
    BY <1>1, <1>f, StartShape
  <2>2. RunRows'
    BY <1>1 DEF Start, RunRec, RunStatuses
  <2> QED
    BY <1>1, <2>1, <2>2 DEF Start, outside, limits, Numbered
<1>2. ASSUME NEW r \in Runs, MoveTicket(r) PROVE All'
  <2>1. Allowed[tickets[r]] \subseteq TicketStatuses
    BY <1>2 DEF MoveTicket, Allowed, TicketStatuses
  <2>2. Tickets'
    <3>1. PICK to \in TicketStatuses : tickets' = [tickets EXCEPT ![r] = to]
      BY <1>2, <2>1 DEF MoveTicket
    <3> QED
      BY <3>1
  <2> QED
    BY <1>2, <2>2 DEF MoveTicket, outside, limits, Numbered
<1>3. ASSUME NEW w \in Workers, ReadDesk(w) PROVE All'
  <2>1. People'
    BY <1>3, <1>f, ReadDeskShape
  <2> QED
    BY <1>3, <2>1 DEF ReadDesk, tables, outside, limits, Numbered
<1>4. ASSUME NEW w \in Workers, CallTool(w) PROVE All'
  <2>1. People'
    BY <1>4, <1>f, CallShape
  <2>2. worker[w].at \in Steps /\ Effect(w)
    BY <1>4 DEF CallTool, InPhase
  <2>3. Approvals' /\ Tickets' /\ Counts'
    BY <2>2, EffectTyped
  <2>4. Input.known \in BOOLEAN
    BY InputTyped DEF Inputs
  <2>5. RunRows'
    BY <1>4, <2>4 DEF CallTool, RunRec
  <2> QED
    BY <1>4, <2>1, <2>3, <2>5 DEF CallTool, limits, Numbered
<1>5. ASSUME NEW w \in Workers, RefuseMove(w) PROVE All'
  <2>1. People'
    BY <1>5, <1>f, AgainShape DEF RefuseMove, InPhase
  <2> QED
    BY <1>5, <2>1 DEF RefuseMove, tables, outside, limits, Numbered
<1>6. ASSUME NEW w \in Workers, FailCall(w) PROVE All'
  <2>0. worker[w].at \in Steps /\ worker[w].run \in Runs
    BY <1>6, <1>w DEF FailCall, InPhase, Steps
  <2>1. People'
    BY <1>6, <2>0, <1>f, AgainShape DEF FailCall
  <2>2. Approvals' /\ Tickets' /\ Counts'
    <3>1. CASE UNCHANGED <<approvals, tickets, outside>>
      BY <3>1 DEF outside
    <3>2. CASE Effect(w)
      BY <2>0, <3>2, EffectTyped
    <3>3. CASE /\ created' = [created EXCEPT ![RunOf(w)] = @ + 1]
               /\ UNCHANGED <<approvals, tickets, mailed, changes>>
      BY <2>0, <3>3 DEF RunOf
    <3> QED
      BY <1>6, <3>1, <3>2, <3>3 DEF FailCall
  <2>3. faults' \in 0..setting.faults
    <3>1. setting.faults \in Nat
      BY WorkflowAssumption DEF Circumstances
    <3> QED
      BY <1>6, <3>1 DEF FailCall
  <2> QED
    BY <1>6, <2>1, <2>2, <2>3 DEF FailCall, Numbered
<1>7. ASSUME NEW w \in Workers, ReadNumber(w) PROVE All'
  <2>1. People'
    BY <1>7, <1>f, ReadNumberShape
  <2> QED
    BY <1>7, <2>1 DEF ReadNumber, tables, outside, limits, Numbered
<1>8. ASSUME NEW w \in Workers, InsertStep(w) PROVE All'
  <2>1. People'
    BY <1>8, <1>f, InsertShape
  <2> DEFINE row == [step |-> worker[w].at, number |-> worker[w].number,
                     ok |-> worker[w].result # "error"]
  <2>2. row \in StepRows
    BY <1>8 DEF StepRows, InsertStep, InPhase, WorkerRec, Ready
  <2>3. worker[w].run \in Runs /\ steps' = [steps EXCEPT ![worker[w].run] = Append(@, row)]
    BY <1>8, <1>w DEF InsertStep, InPhase, Steps, RunOf
  <2>4. Numbered'
    <3> HIDE DEF row
    <3> QED
      BY <2>2, <2>3, AppendNumbered
  <2> QED
    BY <1>8, <2>1, <2>4 DEF InsertStep, outside, limits
<1>9. ASSUME NEW w \in Workers, NEW place \in Places, Goto(w, place) PROVE People'
  BY <1>9, <1>f, GotoShape
<1>10. ASSUME NEW w \in Workers, Classify(w) PROVE All'
  <2>1. People'
    BY <1>9, <1>10 DEF Classify, Places, Steps, Silent
  <2>2. RunRows'
    BY <1>10, PlanGivenTyped DEF Classify, RunRec
  <2> QED
    BY <1>10, <2>1, <2>2 DEF Classify, outside, limits, Numbered
<1>11. ASSUME NEW w \in Workers, Begin(w) PROVE All'
  <2>0. Input.command \in {"none", "query", "update"}
    BY InputTyped DEF Inputs
  <2>1. People'
    BY <1>9, <1>11, <2>0 DEF Begin, Places, Steps
  <2> QED
    BY <1>11, <2>1 DEF Begin, outside, limits, Numbered, RunStatuses
<1>12. ASSUME NEW w \in Workers, Attach(w) PROVE All'
  <2>1. People'
    BY <1>9, <1>12 DEF Attach, Replying, Places, Steps
  <2>2. RunRows'
    BY <1>12 DEF Attach, RunRec
  <2> QED
    BY <1>12, <2>1, <2>2 DEF Attach, outside, limits, Numbered
<1>13. ASSUME NEW w \in Workers, Settle(w) PROVE All'
  <2>1. People'
    BY <1>9, <1>13 DEF Settle, Places, Silent, Ends
  <2>2. worker[w].verdict \in RunStatuses
    BY DEF WorkerRec
  <2>3. RunRows'
    BY <1>13, <2>2 DEF Settle, RunRec
  <2> QED
    BY <1>13, <2>1, <2>3 DEF Settle, outside, limits, Numbered
<1>14. ASSUME NEW w \in Workers, Report(w) PROVE All'
  <2>1. People'
    BY <1>9, <1>14 DEF Report, Places, Ends
  <2>2. Requested'
    BY <1>14 DEF Report, Base, Roles, OwnRole, ReviewerRole, Carrying, Ends, Workers,
       RunStatuses
  <2> QED
    BY <1>14, <2>1, <2>2 DEF Report, outside, limits, Numbered
<1>15. ASSUME NEW w \in Workers, Crash(w) PROVE All'
  <2>1. People'
    BY <1>9, <1>15 DEF Crash, Places, Ends
  <2>2. crashes' \in 0..setting.crashes
    <3>1. setting.crashes \in Nat
      BY WorkflowAssumption DEF Circumstances
    <3> QED
      BY <1>15, <3>1 DEF Crash
  <2> QED
    BY <1>15, <2>1, <2>2 DEF Crash, tables, outside, Numbered
<1>16. ASSUME NEW v \in Reviewers, NEW r \in Runs, NEW approved \in BOOLEAN,
           Decide(v, r, approved)
       PROVE  All'
  <2>1. People'
    BY <1>16, <1>f, DecideShape
  <2>2. Approvals'
    BY <1>16, DecideShape
  <2> QED
    BY <1>16, <2>1, <2>2 DEF Decide, outside, limits, Numbered
<1>17. ASSUME Reassign PROVE All'
  BY <1>17 DEF Reassign, outside, limits, Numbered
<1>18. ASSUME UNCHANGED vars PROVE All'
  BY <1>18 DEF vars, tables, outside, limits, Numbered
<1> HIDE DEF All
<1> QED
  BY <1>c, <1>1, <1>2, <1>3, <1>4, <1>5, <1>6, <1>7, <1>8, <1>10, <1>11, <1>12, <1>13, <1>14,
     <1>15,
     <1>16, <1>17, <1>18 DEF Next, Work


-----------------------------------------------------------------------------
(* Who works on which run.                                                 *)

\* A step that leaves w where it is, with the same approvals.
LEMMA RolesOfStays ==
    ASSUME Base, NEW w \in Workers, NEW new, Becomes(w, new), Stays(w, new),
        UNCHANGED approvals,
           worker[w].at = "approval" /\ worker[w].phase \in {"number", "insert"}
               => new.phase \in {"number", "insert"}
    PROVE  Roles'
<1>1. worker \in [Workers -> WorkerRec]
  BY WorkersTyped DEF Base
<1>2. /\ worker'[w] = new /\ \A u \in Workers : u # w => worker'[u] = worker[u]
  BY <1>1 DEF Becomes
<1>3. \A u \in Workers : /\ worker'[u].run = worker[u].run /\ worker'[u].at = worker[u].at
                         /\ worker'[u].verdict = worker[u].verdict
  BY <1>2 DEF Stays
<1>4. ASSUME NEW r \in Runs PROVE OwnRole(r)'
  <2>1. OwnRole(r) /\ r \in Workers
    BY DEF Base, Roles, Workers
  <2>2. Parked(r) => Parked(r)'
    BY <1>2, <1>3, <2>1 DEF Parked
  <2> QED
    BY <1>3, <2>1, <2>2 DEF OwnRole
<1>5. ASSUME NEW v \in Reviewers PROVE ReviewerRole(v)'
  <2>1. ReviewerRole(v) /\ v \in Workers
    BY DEF Base, Roles, Workers
  <2> QED
    BY <1>3, <2>1 DEF ReviewerRole
<1>6. \A u, v \in Reviewers : worker'[u].run = worker'[v].run /\ worker'[u].run # NoRun => u = v
  BY <1>3 DEF Base, Roles, Workers
<1> QED
  BY <1>4, <1>5, <1>6 DEF Roles

\* A run's own worker that goes on in its run.
LEMMA RolesOfOwnStep ==
    ASSUME Base, NEW r \in Runs, NEW new, Becomes(r, new), UNCHANGED approvals,
           new.run = r, new.at \notin {"idle", "denied"},
           new.at \in {"settle", "report"} =>
              new.verdict \in {"waiting_approval", "completed", "failed", "refused"},
           approvals[r] # "none" =>
              \/ new.at \in {"settle", "report"} /\ new.verdict = "waiting_approval"
              \/ new.at \in Ends
    PROVE  Roles'
<1>1. worker \in [Workers -> WorkerRec] /\ r \in Workers
  BY WorkersTyped DEF Base, Workers
<1>2. /\ worker'[r] = new /\ \A u \in Workers : u # r => worker'[u] = worker[u]
  BY <1>1 DEF Becomes
<1>3. OwnRole(r)'
  BY <1>2 DEF OwnRole, Parked
<1>4. ASSUME NEW s \in Runs, s # r PROVE OwnRole(s)'
  BY <1>2, <1>4 DEF OwnRole, Parked, Base, Roles, Workers
<1>5. ASSUME NEW v \in Reviewers PROVE ReviewerRole(v)'
  <2>1. v # r
    BY WorkflowAssumption
  <2> QED
    BY <1>2, <2>1 DEF ReviewerRole, Base, Roles, Workers
<1>6. \A u, v \in Reviewers : worker'[u].run = worker'[v].run /\ worker'[u].run # NoRun => u = v
  <2>1. \A u \in Reviewers : u # r
    BY WorkflowAssumption
  <2> QED
    BY <1>2, <2>1 DEF Base, Roles, Workers
<1> QED
  BY <1>3, <1>4, <1>5, <1>6 DEF Roles

\* A reviewer's worker that goes on in its run.
LEMMA RolesOfReviewersStep ==
    ASSUME Base, NEW v \in Reviewers, NEW new, Becomes(v, new), UNCHANGED approvals,
           new.run = worker[v].run, worker[v].run # NoRun,
               new.at \in Carrying \cup {"settle"} \cup Ends,
           approvals[worker[v].run] = "approved" =>
              (new.at = "settle" => new.verdict \in {"completed", "failed"}),
           approvals[worker[v].run] = "denied" =>
              new.at \notin Carrying /\ (new.at = "settle" => new.verdict = "cancelled")
    PROVE  Roles'
<1>1. worker \in [Workers -> WorkerRec] /\ v \in Workers
  BY WorkersTyped DEF Base, Workers
<1>2. /\ worker'[v] = new /\ \A u \in Workers : u # v => worker'[u] = worker[u]
  BY <1>1 DEF Becomes
<1>3. ASSUME NEW r \in Runs PROVE OwnRole(r)'
  <2>1. v # r
    BY WorkflowAssumption
  <2> QED
    BY <1>2, <2>1 DEF OwnRole, Parked, Base, Roles, Workers
<1>4. ReviewerRole(v)'
  <2>1. ReviewerRole(v)
    BY DEF Base, Roles
  <2> QED
    BY <1>2, <2>1 DEF ReviewerRole
<1>5. ASSUME NEW u \in Reviewers, u # v PROVE ReviewerRole(u)'
  BY <1>2, <1>5 DEF ReviewerRole, Base, Roles, Workers
<1>6. \A t, u \in Reviewers : worker'[t].run = worker'[u].run /\ worker'[t].run # NoRun => t = u
  BY <1>2 DEF Base, Roles, Workers
<1> QED
  BY <1>3, <1>4, <1>5, <1>6 DEF Roles

\* A step of a run's worker that asks for approval.
LEMMA RolesOfAsking ==
    ASSUME Base, NEW r \in Runs, NEW new, Becomes(r, new), Stays(r, new),
           worker[r].at = "approval", worker[r].phase = "call", new.phase = "number",
           approvals' = [approvals EXCEPT ![r] = "pending"]
    PROVE  Roles'
<1>1. worker \in [Workers -> WorkerRec] /\ r \in Workers
  BY WorkersTyped DEF Base, Workers
<1>2. /\ worker'[r] = new /\ \A u \in Workers : u # r => worker'[u] = worker[u]
  BY <1>1 DEF Becomes
<1>3. approvals[r] = "none" /\ OwnRole(r)
  BY DEF Base, Roles, OwnRole, Parked, Ends
<1>4. approvals \in [Runs -> {"none", "pending", "approved", "denied"}]
  BY DEF Base, TypeInv, TypeOKWorkflow
<1>5. \A s \in Runs : s # r => approvals'[s] = approvals[s]
  BY <1>4
<1>6. OwnRole(r)'
  BY <1>2, <1>3 DEF OwnRole, Parked, Stays
<1>7. ASSUME NEW s \in Runs, s # r PROVE OwnRole(s)'
  BY <1>2, <1>5, <1>7 DEF OwnRole, Parked, Base, Roles, Workers
<1>8. ASSUME NEW v \in Reviewers PROVE ReviewerRole(v)'
  <2>1. v # r /\ v \in Workers /\ ReviewerRole(v)
    BY WorkflowAssumption DEF Base, Roles, Workers
  <2>2. worker'[v] = worker[v]
    BY <1>2, <2>1
  <2>3. worker[v].run # NoRun => worker[v].run \in Runs /\ worker[v].run # r
    BY <1>1, <1>3, <2>1 DEF ReviewerRole, WorkerRec
  <2> QED
    BY <1>5, <2>1, <2>2, <2>3 DEF ReviewerRole
<1>9. \A u, v \in Reviewers : worker'[u].run = worker'[v].run /\ worker'[u].run # NoRun => u = v
  <2>1. \A u \in Reviewers : u # r
    BY WorkflowAssumption
  <2> QED
    BY <1>2, <2>1 DEF Base, Roles, Workers
<1> QED
  BY <1>6, <1>7, <1>8, <1>9 DEF Roles


LEMMA RolesStep == ASSUME Base, [Next]_vars PROVE Roles'
<1>w. \A w \in Workers : worker[w].at \notin {"idle", "done"} =>
        /\ worker[w].run \in Runs
        /\ w \in Runs => worker[w].run = w
        /\ w \notin Runs => w \in Reviewers /\ worker[w].run # NoRun
  BY AtWorkOnARun, WorkflowAssumption DEF Workers
<1>o. \A r \in Runs : OwnRole(r) /\ r \in Workers
  BY DEF Base, Roles, Workers
<1>r. \A v \in Reviewers : ReviewerRole(v) /\ v \in Workers
  BY DEF Base, Roles, Workers
<1>k. UNCHANGED <<worker, approvals>> => Roles'
  BY DEF Base, Roles, OwnRole, Parked, ReviewerRole
<1>1. ASSUME NEW r \in Runs, Start(r) PROVE Roles'
  <2>1. PICK new : Becomes(r, new) /\ new.run = r /\ new.at = "guard"
    BY <1>1, StartShape
  <2>2. approvals[r] = "none" /\ UNCHANGED approvals
    BY <1>1, <1>o DEF Start, OwnRole, Parked, Ends
  <2> QED
    BY <2>1, <2>2, RolesOfOwnStep DEF Ends
<1>2. ASSUME NEW w \in Workers, ReadDesk(w) PROVE Roles'
  <2>1. PICK new : Becomes(w, new) /\ Stays(w, new)
    BY <1>2, ReadDeskShape
  <2>2. UNCHANGED approvals /\ worker[w].phase = "read"
    BY <1>2 DEF ReadDesk, InPhase, tables
  <2> QED
    BY <2>1, <2>2, RolesOfStays
<1>3. ASSUME NEW w \in Workers, NEW new, worker[w].at \in Steps, worker[w].phase = "call",
             Becomes(w, new), Stays(w, new), worker[w].at = "approval" => new.phase = "number",
             approvals' = IF worker[w].at = "approval" THEN [approvals EXCEPT ![worker[w].run] = "pending"]
                          ELSE approvals
      PROVE  Roles'
  <2>1. CASE worker[w].at = "approval"
    <3>1. w \in Runs /\ worker[w].run = w
      BY <1>w, <1>r, <2>1 DEF ReviewerRole, Carrying, Ends
    <3> QED
      BY <1>3, <2>1, <3>1, RolesOfAsking
  <2>2. CASE worker[w].at # "approval"
    BY <1>3, <2>2, RolesOfStays
  <2> QED
    BY <2>1, <2>2
<1>4. ASSUME NEW w \in Workers, CallTool(w) PROVE Roles'
  <2>1. PICK new : Becomes(w, new) /\ Stays(w, new) /\ new.phase = "number"
    BY <1>4, CallShape
  <2> QED
    BY <1>3, <1>4, <2>1 DEF CallTool, InPhase, Effect, RunOf
<1>5. ASSUME NEW w \in Workers, RefuseMove(w) PROVE Roles'
  <2>1. PICK new : Becomes(w, new) /\ Stays(w, new)
    BY <1>5, AgainShape DEF RefuseMove, InPhase
  <2>2. UNCHANGED approvals /\ worker[w].at # "approval"
    BY <1>5 DEF RefuseMove, Refused, tables
  <2> QED
    BY <2>1, <2>2, RolesOfStays
<1>6. ASSUME NEW w \in Workers, FailCall(w) PROVE Roles'
  <2>1. PICK new : /\ Becomes(w, new) /\ Stays(w, new)
                   /\ worker[w].at \notin Retried => new.phase = "number"
    BY <1>6, AgainShape DEF FailCall, InPhase
  <2>2. "approval" \notin Retried /\ worker[w].at \in Steps /\ worker[w].phase = "call"
    BY <1>6 DEF FailCall, InPhase, Retried
  <2>3. CASE UNCHANGED approvals
    BY <2>1, <2>2, <2>3, RolesOfStays
  <2>4. CASE Effect(w)
    BY <1>3, <2>1, <2>2, <2>4 DEF Effect, RunOf
  <2> QED
    BY <1>6, <2>3, <2>4 DEF FailCall
<1>7. ASSUME NEW w \in Workers, ReadNumber(w) PROVE Roles'
  <2>1. PICK new : Becomes(w, new) /\ Stays(w, new) /\ new.phase = "insert"
    BY <1>7, ReadNumberShape
  <2>2. UNCHANGED approvals
    BY <1>7 DEF ReadNumber, tables
  <2> QED
    BY <2>1, <2>2, RolesOfStays
<1>8. ASSUME NEW w \in Workers, InsertStep(w) PROVE Roles'
  <2>1. PICK new : /\ Becomes(w, new) /\ new.run = worker[w].run
                   /\ LeadsBefore(w, new) /\ LeadsAfter(w, new)
    BY <1>8, InsertShape
  <2>2. UNCHANGED approvals /\ worker[w].at \in Steps
    BY <1>8 DEF InsertStep, InPhase
  <2>3. CASE w \in Runs
    <3>1. worker[w].run = w /\ OwnRole(w)
      BY <1>w, <1>o, <2>2, <2>3 DEF Steps
    <3>2. new.at \notin {"idle", "denied"}
      BY <2>1, <2>2, <3>1 DEF LeadsBefore, LeadsAfter, EndsAs, Steps, OwnRole
    <3>3. new.at \in {"settle", "report"} =>
            new.verdict \in {"waiting_approval", "completed", "failed", "refused"}
      BY <2>1, <2>2, <3>1 DEF LeadsBefore, LeadsAfter, EndsAs, Steps, OwnRole
    <3>4. approvals[w] # "none" =>
            \/ new.at \in {"settle", "report"} /\ new.verdict = "waiting_approval"
            \/ new.at \in Ends
      BY <2>1, <2>2, <3>1 DEF LeadsBefore, EndsAs, Steps, OwnRole, Parked, Ends
    <3> QED
      BY <2>1, <2>2, <2>3, <3>1, <3>2, <3>3, <3>4, RolesOfOwnStep
  <2>4. CASE w \notin Runs
    <3>1. w \in Reviewers /\ worker[w].run # NoRun /\ ReviewerRole(w)
      BY <1>w, <1>r, <2>2, <2>4 DEF Steps
    <3>2. CASE approvals[worker[w].run] = "approved"
      BY <2>1, <2>2, <3>1, <3>2, RolesOfReviewersStep
         DEF LeadsAfter, EndsAs, Carrying, Steps, Ends, ReviewerRole
    <3>3. CASE approvals[worker[w].run] = "denied"
      BY <2>1, <2>2, <3>1, <3>3, RolesOfReviewersStep
         DEF LeadsBefore, EndsAs, Carrying, Steps, Ends, ReviewerRole
    <3> QED
      BY <3>1, <3>2, <3>3 DEF ReviewerRole
  <2> QED
    BY <2>3, <2>4
<1>9. ASSUME NEW w \in Runs, NEW place \in {"interpret", "begin", "rag", "query", "update"},
             worker[w].at \in {"classify", "begin"}, Goto(w, place), UNCHANGED approvals
      PROVE  Roles'
  <2>1. PICK new : Becomes(w, new) /\ Goes(w, new, place)
    BY <1>9, <1>o, GotoShape DEF Places, Steps, Silent
  <2>2. approvals[w] = "none" /\ worker[w].run = w
    BY <1>9, <1>o DEF OwnRole, Parked, Ends
  <2> QED
    BY <1>9, <2>1, <2>2, RolesOfOwnStep DEF Goes, Ends
<1>10. ASSUME NEW w \in Workers, Classify(w) \/ Begin(w) PROVE Roles'
  <2>1. w \in Runs
    BY <1>10, <1>w, <1>r DEF Classify, Begin, ReviewerRole, Carrying, Ends
  <2>2. Input.command \in {"none", "query", "update"}
    BY InputTyped DEF Inputs
  <2> QED
    BY <1>9, <1>10, <2>1, <2>2 DEF Classify, Begin
<1>11. ASSUME NEW w \in Workers, Attach(w) PROVE Roles'
  <2>1. PICK place \in {"notify", "draft", "finalize"} : Goto(w, place)
    BY <1>11 DEF Attach, Replying
  <2>2. PICK new : Becomes(w, new) /\ Goes(w, new, place)
    BY <2>1, GotoShape DEF Places, Steps
  <2>3. UNCHANGED approvals /\ worker[w].at = "attach"
    BY <1>11 DEF Attach
  <2>4. CASE w \in Runs
    <3>1. approvals[w] = "none" /\ worker[w].run = w
      BY <2>3, <2>4, <1>o DEF OwnRole, Parked, Ends
    <3> QED
      BY <2>2, <2>3, <2>4, <3>1, RolesOfOwnStep DEF Goes, Ends
  <2>5. CASE w \notin Runs
    <3>1. w \in Reviewers /\ worker[w].run # NoRun /\ ReviewerRole(w)
      BY <1>w, <1>r, <2>3, <2>5
    <3> QED
      BY <2>2, <2>3, <3>1, RolesOfReviewersStep DEF Goes, Ends, Carrying, ReviewerRole
  <2> QED
    BY <2>4, <2>5
<1>12. ASSUME NEW w \in Workers, Settle(w) \/ Report(w) \/ Crash(w) PROVE Roles'
  <2>1. PICK place \in {"report"} \cup Ends :
          Goto(w, place) /\ (place = "report" => w \in Runs /\ worker[w].at = "settle")
    BY <1>12 DEF Settle, Report, Crash, Ends, Workers
  <2>2. PICK new : Becomes(w, new) /\ Goes(w, new, place)
    BY <2>1, GotoShape DEF Places, Silent
  <2>3. UNCHANGED approvals /\ worker[w].at \notin {"idle", "done"}
    BY <1>12 DEF Settle, Report, Crash, tables, Ends
  <2>4. CASE w \in Runs
    <3>1. worker[w].run = w /\ OwnRole(w)
      BY <1>w, <1>o, <2>3, <2>4
    <3> QED
      BY <2>1, <2>2, <2>3, <2>4, <3>1, RolesOfOwnStep DEF Goes, Ends, OwnRole, Parked
  <2>5. CASE w \notin Runs
    <3>1. w \in Reviewers /\ worker[w].run # NoRun /\ ReviewerRole(w)
      BY <1>w, <1>r, <2>3, <2>5
    <3> QED
      BY <2>1, <2>2, <2>3, <2>5, <3>1, RolesOfReviewersStep DEF Goes, Ends, Carrying
  <2> QED
    BY <2>4, <2>5
<1>13. ASSUME NEW v \in Reviewers, NEW r \in Runs, NEW approved \in BOOLEAN,
           Decide(v, r, approved)
       PROVE  Roles'
  <2> DEFINE verdict == IF approved THEN "approved" ELSE "denied"
  <2>1. PICK new :
          /\ Becomes(v, new)
          /\ \/ /\ approvals[r] = "pending"
                /\ approvals' = [approvals EXCEPT ![r] = verdict]
                /\ new.run = r /\ new.at = IF approved THEN "ticket" ELSE "denied"
             \/ /\ UNCHANGED approvals
                /\ new.run = worker[v].run /\ new.at = "done"
    BY <1>13, DecideShape
  <2>2. /\ worker \in [Workers -> WorkerRec] /\ v \in Workers
        /\ approvals \in [Runs -> {"none", "pending", "approved", "denied"}]
    BY WorkersTyped DEF Base, TypeInv, TypeOKWorkflow, Workers
  <2>3. /\ worker'[v] = new /\ \A u \in Workers : u # v => worker'[u] = worker[u]
    BY <2>1, <2>2 DEF Becomes
  <2>4. worker[v].at = "idle" /\ worker[v].run = NoRun
    BY <1>13, <1>r DEF Decide, ReviewerRole, Carrying, Ends
  <2>5. ASSUME NEW s \in Runs PROVE OwnRole(s)'
    <3>1. s # v /\ s \in Workers
      BY WorkflowAssumption DEF Workers
    <3>2. approvals'[s] # "none" => approvals[s] # "none"
      BY <2>1, <2>2
    <3> QED
      BY <1>o, <2>3, <3>1, <3>2 DEF OwnRole, Parked
  <2>6. CASE approvals[r] = "pending" /\ approvals' = [approvals EXCEPT ![r] = verdict]
            /\ new.run = r
             /\ new.at = IF approved THEN "ticket" ELSE "denied"
    <3>1. \A u \in Reviewers : worker[u].run # r
      BY <1>r, <2>6, WorkflowAssumption DEF ReviewerRole
    <3>2. ASSUME NEW u \in Reviewers, u # v PROVE ReviewerRole(u)'
      <4>1. worker'[u] = worker[u] /\ ReviewerRole(u) /\ worker[u].run # r
                /\ worker[u] \in WorkerRec
        BY <1>r, <2>2, <2>3, <3>1, <3>2
      <4>2. worker[u].run # NoRun => approvals'[worker[u].run] = approvals[worker[u].run]
        BY <2>2, <2>6, <4>1 DEF WorkerRec
      <4> QED
        BY <4>1, <4>2 DEF ReviewerRole
    <3>3. ReviewerRole(v)'
      BY <2>2, <2>3, <2>6, WorkflowAssumption DEF ReviewerRole, Carrying
    <3>4. \A t, u \in Reviewers : worker'[t].run = worker'[u].run /\ worker'[t].run # NoRun
              => t = u
      BY <2>3, <2>6, <3>1 DEF Base, Roles, Workers
    <3> QED
      BY <2>5, <3>2, <3>3, <3>4 DEF Roles
  <2>7. CASE UNCHANGED approvals /\ new.run = worker[v].run /\ new.at = "done"
    <3>1. \A u \in Reviewers : ReviewerRole(u)'
      BY <1>r, <2>3, <2>4, <2>7 DEF ReviewerRole
    <3>2. \A t, u \in Reviewers : worker'[t].run = worker'[u].run /\ worker'[t].run # NoRun
              => t = u
      BY <2>3, <2>7 DEF Base, Roles, Workers
    <3> QED
      BY <2>5, <3>1, <3>2 DEF Roles
  <2> QED
    BY <2>1, <2>6, <2>7
<1>14. ASSUME (\E r \in Runs : MoveTicket(r)) \/ Reassign \/ UNCHANGED vars PROVE Roles'
  BY <1>14, <1>k DEF MoveTicket, Reassign, vars, tables
<1> QED
  BY <1>1, <1>2, <1>4, <1>5, <1>6, <1>7, <1>8, <1>10, <1>11, <1>12, <1>13, <1>14 DEF Next, Work

LEMMA BaseStep == Base /\ [Next]_vars => Base'
BY TypeStep, RolesStep DEF Base

LEMMA BaseInit == Init => Base
<1> SUFFICES ASSUME Init PROVE Base
  OBVIOUS
<1>1. TypeOKWorkflow
  BY WorkflowAssumption
     DEF Init, TypeOKWorkflow, Circumstances, RunStatuses, Departments, Results, Phases,
         NoTicket
<1>2. Numbered
  <2>1. steps = [r \in Runs |-> <<>>] /\ <<>> \in Seq(StepRows)
    BY DEF Init
  <2>2. \A r \in Runs : steps[r] = <<>> /\ DOMAIN steps[r] = {}
    BY <2>1
  <2> QED
    BY <2>1, <2>2 DEF Numbered
<1>3. (\A w \in Workers : Ready(worker[w])) /\ Roles
  BY DEF Init, Ready, Roles, OwnRole, ReviewerRole, Parked, Ends, Workers
<1> QED
  BY <1>1, <1>2, <1>3 DEF Base, TypeInv


-----------------------------------------------------------------------------
(* One run at a time.                                                      *)

\* A step does not concern a run: neither its rows nor whoever works on it change.
Untouched(r) ==
    /\ runs'[r] = runs[r] /\ approvals'[r] = approvals[r] /\ steps'[r] = steps[r]
    /\ created'[r] = created[r] /\ mailed'[r] = mailed[r]
    /\ tickets'[r] = NoTicket <=> tickets[r] = NoTicket

Aside(r) ==
    /\ Untouched(r)
    /\ \A u \in Workers :
        u = r \/ worker[u].run = r \/ worker'[u].run = r => worker'[u] = worker[u]

Alone(w) == \A u \in Workers : u # w => worker'[u] = worker[u]

Tables ==
    /\ runs \in [Runs -> RunRec]
    /\ approvals \in [Runs -> {"none", "pending", "approved", "denied"}]
    /\ steps \in [Runs -> Seq(StepRows)]
    /\ tickets \in [Runs -> TicketStatuses \cup {NoTicket}]
    /\ created \in [Runs -> Nat] /\ mailed \in [Runs -> Nat]
    /\ worker \in [Workers -> WorkerRec]

LEMMA TablesTyped == Base => Tables
BY WorkersTyped DEF Base, TypeInv, TypeOKWorkflow, Numbered, RunRec, Tables

\* What a tool does, it does to the run of its worker.
LEMMA EffectElsewhere ==
    ASSUME Base, NEW w \in Workers, Effect(w), NEW s \in Runs, s # worker[w].run
    PROVE  /\ approvals'[s] = approvals[s] /\ tickets'[s] = tickets[s]
           /\ created'[s] = created[s] /\ mailed'[s] = mailed[s]
<1>1. Tables
  BY TablesTyped
<1> DEFINE r == worker[w].run
<1>2. approvals' = approvals \/ approvals' = [approvals EXCEPT ![r] = "pending"]
  BY DEF Effect, RunOf
<1>3. \/ tickets' = tickets \/ tickets' = [tickets EXCEPT ![r] = "open"]
      \/ tickets' = [tickets EXCEPT ![r] = FinalTicketStatus(w)]
  BY DEF Effect, RunOf
<1>4. created' = created \/ created' = [created EXCEPT ![r] = @ + 1]
  BY DEF Effect, RunOf
<1>5. mailed' = mailed \/ mailed' = [mailed EXCEPT ![r] = @ + 1]
  BY DEF Effect, RunOf
<1>6. s # r
  OBVIOUS
<1> HIDE DEF r
<1> QED
  BY <1>1, <1>2, <1>3, <1>4, <1>5, <1>6 DEF Tables

\* A worker stays with its run, and leaves the other workers alone.
LEMMA WorkKeepsRun ==
    ASSUME Base, NEW w \in Workers, Work(w) \/ FailCall(w) \/ Crash(w)
    PROVE  worker'[w].run = worker[w].run /\ Alone(w) /\ worker[w].at \notin {"idle"} \cup Ends
<1>1. \A new : Becomes(w, new) => worker'[w] = new /\ Alone(w)
  BY TablesTyped DEF Tables, Becomes, Alone
<1>2. ASSUME NEW place \in Places,
          Goto(w, place) PROVE worker'[w].run = worker[w].run /\ Alone(w)
  BY <1>1, <1>2, GotoShape DEF Goes
<1>3. CASE ReadDesk(w) \/ CallTool(w) \/ RefuseMove(w) \/ ReadNumber(w) \/ FailCall(w)
  <2>1. worker[w].at \in Steps
    BY <1>3 DEF ReadDesk, CallTool, RefuseMove, ReadNumber, FailCall, InPhase
  <2>2. \E new : Becomes(w, new) /\ Stays(w, new)
    BY <1>3, <2>1, ReadDeskShape, CallShape, AgainShape, ReadNumberShape
       DEF RefuseMove, FailCall
  <2> QED
    BY <1>1, <2>1, <2>2 DEF Stays, Steps, Ends
<1>4. CASE InsertStep(w)
  BY <1>1, <1>4, InsertShape DEF InsertStep, InPhase, Steps, Ends
<1>5. CASE Classify(w) \/ Begin(w) \/ Attach(w) \/ Settle(w) \/ Report(w) \/ Crash(w)
  <2>1. Input.command \in {"none", "query", "update"}
    BY InputTyped DEF Inputs
  <2>2. \E place \in {"begin", "interpret", "rag", "query", "update", "notify", "draft",
            "finalize", "done", "report", "crashed"} : Goto(w, place)
    BY <1>5, <2>1 DEF Classify, Begin, Attach, Settle, Report, Crash, Replying
  <2>3. worker[w].at \notin {"idle"} \cup Ends
    BY <1>5 DEF Classify, Begin, Attach, Settle, Report, Crash, Ends
  <2> QED
    BY <1>2, <2>2, <2>3 DEF Places, Steps, Silent, Ends
<1> QED
  BY <1>3, <1>4, <1>5 DEF Work

\* What concerns a run is the work of one of its workers, its start, or the first
\* decision about it.
LEMMA StepKinds ==
    ASSUME Base, [Next]_vars, NEW s \in Runs
    PROVE  \/ Aside(s)
           \/ \E w \in Workers : worker[w].run = s /\ (Work(w) \/ FailCall(w) \/ Crash(w))
           \/ Start(s)
           \/ \E v \in Reviewers, approved \in BOOLEAN : Decide(v, s, approved)
                  /\ approvals[s] = "pending"
<1>0. Tables /\ NoRun # s /\ s \in Workers
  BY TablesTyped, WorkflowAssumption DEF Workers
<1>1. ASSUME NEW w \in Workers, worker[w].run # s,
          Work(w) \/ FailCall(w) \/ Crash(w) PROVE Aside(s)
  <2>1. worker[w].run \in Runs /\ w # s /\ worker'[w].run # s /\ Alone(w)
    BY <1>1, WorkKeepsRun, AtWorkOnARun DEF Ends
  <2>2. Untouched(s)
    <3>1. CASE CallTool(w)
      <4>1. /\ approvals'[s] = approvals[s] /\ tickets'[s] = tickets[s]
            /\ created'[s] = created[s] /\ mailed'[s] = mailed[s]
        BY <1>1, <3>1, EffectElsewhere DEF CallTool
      <4> QED
        BY <1>0, <1>1, <3>1, <4>1 DEF CallTool, Untouched, Tables, RunOf
    <3>2. CASE FailCall(w)
      <4>1. CASE Effect(w)
        BY <1>1, <3>2, <4>1, EffectElsewhere DEF FailCall, Untouched
      <4>2. CASE UNCHANGED <<approvals, tickets, outside>>
        BY <3>2, <4>2 DEF FailCall, Untouched, outside
      <4>3. CASE /\ created' = [created EXCEPT ![RunOf(w)] = @ + 1]
                 /\ UNCHANGED <<approvals, tickets, mailed, changes>>
        BY <1>0, <1>1, <3>2, <4>3 DEF FailCall, Untouched, Tables, RunOf
      <4> QED
        BY <3>2, <4>1, <4>2, <4>3 DEF FailCall
    <3>3. CASE ReadDesk(w) \/ RefuseMove(w) \/ ReadNumber(w) \/ Crash(w)
      BY <3>3 DEF ReadDesk, RefuseMove, ReadNumber, Crash, Untouched, tables, outside
    <3>4. CASE InsertStep(w)
      BY <1>0, <1>1, <3>4 DEF InsertStep, Untouched, Tables, RunOf, outside
    <3>5. CASE Classify(w) \/ Begin(w) \/ Attach(w) \/ Settle(w) \/ Report(w)
      BY <1>0, <1>1, <3>5
         DEF Classify, Begin, Attach, Settle, Report, Untouched, Tables, RunOf, outside
    <3> QED
      BY <1>1, <3>1, <3>2, <3>3, <3>4, <3>5 DEF Work
  <2> QED
    BY <1>1, <2>1, <2>2 DEF Aside, Alone
<1>2. ASSUME NEW r \in Runs, r # s, Start(r) PROVE Aside(s)
  <2>1. PICK new : Becomes(r, new) /\ new.run = r
    BY <1>2, StartShape
  <2>2. Untouched(s)
    BY <1>0, <1>2 DEF Start, Untouched, Tables, outside
  <2>3. worker[r].run = NoRun
    BY <1>2 DEF Start, Base, Roles, OwnRole
  <2> QED
    BY <1>0, <1>2, <2>1, <2>2, <2>3 DEF Aside, Becomes, Tables, Workers
<1>3. ASSUME NEW v \in Reviewers, NEW r \in Runs, NEW approved \in BOOLEAN,
          Decide(v, r, approved),
             r # s \/ approvals[s] # "pending"
      PROVE  Aside(s)
  <2>1. PICK new : /\ Becomes(v, new)
                   /\ \/ /\ approvals' = [approvals EXCEPT ![r] = IF approved THEN "approved" ELSE "denied"]
                         /\ approvals[r] = "pending" /\ new.run = r
                      \/ UNCHANGED approvals /\ new.run = worker[v].run
    BY <1>3, DecideShape
  <2>2. worker[v].run = NoRun /\ v # s
    BY <1>3, WorkflowAssumption DEF Decide, Base, Roles, ReviewerRole, Carrying, Ends
  <2>3. new.run # s /\ approvals'[s] = approvals[s]
    BY <1>0, <1>3, <2>1, <2>2 DEF Tables
  <2>4. Untouched(s)
    BY <1>3, <2>3 DEF Decide, Untouched, outside
  <2> QED
    BY <1>0, <2>1, <2>2, <2>3, <2>4 DEF Aside, Becomes, Tables, Workers
<1>4. ASSUME NEW r \in Runs, MoveTicket(r) PROVE Aside(s)
  <2>1. PICK to \in Allowed[tickets[r]] : tickets' = [tickets EXCEPT ![r] = to]
    BY <1>4 DEF MoveTicket
  <2>2. tickets[r] \in TicketStatuses
    BY <1>0, <1>4 DEF MoveTicket, Tables
  <2>3. to # NoTicket
    BY <2>2 DEF Allowed, TicketStatuses, NoTicket
  <2>4. Untouched(s)
    BY <1>0, <1>4, <2>1, <2>2, <2>3 DEF MoveTicket, Untouched, Tables, outside
  <2> QED
    BY <1>4, <2>4 DEF Aside, MoveTicket
<1>5. ASSUME Reassign \/ UNCHANGED vars PROVE Aside(s)
  BY <1>5 DEF Reassign, vars, tables, outside, Aside, Untouched
<1> QED
  BY <1>1, <1>2, <1>3, <1>4, <1>5 DEF Next


-----------------------------------------------------------------------------
(* Authority: what the planner and the reviewer have agreed to.            *)

Asking == {"rag", "policy", "customer", "approval"}

\* Past the guard an objective is safe; what is not a command follows the plan it
\* was given, and reaches the ticket by itself only if the plan asks no approval.
OwnGrant(r) ==
    /\ worker[r].at \in {"plan", "classify", "interpret", "begin", "query",
           "update"} \cup Asking \cup Carrying
         => Input.safe
    /\ worker[r].at \in Asking \cup Carrying => Input.command = "none"
    /\ worker[r].at \in {"query", "update"} => Input.command # "none"
    /\ worker[r].at \in {"interpret", "begin"} \cup Asking \cup Carrying
         => runs[r].plan = PlanGiven
    /\ worker[r].at \in Carrying => ~runs[r].plan.approval
    /\ approvals[r] # "none" => Input.safe /\ Input.command = "none"

\* NothingBeforeApproval, of one run.
Warranted(r) ==
    Acted(r) => /\ Input.safe /\ Input.command = "none"
                /\ MustWait => approvals[r] = "approved"

\* Whatever the policy wants a person to see first, the plan wants approved.
LEMMA PlanHeedsPolicy ==
    ASSUME Base, Input.command = "none", MustWait
    PROVE  PlanGiven.approval
<1> DEFINE text == Input.text
           plan == PlanWorkflow(text, Input.model)
<1>1. Input \in Inputs
  BY InputTyped
<1>2. text \in Readings
  BY <1>1 DEF Inputs
<1>3. PlanGiven = IF Input.handed THEN Escalate(plan, Input.consensus) ELSE plan
  BY DEF PlanGiven
<1>4. \A p, c : Escalate(p, c) =
                  [p EXCEPT !.risk = IF Rank[c.risk] > Rank[p.risk] THEN c.risk ELSE p.risk,
                            !.approval = p.approval \/ c.approval]
  BY DEF Escalate
<1>5. plan \in Plans
  <2>1. Input.model \in Suggestions
    BY <1>1 DEF Inputs
  <2> DEFINE c == IF Input.model.category = Unusable THEN text.category ELSE Input.model.category
             a == IF Input.model.amount = NoAmount THEN text.amount ELSE Input.model.amount
             e == Input.model.recipient \/ text.recipient
  <2>2. /\ text.category \in Categories /\ text.amount \in Nat \cup {NoAmount}
             /\ text.recipient \in BOOLEAN
        /\ c \in Categories /\ a \in Nat \cup {NoAmount} /\ e \in BOOLEAN
    BY <1>2, <2>1 DEF Readings, Suggestions
  <2> HIDE DEF c, a, e
  <2>3. PlanFor(c, a, e) \in Plans
            /\ PlanFor(text.category, text.amount, text.recipient) \in Plans
    BY <2>2, PlanIsPlan
  <2> QED
    BY <2>3 DEF PlanWorkflow, c, a, e
<1>6. CASE Input.handed /\ Input.consensus.approval
  <2>1. PlanGiven = Escalate(plan, Input.consensus)
    BY <1>3, <1>6
  <2> HIDE DEF plan
  <2> QED
    BY <1>4, <1>5, <1>6, <2>1 DEF Plans
<1>7. CASE ~Input.model.sure /\ Sensitive(text)
  <2>1. plan = PlanFor(text.category, text.amount, text.recipient)
    BY <1>7 DEF PlanWorkflow
  <2>2. text.amount \in Int /\ ApprovalThreshold \in Int
    BY <1>2, PlannerAssumption DEF Readings, NoAmount
  <2>3. NeedsApproval(text.category, text.amount, text.recipient)
    BY <1>7, <2>2 DEF Sensitive, NeedsApproval, Risk, Internal
  <2>4. plan.approval = NeedsApproval(text.category, text.amount, text.recipient)
    BY <2>1 DEF PlanFor
  <2> HIDE DEF plan
  <2> QED
    BY <1>3, <1>4, <1>5, <2>3, <2>4 DEF Plans
<1> QED
  BY <1>6, <1>7 DEF MustWait

\* A worker at its step, or past it, keeps its grant.
LEMMA GrantKept ==
    ASSUME Base, NEW r \in Runs, OwnGrant(r), setting' = setting,
           runs'[r].plan = runs[r].plan, approvals'[r] # "none" => approvals[r] # "none",
           worker'[r].at \in {worker[r].at, "idle", "guard", "settle", "report"} \cup Ends
    PROVE  OwnGrant(r)'
BY DEF OwnGrant, Carrying, Asking, Ends, PlanGiven, Input

LEMMA GrantStep == ASSUME Base, [Next]_vars, NEW r \in Runs, OwnGrant(r) PROVE OwnGrant(r)'
<1>1. setting' = setting /\ r \in Workers /\ Tables /\ NoRun # r
  BY Given, TablesTyped, WorkflowAssumption DEF Workers
<1>0. PlanGiven' = PlanGiven /\ Input' = Input
  BY <1>1 DEF PlanGiven, Input
<1>2. CASE Aside(r)
  BY <1>1, <1>2, GrantKept DEF Aside, Untouched
<1>3. ASSUME NEW w \in Workers, worker[w].run = r,
          Work(w) \/ FailCall(w) \/ Crash(w) PROVE OwnGrant(r)'
  <2>1. worker'[w].run = r /\ Alone(w) /\ worker[w].at \notin {"idle"} \cup Ends
    BY <1>3, WorkKeepsRun
  <2>2. CASE w # r
    <3>1. worker'[r] = worker[r] /\ w \in Reviewers /\ ReviewerRole(w) /\ approvals[r] # "none"
      BY <1>1, <1>3, <2>1, <2>2 DEF Alone, Base, Roles, ReviewerRole, OwnRole, Workers
    <3>2. runs'[r].plan = runs[r].plan
      <4>1. worker[w].at \notin {"classify", "customer"}
        BY <1>1, <1>3, <3>1 DEF ReviewerRole, Carrying, Ends
      <4> QED
        BY <1>1, <1>3, <4>1 DEF Work, FailCall, Crash, ReadDesk, CallTool, RefuseMove,
           ReadNumber, InsertStep,
             Classify, Begin, Attach, Settle, Report, tables, Tables, RunRec, RunOf
    <3> QED
      BY <1>1, <3>1, <3>2, GrantKept
  <2>3. CASE w = r
    <3>1. CASE ReadDesk(r) \/ RefuseMove(r) \/ ReadNumber(r) \/ FailCall(r)
      <4>1. worker[r].at \in Steps /\ runs' = runs
        BY <3>1 DEF ReadDesk, RefuseMove, ReadNumber, FailCall, InPhase, tables
      <4>2. \E new : Becomes(r, new) /\ Stays(r, new)
        BY <1>1, <3>1, <4>1, ReadDeskShape, AgainShape, ReadNumberShape DEF RefuseMove, FailCall
      <4>3. worker'[r].at = worker[r].at
        BY <1>1, <4>2 DEF Becomes, Stays, Tables
      <4>4. CASE approvals'[r] # "none" => approvals[r] # "none"
        BY <1>1, <4>1, <4>3, <4>4, GrantKept
      <4>5. CASE worker[r].at = "approval"
        BY <1>0, <1>1, <4>1, <4>3, <4>5 DEF OwnGrant, Asking, Carrying
      <4>6. approvals' = approvals \/ worker[r].at = "approval"
        BY <3>1 DEF ReadDesk, RefuseMove, ReadNumber, FailCall, tables, Effect
      <4> QED
        BY <4>4, <4>5, <4>6
    <3>2. CASE CallTool(r)
      <4>2. \E new : Becomes(r, new) /\ Stays(r, new)
        BY <1>1, <3>2, CallShape
      <4>3. worker'[r].at = worker[r].at
        BY <1>1, <4>2 DEF Becomes, Stays, Tables
      <4>4. runs'[r].plan = runs[r].plan
        BY <1>1, <1>3, <2>3, <3>2 DEF CallTool, Tables, RunRec, RunOf
      <4>5. CASE worker[r].at = "approval"
        BY <1>0, <1>1, <4>3, <4>4, <4>5 DEF OwnGrant, Asking, Carrying
      <4>6. CASE worker[r].at # "approval"
        BY <1>1, <3>2, <4>3, <4>4, <4>6, GrantKept DEF CallTool, Effect
      <4> QED
        BY <4>5, <4>6
    <3>3. CASE InsertStep(r)
      <4>1. PICK new : Becomes(r, new) /\ LeadsBefore(r, new) /\ LeadsAfter(r, new)
        BY <1>1, <3>3, InsertShape
      <4>2. worker'[r] = new /\ worker[r].at \in Steps /\ runs' = runs /\ approvals' = approvals
        BY <1>1, <3>3, <4>1 DEF Becomes, Tables, InsertStep, InPhase
      <4>3. worker[r].at \in {"guard", "plan", "interpret", "query", "update", "approval",
                "denied"} => OwnGrant(r)'
        BY <1>0, <1>1, <4>1, <4>2 DEF LeadsBefore, EndsAs, OwnGrant, Asking, Carrying
      <4>4. worker[r].at \in {"rag", "policy", "customer"} => OwnGrant(r)'
        BY <1>0, <1>1, <1>3, <2>3, <4>1, <4>2
           DEF LeadsBefore, OwnGrant, Asking, Carrying, PlanOf, RunOf
      <4>5. worker[r].at \in {"ticket", "notify", "sync", "draft", "send", "finalize"}
                => OwnGrant(r)'
        BY <1>0, <1>1, <4>1, <4>2 DEF LeadsAfter, EndsAs, OwnGrant, Asking, Carrying
      <4> QED
        BY <4>2, <4>3, <4>4, <4>5 DEF Steps
    <3>4. ASSUME NEW place \in Places, Goto(r, place) PROVE worker'[r].at = place
      BY <1>1, <3>4, GotoShape DEF Becomes, Goes, Tables
    <3>5. CASE Classify(r)
      <4>1. worker'[r].at = IF Input.command = "none" THEN "begin" ELSE "interpret"
        BY <3>4, <3>5 DEF Classify, Places, Steps, Silent
      <4>2. runs'[r].plan = PlanGiven /\ approvals' = approvals /\ worker[r].at = "classify"
        BY <1>1, <1>3, <2>3, <3>5 DEF Classify, Tables, RunRec, RunOf
      <4> QED
        BY <1>0, <1>1, <4>1, <4>2 DEF OwnGrant, Asking, Carrying
    <3>6. CASE Begin(r)
      <4>0. Input.command \in {"none", "query", "update"}
        BY InputTyped DEF Inputs
      <4>1. worker'[r].at = IF Input.command = "none" THEN "rag" ELSE Input.command
        BY <3>4, <3>6, <4>0 DEF Begin, Places, Steps
      <4>2. runs' = runs /\ approvals' = approvals /\ worker[r].at = "begin"
        BY <3>6 DEF Begin
      <4> QED
        BY <1>0, <1>1, <4>0, <4>1, <4>2 DEF OwnGrant, Asking, Carrying
    <3>7. CASE Attach(r)
      <4>1. worker'[r].at \in {"notify", "draft", "finalize"}
        BY <3>4, <3>7 DEF Attach, Replying, Places, Steps
      <4>2. runs'[r].plan = runs[r].plan /\ approvals' = approvals /\ worker[r].at = "attach"
        BY <1>1, <1>3, <2>3, <3>7 DEF Attach, Tables, RunRec, RunOf
      <4> QED
        BY <1>0, <1>1, <4>1, <4>2 DEF OwnGrant, Asking, Carrying
    <3>8. CASE Settle(r) \/ Report(r) \/ Crash(r)
      <4>1. worker'[r].at \in {"report"} \cup Ends
        BY <3>4, <3>8 DEF Settle, Report, Crash, Places, Silent, Ends
      <4>2. runs'[r].plan = runs[r].plan /\ approvals' = approvals
        <5>1. CASE Settle(r)
          BY <1>1, <1>3, <2>3, <5>1 DEF Settle, Tables, RunRec, RunOf
        <5>2. CASE Report(r) \/ Crash(r)
          BY <5>2 DEF Report, Crash, tables
        <5> QED
          BY <3>8, <5>1, <5>2
      <4> QED
        BY <1>1, <4>1, <4>2, GrantKept
    <3> QED
      BY <1>3, <2>3, <3>1, <3>2, <3>3, <3>5, <3>6, <3>7, <3>8 DEF Work
  <2> QED
    BY <2>2, <2>3
<1>4. CASE Start(r)
  <2>1. worker'[r].at = "guard"
    BY <1>1, <1>4, StartShape DEF Becomes, Tables
  <2>2. runs'[r].plan = runs[r].plan /\ approvals' = approvals
    BY <1>1, <1>4 DEF Start, Tables, RunRec
  <2> QED
    BY <1>1, <2>1, <2>2, GrantKept
<1>5. ASSUME NEW v \in Reviewers, NEW approved \in BOOLEAN, Decide(v, r, approved),
          approvals[r] = "pending"
      PROVE OwnGrant(r)'
  <2>1. worker'[r] = worker[r]
    BY <1>1, <1>5, DecideShape, WorkflowAssumption DEF Becomes, Tables
  <2>2. runs' = runs
    BY <1>5 DEF Decide
  <2> QED
    BY <1>1, <1>5, <2>1, <2>2, GrantKept
<1> QED
  BY <1>2, <1>3, <1>4, <1>5, StepKinds


\* An approval is asked for once and decided once.
LEMMA ApprovalMoves ==
    ASSUME Base, [Next]_vars, NEW r \in Runs
    PROVE  \/ approvals'[r] = approvals[r]
           \/ /\ approvals[r] = "none" /\ approvals'[r] = "pending"
              /\ worker[r].at = "approval" /\ (CallTool(r) \/ FailCall(r))
           \/ /\ approvals[r] = "pending" /\ approvals'[r] \in Judged
              /\ \E v \in Reviewers, approved \in BOOLEAN : Decide(v, r, approved)
<1>1. Tables /\ r \in Workers /\ NoRun # r /\ OwnRole(r)
  BY TablesTyped, WorkflowAssumption DEF Workers, Base, Roles
<1>2. CASE Aside(r)
  BY <1>2 DEF Aside, Untouched
<1>3. ASSUME NEW w \in Workers, worker[w].run = r, Work(w) \/ FailCall(w) \/ Crash(w),
             approvals' # approvals
      PROVE  /\ approvals[r] = "none" /\ approvals'[r] = "pending"
             /\ worker[r].at = "approval" /\ (CallTool(r) \/ FailCall(r))
  <2>1. CallTool(w) \/ FailCall(w)
    BY <1>3 DEF Work, Crash, ReadDesk, RefuseMove, ReadNumber, InsertStep, Classify, Begin,
       Attach, Settle,
         Report, tables
  <2>2. Effect(w) /\ worker[w].at = "approval" /\ worker[w].phase = "call"
    BY <1>3, <2>1 DEF CallTool, FailCall, Effect, InPhase
  <2>3. w = r
    BY <1>1, <1>3, <2>2 DEF Base, Roles, ReviewerRole, OwnRole, Carrying, Ends, Workers
  <2> QED
    BY <1>1, <1>3, <2>1, <2>2, <2>3 DEF Effect, RunOf, OwnRole, Parked, Ends, Tables
<1>4. CASE Start(r)
  BY <1>4 DEF Start
<1>5. ASSUME NEW v \in Reviewers, NEW approved \in BOOLEAN, Decide(v, r, approved),
          approvals[r] = "pending"
      PROVE  approvals'[r] \in Judged
  BY <1>1, <1>5 DEF Decide, Judged, Tables
<1> QED
  BY <1>2, <1>3, <1>4, <1>5, StepKinds

\* Who creates a ticket or sends a mail may do so.
LEMMA GrantsHold ==
    ASSUME Base, NEW r \in Runs, OwnGrant(r), NEW w \in Workers, worker[w].run = r,
           worker[w].at \in Carrying
    PROVE  /\ Input.safe /\ Input.command = "none"
           /\ MustWait => approvals[r] = "approved"
<1>1. r # NoRun
  BY WorkflowAssumption
<1>2. CASE w \in Runs
  <2>1. w = r
    BY <1>1, <1>2 DEF Base, Roles, OwnRole
  <2> QED
    BY <2>1, PlanHeedsPolicy DEF OwnGrant
<1>3. CASE w \in Reviewers
  BY <1>1, <1>3 DEF Base, Roles, ReviewerRole, OwnGrant, Carrying, Ends
<1> QED
  BY <1>2, <1>3 DEF Workers

LEMMA WarrantStep ==
    ASSUME Base, [Next]_vars, NEW r \in Runs, OwnGrant(r), Warranted(r)
    PROVE  Warranted(r)'
<1>1. setting' = setting /\ r \in Workers /\ Tables
  BY Given, TablesTyped DEF Workers
<1>2. Input' = Input /\ (MustWait' <=> MustWait)
  BY <1>1 DEF MustWait, Input
<1>3. approvals[r] = "approved" => approvals'[r] = "approved"
  BY ApprovalMoves
<1>k. (Acted(r)' => Acted(r)) => Warranted(r)'
  BY <1>2, <1>3 DEF Warranted
<1>c. ASSUME NEW w \in Workers, worker[w].run = r, worker[w].at \in Carrying PROVE Warranted(r)'
  BY <1>2, <1>3, <1>c, GrantsHold DEF Warranted
<1>4. CASE Aside(r)
  BY <1>4, <1>k DEF Aside, Untouched, Acted
<1>5. ASSUME NEW w \in Workers, worker[w].run = r,
          Work(w) \/ FailCall(w) \/ Crash(w) PROVE Warranted(r)'
  <2>1. CASE worker[w].at \in Carrying
    BY <1>5, <1>c, <2>1
  <2>2. CASE worker[w].at \notin Carrying
    <3>1. created' = created /\ mailed' = mailed
      BY <1>5, <2>2 DEF Work, FailCall, Crash, ReadDesk, CallTool, RefuseMove, ReadNumber,
         InsertStep, Classify, Begin, Attach, Settle, Report, outside, Effect, Carrying
    <3>2. CASE steps' = steps
      BY <1>k, <3>1, <3>2 DEF Acted
    <3>3. CASE InsertStep(w)
      <4> DEFINE row == [step |-> worker[w].at, number |-> worker[w].number,
                         ok |-> worker[w].result # "error"]
      <4>1. steps'[r] = Append(steps[r], row) /\ steps[r] \in Seq(StepRows)
        BY <1>1, <1>5, <3>3 DEF InsertStep, Tables, RunOf
      <4>2. row.step \notin {"ticket", "notify", "send"}
        BY <2>2 DEF Carrying
      <4> HIDE DEF row
      <4>3. \A i \in DOMAIN steps'[r] :
              steps'[r][i] = row \/ (i \in DOMAIN steps[r] /\ steps'[r][i] = steps[r][i])
        BY <4>1
      <4> QED
        BY <1>k, <3>1, <4>2, <4>3 DEF Acted
    <3> QED
      BY <1>5, <3>2, <3>3 DEF Work, FailCall, Crash, ReadDesk, CallTool, RefuseMove, ReadNumber,
             Classify, Begin, Attach, Settle, Report, tables
  <2> QED
    BY <2>1, <2>2
<1>6. CASE Start(r)
  BY <1>6, <1>k DEF Start, outside, Acted
<1>7. ASSUME NEW v \in Reviewers, NEW approved \in BOOLEAN,
          Decide(v, r, approved) PROVE Warranted(r)'
  BY <1>7, <1>k DEF Decide, outside, Acted
<1> QED
  BY <1>4, <1>5, <1>6, <1>7, StepKinds

\* A command that has looked at the ticket has seen what it is, as long as nobody
\* reassigns tickets.
Scope ==
    ~setting.handmade =>
        \A w \in Workers : worker[w].at = "update" /\ worker[w].phase = "call"
            => worker[w].seen = desk

LEMMA ScopeStep ==
    ASSUME Base, [Next]_vars, Scope, CommandsKeepScope
    PROVE  Scope' /\ CommandsKeepScope'
<1>1. setting' = setting /\ Tables /\ Input' = Input
  BY Given, TablesTyped DEF Input
<1>2. CASE setting.handmade
  BY <1>1, <1>2 DEF Scope, CommandsKeepScope
<1>3. CASE ~setting.handmade
  <2>1. UNCHANGED desk
    BY <1>3 DEF Next, Start, MoveTicket, Work, FailCall, Crash, Decide, Reassign, ReadDesk,
       CallTool, RefuseMove, ReadNumber, InsertStep, Classify, Begin, Attach, Settle, Report, tables,
             vars
  <2> DEFINE Knows(rec) == rec.at = "update" /\ rec.phase = "call" => rec.seen = desk
  <2>2. \A w \in Workers : Knows(worker[w])
    BY <1>3 DEF Scope
  <2>3. ASSUME NEW w \in Workers, NEW new, Becomes(w, new), Knows(new) PROVE Scope'
    BY <1>1, <2>1, <2>2, <2>3 DEF Becomes, Scope, Tables
  <2>4. CommandsKeepScope'
    <3>1. CASE UNCHANGED changes
      BY <1>1, <3>1 DEF CommandsKeepScope
    <3>2. ASSUME NEW w \in Workers, InPhase(w, "call"), Effect(w) PROVE CommandsKeepScope'
      <4>1. CASE UNCHANGED changes
        BY <1>1, <4>1 DEF CommandsKeepScope
      <4>2. CASE worker[w].at = "update" /\ CanView(w)
        <5>1. Input.sees \in {"all", desk}
          BY <2>2, <3>2, <4>2 DEF CanView, InPhase
        <5>2. PICK change \in {{}, {[by |-> Input.sees, department |-> desk]}} :
                changes' = changes \cup change
          BY <3>2, <4>2 DEF Effect
        <5> QED
          BY <1>1, <5>1, <5>2 DEF CommandsKeepScope
      <4> QED
        BY <3>2, <4>1, <4>2 DEF Effect
    <3> QED
      BY <3>1, <3>2 DEF Next, Start, MoveTicket, Work, FailCall, Crash, Decide, Reassign,
         ReadDesk, CallTool,
         RefuseMove, ReadNumber, InsertStep, Classify, Begin, Attach, Settle, Report, outside,
             vars
  <2>5. Scope'
    <3>1. ASSUME NEW w \in Workers, ReadDesk(w) PROVE Scope'
      BY <2>3, <3>1, ReadDeskShape
    <3>2. ASSUME NEW w \in Workers, CallTool(w) PROVE Scope'
      BY <2>3, <3>2, CallShape
    <3>3. ASSUME NEW w \in Workers, worker[w].at \in Steps, AttemptAgain(w) PROVE Scope'
      BY <2>3, <3>3, AgainShape DEF Stays, FirstPhase
    <3>4. ASSUME NEW w \in Workers, ReadNumber(w) PROVE Scope'
      BY <2>3, <3>4, ReadNumberShape
    <3>5. ASSUME NEW w \in Workers, InsertStep(w) PROVE Scope'
      BY <2>3, <3>5, InsertShape DEF FirstPhase
    <3>6. ASSUME NEW w \in Workers, NEW place \in Places, Goto(w, place) PROVE Scope'
      BY <2>3, <3>6, GotoShape DEF FirstPhase, Goes
    <3>7. ASSUME NEW w \in Workers,
              Classify(w) \/ Begin(w) \/ Attach(w) \/ Settle(w) \/ Report(w) \/ Crash(w)
          PROVE  Scope'
      <4>1. Input.command \in {"none", "query", "update"}
        BY InputTyped DEF Inputs
      <4>2. \E place \in {"begin", "interpret", "rag", "query", "update", "notify", "draft",
                "finalize", "done", "report", "crashed"} : Goto(w, place)
        BY <3>7, <4>1 DEF Classify, Begin, Attach, Settle, Report, Crash, Replying
      <4> QED
        BY <3>6, <4>2 DEF Places, Steps, Silent, Ends
    <3>8. ASSUME NEW r \in Runs, Start(r) PROVE Scope'
      BY <2>3, <3>8, StartShape DEF Workers
    <3>9. ASSUME NEW v \in Reviewers, NEW r \in Runs, NEW approved \in BOOLEAN,
              Decide(v, r, approved)
          PROVE  Scope'
      BY <2>3, <3>9, DecideShape DEF Workers
    <3>10. CASE UNCHANGED worker
      BY <1>1, <2>1, <3>10 DEF Scope
    <3> QED
      BY <3>1, <3>2, <3>3, <3>4, <3>5, <3>7, <3>8, <3>9, <3>10
         DEF Next, Work, RefuseMove, FailCall, InPhase, MoveTicket, Reassign, vars
  <2> QED
    BY <2>4, <2>5
<1> QED
  BY <1>2, <1>3


-----------------------------------------------------------------------------
(* The status of a run, and of its request.                                *)

\* Where reviewers wait for the pause, a run that was decided on is theirs alone.
InTurn(r) == ~setting.beforePark => (approvals[r] \in Judged => worker[r].at \in Ends)

Underway(r) == runs[r].status \in {"running", "waiting_approval"}

\* A run that nobody has ended is underway, and a worker tells the request what it
\* wrote to the run, unless a reviewer has come between.
Status(r) ==
    /\ worker[r].at = "idle" => runs[r].status = "none"
    /\ approvals[r] = "none" /\ worker[r].at \notin {"idle", "report"} \cup Ends
         => runs[r].status = "running"
    /\ approvals[r] = "pending" => Underway(r)
    /\ worker[r].at = "report" =>
         \/ worker[r].verdict = runs[r].status
         \/ worker[r].verdict = "waiting_approval" /\ approvals[r] \in Judged
    /\ \A v \in Reviewers : worker[v].run = r /\ worker[v].at \notin Ends => Underway(r)

\* The run that gave the request its status has no worker of its own any more.
Told ==
    request \notin {"new", "running"} =>
        \E r \in Runs : /\ worker[r].at = "done"
                        /\ \/ runs[r].status = request
                           \/ request = "waiting_approval" /\ approvals[r] \in Judged

\* A worker that has ended stays so.
LEMMA EndStays ==
    ASSUME Base, [Next]_vars, NEW r \in Runs, worker[r].at \in Ends
    PROVE  worker'[r] = worker[r]
<1>1. Tables /\ r \in Workers /\ r \notin Reviewers
  BY TablesTyped, WorkflowAssumption DEF Workers
<1>2. CASE Aside(r)
  BY <1>1, <1>2 DEF Aside
<1>3. ASSUME NEW w \in Workers, Work(w) \/ FailCall(w) \/ Crash(w) PROVE worker'[r] = worker[r]
  BY <1>1, <1>3, WorkKeepsRun DEF Alone
<1>4. CASE Start(r)
  BY <1>4 DEF Start, Ends
<1>5. ASSUME NEW v \in Reviewers, NEW approved \in BOOLEAN, Decide(v, r, approved)
      PROVE  worker'[r] = worker[r]
  BY <1>1, <1>5, DecideShape DEF Becomes, Tables
<1> QED
  BY <1>2, <1>3, <1>4, <1>5, StepKinds

LEMMA InTurnStep == ASSUME Base, [Next]_vars, NEW r \in Runs, InTurn(r) PROVE InTurn(r)'
<1>1. setting' = setting
  BY Given
<1>2. CASE worker[r].at \in Ends
  BY <1>2, EndStays DEF InTurn
<1>3. CASE approvals[r] = "pending" /\ \E v \in Reviewers,
          approved \in BOOLEAN : Decide(v, r, approved)
  BY <1>1, <1>2, <1>3 DEF InTurn, Decide, MayDecide
<1>4. CASE approvals'[r] = approvals[r] \/ approvals'[r] = "pending"
  BY <1>1, <1>2, <1>4 DEF InTurn, Judged
<1> QED
  BY <1>3, <1>4, ApprovalMoves

\* The status of a run is written when the run starts, and when a worker settles it.
LEMMA StatusMoves ==
    ASSUME Base, [Next]_vars, NEW r \in Runs
    PROVE  \/ runs'[r].status = runs[r].status
           \/ Start(r) /\ runs'[r].status = "running"
           \/ \E w \in Workers : /\ worker[w].run = r /\ Settle(w)
                                 /\ runs'[r].status = worker[w].verdict
<1>1. Tables
  BY TablesTyped
<1>2. CASE Aside(r)
  BY <1>2 DEF Aside, Untouched
<1>3. ASSUME NEW w \in Workers, worker[w].run = r, Work(w) \/ FailCall(w) \/ Crash(w)
      PROVE  runs'[r].status = runs[r].status
          \/ (Settle(w) /\ runs'[r].status = worker[w].verdict)
  <2>1. CASE Settle(w)
    BY <1>1, <1>3, <2>1 DEF Settle, Tables, RunRec, RunOf
  <2>2. CASE CallTool(w) \/ Classify(w) \/ Attach(w)
    BY <1>1, <1>3, <2>2 DEF CallTool, Classify, Attach, Tables, RunRec, RunOf
  <2>3. CASE UNCHANGED runs
    BY <2>3
  <2> QED
    BY <1>3, <2>1, <2>2, <2>3
       DEF Work, FailCall, Crash, ReadDesk, RefuseMove, ReadNumber, InsertStep,
         Begin, Report, tables
<1>4. CASE Start(r)
  BY <1>1, <1>4 DEF Start, Tables, RunRec
<1>5. ASSUME NEW v \in Reviewers, NEW approved \in BOOLEAN,
          Decide(v, r, approved) PROVE runs' = runs
  BY <1>5 DEF Decide
<1> QED
  BY <1>2, <1>3, <1>4, <1>5, StepKinds

\* Who settles a run finds it underway, if it was to be kept by its first end.
LEMMA SettlesUnderway ==
    ASSUME Base, NEW r \in Runs, Status(r), InTurn(r), ~setting.beforePark,
           NEW w \in Workers, worker[w].run = r, Settle(w)
    PROVE  Underway(r)
<1>1. worker[w].at = "settle" /\ NoRun # r /\ OwnRole(r)
  BY WorkflowAssumption DEF Settle, Base, Roles
<1>2. CASE w \in Runs
  <2>1. w = r
    BY <1>1, <1>2 DEF Base, Roles, OwnRole
  <2>2. approvals[r] \notin Judged
    BY <1>1, <2>1 DEF InTurn, Ends
  <2>3. approvals[r] \in {"none", "pending", "approved", "denied"}
    BY TablesTyped DEF Tables
  <2> QED
    BY <1>1, <2>1, <2>2, <2>3 DEF Status, Underway, Judged, Ends
<1>3. CASE w \in Reviewers
  BY <1>1, <1>3 DEF Status, Ends
<1> QED
  BY <1>2, <1>3 DEF Workers

\* How the worker of a run moves, as far as the status of the run is concerned.
LEMMA OwnMoves ==
    ASSUME Base, [Next]_vars, NEW r \in Runs
    PROVE  \/ worker'[r] = worker[r]
           \/ Start(r) /\ worker'[r].at = "guard"
           \/ /\ worker[r].at \notin {"idle", "settle", "report"} \cup Ends
              /\ worker'[r].at \notin {"idle", "report"}
           \/ /\ Settle(r) /\ worker[r].at = "settle" /\ worker'[r].at \in {"report", "done"}
              /\ worker'[r].verdict = worker[r].verdict
           \/ worker[r].at \notin {"idle"} \cup Ends /\ worker'[r].at \in {"done", "crashed"}
<1>1. Tables /\ r \in Workers /\ r \notin Reviewers
  BY TablesTyped, WorkflowAssumption DEF Workers
<1>2. CASE Aside(r)
  BY <1>1, <1>2 DEF Aside
<1>3. ASSUME NEW w \in Workers, w # r,
          Work(w) \/ FailCall(w) \/ Crash(w) PROVE worker'[r] = worker[r]
  BY <1>1, <1>3, WorkKeepsRun DEF Alone
<1>4. ASSUME Work(r) \/ FailCall(r) \/ Crash(r)
      PROVE \/ /\ worker[r].at \notin {"idle", "settle", "report"} \cup Ends
               /\ worker'[r].at \notin {"idle", "report"}
            \/ /\ Settle(r) /\ worker[r].at = "settle" /\ worker'[r].at \in {"report", "done"}
               /\ worker'[r].verdict = worker[r].verdict
            \/ worker[r].at \notin {"idle"} \cup Ends /\ worker'[r].at \in {"done", "crashed"}
  <2>1. ASSUME NEW place \in Places, Goto(r, place)
        PROVE  worker'[r].at = place /\ worker'[r].verdict = worker[r].verdict
    BY <1>1, <2>1, GotoShape DEF Becomes, Goes, Tables
  <2>2. CASE ReadDesk(r) \/ CallTool(r) \/ RefuseMove(r) \/ ReadNumber(r) \/ FailCall(r)
    <3>1. worker[r].at \in Steps
      BY <2>2 DEF ReadDesk, CallTool, RefuseMove, ReadNumber, FailCall, InPhase
    <3>2. \E new : Becomes(r, new) /\ Stays(r, new)
      BY <1>1, <2>2, <3>1, ReadDeskShape, CallShape, AgainShape, ReadNumberShape
         DEF RefuseMove, FailCall
    <3> QED
      BY <1>1, <3>1, <3>2 DEF Becomes, Stays, Tables, Steps, Ends
  <2>3. CASE InsertStep(r)
    <3>1. PICK new : Becomes(r, new) /\ LeadsBefore(r, new) /\ LeadsAfter(r, new)
      BY <1>1, <2>3, InsertShape
    <3>2. worker'[r] = new /\ worker[r].at \in Steps
      BY <1>1, <2>3, <3>1 DEF Becomes, Tables, InsertStep, InPhase
    <3> QED
      BY <3>1, <3>2 DEF LeadsBefore, LeadsAfter, EndsAs, Steps, Ends
  <2>4. CASE Classify(r) \/ Begin(r) \/ Attach(r)
    <3>1. Input.command \in {"none", "query", "update"}
      BY InputTyped DEF Inputs
    <3>2. \E place \in {"begin", "interpret", "rag", "query", "update", "notify", "draft",
              "finalize"} :
            Goto(r, place)
      BY <2>4, <3>1 DEF Classify, Begin, Attach, Replying
    <3> QED
      BY <2>1, <2>4, <3>2 DEF Classify, Begin, Attach, Places, Steps, Silent, Ends
  <2>5. CASE Settle(r) \/ Report(r) \/ Crash(r)
    BY <2>1, <2>5 DEF Settle, Report, Crash, Places, Silent, Ends
  <2> QED
    BY <1>4, <2>2, <2>3, <2>4, <2>5 DEF Work
<1>5. CASE Start(r)
  BY <1>1, <1>5, StartShape DEF Becomes, Tables
<1>6. ASSUME NEW v \in Reviewers, NEW approved \in BOOLEAN, Decide(v, r, approved)
      PROVE  worker'[r] = worker[r]
  BY <1>1, <1>6, DecideShape DEF Becomes, Tables
<1> QED
  BY <1>2, <1>3, <1>4, <1>5, <1>6, StepKinds


\* A reviewer's worker has been at work on the run, or has just been let in.
LEMMA ReviewerMoves ==
    ASSUME Base, [Next]_vars, NEW r \in Runs, NEW v \in Reviewers,
           worker'[v].run = r, worker'[v].at \notin Ends
    PROVE  (worker[v].run = r /\ worker[v].at \notin Ends) \/ approvals[r] = "pending"
<1>1. Tables /\ v \in Workers /\ NoRun # r /\ ReviewerRole(v) /\ v # r
  BY TablesTyped, WorkflowAssumption DEF Workers, Base, Roles
<1>2. CASE Aside(r)
  BY <1>1, <1>2 DEF Aside
<1>3. ASSUME NEW w \in Workers, Work(w) \/ FailCall(w) \/ Crash(w)
      PROVE  worker[v].run = r /\ worker[v].at \notin Ends
  BY <1>1, <1>3, WorkKeepsRun DEF Alone
<1>4. CASE Start(r)
  BY <1>1, <1>4, StartShape DEF Becomes, Tables
<1> QED
  BY <1>2, <1>3, <1>4, StepKinds

LEMMA StatusStep ==
    ASSUME Base, [Next]_vars, NEW r \in Runs, Status(r)
    PROVE  Status(r)'
<1>1. Tables /\ r \in Workers /\ r \notin Reviewers /\ NoRun # r /\ OwnRole(r)
  BY TablesTyped, WorkflowAssumption DEF Workers, Base, Roles
<1>2. ASSUME NEW w \in Workers, w # r, worker[w].run = r
      PROVE  w \in Reviewers /\ approvals[r] \in Judged
  BY <1>1, <1>2 DEF Base, Roles, OwnRole, ReviewerRole, Judged, Workers
<1>3. \/ runs'[r].status = runs[r].status
      \/ Start(r) /\ runs'[r].status = "running"
      \/ Settle(r) /\ runs'[r].status = worker[r].verdict
      \/ /\ approvals[r] \in Judged
         /\ \E v \in Reviewers : worker[v].run = r /\ Settle(v)
  BY <1>2, StatusMoves
<1>4. Settle(r) => worker[r].at = "settle" /\ worker'[r].at \in {"report", "done"}
          /\ worker[r].run = r
  <2> SUFFICES ASSUME Settle(r) PROVE worker[r].at = "settle"
          /\ worker'[r].at \in {"report", "done"} /\ worker[r].run = r
    OBVIOUS
  <2>1. worker[r].at = "settle" /\ worker[r].run = r
    BY <1>1 DEF Settle, OwnRole
  <2>2. \E place \in {"report", "done"} : Goto(r, place)
    BY DEF Settle
  <2>3. worker'[r].at \in {"report", "done"}
    BY <1>1, <2>2, GotoShape DEF Becomes, Goes, Tables, Places, Silent, Ends
  <2> QED
    BY <2>1, <2>3
<1>5. Start(r) => worker[r].at = "idle" /\ approvals[r] = "none"
  BY <1>1 DEF Start, OwnRole, Parked, Ends
<1>6. /\ approvals[r] \in {"none", "pending", "approved", "denied"}
      /\ approvals[r] # "none" => Parked(r)
  BY <1>1 DEF Tables, OwnRole
<1>g. Start(r) => worker'[r].at = "guard"
  BY <1>1, StartShape DEF Becomes, Tables
<1>7. (worker[r].at = "idle" => runs[r].status = "none")'
  <2> SUFFICES ASSUME worker'[r].at = "idle" PROVE runs'[r].status = "none"
    OBVIOUS
  <2>1. worker'[r] = worker[r]
    BY OwnMoves
  <2>2. worker[r].at = "idle" /\ approvals[r] \notin Judged
    BY <1>6, <2>1 DEF Judged, Parked, Ends
  <2>3. ~Start(r)
    BY <2>1, <2>2, <1>g
  <2> QED
    BY <1>3, <1>4, <2>2, <2>3 DEF Status
<1>8. (approvals[r] = "none" /\ worker[r].at \notin {"idle", "report"} \cup Ends
         => runs[r].status = "running")'
  <2>1. approvals'[r] = "none" => approvals[r] = "none"
    BY ApprovalMoves DEF Judged
  <2> QED
    <3> SUFFICES ASSUME approvals'[r] = "none",
            worker'[r].at \notin {"idle", "report"} \cup Ends
                 PROVE  runs'[r].status = "running"
      OBVIOUS
    <3>1. approvals[r] = "none" /\ ~Settle(r)
      BY <1>4, <2>1 DEF Ends
    <3>2. Start(r) \/ worker[r].at \notin {"idle", "report"} \cup Ends
      BY OwnMoves DEF Ends
    <3>3. Start(r) => runs'[r].status = "running"
      BY <1>1 DEF Start, Tables, RunRec
    <3> QED
      BY <1>3, <3>1, <3>2, <3>3 DEF Status, Judged
<1>9. (approvals[r] = "pending" => Underway(r))'
  <2> SUFFICES ASSUME approvals'[r] = "pending" PROVE Underway(r)'
    OBVIOUS
  <2>1. \/ approvals[r] = "none" /\ worker[r].at = "approval"
        \/ approvals[r] = "pending"
    BY ApprovalMoves DEF Judged
  <2>2. Underway(r)
    BY <2>1 DEF Status, Underway, Ends
  <2>3. Settle(r) => worker[r].verdict = "waiting_approval"
    BY <1>4, <1>6, <2>1 DEF Parked, Ends
  <2> QED
    BY <1>3, <2>1, <2>2, <2>3 DEF Underway, Judged
<1>10. (worker[r].at = "report" =>
          \/ worker[r].verdict = runs[r].status
          \/ worker[r].verdict = "waiting_approval" /\ approvals[r] \in Judged)'
  <2> SUFFICES ASSUME worker'[r].at = "report"
               PROVE  \/ worker'[r].verdict = runs'[r].status
                      \/ worker'[r].verdict = "waiting_approval" /\ approvals'[r] \in Judged
    OBVIOUS
  <2>1. approvals[r] \in Judged => approvals'[r] \in Judged
    BY ApprovalMoves DEF Judged
  <2>2. CASE worker'[r] = worker[r]
    <3>1. ~Settle(r) /\ ~Start(r)
      BY <1>4, <1>5, <2>2
    <3>2. CASE runs'[r].status = runs[r].status
      BY <2>1, <2>2, <3>2 DEF Status
    <3>3. CASE approvals[r] \in Judged
      BY <1>6, <2>1, <2>2, <3>3 DEF Parked, Judged, Ends
    <3> QED
      BY <1>3, <3>1, <3>2, <3>3
  <2>3. CASE Settle(r) /\ worker'[r].verdict = worker[r].verdict
    BY <1>1, <1>4, <2>3 DEF Settle, RunOf, Tables, RunRec
  <2> QED
    BY <2>2, <2>3, OwnMoves
<1>11. ASSUME NEW v \in Reviewers, worker'[v].run = r,
           worker'[v].at \notin Ends PROVE Underway(r)'
  <2>1. (worker[v].run = r /\ worker[v].at \notin Ends) \/ approvals[r] = "pending"
    BY <1>11, ReviewerMoves
  <2>2. Underway(r)
    BY <2>1 DEF Status
  <2>3. approvals[r] # "none"
    BY <1>1, <2>1 DEF Base, Roles, ReviewerRole
  <2>4. Settle(r) => worker[r].verdict = "waiting_approval"
    BY <1>4, <1>6, <2>3 DEF Parked, Ends
  <2>5. ASSUME NEW u \in Reviewers, worker[u].run = r, Settle(u) PROVE FALSE
    <3>1. Goto(u, "done") /\ u \in Workers /\ worker[u].at = "settle"
      BY <2>5 DEF Settle, Workers
    <3>2. worker'[u].at = "done" /\ \A t \in Workers : t # u => worker'[t] = worker[t]
      BY <1>1, <3>1, GotoShape DEF Becomes, Goes, Tables, Places, Ends
    <3>3. v # u
      BY <1>11, <3>2 DEF Ends
    <3>4. worker[v].run = r
      BY <1>11, <3>2, <3>3 DEF Workers
    <3> QED
      BY <1>1, <2>5, <3>3, <3>4 DEF Base, Roles
  <2> QED
    BY <1>3, <2>2, <2>4, <2>5 DEF Underway
<1> QED
  BY <1>7, <1>8, <1>9, <1>10, <1>11 DEF Status

LEMMA ToldStep ==
    ASSUME Base, [Next]_vars, \A r \in Runs : Status(r), Told
    PROVE  Told'
<1>1. Tables
  BY TablesTyped
<1>2. ASSUME UNCHANGED request PROVE Told'
  <2> SUFFICES ASSUME request \notin {"new", "running"} PROVE Told'
    BY <1>2 DEF Told
  <2>1. PICK r \in Runs : /\ worker[r].at = "done"
                          /\ \/ runs[r].status = request
                             \/ request = "waiting_approval" /\ approvals[r] \in Judged
    BY DEF Told
  <2>2. worker'[r] = worker[r] /\ r \in Workers /\ r \notin Reviewers
    BY <2>1, EndStays, WorkflowAssumption DEF Ends, Workers
  <2>3. approvals[r] \in Judged => approvals'[r] \in Judged
    BY ApprovalMoves DEF Judged
  <2>4. CASE runs'[r].status = runs[r].status
    BY <1>2, <2>1, <2>2, <2>3, <2>4 DEF Told
  <2>5. ASSUME NEW w \in Workers, worker[w].run = r, Settle(w) PROVE Told'
    <3>1. w \in Reviewers /\ worker[w].at = "settle" /\ r # NoRun
      BY <2>1, <2>2, <2>5, WorkflowAssumption DEF Settle, Base, Roles, OwnRole, Workers
    <3>2. approvals[r] \in Judged /\ Underway(r)
      BY <2>5, <3>1 DEF Base, Roles, ReviewerRole, Status, Judged, Ends
    <3>3. request = "waiting_approval"
      BY <2>1, <3>2 DEF Underway
    <3> QED
      BY <1>2, <2>1, <2>2, <2>3, <3>2, <3>3 DEF Told
  <2>6. ~Start(r)
    BY <2>1 DEF Start
  <2> QED
    BY <2>4, <2>5, <2>6, StatusMoves
<1>3. ASSUME NEW w \in Workers, Begin(w) PROVE Told'
  BY <1>3 DEF Begin, Told
<1>4. ASSUME NEW w \in Workers, Report(w) PROVE Told'
  <2>1. w \in Runs
    BY <1>4 DEF Report, Base, Roles, ReviewerRole, Carrying, Ends, Workers
  <2>2. worker'[w].at = "done" /\ runs' = runs /\ approvals' = approvals
            /\ request' = worker[w].verdict
    BY <1>1, <1>4, GotoShape DEF Report, Becomes, Goes, Tables, Places, Ends
  <2>3. \/ worker[w].verdict = runs[w].status
        \/ worker[w].verdict = "waiting_approval" /\ approvals[w] \in Judged
    BY <1>4, <2>1 DEF Status, Report
  <2> QED
    BY <2>1, <2>2, <2>3 DEF Told
<1> QED
  BY <1>2, <1>3, <1>4
     DEF Next, Start, MoveTicket, Work, FailCall, Crash, Decide, Reassign, ReadDesk, CallTool,
         RefuseMove, ReadNumber, InsertStep, Classify, Attach, Settle, vars, tables

-----------------------------------------------------------------------------
(* The story told by the steps.                                            *)

StepsInOrder(r) == \A i \in DOMAIN steps[r] : steps[r][i].number = i

\* A worker about to insert a row has the number of its place, as long as nobody
\* works beside it.
Counted(r) ==
    ~setting.beforePark =>
        /\ StepsInOrder(r)
        /\ \A w \in Workers :
            worker[w].run = r /\ worker[w].at \in Steps /\ worker[w].phase = "insert"
              => worker[w].number = Len(steps[r]) + 1

\* Then no two workers are at steps of the same run.
LEMMA OneAtWork ==
    ASSUME Base, NEW r \in Runs, InTurn(r), ~setting.beforePark,
           NEW u \in Workers, NEW w \in Workers, worker[u].run = r, worker[w].run = r,
           worker[u].at \in Steps, worker[w].at \in Steps
    PROVE  u = w
<1>1. NoRun # r /\ \A s \in Runs : s \notin Reviewers
  BY WorkflowAssumption
<1>2. ASSUME NEW t \in Workers, worker[t].run = r, worker[t].at \in Steps
      PROVE  IF approvals[r] \in Judged THEN t \in Reviewers ELSE t = r
  BY <1>1, <1>2 DEF InTurn, Base, Roles, OwnRole, ReviewerRole, Judged, Steps, Ends, Workers
<1> QED
  BY <1>1, <1>2 DEF Base, Roles

LEMMA CountedStep ==
    ASSUME Base, [Next]_vars, NEW r \in Runs, InTurn(r), Counted(r)
    PROVE  Counted(r)'
<1>1. setting' = setting /\ Tables /\ NoRun # r
  BY Given, TablesTyped, WorkflowAssumption
<1> SUFFICES ASSUME ~setting.beforePark PROVE Counted(r)'
  BY <1>1 DEF Counted
<1>2. StepsInOrder(r)
  BY DEF Counted
<1> DEFINE Knows(rec) == rec.at \in Steps /\ rec.phase = "insert"
        => rec.number = Len(steps[r]) + 1
<1>3. \A w \in Workers : worker[w].run = r => Knows(worker[w])
  BY DEF Counted
<1>4. CASE Aside(r)
  BY <1>1, <1>2, <1>3, <1>4 DEF Aside, Untouched, Counted, StepsInOrder
<1>5. ASSUME NEW w \in Workers, NEW new, Becomes(w, new), new.run = r
          => Knows(new), steps'[r] = steps[r]
      PROVE  Counted(r)'
  <2>1. worker'[w] = new /\ \A u \in Workers : u # w => worker'[u] = worker[u]
    BY <1>1, <1>5 DEF Becomes, Tables
  <2> QED
    BY <1>1, <1>2, <1>3, <1>5, <2>1 DEF Counted, StepsInOrder
<1>6. ASSUME NEW w \in Workers, worker[w].run = r,
          Work(w) \/ FailCall(w) \/ Crash(w) PROVE Counted(r)'
  <2>1. CASE InsertStep(w)
    <3>1. PICK new : Becomes(w, new) /\ new.run = r /\ new.phase = FirstPhase(new.at)
      BY <1>6, <2>1, InsertShape
    <3>2. worker'[w] = new /\ \A u \in Workers : u # w => worker'[u] = worker[u]
      BY <1>1, <3>1 DEF Becomes, Tables
    <3> DEFINE row == [step |-> worker[w].at, number |-> worker[w].number,
                       ok |-> worker[w].result # "error"]
    <3>3. steps'[r] = Append(steps[r], row) /\ steps[r] \in Seq(StepRows)
      BY <1>1, <1>6, <2>1 DEF InsertStep, Tables, RunOf
    <3>4. row.number = Len(steps[r]) + 1 /\ worker[w].at \in Steps
      BY <1>3, <1>6, <2>1 DEF InsertStep, InPhase
    <3>5. StepsInOrder(r)'
      <4> HIDE DEF row
      <4>1. \A i \in DOMAIN steps'[r] : \/ i \in DOMAIN steps[r] /\ steps'[r][i] = steps[r][i]
                                        \/ i = Len(steps[r]) + 1 /\ steps'[r][i] = row
        BY <3>3
      <4> QED
        BY <1>2, <3>4, <4>1 DEF StepsInOrder
    <3>6. ASSUME NEW u \in Workers, worker'[u].run = r, worker'[u].at \in Steps,
              worker'[u].phase = "insert"
          PROVE  FALSE
      <4>1. u # w
        BY <3>1, <3>2, <3>6 DEF FirstPhase
      <4> QED
        BY <1>6, <3>2, <3>4, <3>6, <4>1, OneAtWork
    <3> QED
      BY <3>5, <3>6 DEF Counted
  <2>2. CASE ~InsertStep(w)
    <3>1. steps' = steps
      BY <1>6, <2>2 DEF Work, FailCall, Crash, ReadDesk, CallTool, RefuseMove, ReadNumber,
           Classify, Begin, Attach, Settle, Report, tables
    <3>2. CASE ReadNumber(w)
      <4>1. PICK new : Becomes(w, new) /\ new.number = LastNumber(r) + 1
        BY <1>6, <3>2, ReadNumberShape
      <4>2. LastNumber(r) = Len(steps[r])
        <5>1. /\ LastNumber(r) \in Nat
              /\ \A i \in DOMAIN steps[r] : steps[r][i].number <= LastNumber(r)
              /\ steps[r] # <<>> => \E i \in DOMAIN steps[r] : LastNumber(r) = steps[r][i].number
          BY LastNumberIsOne
        <5>2. steps[r] \in Seq(StepRows)
          BY <1>1 DEF Tables
        <5>3. CASE steps[r] = <<>>
          BY <5>3 DEF LastNumber
        <5>4. CASE steps[r] # <<>>
          <6>1. \A i \in DOMAIN steps[r] : i <= LastNumber(r)
            BY <1>2, <5>1 DEF StepsInOrder
          <6>2. LastNumber(r) \in DOMAIN steps[r]
            BY <1>2, <5>1, <5>4 DEF StepsInOrder
          <6>3. Len(steps[r]) \in DOMAIN steps[r] /\ DOMAIN steps[r] = 1..Len(steps[r])
                /\ Len(steps[r]) \in Nat
            BY <5>2, <5>4
          <6> QED
            BY <5>1, <6>1, <6>2, <6>3
        <5> QED
          BY <5>3, <5>4
      <4> QED
        BY <1>5, <3>1, <4>1, <4>2
    <3>3. CASE ReadDesk(w) \/ CallTool(w)
      BY <1>5, <3>1, <3>3, ReadDeskShape, CallShape
    <3>4. CASE worker[w].at \in Steps /\ AttemptAgain(w)
      BY <1>5, <3>1, <3>4, AgainShape DEF FirstPhase
    <3>5. CASE Classify(w) \/ Begin(w) \/ Attach(w) \/ Settle(w) \/ Report(w) \/ Crash(w)
      <4>1. Input.command \in {"none", "query", "update"}
        BY InputTyped DEF Inputs
      <4>2. PICK place \in {"begin", "interpret", "rag", "query", "update", "notify", "draft",
                "finalize", "done", "report", "crashed"} : Goto(w, place)
        BY <3>5, <4>1 DEF Classify, Begin, Attach, Settle, Report, Crash, Replying
      <4>3. PICK new : Becomes(w, new) /\ Goes(w, new, place)
        BY <4>2, GotoShape DEF Places, Steps, Silent, Ends
      <4> QED
        BY <1>5, <3>1, <4>3 DEF Goes, FirstPhase
    <3> QED
      BY <1>6, <2>2, <3>2, <3>3, <3>4, <3>5 DEF Work, RefuseMove, FailCall, InPhase
  <2> QED
    BY <2>1, <2>2
<1>7. CASE Start(r)
  BY <1>5, <1>7, StartShape DEF Start, Workers
<1>8. ASSUME NEW v \in Reviewers, NEW approved \in BOOLEAN,
          Decide(v, r, approved) PROVE Counted(r)'
  <2>1. \E new : Becomes(v, new) /\ (new.phase = "call" \/ new.at = "done")
    BY <1>8, DecideShape
  <2>2. v \in Workers /\ steps'[r] = steps[r] /\ "done" \notin Steps
    BY <1>8 DEF Decide, Workers, Steps
  <2> QED
    BY <1>5, <2>1, <2>2
<1> QED
  BY <1>4, <1>6, <1>7, <1>8, StepKinds


-----------------------------------------------------------------------------
(* What a run has done.                                                    *)

\* The part of a run before its own worker reaches the ticket.
Early ==
    {"idle", "guard", "plan", "classify", "interpret", "begin", "query", "update"} \cup Asking

Clean(r) == \A i \in DOMAIN steps[r] : steps[r][i].ok \/ steps[r][i].step \notin Failing

Mailing(r) ==
    runs[r].plan.category \in CustomerFacing /\ (runs[r].plan.recipient \/ runs[r].known)

Opened(r) == created[r] = 1 /\ tickets[r] # NoTicket

Finished(r) ==
    /\ Opened(r) /\ runs[r].attached /\ Clean(r)
    /\ Mailing(r) => mailed[r] = 1

\* How far a worker that is where rec says has brought run r.
Progress(r, rec) ==
    /\ rec.at \in Carrying => Clean(r)
    /\ rec.at = "ticket" /\ rec.phase \in {"read", "call"} => created[r] = 0
    /\ rec.at = "ticket" /\ rec.phase \in {"number", "insert"} /\ rec.result # "error"
         => Opened(r)
    /\ rec.at \in Carrying \ {"ticket"} => Opened(r)
    /\ rec.at \in Carrying \ {"ticket", "attach"} => runs[r].attached
    /\ rec.at \in Carrying \ {"send", "finalize"} => mailed[r] = 0
    /\ rec.at = "send" /\ rec.phase \in {"read", "call"} => mailed[r] = 0
    /\ rec.at = "send" /\ rec.phase \in {"number", "insert"} /\ rec.result # "error"
         => mailed[r] = 1
    /\ rec.at = "finalize" /\ Mailing(r) => mailed[r] = 1
    /\ rec.at = "settle" /\ rec.verdict = "completed" /\ Input.command = "none" => Finished(r)

\* Nothing was asked, or asked and not answered.
Fresh(r) == (worker[r].at \in Early /\ approvals[r] = "none") \/ approvals[r] = "pending"

Done(r) ==
    /\ created[r] <= 1 /\ mailed[r] <= 1
    /\ \A w \in Workers : worker[w].run = r => Progress(r, worker[w])
    /\ Fresh(r) \/ approvals[r] = "denied" => created[r] = 0 /\ mailed[r] = 0
    /\ Fresh(r) /\ Input.command = "none" => Clean(r)
    /\ runs[r].status = "completed" /\ Input.command = "none" => Finished(r)

\* A worker that is not at the ticket, nor past it on the way to completion, has
\* nothing to show.
LEMMA NothingToShow ==
    ASSUME NEW r, NEW rec, rec.at \notin Carrying,
        ~(rec.at = "settle" /\ rec.verdict = "completed")
    PROVE  Progress(r, rec)
BY DEF Progress, Carrying

LEMMA NothingToShowNext ==
    ASSUME NEW r, NEW rec, rec.at \notin Carrying,
        ~(rec.at = "settle" /\ rec.verdict = "completed")
    PROVE  Progress(r, rec)'
BY DEF Progress, Carrying

LEMMA ParkedShowsNothing ==
    ASSUME NEW r, Parked(r) PROVE Progress(r, worker[r])
BY NothingToShow DEF Parked, Carrying, Ends

\* Only the row that a worker inserts can spoil a clean record.
LEMMA CleanStep ==
    ASSUME Base, [Next]_vars, NEW w \in Workers, Work(w) \/ FailCall(w) \/ Crash(w),
           NEW r \in Runs, worker[w].run = r, Clean(r),
           InsertStep(w) => worker[w].result # "error" \/ worker[w].at \notin Failing
    PROVE  Clean(r)'
<1>1. Tables
  BY TablesTyped
<1>2. CASE InsertStep(w)
  <2> DEFINE row == [step |-> worker[w].at, number |-> worker[w].number,
                     ok |-> worker[w].result # "error"]
  <2>1. steps'[r] = Append(steps[r], row) /\ steps[r] \in Seq(StepRows)
    BY <1>1, <1>2 DEF InsertStep, Tables, RunOf
  <2>2. row.ok \/ row.step \notin Failing
    BY <1>2
  <2> HIDE DEF row
  <2>3. \A i \in DOMAIN steps'[r] :
          steps'[r][i] = row \/ (i \in DOMAIN steps[r] /\ steps'[r][i] = steps[r][i])
    BY <2>1
  <2> QED
    BY <2>2, <2>3 DEF Clean
<1>3. CASE steps' = steps
  BY <1>3 DEF Clean
<1> QED
  BY <1>2, <1>3 DEF Work, FailCall, Crash, ReadDesk, CallTool, RefuseMove, ReadNumber,
       Classify, Begin, Attach, Settle, Report, tables

\* Outside the carrying part nothing is done to the ticket or the mail.
LEMMA IdleHands ==
    ASSUME Base, NEW w \in Workers, Work(w) \/ FailCall(w) \/ Crash(w),
           NEW r \in Runs, worker[w].run = r, worker[w].at \notin Carrying
    PROVE  /\ created' = created /\ mailed' = mailed /\ tickets' = tickets
           /\ runs'[r].attached = runs[r].attached
           /\ worker[w].at \notin {"classify", "customer"} => (Mailing(r)' <=> Mailing(r))
<1>1. Tables
  BY TablesTyped
<1>2. created' = created /\ mailed' = mailed /\ tickets' = tickets
  BY DEF Work, FailCall, Crash, ReadDesk, CallTool, RefuseMove, ReadNumber, InsertStep,
         Classify, Begin, Attach, Settle, Report, outside, tables, Effect, Carrying
<1>3. CASE UNCHANGED runs
  BY <1>2, <1>3 DEF Mailing
<1>4. CASE CallTool(w)
  <2>1. runs'[r].attached = runs[r].attached /\ (worker[w].at # "customer" => runs' = runs)
    BY <1>1, <1>4 DEF CallTool, Tables, RunRec, RunOf
  <2> QED
    BY <1>2, <2>1 DEF Mailing
<1>5. CASE Classify(w)
  BY <1>1, <1>2, <1>5 DEF Classify, Tables, RunRec, RunOf
<1>6. CASE Settle(w)
  <2>1. /\ runs'[r].attached = runs[r].attached /\ runs'[r].plan = runs[r].plan
        /\ runs'[r].known = runs[r].known
    BY <1>1, <1>6 DEF Settle, Tables, RunRec, RunOf
  <2> QED
    BY <1>2, <2>1 DEF Mailing
<1> QED
  BY <1>3, <1>4, <1>5, <1>6
     DEF Work, FailCall, Crash, ReadDesk, RefuseMove, ReadNumber, InsertStep, Begin, Attach,
         Report, tables, Carrying

\* What is done to a run stays as it is for its other worker.
LEMMA ProgressKept ==
    ASSUME NEW r, NEW rec, Progress(r, rec), Input' = Input,
           created'[r] = created[r], mailed'[r] = mailed[r],
               tickets'[r] = NoTicket <=> tickets[r] = NoTicket,
           runs'[r].attached = runs[r].attached, Mailing(r)' <=> Mailing(r), Clean(r)
               => Clean(r)'
    PROVE  Progress(r, rec)'
BY DEF Progress, Opened, Finished

LEMMA EffectOnRun ==
    ASSUME Base, NEW w \in Workers, NEW r \in Runs, worker[w].run = r,
        worker[w].at \in Carrying, Effect(w)
    PROVE  /\ created'[r] = IF worker[w].at = "ticket" THEN created[r] + 1 ELSE created[r]
           /\ mailed'[r] = IF worker[w].at = "send" THEN mailed[r] + 1 ELSE mailed[r]
           /\ worker[w].at = "ticket" => tickets'[r] # NoTicket
           /\ tickets[r] # NoTicket => tickets'[r] # NoTicket
           /\ approvals' = approvals
<1>1. Tables
  BY TablesTyped
<1>2. FinalTicketStatus(w) # NoTicket
  <2>1. runs[r].plan \in Plans \cup {NoPlan}
    BY <1>1 DEF Tables, RunRec
  <2>2. runs[r].plan.final \in {"investigating", "approved", "open", "waiting_customer"}
    BY <2>1 DEF Plans, NoPlan
  <2> QED
    BY <2>2 DEF FinalTicketStatus, PlanOf, RunOf, NoTicket
<1>3. "open" # NoTicket
  BY DEF NoTicket
<1>4. created'[r] = IF worker[w].at = "ticket" THEN created[r] + 1 ELSE created[r]
  BY <1>1 DEF Effect, RunOf, Tables
<1>5. mailed'[r] = IF worker[w].at = "send" THEN mailed[r] + 1 ELSE mailed[r]
  BY <1>1 DEF Effect, RunOf, Tables
<1>6. /\ worker[w].at = "ticket" => tickets'[r] # NoTicket
      /\ tickets[r] # NoTicket => tickets'[r] # NoTicket
  BY <1>1, <1>2, <1>3 DEF Effect, RunOf, Tables
<1>7. approvals' = approvals
  BY DEF Effect, Carrying
<1> QED
  BY <1>4, <1>5, <1>6, <1>7


\* A step of a worker at the ticket, or past it.
LEMMA CarryStep ==
    ASSUME Base, [Next]_vars, NEW w \in Workers, Work(w) \/ FailCall(w) \/ Crash(w),
           NEW r \in Runs, worker[w].run = r, worker[w].at \in Carrying,
           created[r] <= 1, mailed[r] <= 1, Progress(r, worker[w]),
           NEW next, worker'[w] = next
    PROVE  /\ Progress(r, next)' /\ created'[r] <= 1 /\ mailed'[r] <= 1
           /\ next.at \notin Early
           /\ runs'[r].status = runs[r].status
<1> DEFINE rec == worker[w]
<1>1. Tables /\ Input' = Input /\ rec \in WorkerRec
  BY TablesTyped, Given DEF Input, Tables
<1>2. created[r] \in Nat /\ mailed[r] \in Nat /\ rec.phase \in Phases
  BY <1>1 DEF Tables, WorkerRec
<1>3. Clean(r)
  BY DEF Progress
<1>4. InsertStep(w) \/ Clean(r)'
  BY <1>3, CleanStep
<1>5. \A new : Becomes(w, new) => next = new
  BY <1>1 DEF Becomes, Tables
<1>7. ~Settle(w) /\ ~Classify(w) /\ ~Begin(w) /\ ~Report(w)
  BY DEF Settle, Classify, Begin, Report, Carrying
<1>8. runs'[r].status = runs[r].status
  <2>1. CASE CallTool(w)
    BY <1>1, <2>1 DEF CallTool, Carrying
  <2>2. CASE Attach(w)
    BY <1>1, <2>2 DEF Attach, Tables, RunRec, RunOf
  <2> QED
    BY <1>7, <2>1, <2>2 DEF Work, FailCall, Crash, ReadDesk, RefuseMove, ReadNumber,
       InsertStep, tables
<1>9. ~Attach(w) => /\ runs'[r].attached = runs[r].attached /\ (Mailing(r)' <=> Mailing(r))
  <2>1. ~Attach(w) => runs' = runs
    BY <1>7 DEF Work, FailCall, Crash, ReadDesk, CallTool, RefuseMove, ReadNumber, InsertStep,
       tables, Carrying
  <2> QED
    BY <2>1 DEF Mailing
<1>10. Carrying \cap Early = {} /\ Ends \cap Early = {} /\ "settle" \notin Early
  BY DEF Carrying, Early, Asking, Ends
<1>a. ASSUME created'[r] = created[r], mailed'[r] = mailed[r], tickets' = tickets, ~Attach(w),
          Clean(r)',
             next.at = rec.at,
             \/ next.phase = rec.phase /\ next.result = rec.result
             \/ next.phase \in {"read", "call"} /\ rec.phase \in {"read", "call"}
             \/ /\ next.phase \in {"number", "insert"} /\ rec.phase \in {"number", "insert"}
                /\ next.result = rec.result
      PROVE  Progress(r, next)'
  BY <1>1, <1>9, <1>a DEF Progress, Opened, Carrying
<1>11. CASE ReadDesk(w)
  <2>1. Stays(w, next) /\ next.phase = "call" /\ rec.phase = "read"
    BY <1>5, <1>11, ReadDeskShape DEF ReadDesk, InPhase
  <2>2. created' = created /\ mailed' = mailed /\ tickets' = tickets
    BY <1>11 DEF ReadDesk, tables, outside
  <2>3. ~Attach(w) /\ Clean(r)'
    BY <1>4, <1>11 DEF ReadDesk, InsertStep, Attach, InPhase, Steps
  <2> QED
    BY <1>2, <1>8, <1>10, <1>a, <2>1, <2>2, <2>3 DEF Stays
<1>12. CASE CallTool(w)
  <2>1. Stays(w, next) /\ next.phase = "number" /\ rec.phase = "call"
    BY <1>5, <1>12, CallShape DEF CallTool, InPhase
  <2>2. ~Attach(w) /\ Clean(r)'
    BY <1>4, <1>12 DEF CallTool, InsertStep, Attach, InPhase, Steps
  <2>3. /\ created'[r] = IF rec.at = "ticket" THEN created[r] + 1 ELSE created[r]
        /\ mailed'[r] = IF rec.at = "send" THEN mailed[r] + 1 ELSE mailed[r]
        /\ rec.at = "ticket" => tickets'[r] # NoTicket
        /\ tickets[r] # NoTicket => tickets'[r] # NoTicket
    BY <1>12, EffectOnRun DEF CallTool
  <2>4. rec.at = "ticket" => created[r] = 0 /\ mailed[r] = 0
    BY <2>1 DEF Progress, Carrying
  <2>5. rec.at = "send" => mailed[r] = 0
    BY <2>1 DEF Progress
  <2>6. created'[r] <= 1 /\ mailed'[r] <= 1
    BY <1>2, <2>3, <2>4, <2>5
  <2>7. Progress(r, next)'
    BY <1>1, <1>9, <2>1, <2>2, <2>3, <2>4, <2>5 DEF Progress, Opened, Carrying, Stays
  <2> QED
    BY <1>8, <1>10, <2>1, <2>6, <2>7 DEF Stays
<1>13. CASE RefuseMove(w)
  <2>1. PICK new : Becomes(w, new) /\ Stays(w, new)
    BY <1>13, AgainShape DEF RefuseMove, InPhase
  <2>2. next.at = "finalize" /\ rec.at = "finalize"
    BY <1>5, <1>13, <2>1 DEF Stays, RefuseMove, Refused
  <2>3. created' = created /\ mailed' = mailed /\ tickets' = tickets /\ ~Attach(w) /\ Clean(r)'
    BY <1>4, <1>13, <2>2 DEF RefuseMove, tables, outside, Attach, InsertStep, InPhase
  <2>4. Progress(r, next)'
    BY <1>1, <1>9, <2>2, <2>3 DEF Progress, Opened, Carrying
  <2> QED
    BY <1>8, <1>10, <2>2, <2>3, <2>4
<1>14. CASE FailCall(w)
  <2>1. PICK new : /\ Becomes(w, new) /\ Stays(w, new)
                   /\ rec.at \in Retried \/ (new.phase = "number" /\ new.result = "error")
    BY <1>14, AgainShape DEF FailCall, InPhase
  <2>2. next.at = rec.at /\ rec.phase = "call"
        /\ (rec.at \in {"ticket", "send"} => next.phase = "number" /\ next.result = "error")
    BY <1>5, <1>14, <2>1 DEF Stays, Retried, FailCall, InPhase
  <2>3. ~Attach(w) /\ Clean(r)'
    BY <1>4, <1>14, <2>2 DEF FailCall, InsertStep, Attach, InPhase, Steps
  <2>4. /\ created'[r] \in {created[r],
             IF rec.at = "ticket" THEN created[r] + 1 ELSE created[r]}
        /\ mailed'[r] \in {mailed[r], IF rec.at = "send" THEN mailed[r] + 1 ELSE mailed[r]}
        /\ tickets[r] # NoTicket => tickets'[r] # NoTicket
    <3>1. CASE Effect(w)
      BY <3>1, EffectOnRun
    <3>2. CASE UNCHANGED <<approvals, tickets, outside>>
      BY <3>2 DEF outside
    <3>3. CASE /\ rec.at = "ticket" /\ created' = [created EXCEPT ![RunOf(w)] = @ + 1]
               /\ UNCHANGED <<approvals, tickets, mailed, changes>>
      BY <1>1, <3>3 DEF RunOf, Tables
    <3> QED
      BY <1>14, <3>1, <3>2, <3>3 DEF FailCall
  <2>5. rec.at = "ticket" => created[r] = 0 /\ mailed[r] = 0
    BY <2>2 DEF Progress, Carrying
  <2>6. rec.at = "send" => mailed[r] = 0
    BY <2>2 DEF Progress
  <2>7. created'[r] <= 1 /\ mailed'[r] <= 1
    BY <1>2, <2>4, <2>5, <2>6
  <2>8. Progress(r, next)'
    BY <1>1, <1>9, <2>2, <2>3, <2>4, <2>5, <2>6 DEF Progress, Opened, Carrying
  <2> QED
    BY <1>8, <1>10, <2>2, <2>7, <2>8
<1>15. CASE ReadNumber(w)
  <2>1. Stays(w, next) /\ next.phase = "insert" /\ rec.phase = "number"
            /\ next.result = rec.result
    BY <1>5, <1>15, ReadNumberShape DEF ReadNumber, InPhase
  <2>2. created' = created /\ mailed' = mailed /\ tickets' = tickets
    BY <1>15 DEF ReadNumber, tables, outside
  <2>3. ~Attach(w) /\ Clean(r)'
    BY <1>4, <1>15 DEF ReadNumber, InsertStep, Attach, InPhase, Steps
  <2> QED
    BY <1>2, <1>8, <1>10, <1>a, <2>1, <2>2, <2>3 DEF Stays
<1>16. CASE InsertStep(w)
  <2>1. PICK new : /\ Becomes(w, new) /\ new.run = r /\ new.phase = FirstPhase(new.at)
                   /\ LeadsAfter(w, new)
    BY <1>16, InsertShape
  <2>2. next = new /\ rec.at \in Steps /\ rec.phase = "insert"
    BY <1>5, <1>16, <2>1 DEF InsertStep, InPhase
  <2>3. created' = created /\ mailed' = mailed /\ tickets' = tickets /\ runs' = runs
    BY <1>16 DEF InsertStep, outside
  <2>4. rec.result # "error" \/ rec.at \notin Failing => Clean(r)'
    BY <1>3, CleanStep
  <2>5. ~Attach(w) /\ (Mails(w) <=> Mailing(r)) /\ (Mailing(r)' <=> Mailing(r))
    BY <2>2, <2>3 DEF Attach, Steps, Mails, Mailing, PlanOf, RunOf
  <2>6. \/ rec.at = "ticket" /\ rec.result # "error" /\ new.at = "attach"
        \/ rec.at \in {"ticket", "send", "finalize"} /\ EndsAs(new, "failed")
        \/ rec.at = "notify" /\ new.at = "sync"
        \/ rec.at = "sync" /\ new.at = IF Mails(w) THEN "draft" ELSE "finalize"
        \/ rec.at = "draft" /\ new.at = "send" /\ new.phase = "call"
        \/ rec.at = "send" /\ rec.result # "error" /\ new.at = "finalize"
        \/ rec.at = "finalize" /\ rec.result # "error" /\ EndsAs(new, "completed")
    BY <2>1, <2>2 DEF LeadsAfter, Carrying, Steps, FirstPhase
  <2>7. new.at \notin Early
    BY <2>6 DEF EndsAs, Early, Asking
  <2>8. Progress(r, new)'
    <3>1. CASE EndsAs(new, "failed")
      BY <3>1, NothingToShowNext DEF EndsAs, Carrying
    <3>2. CASE rec.at = "ticket" /\ rec.result # "error" /\ new.at = "attach"
      BY <2>2, <2>3, <2>4, <3>2 DEF Progress, Opened, Carrying
    <3>3. CASE rec.at \in {"notify", "sync", "draft"}
              /\ new.at \in {"sync", "draft", "finalize", "send"}
      <4>1. new.at = "send" => new.phase = "call"
        BY <2>6, <3>3
      <4>2. new.at = "finalize" => ~Mailing(r)
        BY <2>5, <2>6, <3>3
      <4>3. Clean(r)'
        BY <2>4, <3>3 DEF Failing
      <4> QED
        BY <2>3, <2>5, <3>3, <4>1, <4>2, <4>3 DEF Progress, Opened, Carrying
    <3>4. CASE rec.at = "send" /\ rec.result # "error" /\ new.at = "finalize"
      BY <2>2, <2>3, <2>4, <3>4 DEF Progress, Opened, Carrying
    <3>5. CASE rec.at = "finalize" /\ rec.result # "error" /\ EndsAs(new, "completed")
      BY <2>2, <2>3, <2>4, <2>5, <3>5 DEF Progress, Opened, Finished, Carrying, EndsAs
    <3> QED
      BY <2>6, <3>1, <3>2, <3>3, <3>4, <3>5
  <2> QED
    BY <1>8, <2>2, <2>3, <2>7, <2>8
<1>17. CASE Attach(w)
  <2>1. PICK place \in {"notify", "draft", "finalize"} :
          Goto(w, place) /\ (place = "finalize" => ~Mails(w))
    BY <1>17 DEF Attach, Replying
  <2>2. next.at = place
    BY <1>5, <2>1, GotoShape DEF Goes, Places, Steps
  <2>3. created' = created /\ mailed' = mailed /\ tickets' = tickets /\ rec.at = "attach"
            /\ Clean(r)'
    BY <1>4, <1>17 DEF Attach, outside, InsertStep, InPhase, Steps
  <2>4. /\ runs'[r].attached /\ runs'[r].plan = runs[r].plan /\ runs'[r].known = runs[r].known
    BY <1>1, <1>17 DEF Attach, Tables, RunRec, RunOf
  <2>5. Mailing(r)' => Mails(w)
    BY <2>4 DEF Mailing, Mails, PlanOf, RunOf
  <2> QED
    BY <1>8, <1>10, <2>1, <2>2, <2>3, <2>4, <2>5 DEF Progress, Opened, Carrying
<1>18. CASE Crash(w)
  <2>1. next.at = "crashed"
    BY <1>5, <1>18, GotoShape DEF Crash, Goes, Places, Ends
  <2>2. created' = created /\ mailed' = mailed
    BY <1>18 DEF Crash, outside
  <2>3. Progress(r, next)'
    BY <2>1, NothingToShowNext DEF Carrying
  <2> QED
    BY <1>8, <1>10, <2>1, <2>2, <2>3 DEF Ends
<1> QED
  BY <1>7, <1>11, <1>12, <1>13, <1>14, <1>15, <1>16, <1>17, <1>18 DEF Work


\* Where a run's own worker goes before it has been at the ticket.
LEMMA EarlyMoves ==
    ASSUME Base, [Next]_vars, NEW r \in Runs, Work(r) \/ FailCall(r) \/ Crash(r), OwnGrant(r),
           worker[r].at \in Early, NEW next, worker'[r] = next
    PROVE  \/ next.at \in Early \cup Ends
           \/ next.at = "ticket" /\ next.phase = "call"
           \/ next.at = "settle" /\ (next.verdict = "completed" => Input.command # "none")
<1>1. Tables /\ r \in Workers
  BY TablesTyped DEF Workers
<1>2. \A new : Becomes(r, new) => next = new
  BY <1>1 DEF Becomes, Tables
<1>3. ASSUME NEW place \in Places, Goto(r, place) PROVE next.at = place
  BY <1>1, <1>2, <1>3, GotoShape DEF Goes
<1>4. CASE ReadDesk(r) \/ CallTool(r) \/ RefuseMove(r) \/ ReadNumber(r) \/ FailCall(r)
  <2>1. worker[r].at \in Steps
    BY <1>4 DEF ReadDesk, CallTool, RefuseMove, ReadNumber, FailCall, InPhase
  <2>2. \E new : Becomes(r, new) /\ Stays(r, new)
    BY <1>1, <1>4, <2>1, ReadDeskShape, CallShape, AgainShape, ReadNumberShape
       DEF RefuseMove, FailCall
  <2> QED
    BY <1>2, <2>2 DEF Stays
<1>5. CASE InsertStep(r)
  <2>1. PICK new : Becomes(r, new) /\ new.phase = FirstPhase(new.at) /\ LeadsBefore(r, new)
    BY <1>1, <1>5, InsertShape
  <2>2. worker[r].at \in Steps /\ next = new
    BY <1>2, <1>5, <2>1 DEF InsertStep, InPhase
  <2>3. worker[r].at \in {"guard", "plan", "interpret", "query", "update", "rag", "policy",
            "customer", "approval"}
    BY <2>2 DEF Steps, Early, Asking
  <2>4. worker[r].at \in {"query", "update"} => Input.command # "none"
    BY DEF OwnGrant
  <2>5. CASE worker[r].at \in {"guard", "plan", "interpret", "query", "update", "approval"}
    BY <2>1, <2>2, <2>4, <2>5 DEF LeadsBefore, EndsAs, Early, Asking, Ends
  <2>6. CASE worker[r].at \in {"rag", "policy", "customer"}
    BY <2>1, <2>2, <2>6 DEF LeadsBefore, Early, Asking, FirstPhase
  <2> QED
    BY <2>3, <2>5, <2>6
<1>6. CASE Classify(r) \/ Begin(r) \/ Crash(r)
  <2>1. Input.command \in {"none", "query", "update"}
    BY InputTyped DEF Inputs
  <2>2. \E place \in {"begin", "interpret", "rag", "query", "update", "crashed"} : Goto(r,
            place)
    BY <1>6, <2>1 DEF Classify, Begin, Crash
  <2>3. next.at \in {"begin", "interpret", "rag", "query", "update", "crashed"}
    BY <1>3, <2>2 DEF Places, Steps, Silent, Ends
  <2> QED
    BY <2>3 DEF Early, Asking, Ends
<1>7. ~Attach(r) /\ ~Settle(r) /\ ~Report(r)
  BY DEF Attach, Settle, Report, Early, Asking
<1> QED
  BY <1>4, <1>5, <1>6, <1>7 DEF Work

LEMMA DoneStep ==
    ASSUME Base, [Next]_vars, NEW r \in Runs, OwnGrant(r), Status(r), Done(r)
    PROVE  Done(r)'
<1>1. Tables /\ Input' = Input /\ NoRun # r /\ r \in Workers /\ r \notin Reviewers
  BY TablesTyped, Given, WorkflowAssumption DEF Input, Workers
<1>2. OwnRole(r) /\ OwnRole(r)' /\ \A v \in Reviewers : ReviewerRole(v) /\ ReviewerRole(v)'
  BY BaseStep DEF Base, Roles
<1>3. OwnGrant(r)'
  BY GrantStep
<1>4. approvals'[r] # "none" => Progress(r, worker[r])'
  BY <1>2 DEF OwnRole, Parked, Progress, Carrying, Ends
<1>5. ASSUME NEW w \in Workers, worker'[w].run = r
      PROVE  w = r \/ (w \in Reviewers /\ approvals'[r] \in Judged)
  <2>1. CASE w \in Runs
    BY <1>1, <1>5, <2>1, BaseStep DEF Base, Roles, OwnRole
  <2>2. CASE w \in Reviewers
    BY <1>1, <1>2, <1>5, <2>2 DEF ReviewerRole, Judged
  <2> QED
    BY <2>1, <2>2 DEF Workers
<1> DEFINE Kept == /\ created'[r] = created[r] /\ mailed'[r] = mailed[r]
                   /\ (tickets'[r] = NoTicket <=> tickets[r] = NoTicket)
                   /\ runs'[r].attached = runs[r].attached /\ (Mailing(r)' <=> Mailing(r))
                   /\ (Clean(r) => Clean(r)')
<1>6. ASSUME Kept, NEW w \in Workers, worker[w].run = r, worker'[w] = worker[w]
      PROVE  Progress(r, worker[w])'
  <2>1. PICK rec : rec = worker[w]
    OBVIOUS
  <2>2. Progress(r, rec)
    BY <1>6, <2>1 DEF Done
  <2>3. Progress(r, rec)'
    BY <1>1, <1>6, <2>2, ProgressKept
  <2> QED
    BY <1>6, <2>1, <2>3 DEF Progress
<1>7. ASSUME Kept, runs[r].status = "completed", Input.command = "none"
      PROVE  Finished(r)'
  BY <1>7 DEF Done, Finished, Opened
<1>9. CASE Aside(r)
  <2>1. Kept
    BY <1>9 DEF Aside, Untouched, Mailing, Clean
  <2>2. \A w \in Workers : worker'[w].run = r => Progress(r, worker[w])'
    BY <1>6, <1>9, <2>1 DEF Aside
  <2>3. runs'[r] = runs[r] /\ (Fresh(r)' <=> Fresh(r)) /\ approvals'[r] = approvals[r]
    BY <1>1, <1>9 DEF Aside, Untouched, Fresh
  <2> QED
    BY <1>1, <1>7, <2>1, <2>2, <2>3 DEF Done
<1>10. ASSUME NEW w \in Workers, worker[w].run = r, Work(w) \/ FailCall(w) \/ Crash(w)
       PROVE  Done(r)'
  <2>0. PICK next : worker'[w] = next
    OBVIOUS
  <2>1. worker'[w].run = r /\ Alone(w) /\ worker[w].at \notin {"idle"} \cup Ends
    BY <1>10, WorkKeepsRun
  <2>2. CASE w # r
    <3>1. /\ w \in Reviewers /\ approvals[r] \in Judged /\ worker'[r] = worker[r]
          /\ Underway(r) /\ ReviewerRole(w)
      BY <1>1, <1>2, <1>10, <2>1, <2>2
         DEF Base, Roles, OwnRole, ReviewerRole, Judged, Workers, Alone, Status
    <3>2. approvals'[r] = approvals[r]
      BY <3>1, ApprovalMoves, <1>1, <1>10, <2>1, <2>2, DecideShape
         DEF Judged
    <3>3. Progress(r, worker[r])'
      BY <1>4, <3>1, <3>2 DEF Judged
    <3>4. ASSUME NEW u \in Workers, u # r, worker'[u].run = r PROVE u = w
      <4>1. u \in Reviewers
        BY <1>5, <3>4
      <4> QED
        BY <1>1, <2>1, <3>1, <3>4, <4>1, BaseStep DEF Base, Roles
    <3>5. ~Fresh(r)'
      BY <3>1, <3>2 DEF Fresh, Judged
    <3>6. CASE worker[w].at \in Carrying
      <4>1. /\ Progress(r, next)' /\ created'[r] <= 1 /\ mailed'[r] <= 1
            /\ runs'[r].status = runs[r].status
        BY <1>10, <2>0, <3>6, CarryStep DEF Done
      <4>2. Progress(r, worker[w])'
        BY <2>0, <4>1 DEF Progress
      <4>3. approvals[r] = "approved"
        BY <1>1, <1>10, <3>1, <3>6 DEF ReviewerRole, Carrying, Ends
      <4> QED
        BY <3>1, <3>2, <3>3, <3>4, <3>5, <4>1, <4>2, <4>3 DEF Done, Underway
    <3>7. CASE worker[w].at \notin Carrying
      <4>1. worker[w].at \in {"denied", "settle"}
        BY <1>1, <1>10, <2>1, <3>1, <3>7 DEF ReviewerRole
      <4>2. Kept
        <5>1. Clean(r) => Clean(r)'
          BY <1>10, <4>1, CleanStep DEF Failing, InsertStep, InPhase, Steps
        <5> QED
          BY <1>10, <3>7, <4>1, <5>1, IdleHands
      <4>3. Progress(r, worker[w])'
        <5>1. next.at # "settle" \/ next.verdict # "completed"
          <6>1. CASE worker[w].at = "denied"
            <7>1. ReviewerRole(w)' /\ approvals'[r] = "denied"
              BY <1>1, <1>2, <1>10, <3>1, <3>2, <6>1 DEF ReviewerRole, Carrying, Ends
            <7> QED
              BY <1>1, <2>0, <2>1, <7>1 DEF ReviewerRole
          <6>2. CASE worker[w].at = "settle"
            <7>1. Settle(w) \/ Crash(w)
              BY <1>10, <6>2 DEF Work, FailCall, ReadDesk, CallTool, RefuseMove, ReadNumber,
                 InsertStep, Classify, Begin, Attach, Report, InPhase, Steps
            <7>2. \E place \in {"done", "crashed"} : Goto(w, place)
              BY <3>1, <7>1 DEF Settle, Crash
            <7> QED
              BY <1>1, <2>0, <7>2, GotoShape DEF Becomes, Goes, Tables, Places, Ends
          <6> QED
            BY <4>1, <6>1, <6>2
        <5>2. next.at \notin Carrying
          <6>1. CASE approvals[r] = "denied"
            BY <1>1, <1>2, <2>0, <2>1, <3>1, <3>2, <6>1 DEF ReviewerRole, Carrying, Ends
          <6>2. CASE worker[w].at = "settle"
            <7>1. Settle(w) \/ Crash(w)
              BY <1>10, <6>2 DEF Work, FailCall, ReadDesk, CallTool, RefuseMove, ReadNumber,
                 InsertStep, Classify, Begin, Attach, Report, InPhase, Steps
            <7>2. \E place \in {"done", "crashed"} : Goto(w, place)
              BY <3>1, <7>1 DEF Settle, Crash
            <7> QED
              BY <1>1, <2>0, <7>2, GotoShape DEF Becomes, Goes, Tables, Places, Ends, Carrying
          <6> QED
            BY <1>1, <1>10, <3>1, <4>1, <6>1, <6>2 DEF ReviewerRole, Carrying, Ends
        <5>3. Progress(r, next)'
          BY <5>1, <5>2, NothingToShowNext
        <5> QED
          BY <2>0, <5>3 DEF Progress
      <4>4. runs'[r].status = "completed" /\ Input.command = "none" => Finished(r)'
        <5>1. CASE runs'[r].status = runs[r].status
          BY <3>1, <5>1 DEF Underway
        <5>2. CASE Settle(w) /\ runs'[r].status = worker[w].verdict
          <6>1. worker[w].at = "settle" /\ Progress(r, worker[w])
            BY <1>10, <5>2 DEF Settle, Done
          <6> QED
            BY <4>2, <5>2, <6>1 DEF Progress, Finished, Opened
        <5>3. ~Start(r)
          BY <1>2, <3>1 DEF Start, OwnRole, Parked, Judged, Ends
        <5>4. ASSUME NEW u \in Workers, worker[u].run = r, Settle(u), u # w PROVE FALSE
          BY <1>1, <1>10, <2>1, <5>4, GotoShape, WorkKeepsRun
             DEF Settle, Alone, Goto, At, Tables, WorkerRec, Work
        <5> QED
          BY <5>1, <5>2, <5>3, <5>4, StatusMoves
      <4> QED
        BY <1>1, <3>2, <3>3, <3>4, <3>5, <4>2, <4>3, <4>4 DEF Done
    <3> QED
      BY <3>6, <3>7
  <2>3. CASE w = r /\ approvals[r] # "none"
    <3>1. Parked(r) /\ approvals'[r] = approvals[r] /\ worker[r].at \notin Carrying
      <4>1. Parked(r)
        BY <1>2, <2>3 DEF OwnRole
      <4>2. worker[r].at \notin Carrying
        BY <4>1 DEF Parked, Carrying, Ends
      <4>3. ASSUME NEW v \in Reviewers, NEW approved \in BOOLEAN,
                Decide(v, r, approved) PROVE FALSE
        <5>1. PICK new : Becomes(v, new) /\ new.at # "idle"
          BY <4>3, DecideShape
        <5>2. worker'[v] = new /\ v \in Workers /\ v # r /\ worker[v].at = "idle"
          BY <1>1, <4>3, <5>1 DEF Becomes, Tables, Decide, Workers
        <5> QED
          BY <2>1, <2>3, <5>1, <5>2 DEF Alone
      <4> QED
        BY <2>3, <4>1, <4>2, <4>3, ApprovalMoves
    <3>2. worker[r].at \in {"approval", "settle", "report"}
          /\ (worker[r].at = "settle" => worker[r].verdict = "waiting_approval")
      BY <2>1, <2>3, <3>1 DEF Parked
    <3>3. Kept
      <4>1. Clean(r) => Clean(r)'
        BY <1>10, <2>3, <3>2, CleanStep DEF Failing, InsertStep, InPhase, Steps
      <4> QED
        BY <1>10, <2>3, <3>1, <3>2, <4>1, IdleHands
    <3>4. Progress(r, worker[r])'
      BY <1>4, <2>3, <3>1
    <3>5. \A u \in Workers : worker'[u].run = r => Progress(r, worker[u])'
      BY <1>6, <2>1, <2>3, <3>3, <3>4 DEF Alone
    <3>6. (Fresh(r)' <=> Fresh(r))
      BY <2>3, <3>1 DEF Fresh
    <3>7. runs'[r].status = "completed" => runs[r].status = "completed"
      <4>1. ASSUME NEW u \in Workers, Settle(u), u # r PROVE FALSE
        <5>1. PICK place \in {"done", "report"} : Goto(u, place)
          BY <4>1 DEF Settle
        <5>2. worker'[u].at = place
          BY <1>1, <5>1, GotoShape DEF Becomes, Goes, Tables, Places, Silent, Ends
        <5> QED
          BY <2>1, <2>3, <4>1, <5>2 DEF Alone, Settle
      <4>2. Settle(r) => worker[r].verdict = "waiting_approval"
        BY <3>2 DEF Settle
      <4> QED
        BY <2>3, <4>1, <4>2, StatusMoves
    <3> QED
      BY <1>1, <1>7, <3>1, <3>3, <3>5, <3>6, <3>7 DEF Done
  <2>4. CASE w = r /\ approvals[r] = "none" /\ worker[r].at \in Early
    <3>1. runs[r].status = "running"
      BY <2>1, <2>4 DEF Status, Early, Asking, Ends
    <3>2. approvals'[r] \in {"none", "pending"}
      BY <2>4, ApprovalMoves
    <3>3. Fresh(r) /\ created[r] = 0 /\ mailed[r] = 0
      BY <2>4 DEF Fresh, Done
    <3>4. created'[r] = 0 /\ mailed'[r] = 0
      BY <1>10, <2>4, <3>3, IdleHands DEF Early, Asking, Carrying
    <3>5. Input.command = "none" => Clean(r) /\ Clean(r)'
      <4>1. Input.command = "none" => Clean(r)
        BY <3>3 DEF Done
      <4>2. Input.command = "none" => worker[r].at \notin Failing
        BY <2>4 DEF OwnGrant, Early, Asking, Failing
      <4> QED
        BY <1>10, <2>4, <4>1, <4>2, CleanStep
    <3>6. Progress(r, next)'
      <4>1. \/ next.at \in Early \cup Ends
            \/ next.at = "ticket" /\ next.phase = "call"
            \/ next.at = "settle" /\ (next.verdict = "completed" => Input.command # "none")
        BY <1>10, <2>0, <2>4, EarlyMoves
      <4>2. CASE next.at = "ticket" /\ next.phase = "call"
        <5>1. Input.command = "none"
          BY <1>1, <1>3, <2>0, <2>4, <4>2 DEF OwnGrant, Carrying
        <5> QED
          BY <3>4, <3>5, <4>2, <5>1 DEF Progress, Carrying
      <4>3. CASE next.at \notin Carrying
                /\ (next.at = "settle" /\ next.verdict = "completed" => Input.command # "none")
        BY <1>1, <4>3 DEF Progress, Carrying
      <4> QED
        BY <4>1, <4>2, <4>3 DEF Early, Asking, Ends, Carrying
    <3>7. \A u \in Workers : worker'[u].run = r => Progress(r, worker[u])'
      <4>1. Progress(r, worker[r])'
        BY <2>0, <2>4, <3>6 DEF Progress
      <4> QED
        BY <1>5, <3>2, <4>1 DEF Judged
    <3>8. runs'[r].status # "completed"
      <4>1. ASSUME NEW u \in Workers, worker[u].run = r, Settle(u) PROVE FALSE
        BY <1>1, <2>4, <4>1 DEF Settle, Base, Roles, OwnRole, ReviewerRole, Workers, Early,
           Asking
      <4> QED
        BY <3>1, <4>1, StatusMoves
    <3> QED
      BY <1>1, <3>4, <3>5, <3>7, <3>8 DEF Done
  <2>5. CASE w = r /\ approvals[r] = "none" /\ worker[r].at \in Carrying
    <3>1. runs[r].status = "running"
      BY <2>5 DEF Status, Carrying, Ends
    <3>2. approvals'[r] = "none"
      BY <2>5, ApprovalMoves DEF Carrying
    <3>3. /\ Progress(r, next)' /\ created'[r] <= 1 /\ mailed'[r] <= 1 /\ next.at \notin Early
          /\ runs'[r].status = runs[r].status
      BY <1>10, <2>0, <2>5, CarryStep DEF Done
    <3>4. \A u \in Workers : worker'[u].run = r => Progress(r, worker[u])'
      <4>1. Progress(r, worker[r])'
        BY <2>0, <2>5, <3>3 DEF Progress
      <4> QED
        BY <1>5, <3>2, <4>1 DEF Judged
    <3> QED
      BY <2>0, <2>5, <3>1, <3>2, <3>3, <3>4 DEF Done, Fresh
  <2>6. CASE w = r /\ approvals[r] = "none" /\ worker[r].at \in {"settle", "report"}
    <3>1. approvals'[r] = "none" /\ worker[r].at \notin Carrying
      BY <2>6, ApprovalMoves DEF Carrying
    <3>2. Kept
      <4>1. Clean(r) => Clean(r)'
        BY <1>10, <2>6, CleanStep DEF InsertStep, InPhase, Steps
      <4> QED
        BY <1>10, <2>6, <3>1, <4>1, IdleHands
    <3>3. next.at \in {"report", "done", "crashed"}
      <4>1. \E place \in {"report", "done", "crashed"} : Goto(r, place)
        BY <1>10, <2>6 DEF Work, FailCall, ReadDesk, CallTool, RefuseMove, ReadNumber,
           InsertStep, Classify, Begin, Attach, Report, Settle, Crash, InPhase, Steps
      <4> QED
        BY <1>1, <2>0, <2>6, <4>1, GotoShape DEF Becomes, Goes, Tables, Places, Silent, Ends
    <3>4. \A u \in Workers : worker'[u].run = r => Progress(r, worker[u])'
      <4>1. Progress(r, next)'
        BY <3>3, NothingToShowNext DEF Carrying
      <4>2. Progress(r, worker[r])'
        BY <2>0, <2>6, <4>1 DEF Progress
      <4> QED
        BY <1>5, <3>1, <4>2 DEF Judged
    <3>5. runs'[r].status = "completed" /\ Input.command = "none" => Finished(r)'
      <4>1. CASE runs'[r].status = runs[r].status
        BY <1>7, <3>2, <4>1
      <4>2. ASSUME NEW u \in Workers, worker[u].run = r, Settle(u),
                runs'[r].status = worker[u].verdict
            PROVE  runs'[r].status = "completed" /\ Input.command = "none" => Finished(r)'
        <5>1. worker[u].at = "settle" /\ Progress(r, worker[u])
          BY <4>2 DEF Settle, Done
        <5> QED
          BY <3>2, <4>2, <5>1 DEF Progress, Finished, Opened
      <4>3. ~Start(r)
        BY <2>6 DEF Start
      <4> QED
        BY <4>1, <4>2, <4>3, StatusMoves
    <3>6. ~Fresh(r)' /\ approvals'[r] # "denied"
      BY <2>0, <2>6, <3>1, <3>3 DEF Fresh, Early, Asking
    <3> QED
      BY <1>1, <3>2, <3>4, <3>5, <3>6 DEF Done
  <2>7. w # r \/ worker[r].at \in Early \cup Carrying \cup {"settle", "report"}
    <3>1. worker[r].at \in Places /\ worker[r].at # "denied"
      BY <1>1, <1>2 DEF Tables, WorkerRec, OwnRole
    <3> QED
      BY <2>1, <3>1 DEF Places, Steps, Silent, Ends, Early, Asking, Carrying
  <2> QED
    BY <2>2, <2>3, <2>4, <2>5, <2>6, <2>7
<1>11. CASE Start(r)
  <2>1. PICK new : Becomes(r, new) /\ new.at = "guard"
    BY <1>11, StartShape
  <2>2. worker'[r] = new /\ \A u \in Workers : u # r => worker'[u] = worker[u]
    BY <1>1, <2>1 DEF Becomes, Tables
  <2>3. /\ worker[r].at = "idle" /\ approvals[r] = "none" /\ approvals' = approvals
        /\ created' = created /\ mailed' = mailed /\ steps' = steps
               /\ runs'[r].status = "running"
    BY <1>1, <1>2, <1>11 DEF Start, OwnRole, Parked, Ends, outside, Tables, RunRec
  <2>4. Fresh(r) /\ Fresh(r)'
    BY <2>1, <2>2, <2>3 DEF Fresh, Early
  <2>5. Progress(r, worker[r])'
    BY <2>1, <2>2 DEF Progress, Carrying
  <2>6. \A u \in Workers : worker'[u].run = r => Progress(r, worker[u])'
    BY <1>5, <2>3, <2>5 DEF Judged
  <2> QED
    BY <1>1, <2>3, <2>4, <2>6 DEF Done, Clean
<1>12. ASSUME NEW v \in Reviewers, NEW approved \in BOOLEAN, Decide(v, r, approved),
           approvals[r] = "pending"
       PROVE  Done(r)'
  <2>1. PICK new : /\ Becomes(v, new) /\ new.run = r
                   /\ \/ new.at = "ticket" /\ new.phase = "call"
                      \/ new.at = "denied"
                   /\ approvals' = [approvals EXCEPT ![r] = IF approved THEN "approved" ELSE "denied"]
    BY <1>12, DecideShape
  <2>2. worker'[v] = new /\ \A u \in Workers : u # v => worker'[u] = worker[u]
    BY <1>1, <2>1 DEF Becomes, Tables, Workers
  <2>3. approvals'[r] \in Judged
    BY <1>1, <2>1 DEF Judged, Tables
  <2>4. /\ created' = created /\ mailed' = mailed /\ steps' = steps /\ runs' = runs
        /\ created[r] = 0 /\ mailed[r] = 0 /\ Clean(r) /\ Underway(r)
    BY <1>12 DEF Decide, outside, Done, Fresh, OwnGrant, Status
  <2>5. Progress(r, new)'
    BY <2>1, <2>4 DEF Progress, Carrying, Clean
  <2>6. \A u \in Workers : worker'[u].run = r => Progress(r, worker[u])'
    <3>1. Progress(r, worker[v])'
      BY <2>2, <2>5 DEF Progress
    <3>2. Progress(r, worker[r])'
      BY <1>4, <2>3 DEF Judged
    <3>3. \A u \in Reviewers : worker'[u].run = r => u = v
      BY <1>1, <2>1, <2>2, BaseStep DEF Base, Roles
    <3> QED
      BY <1>5, <3>1, <3>2, <3>3
  <2>7. ~Fresh(r)'
    BY <2>3 DEF Fresh, Judged
  <2> QED
    BY <1>1, <2>4, <2>6, <2>7 DEF Done, Underway
<1> QED
  BY <1>9, <1>10, <1>11, <1>12, StepKinds


-----------------------------------------------------------------------------
(* The inductive invariant, and what follows from it.                      *)

\* Types and roles; what was permitted; who works when; the status; the steps; and
\* what has been done.
RunInv(r) ==
    /\ OwnGrant(r) /\ Warranted(r) /\ InTurn(r) /\ Status(r) /\ Counted(r) /\ Done(r)

IInv ==
    /\ Base /\ Scope /\ CommandsKeepScope /\ Told
    /\ \A r \in Runs : RunInv(r)

LEMMA InvInit == Init => IInv
<1> SUFFICES ASSUME Init PROVE IInv
  OBVIOUS
<1>1. Scope /\ CommandsKeepScope /\ Told
  BY DEF Init, Scope, CommandsKeepScope, Told, Workers
<1>2. ASSUME NEW r \in Runs PROVE RunInv(r)
  <2>1. /\ worker[r].at = "idle" /\ worker[r].phase = "call" /\ approvals[r] = "none"
             /\ steps[r] = <<>>
        /\ created[r] = 0 /\ mailed[r] = 0 /\ runs[r].status = "none"
    BY DEF Init, Workers
  <2>2. \A w \in Workers : worker[w].at = "idle" /\ worker[w].run = NoRun
    BY DEF Init
  <2>3. OwnGrant(r) /\ Warranted(r)
    BY <2>1 DEF OwnGrant, Asking, Carrying, Warranted, Acted
  <2>4. InTurn(r) /\ Status(r) /\ Counted(r)
    <3>1. InTurn(r)
      BY <2>1 DEF InTurn, Judged
    <3>2. Status(r)
      BY <2>1, <2>2, WorkflowAssumption DEF Status, Workers
    <3>3. Counted(r)
      BY <2>1, <2>2 DEF Counted, StepsInOrder, Steps
    <3> QED
      BY <3>1, <3>2, <3>3
  <2>5. Done(r)
    BY <2>1, <2>2, WorkflowAssumption DEF Done, Clean
  <2> QED
    BY <2>3, <2>4, <2>5 DEF RunInv
<1> QED
  BY <1>1, <1>2, BaseInit DEF IInv

LEMMA InvStep == IInv /\ [Next]_vars => IInv'
<1> SUFFICES ASSUME IInv, [Next]_vars PROVE IInv'
  OBVIOUS
<1>1. Base /\ Base'
  BY BaseStep DEF IInv
<1>2. Scope' /\ CommandsKeepScope'
  BY ScopeStep DEF IInv
<1>3. Told'
  BY ToldStep DEF IInv, RunInv
<1>4. ASSUME NEW r \in Runs PROVE RunInv(r)'
  <2>1. RunInv(r)
    BY DEF IInv
  <2>2. OwnGrant(r)' /\ Warranted(r)'
    BY <1>1, <2>1, GrantStep, WarrantStep DEF RunInv
  <2>3. InTurn(r)' /\ Status(r)' /\ Counted(r)'
    BY <1>1, <2>1, InTurnStep, StatusStep, CountedStep DEF RunInv
  <2>4. Done(r)'
    BY <1>1, <2>1, DoneStep DEF RunInv
  <2> QED
    BY <2>2, <2>3, <2>4 DEF RunInv
<1> QED
  BY <1>1, <1>2, <1>3, <1>4 DEF IInv

LEMMA InvHolds == Spec => []IInv
BY InvInit, InvStep, PTL DEF Spec

\* ActsWithinAuthority.  However the calls fail and whoever decides when: a request
\* that the policy or the risk agents want seen leaves no ticket, mail or
\* notification before it is approved, a refused objective none at all, and a
\* command changes only what its requester may see at that moment.
THEOREM AuthorityIsKept == Spec => []ActsWithinAuthority
<1>1. IInv => ActsWithinAuthority
  BY DEF IInv, Base, TypeInv, RunInv, Warranted, NothingBeforeApproval, ActsWithinAuthority
<1> QED
  BY <1>1, InvHolds, PTL

\* EffectsOnce.  However many reviewers decide and whichever calls fail, before or
\* after they took effect: a run creates one ticket and sends one mail at most.
THEOREM NothingTwice == Spec => []EffectsOnce
<1>1. IInv => EffectsOnce
  BY DEF IInv, RunInv, Done, EffectsOnce
<1> QED
  BY <1>1, InvHolds, PTL

\* CompletedMeansDone.  A run recorded as completed has its ticket, attached, has
\* sent the mail its plan called for, and none of its steps that matter failed.
THEOREM CompletionIsEarned == Spec => []CompletedMeansDone
<1>1. IInv => CompletedMeansDone
  BY DEF IInv, RunInv, Done, Finished, Opened, Mailing, Clean, CompletedMeansDone
<1> QED
  BY <1>1, InvHolds, PTL

\* RecordTellsTheStory.  Where reviewers wait for the pause, the steps of a run are
\* numbered in the order of their insertion; and a request has the status of one of
\* its runs, or that of a pause decided since.
THEOREM TheRecordIsTrue == Spec => []RecordTellsTheStory
<1>1. IInv => StepsNumberedInOrder
  BY DEF IInv, RunInv, Counted, StepsInOrder, StepsNumberedInOrder
<1>2. IInv => RequestFollowsRuns
  BY DEF IInv, Told, Judged, RequestFollowsRuns
<1> QED
  BY <1>1, <1>2, InvHolds, PTL DEF RecordTellsTheStory

\* EndIsFinal, the safety part of RunsEndAsDecided.  Where reviewers wait for the
\* pause, nobody writes to a run that has come to its end: whoever settles a run
\* finds it underway.
THEOREM EndsAreFinal == Spec => EndIsFinal
<1> DEFINE Keeps == ~setting.beforePark =>
                       \A r \in Runs : runs[r].status \in Final
                           => runs'[r].status = runs[r].status
<1>1. ASSUME IInv, [Next]_vars PROVE Keeps
  <2> SUFFICES ASSUME ~setting.beforePark, NEW r \in Runs, runs[r].status \in Final
               PROVE  runs'[r].status = runs[r].status
    OBVIOUS
  <2>1. Base /\ Status(r) /\ InTurn(r)
    BY <1>1 DEF IInv, RunInv
  <2>2. ~Underway(r) /\ runs[r].status # "none"
    BY DEF Final, Underway
  <2>3. \A w \in Workers : worker[w].run = r => ~Settle(w)
    BY <2>1, <2>2, SettlesUnderway
  <2>4. ~Start(r)
    BY <2>1, <2>2 DEF Start, Status
  <2> QED
    BY <1>1, <2>1, <2>3, <2>4, StatusMoves
<1>2. IInv /\ [Next]_vars => [Keeps]_vars
  BY <1>1
<1>3. EndIsFinal <=> [][Keeps]_vars
  BY DEF EndIsFinal
<1> QED
  BY <1>2, <1>3, InvHolds, PTL DEF Spec

-----------------------------------------------------------------------------
(* The self-correction loop.                                               *)

\* The loop counts an attempt only while it has one left.
CInv == TypeOK /\ (node = "self_correction" => attempts < MaxCorrections)

\* What a pass that touched something has left behind is never retried.
Guarded ==
    /\ touched \in {0, 1}
    /\ touched = 1 => node \in {"end", "self_correction"}
    /\ touched = 1 /\ node = "self_correction" => ~report.safe

\* The node stands where the verdict sends it, and the steps and the workflow
\* run are those of that path.
Pass ==
    /\ held = "executed" \/ node = "resolve" => executions > 0
    /\ diverts # "no" =>
        node \notin {"execute", "resolve", "reject", "ask", "park", "human_approval"}
    /\ diverts = "refused" /\ node \in {"lift", "critic"} => wf = "refused"
    /\ node \in {"execute", "resolve", "ask", "park"} => wf = "running"
    /\ node = "execute" => gate.decision # "require_approval"
    /\ node = "resolve" => gate.decision # "deny"
    /\ node = "reject" => wf \in {"failed", "cancelled"}
    /\ node = "reject" /\ gate.decision = "deny" => wf = "cancelled"
    /\ node \in {"ask", "park", "human_approval"} =>
        gate.decision = "require_approval" /\ ~Ran("it_tool")
    /\ node = "human_approval" => wf = "waiting_approval"
    /\ node = "lift" /\ wf = "waiting_approval" =>
        diverts = "no" /\ gate.decision = "require_approval"
    /\ wf = "waiting_approval" => ~Ran("it_tool")
    /\ Ran("it_tool") /\ node \in {"lift", "critic"} =>
        executions > 0 \/ wf \in {"failed", "cancelled"}
    /\ diverts = "no" /\ gate.decision = "deny" /\ node \in {"lift", "critic"} =>
        wf = "cancelled" \/ (wf = "completed" /\ ~Ran("update_ticket"))

\* A report that passed stands for the last pass.
Passed ==
    report.passed =>
        /\ node = "end"
        /\ diverts \in Commands => Ran(CommandTool[diverts])
        /\ diverts \notin Commands =>
            /\ gate.decision = "auto_execute" => executions > 0 \/ wf \in {"failed", "cancelled"}
            /\ gate.decision = "require_approval" => Ran("request_approval")
            /\ gate.decision = "deny" => executions = 0 \/ wf = "cancelled"

Ended == (status = "completed" => node = "end") /\ CompletedAsDecided

DInv == CInv /\ Pass /\ Passed /\ Ended

\* The graph starts with its types and no attempt made.
LEMMA InitCInv == LoopInit => CInv
BY BoundAssumption DEF LoopInit, CInv, TypeOK, TicketStatuses, Nodes, NoReport, ObjectiveKinds

\* What updates may do to the ticket keeps it in the status table.
LEMMA TicketTyped ==
    /\ \A s \in TicketStatuses : Allowed[s] \subseteq TicketStatuses
    /\ \A n \in DOMAIN Wanted : Wanted[n] \in TicketStatuses
    /\ {"rejected", "approved", "resolved", "investigating"} \subseteq TicketStatuses
BY DEF Allowed, TicketStatuses, Wanted

\* A step that an IT workflow records is one of the steps the critic reads.
LEMMA StepTyped ==
    \A t \in Tools, b \in BOOLEAN : Step(t, b) \in [tool : Tools, ok : BOOLEAN]
BY DEF Step

\* Every node of the graph keeps the types, and the attempts their limit.
LEMMA LoopTypeStep == CInv /\ [LoopNext]_loopVars => CInv'
<1> SUFFICES ASSUME CInv, [LoopNext]_loopVars PROVE CInv'
  OBVIOUS
<1> USE BoundAssumption, TicketTyped DEF CInv, TypeOK, Nodes
<1>1. CASE UNCHANGED loopVars
  BY <1>1 DEF loopVars
<1>2. CASE EvaluateGate
  BY <1>2 DEF EvaluateGate
<1>3. CASE EnterBranch
  BY <1>3 DEF EnterBranch
<1>4. CASE Refuse
  BY <1>4 DEF Refuse
<1>17. CASE ObeyCommand
  <2>1. diverts \in Commands
    BY <1>17 DEF ObeyCommand
  <2>2. CommandTool[diverts] \in Tools
    BY <2>1 DEF Commands, CommandTool, Tools
  <2>3. PICK ok \in BOOLEAN :
          /\ toolSteps' = {Step(CommandTool[diverts], ok)}
          /\ wf' \in {"failed", "completed", "forbidden"}
          /\ ticket' \in {ticket} \cup Allowed[ticket]
    BY <1>17 DEF ObeyCommand
  <2>4. Step(CommandTool[diverts], ok) \in [tool : Tools, ok : BOOLEAN]
    BY <2>2, StepTyped, Zenon
  <2>5. toolSteps' \subseteq [tool : Tools, ok : BOOLEAN]
    BY <2>3, <2>4
  <2>6. /\ node' = "lift"
        /\ UNCHANGED <<diverts, gate, held, attempts, report, status, executions, touched,
                       operations>>
    BY <1>17 DEF ObeyCommand
  <2> QED
    BY <2>3, <2>5, <2>6
<1>5. CASE Execute
  <2>1. toolSteps' \subseteq [tool : Tools, ok : BOOLEAN]
    <3>1. Step("it_tool", TRUE) \in [tool : Tools, ok : BOOLEAN]
      <4>1. "it_tool" \in Tools
        BY DEF Tools
      <4> QED
        BY <4>1, StepTyped, Zenon
    <3>2. toolSteps' = {Step("it_tool", TRUE)}
      BY <1>5, Zenon DEF Execute
    <3> QED
      BY <3>1, <3>2, Zenon
  <2>2. wf' \in {"none", "running", "waiting_approval", "completed", "cancelled", "failed",
                 "refused", "forbidden"} /\ executions' \in Nat
    BY <1>5 DEF Execute
  <2>3. node' \in Nodes /\ node' # "self_correction"
    BY <1>5 DEF Execute
  <2>4. UNCHANGED <<ticket, diverts, gate, held, attempts, report, status, touched, operations>>
    BY <1>5 DEF Execute
  <2> QED
    BY <2>1, <2>2, <2>3, <2>4
<1>6. CASE AskApproval
  <2>1. toolSteps' \subseteq [tool : Tools, ok : BOOLEAN]
    BY <1>6, StepTyped DEF AskApproval, Tools
  <2>2. wf' \in {"none", "running", "waiting_approval", "completed", "cancelled", "failed",
                 "refused", "forbidden"} /\ executions' \in Nat
    BY <1>6 DEF AskApproval
  <2>3. node' \in Nodes /\ node' # "self_correction"
    BY <1>6 DEF AskApproval
  <2>4. UNCHANGED <<ticket, diverts, gate, held, attempts, report, status, touched, operations>>
    BY <1>6 DEF AskApproval
  <2> QED
    BY <2>1, <2>2, <2>3, <2>4
<1>7. CASE UpdateTicket
  <2>1. LegalTransition(ticket, Wanted[node]) \in BOOLEAN
    BY DEF LegalTransition
  <2>2. toolSteps' \subseteq [tool : Tools, ok : BOOLEAN]
    BY <1>7, <2>1 DEF UpdateTicket, Step, Tools
  <2>3. ticket' \in TicketStatuses
    BY <1>7 DEF UpdateTicket
  <2>4. wf' \in {"none", "running", "waiting_approval", "completed", "cancelled", "failed",
                 "refused", "forbidden"}
    BY <1>7 DEF UpdateTicket, Wanted
  <2> QED
    BY <1>7, <2>2, <2>3, <2>4 DEF UpdateTicket
<1>8. CASE LiftExecution
  <2>1. held' \in {"none", "executed", "not_executed"}
    BY <1>8 DEF LiftExecution
  <2>2. node' \in Nodes /\ status' \in {"running", "waiting_approval", "completed",
                                      "cancelled", "failed"}
        /\ node' # "self_correction"
    BY <1>8 DEF LiftExecution
  <2> QED
    BY <1>8, <2>1, <2>2 DEF LiftExecution
<1>9. CASE Critic
  BY <1>9 DEF Critic
<1>10. CASE Correct
  BY <1>10 DEF Correct, ObjectiveKinds
<1>11. CASE Finish
  BY <1>11 DEF Finish
<1>12. CASE Fail
  BY <1>12 DEF Fail
<1>13. CASE Deny
  <2>1. LegalTransition(ticket, "rejected") \in BOOLEAN
    BY DEF LegalTransition
  <2> QED
    BY <1>13, <2>1 DEF Deny, Step, Tools
<1>14. CASE ApproveInVain
  <2>1. toolSteps' \subseteq [tool : Tools, ok : BOOLEAN]
    BY <1>14, StepTyped DEF ApproveInVain, Tools
  <2> QED
    BY <1>14, <2>1 DEF ApproveInVain
<1>15. CASE Approve
  <2>1. toolSteps' \subseteq [tool : Tools, ok : BOOLEAN]
    BY <1>15, StepTyped DEF Approve, Tools
  <2>2. executions' \in Nat /\ ticket' \in TicketStatuses
        /\ held' \in {"none", "executed", "not_executed"}
    BY <1>15 DEF Approve
  <2> QED
    BY <1>15, <2>1, <2>2 DEF Approve
<1>16. CASE OperateTicket
  BY <1>16 DEF OperateTicket
<1> QED
  BY <1>1, <1>2, <1>3, <1>4, <1>5, <1>6, <1>7, <1>8, <1>9, <1>10, <1>11, <1>12, <1>13,
     <1>14, <1>15, <1>16, <1>17 DEF LoopNext, Graph

\* The types and the limit hold throughout a run.
LEMMA CInvariance == LoopSpec => []CInv
BY InitCInv, LoopTypeStep, PTL DEF LoopSpec

\* The run keeps its types, and corrects itself at most as often as it may.
THEOREM TypeCorrect == LoopSpec => []TypeOK
<1>1. CInv => TypeOK
  BY DEF CInv
<1> QED
  BY <1>1, CInvariance, PTL

\* A pass with a successful side effect is the last: the report forbids the
\* correction, and nothing between the critic and the correction changes it.
THEOREM LastPassTouches == LoopSpec => []OnlyLastPassTouches
<1>1. LoopInit => Guarded
  BY DEF LoopInit, Guarded
<1>2. CInv /\ Guarded /\ [LoopNext]_loopVars => Guarded'
  <2> SUFFICES ASSUME CInv, Guarded, [LoopNext]_loopVars PROVE Guarded'
    OBVIOUS
  <2> USE DEF Guarded
  <2>1. CASE Critic
    <3>1. touched = 0
      BY <2>1 DEF Critic
    <3>2. PICK other \in OtherPenalties :
            report' = [passed |-> Score(other) >= 80,
                       safe   |-> SideEffects = {},
                       unsafe |-> wf = "refused"]
      BY <2>1, Zenon DEF Critic
    <3>3. report'.safe <=> SideEffects = {}
      BY <3>2
    <3> QED
      BY <2>1, <3>1, <3>3 DEF Critic
  <2>2. CASE Correct
    BY <2>2 DEF Correct
  <2>3. CASE Fail
    BY <2>3 DEF Fail
  <2>4. CASE UNCHANGED <<touched, node, report>>
    BY <2>4
  <2>5. CASE \/ EvaluateGate \/ EnterBranch \/ Refuse \/ ObeyCommand \/ Execute
             \/ AskApproval \/ LiftExecution
    BY <2>5
    DEF EvaluateGate, EnterBranch, Refuse, ObeyCommand, Execute, AskApproval, LiftExecution
  <2>6. CASE UpdateTicket \/ Deny \/ ApproveInVain \/ Approve
    BY <2>6 DEF UpdateTicket, Wanted, Deny, ApproveInVain, Approve
  <2> QED
    BY <2>1, <2>2, <2>3, <2>4, <2>5, <2>6
    DEF LoopNext, Graph, Finish, OperateTicket, loopVars
<1>3. Guarded => OnlyLastPassTouches
  BY DEF Guarded, OnlyLastPassTouches
<1> QED
  BY <1>1, <1>2, <1>3, CInvariance, PTL DEF LoopSpec

\* A score of 80 leaves no room for a refusal, nor for any of the penalties that
\* compare what happened with the gate's decision or with the ticket command.
LEMMA PassingScore ==
    ASSUME NEW other \in 0..100, Score(other) >= 80
    PROVE  /\ wf # "refused"
           /\ diverts \in Commands => Ran(CommandTool[diverts])
           /\ diverts \notin Commands =>
                /\ Ran("update_ticket")
                /\ gate.decision = "require_approval" => Ran("request_approval")
                /\ gate.decision = "auto_execute" => Ran("it_tool") \/ held = "executed"
<1> DEFINE A == ~Ran("update_ticket")
           B == gate.decision = "require_approval" /\ ~Ran("request_approval")
           C == gate.decision = "auto_execute" /\ ~Ran("it_tool") /\ held # "executed"
           D == gate.decision = "deny" /\ held = "executed"
           E == gate.decision = "require_approval"
                /\ wf \notin {"waiting_approval", "completed", "cancelled"}
           F == \E s \in toolSteps : ~s.ok
           G == wf = "failed"
           H == wf = "refused"
           M == ~Ran(CommandTool[diverts])
<1>1. /\ Points(A, 25) \in {0, 25} /\ Points(B, 40) \in {0, 40} /\ Points(C, 40) \in {0, 40}
      /\ Points(D, 40) \in {0, 40} /\ Points(E, 20) \in {0, 20} /\ Points(F, 10) \in {0, 10}
      /\ Points(G, 40) \in {0, 40} /\ Points(H, 40) \in {0, 40} /\ Points(M, 25) \in {0, 25}
      /\ A => Points(A, 25) = 25
      /\ B => Points(B, 40) = 40
      /\ C => Points(C, 40) = 40
      /\ H => Points(H, 40) = 40
      /\ M => Points(M, 25) = 25
  BY DEF Points
<1>2. 100 - other - CategoryPenalty
          - Points(E, 20) - Points(F, 10) - Points(G, 40) - Points(H, 40) >= 80
  BY Zenon DEF Score
<1>3. CASE diverts \in Commands
  <2>1. CategoryPenalty = Points(M, 25)
    BY <1>3, Zenon DEF CategoryPenalty
  <2>2. ~H /\ ~M
    <3> HIDE DEF A, B, C, D, E, F, G, H, M
    <3> QED
      BY <1>1, <1>2, <2>1
  <2> QED
    BY <1>3, <2>2
<1>4. CASE diverts \notin Commands
  <2>1. CategoryPenalty = Points(A, 25) + Points(B, 40) + Points(C, 40) + Points(D, 40)
    BY <1>4, Zenon DEF CategoryPenalty, ITPenalty
  <2>2. ~H /\ ~A /\ ~B /\ ~C
    <3> HIDE DEF A, B, C, D, E, F, G, H, M
    <3> QED
      BY <1>1, <1>2, <2>1
  <2> QED
    BY <1>4, <2>2
<1> QED
  BY <1>3, <1>4

\* The graph starts before its first pass, with nothing reported.
LEMMA InitDInv == LoopInit => DInv
<1> SUFFICES ASSUME LoopInit PROVE DInv
  OBVIOUS
<1>1. CInv
  BY InitCInv
<1>2. Pass /\ Passed /\ Ended
  BY DEF LoopInit, Pass, Passed, Ended, Ran, NoGate, Gate, NoReport, CompletedAsDecided
<1> QED
  BY <1>1, <1>2 DEF DInv

\* Every node leaves the pass in a state that its successor expects.
LEMMA PassStep == DInv /\ [LoopNext]_loopVars => Pass'
<1> SUFFICES ASSUME DInv, [LoopNext]_loopVars PROVE Pass'
  OBVIOUS
<1>0. TypeOK /\ Pass
  BY DEF DInv, CInv
<1> USE <1>0 DEF Pass, Ran, Step
<1>1. CASE UNCHANGED loopVars \/ Finish \/ OperateTicket
  BY <1>1 DEF loopVars, Finish, OperateTicket
<1>2. CASE EvaluateGate
  BY <1>2 DEF EvaluateGate
<1>3. CASE EnterBranch
  BY <1>3 DEF EnterBranch
<1>4. CASE Refuse
  BY <1>4 DEF Refuse
<1>15. CASE ObeyCommand
  BY <1>15 DEF ObeyCommand, Commands, CommandTool
<1>5. CASE Execute
  <2>1. gate.decision = "deny" => ~gate.executable
    BY <1>5 DEF TypeOK, GateDecisions, NoGate, Gate
  <2> QED
    BY <1>5, <2>1 DEF Execute, TypeOK
<1>6. CASE AskApproval
  BY <1>6 DEF AskApproval
<1>7. CASE UpdateTicket
  <2>1. node \in {"resolve", "reject", "park"}
    BY <1>7 DEF UpdateTicket, Wanted
  <2>2. CASE node = "resolve"
    BY <1>7, <2>2 DEF UpdateTicket, Wanted
  <2>3. CASE node = "reject"
    <3>1. /\ wf' = wf /\ node' = "lift"
          /\ UNCHANGED <<diverts, gate, held, executions>>
          /\ \A s \in toolSteps' \ toolSteps : s.tool = "update_ticket"
          /\ toolSteps \subseteq toolSteps'
      BY <1>7, <2>3 DEF UpdateTicket
    <3>2. /\ Ran("it_tool")' <=> Ran("it_tool")
          /\ Ran("request_approval")' <=> Ran("request_approval")
      BY <3>1
    <3> HIDE DEF Ran
    <3> QED
      BY <2>3, <3>1, <3>2
  <2>4. CASE node = "park"
    BY <1>7, <2>4 DEF UpdateTicket, Wanted
  <2> QED
    BY <2>1, <2>2, <2>3, <2>4
<1>8. CASE LiftExecution
  <2>1. CASE wf = "waiting_approval"
    BY <1>8, <2>1 DEF LiftExecution
  <2>2. CASE wf # "waiting_approval"
    BY <1>8, <2>2 DEF LiftExecution
  <2> QED
    BY <2>1, <2>2
<1>9. CASE Critic
  BY <1>9 DEF Critic
<1>10. CASE Correct
  BY <1>10 DEF Correct
<1>11. CASE Fail
  BY <1>11 DEF Fail
<1>12. CASE Deny
  BY <1>12 DEF Deny
<1>13. CASE ApproveInVain
  BY <1>13 DEF ApproveInVain
<1>14. CASE Approve
  BY <1>14 DEF Approve, TypeOK
<1> QED
  BY <1>1, <1>2, <1>3, <1>4, <1>5, <1>6, <1>7, <1>8, <1>9, <1>10, <1>11, <1>12, <1>13,
     <1>14, <1>15 DEF LoopNext, Graph

\* The critic passes only what the gate decided, and nothing follows a pass.
LEMMA PassedStep == DInv /\ [LoopNext]_loopVars => Passed'
<1> SUFFICES ASSUME DInv, [LoopNext]_loopVars PROVE Passed'
  OBVIOUS
<1>0. TypeOK /\ Pass /\ Passed
  BY DEF DInv, CInv
<1>1. CASE Critic
  <2>1. PICK other \in OtherPenalties :
          report' = [passed |-> Score(other) >= 80,
                     safe   |-> SideEffects = {},
                     unsafe |-> wf = "refused"]
    BY <1>1, Zenon DEF Critic
  <2> SUFFICES ASSUME report'.passed PROVE Passed'
    BY DEF Passed
  <2>2. Score(other) >= 80 /\ other \in 0..100
    BY <2>1, BoundAssumption
  <2>3. /\ wf # "refused"
        /\ diverts \in Commands => Ran(CommandTool[diverts])
        /\ diverts \notin Commands =>
            /\ Ran("update_ticket")
            /\ gate.decision = "require_approval" => Ran("request_approval")
            /\ gate.decision = "auto_execute" => Ran("it_tool") \/ held = "executed"
    BY <2>2, PassingScore
  <2>4. /\ node = "critic" /\ node' = "end"
        /\ UNCHANGED <<diverts, gate, toolSteps, wf, executions>>
    BY <1>1, <2>1 DEF Critic
  <2>5. diverts \notin Commands => diverts = "no"
    BY <1>0, <2>3, <2>4 DEF Pass, TypeOK, ObjectiveKinds
  <2>6. diverts \notin Commands /\ gate.decision = "auto_execute" =>
            executions > 0 \/ wf \in {"failed", "cancelled"}
    BY <1>0, <2>3, <2>4 DEF Pass
  <2>7. diverts \notin Commands /\ gate.decision = "deny" => executions = 0 \/ wf = "cancelled"
    BY <1>0, <2>3, <2>4, <2>5 DEF Pass
  <2> QED
    BY <2>3, <2>4, <2>6, <2>7 DEF Passed, Ran
<1>2. CASE Finish \/ OperateTicket \/ UNCHANGED loopVars
  BY <1>0, <1>2 DEF Finish, OperateTicket, loopVars, Passed, Ran
<1>3. CASE node # "end" /\ report' = report
  BY <1>0, <1>3 DEF Passed
<1> QED
  BY <1>1, <1>2, <1>3
  DEF LoopNext, Graph, EvaluateGate, EnterBranch, Refuse, ObeyCommand, Execute, AskApproval, UpdateTicket,
      LiftExecution, Correct, Fail, Deny, ApproveInVain, Approve, Wanted

\* Only the end of the graph reports completion, and nothing happens after it.
LEMMA EndedStep == DInv /\ [LoopNext]_loopVars => Ended'
<1> SUFFICES ASSUME DInv, [LoopNext]_loopVars PROVE Ended'
  OBVIOUS
<1>0. TypeOK /\ Passed /\ Ended
  BY DEF DInv, CInv
<1>1. CASE Finish
  <2> SUFFICES ASSUME status' = "completed" PROVE Ended'
    BY DEF Ended, CompletedAsDecided
  <2>1. report.passed /\ wf \notin {"cancelled", "failed"}
    BY <1>1 DEF Finish
  <2> QED
    BY <1>0, <1>1, <2>1 DEF Finish, Passed, Ended, CompletedAsDecided, Ran, TypeOK
<1>2. CASE OperateTicket \/ UNCHANGED loopVars
  BY <1>0, <1>2 DEF OperateTicket, loopVars, Ended, CompletedAsDecided, Ran
<1>3. CASE node # "end" /\ status' \in {status, "waiting_approval", "failed"}
  BY <1>0, <1>3 DEF Ended, CompletedAsDecided
<1> QED
  BY <1>1, <1>2, <1>3
  DEF LoopNext, Graph, EvaluateGate, EnterBranch, Refuse, ObeyCommand, Execute, AskApproval, UpdateTicket,
      LiftExecution, Critic, Correct, Fail, Deny, ApproveInVain, Approve, Wanted

\* A run that is reported as completed did what its last gate verdict demanded,
\* however often it was corrected and whatever operators did meanwhile.
THEOREM CompletionsAreAsDecided == LoopSpec => []CompletedAsDecided
<1>1. DInv /\ [LoopNext]_loopVars => DInv'
  BY LoopTypeStep, PassStep, PassedStep, EndedStep DEF DInv
<1>2. DInv => CompletedAsDecided
  BY DEF DInv, Ended
<1> QED
  BY <1>1, <1>2, InitDInv, PTL DEF LoopSpec

\* Types, the limit of attempts and the last pass, in one statement.
THEOREM CorrectionsAreSafe == LoopSpec => []CorrectionIsSafe
  BY TypeCorrect, LastPassTouches, PTL DEF CorrectionIsSafe

=============================================================================
