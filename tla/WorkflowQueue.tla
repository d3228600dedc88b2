--------------------------- MODULE WorkflowQueue ---------------------------
(***************************************************************************)
(* The durable workflow job queue of one tenant: the rows of workflow_jobs *)
(* (internal/data/workflow_jobs.go), the pollers that run jobs             *)
(* (internal/kernel/workflow/queue.go, internal/worker/worker.go) and the  *)
(* HTTP requests that approve a halted job (internal/api/workflow.go).     *)
(*                                                                         *)
(* Every statement against the table is one atomic step; what a poller or  *)
(* a request remembers between two statements (the claimed job, the list   *)
(* of overdue jobs, the step whose approver was checked) is state of its   *)
(* own, so that it can be stale when it is used.                           *)
(***************************************************************************)
EXTENDS Naturals, Sequences, FiniteSets

CONSTANTS
  Jobs,         \* ids of workflow_jobs rows
  NoJob,        \* what a poller or a request that holds no job refers to
  Pollers,      \* goroutines of worker.Runner, over every process
  Requests,     \* callers of POST /api/workflow-jobs/{id}/approve
  Steps,        \* the workflow definition the jobs run, a sequence of steps
  MaxAttempts,  \* max_attempts of a row
  MaxCrashes,   \* bound: how often a poller dies or loses its database
  HandlersMayOutliveLease  \* FALSE: LeaseTimeout covers every handler

(* A step is a notify step or a require_approval step. approvers are the   *)
(* callers userMayApprove accepts before the step escalates (role,         *)
(* department, delegation or machine token), substitutes those it accepts  *)
(* besides once it has; a step without escalate_after_hours has none.      *)
StepType == [kind : {"notify", "require_approval"},
             approvers : SUBSET Requests, substitutes : SUBSET Requests]

ASSUME StepsAssumption == Steps \in Seq(StepType) /\ Steps # <<>>
ASSUME AttemptsAssumption == MaxAttempts \in Nat \ {0}
ASSUME CrashAssumption == MaxCrashes \in Nat
ASSUME NoJobAssumption == NoJob \notin Jobs
ASSUME LeaseAssumption == HandlersMayOutliveLease \in BOOLEAN

VARIABLES
  status,     \* status[j]: the row's status, "absent" before its INSERT
  stepIndex,  \* stepIndex[j]: the row's step_index, from 0 as in the code
  attempts,   \* attempts[j]
  due,        \* the jobs whose run_after has come
  aged,       \* the jobs whose updated_at is older than the limit that
              \* applies to them: the lease of a running job, the
              \* escalate_after_hours of a waiting one
  escalated,  \* the jobs whose escalated flag is set
  pc,         \* pc[p]: where poller p is in tickTenant
  claimed,    \* claimed[p]: the job ProcessOne of p is running
  at,         \* at[p]: ProcessOne's loop variable i
  sweep,      \* sweep[p]: the overdue jobs p listed and has not escalated yet
  checkedJob, \* checkedJob[r]: the job request r has found r may approve
  ran,        \* history: ran[j], the steps of j whose handler has succeeded
              \* or that were approved
  crashes     \* how many crashes there were

rowVars == <<status, stepIndex, attempts, due, aged, escalated>>
pollerVars == <<pc, claimed, at, sweep>>
vars == <<rowVars, pollerVars, checkedJob, ran, crashes>>

-----------------------------------------------------------------------------
N == Len(Steps)
IsApproval(i) == i < N /\ Steps[i + 1].kind = "require_approval"
IsNotify(i) == i < N /\ Steps[i + 1].kind = "notify"
Escalates(i) == IsApproval(i) /\ Steps[i + 1].substitutes # {}

(* userMayApprove on a job at step i: the step's own requirement, or the   *)
(* escalation one once the job has escalated.                              *)
UserMayApprove(r, i, isEscalated) ==
  \/ r \in Steps[i + 1].approvers
  \/ isEscalated /\ r \in Steps[i + 1].substitutes

Statuses == {"absent", "queued", "running", "waiting_approval", "done", "dead_letter"}
PollerStates == {"idle", "reclaimed", "draining", "claimed", "stepping"}

Init ==
  /\ status = [j \in Jobs |-> "absent"]
  /\ stepIndex = [j \in Jobs |-> 0]
  /\ attempts = [j \in Jobs |-> 0]
  /\ due = {}
  /\ aged = {}
  /\ escalated = {}
  /\ pc = [p \in Pollers |-> "idle"]
  /\ claimed = [p \in Pollers |-> NoJob]
  /\ at = [p \in Pollers |-> 0]
  /\ sweep = [p \in Pollers |-> {}]
  /\ checkedJob = [r \in Requests |-> NoJob]
  /\ ran = [j \in Jobs |-> {}]
  /\ crashes = 0

-----------------------------------------------------------------------------
(* The statements of data.WorkflowJobRepo, on the rows alone. Those keyed   *)
(* on an id and a status change nothing when the status is another one:    *)
(* zero rows affected, ErrNotFound.                                        *)

SetStatus(j, s) == status' = [status EXCEPT ![j] = s]
SetStepIndex(j, i) == stepIndex' = [stepIndex EXCEPT ![j] = i]
Touch(S) == aged' = aged \ S

(* The INSERT, with the defaults of the table: step 0, queued, due now.    *)
InsertRow(j) ==
  /\ status[j] = "absent"
  /\ SetStatus(j, "queued")
  /\ due' = due \union {j}
  /\ UNCHANGED <<stepIndex, attempts, aged, escalated>>

(* ClaimNext on the row it selected. The selection is any due queued job:  *)
(* ORDER BY run_after and SKIP LOCKED only narrow the choice.              *)
ClaimableJobs == {j \in Jobs : status[j] = "queued" /\ j \in due}

(* Faulty variant: the row is selected and not marked running.             *)
ClaimRowUnmarked(j) ==
  /\ j \in ClaimableJobs
  /\ Touch({j})
  /\ UNCHANGED <<status, stepIndex, attempts, due, escalated>>

ClaimRow(j) ==
  /\ j \in ClaimableJobs
  /\ SetStatus(j, "running")
  /\ Touch({j})
  /\ UNCHANGED <<stepIndex, attempts, due, escalated>>

DoneRow(j, i) ==
  /\ status[j] = "running"
  /\ SetStatus(j, "done")
  /\ SetStepIndex(j, i)
  /\ Touch({j})
  /\ UNCHANGED <<attempts, due, escalated>>

(* Faulty variant: no status guard.                                        *)
WaitRowUnguarded(j, i) ==
  /\ SetStatus(j, "waiting_approval")
  /\ SetStepIndex(j, i)
  /\ Touch({j})
  /\ UNCHANGED <<attempts, due, escalated>>

WaitRow(j, i) ==
  /\ status[j] = "running"
  /\ SetStatus(j, "waiting_approval")
  /\ SetStepIndex(j, i)
  /\ Touch({j})
  /\ UNCHANGED <<attempts, due, escalated>>

(* What MarkFailed and ReclaimStale make of a running row: one more        *)
(* attempt, and the dead letter when that was the last one.                *)
(* Faulty variant: one failure too many.                                   *)
ExhaustedLate(j) == attempts[j] >= MaxAttempts
Exhausted(j) == attempts[j] + 1 >= MaxAttempts
StatusAfterFailure(j) == IF Exhausted(j) THEN "dead_letter" ELSE "queued"

FailRow(j) ==
  /\ status[j] = "running"
  /\ SetStatus(j, StatusAfterFailure(j))
  /\ attempts' = [attempts EXCEPT ![j] = @ + 1]
  /\ due' = IF Exhausted(j) THEN due ELSE due \ {j}
  /\ Touch({j})
  /\ UNCHANGED <<stepIndex, escalated>>

(* The running rows updated_at says are older than the lease, all at once. *)
(* Faulty variant: nobody is ever reclaimed.                               *)
NoStaleJobs == {}

StaleJobs == {j \in Jobs : status[j] = "running" /\ j \in aged}

(* Faulty variant: a reset to queued that counts no attempt.               *)
ReclaimRowsUncounted ==
  /\ status' = [j \in Jobs |-> IF j \in StaleJobs THEN "queued" ELSE status[j]]
  /\ due' = due \union StaleJobs
  /\ Touch(StaleJobs)
  /\ UNCHANGED <<stepIndex, attempts, escalated>>

ReclaimRows ==
  /\ status' = [j \in Jobs |-> IF j \in StaleJobs THEN StatusAfterFailure(j) ELSE status[j]]
  /\ attempts' = [j \in Jobs |-> attempts[j] + (IF j \in StaleJobs THEN 1 ELSE 0)]
  /\ due' = due \union {j \in StaleJobs : ~Exhausted(j)}
  /\ Touch(StaleJobs)
  /\ UNCHANGED <<stepIndex, escalated>>

(* Faulty variant: the next approval step inherits the escalation.         *)
ResumeRowEscalated(j) ==
  /\ status[j] = "waiting_approval"
  /\ SetStatus(j, "queued")
  /\ SetStepIndex(j, stepIndex[j] + 1)
  /\ due' = due \union {j}
  /\ Touch({j})
  /\ UNCHANGED <<attempts, escalated>>

ResumeRow(j) ==
  /\ status[j] = "waiting_approval"
  /\ SetStatus(j, "queued")
  /\ SetStepIndex(j, stepIndex[j] + 1)
  /\ due' = due \union {j}
  /\ escalated' = escalated \ {j}
  /\ Touch({j})
  /\ UNCHANGED attempts

(* updated_at is left alone: it is when the job entered waiting_approval.  *)
EscalateRow(j) ==
  /\ status[j] = "waiting_approval"
  /\ j \notin escalated
  /\ escalated' = escalated \union {j}
  /\ UNCHANGED <<status, stepIndex, attempts, due, aged>>

-----------------------------------------------------------------------------
(* A poller's tick over the tenant: reclaim, list the overdue approvals,   *)
(* escalate each, then process jobs until none is due.                     *)

Goto(p, state) == pc' = [pc EXCEPT ![p] = state]
DropClaim(p) ==
  /\ claimed' = [claimed EXCEPT ![p] = NoJob]
  /\ at' = [at EXCEPT ![p] = 0]

ReclaimStale(p) ==
  /\ pc[p] = "idle"
  /\ ReclaimRows
  /\ Goto(p, "reclaimed")
  /\ UNCHANGED <<claimed, at, sweep, checkedJob, ran, crashes>>

(* The candidates ListWaitingApproval returns that are past their          *)
(* threshold: both the row and the clock are read here, not when the job   *)
(* is escalated.                                                           *)
OverdueJobs ==
  {j \in Jobs : /\ status[j] = "waiting_approval" /\ j \notin escalated
                /\ j \in aged /\ Escalates(stepIndex[j])}
ListOverdue(p) ==
  /\ pc[p] = "reclaimed"
  /\ sweep' = [sweep EXCEPT ![p] = OverdueJobs]
  /\ Goto(p, "draining")
  /\ UNCHANGED <<rowVars, claimed, at, checkedJob, ran, crashes>>

EscalateOne(p) ==
  /\ pc[p] = "draining"
  /\ \E j \in sweep[p] :
       /\ sweep' = [sweep EXCEPT ![p] = @ \ {j}]
       /\ \/ EscalateRow(j)
          \/ ~(status[j] = "waiting_approval" /\ j \notin escalated) /\ UNCHANGED rowVars
  /\ UNCHANGED <<pc, claimed, at, checkedJob, ran, crashes>>

(* Faulty variants: every run starts over at the first step; a run starts  *)
(* at the step after the one stored, as if it had been resumed.            *)
ClaimFromStart(p) ==
  /\ pc[p] = "draining" /\ sweep[p] = {}
  /\ \E j \in Jobs :
       /\ ClaimRow(j)
       /\ claimed' = [claimed EXCEPT ![p] = j]
       /\ at' = [at EXCEPT ![p] = 0]
  /\ Goto(p, "claimed")
  /\ UNCHANGED <<sweep, checkedJob, ran, crashes>>

ClaimPastStep(p) ==
  /\ pc[p] = "draining" /\ sweep[p] = {}
  /\ \E j \in Jobs :
       /\ ClaimRow(j)
       /\ claimed' = [claimed EXCEPT ![p] = j]
       /\ at' = [at EXCEPT ![p] = stepIndex[j] + 1]
  /\ Goto(p, "claimed")
  /\ UNCHANGED <<sweep, checkedJob, ran, crashes>>

ClaimNext(p) ==
  /\ pc[p] = "draining" /\ sweep[p] = {}
  /\ \E j \in Jobs :
       /\ ClaimRow(j)
       /\ claimed' = [claimed EXCEPT ![p] = j]
       /\ at' = [at EXCEPT ![p] = stepIndex[j]]
  /\ Goto(p, "claimed")
  /\ UNCHANGED <<sweep, checkedJob, ran, crashes>>

NoJobAvailable(p) ==
  /\ pc[p] = "draining" /\ sweep[p] = {}
  /\ ClaimableJobs = {}
  /\ Goto(p, "idle")
  /\ UNCHANGED <<rowVars, claimed, at, sweep, checkedJob, ran, crashes>>

(* The handler of a notify step returns nil: the loop goes on.             *)
RunHandler(p) ==
  /\ pc[p] \in {"claimed", "stepping"}
  /\ IsNotify(at[p])
  /\ ran' = [ran EXCEPT ![claimed[p]] = @ \union {at[p]}]
  /\ at' = [at EXCEPT ![p] = @ + 1]
  /\ Goto(p, "stepping")
  /\ UNCHANGED <<rowVars, claimed, sweep, checkedJob, crashes>>

(* The statement that ends ProcessOne. A poller whose row is no longer     *)
(* running gets ErrNotFound, and stops draining until its next tick.       *)
EndProcessOne(p, statement) ==
  /\ \/ statement /\ Goto(p, "draining")
     \/ status[claimed[p]] # "running" /\ UNCHANGED rowVars /\ Goto(p, "idle")
  /\ DropClaim(p)
  /\ UNCHANGED <<sweep, checkedJob, ran, crashes>>

(* The definition cannot be resolved or is invalid, or a handler returns   *)
(* an error or panics.                                                     *)
Fail(p) ==
  /\ pc[p] = "claimed" \/ (pc[p] = "stepping" /\ IsNotify(at[p]))
  /\ EndProcessOne(p, FailRow(claimed[p]))

HaltForApproval(p) ==
  /\ pc[p] \in {"claimed", "stepping"}
  /\ IsApproval(at[p])
  /\ EndProcessOne(p, WaitRow(claimed[p], at[p]))

Finish(p) ==
  /\ pc[p] \in {"claimed", "stepping"}
  /\ at[p] = N
  /\ EndProcessOne(p, DoneRow(claimed[p], N))

(* The process dies, or the statement that would end ProcessOne fails: the *)
(* tick ends and the row stays as it was.                                  *)
Crash(p) ==
  /\ pc[p] # "idle"
  /\ crashes < MaxCrashes
  /\ crashes' = crashes + 1
  /\ Goto(p, "idle")
  /\ DropClaim(p)
  /\ sweep' = [sweep EXCEPT ![p] = {}]
  /\ UNCHANGED <<rowVars, checkedJob, ran>>

-----------------------------------------------------------------------------
(* triggerWorkflows and fireOne insert jobs.                               *)
Enqueue(j) ==
  /\ InsertRow(j)
  /\ UNCHANGED <<pollerVars, checkedJob, ran, crashes>>

(* approveWorkflowJob reads the row and checks the caller against the step *)
(* it waits at; the UPDATE that resumes it comes later. A request that is  *)
(* dropped in between simply takes no further step.                        *)
CheckApproval(r) ==
  /\ checkedJob[r] = NoJob
  /\ \E j \in Jobs :
       /\ status[j] = "waiting_approval"
       /\ UserMayApprove(r, stepIndex[j], j \in escalated)
       /\ checkedJob' = [checkedJob EXCEPT ![r] = j]
  /\ UNCHANGED <<rowVars, pollerVars, ran, crashes>>

ResumeAfterApproval(r) ==
  /\ checkedJob[r] # NoJob
  /\ LET j == checkedJob[r] IN
       \/ /\ ResumeRow(j)
          /\ ran' = [ran EXCEPT ![j] = @ \union {stepIndex[j]}]
       \/ /\ status[j] # "waiting_approval"
          /\ UNCHANGED <<rowVars, ran>>
  /\ checkedJob' = [checkedJob EXCEPT ![r] = NoJob]
  /\ UNCHANGED <<pollerVars, crashes>>

(* The clock: a backoff ends; a row's updated_at falls behind its limit.   *)
(* A running job that a live poller holds outlives its lease only when     *)
(* handlers may.                                                           *)
BackoffEnds(j) ==
  /\ status[j] = "queued" /\ j \notin due
  /\ due' = due \union {j}
  /\ UNCHANGED <<status, stepIndex, attempts, aged, escalated, pollerVars, checkedJob, ran, crashes>>

GrowOld(j) ==
  /\ j \notin aged
  /\ \/ /\ status[j] = "running"
        /\ HandlersMayOutliveLease \/ \A p \in Pollers : claimed[p] # j
     \/ status[j] = "waiting_approval" /\ Escalates(stepIndex[j])
  /\ aged' = aged \union {j}
  /\ UNCHANGED <<status, stepIndex, attempts, due, escalated, pollerVars, checkedJob, ran, crashes>>

-----------------------------------------------------------------------------
ProcessOne(p) == ClaimNext(p) \/ NoJobAvailable(p) \/ RunHandler(p)
                   \/ Fail(p) \/ HaltForApproval(p) \/ Finish(p)
TickTenant(p) == ReclaimStale(p) \/ ListOverdue(p) \/ EscalateOne(p) \/ ProcessOne(p)

Next ==
  \/ \E j \in Jobs : Enqueue(j) \/ BackoffEnds(j) \/ GrowOld(j)
  \/ \E p \in Pollers : TickTenant(p) \/ Crash(p)
  \/ \E r \in Requests : CheckApproval(r) \/ ResumeAfterApproval(r)

Spec == Init /\ [][Next]_vars

(* Pollers tick for ever and handlers return; the clock advances. Nobody   *)
(* has to approve anything.                                                *)
Fairness ==
  /\ \A p \in Pollers : WF_vars(TickTenant(p))
  /\ \A j \in Jobs : WF_vars(BackoffEnds(j)) /\ WF_vars(GrowOld(j))
FairSpec == Spec /\ Fairness

-----------------------------------------------------------------------------
(* Every variable stays in its type.                                       *)
TypeOK ==
  /\ status \in [Jobs -> Statuses]
  /\ stepIndex \in [Jobs -> 0..N]
  /\ attempts \in [Jobs -> 0..MaxAttempts]
  /\ due \subseteq Jobs
  /\ aged \subseteq Jobs
  /\ escalated \subseteq Jobs
  /\ pc \in [Pollers -> PollerStates]
  /\ claimed \in [Pollers -> Jobs \union {NoJob}]
  /\ at \in [Pollers -> 0..N]
  /\ sweep \in [Pollers -> SUBSET Jobs]
  /\ checkedJob \in [Requests -> Jobs \union {NoJob}]
  /\ ran \in [Jobs -> SUBSET (0..(N - 1))]
  /\ crashes \in 0..MaxCrashes

(* No retry, reclaim, late write or resume makes a job pass a step: a step *)
(* has run or was approved only when all before it have, and a job is done *)
(* only when all of them have (ProcessOne, ResumeAfterApproval).           *)
NoStepSkipped ==
  \A j \in Jobs :
    /\ \A i \in ran[j] : 0..i \subseteq ran[j]
    /\ status[j] = "done" => ran[j] = 0..(N - 1)

(* A job has failed max_attempts times exactly when it is a dead letter,   *)
(* however many pollers and reapers counted failures (MarkFailed,          *)
(* ReclaimStale).                                                          *)
AttemptBudget ==
  \A j \in Jobs : attempts[j] = MaxAttempts <=> status[j] = "dead_letter"

(* A job that waits does so at an approval step, and only a waiting job is *)
(* escalated: every approval step starts with the flag clear               *)
(* (ResumeAfterApproval, MarkEscalatedTx).                                 *)
EscalatedOnlyWhileWaiting ==
  /\ \A j \in escalated : status[j] = "waiting_approval"
  /\ \A j \in Jobs : status[j] = "waiting_approval" => IsApproval(stepIndex[j])

(* No late write, reclaim or approval moves a job out of done or           *)
(* dead_letter (the status guards of every Mark method).                   *)
TerminalIsFinal ==
  [][\A j \in Jobs : status[j] \in {"done", "dead_letter"} =>
       status'[j] = status[j] /\ stepIndex'[j] = stepIndex[j]]_vars

(* At most one live poller runs a job, and it is running while one does    *)
(* (ClaimNext, ReclaimStale): true when the lease covers every handler.    *)
OneClaimant ==
  \A p \in Pollers : claimed[p] # NoJob =>
    /\ status[claimed[p]] = "running"
    /\ \A q \in Pollers \ {p} : claimed[q] # claimed[p]

(* step_index never falls: an approval once given is not asked for again   *)
(* (MarkWaitingApproval after ReclaimStale).                               *)
ApprovalNotUndone ==
  [][\A j \in Jobs : stepIndex'[j] >= stepIndex[j]]_vars

(* A job is escalated only after it has waited its threshold at the step   *)
(* it waits at (EscalateOverdueApprovals).                                 *)
EscalatedIsOverdue == escalated \subseteq aged

(* Whoever resumes a job is one the step it waits at accepts               *)
(* (approveWorkflowJob, userMayApprove). The code does not keep this one:  *)
(* it checks the caller before it resumes the job.                         *)
ResumedByApprover ==
  [][\A r \in Requests :
       ResumeAfterApproval(r) /\ status[checkedJob[r]] = "waiting_approval" =>
         UserMayApprove(r, stepIndex[checkedJob[r]], TRUE)]_vars

(* No job stays queued and running for ever: it comes to wait for an       *)
(* approval, to be done or to be a dead letter, although pollers crash     *)
(* while they run it (ReclaimStale).                                       *)
EveryJobSettles == \A j \in Jobs : []<>(status[j] \notin {"queued", "running"})

-----------------------------------------------------------------------------
(* When the lease covers every handler, the queue is nothing but the       *)
(* lifecycle it promises: retries and crashes repeat handlers, and never   *)
(* the progress of a job (ProcessOne, ReclaimStale, ResumeAfterApproval).  *)
Lifecycle == INSTANCE JobLifecycle
  WITH phase <- status, complete <- ran, failures <- attempts,
       ApprovalSteps <- {i \in 0..(N - 1) : IsApproval(i)}
ImplementsLifecycle == Lifecycle!LifecycleSpec
=============================================================================
