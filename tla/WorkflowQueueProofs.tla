------------------------ MODULE WorkflowQueueProofs ------------------------
(***************************************************************************)
(* What holds of the workflow job queue for every number of jobs, pollers, *)
(* requests, steps and attempts, whether or not handlers outlive their     *)
(* lease.                                                                  *)
(***************************************************************************)
EXTENDS WorkflowQueue, TLAPS

Busy == {"claimed", "stepping"}

(* The steps a row or a poller has left behind have all been completed,    *)
(* so that whatever a late poller writes and wherever a retry resumes, no  *)
(* step is passed.                                                         *)
Progress ==
  /\ \A j \in Jobs : \A i \in ran[j] : 0..i \subseteq ran[j]
  /\ \A j \in Jobs : 0..(stepIndex[j] - 1) \subseteq ran[j]
  /\ \A j \in Jobs : status[j] = "done" => stepIndex[j] = N
  /\ \A p \in Pollers : pc[p] \in Busy =>
       claimed[p] \in Jobs /\ 0..(at[p] - 1) \subseteq ran[claimed[p]]

IInv == TypeOK /\ AttemptBudget /\ EscalatedOnlyWhileWaiting /\ Progress

USE StepsAssumption, AttemptsAssumption, CrashAssumption, NoJobAssumption

LEMMA NumberOfSteps == N \in Nat
BY DEF N

LEMMA InitInv == Init => IInv
<1> SUFFICES ASSUME Init PROVE IInv
  OBVIOUS
<1> USE NumberOfSteps DEF Init
<1>1. TypeOK
  BY DEF TypeOK, Statuses, PollerStates
<1>2. AttemptBudget
  BY DEF AttemptBudget
<1>3. EscalatedOnlyWhileWaiting
  BY DEF EscalatedOnlyWhileWaiting
<1>4. Progress
  BY DEF Progress, Busy
<1> QED
  BY <1>1, <1>2, <1>3, <1>4 DEF IInv

(* A new row. *)
LEMMA EnqueueInv == ASSUME IInv, NEW j \in Jobs, Enqueue(j) PROVE IInv'
<1> USE NumberOfSteps DEF IInv, Enqueue, InsertRow, SetStatus, rowVars, pollerVars, Goto, DropClaim
<1>1. TypeOK'
  BY DEF TypeOK, Statuses, PollerStates, AttemptBudget, EscalatedOnlyWhileWaiting, IsApproval, Progress, Busy
<1>2. AttemptBudget'
  BY DEF AttemptBudget, TypeOK, Progress, Busy
<1>3. EscalatedOnlyWhileWaiting'
  BY DEF EscalatedOnlyWhileWaiting, IsApproval, TypeOK, Progress, Busy
<1>4. Progress'
  BY DEF Progress, TypeOK, Busy, EscalatedOnlyWhileWaiting, IsApproval
<1> QED
  BY <1>1, <1>2, <1>3, <1>4

(* The clock. *)
LEMMA BackoffEndsInv == ASSUME IInv, NEW j \in Jobs, BackoffEnds(j) PROVE IInv'
<1> USE NumberOfSteps DEF IInv, BackoffEnds, rowVars, pollerVars, Goto, DropClaim
<1>1. TypeOK'
  BY DEF TypeOK, Statuses, PollerStates, AttemptBudget, EscalatedOnlyWhileWaiting, IsApproval, Progress, Busy
<1>2. AttemptBudget'
  BY DEF AttemptBudget, TypeOK, Progress, Busy
<1>3. EscalatedOnlyWhileWaiting'
  BY DEF EscalatedOnlyWhileWaiting, IsApproval, TypeOK, Progress, Busy
<1>4. Progress'
  BY DEF Progress, TypeOK, Busy, EscalatedOnlyWhileWaiting, IsApproval
<1> QED
  BY <1>1, <1>2, <1>3, <1>4

(* The clock. *)
LEMMA GrowOldInv == ASSUME IInv, NEW j \in Jobs, GrowOld(j) PROVE IInv'
<1> USE NumberOfSteps DEF IInv, GrowOld, rowVars, pollerVars, Goto, DropClaim
<1>1. TypeOK'
  BY DEF TypeOK, Statuses, PollerStates, AttemptBudget, EscalatedOnlyWhileWaiting, IsApproval, Progress, Busy
<1>2. AttemptBudget'
  BY DEF AttemptBudget, TypeOK, Progress, Busy
<1>3. EscalatedOnlyWhileWaiting'
  BY DEF EscalatedOnlyWhileWaiting, IsApproval, TypeOK, Progress, Busy
<1>4. Progress'
  BY DEF Progress, TypeOK, Busy, EscalatedOnlyWhileWaiting, IsApproval
<1> QED
  BY <1>1, <1>2, <1>3, <1>4

(* Each poller step. *)
LEMMA ReclaimStaleInv == ASSUME IInv, NEW p \in Pollers, ReclaimStale(p) PROVE IInv'
<1> USE NumberOfSteps DEF IInv, ReclaimStale, ReclaimRows, StaleJobs, Exhausted, StatusAfterFailure, Touch, Goto
<1>1. ASSUME NEW j \in Jobs
      PROVE  /\ attempts'[j] \in 0..MaxAttempts /\ status'[j] \in Statuses
             /\ attempts'[j] = MaxAttempts <=> status'[j] = "dead_letter"
  <2>1. CASE j \in StaleJobs
    BY <2>1 DEF TypeOK, AttemptBudget, Statuses
  <2>2. CASE j \notin StaleJobs
    BY <2>2 DEF TypeOK, AttemptBudget, Statuses
  <2> QED
    BY <2>1, <2>2
<1>2. status' \in [Jobs -> Statuses] /\ attempts' \in [Jobs -> 0..MaxAttempts]
  BY <1>1
<1>3. TypeOK'
  BY <1>2 DEF TypeOK, PollerStates
<1>4. AttemptBudget'
  BY <1>1 DEF AttemptBudget
<1>5. EscalatedOnlyWhileWaiting'
  BY DEF EscalatedOnlyWhileWaiting, IsApproval, TypeOK
<1>6. Progress'
  BY DEF Progress, TypeOK, Busy
<1> QED
  BY <1>3, <1>4, <1>5, <1>6

LEMMA ListOverdueInv == ASSUME IInv, NEW p \in Pollers, ListOverdue(p) PROVE IInv'
<1> USE NumberOfSteps DEF IInv, ListOverdue, OverdueJobs, rowVars, pollerVars, Goto, DropClaim
<1>1. TypeOK'
  BY DEF TypeOK, Statuses, PollerStates, AttemptBudget, EscalatedOnlyWhileWaiting, IsApproval, Progress, Busy
<1>2. AttemptBudget'
  BY DEF AttemptBudget, TypeOK, Progress, Busy
<1>3. EscalatedOnlyWhileWaiting'
  BY DEF EscalatedOnlyWhileWaiting, IsApproval, TypeOK, Progress, Busy
<1>4. Progress'
  BY DEF Progress, TypeOK, Busy, EscalatedOnlyWhileWaiting, IsApproval
<1> QED
  BY <1>1, <1>2, <1>3, <1>4

LEMMA EscalateOneInv == ASSUME IInv, NEW p \in Pollers, EscalateOne(p) PROVE IInv'
<1> USE NumberOfSteps DEF IInv, EscalateOne, EscalateRow, rowVars, pollerVars, Goto, DropClaim
<1>1. TypeOK'
  BY DEF TypeOK, Statuses, PollerStates, AttemptBudget, EscalatedOnlyWhileWaiting, IsApproval, Progress, Busy
<1>2. AttemptBudget'
  BY DEF AttemptBudget, TypeOK, Progress, Busy
<1>3. EscalatedOnlyWhileWaiting'
  BY DEF EscalatedOnlyWhileWaiting, IsApproval, TypeOK, Progress, Busy
<1>4. Progress'
  BY DEF Progress, TypeOK, Busy, EscalatedOnlyWhileWaiting, IsApproval
<1> QED
  BY <1>1, <1>2, <1>3, <1>4

LEMMA ClaimNextInv == ASSUME IInv, NEW p \in Pollers, ClaimNext(p) PROVE IInv'
<1> USE NumberOfSteps DEF IInv, ClaimNext, ClaimRow, ClaimableJobs, SetStatus, Touch, rowVars, pollerVars, Goto, DropClaim
<1>1. TypeOK'
  BY DEF TypeOK, Statuses, PollerStates, AttemptBudget, EscalatedOnlyWhileWaiting, IsApproval, Progress, Busy
<1>2. AttemptBudget'
  BY DEF AttemptBudget, TypeOK, Progress, Busy
<1>3. EscalatedOnlyWhileWaiting'
  BY DEF EscalatedOnlyWhileWaiting, IsApproval, TypeOK, Progress, Busy
<1>4. Progress'
  BY DEF Progress, TypeOK, Busy, EscalatedOnlyWhileWaiting, IsApproval
<1> QED
  BY <1>1, <1>2, <1>3, <1>4

LEMMA NoJobAvailableInv == ASSUME IInv, NEW p \in Pollers, NoJobAvailable(p) PROVE IInv'
<1> USE NumberOfSteps DEF IInv, NoJobAvailable, rowVars, pollerVars, Goto, DropClaim
<1>1. TypeOK'
  BY DEF TypeOK, Statuses, PollerStates, AttemptBudget, EscalatedOnlyWhileWaiting, IsApproval, Progress, Busy
<1>2. AttemptBudget'
  BY DEF AttemptBudget, TypeOK, Progress, Busy
<1>3. EscalatedOnlyWhileWaiting'
  BY DEF EscalatedOnlyWhileWaiting, IsApproval, TypeOK, Progress, Busy
<1>4. Progress'
  BY DEF Progress, TypeOK, Busy, EscalatedOnlyWhileWaiting, IsApproval
<1> QED
  BY <1>1, <1>2, <1>3, <1>4

LEMMA RunHandlerInv == ASSUME IInv, NEW p \in Pollers, RunHandler(p) PROVE IInv'
<1> USE NumberOfSteps DEF IInv, RunHandler, rowVars, Goto
<1> DEFINE j == claimed[p]
<1>1. j \in Jobs /\ at[p] \in 0..(N - 1) /\ 0..(at[p] - 1) \subseteq ran[j]
  BY DEF Progress, Busy, TypeOK, IsNotify
<1>2. ran' = [ran EXCEPT ![j] = @ \union {at[p]}] /\ at' = [at EXCEPT ![p] = @ + 1]
  OBVIOUS
<1>3. ran'[j] = ran[j] \union {at[p]} /\ \A k \in Jobs : ran[k] \subseteq ran'[k]
  BY <1>1, <1>2 DEF TypeOK
<1>4. TypeOK'
  <2>1. ran' \in [Jobs -> SUBSET (0..(N - 1))]
    BY <1>1, <1>2 DEF TypeOK
  <2>2. at' \in [Pollers -> 0..N]
    BY <1>1, <1>2 DEF TypeOK
  <2>3. pc' \in [Pollers -> PollerStates]
    BY DEF TypeOK, PollerStates
  <2> QED
    BY <2>1, <2>2, <2>3 DEF TypeOK
<1>5. AttemptBudget' /\ EscalatedOnlyWhileWaiting'
  <2>1. UNCHANGED <<status, stepIndex, attempts, escalated>>
    OBVIOUS
  <2> QED
    BY <2>1 DEF AttemptBudget, EscalatedOnlyWhileWaiting, IsApproval
<1>6. Progress'
  <2>1. ASSUME NEW k \in Jobs, NEW i \in ran'[k] PROVE 0..i \subseteq ran'[k]
    <3>1. CASE i \in ran[k]
      BY <1>3, <3>1 DEF Progress
    <3>2. CASE k = j /\ i = at[p]
      <4>1. 0..i \subseteq (0..(at[p] - 1)) \union {at[p]}
        BY <1>1, <3>2
      <4> QED
        BY <1>1, <1>3, <3>2, <4>1
    <3> QED
      BY <1>1, <1>2, <3>1, <3>2 DEF TypeOK
  <2>2. ASSUME NEW k \in Jobs
        PROVE  /\ 0..(stepIndex'[k] - 1) \subseteq ran'[k]
               /\ status'[k] = "done" => stepIndex'[k] = N
    BY <1>3 DEF Progress
  <2>3. ASSUME NEW q \in Pollers, pc'[q] \in Busy
        PROVE  claimed'[q] \in Jobs /\ 0..(at'[q] - 1) \subseteq ran'[claimed'[q]]
    <3>1. CASE q = p
      <4>1. at'[p] - 1 = at[p] /\ claimed' = claimed
        BY <1>1, <1>2 DEF TypeOK
      <4>2. at[p] \in ran'[j]
        BY <1>3
      <4> QED
        BY <1>1, <2>1, <3>1, <4>1, <4>2
    <3>2. CASE q # p
      <4>1. pc'[q] = pc[q] /\ at'[q] = at[q] /\ claimed'[q] = claimed[q]
        BY <1>2, <3>2 DEF TypeOK
      <4> QED
        BY <1>3, <2>3, <4>1 DEF Progress
    <3> QED
      BY <3>1, <3>2
  <2> QED
    BY <2>1, <2>2, <2>3 DEF Progress
<1> QED
  BY <1>4, <1>5, <1>6

LEMMA CrashInv == ASSUME IInv, NEW p \in Pollers, Crash(p) PROVE IInv'
<1> USE NumberOfSteps DEF IInv, Crash, rowVars, pollerVars, Goto, DropClaim
<1>1. TypeOK'
  BY DEF TypeOK, Statuses, PollerStates, AttemptBudget, EscalatedOnlyWhileWaiting, IsApproval, Progress, Busy
<1>2. AttemptBudget'
  BY DEF AttemptBudget, TypeOK, Progress, Busy
<1>3. EscalatedOnlyWhileWaiting'
  BY DEF EscalatedOnlyWhileWaiting, IsApproval, TypeOK, Progress, Busy
<1>4. Progress'
  BY DEF Progress, TypeOK, Busy, EscalatedOnlyWhileWaiting, IsApproval
<1> QED
  BY <1>1, <1>2, <1>3, <1>4

LEMMA CheckApprovalInv == ASSUME IInv, NEW r \in Requests, CheckApproval(r) PROVE IInv'
<1> USE NumberOfSteps DEF IInv, CheckApproval, rowVars, pollerVars, Goto, DropClaim
<1>1. TypeOK'
  BY DEF TypeOK, Statuses, PollerStates, AttemptBudget, EscalatedOnlyWhileWaiting, IsApproval, Progress, Busy
<1>2. AttemptBudget'
  BY DEF AttemptBudget, TypeOK, Progress, Busy
<1>3. EscalatedOnlyWhileWaiting'
  BY DEF EscalatedOnlyWhileWaiting, IsApproval, TypeOK, Progress, Busy
<1>4. Progress'
  BY DEF Progress, TypeOK, Busy, EscalatedOnlyWhileWaiting, IsApproval
<1> QED
  BY <1>1, <1>2, <1>3, <1>4

LEMMA ResumeInv == ASSUME IInv, NEW r \in Requests, ResumeAfterApproval(r) PROVE IInv'
<1> USE NumberOfSteps DEF IInv
<1> DEFINE j == checkedJob[r]
<1>1. j \in Jobs /\ checkedJob' = [checkedJob EXCEPT ![r] = NoJob]
  BY DEF ResumeAfterApproval, TypeOK
<1>2. UNCHANGED <<pollerVars, crashes>>
  BY DEF ResumeAfterApproval
<1>3. CASE ResumeRow(j) /\ ran' = [ran EXCEPT ![j] = @ \union {stepIndex[j]}]
  <2> USE <1>1, <1>2, <1>3 DEF ResumeRow, SetStatus, SetStepIndex, Touch, pollerVars
  <2>1. stepIndex[j] \in 0..(N - 1) /\ stepIndex[j] + 1 \in 0..N
    BY DEF EscalatedOnlyWhileWaiting, IsApproval, TypeOK
  <2>2. ran'[j] = ran[j] \union {stepIndex[j]} /\ \A k \in Jobs : ran[k] \subseteq ran'[k]
    BY DEF TypeOK
  <2>3. TypeOK'
    BY <2>1 DEF TypeOK, Statuses
  <2>4. AttemptBudget'
    BY DEF AttemptBudget, TypeOK
  <2>5. EscalatedOnlyWhileWaiting'
    BY DEF EscalatedOnlyWhileWaiting, IsApproval, TypeOK
  <2>6. ASSUME NEW k \in Jobs, NEW i \in ran'[k] PROVE 0..i \subseteq ran'[k]
    <3>1. CASE i \in ran[k]
      BY <2>2, <3>1 DEF Progress
    <3>2. CASE k = j /\ i = stepIndex[j]
      <4>1. 0..i \subseteq (0..(stepIndex[j] - 1)) \union {stepIndex[j]}
        BY <2>1, <3>2
      <4>2. 0..(stepIndex[j] - 1) \subseteq ran[j]
        BY DEF Progress
      <4> QED
        BY <2>2, <3>2, <4>1, <4>2
    <3> QED
      BY <3>1, <3>2 DEF TypeOK
  <2>7. ASSUME NEW k \in Jobs
        PROVE  /\ 0..(stepIndex'[k] - 1) \subseteq ran'[k]
               /\ status'[k] = "done" => stepIndex'[k] = N
    <3>1. CASE k = j
      <4>1. stepIndex'[j] - 1 = stepIndex[j] /\ status'[j] = "queued"
        BY <2>1 DEF TypeOK
      <4>2. stepIndex[j] \in ran'[j]
        BY <2>2
      <4> QED
        BY <2>6, <3>1, <4>1, <4>2
    <3>2. CASE k # j
      BY <2>2, <3>2 DEF Progress, TypeOK
    <3> QED
      BY <3>1, <3>2
  <2>8. ASSUME NEW q \in Pollers, pc'[q] \in Busy
        PROVE  claimed'[q] \in Jobs /\ 0..(at'[q] - 1) \subseteq ran'[claimed'[q]]
    BY <2>2, <2>8 DEF Progress
  <2>9. Progress'
    BY <2>6, <2>7, <2>8 DEF Progress
  <2> QED
    BY <2>3, <2>4, <2>5, <2>9
<1>4. CASE UNCHANGED <<rowVars, ran>>
  <2> USE <1>1, <1>2, <1>4 DEF rowVars, pollerVars
  <2>1. TypeOK'
    BY DEF TypeOK
  <2>2. AttemptBudget' /\ EscalatedOnlyWhileWaiting' /\ Progress'
    BY DEF AttemptBudget, EscalatedOnlyWhileWaiting, IsApproval, Progress
  <2> QED
    BY <2>1, <2>2
<1> QED
  BY <1>3, <1>4 DEF ResumeAfterApproval

LEMMA FailInv == ASSUME IInv, NEW p \in Pollers, Fail(p) PROVE IInv'
<1> USE NumberOfSteps DEF IInv
<1> DEFINE j == claimed[p]
<1>1. j \in Jobs /\ at[p] \in 0..N /\ pc[p] \in Busy
  BY DEF Fail, Progress, Busy, TypeOK
<1>2. UNCHANGED <<sweep, checkedJob, ran, crashes>> /\ DropClaim(p)
  BY DEF Fail, EndProcessOne
<1>3. CASE FailRow(j) /\ Goto(p, "draining")
  <2> USE <1>1, <1>2, <1>3 DEF FailRow, SetStatus, Touch, StatusAfterFailure, Exhausted, Goto, DropClaim
  <2>1. TypeOK'
    <3>1. attempts[j] \in 0..(MaxAttempts - 1)
      BY DEF TypeOK, AttemptBudget
    <3>2. attempts' \in [Jobs -> 0..MaxAttempts]
      BY <3>1 DEF TypeOK
    <3>3. status' \in [Jobs -> Statuses]
      BY DEF TypeOK, Statuses
    <3> QED
      BY <3>2, <3>3 DEF TypeOK, PollerStates
  <2>2. AttemptBudget'
    <3>1. attempts[j] \in 0..(MaxAttempts - 1)
      BY DEF TypeOK, AttemptBudget
    <3>2. attempts'[j] = MaxAttempts <=> status'[j] = "dead_letter"
      BY <3>1 DEF TypeOK
    <3>3. \A k \in Jobs \ {j} : attempts'[k] = attempts[k] /\ status'[k] = status[k]
      BY DEF TypeOK
    <3> QED
      BY <3>2, <3>3 DEF AttemptBudget
  <2>3. EscalatedOnlyWhileWaiting'
    BY DEF EscalatedOnlyWhileWaiting, IsApproval, TypeOK, Fail
  <2>4. Progress'
    BY DEF Progress, TypeOK, Busy
  <2> QED
    BY <2>1, <2>2, <2>3, <2>4
<1>4. CASE UNCHANGED rowVars /\ Goto(p, "idle")
  <2> USE <1>1, <1>2, <1>4 DEF rowVars, Goto, DropClaim
  <2>1. TypeOK'
    BY DEF TypeOK, PollerStates
  <2>2. AttemptBudget' /\ EscalatedOnlyWhileWaiting'
    BY DEF AttemptBudget, EscalatedOnlyWhileWaiting, IsApproval
  <2>3. Progress'
    BY DEF Progress, TypeOK, Busy
  <2> QED
    BY <2>1, <2>2, <2>3
<1> QED
  BY <1>3, <1>4 DEF Fail, EndProcessOne

LEMMA HaltForApprovalInv == ASSUME IInv, NEW p \in Pollers, HaltForApproval(p) PROVE IInv'
<1> USE NumberOfSteps DEF IInv
<1> DEFINE j == claimed[p]
<1>1. j \in Jobs /\ at[p] \in 0..N /\ pc[p] \in Busy
  BY DEF HaltForApproval, Progress, Busy, TypeOK
<1>2. UNCHANGED <<sweep, checkedJob, ran, crashes>> /\ DropClaim(p)
  BY DEF HaltForApproval, EndProcessOne
<1>3. CASE WaitRow(j, at[p]) /\ Goto(p, "draining")
  <2> USE <1>1, <1>2, <1>3 DEF WaitRow, SetStatus, SetStepIndex, Touch, Goto, DropClaim
  <2>1. TypeOK'
    BY DEF TypeOK, Statuses, PollerStates, AttemptBudget
  <2>2. AttemptBudget'
    BY DEF AttemptBudget, TypeOK
  <2>3. EscalatedOnlyWhileWaiting'
    BY DEF EscalatedOnlyWhileWaiting, IsApproval, TypeOK, HaltForApproval
  <2>4. Progress'
    BY DEF Progress, TypeOK, Busy
  <2> QED
    BY <2>1, <2>2, <2>3, <2>4
<1>4. CASE UNCHANGED rowVars /\ Goto(p, "idle")
  <2> USE <1>1, <1>2, <1>4 DEF rowVars, Goto, DropClaim
  <2>1. TypeOK'
    BY DEF TypeOK, PollerStates
  <2>2. AttemptBudget' /\ EscalatedOnlyWhileWaiting'
    BY DEF AttemptBudget, EscalatedOnlyWhileWaiting, IsApproval
  <2>3. Progress'
    BY DEF Progress, TypeOK, Busy
  <2> QED
    BY <2>1, <2>2, <2>3
<1> QED
  BY <1>3, <1>4 DEF HaltForApproval, EndProcessOne

LEMMA FinishInv == ASSUME IInv, NEW p \in Pollers, Finish(p) PROVE IInv'
<1> USE NumberOfSteps DEF IInv
<1> DEFINE j == claimed[p]
<1>1. j \in Jobs /\ at[p] \in 0..N /\ pc[p] \in Busy
  BY DEF Finish, Progress, Busy, TypeOK
<1>2. UNCHANGED <<sweep, checkedJob, ran, crashes>> /\ DropClaim(p)
  BY DEF Finish, EndProcessOne
<1>3. CASE DoneRow(j, N) /\ Goto(p, "draining")
  <2> USE <1>1, <1>2, <1>3 DEF DoneRow, SetStatus, SetStepIndex, Touch, Goto, DropClaim
  <2>1. TypeOK'
    BY DEF TypeOK, Statuses, PollerStates, AttemptBudget
  <2>2. AttemptBudget'
    BY DEF AttemptBudget, TypeOK
  <2>3. EscalatedOnlyWhileWaiting'
    BY DEF EscalatedOnlyWhileWaiting, IsApproval, TypeOK, Finish
  <2>4. at[p] = N
    BY DEF Finish
  <2>5. Progress'
    BY <2>4 DEF Progress, TypeOK, Busy
  <2> QED
    BY <2>1, <2>2, <2>3, <2>5
<1>4. CASE UNCHANGED rowVars /\ Goto(p, "idle")
  <2> USE <1>1, <1>2, <1>4 DEF rowVars, Goto, DropClaim
  <2>1. TypeOK'
    BY DEF TypeOK, PollerStates
  <2>2. AttemptBudget' /\ EscalatedOnlyWhileWaiting'
    BY DEF AttemptBudget, EscalatedOnlyWhileWaiting, IsApproval
  <2>3. Progress'
    BY DEF Progress, TypeOK, Busy
  <2> QED
    BY <2>1, <2>2, <2>3
<1> QED
  BY <1>3, <1>4 DEF Finish, EndProcessOne

-----------------------------------------------------------------------------
LEMMA NextInv == IInv /\ [Next]_vars => IInv'
<1> SUFFICES ASSUME IInv, [Next]_vars PROVE IInv'
  OBVIOUS
<1>1. CASE UNCHANGED vars
  BY <1>1 DEF vars, rowVars, pollerVars, IInv, TypeOK, AttemptBudget,
              EscalatedOnlyWhileWaiting, IsApproval, Progress
<1>2. ASSUME NEW j \in Jobs, Enqueue(j) \/ BackoffEnds(j) \/ GrowOld(j) PROVE IInv'
  BY <1>2, EnqueueInv, BackoffEndsInv, GrowOldInv
<1>3. ASSUME NEW p \in Pollers, TickTenant(p) \/ Crash(p) PROVE IInv'
  BY <1>3, ReclaimStaleInv, ListOverdueInv, EscalateOneInv, ClaimNextInv, NoJobAvailableInv,
     RunHandlerInv, FailInv, HaltForApprovalInv, FinishInv, CrashInv DEF TickTenant, ProcessOne
<1>4. ASSUME NEW r \in Requests, CheckApproval(r) \/ ResumeAfterApproval(r) PROVE IInv'
  BY <1>4, CheckApprovalInv, ResumeInv
<1> QED
  BY <1>1, <1>2, <1>3, <1>4 DEF Next

THEOREM InductiveInvariant == Spec => []IInv
BY InitInv, NextInv, PTL DEF Spec

(* Every variable stays in its type.                                       *)
THEOREM TypeCorrect == Spec => []TypeOK
<1>1. IInv => TypeOK
  BY DEF IInv
<1> QED
  BY <1>1, InductiveInvariant, PTL

(* No retry, reclaim, late write or resume makes a job pass a step, and a  *)
(* job is done only when every step has run or was approved (ProcessOne,   *)
(* ResumeAfterApproval).                                                   *)
THEOREM StepsNotSkipped == Spec => []NoStepSkipped
<1>1. IInv => NoStepSkipped
  <2> SUFFICES ASSUME IInv, NEW j \in Jobs
               PROVE  /\ \A i \in ran[j] : 0..i \subseteq ran[j]
                      /\ status[j] = "done" => ran[j] = 0..(N - 1)
    BY DEF NoStepSkipped
  <2>1. \A i \in ran[j] : 0..i \subseteq ran[j]
    BY DEF IInv, Progress
  <2>2. ASSUME status[j] = "done" PROVE ran[j] = 0..(N - 1)
    BY <2>2 DEF IInv, Progress, TypeOK
  <2> QED
    BY <2>1, <2>2
<1> QED
  BY <1>1, InductiveInvariant, PTL

(* A job is a dead letter exactly when it has failed max_attempts times,   *)
(* whoever counted the failures (MarkFailed, ReclaimStale).                *)
THEOREM AttemptsBudgeted == Spec => []AttemptBudget
<1>1. IInv => AttemptBudget
  BY DEF IInv
<1> QED
  BY <1>1, InductiveInvariant, PTL

(* Only a job that waits at an approval step is escalated                  *)
(* (ResumeAfterApproval, MarkEscalatedTx).                                 *)
THEOREM EscalationScoped == Spec => []EscalatedOnlyWhileWaiting
<1>1. IInv => EscalatedOnlyWhileWaiting
  BY DEF IInv
<1> QED
  BY <1>1, InductiveInvariant, PTL

-----------------------------------------------------------------------------
Settled(j) == status[j] \in {"done", "dead_letter"}
StaysSettled ==
  \A j \in Jobs : Settled(j) => status'[j] = status[j] /\ stepIndex'[j] = stepIndex[j]

LEMMA SettledStep == TypeOK /\ [Next]_vars => StaysSettled
<1> SUFFICES ASSUME TypeOK, [Next]_vars, NEW j \in Jobs, Settled(j)
             PROVE  status'[j] = status[j] /\ stepIndex'[j] = stepIndex[j]
  BY DEF StaysSettled
<1> USE DEF Settled, TypeOK, SetStatus, SetStepIndex
<1>1. CASE UNCHANGED rowVars
  BY <1>1 DEF rowVars
<1>2. ASSUME NEW k \in Jobs, Enqueue(k) \/ BackoffEnds(k) \/ GrowOld(k)
      PROVE  status'[j] = status[j] /\ stepIndex'[j] = stepIndex[j]
  BY <1>2 DEF Enqueue, InsertRow, BackoffEnds, GrowOld
<1>3. ASSUME NEW p \in Pollers, TickTenant(p) \/ Crash(p)
      PROVE  status'[j] = status[j] /\ stepIndex'[j] = stepIndex[j]
  <2>1. CASE ReclaimStale(p)
    BY <2>1 DEF ReclaimStale, ReclaimRows, StaleJobs
  <2>2. CASE EscalateOne(p)
    BY <2>2 DEF EscalateOne, EscalateRow, rowVars
  <2>3. CASE ClaimNext(p)
    BY <2>3 DEF ClaimNext, ClaimRow, ClaimableJobs
  <2>4. CASE ListOverdue(p) \/ NoJobAvailable(p) \/ RunHandler(p) \/ Crash(p)
    BY <2>4, <1>1 DEF ListOverdue, NoJobAvailable, RunHandler, Crash
  <2>5. CASE Fail(p)
    BY <2>5, <1>1 DEF Fail, EndProcessOne, FailRow
  <2>6. CASE HaltForApproval(p)
    BY <2>6, <1>1 DEF HaltForApproval, EndProcessOne, WaitRow
  <2>7. CASE Finish(p)
    BY <2>7, <1>1 DEF Finish, EndProcessOne, DoneRow
  <2> QED
    BY <1>3, <2>1, <2>2, <2>3, <2>4, <2>5, <2>6, <2>7 DEF TickTenant, ProcessOne
<1>4. ASSUME NEW r \in Requests, CheckApproval(r) \/ ResumeAfterApproval(r)
      PROVE  status'[j] = status[j] /\ stepIndex'[j] = stepIndex[j]
  BY <1>4, <1>1 DEF CheckApproval, ResumeAfterApproval, ResumeRow, rowVars
<1>5. CASE UNCHANGED vars
  BY <1>5, <1>1 DEF vars
<1> QED
  BY <1>2, <1>3, <1>4, <1>5 DEF Next

(* No late write, reclaim or approval moves a job out of done or           *)
(* dead_letter (the status guards of the Mark methods).                    *)
THEOREM TerminalStatesFinal == Spec => TerminalIsFinal
<1>1. TypeOK /\ [Next]_vars => [StaysSettled]_vars
  BY SettledStep
<1>2. StaysSettled <=> \A j \in Jobs : status[j] \in {"done", "dead_letter"} =>
                          status'[j] = status[j] /\ stepIndex'[j] = stepIndex[j]
  BY DEF StaysSettled, Settled
<1> QED
  BY <1>1, <1>2, TypeCorrect, PTL DEF Spec, TerminalIsFinal

-----------------------------------------------------------------------------
(* What more holds when the lease covers every handler: no row that a live *)
(* poller runs is ever reclaimed, so a job has one claimant, its step      *)
(* index never falls, and the whole queue does nothing but the lifecycle   *)
(* JobLifecycle describes.                                                 *)

(* LeaseTimeout is longer than any handler runs.                           *)
LeaseCovers == ~HandlersMayOutliveLease

(* A busy poller's job is running, has not outlived its lease, is behind   *)
(* none of its stored progress and is no other poller's; and no approval   *)
(* lies at or past the stored step.                                        *)
LeaseInv ==
  /\ \A p \in Pollers : pc[p] \in Busy =>
       /\ status[claimed[p]] = "running" /\ claimed[p] \notin aged
       /\ stepIndex[claimed[p]] <= at[p]
  /\ \A p \in Pollers : claimed[p] # NoJob => pc[p] \in Busy
  /\ \A p, q \in Pollers : p # q /\ claimed[p] # NoJob => claimed[p] # claimed[q]
  /\ \A j \in Jobs : \A i \in ran[j] : IsApproval(i) => i < stepIndex[j]

USE StepsAssumption, AttemptsAssumption, CrashAssumption, NoJobAssumption

LEMMA InitLease == Init => LeaseInv
BY DEF Init, LeaseInv, Busy

(* What a busy poller holds. *)
LEMMA BusyHolds ==
  ASSUME IInv, LeaseInv, NEW p \in Pollers, pc[p] \in Busy
  PROVE  /\ claimed[p] \in Jobs /\ at[p] \in 0..N
         /\ status[claimed[p]] = "running" /\ stepIndex[claimed[p]] <= at[p]
         /\ \A q \in Pollers \ {p} : claimed[q] # claimed[p]
         /\ 0..(at[p] - 1) \subseteq ran[claimed[p]]
BY DEF IInv, Progress, TypeOK, LeaseInv

(* ErrNotFound cannot happen at the end of ProcessOne: the statement that  *)
(* ends it finds the row running.                                          *)
LEMMA EndsWithStatement ==
  ASSUME IInv, LeaseInv, NEW p \in Pollers, pc[p] \in Busy,
         NEW statement, EndProcessOne(p, statement)
  PROVE  statement /\ Goto(p, "draining") /\ DropClaim(p) /\ UNCHANGED ran
BY BusyHolds DEF EndProcessOne

(* A poller that ends its job gives it up; nobody else held it.            *)
LEMMA EndLease ==
  ASSUME IInv, LeaseInv, NEW p \in Pollers, pc[p] \in Busy,
         Goto(p, "draining"), DropClaim(p), UNCHANGED ran,
         \A j \in Jobs \ {claimed[p]} : status'[j] = status[j] /\ stepIndex'[j] = stepIndex[j],
         aged' \subseteq aged, stepIndex'[claimed[p]] >= stepIndex[claimed[p]],
         stepIndex'[claimed[p]] \in Nat
  PROVE  LeaseInv'
<1> USE DEF Goto, DropClaim
<1>1. TypeOK /\ N \in Nat
  BY NumberOfSteps DEF IInv
<1>2. pc'[p] = "draining" /\ claimed'[p] = NoJob
  BY <1>1 DEF TypeOK
<1>3. ASSUME NEW q \in Pollers \ {p}
      PROVE  /\ pc'[q] = pc[q] /\ claimed'[q] = claimed[q] /\ at'[q] = at[q]
             /\ claimed[q] # claimed[p]
  BY <1>1, BusyHolds DEF TypeOK
<1>4. ASSUME NEW q \in Pollers, pc'[q] \in Busy
      PROVE  /\ status'[claimed'[q]] = "running" /\ claimed'[q] \notin aged'
             /\ stepIndex'[claimed'[q]] <= at'[q]
  <2>1. q # p
    BY <1>2, <1>4 DEF Busy
  <2>2. claimed[q] \in Jobs \ {claimed[p]} /\ pc[q] \in Busy
    BY <1>3, <1>4, <2>1, BusyHolds
  <2> QED
    BY <1>3, <2>1, <2>2 DEF LeaseInv
<1>5. \A q \in Pollers : claimed'[q] # NoJob => pc'[q] \in Busy
  BY <1>2, <1>3 DEF LeaseInv
<1>6. \A q, s \in Pollers : q # s /\ claimed'[q] # NoJob => claimed'[q] # claimed'[s]
  BY <1>2, <1>3 DEF LeaseInv
<1>7. ASSUME NEW j \in Jobs, NEW i \in ran'[j], IsApproval(i) PROVE i < stepIndex'[j]
  <2>1. i < stepIndex[j] /\ stepIndex[j] \in 0..N /\ i \in 0..(N - 1)
    BY <1>1, <1>7 DEF LeaseInv, TypeOK
  <2> QED
    BY <1>1, <2>1
<1> QED
  BY <1>4, <1>5, <1>6, <1>7 DEF LeaseInv, IsApproval

LEMMA FailLease == ASSUME IInv, LeaseInv, NEW p \in Pollers, Fail(p) PROVE LeaseInv'
<1>1. pc[p] \in Busy
  BY DEF Fail, Busy
<1>2. FailRow(claimed[p]) /\ Goto(p, "draining") /\ DropClaim(p) /\ UNCHANGED ran
  BY <1>1, EndsWithStatement DEF Fail
<1> QED
  BY <1>1, <1>2, EndLease, BusyHolds DEF FailRow, SetStatus, Touch, IInv, TypeOK

LEMMA HaltLease == ASSUME IInv, LeaseInv, NEW p \in Pollers, HaltForApproval(p) PROVE LeaseInv'
<1>1. pc[p] \in Busy
  BY DEF HaltForApproval, Busy
<1>2. WaitRow(claimed[p], at[p]) /\ Goto(p, "draining") /\ DropClaim(p) /\ UNCHANGED ran
  BY <1>1, EndsWithStatement DEF HaltForApproval
<1> QED
  BY <1>1, <1>2, EndLease, BusyHolds DEF WaitRow, SetStatus, SetStepIndex, Touch, IInv, TypeOK

LEMMA FinishLease == ASSUME IInv, LeaseInv, NEW p \in Pollers, Finish(p) PROVE LeaseInv'
<1>1. pc[p] \in Busy /\ at[p] = N
  BY DEF Finish, Busy
<1>2. DoneRow(claimed[p], N) /\ Goto(p, "draining") /\ DropClaim(p) /\ UNCHANGED ran
  BY <1>1, EndsWithStatement DEF Finish
<1> QED
  BY <1>1, <1>2, EndLease, BusyHolds DEF DoneRow, SetStatus, SetStepIndex, Touch, IInv, TypeOK

(* A handler that returns completes a notify step.                         *)
LEMMA RunHandlerLease == ASSUME IInv, LeaseInv, NEW p \in Pollers, RunHandler(p) PROVE LeaseInv'
<1> USE DEF RunHandler, rowVars, Goto
<1>1. pc[p] \in Busy /\ ~IsApproval(at[p]) /\ TypeOK /\ N \in Nat
  BY NumberOfSteps DEF Busy, IsNotify, IsApproval, IInv
<1>2. claimed[p] \in Jobs /\ at[p] \in 0..N /\ stepIndex[claimed[p]] <= at[p]
  BY <1>1, BusyHolds
<1>3. ASSUME NEW q \in Pollers, pc'[q] \in Busy
      PROVE  /\ status'[claimed'[q]] = "running" /\ claimed'[q] \notin aged'
             /\ stepIndex'[claimed'[q]] <= at'[q]
  <2>1. CASE q = p
    BY <1>1, <1>2, <2>1 DEF LeaseInv, TypeOK
  <2>2. CASE q # p
    BY <1>1, <1>3, <2>2 DEF LeaseInv, TypeOK
  <2> QED
    BY <2>1, <2>2
<1>4. \A q \in Pollers : claimed'[q] # NoJob => pc'[q] \in Busy
  BY <1>1 DEF LeaseInv, TypeOK, Busy
<1>5. ASSUME NEW j \in Jobs, NEW i \in ran'[j], IsApproval(i) PROVE i < stepIndex'[j]
  <2>1. i \in ran[j]
    BY <1>1, <1>2, <1>5 DEF TypeOK
  <2> QED
    BY <1>5, <2>1 DEF LeaseInv
<1> QED
  BY <1>3, <1>4, <1>5 DEF LeaseInv, IsApproval

LEMMA ClaimLease == ASSUME IInv, LeaseInv, NEW p \in Pollers, ClaimNext(p) PROVE LeaseInv'
<1>1. PICK j \in Jobs : /\ ClaimRow(j)
                        /\ claimed' = [claimed EXCEPT ![p] = j]
                        /\ at' = [at EXCEPT ![p] = stepIndex[j]]
  BY DEF ClaimNext
<1>2. /\ status[j] = "queued" /\ status' = [status EXCEPT ![j] = "running"]
      /\ aged' = aged \ {j} /\ UNCHANGED <<stepIndex, ran>>
      /\ pc' = [pc EXCEPT ![p] = "claimed"]
  BY <1>1 DEF ClaimRow, ClaimableJobs, SetStatus, Touch, ClaimNext, Goto
<1>3. TypeOK /\ stepIndex[j] \in Nat
  BY NumberOfSteps DEF IInv, TypeOK
<1>4. \A q \in Pollers : claimed[q] # j
  BY <1>2, BusyHolds, NoJobAssumption DEF LeaseInv
<1>5. ASSUME NEW q \in Pollers, pc'[q] \in Busy
      PROVE  /\ status'[claimed'[q]] = "running" /\ claimed'[q] \notin aged'
             /\ stepIndex'[claimed'[q]] <= at'[q]
  <2>1. CASE q = p
    BY <1>1, <1>2, <1>3, <2>1 DEF TypeOK
  <2>2. CASE q # p
    <3>1. pc[q] \in Busy /\ claimed'[q] = claimed[q] /\ at'[q] = at[q]
      BY <1>1, <1>2, <1>3, <1>5, <2>2 DEF TypeOK
    <3> QED
      BY <1>2, <1>3, <1>4, <3>1, BusyHolds DEF LeaseInv, TypeOK
  <2> QED
    BY <2>1, <2>2
<1>6. \A q \in Pollers : claimed'[q] # NoJob => pc'[q] \in Busy
  BY <1>1, <1>2, <1>3 DEF LeaseInv, TypeOK, Busy
<1>7. \A q, s \in Pollers : q # s /\ claimed'[q] # NoJob => claimed'[q] # claimed'[s]
  BY <1>1, <1>3, <1>4 DEF LeaseInv, TypeOK
<1> QED
  BY <1>2, <1>5, <1>6, <1>7 DEF LeaseInv, IsApproval

LEMMA CrashLease == ASSUME IInv, LeaseInv, NEW p \in Pollers, Crash(p) PROVE LeaseInv'
BY DEF IInv, TypeOK, LeaseInv, IsApproval, Crash, Goto, DropClaim, rowVars, Busy

(* Reclaiming takes rows that no live poller runs.                         *)
LEMMA ReclaimLease == ASSUME IInv, LeaseInv, NEW p \in Pollers, ReclaimStale(p) PROVE LeaseInv'
<1> USE DEF ReclaimStale, ReclaimRows, Touch, Goto
<1>1. TypeOK /\ pc' = [pc EXCEPT ![p] = "reclaimed"] /\ pc[p] = "idle"
  BY DEF IInv
<1>2. ASSUME NEW q \in Pollers, pc'[q] \in Busy
      PROVE  /\ status'[claimed'[q]] = "running" /\ claimed'[q] \notin aged'
             /\ stepIndex'[claimed'[q]] <= at'[q]
  <2>1. pc[q] \in Busy
    BY <1>1, <1>2 DEF TypeOK, Busy
  <2>2. claimed[q] \in Jobs \ StaleJobs
    BY <2>1, BusyHolds DEF LeaseInv, StaleJobs
  <2> QED
    BY <2>1, <2>2 DEF LeaseInv
<1>3. \A q \in Pollers : claimed'[q] # NoJob => pc'[q] \in Busy
  BY <1>1 DEF LeaseInv, TypeOK, Busy
<1> QED
  BY <1>2, <1>3 DEF LeaseInv, IsApproval

LEMMA GrowOldLease ==
  ASSUME LeaseCovers, IInv, LeaseInv, NEW j \in Jobs, GrowOld(j) PROVE LeaseInv'
<1> USE DEF GrowOld, pollerVars
<1>1. \A q \in Pollers : claimed[q] # j
  BY BusyHolds, NoJobAssumption DEF LeaseCovers, LeaseInv
<1>2. aged' = aged \union {j}
  OBVIOUS
<1> QED
  BY <1>1, <1>2 DEF LeaseInv, IsApproval

(* An approval moves a waiting job past the step it waits at.              *)
LEMMA ResumeLease ==
  ASSUME IInv, LeaseInv, NEW r \in Requests, ResumeAfterApproval(r) PROVE LeaseInv'
<1> DEFINE j == checkedJob[r]
<1>1. TypeOK /\ j \in Jobs /\ N \in Nat
  BY NumberOfSteps DEF IInv, TypeOK, ResumeAfterApproval
<1>2. UNCHANGED pollerVars
  BY DEF ResumeAfterApproval
<1>3. CASE ResumeRow(j) /\ ran' = [ran EXCEPT ![j] = @ \union {stepIndex[j]}]
  <2> USE <1>1, <1>2, <1>3 DEF ResumeRow, SetStatus, SetStepIndex, Touch, pollerVars
  <2>1. \A q \in Pollers : claimed[q] # j
    BY BusyHolds, NoJobAssumption DEF LeaseInv
  <2>2. \A k \in Jobs \ {j} : status'[k] = status[k] /\ stepIndex'[k] = stepIndex[k]
    BY DEF TypeOK
  <2>3. aged' \subseteq aged
    OBVIOUS
  <2>4. ASSUME NEW q \in Pollers, pc'[q] \in Busy
        PROVE  /\ status'[claimed'[q]] = "running" /\ claimed'[q] \notin aged'
               /\ stepIndex'[claimed'[q]] <= at'[q]
    <3>1. claimed[q] \in Jobs \ {j}
      BY <2>1, <2>4, BusyHolds
    <3> QED
      BY <2>2, <2>3, <2>4, <3>1 DEF LeaseInv
  <2>5. ASSUME NEW k \in Jobs, NEW i \in ran'[k], IsApproval(i) PROVE i < stepIndex'[k]
    <3>1. stepIndex[j] \in Nat /\ stepIndex'[j] = stepIndex[j] + 1 /\ ran[j] \subseteq Nat
      BY DEF TypeOK
    <3>2. CASE k = j
      BY <2>5, <3>1, <3>2 DEF LeaseInv, TypeOK
    <3>3. CASE k # j
      BY <2>2, <2>5, <3>3 DEF LeaseInv, TypeOK
    <3> QED
      BY <3>2, <3>3
  <2> QED
    BY <2>4, <2>5 DEF LeaseInv, IsApproval
<1>4. CASE UNCHANGED <<rowVars, ran>>
  BY <1>2, <1>4 DEF LeaseInv, IsApproval, rowVars, pollerVars
<1> QED
  BY <1>3, <1>4 DEF ResumeAfterApproval

(* Steps that leave the rows, the pollers' jobs and the history alone, and *)
(* those that only bring a row in or make one due.                         *)
LEMMA OtherLease ==
  ASSUME IInv, LeaseInv,
         \/ \E j \in Jobs : Enqueue(j) \/ BackoffEnds(j)
         \/ \E p \in Pollers : ListOverdue(p) \/ EscalateOne(p) \/ NoJobAvailable(p)
         \/ \E r \in Requests : CheckApproval(r)
         \/ UNCHANGED vars
  PROVE  LeaseInv'
<1> USE DEF rowVars, pollerVars
<1>1. ASSUME NEW j \in Jobs, Enqueue(j) PROVE LeaseInv'
  <2> USE <1>1 DEF Enqueue, InsertRow, SetStatus
  <2>1. \A q \in Pollers : pc[q] \in Busy => claimed[q] # j
    BY BusyHolds
  <2> QED
    BY <2>1 DEF LeaseInv, IsApproval, IInv, TypeOK
<1>2. ASSUME NEW j \in Jobs, BackoffEnds(j) PROVE LeaseInv'
  BY <1>2 DEF BackoffEnds, LeaseInv, IsApproval
<1>3. ASSUME NEW p \in Pollers, ListOverdue(p) \/ NoJobAvailable(p) PROVE LeaseInv'
  <2> USE <1>3 DEF ListOverdue, NoJobAvailable, Goto
  <2>1. pc[p] \notin Busy /\ \E s \in {"draining", "idle"} : pc' = [pc EXCEPT ![p] = s]
    BY DEF Busy
  <2>2. \A q \in Pollers : pc'[q] \in Busy <=> pc[q] \in Busy
    BY <2>1 DEF Busy, IInv, TypeOK
  <2> QED
    BY <2>2 DEF LeaseInv, IsApproval
<1>4. ASSUME NEW p \in Pollers, EscalateOne(p) PROVE LeaseInv'
  BY <1>4 DEF EscalateOne, EscalateRow, LeaseInv, IsApproval
<1>5. ASSUME NEW r \in Requests, CheckApproval(r) PROVE LeaseInv'
  BY <1>5 DEF CheckApproval, LeaseInv, IsApproval
<1>6. CASE UNCHANGED vars
  BY <1>6 DEF vars, LeaseInv, IsApproval
<1> QED
  BY <1>1, <1>2, <1>3, <1>4, <1>5, <1>6

LEMMA LeaseStep == ASSUME LeaseCovers, IInv, LeaseInv, [Next]_vars PROVE LeaseInv'
<1>1. ASSUME NEW j \in Jobs, Enqueue(j) \/ BackoffEnds(j) \/ GrowOld(j) PROVE LeaseInv'
  BY <1>1, OtherLease, GrowOldLease
<1>2. ASSUME NEW p \in Pollers, TickTenant(p) \/ Crash(p) PROVE LeaseInv'
  BY <1>2, ReclaimLease, OtherLease, ClaimLease, RunHandlerLease, FailLease, HaltLease,
     FinishLease, CrashLease DEF TickTenant, ProcessOne
<1>3. ASSUME NEW r \in Requests, CheckApproval(r) \/ ResumeAfterApproval(r) PROVE LeaseInv'
  BY <1>3, OtherLease, ResumeLease
<1> QED
  BY <1>1, <1>2, <1>3, OtherLease DEF Next

THEOREM LeaseInvariant == ASSUME LeaseCovers PROVE Spec => []LeaseInv
<1>1. IInv /\ LeaseInv /\ [Next]_vars => LeaseInv'
  BY LeaseStep
<1> QED
  BY <1>1, InitLease, InductiveInvariant, PTL DEF Spec

(* A job has at most one live claimant and is running while it has one     *)
(* (ClaimNext, ReclaimStale).                                              *)
THEOREM OneClaimantEach == ASSUME LeaseCovers PROVE Spec => []OneClaimant
<1>1. IInv /\ LeaseInv => OneClaimant
  BY BusyHolds DEF OneClaimant, LeaseInv
<1> QED
  BY <1>1, InductiveInvariant, LeaseInvariant, PTL

-----------------------------------------------------------------------------
(* The lifecycle's view of the state, and a step or a stutter of it.       *)
LifecycleStep == Lifecycle!LifecycleNext \/ UNCHANGED <<status, ran, attempts>>

LEMMA Prefix ==
  ASSUME NEW n \in Nat, NEW S \in SUBSET (0..(n - 1)), NEW i \in Nat,
         \A k \in S : k < i, 0..(i - 1) \subseteq S
  PROVE  S = 0..(i - 1)
<1>1. \A k \in S : k \in 0..(i - 1)
  OBVIOUS
<1> QED
  BY <1>1

LEMMA RunHandlerStep ==
  ASSUME IInv, LeaseInv, NEW p \in Pollers, RunHandler(p) PROVE LifecycleStep
<1> DEFINE j == claimed[p]
<1>1. pc[p] \in Busy /\ at[p] \in 0..(N - 1) /\ ~IsApproval(at[p])
  BY NumberOfSteps DEF RunHandler, Busy, IsNotify, IsApproval, IInv, TypeOK
<1>2. j \in Jobs /\ status[j] = "running" /\ 0..(at[p] - 1) \subseteq ran[j]
  BY <1>1, BusyHolds
<1>3. ran' = [ran EXCEPT ![j] = @ \union {at[p]}] /\ UNCHANGED <<status, attempts>>
  BY DEF RunHandler, rowVars
<1>4. CASE at[p] \in ran[j]
  <2>1. ran' = ran
    BY <1>2, <1>3, <1>4 DEF IInv, TypeOK
  <2> QED
    BY <1>3, <2>1 DEF LifecycleStep
<1>5. CASE at[p] \notin ran[j]
  <2>1. ran[j] \subseteq 0..(N - 1) /\ \A i \in ran[j] : 0..i \subseteq ran[j]
    BY <1>2 DEF IInv, TypeOK, Progress
  <2>2. \A i \in ran[j] : i < at[p]
    BY <1>1, <1>5, <2>1, NumberOfSteps
  <2>3. ran[j] = 0..(at[p] - 1)
    <3>1. at[p] \in Nat /\ N \in Nat /\ ran[j] \in SUBSET (0..(N - 1))
      BY <1>1, <2>1, NumberOfSteps
    <3> HIDE DEF j
    <3> QED
      BY <1>2, <2>2, <3>1, Prefix
  <2>4. Lifecycle!CompleteStep(j)
    BY <1>1, <1>2, <1>3, <2>3 DEF Lifecycle!CompleteStep, Lifecycle!IsNext
  <2> QED
    BY <1>2, <2>4 DEF LifecycleStep, Lifecycle!LifecycleNext
<1> QED
  BY <1>4, <1>5

(* The steps behind a job whose next step is an approval not yet given.    *)
LEMMA StepsBehind ==
  ASSUME IInv, LeaseInv, NEW j \in Jobs, NEW i \in 0..N,
         IsApproval(i) \/ i = N, stepIndex[j] <= i, 0..(i - 1) \subseteq ran[j]
  PROVE  ran[j] = 0..(i - 1)
<1>1. /\ N \in Nat /\ ran[j] \subseteq 0..(N - 1) /\ stepIndex[j] \in 0..N
      /\ \A k \in ran[j] : 0..k \subseteq ran[j]
  BY NumberOfSteps DEF IInv, TypeOK, Progress
<1>2. i \notin ran[j]
  BY <1>1 DEF LeaseInv
<1>3. \A k \in ran[j] : k < i
  BY <1>1, <1>2
<1>4. i \in Nat /\ ran[j] \in SUBSET (0..(N - 1))
  BY <1>1
<1> QED
  BY <1>1, <1>3, <1>4, Prefix

LEMMA HaltStep ==
  ASSUME IInv, LeaseInv, NEW p \in Pollers, HaltForApproval(p) PROVE LifecycleStep
<1> DEFINE j == claimed[p]
<1>1. pc[p] \in Busy /\ IsApproval(at[p])
  BY DEF HaltForApproval, Busy
<1>2. WaitRow(j, at[p]) /\ UNCHANGED ran
  BY <1>1, EndsWithStatement DEF HaltForApproval
<1>3. /\ j \in Jobs /\ at[p] \in 0..N
      /\ stepIndex[j] <= at[p] /\ 0..(at[p] - 1) \subseteq ran[j]
  BY <1>1, BusyHolds
<1>4. at[p] \in 0..(N - 1)
  BY <1>1, <1>3, NumberOfSteps DEF IsApproval
<1>5. ran[j] = 0..(at[p] - 1)
  BY <1>1, <1>3, StepsBehind
<1>6. Lifecycle!Halt(j)
  BY <1>1, <1>2, <1>4, <1>5 DEF WaitRow, SetStatus, Lifecycle!Halt, Lifecycle!Move, Lifecycle!IsNext
<1> QED
  BY <1>3, <1>6 DEF LifecycleStep, Lifecycle!LifecycleNext

LEMMA FinishStep ==
  ASSUME IInv, LeaseInv, NEW p \in Pollers, Finish(p) PROVE LifecycleStep
<1> DEFINE j == claimed[p]
<1>1. pc[p] \in Busy /\ at[p] = N
  BY DEF Finish, Busy
<1>2. DoneRow(j, N) /\ UNCHANGED ran
  BY <1>1, EndsWithStatement DEF Finish
<1>3. j \in Jobs /\ ran[j] = 0..(N - 1)
  BY <1>1, BusyHolds, StepsBehind
<1>4. Lifecycle!Complete(j)
  BY <1>2, <1>3 DEF DoneRow, SetStatus, Lifecycle!Complete, Lifecycle!Move, Lifecycle!IsNext
<1> QED
  BY <1>3, <1>4 DEF LifecycleStep, Lifecycle!LifecycleNext

(* A failed run is the set-back of one job, a reclaim that of many.        *)
LEMMA FailStep ==
  ASSUME IInv, LeaseInv, NEW p \in Pollers, Fail(p) PROVE LifecycleStep
<1> DEFINE j == claimed[p]
<1>1. pc[p] \in Busy
  BY DEF Fail, Busy
<1>2. FailRow(j) /\ UNCHANGED ran /\ j \in Jobs
  BY <1>1, EndsWithStatement, BusyHolds DEF Fail
<1>3. status \in [Jobs -> Statuses] /\ attempts \in [Jobs -> Nat]
  BY DEF IInv, TypeOK
<1>4. attempts' = [k \in Jobs |-> IF k \in {j} THEN attempts[k] + 1 ELSE attempts[k]]
  BY <1>2, <1>3 DEF FailRow
<1>5. status' = [k \in Jobs |-> IF k \notin {j} THEN status[k]
                               ELSE IF attempts[k] + 1 < MaxAttempts THEN "queued"
                               ELSE "dead_letter"]
  <2>1. attempts[j] \in Nat /\ MaxAttempts \in Nat
    BY <1>2, <1>3
  <2>2. StatusAfterFailure(j) = IF attempts[j] + 1 < MaxAttempts THEN "queued" ELSE "dead_letter"
    BY <2>1 DEF StatusAfterFailure, Exhausted
  <2> QED
    BY <1>2, <1>3, <2>2 DEF FailRow, SetStatus
<1>6. Lifecycle!SetBack({j})
  BY <1>2, <1>4, <1>5 DEF FailRow, Lifecycle!SetBack
<1> QED
  BY <1>2, <1>6 DEF LifecycleStep, Lifecycle!LifecycleNext

LEMMA ReclaimStep ==
  ASSUME IInv, NEW p \in Pollers, ReclaimStale(p) PROVE LifecycleStep
<1>1. StaleJobs \in SUBSET Jobs /\ UNCHANGED ran /\ ReclaimRows
  BY DEF StaleJobs, ReclaimStale
<1>2. attempts \in [Jobs -> Nat]
  BY DEF IInv, TypeOK
<1>3. attempts' = [k \in Jobs |-> IF k \in StaleJobs THEN attempts[k] + 1 ELSE attempts[k]]
  BY <1>1, <1>2 DEF ReclaimRows
<1>4. status' = [k \in Jobs |-> IF k \notin StaleJobs THEN status[k]
                               ELSE IF attempts[k] + 1 < MaxAttempts THEN "queued"
                               ELSE "dead_letter"]
  BY <1>1, <1>2 DEF ReclaimRows, StatusAfterFailure, Exhausted
<1>5. Lifecycle!SetBack(StaleJobs)
  BY <1>1, <1>3, <1>4 DEF StaleJobs, Lifecycle!SetBack
<1> QED
  BY <1>1, <1>5 DEF LifecycleStep, Lifecycle!LifecycleNext

LEMMA ResumeStep ==
  ASSUME IInv, LeaseInv, NEW r \in Requests, ResumeAfterApproval(r) PROVE LifecycleStep
<1> DEFINE j == checkedJob[r]
           i == stepIndex[j]
<1>1. j \in Jobs
  BY DEF ResumeAfterApproval, IInv, TypeOK
<1>2. CASE ResumeRow(j) /\ ran' = [ran EXCEPT ![j] = @ \union {i}]
  <2>1. status[j] = "waiting_approval" /\ IsApproval(i) /\ i \in 0..(N - 1)
    BY <1>1, <1>2, NumberOfSteps
    DEF ResumeRow, IInv, EscalatedOnlyWhileWaiting, TypeOK, IsApproval
  <2>2. ran[j] = 0..(i - 1)
    BY <1>1, <2>1, StepsBehind, NumberOfSteps DEF IInv, Progress
  <2>3. Lifecycle!Approve(j)
    BY <1>2, <2>1, <2>2
    DEF ResumeRow, SetStatus, Lifecycle!Approve, Lifecycle!Move, Lifecycle!IsNext
  <2> QED
    BY <1>1, <2>3 DEF LifecycleStep, Lifecycle!LifecycleNext
<1>3. CASE UNCHANGED <<rowVars, ran>>
  BY <1>3 DEF rowVars, LifecycleStep
<1> QED
  BY <1>2, <1>3 DEF ResumeAfterApproval

LEMMA QueueStepIsLifecycleStep ==
  ASSUME IInv, LeaseInv, [Next]_vars PROVE LifecycleStep
<1>1. ASSUME NEW j \in Jobs, Enqueue(j) \/ BackoffEnds(j) \/ GrowOld(j) PROVE LifecycleStep
  <2>1. CASE Enqueue(j)
    <3>1. Lifecycle!Submit(j)
      BY <2>1 DEF Enqueue, InsertRow, SetStatus, Lifecycle!Submit, Lifecycle!Move
    <3> QED
      BY <3>1 DEF LifecycleStep, Lifecycle!LifecycleNext
  <2>2. CASE BackoffEnds(j) \/ GrowOld(j)
    BY <2>2 DEF BackoffEnds, GrowOld, LifecycleStep
  <2> QED
    BY <1>1, <2>1, <2>2
<1>2. ASSUME NEW p \in Pollers, TickTenant(p) \/ Crash(p) PROVE LifecycleStep
  <2>1. CASE ClaimNext(p)
    <3>1. PICK j \in Jobs : ClaimRow(j) /\ UNCHANGED ran
      BY <2>1 DEF ClaimNext
    <3>2. Lifecycle!Begin(j)
      BY <3>1 DEF ClaimRow, ClaimableJobs, SetStatus, Lifecycle!Begin, Lifecycle!Move
    <3> QED
      BY <3>2 DEF LifecycleStep, Lifecycle!LifecycleNext
  <2>2. CASE EscalateOne(p)
    BY <2>2 DEF EscalateOne, EscalateRow, rowVars, LifecycleStep
  <2>3. CASE ListOverdue(p) \/ NoJobAvailable(p) \/ Crash(p)
    BY <2>3 DEF ListOverdue, NoJobAvailable, Crash, rowVars, LifecycleStep
  <2> QED
    BY <1>2, <2>1, <2>2, <2>3, ReclaimStep, RunHandlerStep, FailStep, HaltStep, FinishStep
    DEF TickTenant, ProcessOne
<1>3. ASSUME NEW r \in Requests, CheckApproval(r) \/ ResumeAfterApproval(r) PROVE LifecycleStep
  BY <1>3, ResumeStep DEF CheckApproval, rowVars, LifecycleStep
<1>4. CASE UNCHANGED vars
  BY <1>4 DEF vars, rowVars, LifecycleStep
<1> QED
  BY <1>1, <1>2, <1>3, <1>4 DEF Next

(* Whatever pollers, crashes, retries and approvals do, the queue only     *)
(* carries jobs through the lifecycle, each step completed in its order    *)
(* and once (ProcessOne, ReclaimStale, ResumeAfterApproval).               *)
THEOREM QueueImplementsLifecycle == ASSUME LeaseCovers PROVE Spec => ImplementsLifecycle
<1>1. Init => Lifecycle!LifecycleInit
  BY DEF Init, Lifecycle!LifecycleInit
<1>2. IInv /\ LeaseInv /\ [Next]_vars => [Lifecycle!LifecycleNext]_(Lifecycle!lifecycleVars)
  BY QueueStepIsLifecycleStep DEF LifecycleStep, Lifecycle!lifecycleVars
<1> QED
  BY <1>1, <1>2, InductiveInvariant, LeaseInvariant, PTL
  DEF Spec, ImplementsLifecycle, Lifecycle!LifecycleSpec

-----------------------------------------------------------------------------
(* step_index never falls: no approval is asked for twice                  *)
(* (MarkWaitingApproval).                                                  *)
NeverFalls == \A j \in Jobs : stepIndex'[j] >= stepIndex[j]

LEMMA NeverFallsStep == ASSUME IInv, LeaseInv, [Next]_vars PROVE NeverFalls
<1> SUFFICES ASSUME NEW j \in Jobs PROVE stepIndex'[j] >= stepIndex[j]
  BY DEF NeverFalls
<1>1. stepIndex \in [Jobs -> 0..N] /\ N \in Nat /\ stepIndex[j] \in Nat
  BY NumberOfSteps DEF IInv, TypeOK
<1>2. CASE stepIndex' = stepIndex
  BY <1>1, <1>2
<1>3. ASSUME NEW p \in Pollers, HaltForApproval(p) PROVE stepIndex'[j] >= stepIndex[j]
  <2>1. pc[p] \in Busy
    BY <1>3 DEF HaltForApproval, Busy
  <2>2. WaitRow(claimed[p], at[p])
    BY <1>3, <2>1, EndsWithStatement DEF HaltForApproval
  <2> QED
    BY <1>1, <2>1, <2>2, BusyHolds DEF WaitRow, SetStepIndex
<1>4. ASSUME NEW p \in Pollers, Finish(p) PROVE stepIndex'[j] >= stepIndex[j]
  <2>1. pc[p] \in Busy
    BY <1>4 DEF Finish, Busy
  <2>2. DoneRow(claimed[p], N)
    BY <1>4, <2>1, EndsWithStatement DEF Finish
  <2> QED
    BY <1>1, <2>2 DEF DoneRow, SetStepIndex
<1>5. ASSUME NEW p \in Pollers, Fail(p) PROVE stepIndex' = stepIndex
  BY <1>5 DEF Fail, EndProcessOne, FailRow, rowVars
<1>6. ASSUME NEW p \in Pollers,
             ReclaimStale(p) \/ ListOverdue(p) \/ EscalateOne(p) \/ ClaimNext(p)
               \/ NoJobAvailable(p) \/ RunHandler(p) \/ Crash(p)
      PROVE  stepIndex' = stepIndex
  BY <1>6 DEF ReclaimStale, ReclaimRows, ListOverdue, EscalateOne, EscalateRow, ClaimNext,
              ClaimRow, NoJobAvailable, RunHandler, Crash, rowVars
<1>7. ASSUME NEW r \in Requests, CheckApproval(r) \/ ResumeAfterApproval(r)
      PROVE  stepIndex'[j] >= stepIndex[j]
  BY <1>1, <1>7 DEF CheckApproval, ResumeAfterApproval, ResumeRow, SetStepIndex, rowVars
<1>8. ASSUME NEW k \in Jobs, Enqueue(k) \/ BackoffEnds(k) \/ GrowOld(k)
      PROVE  stepIndex' = stepIndex
  BY <1>8 DEF Enqueue, InsertRow, BackoffEnds, GrowOld
<1>9. CASE UNCHANGED vars
  BY <1>2, <1>9 DEF vars, rowVars
<1> QED
  BY <1>2, <1>3, <1>4, <1>5, <1>6, <1>7, <1>8, <1>9 DEF Next, TickTenant, ProcessOne

(* An approval once given is not asked for again (MarkWaitingApproval      *)
(* after ReclaimStale).                                                    *)
THEOREM ApprovalsStand == ASSUME LeaseCovers PROVE Spec => ApprovalNotUndone
<1>1. IInv /\ LeaseInv /\ [Next]_vars => [NeverFalls]_vars
  BY NeverFallsStep
<1>2. NeverFalls <=> \A j \in Jobs : stepIndex'[j] >= stepIndex[j]
  BY DEF NeverFalls
<1> QED
  BY <1>1, <1>2, InductiveInvariant, LeaseInvariant, PTL DEF Spec, ApprovalNotUndone
=============================================================================
