---------------------------- MODULE JobLifecycle ----------------------------
(***************************************************************************)
(* What the workflow job queue promises about each run of a workflow: its  *)
(* steps complete one after the other, an approval step only by an         *)
(* approval, and failures are counted until the run is set aside. Nothing  *)
(* is said of pollers, leases, claims or requests. WorkflowQueue implements *)
(* this when the lease covers every handler.                               *)
(***************************************************************************)
EXTENDS Naturals

CONSTANTS
  Jobs,
  N,              \* how many steps the workflow has, numbered from 0
  ApprovalSteps,  \* those that only an approval completes
  MaxAttempts     \* how many failures a job is allowed

VARIABLES
  phase,     \* phase[j]: the job's status
  complete,  \* complete[j]: the steps of j that are behind it
  failures   \* failures[j]: how often a run of j was given up

lifecycleVars == <<phase, complete, failures>>

Move(j, from, to) == phase[j] = from /\ phase' = [phase EXCEPT ![j] = to]
(* step i is the next one of job j                                         *)
IsNext(j, i) == complete[j] = 0..(i - 1)

LifecycleInit ==
  /\ phase = [j \in Jobs |-> "absent"]
  /\ complete = [j \in Jobs |-> {}]
  /\ failures = [j \in Jobs |-> 0]

Submit(j) == Move(j, "absent", "queued") /\ UNCHANGED <<complete, failures>>
Begin(j) == Move(j, "queued", "running") /\ UNCHANGED <<complete, failures>>

CompleteStep(j) ==
  /\ phase[j] = "running"
  /\ \E i \in (0..(N - 1)) \ ApprovalSteps :
       IsNext(j, i) /\ complete' = [complete EXCEPT ![j] = @ \union {i}]
  /\ UNCHANGED <<phase, failures>>

Halt(j) ==
  /\ \E i \in ApprovalSteps : IsNext(j, i)
  /\ Move(j, "running", "waiting_approval")
  /\ UNCHANGED <<complete, failures>>

Approve(j) ==
  /\ Move(j, "waiting_approval", "queued")
  /\ \E i \in ApprovalSteps :
       IsNext(j, i) /\ complete' = [complete EXCEPT ![j] = @ \union {i}]
  /\ UNCHANGED failures

Complete(j) ==
  /\ IsNext(j, N)
  /\ Move(j, "running", "done")
  /\ UNCHANGED <<complete, failures>>

(* Runs of the jobs in S are given up together.                            *)
SetBack(S) ==
  /\ \A j \in S : phase[j] = "running"
  /\ failures' = [j \in Jobs |-> IF j \in S THEN failures[j] + 1 ELSE failures[j]]
  /\ phase' = [j \in Jobs |-> IF j \notin S THEN phase[j]
                              ELSE IF failures[j] + 1 < MaxAttempts THEN "queued"
                              ELSE "dead_letter"]
  /\ UNCHANGED complete

LifecycleNext ==
  \/ \E j \in Jobs : Submit(j) \/ Begin(j) \/ CompleteStep(j) \/ Halt(j)
                       \/ Approve(j) \/ Complete(j)
  \/ \E S \in SUBSET Jobs : SetBack(S)

LifecycleSpec == LifecycleInit /\ [][LifecycleNext]_lifecycleVars
=============================================================================
