----------------------------- MODULE MCProgress -----------------------------
(* What the background work of a server must bring to an end, for TLC: the *)
(* workflow queue, the schedules, the seeding of definitions and the       *)
(* posting of depreciation, each under the fairness of its own loop. They  *)
(* share no row here, so a behaviour is one of a single part, and the      *)
(* others stay as they begin.                                              *)
EXTENDS MCWorkflowQueue

CONSTANTS nightly, audit, NoSchedule, Manual, Nobody

VARIABLES
  part,
  published, retired, schedules, lockedBy, now, lastSync, timerPc, tick, names,
  found, keep, fired, enqueued, repeated, timerFailures,
  registry, seederPc, pos, stops,
  host, asset, rows, gen, journal, today, open, assetLock, posterPc, todo, cur, seen,
  full, moved, heal, inFlight, throttled, saves, faults

timerVars == <<published, retired, schedules, lockedBy, now, lastSync, timerPc, tick,
               names, found, keep, fired, enqueued, repeated, timerFailures>>
seedVars == <<registry, seederPc, pos, stops>>
assetVars == <<host, asset, rows, gen, journal, today, open, assetLock, posterPc, todo, cur,
               seen, full, moved, heal, inFlight, throttled, saves, faults>>
allVars == <<part, vars, timerVars, seedVars, assetVars>>

-----------------------------------------------------------------------------
(* A cron expression is the period of its occurrences; a workflow becomes  *)
(* manual, and scheduled again when that is rolled back.                   *)
NextMultiple(period, t) == (t \div period + 1) * period
Workflows == {nightly, audit}
ThenManual == [n \in Workflows |-> <<2, Manual>>]
TimerPollers == {"timer"}
TimerRunners == {"runner"}
RunnerOfOne == [p \in TimerPollers |-> "runner"]
TwoVersions == {1, 2}
Timer == INSTANCE WorkflowSchedules WITH
  Names <- Workflows, Versions <- TwoVersions, Trigger <- ThenManual,
  NextAfter <- NextMultiple, Pollers <- TimerPollers, RunnerOf <- RunnerOfOne,
  Runners <- TimerRunners, SyncInterval <- 2, MaxPerTick <- 1, Horizon <- 6,
  LastChange <- 1, MaxFailures <- 1, SyncsMayOverrun <- FALSE, NoRow <- NoSchedule,
  pc <- timerPc, jobs <- enqueued, failures <- timerFailures

(* Two processes of a release and one of the release before.               *)
Releases == [s1 |-> << <<"order", 1>>, <<"invoice", 1>> >>,
             s2 |-> << <<"order", 2>>, <<"invoice", 1>> >>,
             s3 |-> << <<"order", 2>>, <<"invoice", 1>> >>]
Registry == INSTANCE DefinitionRegistry WITH
  Keys <- {"order", "invoice"}, Versions <- {1, 2}, Seeders <- {"s1", "s2", "s3"},
  Items <- Releases, MaxStops <- 2, pc <- seederPc

(* An asset of one period, or of two of which the last amounts to nothing; *)
(* two pollers of one process or of two.                                   *)
PostingPollers == {"p", "q"}
Processes == {"g", "h"}
AssetSchedules == {<<1>>, <<1, 0>>}
Assets == INSTANCE DepreciationPosting WITH
  Assets <- {"a"}, Pollers <- PostingPollers, Processes <- Processes,
  Schedules <- AssetSchedules, MaxRows <- 1, MaxSaves <- 2, MaxFaults <- 1, lock <- assetLock,
  pc <- posterPc
OneProcess == [p \in PostingPollers |-> "g"]
TwoProcesses == [p \in PostingPollers |-> IF p = "p" THEN "g" ELSE "h"]

-----------------------------------------------------------------------------
ProgressInit ==
  /\ part \in {"queue", "timer", "registry", "assets"}
  /\ Init /\ Timer!Init /\ Registry!RegistryInit
  /\ Assets!Init /\ host \in {OneProcess, TwoProcesses}
  /\ part # "assets" => host = OneProcess

Resting(p, v) == IF part = p THEN TRUE ELSE UNCHANGED v
OthersRest ==
  /\ UNCHANGED part
  /\ Resting("queue", vars) /\ Resting("timer", timerVars)
  /\ Resting("registry", seedVars) /\ Resting("assets", assetVars)
In(p) == part = p

QueueStep == In("queue") /\ Next /\ OthersRest
TimerStep == In("timer") /\ Timer!Next /\ OthersRest
RegistryStep == In("registry") /\ Registry!RegistryNext /\ OthersRest
AssetStep == In("assets") /\ Assets!Next /\ OthersRest

ProgressNext == QueueStep \/ TimerStep \/ RegistryStep \/ AssetStep
ProgressSpec == ProgressInit /\ [][ProgressNext]_allVars

(* Every loop goes on: the tickers of the worker and of a process, a seeder *)
(* that is run until it ends, and the clock.                               *)
FairProgressSpec ==
  /\ ProgressSpec
  /\ \A p \in Pollers : WF_vars(In("queue") /\ TickTenant(p))
  /\ \A j \in Jobs : /\ WF_vars(In("queue") /\ BackoffEnds(j))
                     /\ WF_vars(In("queue") /\ GrowOld(j))
  /\ WF_timerVars(In("timer") /\ Timer!PassTime)
  /\ WF_timerVars(In("timer") /\ Timer!TickTenant("timer"))
  /\ \A s \in {"s1", "s2", "s3"} :
       WF_seedVars(In("registry") /\ Registry!Seed(s))
  /\ \A p \in PostingPollers : WF_assetVars(In("assets") /\ Assets!Step(p))
  /\ \A h \in Processes : WF_assetVars(In("assets") /\ Assets!ThrottleEnds(h))

-----------------------------------------------------------------------------
(* FireDue on every tick: a row that is due is fired or replaced in time.  *)
DueRowsLeave == Timer!DueRowsLeave

(* Sync: once the registry rests, the rows are those of what is in force.  *)
TableConverges == Timer!TableConverges

(* PublishAll, re-run until it succeeds: it does, whatever other seeders   *)
(* and rollbacks come in between.                                          *)
SeedersConverge == In("registry") => Registry!SeedersConverge

(* A due row of an asset that stays in service is posted in the end.       *)
DueIsPosted == Assets!DuePosted
=============================================================================
