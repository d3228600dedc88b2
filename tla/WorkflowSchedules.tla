------------------------- MODULE WorkflowSchedules -------------------------
(***************************************************************************)
(* Scheduled workflows of one tenant (internal/kernel/workflow/            *)
(* scheduler.go, internal/data/workflow_schedules.go): the workflow_       *)
(* schedules rows, reconciled by every poller's Sync with the published    *)
(* workflow definitions and fired by FireDue.                              *)
(*                                                                         *)
(* Sync is one statement after the other: what it read of the registry may *)
(* be out of date when it writes the row, and when it prunes. FireDue is   *)
(* one transaction per schedule, from the row lock to the commit.          *)
(***************************************************************************)
EXTENDS Naturals, FiniteSetsExt

CONSTANTS
  Names,        \* workflow names
  Versions,     \* versions of a workflow, from 1
  Trigger,      \* Trigger[n][v]: the cron expression, or Manual
  Manual,       \* any trigger but a schedule
  NextAfter(_, _),  \* Schedule.Next: the first occurrence after a time
  Pollers,      \* goroutines of worker.Runner
  RunnerOf,     \* RunnerOf[p]: the Runner, one per process
  Runners,
  NoRow,        \* where a workflow has no schedule row, a poller no name
  SyncInterval, \* ScheduleSyncInterval
  MaxPerTick,   \* how many schedules one FireDue fires
  Horizon,      \* bound: the clock runs from 1 to Horizon
  LastChange,   \* bound: the registry changes until then
  MaxFailures,  \* bound: how often a statement fails or a poller dies
  SyncsMayOverrun  \* FALSE: a Sync ends within SyncInterval

ASSUME ScheduleAssumption ==
  /\ IsFiniteSet(Versions) /\ Versions = 1..Cardinality(Versions)
  /\ NoRow \notin Names \union Pollers
  /\ RunnerOf \in [Pollers -> Runners]
  /\ SyncInterval \in Nat /\ MaxPerTick \in Nat \ {0}
  /\ Horizon \in Nat \ {0} /\ LastChange \in Nat /\ MaxFailures \in Nat
  /\ SyncsMayOverrun \in BOOLEAN
ASSUME NextAfterAssumption ==
  \A n \in Names, v \in Versions, t \in 0..Horizon :
    Trigger[n][v] # Manual =>
      NextAfter(Trigger[n][v], t) \in Nat /\ NextAfter(Trigger[n][v], t) > t

VARIABLES
  published,  \* published[n]: the published versions of n
  retired,    \* retired[n]: those that were rolled back
  schedules,  \* schedules[n]: the row [version, cron, due] of n, or NoRow
  lockedBy,   \* lockedBy[n]: the poller whose transaction holds the row
  now,        \* the clock
  lastSync,   \* lastSync[r]: lastScheduleSync of the Runner, 0 for no entry
  pc,         \* pc[p]: where poller p is in tickTenant
  tick,       \* tick[p]: the "now" of p's tick
  names,      \* names[p]: the published names Sync has still to read
  found,      \* found[p]: the workflow in hand, [name, row]: the row Sync is
              \* about to upsert, or the one fireOne has claimed
  keep,       \* keep[p]: the scheduled names Sync has upserted
  fired,      \* fired[p]: how many schedules this FireDue has fired
  jobs,       \* history: the jobs enqueued, [name, cron, due, at] each
  repeated,   \* history: whether the same job was ever enqueued twice
  failures    \* how many failures there were

registryVars == <<published, retired>>
pollerVars == <<pc, tick, names, found, keep, fired>>
vars == <<registryVars, schedules, lockedBy, now, lastSync, pollerVars, jobs, repeated, failures>>

PollersOf(r) == {p \in Pollers : RunnerOf[p] = r}
NoFind == [name |-> NoRow, row |-> NoRow]

Init ==
  /\ published = [n \in Names |-> {}]
  /\ retired = [n \in Names |-> {}]
  /\ schedules = [n \in Names |-> NoRow]
  /\ lockedBy = [n \in Names |-> NoRow]
  /\ now = 1
  /\ lastSync = [r \in Runners |-> 0]
  /\ pc = [p \in Pollers |-> "idle"]
  /\ tick = [p \in Pollers |-> 0]
  /\ names = [p \in Pollers |-> {}]
  /\ found = [p \in Pollers |-> NoFind]
  /\ keep = [p \in Pollers |-> {}]
  /\ fired = [p \in Pollers |-> 0]
  /\ jobs = {}
  /\ repeated = FALSE
  /\ failures = 0

-----------------------------------------------------------------------------
(* The registry: versions are published and rolled back (see               *)
(* DefinitionRegistry), the highest one published is in force.             *)
Current(n) == Max(published[n])
Scheduled(n) == published[n] # {} /\ Trigger[n][Current(n)] # Manual

Publish(n, v) ==
  /\ now <= LastChange
  /\ v \notin published[n] \union retired[n]
  /\ published' = [published EXCEPT ![n] = @ \union {v}]
  /\ UNCHANGED <<retired, schedules, lockedBy, now, lastSync, pollerVars, jobs, repeated, failures>>

Rollback(n, v) ==
  /\ now <= LastChange
  /\ v \in published[n]
  /\ published' = [published EXCEPT ![n] = @ \ {v}]
  /\ retired' = [retired EXCEPT ![n] = @ \union {v}]
  /\ UNCHANGED <<schedules, lockedBy, now, lastSync, pollerVars, jobs, repeated, failures>>

-----------------------------------------------------------------------------
(* The statements on workflow_schedules. They wait for a locked row.       *)
Row(version, cron, due) == [version |-> version, cron |-> cron, due |-> due]
Unlocked(n) == lockedBy[n] = NoRow

(* Faulty variant: the due time is always computed anew.                   *)
UpsertedAnew(n, row) == row
(* next_due_at is kept unless the expression changed.                      *)
Upserted(n, row) ==
  IF schedules[n] # NoRow /\ schedules[n].cron = row.cron
    THEN [row EXCEPT !.due = schedules[n].due] ELSE row

(* Faulty variant: nothing is ever pruned.                                 *)
NothingPruned(kept) == schedules
Pruned(kept) == [n \in Names |-> IF n \in kept THEN schedules[n] ELSE NoRow]

IsDue(n, t) == schedules[n] # NoRow /\ schedules[n].due <= t
Earliest(S) == {n \in S : \A m \in S : schedules[n].due <= schedules[m].due}
(* ClaimDueTx: the earliest due row, FOR UPDATE SKIP LOCKED. Faulty        *)
(* variants: no lock at all; due times compared with <.                    *)
ClaimableUnlocked(t) == Earliest({n \in Names : IsDue(n, t)})
ClaimableLate(t) == Earliest({n \in Names : IsDue(n, t - 1) /\ Unlocked(n)})
Claimable(t) == Earliest({n \in Names : IsDue(n, t) /\ Unlocked(n)})

-----------------------------------------------------------------------------
(* tickTenant of a poller, its scheduling half.                            *)
Goto(p, at) == pc' = [pc EXCEPT ![p] = at]

(* shouldSyncSchedules: one Sync per SyncInterval and Runner.              *)
SyncIsDue(p) ==
  lastSync[RunnerOf[p]] = 0 \/ now - lastSync[RunnerOf[p]] >= SyncInterval

StartTick(p) ==
  /\ pc[p] = "idle"
  /\ tick' = [tick EXCEPT ![p] = now]
  /\ fired' = [fired EXCEPT ![p] = 0]
  /\ keep' = [keep EXCEPT ![p] = {}]
  /\ IF SyncIsDue(p)
       THEN /\ lastSync' = [lastSync EXCEPT ![RunnerOf[p]] = now]
            /\ Goto(p, "listing")
       ELSE Goto(p, "firing") /\ UNCHANGED lastSync
  /\ UNCHANGED <<registryVars, schedules, lockedBy, now, names, found, jobs, repeated, failures>>

(* Sync: ListPublishedNames.                                               *)
ListNames(p) ==
  /\ pc[p] = "listing"
  /\ names' = [names EXCEPT ![p] = {n \in Names : published[n] # {}}]
  /\ Goto(p, "reading")
  /\ UNCHANGED <<registryVars, schedules, lockedBy, now, lastSync, tick, found, keep, fired, jobs, repeated, failures>>

ScheduleOf(n, t) ==
  LET cron == Trigger[n][Current(n)] IN Row(Current(n), cron, NextAfter(cron, t))

(* Sync: GetPublished of the next name; one that is gone or no longer      *)
(* scheduled is passed over.                                               *)
ReadPublished(p) ==
  /\ pc[p] = "reading"
  /\ \E n \in names[p] :
       /\ names' = [names EXCEPT ![p] = @ \ {n}]
       /\ IF Scheduled(n)
            THEN /\ found' = [found EXCEPT ![p] = [name |-> n, row |-> ScheduleOf(n, tick[p])]]
                 /\ Goto(p, "upserting")
            ELSE UNCHANGED <<found, pc>>
  /\ UNCHANGED <<registryVars, schedules, lockedBy, now, lastSync, tick, keep, fired, jobs, repeated, failures>>

UpsertSchedule(p) ==
  /\ pc[p] = "upserting"
  /\ LET n == found[p].name IN
       /\ Unlocked(n)
       /\ schedules' = [schedules EXCEPT ![n] = Upserted(n, found[p].row)]
       /\ keep' = [keep EXCEPT ![p] = @ \union {n}]
  /\ found' = [found EXCEPT ![p] = NoFind]
  /\ Goto(p, "reading")
  /\ UNCHANGED <<registryVars, lockedBy, now, lastSync, tick, names, fired, jobs, repeated, failures>>

(* Sync: DeleteExcept.                                                     *)
Prune(p) ==
  /\ pc[p] = "reading" /\ names[p] = {}
  /\ \A n \in Names \ keep[p] : Unlocked(n)
  /\ schedules' = Pruned(keep[p])
  /\ Goto(p, "firing")
  /\ UNCHANGED <<registryVars, lockedBy, now, lastSync, tick, names, found, keep, fired, jobs, repeated, failures>>

(* A statement of Sync fails: forgetScheduleSync, and on to FireDue.       *)
SyncFails(p) ==
  /\ pc[p] \in {"listing", "reading", "upserting"}
  /\ failures < MaxFailures
  /\ failures' = failures + 1
  /\ lastSync' = [lastSync EXCEPT ![RunnerOf[p]] = 0]
  /\ names' = [names EXCEPT ![p] = {}]
  /\ found' = [found EXCEPT ![p] = NoFind]
  /\ Goto(p, "firing")
  /\ UNCHANGED <<registryVars, schedules, lockedBy, now, tick, keep, fired, jobs, repeated>>

(* FireDue: fireOne, from the claim to the commit.                         *)
ClaimDue(p) ==
  /\ pc[p] = "firing" /\ fired[p] < MaxPerTick
  /\ \E n \in Claimable(tick[p]) :
       /\ lockedBy' = [lockedBy EXCEPT ![n] = p]
       /\ found' = [found EXCEPT ![p] = [name |-> n, row |-> schedules[n]]]
  /\ Goto(p, "claimed")
  /\ UNCHANGED <<registryVars, schedules, now, lastSync, tick, names, keep, fired, jobs, repeated, failures>>

(* EnqueueTx, AdvanceTx and the commit; the next due time is computed from *)
(* the time of the tick.                                                   *)
Advanced(row, t) == [row EXCEPT !.due = NextAfter(row.cron, t)]

Fire(p) ==
  /\ pc[p] = "claimed"
  /\ LET n == found[p].name
         row == found[p].row
         job == [name |-> n, cron |-> row.cron, due |-> row.due, at |-> tick[p]] IN
       /\ jobs' = jobs \union {job}
       /\ repeated' = (repeated \/ job \in jobs)
       /\ schedules' = [schedules EXCEPT ![n] = Advanced(row, tick[p])]
       /\ lockedBy' = [lockedBy EXCEPT ![n] = NoRow]
  /\ fired' = [fired EXCEPT ![p] = @ + 1]
  /\ found' = [found EXCEPT ![p] = NoFind]
  /\ Goto(p, "firing")
  /\ UNCHANGED <<registryVars, now, lastSync, tick, names, keep, failures>>

(* FireDue returns: nothing it can claim is due, or it has fired its fill. *)
EndTick(p) ==
  /\ pc[p] = "firing"
  /\ Claimable(tick[p]) = {} \/ fired[p] = MaxPerTick
  /\ Goto(p, "idle")
  /\ UNCHANGED <<registryVars, schedules, lockedBy, now, lastSync, tick, names, found, keep, fired, jobs, repeated, failures>>

(* A statement of fireOne fails: the transaction is rolled back.           *)
FireFails(p) ==
  /\ pc[p] = "claimed"
  /\ failures < MaxFailures
  /\ failures' = failures + 1
  /\ lockedBy' = [lockedBy EXCEPT ![found[p].name] = NoRow]
  /\ found' = [found EXCEPT ![p] = NoFind]
  /\ Goto(p, "idle")
  /\ UNCHANGED <<registryVars, schedules, now, lastSync, tick, names, keep, fired, jobs, repeated>>

(* The process of a Runner dies and is started again.                      *)
Restart(r) ==
  /\ failures < MaxFailures
  /\ failures' = failures + 1
  /\ lastSync' = [lastSync EXCEPT ![r] = 0]
  /\ lockedBy' = [n \in Names |-> IF lockedBy[n] \in PollersOf(r) THEN NoRow ELSE lockedBy[n]]
  /\ pc' = [p \in Pollers |-> IF p \in PollersOf(r) THEN "idle" ELSE pc[p]]
  /\ names' = [p \in Pollers |-> IF p \in PollersOf(r) THEN {} ELSE names[p]]
  /\ found' = [p \in Pollers |-> IF p \in PollersOf(r) THEN NoFind ELSE found[p]]
  /\ UNCHANGED <<registryVars, schedules, now, tick, keep, fired, jobs, repeated>>

(* The clock. Unless Syncs may overrun, one that began SyncInterval ago    *)
(* has ended.                                                              *)
Syncing(p) == pc[p] \in {"listing", "reading", "upserting"}
PassTime ==
  /\ now < Horizon
  /\ SyncsMayOverrun \/ \A p \in Pollers : Syncing(p) => now + 1 - tick[p] < SyncInterval
  /\ now' = now + 1
  /\ UNCHANGED <<registryVars, schedules, lockedBy, lastSync, pollerVars, jobs, repeated, failures>>

-----------------------------------------------------------------------------
Sync(p) == ListNames(p) \/ ReadPublished(p) \/ UpsertSchedule(p) \/ Prune(p)
FireDue(p) == ClaimDue(p) \/ Fire(p) \/ EndTick(p)
TickTenant(p) == StartTick(p) \/ Sync(p) \/ FireDue(p)

Next ==
  \/ \E n \in Names, v \in Versions : Publish(n, v) \/ Rollback(n, v)
  \/ \E p \in Pollers : TickTenant(p) \/ SyncFails(p) \/ FireFails(p)
  \/ \E r \in Runners : Restart(r)
  \/ PassTime

Spec == Init /\ [][Next]_vars
(* Pollers tick for ever and time passes.                                  *)
FairSpec == Spec /\ WF_vars(PassTime) /\ \A p \in Pollers : WF_vars(TickTenant(p))

-----------------------------------------------------------------------------
Crons == {Trigger[n][v] : n \in Names, v \in Versions} \ {Manual}
Occurrences(cron) == {NextAfter(cron, t) : t \in 0..Horizon}
RowsOf(n) == [version : {v \in Versions : Trigger[n][v] # Manual}, cron : Crons,
              due : UNION {Occurrences(c) : c \in Crons}]

ASSUME NoRowAssumption == \A n \in Names : NoRow \notin RowsOf(n)

(* Every variable stays in its type.                                       *)
TypeOK ==
  /\ published \in [Names -> SUBSET Versions]
  /\ retired \in [Names -> SUBSET Versions]
  /\ DOMAIN schedules = Names /\ \A n \in Names : schedules[n] \in RowsOf(n) \union {NoRow}
  /\ lockedBy \in [Names -> Pollers \union {NoRow}]
  /\ now \in 0..Horizon
  /\ lastSync \in [Runners -> 0..Horizon]
  /\ pc \in [Pollers -> {"idle", "listing", "reading", "upserting", "firing", "claimed"}]
  /\ tick \in [Pollers -> 0..Horizon]
  /\ names \in [Pollers -> SUBSET Names]
  /\ DOMAIN found = Pollers
  /\ \A p \in Pollers : found[p] = NoFind \/ found[p].row \in RowsOf(found[p].name)
  /\ keep \in [Pollers -> SUBSET Names]
  /\ fired \in [Pollers -> 0..MaxPerTick]
  /\ failures \in 0..MaxFailures

(* A row is due at an occurrence of its own expression, the one of its     *)
(* version, whichever of two syncs and a fire wrote it last (Upsert,       *)
(* AdvanceTx).                                                             *)
DueIsOccurrence ==
  \A n \in Names : schedules[n] # NoRow =>
    /\ schedules[n].cron = Trigger[n][schedules[n].version]
    /\ schedules[n].due \in Occurrences(schedules[n].cron)

(* An occurrence is answered by one job, and a job answers every           *)
(* occurrence up to the time it was enqueued at: no second run for the     *)
(* same time, no stampede after a pause (FireDue).                         *)
OneRunPerOccurrence ==
  /\ ~repeated
  /\ \A a, b \in jobs : a # b /\ a.name = b.name /\ a.cron = b.cron =>
       a.at < b.due \/ b.at < a.due

(* What Upsert, AdvanceTx and FireDue keep whichever of them came last.    *)
OccurrencesKept == TypeOK /\ DueIsOccurrence /\ OneRunPerOccurrence

(* A row that is due ceases to be only by a job enqueued for it, unless    *)
(* its expression changes or it is pruned: no reconcile pushes it forward  *)
(* unrun (Upsert).                                                         *)
DueRowsAreFired ==
  [][\A n \in Names :
       /\ IsDue(n, now)
       /\ schedules'[n] # NoRow
       /\ schedules'[n].cron = schedules[n].cron
       /\ schedules'[n].due # schedules[n].due
       => \E job \in jobs' : job.name = n /\ job.due = schedules[n].due]_vars

(* No reconcile removes the row of a workflow that is published with a     *)
(* schedule while a run of it is due (Sync, DeleteExcept). The code does   *)
(* not keep this one: Sync prunes by what it read before.                  *)
DueRowsAreKept ==
  [][\A n \in Names : IsDue(n, now) /\ Scheduled(n) => schedules'[n] # NoRow]_vars

(* Once the registry is quiet the table comes to hold the schedules it     *)
(* publishes, and those only, for good (Sync reconciles on every tick).    *)
InStep(n) ==
  IF Scheduled(n)
    THEN schedules[n] # NoRow /\ schedules[n].version = Current(n)
    ELSE schedules[n] = NoRow
TableConverges == <>[](\A n \in Names : InStep(n))

(* A row that is due is fired or replaced in time (FireDue on every tick). *)
DueRowsLeave == \A n \in Names : []<>~IsDue(n, now)
=============================================================================
