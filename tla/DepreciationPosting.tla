------------------------ MODULE DepreciationPosting ------------------------
(***************************************************************************)
(* The scheduled posting of depreciation: the save hooks that keep an      *)
(* asset's schedule, the pollers that post due rows to the ledger and move *)
(* an asset whose life is over to fully_depreciated, and the throttle the  *)
(* pollers of one process share.                                           *)
(*                                                                         *)
(* A transaction that posts a row locks the asset first and commits with   *)
(* the row's compare-and-set; a save of the asset is one step that needs   *)
(* the asset unlocked.  A regenerated schedule has new rows: gen numbers   *)
(* the schedules of an asset.                                              *)
(***************************************************************************)
EXTENDS Integers, Sequences, FiniteSets

CONSTANTS
  Assets, Pollers, Processes,
  Schedules,        \* what Build yields: sequences of amounts
  MaxRows,          \* DepreciationPostBatchSize
  MaxSaves,         \* bound on saves by users
  MaxFaults,        \* bound on restarts, failures and closed periods
  Nobody            \* holder of a lock that is free

VARIABLES
  host,             \* poller -> the process it runs in
  asset,            \* asset -> [status, terms, counter, version]
  rows,             \* asset -> its schedule, a sequence of rows
  gen,              \* asset -> how often its schedule was generated
  journal,          \* journal entries, by source row
  today,            \* rows with a sequence up to it are due
  open,             \* does the ledger take postings (period, accounts)
  lock,             \* asset -> the poller whose transaction updated it
  pc, todo, cur, seen, full, moved, heal,   \* of a poller
  inFlight, throttled,                      \* of a process
  saves, faults

userVars == <<asset, rows, gen, saves>>
pollVars == <<pc, todo, cur, seen, full, moved, heal>>
runnerVars == <<inFlight, throttled>>
envVars == <<host, today, open, faults>>
vars == <<host, asset, rows, gen, journal, today, open, lock, pc, todo, cur,
          seen, full, moved, heal, inFlight, throttled, saves, faults>>

Next_ == [none |-> {"draft"},
          draft |-> {"in_service", "disposed", "written_off"},
          in_service |-> {"fully_depreciated", "disposed", "written_off"},
          fully_depreciated |-> {"disposed", "written_off"},
          disposed |-> {}, written_off |-> {}]
NoAsset == [status |-> "none", terms |-> <<>>, counter |-> 0, version |-> 0]
NoRow == [asset |-> "", gen |-> 0, seq |-> 0, amount |-> 0, version |-> 0]

Id(r) == <<r.asset, r.gen, r.seq>>
Booked(id) == IF id \in DOMAIN journal THEN journal[id] ELSE 0
Posted(a) == {s \in DOMAIN rows[a] : rows[a][s].posted}
AnyPosted(a) == Posted(a) # {}

Init ==
  /\ host \in [Pollers -> Processes]
  /\ asset = [a \in Assets |-> NoAsset]
  /\ rows = [a \in Assets |-> <<>>]
  /\ gen = [a \in Assets |-> 0]
  /\ journal = [id \in {} |-> 0]
  /\ today = 0
  /\ open = TRUE
  /\ lock = [a \in Assets |-> Nobody]
  /\ pc = [p \in Pollers |-> "idle"]
  /\ todo = [p \in Pollers |-> {}]
  /\ cur = [p \in Pollers |-> NoRow]
  /\ seen = [p \in Pollers |-> NoAsset]
  /\ full = [p \in Pollers |-> FALSE]
  /\ moved = [p \in Pollers |-> FALSE]
  /\ heal = [p \in Pollers |-> {}]
  /\ inFlight = {} /\ throttled = {}
  /\ saves = 0 /\ faults = 0

------------------------------------------------------------------------------
(* Users: the hooks of FixedAsset and DepreciationSchedule.                *)

(* Every update of a record gives it a version of its own.                 *)
NewVersion(x) == [x EXCEPT !.version = @ + 1]

(* insertSchedule of what buildDesiredSchedule computes.                   *)
InsertSchedule(terms) ==
  [s \in DOMAIN terms |->
     [amount |-> terms[s], posted |-> FALSE, overridden |-> FALSE, version |-> 1]]

ScheduleMatches(a, terms) ==
  /\ DOMAIN rows[a] = DOMAIN terms
  /\ \A s \in DOMAIN terms : rows[a][s].overridden \/ rows[a][s].amount = terms[s]
AllOverridden(a) == \A s \in DOMAIN rows[a] : rows[a][s].overridden

(* Faulty variant: the hook regenerates a posted schedule too.             *)
HookAlwaysAccepts(a, terms) == TRUE
(* An edit is refused when it would rewrite posted history, or might.      *)
HookAccepts(a, terms) ==
  AnyPosted(a) => ScheduleMatches(a, terms) /\ ~AllOverridden(a)

GenerateDepreciationScheduleOnWrite(a, terms) ==
  /\ HookAccepts(a, terms)
  /\ IF ScheduleMatches(a, terms)
       THEN UNCHANGED <<rows, gen>>
       ELSE /\ rows' = [rows EXCEPT ![a] = InsertSchedule(terms)]
            /\ gen' = [gen EXCEPT ![a] = @ + 1]

SaveAsset(a, status, terms) ==
  /\ saves < MaxSaves /\ lock[a] = Nobody
  /\ \/ status \in Next_[asset[a].status]
     \/ status = asset[a].status /\ status # "none"
  /\ <<status, terms>> # <<asset[a].status, asset[a].terms>>
  /\ GenerateDepreciationScheduleOnWrite(a, terms)
  /\ asset' = [asset EXCEPT ![a] =
                 NewVersion([asset[a] EXCEPT !.status = status, !.terms = terms])]
  /\ saves' = saves + 1
  /\ UNCHANGED <<journal, lock, pollVars, runnerVars, envVars>>

(* MarkDepreciationScheduleOverriddenOnWrite recomputes the flag.          *)
Correct(row, amount, computed) ==
  NewVersion([row EXCEPT !.amount = amount, !.overridden = (amount # computed)])

EditRow(a, s, amount) ==
  /\ saves < MaxSaves
  /\ s \in DOMAIN rows[a] /\ rows[a][s].amount # amount
  /\ rows' = [rows EXCEPT ![a][s] = Correct(@, amount, asset[a].terms[s])]
  /\ saves' = saves + 1
  /\ UNCHANGED <<asset, gen, journal, lock, pollVars, runnerVars, envVars>>

------------------------------------------------------------------------------
(* The batch of a poller.                                                  *)

ShouldPostDepreciation(h) == h \notin inFlight /\ h \notin throttled

Claim(p) ==
  /\ pc[p] = "idle" /\ ShouldPostDepreciation(host[p])
  /\ pc' = [pc EXCEPT ![p] = "list"]
  /\ inFlight' = inFlight \union {host[p]}
  /\ throttled' = throttled \union {host[p]}
  /\ UNCHANGED <<userVars, journal, lock, todo, cur, seen, full, moved, heal, envVars>>

(* ListDueUnposted, gated on assets in service.                            *)
Due(a) ==
  {s \in DOMAIN rows[a] : s <= today /\ ~rows[a][s].posted}
DueUnposted ==
  {[asset |-> x[1], gen |-> gen[x[1]], seq |-> x[2], amount |-> rows[x[1]][x[2]].amount,
    version |-> rows[x[1]][x[2]].version] :
     x \in {y \in Assets \X (1..today) :
              asset[y[1]].status = "in_service" /\ y[2] \in Due(y[1])}}

(* What a query with LIMIT MaxRows may return.                             *)
Windows(S) ==
  IF Cardinality(S) <= MaxRows THEN {S} ELSE {w \in SUBSET S : Cardinality(w) = MaxRows}

ListDueUnposted(p) ==
  /\ pc[p] = "list"
  /\ \E batch \in Windows(DueUnposted) :
        /\ todo' = [todo EXCEPT ![p] = batch]
        /\ full' = [full EXCEPT ![p] = Cardinality(batch) = MaxRows]
  /\ pc' = [pc EXCEPT ![p] = "assets"]
  /\ UNCHANGED <<userVars, journal, lock, cur, seen, moved, heal, runnerVars, envVars>>

OfAsset(p, a) == {r \in todo[p] : r.asset = a}

(* postAssetDepreciation looks at the asset again before its rows.         *)
CheckAsset(p, r) ==
  /\ pc[p] = "assets" /\ r \in todo[p]
  /\ IF asset[r.asset].status = "in_service"
       THEN /\ cur' = [cur EXCEPT ![p] = r]
            /\ pc' = [pc EXCEPT ![p] = "row"]
            /\ UNCHANGED todo
       ELSE /\ todo' = [todo EXCEPT ![p] = @ \ OfAsset(p, r.asset)]
            /\ UNCHANGED <<cur, pc>>
  /\ UNCHANGED <<userVars, journal, lock, seen, full, moved, heal, runnerVars, envVars>>

(* The rows of this asset that remain are taken in turn; an error ends     *)
(* them all.                                                               *)
NextRow(p, left) ==
  /\ todo' = [todo EXCEPT ![p] = left]
  /\ IF \E r \in left : r.asset = cur[p].asset
       THEN /\ cur' = [cur EXCEPT ![p] = CHOOSE r \in left : r.asset = cur[p].asset]
            /\ pc' = [pc EXCEPT ![p] = "row"]
       ELSE /\ cur' = [cur EXCEPT ![p] = NoRow]
            /\ pc' = [pc EXCEPT ![p] = "assets"]
  /\ seen' = [seen EXCEPT ![p] = NoAsset]
RowFails(p) == NextRow(p, todo[p] \ OfAsset(p, cur[p].asset))

(* postDepreciationRow: a source with an entry is left alone; a zero row   *)
(* goes to markPosted without that question.                               *)
StartRow(p) ==
  /\ pc[p] = "row"
  /\ IF cur[p].amount # 0 /\ Booked(Id(cur[p])) > 0
       THEN NextRow(p, todo[p] \ {cur[p]})
       ELSE /\ pc' = [pc EXCEPT ![p] = "read"]
            /\ UNCHANGED <<todo, cur, seen>>
  /\ UNCHANGED <<userVars, journal, lock, full, moved, heal, runnerVars, envVars>>

ReadAsset(p) ==
  /\ pc[p] = "read"
  /\ seen' = [seen EXCEPT ![p] = asset[cur[p].asset]]
  /\ pc' = [pc EXCEPT ![p] = "lock"]
  /\ UNCHANGED <<userVars, journal, lock, todo, cur, full, moved, heal, runnerVars, envVars>>

SameVersion(p) == asset[cur[p].asset].version = seen[p].version

(* incrementFixedAssetPostedPeriodCount's update, then ledger.PostTx.      *)
LockAsset(p) ==
  LET a == cur[p].asset IN
  /\ pc[p] = "lock" /\ lock[a] = Nobody
  /\ IF SameVersion(p) /\ (cur[p].amount # 0 => open)
       THEN /\ lock' = [lock EXCEPT ![a] = p]
            /\ pc' = [pc EXCEPT ![p] = "commit"]
            /\ UNCHANGED <<todo, cur, seen>>
       ELSE RowFails(p) /\ UNCHANGED lock
  /\ UNCHANGED <<userVars, journal, full, moved, heal, runnerVars, envVars>>

RowUnchanged(r) ==
  gen[r.asset] = r.gen /\ rows[r.asset][r.seq].version = r.version

CommitRow(p) ==
  LET r == cur[p] IN
  /\ pc[p] = "commit"
  /\ lock' = [lock EXCEPT ![r.asset] = Nobody]
  /\ IF RowUnchanged(r)
       THEN /\ rows' = [rows EXCEPT ![r.asset][r.seq] =
                          NewVersion([@ EXCEPT !.amount = r.amount, !.posted = TRUE])]
            /\ asset' = [asset EXCEPT ![r.asset] =
                          NewVersion([@ EXCEPT !.counter = seen[p].counter + 1])]
            /\ journal' = IF r.amount = 0 THEN journal
                          ELSE [id \in DOMAIN journal \union {Id(r)} |->
                                  Booked(id) + IF id = Id(r) THEN 1 ELSE 0]
            /\ moved' = [moved EXCEPT ![p] = TRUE]
            /\ NextRow(p, todo[p] \ {r})
       ELSE RowFails(p) /\ UNCHANGED <<rows, asset, journal, moved>>
  /\ UNCHANGED <<gen, saves, full, heal, runnerVars, envVars>>

------------------------------------------------------------------------------
(* healStuckFullyDepreciatedAssets.                                        *)

LifeCompleteGroupIDs ==
  {a \in Assets : /\ asset[a].status = "in_service"
                  /\ asset[a].counter >= Len(asset[a].terms)
                  /\ Due(a) = {}}

ListHeal(p) ==
  /\ pc[p] = "assets" /\ todo[p] = {}
  /\ \E found \in Windows(LifeCompleteGroupIDs) :
        /\ heal' = [heal EXCEPT ![p] = found]
        /\ full' = [full EXCEPT ![p] = @ \/ Cardinality(found) = MaxRows]
  /\ pc' = [pc EXCEPT ![p] = "heal"]
  /\ UNCHANGED <<userVars, journal, lock, todo, cur, seen, moved, runnerVars, envVars>>

VerifyLifeComplete(a) ==
  Due(a) = {} /\ Cardinality(Posted(a)) >= Len(asset[a].terms)

Verify(p, a) ==
  /\ pc[p] = "heal" /\ a \in heal[p]
  /\ IF VerifyLifeComplete(a)
       THEN /\ cur' = [cur EXCEPT ![p] = [NoRow EXCEPT !.asset = a]]
            /\ pc' = [pc EXCEPT ![p] = "transition"]
       ELSE UNCHANGED <<cur, pc>>
  /\ heal' = [heal EXCEPT ![p] = @ \ {a}]
  /\ UNCHANGED <<userVars, journal, lock, todo, seen, full, moved, runnerVars, envVars>>

StillInService(a) == asset[a].status = "in_service"

TransitionToFullyDepreciated(p) ==
  LET a == cur[p].asset IN
  /\ pc[p] = "transition" /\ lock[a] = Nobody
  /\ asset' = IF StillInService(a)
              THEN [asset EXCEPT ![a] =
                      NewVersion([@ EXCEPT !.status = "fully_depreciated"])]
              ELSE asset
  /\ moved' = [moved EXCEPT ![p] = TRUE]
  /\ cur' = [cur EXCEPT ![p] = NoRow]
  /\ pc' = [pc EXCEPT ![p] = "heal"]
  /\ UNCHANGED <<rows, gen, saves, journal, lock, todo, seen, full, heal, runnerVars, envVars>>

(* A batch ends, or its process does, and its transaction with it.         *)
Reset(ps) ==
  /\ pc' = [p \in Pollers |-> IF p \in ps THEN "idle" ELSE pc[p]]
  /\ todo' = [p \in Pollers |-> IF p \in ps THEN {} ELSE todo[p]]
  /\ heal' = [p \in Pollers |-> IF p \in ps THEN {} ELSE heal[p]]
  /\ cur' = [p \in Pollers |-> IF p \in ps THEN NoRow ELSE cur[p]]
  /\ seen' = [p \in Pollers |-> IF p \in ps THEN NoAsset ELSE seen[p]]
  /\ full' = [p \in Pollers |-> IF p \in ps THEN FALSE ELSE full[p]]
  /\ moved' = [p \in Pollers |-> IF p \in ps THEN FALSE ELSE moved[p]]
  /\ lock' = [a \in Assets |-> IF lock[a] \in ps THEN Nobody ELSE lock[a]]

(* Faulty variant: a batch that is to be tried again keeps its mark.       *)
KeepMark(h, clearThrottle) ==
  /\ inFlight' = IF clearThrottle THEN inFlight ELSE inFlight \ {h}
  /\ throttled' = IF clearThrottle THEN throttled \ {h} ELSE throttled
FinishDepreciationPost(h, clearThrottle) ==
  /\ inFlight' = inFlight \ {h}
  /\ throttled' = IF clearThrottle THEN throttled \ {h} ELSE throttled

(* A full batch that made progress, or a failed one, is tried again at once. *)
Finish(p) ==
  /\ pc[p] = "heal" /\ heal[p] = {}
  /\ Reset({p})
  /\ FinishDepreciationPost(host[p], full[p] /\ moved[p])
  /\ UNCHANGED <<userVars, journal, envVars>>

(* The batch ends with an error (the context, the database).               *)
Fail(p) ==
  /\ pc[p] # "idle" /\ faults < MaxFaults
  /\ Reset({p})
  /\ FinishDepreciationPost(host[p], TRUE)
  /\ faults' = faults + 1
  /\ UNCHANGED <<userVars, journal, host, today, open>>

------------------------------------------------------------------------------
(* Time, the ledger and the processes.                                     *)

Tick ==
  /\ \E a \in Assets : today < Len(asset[a].terms)
  /\ today' = today + 1
  /\ UNCHANGED <<userVars, journal, lock, pollVars, runnerVars, host, open, faults>>

(* A period is closed or an account deactivated, or undone.                *)
SetLedger ==
  /\ open => faults < MaxFaults
  /\ open' = ~open
  /\ faults' = IF open THEN faults + 1 ELSE faults
  /\ UNCHANGED <<userVars, journal, lock, pollVars, runnerVars, host, today>>

ThrottleEnds(h) ==
  /\ h \in throttled
  /\ throttled' = throttled \ {h}
  /\ UNCHANGED <<userVars, journal, lock, pollVars, inFlight, envVars>>

Restart(h) ==
  /\ faults < MaxFaults /\ h \in inFlight \union throttled
  /\ Reset({p \in Pollers : host[p] = h})
  /\ inFlight' = inFlight \ {h}
  /\ throttled' = throttled \ {h}
  /\ faults' = faults + 1
  /\ UNCHANGED <<userVars, journal, host, today, open>>

Step(p) ==
  \/ Claim(p) \/ ListDueUnposted(p)
  \/ \E r \in todo[p] : CheckAsset(p, r)
  \/ StartRow(p) \/ ReadAsset(p) \/ LockAsset(p) \/ CommitRow(p)
  \/ ListHeal(p)
  \/ \E a \in Assets : Verify(p, a)
  \/ TransitionToFullyDepreciated(p) \/ Finish(p)

Next ==
  \/ \E a \in Assets, t \in Schedules, status \in DOMAIN Next_ : SaveAsset(a, status, t)
  \/ \E a \in Assets, t \in Schedules : \E s \in DOMAIN t : EditRow(a, s, t[s])
  \/ \E p \in Pollers : Step(p) \/ Fail(p)
  \/ Tick \/ SetLedger
  \/ \E h \in Processes : ThrottleEnds(h) \/ Restart(h)

Spec == Init /\ [][Next]_vars

(* Time passes, the ticker of a process fires, and every poller runs.      *)
FairSpec ==
  /\ Spec
  /\ \A p \in Pollers : WF_vars(Step(p))
  /\ \A h \in Processes : WF_vars(ThrottleEnds(h))

------------------------------------------------------------------------------
TypeOK ==
  /\ host \in [Pollers -> Processes]
  /\ \A a \in Assets :
        /\ asset[a].status \in DOMAIN Next_
        /\ asset[a].terms \in Schedules \union {<<>>}
        /\ DOMAIN rows[a] = DOMAIN asset[a].terms
        /\ lock[a] \in Pollers \union {Nobody}
  /\ \A p \in Pollers :
        /\ pc[p] \in {"idle", "list", "assets", "row", "read", "lock", "commit",
                      "heal", "transition"}
        /\ heal[p] \subseteq Assets

(* ExistsForSource and the version of the row: no period of an asset is    *)
(* booked twice, whatever two processes do at once, and what is booked is  *)
(* a posted row of the schedule in force (no entry outlives its row).      *)
BookedOnce ==
  \A id \in DOMAIN journal :
     /\ journal[id] = 1
     /\ gen[id[1]] = id[2] /\ id[3] \in Posted(id[1])

(* incrementFixedAssetPostedPeriodCount: the counter that the healing      *)
(* query trusts is the number of posted rows.                              *)
CounterCounts == \A a \in Assets : asset[a].counter = Cardinality(Posted(a))

EndsPosted ==
  \A a \in Assets :
     asset[a].status # "fully_depreciated" /\ asset'[a].status = "fully_depreciated"
     /\ saves' = saves
     => asset[a].status = "in_service" /\ Posted(a) = DOMAIN asset[a].terms
(* healStuckFullyDepreciatedAssets: an asset that a run moved to           *)
(* fully_depreciated has its whole schedule posted.                        *)
FullyDepreciatedIsPosted == [][EndsPosted]_vars

Stands ==
  \A a \in Assets : Posted(a) \subseteq Posted(a)' /\ (AnyPosted(a) => gen'[a] = gen[a])
(* GenerateDepreciationScheduleOnWrite: a posted row is never deleted nor  *)
(* becomes due again.                                                      *)
PostedRowsStand == [][Stands]_vars

(* shouldPostDepreciation and finishDepreciationPost: the pollers of one   *)
(* process never run two batches of a tenant, and the mark goes when the   *)
(* batch ends, however it ends.                                            *)
OneBatchPerProcess ==
  \A h \in Processes :
     Cardinality({p \in Pollers : host[p] = h /\ pc[p] # "idle"})
       = IF h \in inFlight THEN 1 ELSE 0

(* A due row of an asset that stays in service is posted, if the ledger    *)
(* goes on taking postings, although pollers fail, restart and conflict.   *)
DuePosted ==
  \A a \in Assets :
     <>[](asset[a].status = "in_service" /\ open) => []<>(Due(a) = {})

(* The doc of PostDueDepreciation: "Only posts for a FixedAsset currently  *)
(* in_service".                                                            *)
OnlyInServicePosts ==
  [][\A a \in Assets : asset'[a].counter > asset[a].counter
                       => asset[a].status = "in_service"]_vars

=============================================================================
