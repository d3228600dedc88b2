---------------------- MODULE WorkflowSchedulesProofs ----------------------
(* That no occurrence of a schedule runs twice, for any workflows,         *)
(* expressions and pollers of one Runner whose Syncs do not overrun. The   *)
(* violating run of two Runners shows that the proviso is needed.          *)
EXTENDS WorkflowSchedules, FiniteSetTheorems, WellFoundedInduction, TLAPS

(* One process polls the tenant, and a Sync ends before the next may begin.*)
OneRunner ==
  /\ \A p, q \in Pollers : RunnerOf[p] = RunnerOf[q]
  /\ ~SyncsMayOverrun /\ SyncInterval > 0

-----------------------------------------------------------------------------
(* A job answers the occurrences of its row up to the tick it was fired in.*)
JobsOK ==
  \A j \in jobs : j.due \in Nat /\ j.at \in Nat /\ j.due <= j.at /\ j.at <= now

(* What is due has not been answered.                                      *)
Unanswered ==
  \A n \in Names : schedules[n] # NoRow =>
    \A j \in jobs : j.name = n /\ j.cron = schedules[n].cron => j.at < schedules[n].due

(* n is still to be upserted by the Sync of p.                             *)
Pending(p, n) ==
  \/ pc[p] = "listing"
  \/ pc[p] \in {"reading", "upserting"} /\ n \in names[p]
  \/ pc[p] = "upserting" /\ found[p].name = n

SyncOK(p) ==
  Syncing(p) =>
    /\ lastSync[RunnerOf[p]] = tick[p] /\ tick[p] # 0
    /\ now - tick[p] < SyncInterval
    /\ \A n \in Names : Pending(p, n) =>
         \A j \in jobs : j.name = n /\ j.at > tick[p] =>
           schedules[n] # NoRow /\ schedules[n].cron = j.cron

FoundOK(p) ==
  /\ pc[p] = "upserting" =>
       /\ found[p].name \in Names \ names[p]
       /\ found[p].row \in RowsOf(found[p].name)
       /\ found[p].row.cron = Trigger[found[p].name][found[p].row.version]
       /\ found[p].row.due = NextAfter(found[p].row.cron, tick[p])
  /\ pc[p] = "claimed" =>
       /\ found[p].name \in Names /\ lockedBy[found[p].name] = p
       /\ schedules[found[p].name] # NoRow
       /\ found[p].row = schedules[found[p].name]
       /\ found[p].row.due <= tick[p] /\ fired[p] < MaxPerTick

PollerOK(p) == tick[p] <= now /\ SyncOK(p) /\ FoundOK(p)
OneSync == \A p, q \in Pollers : Syncing(p) /\ Syncing(q) => p = q

ScheduleInv ==
  /\ TypeOK /\ now # 0 /\ DueIsOccurrence
  /\ JobsOK /\ Unanswered /\ OneRunPerOccurrence
  /\ OneSync /\ \A p \in Pollers : PollerOK(p)

-----------------------------------------------------------------------------
(* The version in force is one of those published.                         *)
LEMMA MaxIsElement ==
  ASSUME NEW S, S \subseteq Versions, S # {} PROVE Max(S) \in S
<1> DEFINE k == Cardinality(Versions)
           T == {k - v : v \in S}
<1>1. k \in Nat /\ S \subseteq 1..k
  BY ScheduleAssumption, FS_CardinalityType
<1>2. T \subseteq Nat /\ T # {}
  <2> SUFFICES ASSUME NEW v \in S PROVE k - v \in Nat
    OBVIOUS
  <2> HIDE DEF k
  <2> QED
    BY <1>1
<1>3. PICK m \in T : \A y \in T : ~(<<y, m>> \in OpToRel(<, Nat))
  BY <1>2, NatLessThanWellFounded, WFMin
<1>4. \A y \in T : ~(y < m)
  BY <1>2, <1>3 DEF OpToRel
<1>5. PICK v \in S : m = k - v
  OBVIOUS
<1>6. \A w \in S : v >= w
  <2> SUFFICES ASSUME NEW w \in S PROVE v >= w
    OBVIOUS
  <2>1. k - w \in T /\ ~(k - w < k - v)
    BY <1>4, <1>5
  <2> QED
    BY <1>1, <2>1
<1> QED
  BY <1>6 DEF Max

LEMMA Bounds ==
  /\ MaxFailures \in Nat /\ MaxPerTick \in Nat /\ SyncInterval \in Nat
  /\ Horizon \in Nat \ {0} /\ \A p \in Pollers : RunnerOf[p] \in Runners
BY ScheduleAssumption

LEMMA CronsHaveNext ==
  ASSUME NEW c \in Crons, NEW t \in 0..Horizon
  PROVE  NextAfter(c, t) \in Nat /\ NextAfter(c, t) > t /\ NextAfter(c, t) \in Occurrences(c)
<1>1. PICK n \in Names, v \in Versions : c = Trigger[n][v] /\ Trigger[n][v] # Manual
  BY DEF Crons
<1>2. NextAfter(c, t) \in Nat /\ NextAfter(c, t) > t
  BY <1>1, NextAfterAssumption
<1> QED
  BY <1>2 DEF Occurrences

LEMMA RowFacts ==
  ASSUME NEW n \in Names, NEW row \in RowsOf(n)
  PROVE  /\ row.version \in Versions /\ Trigger[n][row.version] # Manual
         /\ row.cron \in Crons /\ row.due \in Nat
<1>1. row.cron \in Crons /\ row.version \in {v \in Versions : Trigger[n][v] # Manual}
  BY DEF RowsOf
<1>2. row.due \in UNION {Occurrences(c) : c \in Crons}
  BY DEF RowsOf
<1>3. PICK c \in Crons : row.due \in Occurrences(c)
  BY <1>2
<1>4. PICK t \in 0..Horizon : row.due = NextAfter(c, t)
  BY <1>3 DEF Occurrences
<1> QED
  BY <1>1, <1>4, CronsHaveNext

LEMMA AdvancedRow ==
  ASSUME NEW n \in Names, NEW row \in RowsOf(n), NEW t \in 0..Horizon
  PROVE  /\ Advanced(row, t) \in RowsOf(n) /\ Advanced(row, t).cron = row.cron
         /\ Advanced(row, t).version = row.version
         /\ Advanced(row, t).due = NextAfter(row.cron, t)
<1>1. row.cron \in Crons
  BY RowFacts
<1>2. NextAfter(row.cron, t) \in UNION {Occurrences(c) : c \in Crons}
  BY <1>1, CronsHaveNext
<1> QED
  BY <1>2 DEF Advanced, RowsOf

-----------------------------------------------------------------------------
(* A poller that does not move keeps what it knows.                        *)
Stays(q) ==
  /\ pc'[q] = pc[q] /\ tick'[q] = tick[q] /\ names'[q] = names[q]
  /\ found'[q] = found[q] /\ fired'[q] = fired[q]

LEMMA StayingPoller ==
  ASSUME NEW q \in Pollers, PollerOK(q), Stays(q), UNCHANGED <<schedules, jobs, now>>,
         \A n \in Names : lockedBy[n] = q => lockedBy'[n] = q,
         Syncing(q) => lastSync'[RunnerOf[q]] = lastSync[RunnerOf[q]]
  PROVE  PollerOK(q)'
<1>1. Syncing(q)' = Syncing(q) /\ \A n \in Names : Pending(q, n)' = Pending(q, n)
  BY DEF Stays, Syncing, Pending
<1>2. SyncOK(q)'
  BY <1>1 DEF PollerOK, SyncOK, Stays
<1>3. FoundOK(q)'
  BY DEF PollerOK, FoundOK, Stays
<1> QED
  BY <1>2, <1>3 DEF PollerOK, Stays

(* A step of p that leaves the rows and the jobs alone.                    *)
LEMMA PollerSteps ==
  ASSUME ScheduleInv, TypeOK', NEW p \in Pollers, PollerOK(p)',
         UNCHANGED <<schedules, jobs, repeated, now>>,
         \A q \in Pollers \ {p} :
            /\ Stays(q) /\ \A n \in Names : lockedBy[n] = q => lockedBy'[n] = q
            /\ Syncing(q) => /\ lastSync'[RunnerOf[q]] = lastSync[RunnerOf[q]]
                             /\ ~Syncing(p)'
  PROVE  ScheduleInv'
<1>1. \A q \in Pollers \ {p} : PollerOK(q)'
  BY StayingPoller DEF ScheduleInv
<1>2. OneSync'
  BY DEF ScheduleInv, OneSync, Stays, Syncing
<1>3. DueIsOccurrence' /\ JobsOK' /\ Unanswered' /\ OneRunPerOccurrence'
  BY DEF ScheduleInv, DueIsOccurrence, JobsOK, Unanswered, OneRunPerOccurrence
<1> QED
  BY <1>1, <1>2, <1>3 DEF ScheduleInv

LEMMA InitSchedules == Init => ScheduleInv
<1> SUFFICES ASSUME Init PROVE ScheduleInv
  OBVIOUS
<1>1. TypeOK
  BY ScheduleAssumption DEF Init, TypeOK
<1>2. \A p \in Pollers : PollerOK(p)
  BY DEF Init, PollerOK, SyncOK, FoundOK, Syncing
<1>3. OneSync
  BY DEF Init, OneSync, Syncing
<1> QED
  BY <1>1, <1>2, <1>3 DEF Init, ScheduleInv, DueIsOccurrence, JobsOK, Unanswered,
     OneRunPerOccurrence

-----------------------------------------------------------------------------
(* The steps of a Sync that only read, and the claims of FireDue.          *)
LEMMA StartKeeps ==
  ASSUME OneRunner, ScheduleInv, NEW p \in Pollers, StartTick(p) PROVE ScheduleInv'
<1>1. /\ pc[p] = "idle" /\ tick' = [tick EXCEPT ![p] = now]
      /\ UNCHANGED <<schedules, lockedBy, now, names, found, jobs, repeated>>
  BY DEF StartTick
<1>2. TypeOK'
  <2>1. /\ fired' \in [Pollers -> 0..MaxPerTick] /\ tick' \in [Pollers -> 0..Horizon]
        /\ keep' \in [Pollers -> SUBSET Names]
    BY Bounds DEF ScheduleInv, TypeOK, StartTick
  <2>2. lastSync' \in [Runners -> 0..Horizon]
    BY DEF ScheduleInv, TypeOK, StartTick
  <2>3. pc' \in [Pollers -> {"idle", "listing", "reading", "upserting", "firing", "claimed"}]
    BY DEF ScheduleInv, TypeOK, StartTick, Goto
  <2> QED
    BY <2>1, <2>2, <2>3 DEF ScheduleInv, TypeOK, StartTick, registryVars
<1>3. \A q \in Pollers \ {p} : Stays(q)
  BY DEF ScheduleInv, TypeOK, StartTick, Goto, Stays
<1>4. tick'[p] = now /\ now \in Nat /\ now # 0
  BY <1>1 DEF ScheduleInv, TypeOK
<1>5. CASE SyncIsDue(p)
  <2>1. lastSync' = [lastSync EXCEPT ![RunnerOf[p]] = now] /\ pc' = [pc EXCEPT ![p] = "listing"]
    BY <1>5 DEF StartTick, Goto
  <2>2. RunnerOf[p] \in Runners /\ SyncInterval \in Nat /\ SyncInterval > 0
    BY ScheduleAssumption DEF OneRunner
  <2>3. lastSync'[RunnerOf[p]] = now /\ pc'[p] = "listing"
    BY <2>1, <2>2 DEF ScheduleInv, TypeOK
  <2>4. \A q \in Pollers : ~Syncing(q)
    <3> SUFFICES ASSUME NEW q \in Pollers, Syncing(q) PROVE FALSE
      OBVIOUS
    <3>1. lastSync[RunnerOf[q]] = tick[q] /\ tick[q] # 0 /\ now - tick[q] < SyncInterval
      BY DEF ScheduleInv, PollerOK, SyncOK
    <3>2. RunnerOf[p] = RunnerOf[q] /\ tick[q] \in Nat
      BY DEF OneRunner, ScheduleInv, TypeOK
    <3> QED
      BY <1>4, <1>5, <2>2, <3>1, <3>2 DEF SyncIsDue
  <2>5. PollerOK(p)'
    <3>1. \A j \in jobs : ~(j.at > now)
      BY <1>4 DEF ScheduleInv, JobsOK
    <3>2. SyncOK(p)'
      BY <1>1, <1>4, <2>2, <2>3, <3>1 DEF SyncOK
    <3>3. FoundOK(p)'
      BY <2>3 DEF FoundOK
    <3> QED
      BY <1>1, <1>4, <3>2, <3>3 DEF PollerOK
  <2> QED
    BY <1>1, <1>2, <1>3, <2>4, <2>5, PollerSteps
<1>6. CASE ~SyncIsDue(p)
  <2>1. pc' = [pc EXCEPT ![p] = "firing"] /\ UNCHANGED lastSync
    BY <1>6 DEF StartTick, Goto
  <2>2. pc'[p] = "firing"
    BY <2>1 DEF ScheduleInv, TypeOK
  <2>3. PollerOK(p)' /\ ~Syncing(p)'
    BY <1>1, <1>4, <2>2 DEF PollerOK, SyncOK, FoundOK, Syncing
  <2> QED
    BY <1>1, <1>2, <1>3, <2>1, <2>3, PollerSteps
<1> QED
  BY <1>5, <1>6

LEMMA ListKeeps ==
  ASSUME ScheduleInv, NEW p \in Pollers, ListNames(p) PROVE ScheduleInv'
<1>1. /\ pc[p] = "listing" /\ pc' = [pc EXCEPT ![p] = "reading"]
      /\ UNCHANGED <<schedules, lockedBy, now, lastSync, tick, found, jobs, repeated>>
  BY DEF ListNames, Goto
<1>2. TypeOK'
  BY DEF ScheduleInv, TypeOK, ListNames, registryVars, Goto
<1>3. \A q \in Pollers \ {p} : Stays(q)
  BY DEF ScheduleInv, TypeOK, ListNames, Goto, Stays
<1>4. pc'[p] = "reading"
  BY <1>1 DEF ScheduleInv, TypeOK
<1>5. Syncing(p) /\ \A n \in Names : Pending(p, n)
  BY <1>1 DEF Syncing, Pending
<1>6. PollerOK(p)'
  BY <1>1, <1>4, <1>5 DEF ScheduleInv, PollerOK, SyncOK, FoundOK, Syncing
<1>7. \A q \in Pollers \ {p} : ~Syncing(q)
  BY <1>5 DEF ScheduleInv, OneSync
<1> QED
  BY <1>1, <1>2, <1>3, <1>6, <1>7, PollerSteps

LEMMA ReadPublishedKeeps ==
  ASSUME ScheduleInv, NEW p \in Pollers, ReadPublished(p) PROVE ScheduleInv'
<1>1. /\ pc[p] = "reading"
      /\ UNCHANGED <<registryVars, schedules, lockedBy, now, lastSync, tick, keep, fired, jobs,
                     repeated, failures>>
  BY DEF ReadPublished
<1>2. PICK n \in names[p] :
        /\ names' = [names EXCEPT ![p] = @ \ {n}]
        /\ IF Scheduled(n)
             THEN /\ found' = [found EXCEPT ![p] = [name |-> n, row |-> ScheduleOf(n, tick[p])]]
                  /\ Goto(p, "upserting")
             ELSE UNCHANGED <<found, pc>>
  BY DEF ReadPublished
<1>3. n \in Names /\ names'[p] = names[p] \ {n} /\ tick[p] \in 0..Horizon
  BY <1>2 DEF ScheduleInv, TypeOK
<1>4. Syncing(p) /\ (\A m \in names[p] : Pending(p, m)) /\ PollerOK(p)
  BY <1>1 DEF Syncing, Pending, ScheduleInv
<1>5. \A q \in Pollers \ {p} : ~Syncing(q)
  BY <1>4 DEF ScheduleInv, OneSync
<1>6. \A q \in Pollers \ {p} : names'[q] = names[q]
  BY <1>2 DEF ScheduleInv, TypeOK
<1>7. names' \in [Pollers -> SUBSET Names]
  BY <1>2 DEF ScheduleInv, TypeOK
<1>8. CASE Scheduled(n)
  <2> DEFINE row == ScheduleOf(n, tick[p])
             v == Current(n)
  <2>1. v \in Versions /\ Trigger[n][v] # Manual
    <3>1. published[n] \subseteq Versions /\ published[n] # {}
      BY <1>3, <1>8 DEF Scheduled, ScheduleInv, TypeOK
    <3> QED
      BY <1>8, <3>1, MaxIsElement DEF Current, Scheduled
  <2>2. row = [version |-> v, cron |-> Trigger[n][v],
               due |-> NextAfter(Trigger[n][v], tick[p])]
    BY DEF ScheduleOf, Row
  <2> HIDE DEF v, row
  <2>3. Trigger[n][v] \in Crons
    BY <1>3, <2>1 DEF Crons
  <2>4. NextAfter(Trigger[n][v], tick[p]) \in UNION {Occurrences(c) : c \in Crons}
    BY <1>3, <2>3, CronsHaveNext
  <2>5. row \in RowsOf(n)
    BY <2>1, <2>2, <2>3, <2>4 DEF RowsOf
  <2>6. found' = [found EXCEPT ![p] = [name |-> n, row |-> row]] /\ pc' = [pc EXCEPT ![p] = "upserting"]
    BY <1>2, <1>8 DEF Goto, row
  <2>7. /\ found'[p] = [name |-> n, row |-> row] /\ pc'[p] = "upserting" /\ DOMAIN found' = Pollers
        /\ \A q \in Pollers \ {p} : found'[q] = found[q] /\ pc'[q] = pc[q]
    BY <2>6 DEF ScheduleInv, TypeOK
  <2>8. TypeOK'
    <3>1. pc' \in [Pollers -> {"idle", "listing", "reading", "upserting", "firing", "claimed"}]
      BY <2>6 DEF ScheduleInv, TypeOK
    <3>2. \A q \in Pollers : found'[q] = NoFind \/ found'[q].row \in RowsOf(found'[q].name)
      BY <2>5, <2>7 DEF ScheduleInv, TypeOK
    <3> QED
      BY <1>1, <1>7, <2>7, <3>1, <3>2 DEF ScheduleInv, TypeOK, registryVars
  <2>9. \A q \in Pollers \ {p} : Stays(q)
    BY <1>1, <1>6, <2>7 DEF Stays
  <2>10. PollerOK(p)'
    <3>1. FoundOK(p)'
      BY <1>1, <1>3, <2>2, <2>5, <2>7 DEF FoundOK
    <3>2. \A m \in Names : Pending(p, m)' => m \in names[p]
      BY <1>2, <1>3, <2>7 DEF Pending
    <3>3. SyncOK(p)'
      BY <1>1, <1>4, <3>2 DEF PollerOK, SyncOK
    <3> QED
      BY <1>1, <1>4, <3>1, <3>3 DEF PollerOK
  <2> QED
    BY <1>1, <1>5, <2>8, <2>9, <2>10, PollerSteps
<1>9. CASE ~Scheduled(n)
  <2>1. UNCHANGED <<found, pc>>
    BY <1>2, <1>9
  <2>2. TypeOK'
    BY <1>1, <1>7, <2>1 DEF ScheduleInv, TypeOK, registryVars
  <2>3. \A q \in Pollers \ {p} : Stays(q)
    BY <1>1, <1>6, <2>1 DEF Stays
  <2>4. PollerOK(p)'
    <3>1. \A m \in Names : Pending(p, m)' => m \in names[p]
      BY <1>1, <1>3, <2>1 DEF Pending
    <3>2. SyncOK(p)' /\ FoundOK(p)'
      BY <1>1, <1>4, <2>1, <3>1 DEF PollerOK, SyncOK, FoundOK
    <3> QED
      BY <1>1, <1>4, <3>2 DEF PollerOK
  <2> QED
    BY <1>1, <1>5, <2>2, <2>3, <2>4, PollerSteps
<1> QED
  BY <1>8, <1>9

LEMMA SyncFailsKeeps ==
  ASSUME ScheduleInv, NEW p \in Pollers, SyncFails(p) PROVE ScheduleInv'
<1>1. /\ Syncing(p) /\ pc' = [pc EXCEPT ![p] = "firing"]
      /\ UNCHANGED <<schedules, lockedBy, now, tick, jobs, repeated>>
  BY DEF SyncFails, Goto, Syncing
<1>2. TypeOK'
  <2>1. failures' \in 0..MaxFailures
    BY Bounds DEF ScheduleInv, TypeOK, SyncFails
  <2>4. lastSync' \in [Runners -> 0..Horizon] /\ names' \in [Pollers -> SUBSET Names]
    BY Bounds DEF ScheduleInv, TypeOK, SyncFails
  <2>2. DOMAIN found' = Pollers /\ pc' \in [Pollers -> {"idle", "listing", "reading", "upserting", "firing", "claimed"}]
    BY DEF ScheduleInv, TypeOK, SyncFails, Goto
  <2>3. \A q \in Pollers : found'[q] = NoFind \/ found'[q].row \in RowsOf(found'[q].name)
    BY DEF ScheduleInv, TypeOK, SyncFails
  <2> QED
    BY <2>1, <2>2, <2>3, <2>4 DEF ScheduleInv, TypeOK, SyncFails, registryVars
<1>3. \A q \in Pollers \ {p} : Stays(q)
  BY DEF ScheduleInv, TypeOK, SyncFails, Goto, Stays
<1>4. pc'[p] = "firing"
  BY <1>1 DEF ScheduleInv, TypeOK
<1>5. PollerOK(p)'
  BY <1>1, <1>4 DEF ScheduleInv, PollerOK, SyncOK, FoundOK, Syncing
<1>6. \A q \in Pollers \ {p} : ~Syncing(q)
  BY <1>1 DEF ScheduleInv, OneSync
<1> QED
  BY <1>1, <1>2, <1>3, <1>5, <1>6, PollerSteps

LEMMA ClaimDueKeeps ==
  ASSUME ScheduleInv, NEW p \in Pollers, ClaimDue(p) PROVE ScheduleInv'
<1>1. /\ pc[p] = "firing" /\ fired[p] < MaxPerTick /\ pc' = [pc EXCEPT ![p] = "claimed"]
      /\ UNCHANGED <<registryVars, schedules, now, lastSync, tick, names, keep, fired, jobs,
                     repeated, failures>>
  BY DEF ClaimDue, Goto
<1>2. PICK n \in Claimable(tick[p]) :
        /\ lockedBy' = [lockedBy EXCEPT ![n] = p]
        /\ found' = [found EXCEPT ![p] = [name |-> n, row |-> schedules[n]]]
  BY DEF ClaimDue
<1>3. n \in Names /\ IsDue(n, tick[p]) /\ lockedBy[n] = NoRow
  BY DEF Claimable, Earliest, Unlocked
<1>4. schedules[n] # NoRow /\ schedules[n].due <= tick[p] /\ schedules[n] \in RowsOf(n)
  BY <1>3 DEF IsDue, ScheduleInv, TypeOK
<1>5. /\ found'[p] = [name |-> n, row |-> schedules[n]] /\ pc'[p] = "claimed"
      /\ lockedBy'[n] = p /\ \A m \in Names \ {n} : lockedBy'[m] = lockedBy[m]
  BY <1>1, <1>2, <1>3 DEF ScheduleInv, TypeOK
<1>6. TypeOK'
  <2>1. /\ lockedBy' \in [Names -> Pollers \union {NoRow}] /\ DOMAIN found' = Pollers
        /\ pc' \in [Pollers -> {"idle", "listing", "reading", "upserting", "firing", "claimed"}]
    BY <1>1, <1>2 DEF ScheduleInv, TypeOK
  <2>2. \A q \in Pollers : found'[q] = NoFind \/ found'[q].row \in RowsOf(found'[q].name)
    BY <1>2, <1>4, <1>5 DEF ScheduleInv, TypeOK
  <2> QED
    BY <1>1, <2>1, <2>2 DEF ScheduleInv, TypeOK, registryVars
<1>7. \A q \in Pollers \ {p} : Stays(q)
  BY <1>1, <1>2 DEF ScheduleInv, TypeOK, Stays
<1>8. PollerOK(p)' /\ ~Syncing(p)'
  <2>1. FoundOK(p)'
    BY <1>1, <1>3, <1>4, <1>5 DEF FoundOK
  <2> QED
    BY <1>1, <1>5, <2>1 DEF ScheduleInv, PollerOK, SyncOK, Syncing
<1>9. \A q \in Pollers, m \in Names : lockedBy[m] = q => lockedBy'[m] = q
  BY <1>3, <1>5, ScheduleAssumption
<1> QED
  BY <1>1, <1>6, <1>7, <1>8, <1>9, PollerSteps

LEMMA EndTickKeeps ==
  ASSUME ScheduleInv, NEW p \in Pollers, EndTick(p) PROVE ScheduleInv'
<1>1. TypeOK'
  BY DEF ScheduleInv, TypeOK, EndTick, Goto, registryVars
<1>2. pc'[p] = "idle" /\ UNCHANGED <<schedules, lockedBy, now, lastSync, tick, jobs, repeated>>
  BY DEF ScheduleInv, TypeOK, EndTick, Goto
<1>3. \A q \in Pollers \ {p} : Stays(q)
  BY DEF ScheduleInv, TypeOK, EndTick, Goto, Stays
<1>4. PollerOK(p)' /\ ~Syncing(p)'
  BY <1>2 DEF ScheduleInv, PollerOK, SyncOK, FoundOK, Syncing
<1> QED
  BY <1>1, <1>2, <1>3, <1>4, PollerSteps

LEMMA FireFailsKeeps ==
  ASSUME ScheduleInv, NEW p \in Pollers, FireFails(p) PROVE ScheduleInv'
<1>1. /\ pc[p] = "claimed" /\ lockedBy' = [lockedBy EXCEPT ![found[p].name] = NoRow]
      /\ UNCHANGED <<schedules, now, lastSync, tick, jobs, repeated>>
  BY DEF FireFails
<1>2. TypeOK'
  <2>1. failures' \in 0..MaxFailures
    BY Bounds DEF ScheduleInv, TypeOK, FireFails
  <2>4. lockedBy' \in [Names -> Pollers \union {NoRow}]
    BY DEF ScheduleInv, TypeOK, FireFails
  <2>2. DOMAIN found' = Pollers /\ pc' \in [Pollers -> {"idle", "listing", "reading", "upserting", "firing", "claimed"}]
    BY DEF ScheduleInv, TypeOK, FireFails, Goto
  <2>3. \A q \in Pollers : found'[q] = NoFind \/ found'[q].row \in RowsOf(found'[q].name)
    BY DEF ScheduleInv, TypeOK, FireFails
  <2> QED
    BY <2>1, <2>2, <2>3, <2>4 DEF ScheduleInv, TypeOK, FireFails, registryVars
<1>3. \A q \in Pollers \ {p} : Stays(q)
  BY DEF ScheduleInv, TypeOK, FireFails, Goto, Stays
<1>4. pc'[p] = "idle"
  BY DEF ScheduleInv, TypeOK, FireFails, Goto
<1>5. PollerOK(p)' /\ ~Syncing(p)'
  BY <1>1, <1>4 DEF ScheduleInv, PollerOK, SyncOK, FoundOK, Syncing
<1>6. lockedBy[found[p].name] = p
  BY <1>1 DEF ScheduleInv, PollerOK, FoundOK
<1>7. \A q \in Pollers \ {p}, n \in Names : lockedBy[n] = q => lockedBy'[n] = q
  BY <1>1, <1>6 DEF ScheduleInv, TypeOK
<1> QED
  BY <1>1, <1>2, <1>3, <1>5, <1>7, PollerSteps

-----------------------------------------------------------------------------
(* The steps that write rows or enqueue.                                   *)
LEMMA UpsertKeeps ==
  ASSUME ScheduleInv, NEW p \in Pollers, UpsertSchedule(p) PROVE ScheduleInv'
<1> DEFINE n == found[p].name
           row == found[p].row
           new == Upserted(n, row)
<1>1. /\ pc[p] = "upserting" /\ lockedBy[n] = NoRow
      /\ schedules' = [schedules EXCEPT ![n] = new]
      /\ keep' = [keep EXCEPT ![p] = @ \union {n}]
      /\ found' = [found EXCEPT ![p] = NoFind] /\ pc' = [pc EXCEPT ![p] = "reading"]
      /\ UNCHANGED <<registryVars, lockedBy, now, lastSync, tick, names, fired, jobs, repeated,
                     failures>>
  BY DEF UpsertSchedule, Goto, Unlocked
<1>2. /\ n \in Names \ names[p] /\ row \in RowsOf(n) /\ row.cron = Trigger[n][row.version]
      /\ row.due = NextAfter(row.cron, tick[p])
  BY <1>1 DEF ScheduleInv, PollerOK, FoundOK
<1>3. Syncing(p) /\ Pending(p, n) /\ tick[p] \in 0..Horizon
  BY <1>1 DEF Syncing, Pending, ScheduleInv, TypeOK
<1>4. row.cron \in Crons /\ row.due \in Nat /\ row.due > tick[p] /\ row.due \in Occurrences(row.cron)
  BY <1>2, <1>3, RowFacts, CronsHaveNext
<1>5. /\ new \in RowsOf(n) /\ new.cron = row.cron /\ new.version = row.version
      /\ IF schedules[n] # NoRow /\ schedules[n].cron = row.cron
           THEN new.due = schedules[n].due ELSE new.due = row.due
  <2>1. CASE schedules[n] # NoRow /\ schedules[n].cron = row.cron
    <3>1. schedules[n] \in RowsOf(n)
      BY <1>2, <2>1 DEF ScheduleInv, TypeOK
    <3>2. schedules[n].due \in UNION {Occurrences(c) : c \in Crons}
      BY <3>1 DEF RowsOf
    <3>3. new = [row EXCEPT !.due = schedules[n].due]
      BY <2>1 DEF Upserted
    <3> HIDE DEF row, n, new
    <3> QED
      BY <1>2, <2>1, <3>2, <3>3 DEF RowsOf
  <2>2. CASE ~(schedules[n] # NoRow /\ schedules[n].cron = row.cron)
    BY <1>2, <2>2 DEF Upserted
  <2> QED
    BY <2>1, <2>2
<1>6. \A j \in jobs : j.name = n /\ j.cron = row.cron => j.at < new.due
  <2> SUFFICES ASSUME NEW j \in jobs, j.name = n, j.cron = row.cron PROVE j.at < new.due
    OBVIOUS
  <2>1. CASE schedules[n] # NoRow /\ schedules[n].cron = row.cron
    BY <1>2, <1>5, <2>1 DEF ScheduleInv, Unanswered
  <2>2. CASE ~(schedules[n] # NoRow /\ schedules[n].cron = row.cron)
    <3>1. ~(j.at > tick[p])
      BY <1>2, <1>3, <2>2 DEF ScheduleInv, PollerOK, SyncOK
    <3>2. j.at \in Nat
      BY DEF ScheduleInv, JobsOK
    <3> QED
      BY <1>3, <1>4, <1>5, <2>2, <3>1, <3>2
  <2> QED
    BY <2>1, <2>2
<1>7. new.due \in Occurrences(new.cron)
  BY <1>2, <1>4, <1>5 DEF ScheduleInv, DueIsOccurrence
<1> HIDE DEF new, row
<1>8. /\ schedules'[n] = new /\ DOMAIN schedules' = Names
      /\ \A m \in Names \ {n} : schedules'[m] = schedules[m]
  BY <1>1, <1>2 DEF ScheduleInv, TypeOK
<1> HIDE DEF n
<1>9. TypeOK'
  <2>1. \A m \in Names : schedules'[m] \in RowsOf(m) \union {NoRow}
    BY <1>5, <1>8 DEF ScheduleInv, TypeOK
  <2>2. keep' \in [Pollers -> SUBSET Names] /\ DOMAIN found' = Pollers
    BY <1>1, <1>2 DEF ScheduleInv, TypeOK
  <2>3. pc' \in [Pollers -> {"idle", "listing", "reading", "upserting", "firing", "claimed"}]
    BY <1>1 DEF ScheduleInv, TypeOK
  <2>4. \A q \in Pollers : found'[q] = NoFind \/ found'[q].row \in RowsOf(found'[q].name)
    BY <1>1 DEF ScheduleInv, TypeOK
  <2> QED
    BY <1>1, <1>8, <2>1, <2>2, <2>3, <2>4 DEF ScheduleInv, TypeOK, registryVars
<1>10. DueIsOccurrence'
  BY <1>2, <1>5, <1>7, <1>8 DEF ScheduleInv, DueIsOccurrence
<1>11. JobsOK' /\ OneRunPerOccurrence'
  BY <1>1 DEF ScheduleInv, JobsOK, OneRunPerOccurrence
<1>12. Unanswered'
  BY <1>1, <1>5, <1>6, <1>8 DEF ScheduleInv, Unanswered
<1>13. pc'[p] = "reading" /\ \A q \in Pollers \ {p} : pc'[q] = pc[q] /\ found'[q] = found[q]
  BY <1>1 DEF ScheduleInv, TypeOK
<1>14. \A q \in Pollers \ {p} : ~Syncing(q)
  BY <1>3 DEF ScheduleInv, OneSync
<1>15. OneSync'
  BY <1>13, <1>14 DEF OneSync, Syncing
<1>16. PollerOK(p)'
  <2>1. \A m \in Names : Pending(p, m)' => m # n /\ Pending(p, m)
    BY <1>1, <1>2, <1>13 DEF Pending
  <2>2. SyncOK(p)'
    BY <1>1, <1>3, <1>8, <2>1 DEF ScheduleInv, PollerOK, SyncOK
  <2> QED
    BY <1>1, <1>13, <2>2 DEF ScheduleInv, PollerOK, FoundOK
<1>17. ASSUME NEW q \in Pollers \ {p} PROVE PollerOK(q)'
  <2>1. ~Syncing(q)' /\ pc'[q] # "upserting"
    BY <1>13, <1>14 DEF Syncing
  <2>2. pc[q] = "claimed" => found[q].name # n
    BY <1>1, ScheduleAssumption DEF ScheduleInv, PollerOK, FoundOK, n
  <2>3. FoundOK(q)'
    BY <1>1, <1>8, <1>13, <2>1, <2>2 DEF ScheduleInv, PollerOK, FoundOK
  <2> QED
    BY <1>1, <2>1, <2>3 DEF ScheduleInv, PollerOK, SyncOK
<1> QED
  BY <1>1, <1>9, <1>10, <1>11, <1>12, <1>15, <1>16, <1>17 DEF ScheduleInv

LEMMA PruneKeeps ==
  ASSUME ScheduleInv, NEW p \in Pollers, Prune(p) PROVE ScheduleInv'
<1>1. /\ pc[p] = "reading" /\ pc' = [pc EXCEPT ![p] = "firing"]
      /\ \A n \in Names \ keep[p] : lockedBy[n] = NoRow
      /\ schedules' = [n \in Names |-> IF n \in keep[p] THEN schedules[n] ELSE NoRow]
      /\ UNCHANGED <<registryVars, lockedBy, now, lastSync, tick, names, found, keep, fired, jobs,
                     repeated, failures>>
  BY DEF Prune, Goto, Pruned, Unlocked
<1>2. \A n \in Names : schedules'[n] = schedules[n] \/ schedules'[n] = NoRow
  BY <1>1
<1>3. \A n \in Names : lockedBy[n] # NoRow => schedules'[n] = schedules[n]
  BY <1>1
<1>4. TypeOK'
  <2>1. pc' \in [Pollers -> {"idle", "listing", "reading", "upserting", "firing", "claimed"}]
    BY <1>1 DEF ScheduleInv, TypeOK
  <2>2. DOMAIN schedules' = Names
    BY <1>1
  <2> QED
    BY <1>1, <1>2, <2>1, <2>2 DEF ScheduleInv, TypeOK, registryVars
<1>5. DueIsOccurrence' /\ Unanswered'
  BY <1>1, <1>2 DEF ScheduleInv, DueIsOccurrence, Unanswered
<1>6. JobsOK' /\ OneRunPerOccurrence'
  BY <1>1 DEF ScheduleInv, JobsOK, OneRunPerOccurrence
<1>7. pc'[p] = "firing" /\ \A q \in Pollers \ {p} : pc'[q] = pc[q]
  BY <1>1 DEF ScheduleInv, TypeOK
<1>8. \A q \in Pollers : ~Syncing(q)'
  BY <1>1, <1>7 DEF ScheduleInv, OneSync, Syncing
<1>9. ASSUME NEW q \in Pollers PROVE PollerOK(q)'
  <2>1. pc'[q] = "claimed" => pc[q] = "claimed"
    BY <1>7
  <2>2. pc[q] = "claimed" => schedules'[found[q].name] = schedules[found[q].name]
    BY <1>3, ScheduleAssumption DEF ScheduleInv, PollerOK, FoundOK
  <2>3. FoundOK(q)'
    BY <1>1, <1>8, <2>1, <2>2 DEF ScheduleInv, PollerOK, FoundOK, Syncing
  <2> QED
    BY <1>1, <1>8, <2>3 DEF ScheduleInv, PollerOK, SyncOK
<1> QED
  BY <1>1, <1>4, <1>5, <1>6, <1>8, <1>9 DEF ScheduleInv, OneSync

LEMMA FireKeeps ==
  ASSUME ScheduleInv, NEW p \in Pollers, Fire(p) PROVE ScheduleInv'
<1> DEFINE n == found[p].name
           row == found[p].row
           job == [name |-> n, cron |-> row.cron, due |-> row.due, at |-> tick[p]]
           new == Advanced(row, tick[p])
<1>1. /\ pc[p] = "claimed" /\ jobs' = jobs \union {job}
      /\ repeated' = (repeated \/ job \in jobs)
      /\ schedules' = [schedules EXCEPT ![n] = new]
      /\ lockedBy' = [lockedBy EXCEPT ![n] = NoRow]
      /\ found' = [found EXCEPT ![p] = NoFind] /\ pc' = [pc EXCEPT ![p] = "firing"]
      /\ fired' = [fired EXCEPT ![p] = @ + 1]
      /\ UNCHANGED <<registryVars, now, lastSync, tick, names, keep, failures>>
  BY DEF Fire, Goto
<1>2. /\ n \in Names /\ lockedBy[n] = p /\ schedules[n] # NoRow /\ row = schedules[n]
      /\ row.due <= tick[p]
  BY <1>1 DEF ScheduleInv, PollerOK, FoundOK
<1>3. /\ tick[p] \in 0..Horizon /\ tick[p] <= now /\ fired[p] < MaxPerTick
  BY <1>1 DEF ScheduleInv, TypeOK, PollerOK, FoundOK
<1>4. row \in RowsOf(n) /\ row.due \in Nat /\ row.cron \in Crons
  BY <1>2, RowFacts DEF ScheduleInv, TypeOK
<1>5. /\ new \in RowsOf(n) /\ new.cron = row.cron /\ new.version = row.version
      /\ new.due = NextAfter(row.cron, tick[p])
      /\ new.due \in Nat /\ new.due > tick[p] /\ new.due \in Occurrences(new.cron)
  BY <1>2, <1>3, <1>4, AdvancedRow, CronsHaveNext
<1>6. /\ job.name = n /\ job.cron = row.cron /\ job.due = row.due /\ job.at = tick[p]
  OBVIOUS
<1>7. row.cron = Trigger[n][row.version]
  BY <1>2 DEF ScheduleInv, DueIsOccurrence
<1> HIDE DEF new, job, row
<1>8. /\ schedules'[n] = new /\ DOMAIN schedules' = Names
      /\ \A m \in Names \ {n} : schedules'[m] = schedules[m]
      /\ lockedBy' \in [Names -> Pollers \union {NoRow}]
      /\ \A m \in Names \ {n} : lockedBy'[m] = lockedBy[m]
  BY <1>1, <1>2 DEF ScheduleInv, TypeOK
<1>9. /\ pc'[p] = "firing"
      /\ \A q \in Pollers \ {p} : pc'[q] = pc[q] /\ found'[q] = found[q] /\ fired'[q] = fired[q]
  BY <1>1 DEF ScheduleInv, TypeOK
<1> HIDE DEF n
<1>10. TypeOK'
  <2>1. \A m \in Names : schedules'[m] \in RowsOf(m) \union {NoRow}
    BY <1>5, <1>8 DEF ScheduleInv, TypeOK
  <2>2. fired' \in [Pollers -> 0..MaxPerTick]
    <3>1. fired[p] + 1 \in 0..MaxPerTick
      BY <1>3, Bounds DEF ScheduleInv, TypeOK
    <3> QED
      BY <1>1, <3>1 DEF ScheduleInv, TypeOK
  <2>3. pc' \in [Pollers -> {"idle", "listing", "reading", "upserting", "firing", "claimed"}]
    BY <1>1 DEF ScheduleInv, TypeOK
  <2>4. /\ DOMAIN found' = Pollers
        /\ \A q \in Pollers : found'[q] = NoFind \/ found'[q].row \in RowsOf(found'[q].name)
    BY <1>1 DEF ScheduleInv, TypeOK
  <2> QED
    BY <1>1, <1>8, <2>1, <2>2, <2>3, <2>4 DEF ScheduleInv, TypeOK, registryVars
<1>11. DueIsOccurrence'
  BY <1>5, <1>7, <1>8 DEF ScheduleInv, DueIsOccurrence
<1>12. JobsOK'
  <2>1. now \in Nat
    BY DEF ScheduleInv, TypeOK
  <2> QED
    BY <1>1, <1>2, <1>3, <1>4, <1>6, <2>1 DEF ScheduleInv, JobsOK
<1>13. \A j \in jobs : j.name = n /\ j.cron = row.cron => j.at < row.due
  BY <1>2 DEF ScheduleInv, Unanswered
<1>14. Unanswered'
  <2> SUFFICES ASSUME NEW m \in Names, schedules'[m] # NoRow,
                      NEW j \in jobs', j.name = m, j.cron = schedules'[m].cron
               PROVE  j.at < schedules'[m].due
    BY DEF Unanswered
  <2>1. CASE m # n
    BY <1>1, <1>6, <1>8, <2>1 DEF ScheduleInv, Unanswered
  <2>2. CASE m = n /\ j = job
    BY <1>3, <1>5, <1>6, <1>8, <2>2
  <2>3. CASE m = n /\ j \in jobs
    <3>1. j.at \in Nat /\ j.at < row.due
      BY <1>5, <1>8, <1>13, <2>3 DEF ScheduleInv, JobsOK
    <3> QED
      BY <1>2, <1>3, <1>4, <1>5, <1>8, <2>3, <3>1
  <2> QED
    BY <1>1, <2>1, <2>2, <2>3
<1>15. OneRunPerOccurrence'
  <2>1. job \notin jobs
    BY <1>2, <1>3, <1>4, <1>6, <1>13
  <2>2. ASSUME NEW a \in jobs', NEW b \in jobs', a # b, a.name = b.name, a.cron = b.cron
        PROVE  a.at < b.due \/ b.at < a.due
    <3>1. CASE a \in jobs /\ b \in jobs
      BY <2>2, <3>1 DEF ScheduleInv, OneRunPerOccurrence
    <3>2. CASE a = job /\ b \in jobs
      BY <1>6, <1>13, <2>2, <3>2
    <3>3. CASE b = job /\ a \in jobs
      BY <1>6, <1>13, <2>2, <3>3
    <3> QED
      BY <1>1, <2>2, <3>1, <3>2, <3>3
  <2>3. ~repeated'
    BY <1>1, <2>1 DEF ScheduleInv, OneRunPerOccurrence
  <2> QED
    BY <2>2, <2>3 DEF OneRunPerOccurrence
<1>16. OneSync'
  BY <1>1, <1>9 DEF ScheduleInv, OneSync, Syncing
<1>17. PollerOK(p)'
  BY <1>1, <1>9 DEF ScheduleInv, PollerOK, SyncOK, FoundOK, Syncing
<1>18. ASSUME NEW q \in Pollers \ {p} PROVE PollerOK(q)'
  <2>1. PollerOK(q) /\ tick'[q] = tick[q] /\ names'[q] = names[q] /\ lastSync' = lastSync
    BY <1>1 DEF ScheduleInv
  <2>2. pc[q] = "claimed" => found[q].name # n
    BY <1>2, <2>1 DEF PollerOK, FoundOK
  <2>3. FoundOK(q)'
    BY <1>1, <1>8, <1>9, <2>1, <2>2 DEF PollerOK, FoundOK
  <2>4. Syncing(q)' = Syncing(q) /\ \A m \in Names : Pending(q, m)' = Pending(q, m)
    BY <1>9, <2>1 DEF Syncing, Pending
  <2>5. ASSUME Syncing(q), NEW m \in Names, Pending(q, m), NEW j \in jobs', j.name = m,
               j.at > tick[q]
        PROVE  schedules'[m] # NoRow /\ schedules'[m].cron = j.cron
    <3>1. CASE m # n
      BY <1>1, <1>6, <1>8, <2>1, <2>5, <3>1 DEF PollerOK, SyncOK
    <3>2. CASE m = n
      <4>1. new # NoRow
        BY <1>2, <1>5, NoRowAssumption
      <4> QED
        BY <1>1, <1>2, <1>5, <1>6, <1>8, <2>1, <2>5, <3>2, <4>1 DEF PollerOK, SyncOK
    <3> QED
      BY <3>1, <3>2
  <2>6. SyncOK(q)'
    BY <1>1, <2>1, <2>4, <2>5 DEF PollerOK, SyncOK
  <2> QED
    BY <1>1, <2>1, <2>3, <2>6 DEF PollerOK
<1> QED
  BY <1>1, <1>10, <1>11, <1>12, <1>14, <1>15, <1>16, <1>17, <1>18 DEF ScheduleInv

-----------------------------------------------------------------------------
(* The steps of the registry, the clock and the process.                   *)
LEMMA RegistryKeeps ==
  ASSUME ScheduleInv, published' \in [Names -> SUBSET Versions],
         retired' \in [Names -> SUBSET Versions],
         UNCHANGED <<schedules, lockedBy, now, lastSync, pollerVars, jobs, repeated, failures>>
  PROVE  ScheduleInv'
<1>1. TypeOK'
  BY DEF ScheduleInv, TypeOK, pollerVars
<1>2. \A q \in Pollers : PollerOK(q)'
  BY StayingPoller DEF ScheduleInv, Stays, pollerVars
<1>3. OneSync'
  BY DEF ScheduleInv, OneSync, Syncing, pollerVars
<1> QED
  BY <1>1, <1>2, <1>3 DEF ScheduleInv, DueIsOccurrence, JobsOK, Unanswered, OneRunPerOccurrence

LEMMA RestartKeeps ==
  ASSUME OneRunner, ScheduleInv, NEW r \in Runners, Restart(r) PROVE ScheduleInv'
<1>1. /\ UNCHANGED <<registryVars, schedules, now, tick, keep, fired, jobs, repeated>>
      /\ lastSync' = [lastSync EXCEPT ![r] = 0]
      /\ lockedBy' = [n \in Names |-> IF lockedBy[n] \in PollersOf(r) THEN NoRow ELSE lockedBy[n]]
      /\ pc' = [p \in Pollers |-> IF p \in PollersOf(r) THEN "idle" ELSE pc[p]]
      /\ names' = [p \in Pollers |-> IF p \in PollersOf(r) THEN {} ELSE names[p]]
      /\ found' = [p \in Pollers |-> IF p \in PollersOf(r) THEN NoFind ELSE found[p]]
  BY DEF Restart
<1>2. TypeOK'
  <2>1. failures' \in 0..MaxFailures
    BY Bounds DEF ScheduleInv, TypeOK, Restart
  <2>2. /\ lastSync' \in [Runners -> 0..Horizon] /\ names' \in [Pollers -> SUBSET Names]
        /\ lockedBy' \in [Names -> Pollers \union {NoRow}] /\ DOMAIN found' = Pollers
    BY <1>1, Bounds DEF ScheduleInv, TypeOK
  <2>3. pc' \in [Pollers -> {"idle", "listing", "reading", "upserting", "firing", "claimed"}]
    BY <1>1 DEF ScheduleInv, TypeOK
  <2>4. \A q \in Pollers : found'[q] = NoFind \/ found'[q].row \in RowsOf(found'[q].name)
    BY <1>1 DEF ScheduleInv, TypeOK
  <2> QED
    BY <1>1, <2>1, <2>2, <2>3, <2>4 DEF ScheduleInv, TypeOK, registryVars
<1>3. ASSUME NEW q \in Pollers PROVE PollerOK(q)'
  <2>1. CASE q \in PollersOf(r)
    BY <1>1, <2>1 DEF ScheduleInv, PollerOK, SyncOK, FoundOK, Syncing
  <2>2. CASE q \notin PollersOf(r)
    <3>1. Stays(q) /\ \A n \in Names : lockedBy[n] = q => lockedBy'[n] = q
      BY <1>1, <2>2 DEF Stays
    <3>2. lastSync'[RunnerOf[q]] = lastSync[RunnerOf[q]]
      BY <1>1, <2>2, Bounds DEF ScheduleInv, TypeOK, PollersOf
    <3> QED
      BY <1>1, <3>1, <3>2, StayingPoller DEF ScheduleInv
  <2> QED
    BY <2>1, <2>2
<1>4. OneSync'
  BY <1>1 DEF ScheduleInv, OneSync, Syncing
<1> QED
  BY <1>1, <1>2, <1>3, <1>4
  DEF ScheduleInv, DueIsOccurrence, JobsOK, Unanswered, OneRunPerOccurrence

LEMMA PassTimeKeeps == ASSUME OneRunner, ScheduleInv, PassTime PROVE ScheduleInv'
<1>1. /\ now < Horizon /\ now' = now + 1 /\ now \in Nat
      /\ \A p \in Pollers : Syncing(p) => now + 1 - tick[p] < SyncInterval
      /\ UNCHANGED <<registryVars, schedules, lockedBy, lastSync, pollerVars, jobs, repeated,
                     failures>>
  BY DEF OneRunner, PassTime, ScheduleInv, TypeOK
<1>2. now' \in 0..Horizon /\ now' # 0 /\ now <= now'
  BY <1>1, Bounds
<1>3. TypeOK'
  BY <1>1, <1>2 DEF ScheduleInv, TypeOK, registryVars, pollerVars
<1>4. ASSUME NEW q \in Pollers PROVE PollerOK(q)'
  <2>1. PollerOK(q) /\ tick[q] \in Nat /\ tick'[q] = tick[q]
    BY <1>1 DEF ScheduleInv, TypeOK, pollerVars
  <2>2. tick'[q] <= now'
    BY <1>1, <2>1 DEF PollerOK
  <2>3. FoundOK(q)'
    BY <1>1, <2>1 DEF PollerOK, FoundOK, pollerVars
  <2>4. Syncing(q)' = Syncing(q) /\ \A m \in Names : Pending(q, m)' = Pending(q, m)
    BY <1>1 DEF Syncing, Pending, pollerVars
  <2>5. Syncing(q) => now' - tick[q] < SyncInterval
    BY <1>1, <2>1
  <2>6. SyncOK(q)'
    BY <1>1, <2>1, <2>4, <2>5 DEF PollerOK, SyncOK
  <2> QED
    BY <2>2, <2>3, <2>6 DEF PollerOK
<1>5. OneSync'
  BY <1>1 DEF ScheduleInv, OneSync, Syncing, pollerVars
<1>6. JobsOK'
  BY <1>1 DEF ScheduleInv, JobsOK
<1> QED
  BY <1>1, <1>2, <1>3, <1>4, <1>5, <1>6
  DEF ScheduleInv, DueIsOccurrence, Unanswered, OneRunPerOccurrence

-----------------------------------------------------------------------------
LEMMA NextKeepsSchedules == ASSUME OneRunner, ScheduleInv, [Next]_vars PROVE ScheduleInv'
<1>1. ASSUME NEW n \in Names, NEW v \in Versions, Publish(n, v) \/ Rollback(n, v)
      PROVE  ScheduleInv'
  <2>1. /\ published' \in [Names -> SUBSET Versions] /\ retired' \in [Names -> SUBSET Versions]
        /\ UNCHANGED <<schedules, lockedBy, now, lastSync, pollerVars, jobs, repeated, failures>>
    BY <1>1 DEF ScheduleInv, TypeOK, Publish, Rollback
  <2> QED
    BY <2>1, RegistryKeeps
<1>2. ASSUME NEW p \in Pollers, TickTenant(p) PROVE ScheduleInv'
  BY <1>2, StartKeeps, ListKeeps, ReadPublishedKeeps, UpsertKeeps, PruneKeeps, ClaimDueKeeps,
     FireKeeps, EndTickKeeps DEF TickTenant, Sync, FireDue
<1>3. ASSUME NEW p \in Pollers, SyncFails(p) \/ FireFails(p) PROVE ScheduleInv'
  BY <1>3, SyncFailsKeeps, FireFailsKeeps
<1>4. CASE UNCHANGED vars
  BY <1>4, RegistryKeeps DEF vars, registryVars, ScheduleInv, TypeOK
<1> QED
  BY <1>1, <1>2, <1>3, <1>4, RestartKeeps, PassTimeKeeps DEF Next

(* The invariant of the rows, the jobs and the pollers' positions.         *)
THEOREM ScheduleInvariant == ASSUME OneRunner PROVE Spec => []ScheduleInv
<1>1. Init => ScheduleInv
  BY InitSchedules
<1>2. ScheduleInv /\ [Next]_vars => ScheduleInv'
  BY NextKeepsSchedules
<1> QED
  BY <1>1, <1>2, PTL DEF Spec

(* However Syncs, fires, failures, restarts and changes of the registry    *)
(* come in between, a row is due at an occurrence of its expression and no *)
(* occurrence is answered by two jobs (Sync, Upsert, FireDue), if one      *)
(* Runner polls and its Syncs do not overrun.                              *)
THEOREM OccurrencesAreKept == ASSUME OneRunner PROVE Spec => []OccurrencesKept
<1>1. ScheduleInv => OccurrencesKept
  BY DEF ScheduleInv, OccurrencesKept
<1> QED
  BY <1>1, ScheduleInvariant, PTL

-----------------------------------------------------------------------------
LEMMA StepFires ==
  ASSUME ScheduleInv, [Next]_vars, NEW n \in Names, schedules[n] # NoRow, schedules'[n] # NoRow,
         schedules'[n].cron = schedules[n].cron, schedules'[n].due # schedules[n].due
  PROVE  \E job \in jobs' : job.name = n /\ job.due = schedules[n].due
<1>1. ASSUME NEW p \in Pollers, UpsertSchedule(p) PROVE FALSE
  <2> DEFINE m == found[p].name
  <2>1. schedules' = [schedules EXCEPT ![m] = Upserted(m, found[p].row)] /\ m \in Names
    BY <1>1 DEF UpsertSchedule, ScheduleInv, PollerOK, FoundOK
  <2>2. n = m
    BY <2>1 DEF ScheduleInv, TypeOK
  <2>3. schedules'[n] = Upserted(n, found[p].row)
    BY <2>1, <2>2 DEF ScheduleInv, TypeOK
  <2>4. found[p].row \in RowsOf(n)
    BY <1>1, <2>2 DEF UpsertSchedule, ScheduleInv, PollerOK, FoundOK
  <2> QED
    BY <2>3, <2>4 DEF Upserted, RowsOf
<1>2. ASSUME NEW p \in Pollers, Prune(p) PROVE FALSE
  BY <1>2 DEF Prune, Pruned
<1>3. ASSUME NEW p \in Pollers, Fire(p)
      PROVE  \E job \in jobs' : job.name = n /\ job.due = schedules[n].due
  <2> DEFINE m == found[p].name
             job == [name |-> m, cron |-> found[p].row.cron, due |-> found[p].row.due,
                     at |-> tick[p]]
  <2>1. /\ schedules' = [schedules EXCEPT ![m] = Advanced(found[p].row, tick[p])]
        /\ jobs' = jobs \union {job} /\ found[p].row = schedules[m]
    BY <1>3 DEF Fire, ScheduleInv, PollerOK, FoundOK
  <2>2. n = m
    BY <2>1 DEF ScheduleInv, TypeOK
  <2>3. job \in jobs' /\ job.name = n /\ job.due = schedules[n].due
    BY <2>1, <2>2
  <2> QED
    BY <2>3
<1>4. ASSUME NEW p \in Pollers,
             StartTick(p) \/ ListNames(p) \/ ReadPublished(p) \/ ClaimDue(p) \/ EndTick(p)
               \/ SyncFails(p) \/ FireFails(p)
      PROVE  schedules' = schedules
  BY <1>4 DEF StartTick, ListNames, ReadPublished, ClaimDue, EndTick, SyncFails, FireFails
<1>5. CASE \/ \E m \in Names, v \in Versions : Publish(m, v) \/ Rollback(m, v)
           \/ \E r \in Runners : Restart(r)
           \/ PassTime \/ UNCHANGED vars
  BY <1>5 DEF Publish, Rollback, Restart, PassTime, vars
<1> QED
  BY <1>1, <1>2, <1>3, <1>4, <1>5 DEF Next, TickTenant, Sync, FireDue

(* A row that is due ceases to be only by a job enqueued for it, unless    *)
(* its expression changes or it is pruned (Upsert, AdvanceTx).             *)
THEOREM DueRowsFired == ASSUME OneRunner PROVE Spec => DueRowsAreFired
<1>1. ScheduleInv /\ [Next]_vars =>
        [\A n \in Names :
           /\ IsDue(n, now)
           /\ schedules'[n] # NoRow
           /\ schedules'[n].cron = schedules[n].cron
           /\ schedules'[n].due # schedules[n].due
           => \E job \in jobs' : job.name = n /\ job.due = schedules[n].due]_vars
  BY StepFires DEF IsDue
<1> QED
  BY <1>1, ScheduleInvariant, PTL DEF Spec, DueRowsAreFired
=============================================================================
