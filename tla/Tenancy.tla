------------------------------ MODULE Tenancy ------------------------------
(***************************************************************************)
(* Tenant databases: the rows of the control database, the provisioning    *)
(* of a database by a command (tenantdb.Router.Create, db.ApplyTenant),    *)
(* and the connection pools of a server (Router.Get).                      *)
(*                                                                         *)
(* Create is one statement after another on two databases, none of them    *)
(* in a transaction with another.  A migration is one transaction, taken   *)
(* under an advisory lock that another connection of the pool holds; that  *)
(* connection may be lost without the migration noticing.                  *)
(***************************************************************************)
EXTENDS Integers, FiniteSets

CONSTANTS
  Makers,         \* commands that create a tenant, and the tenants they make
  Migrators,      \* those whose database cmd/migrate is run on too
  Callers,        \* goroutines of one server
  Migrations,     \* number of migrations of a tenant database
  Slugs,          \* number of slugs tried for a name
  NameOf,         \* maker -> the name given to its tenant
  MaxFaults,      \* bound on crashes and failures
  Nobody

VARIABLES
  row,            \* maker -> its row of tenants: the slug it got, or 0
  database,       \* maker -> "none" or "made"
  applied,        \* maker -> migrations committed in its database
  runs,           \* <<maker, migration>> -> times it took effect (history)
  lock,           \* maker's database -> who holds the advisory lock
  work,           \* worker -> what it does
  pool,           \* tenant -> is its pool in the server's cache
  opened,         \* tenant -> pools the server has opened and not closed
  flight,         \* tenant -> the caller whose flight opens the pool
  call,           \* caller -> [pc, tenant]
  faults

makeVars == <<row, database, applied, runs, lock, work>>
poolVars == <<pool, opened, flight, call>>
vars == <<makeVars, poolVars, faults>>

(* A worker applies migrations to a database: the maker's own, or another  *)
(* run of cmd/migrate -target=tenant on the same database.                 *)
Workers == (Makers \X {"create"}) \union (Migrators \X {"migrate"})
Db(w) == w[1]
Rest == [pc |-> "new", slug |-> 1, at |-> 1, inTx |-> FALSE]
NoCall == [pc |-> "idle", tenant |-> Nobody]

Init ==
  /\ row = [m \in Makers |-> 0]
  /\ database = [m \in Makers |-> "none"]
  /\ applied = [m \in Makers |-> {}]
  /\ runs = [x \in Makers \X (1..Migrations) |-> 0]
  /\ lock = [m \in Makers |-> Nobody]
  /\ work = [w \in Workers |-> Rest]
  /\ pool = [m \in Makers |-> FALSE]
  /\ opened = [m \in Makers |-> 0]
  /\ flight = [m \in Makers |-> Nobody]
  /\ call = [c \in Callers |-> NoCall]
  /\ faults = 0

Goto(w, pc) == work' = [work EXCEPT ![w].pc = pc]

------------------------------------------------------------------------------
(* Router.Create.                                                          *)

SlugTaken(m, s) == \E n \in Makers : NameOf[n] = NameOf[m] /\ row[n] = s

(* CreateWithDatabase: one INSERT per attempt; slug n follows slug n - 1.  *)
InsertTenant(m) ==
  LET w == <<m, "create">> IN
  /\ work[w].pc = "new"
  /\ IF ~SlugTaken(m, work[w].slug)
       THEN /\ row' = [row EXCEPT ![m] = work[w].slug]
            /\ Goto(w, "database")
       ELSE /\ work' = [work EXCEPT ![w] =
                  IF @.slug = Slugs THEN [@ EXCEPT !.pc = "failed"]
                                    ELSE [@ EXCEPT !.slug = work[w].slug + 1]]
            /\ UNCHANGED row
  /\ UNCHANGED <<database, applied, runs, lock, poolVars, faults>>

CreateDatabase(m) ==
  /\ work[<<m, "create">>].pc = "database"
  /\ database' = [database EXCEPT ![m] = "made"]
  /\ Goto(<<m, "create">>, "lock")
  /\ UNCHANGED <<row, applied, runs, lock, poolVars, faults>>

(* cmd/migrate runs on a database that exists.                             *)
StartMigrate(m) ==
  /\ m \in Migrators /\ work[<<m, "migrate">>].pc = "new" /\ database[m] = "made"
  /\ Goto(<<m, "migrate">>, "lock")
  /\ UNCHANGED <<row, database, applied, runs, lock, poolVars, faults>>

------------------------------------------------------------------------------
(* applyFS                                                                 *)

AcquireLock(w) ==
  /\ work[w].pc = "lock" /\ lock[Db(w)] = Nobody
  /\ lock' = [lock EXCEPT ![Db(w)] = w]
  /\ Goto(w, "check")
  /\ UNCHANGED <<row, database, applied, runs, poolVars, faults>>

Next_(w) == [work[w] EXCEPT !.pc = IF @ = "check" \/ @ = "commit" THEN "check" ELSE @,
                            !.at = @ + 1, !.inTx = FALSE]

CheckApplied(w) ==
  /\ work[w].pc = "check" /\ work[w].at <= Migrations
  /\ work' = [work EXCEPT ![w] =
       IF work[w].at \in applied[Db(w)] THEN Next_(w) ELSE [@ EXCEPT !.pc = "exec"]]
  /\ UNCHANGED <<row, database, applied, runs, lock, poolVars, faults>>

Released(w) == [lock EXCEPT ![Db(w)] = IF @ = w THEN Nobody ELSE @]
ApplyFails(w) ==
  /\ Goto(w, IF w[2] = "create" THEN "undo" ELSE "failed")
  /\ lock' = Released(w)

(* The statements wait for a transaction that makes the same objects, and  *)
(* fail when it has made them.                                             *)
Exec(w) ==
  LET i == work[w].at IN
  /\ work[w].pc = "exec"
  /\ ~\E v \in Workers \ {w} : Db(v) = Db(w) /\ work[v].inTx /\ work[v].at = i
  /\ IF i \in applied[Db(w)]
       THEN ApplyFails(w)
       ELSE /\ work' = [work EXCEPT ![w] = [@ EXCEPT !.pc = "commit", !.inTx = TRUE]]
            /\ UNCHANGED lock
  /\ UNCHANGED <<row, database, applied, runs, poolVars, faults>>

Recorded(w) == [applied EXCEPT ![Db(w)] = @ \union {work[w].at}]

CommitMigration(w) ==
  /\ work[w].pc = "commit"
  /\ applied' = Recorded(w)
  /\ runs' = [runs EXCEPT ![<<Db(w), work[w].at>>] = @ + 1]
  /\ work' = [work EXCEPT ![w] = Next_(w)]
  /\ UNCHANGED <<row, database, lock, poolVars, faults>>

ReleaseLock(w) ==
  /\ work[w].pc = "check" /\ work[w].at > Migrations
  /\ lock' = Released(w)
  /\ Goto(w, "done")
  /\ UNCHANGED <<row, database, applied, runs, poolVars, faults>>

(* A failed Create deletes its row; the database, if made, stays.          *)
DeleteRow(m) == [row EXCEPT ![m] = 0]

Undo(m) ==
  /\ work[<<m, "create">>].pc = "undo"
  /\ row' = DeleteRow(m)
  /\ Goto(<<m, "create">>, "failed")
  /\ UNCHANGED <<database, applied, runs, lock, poolVars, faults>>

------------------------------------------------------------------------------
(* Faults.                                                                 *)

Fault == faults < MaxFaults /\ faults' = faults + 1
Running(w) == work[w].pc \in {"database", "lock", "check", "exec", "commit"}

(* A statement fails: CREATE DATABASE, the first connection, a migration.  *)
Fail(w) ==
  /\ Running(w)
  /\ Fault
  /\ work' = [work EXCEPT ![w] = [@ EXCEPT !.inTx = FALSE,
                !.pc = IF w[2] = "create" THEN "undo" ELSE "failed"]]
  /\ lock' = Released(w)
  /\ UNCHANGED <<row, database, applied, runs, poolVars>>

(* The process dies, and with it its connections.                          *)
Crash(w) ==
  /\ Running(w) \/ work[w].pc = "undo"
  /\ Fault
  /\ work' = [work EXCEPT ![w] = [@ EXCEPT !.inTx = FALSE, !.pc = "crashed"]]
  /\ lock' = Released(w)
  /\ UNCHANGED <<row, database, applied, runs, poolVars>>

(* The connection that holds the lock is lost; the pool opens another.     *)
LoseLock(w) ==
  /\ Running(w) /\ lock[Db(w)] = w
  /\ Fault
  /\ lock' = Released(w)
  /\ UNCHANGED <<row, database, applied, runs, work, poolVars>>

------------------------------------------------------------------------------
(* Router.Get on a server, for a tenant that a session or ListIDs names.   *)

GetCall(c, m) ==
  /\ call[c].pc = "idle" /\ row[m] # 0 /\ ~pool[m]
  /\ call' = [call EXCEPT ![c] = [pc |-> "fly", tenant |-> m]]
  /\ UNCHANGED <<makeVars, pool, opened, flight, faults>>

(* Faulty variant: every caller flies for itself.                          *)
AlwaysFlies(m) == TRUE
FirstFlies(m) == flight[m] = Nobody

(* singleflight: one caller of a tenant opens its pool, the others share   *)
(* what it gets; it looks at the cache again first.                        *)
Fly(c) ==
  LET m == call[c].tenant IN
  /\ call[c].pc = "fly" /\ FirstFlies(m)
  /\ IF pool[m]
       THEN call' = [call EXCEPT ![c] = NoCall] /\ UNCHANGED flight
       ELSE /\ call' = [call EXCEPT ![c].pc = "open"]
            /\ flight' = [flight EXCEPT ![m] = c]
  /\ UNCHANGED <<makeVars, pool, opened, faults>>

(* Get migrates nothing; it fails when the row or the database is missing. *)
Open(c) ==
  LET m == call[c].tenant
      opens == row[m] # 0 /\ database[m] = "made" IN
  /\ call[c].pc = "open"
  /\ opened' = [opened EXCEPT ![m] = IF opens THEN @ + 1 ELSE @]
  /\ pool' = [pool EXCEPT ![m] = @ \/ opens]
  /\ flight' = [flight EXCEPT ![m] = Nobody]
  /\ call' = [d \in Callers |->
       IF d = c \/ (call[d] = [pc |-> "fly", tenant |-> m] /\ flight[m] = c)
         THEN NoCall ELSE call[d]]
  /\ UNCHANGED <<makeVars, faults>>

Next ==
  \/ \E m \in Makers : InsertTenant(m) \/ CreateDatabase(m) \/ StartMigrate(m) \/ Undo(m)
  \/ \E w \in Workers :
        \/ AcquireLock(w) \/ CheckApplied(w) \/ Exec(w) \/ CommitMigration(w) \/ ReleaseLock(w)
        \/ Fail(w) \/ Crash(w) \/ LoseLock(w)
  \/ \E c \in Callers : (\E m \in Makers : GetCall(c, m)) \/ Fly(c) \/ Open(c)

Spec == Init /\ [][Next]_vars

------------------------------------------------------------------------------
TypeOK ==
  /\ \A m \in Makers : /\ row[m] \in 0..Slugs /\ database[m] \in {"none", "made"}
                       /\ applied[m] \subseteq 1..Migrations
                       /\ lock[m] \in Workers \union {Nobody}
  /\ \A c \in Callers : call[c].pc \in {"idle", "fly", "open"}
  /\ faults \in 0..MaxFaults

(* Create: a tenant it returns has a database with every migration; one    *)
(* that failed has no row, unless the process died before it could say so; *)
(* no two tenants share a slug.                                            *)
TenantsAreUsable ==
  \A m \in Makers :
     /\ work[<<m, "create">>].pc = "done"
        => row[m] # 0 /\ database[m] = "made" /\ applied[m] = 1..Migrations
     /\ work[<<m, "create">>].pc = "failed" => row[m] = 0
     /\ \A n \in Makers \ {m} : NameOf[n] = NameOf[m] /\ row[n] = row[m] => row[m] = 0

(* applyFS and applyOne: every migration takes effect once and in order,   *)
(* although two processes migrate one database, die half way or lose the   *)
(* lock.                                                                   *)
MigratedOnce ==
  \A m \in Makers, i \in 1..Migrations :
     /\ runs[<<m, i>>] = (IF i \in applied[m] THEN 1 ELSE 0)
     /\ i \in applied[m] => 1..i \subseteq applied[m]

(* Router.Get: the server holds one pool per tenant, the cached one.       *)
OnePoolPerTenant ==
  \A m \in Makers : opened[m] = IF pool[m] THEN 1 ELSE 0

=============================================================================
