---------------------------- MODULE StoredSecrets ----------------------------
(***************************************************************************)
(* The settings pages that keep a secret in a record: the one AI provider  *)
(* connection of a tenant (internal/api/aiprovidersettings.go) and its     *)
(* external SQL sources (internal/api/extsqlsource.go).                    *)
(*                                                                         *)
(* A form never shows the secret: it is submitted blank to keep the stored *)
(* one, and an update replaces the record wholesale.  A handler lists the  *)
(* records, makes up the fields from what it listed, and writes.  The      *)
(* unique key singleton_key admits one live connection.                    *)
(*                                                                         *)
(* A secret is a number, in the order secrets were first submitted, with   *)
(* the vendor it was submitted for.                                        *)
(***************************************************************************)
EXTENDS Integers, FiniteSets

CONSTANTS
  Tabs,
  Vendors,           \* providers that need a key
  Ollama,            \* the one that takes none
  Source,            \* stands for the vendor of a SQL source
  MaxAttempts,       \* aiProviderConnectionMaxUpsertAttempts
  MaxRows, MaxSecrets, MaxWrites

VARIABLES
  row,        \* number -> record
  secrets,    \* number of secrets submitted so far
  tab,        \* tab -> its request
  withdrawn,  \* secrets replaced or deleted (history)
  writes      \* number of writes that committed

vars == <<row, secrets, tab, withdrawn, writes>>

Providers == Vendors \union {Ollama}
NoSecret == [number |-> 0, vendor |-> Ollama]
Secret == [number : 0..MaxSecrets, vendor : Providers \union {Source}]
Free == [live |-> FALSE, vendor |-> Ollama, secret |-> NoSecret, version |-> 0]
Gone == [Free EXCEPT !.version = 1]
(* A request: what it writes, where, and on which version.                 *)
Idle == [pc |-> "idle", kind |-> Ollama, clear |-> FALSE, id |-> 0, version |-> 0,
         fresh |-> FALSE, fields |-> Free, attempt |-> 0, since |-> 0]

Init ==
  /\ row = [n \in 1..MaxRows |-> Free]
  /\ secrets = 0 /\ tab = [t \in Tabs |-> Idle]
  /\ withdrawn = {} /\ writes = 0

------------------------------------------------------------------------------
Created == {n \in 1..MaxRows : row[n].version # 0}
Live == {n \in Created : row[n].live}
Connections == {n \in Live : row[n].vendor # Source}
SourceRows == {n \in Live : row[n].vendor = Source}

Set(t, r) == tab' = [tab EXCEPT ![t] = r]
Goto(t, pc) == Set(t, [tab[t] EXCEPT !.pc = pc])
Wrote == writes < MaxWrites /\ writes' = writes + 1
Unwritten == UNCHANGED <<row, withdrawn, writes>>

(* A page about record n, or about none yet: it holds what it listed.       *)
Asked(kind, fresh, clear, n) ==
  [pc |-> "fields", kind |-> kind, clear |-> clear, id |-> n,
   version |-> IF n = 0 THEN 0 ELSE row[n].version, fresh |-> fresh,
   fields |-> IF n = 0 \/ clear THEN Free ELSE row[n], attempt |-> 0, since |-> 0]

(* aiProviderConnectionRecord lists; a page that has a row names it.       *)
ReadConnection(t, vendor, fresh, clear) ==
  /\ tab[t].pc = "idle"
  /\ fresh => vendor \in Vendors
  /\ \E n \in IF Connections = {} THEN {0} ELSE Connections :
        Set(t, Asked(vendor, fresh, clear, n))
  /\ UNCHANGED secrets /\ Unwritten

(* extSQLSourceRecords; n is the form's record, or 0 for a new one.  A     *)
(* record that is gone is not found.                                       *)
ReadSource(t, n, fresh, clear) ==
  /\ tab[t].pc = "idle" /\ (clear => n # 0)
  /\ n \in {0} \union SourceRows
  /\ Set(t, Asked(Source, fresh, clear, n))
  /\ UNCHANGED secrets /\ Unwritten

(* A stored key serves the provider it was stored for.                     *)
KeepsKey(t) ==
  tab[t].fields.vendor = tab[t].kind /\ tab[t].fields.secret # NoSecret

Fields(vendor, secret) == [live |-> TRUE, vendor |-> vendor, secret |-> secret, version |-> 0]
ToWrite(r, secret) == [r EXCEPT !.pc = "write", !.fields = Fields(r.kind, secret)]

(* buildAIProviderFields, buildExtSQLSourceFields: a submitted secret, or  *)
(* the stored one, or an error where one is required.                      *)
BuildFields(t) ==
  LET r == tab[t]
      Write(secret) == Set(t, ToWrite(r, secret))
  IN
  /\ r.pc = "fields"
  /\ CASE r.clear -> Goto(t, "delete") /\ UNCHANGED secrets
       [] ~r.clear /\ r.fresh ->
            /\ secrets < MaxSecrets /\ secrets' = secrets + 1
            /\ Write([number |-> secrets + 1, vendor |-> r.kind])
       [] ~r.clear /\ ~r.fresh /\ r.kind = Ollama -> Write(NoSecret) /\ UNCHANGED secrets
       [] ~r.clear /\ ~r.fresh /\ r.kind = Source -> Write(r.fields.secret) /\ UNCHANGED secrets
       [] OTHER ->
            /\ IF KeepsKey(t) THEN Write(r.fields.secret) ELSE Set(t, Idle)
            /\ UNCHANGED secrets
  /\ Unwritten

(* crud.Engine.Create; the unique key of a second connection is refused.   *)
Insert(t) ==
  \E n \in 1..MaxRows :
     /\ n \notin Created /\ \A m \in 1..(n - 1) : m \in Created
     /\ row' = [row EXCEPT ![n] = [tab[t].fields EXCEPT !.version = 1]]
     /\ Wrote /\ UNCHANGED withdrawn
Conflicts(t) == tab[t].kind # Source /\ Connections # {}

Create(t) ==
  LET r == tab[t] IN
  /\ r.pc = "write" /\ r.id = 0
  /\ IF Conflicts(t)
       THEN Set(t, [r EXCEPT !.pc = "list", !.since = writes]) /\ Unwritten
       ELSE Insert(t) /\ Set(t, Idle)
  /\ UNCHANGED secrets

(* crud.Engine.Update at a version.                                        *)
Replace(n, fields) ==
  /\ row' = [row EXCEPT ![n] = [fields EXCEPT !.version = row[n].version + 1]]
  /\ withdrawn' = withdrawn \union ({row[n].secret} \ {fields.secret})
  /\ Wrote

(* Faulty variant: the last writer wins.                                   *)
Whichever(t) == row[tab[t].id].live
SameVersion(t) == row[tab[t].id].live /\ row[tab[t].id].version = tab[t].version

Update(t) ==
  LET r == tab[t] IN
  /\ r.pc = "write" /\ r.id # 0
  /\ IF SameVersion(t) THEN Replace(r.id, r.fields) ELSE Unwritten
  /\ Set(t, Idle)
  /\ UNCHANGED secrets

(* createOrRecoverAIProviderConnection: after a conflict, find the row     *)
(* that won, or that it is gone, so many times.                            *)
GiveUpOrList(t) ==
  LET r == tab[t] IN
  /\ r.pc = "list"
  /\ CASE r.attempt = MaxAttempts -> Goto(t, "failed")
       [] r.attempt # MaxAttempts /\ Connections = {} -> Goto(t, "again")
       [] OTHER -> \E n \in Connections :
                     Set(t, [r EXCEPT !.pc = "recover", !.id = n, !.version = row[n].version])
  /\ UNCHANGED secrets /\ Unwritten

Retry(t) == Set(t, [tab[t] EXCEPT !.pc = "list", !.attempt = @ + 1])

CreateAgain(t) ==
  /\ tab[t].pc = "again"
  /\ IF Conflicts(t) THEN Retry(t) /\ Unwritten ELSE Insert(t) /\ Set(t, Idle)
  /\ UNCHANGED secrets

(* Only a lost version is tried again; a row that is gone is an error.     *)
UpdateWinner(t) ==
  LET r == tab[t] IN
  /\ r.pc = "recover"
  /\ CASE ~row[r.id].live -> Set(t, Idle) /\ Unwritten
       [] row[r.id].live /\ ~SameVersion(t) -> Retry(t) /\ Unwritten
       [] OTHER -> Replace(r.id, r.fields) /\ Set(t, Idle)
  /\ UNCHANGED secrets

(* aiProviderSettingsClear, extSQLSourceDelete: no version.                *)
Remove(n) ==
  IF row[n].live
    THEN /\ row' = [row EXCEPT ![n] = Gone]
         /\ withdrawn' = withdrawn \union {row[n].secret}
         /\ Wrote
    ELSE Unwritten

Delete(t) ==
  LET n == tab[t].id IN
  /\ tab[t].pc = "delete"
  /\ IF n = 0 THEN Unwritten ELSE Remove(n)
  /\ Set(t, Idle)
  /\ UNCHANGED secrets

(* The user reads the error.                                               *)
Failed(t) ==
  /\ tab[t].pc = "failed" /\ Set(t, Idle)
  /\ UNCHANGED secrets /\ Unwritten

(* aiProviderFor, extSQLSourceFromFields: what a use of the record sends,  *)
(* and where; a vendor without a key is not called.                        *)
Usable(n) == row[n].vendor \in Vendors => row[n].secret # NoSecret
Calls ==
  {[to |-> row[n].vendor, secret |-> row[n].secret] : n \in {m \in Live : Usable(m)}}

Next ==
  \E t \in Tabs :
     \/ \E vendor \in Providers, fresh, clear \in BOOLEAN :
           (clear => vendor = Ollama /\ ~fresh) /\ ReadConnection(t, vendor, fresh, clear)
     \/ \E n \in 0..MaxRows, fresh, clear \in BOOLEAN :
           (clear => ~fresh) /\ ReadSource(t, n, fresh, clear)
     \/ BuildFields(t) \/ Create(t) \/ Update(t) \/ GiveUpOrList(t)
     \/ CreateAgain(t) \/ UpdateWinner(t) \/ Delete(t) \/ Failed(t)

Spec == Init /\ [][Next]_vars

------------------------------------------------------------------------------
TypeOK ==
  /\ secrets \in 0..MaxSecrets /\ writes \in 0..MaxWrites
  /\ withdrawn \subseteq Secret
  /\ \A n \in 1..MaxRows : row[n].secret \in Secret /\ row[n].live \in BOOLEAN
  /\ \A t \in Tabs : tab[t].attempt \in 0..MaxAttempts

(* buildAIProviderFields, Update with the version that was read: a key is  *)
(* sent to the vendor it was entered for only, and a secret that a save    *)
(* replaced or a deletion withdrew does not come back with a form that     *)
(* kept the one it had read.                                               *)
SecretsStayWithTheirVendor ==
  \A call \in Calls :
     call.secret # NoSecret => call.secret.vendor = call.to /\ call.secret \notin withdrawn

(* createOrRecoverAIProviderConnection: a tenant has one connection, and a *)
(* save gives up only when as many writes of others went before it.        *)
GivesUpUnderContention ==
  /\ Cardinality(Connections) <= 1
  /\ \A t \in Tabs : tab[t].pc = "failed" => writes - tab[t].since >= MaxAttempts
=============================================================================
