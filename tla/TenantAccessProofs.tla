------------------------- MODULE TenantAccessProofs -------------------------
(* Who may do what in a tenant, for any number of tabs, tenants, users,    *)
(* roles and requests: a request acts where its login was granted a        *)
(* tenant, nobody promotes himself, and the tenant keeps an administrator. *)
EXTENDS TenantWork, FiniteSetTheorems, TLAPS

-----------------------------------------------------------------------------
(* Sign-in.                                                                *)

Session == [login : 0..MaxLogins, list : SUBSET Tenants, tenant : Tenants \union {NoTenant}]
Request ==
  [kind : {"none", "page", "write", "switch", "callback"}, session : Session,
   flow : 0..MaxLogins, to : Tenants \union {NoTenant}, stamp : Tenants \union {NoTenant},
   again : BOOLEAN]
SignInType ==
  /\ attempts \in 0..MaxLogins /\ flow \in 0..attempts
  /\ session \in Session
  /\ allowed \in [1..MaxLogins -> SUBSET Tenants]
  /\ page \in [Tabs -> Tenants \union {NoTenant}]
  /\ request \in [Tabs -> Request]
  /\ hops \in [Tabs -> Nat]
(* A login that has not come back has found nothing.                       *)
LoginsNew ==
  /\ flow # 0 => allowed[flow] = {}
  /\ \A n \in 1..MaxLogins : n > attempts => allowed[n] = {}
Granted(s) ==
  s.login # 0 => s.list \subseteq allowed[s.login] /\ s.tenant \in allowed[s.login] \union {NoTenant}
(* The redirects a page load has behind it: to the tenant of the session,  *)
(* and once to another that the session may switch to.                     *)
HopsHold(t) ==
  LET r == request[t]  h == hops[t] IN
  /\ r.kind # "page" => h = 0
  /\ r.kind = "page" => CASE r.again -> r.to # NoTenant /\ h <= 3
                          [] ~r.again /\ r.to # NoTenant -> h <= 2
                          [] OTHER -> h <= 1
ActedHolds ==
  /\ acted.login # 0 => acted.tenant \in allowed[acted.login] /\ acted.live
  /\ acted.stamp # NoTenant => acted.tenant = acted.stamp
SignInInv ==
  /\ SignInType /\ LoginsNew /\ Granted(session) /\ ActedHolds
  /\ \A t \in Tabs : Granted(request[t].session) /\ HopsHold(t)

LEMMA SignInConstants ==
  /\ SignIn!NoSession \in Session /\ SignIn!NoSession.login = 0
  /\ SignIn!Quiet \in Request /\ SignIn!Quiet.kind = "none"
  /\ SignIn!Quiet.session = SignIn!NoSession
  /\ SignIn!Nothing.login = 0 /\ SignIn!Nothing.stamp = NoTenant
<1>1. SignIn!NoSession \in Session /\ SignIn!NoSession.login = 0
  BY SignInAssumption DEF SignIn!NoSession, Session
<1>2. /\ SignIn!Quiet \in Request /\ SignIn!Quiet.kind = "none"
      /\ SignIn!Quiet.session = SignIn!NoSession
  BY <1>1, SignInAssumption DEF SignIn!Quiet, Request
<1> QED
  BY <1>1, <1>2 DEF SignIn!Nothing

LEMMA SignInInit ==
  ASSUME SignIn!Init
  PROVE  SignInInv
<1>1. /\ attempts = 0 /\ flow = 0 /\ session = SignIn!NoSession
      /\ allowed = [n \in 1..MaxLogins |-> {}] /\ page = [t \in Tabs |-> NoTenant]
      /\ request = [t \in Tabs |-> SignIn!Quiet] /\ hops = [t \in Tabs |-> 0]
      /\ acted = SignIn!Nothing
  BY DEF SignIn!Init
<1>2. SignInType /\ LoginsNew
  BY <1>1, SignInConstants, SignInAssumption DEF SignInType, LoginsNew
<1>3. Granted(session) /\ ActedHolds
  BY <1>1, SignInConstants DEF Granted, ActedHolds
<1>4. ASSUME NEW t \in Tabs
      PROVE  Granted(request[t].session) /\ HopsHold(t)
  BY <1>1, <1>4, SignInConstants DEF Granted, HopsHold
<1> QED
  BY <1>2, <1>3, <1>4 DEF SignInInv

(* A step of one tab: its request becomes r after h redirects.             *)
LEMMA SignInTab ==
  ASSUME SignInInv, NEW t \in Tabs, NEW r \in Request, NEW h \in Nat,
         request' = [request EXCEPT ![t] = r], hops' = [hops EXCEPT ![t] = h],
         attempts' \in 0..MaxLogins, flow' \in 0..attempts', session' \in Session,
         page' \in [Tabs -> Tenants \union {NoTenant}],
         allowed' \in [1..MaxLogins -> SUBSET Tenants],
         \A n \in 1..MaxLogins : allowed[n] \subseteq allowed'[n],
         LoginsNew', Granted(session)', ActedHolds', Granted(r.session)',
         r.kind # "page" => h = 0,
         r.kind = "page" => CASE r.again -> r.to # NoTenant /\ h <= 3
                              [] ~r.again /\ r.to # NoTenant -> h <= 2
                              [] OTHER -> h <= 1
  PROVE  SignInInv'
<1>1. /\ request \in [Tabs -> Request] /\ hops \in [Tabs -> Nat]
      /\ request' \in [Tabs -> Request] /\ hops' \in [Tabs -> Nat]
      /\ request'[t] = r /\ hops'[t] = h
      /\ \A u \in Tabs : u # t => request'[u] = request[u] /\ hops'[u] = hops[u]
  BY DEF SignInInv, SignInType
<1>2. SignInType'
  BY <1>1 DEF SignInType
<1>3. ASSUME NEW u \in Tabs
      PROVE  Granted(request[u].session)' /\ HopsHold(u)'
  <2>1. CASE u = t
    BY <1>1, <2>1 DEF HopsHold, Granted
  <2>2. CASE u # t
    <3>1. request[u].session.login \in 0..MaxLogins
      BY <1>1 DEF Request, Session
    <3>2. Granted(request[u].session)'
      BY <1>1, <2>2, <3>1, SignInAssumption DEF SignInInv, Granted
    <3>3. HopsHold(u)'
      BY <1>1, <2>2 DEF SignInInv, HopsHold
    <3> QED
      BY <3>2, <3>3
  <2> QED
    BY <2>1, <2>2
<1> QED
  BY <1>2, <1>3 DEF SignInInv

(* A step after which nothing acts and nothing was found.                  *)
LEMMA SignInQuietly ==
  ASSUME SignInInv, acted' = SignIn!Nothing, UNCHANGED <<attempts, allowed>>,
         flow' \in {flow, 0}
  PROVE  /\ ActedHolds' /\ LoginsNew' /\ attempts' \in 0..MaxLogins /\ flow' \in 0..attempts'
         /\ allowed' \in [1..MaxLogins -> SUBSET Tenants]
         /\ \A n \in 1..MaxLogins : allowed[n] \subseteq allowed'[n]
<1>1. ActedHolds'
  BY SignInConstants DEF ActedHolds
<1>2. /\ LoginsNew' /\ attempts' \in 0..MaxLogins /\ flow' \in 0..attempts'
  BY SignInAssumption DEF SignInInv, LoginsNew, SignInType
<1> QED
  BY <1>1, <1>2 DEF SignInInv, SignInType

(* Requests, by the operators that make them.                              *)
LEMMA SignInRequests ==
  ASSUME NEW s \in Session, NEW to \in Tenants \union {NoTenant}
  PROVE  LET g == [SignIn!Get(to) EXCEPT !.session = s] IN
         /\ g \in Request /\ g.kind = "page" /\ g.session = s /\ g.to = to /\ ~g.again
         /\ SignIn!Get(to) \in Request
<1>1. PICK q \in Request : q = SignIn!Quiet
  BY SignInConstants
<1>2. ~q.again
  BY <1>1 DEF SignIn!Quiet
<1>3. PICK p : p = [q EXCEPT !.kind = "page", !.to = to]
  OBVIOUS
<1>4. p \in Request /\ p.kind = "page" /\ p.to = to /\ ~p.again
  BY <1>2, <1>3 DEF Request
<1>5. p = SignIn!Get(to)
  BY <1>1, <1>3 DEF SignIn!Get
<1>6. PICK g : g = [p EXCEPT !.session = s]
  OBVIOUS
<1>7. g \in Request /\ g.kind = "page" /\ g.session = s /\ g.to = to /\ ~g.again
  BY <1>4, <1>6 DEF Request
<1> QED
  BY <1>4, <1>5, <1>6, <1>7

(* A redirect to a page, or an answer.                                     *)
LEMMA SignInFollow ==
  ASSUME SignInInv, NEW t \in Tabs, NEW s \in Session, NEW to \in Tenants \union {NoTenant},
         SignIn!Follow(t, SignIn!Get(to), s), Granted(s)', Granted(session)', session' \in Session,
         hops[t] = 0 \/ (to # NoTenant /\ hops[t] <= 1),
         page' = page, attempts' \in 0..MaxLogins, flow' \in 0..attempts',
         allowed' \in [1..MaxLogins -> SUBSET Tenants],
         \A n \in 1..MaxLogins : allowed[n] \subseteq allowed'[n],
         LoginsNew', ActedHolds'
  PROVE  SignInInv'
<1>1. PICK r \in Request : /\ r = [SignIn!Get(to) EXCEPT !.session = s]
                           /\ r.kind = "page" /\ r.session = s /\ r.to = to /\ ~r.again
  BY SignInRequests
<1>2. hops[t] \in Nat /\ page \in [Tabs -> Tenants \union {NoTenant}]
  BY DEF SignInInv, SignInType
<1>3. PICK h \in Nat : h = hops[t] + 1
  BY <1>2
<1>4. request' = [request EXCEPT ![t] = r] /\ hops' = [hops EXCEPT ![t] = h]
  BY <1>1, <1>3 DEF SignIn!Follow
<1>5. h <= 1 \/ (to # NoTenant /\ h <= 2)
  BY <1>2, <1>3
<1>6. Granted(r.session)'
  BY <1>1
<1>7. (CASE r.again -> r.to # NoTenant /\ h <= 3
         [] ~r.again /\ r.to # NoTenant -> h <= 2
         [] OTHER -> h <= 1)
  BY <1>1, <1>5
<1>8. page' \in [Tabs -> Tenants \union {NoTenant}] /\ r.kind = "page"
  BY <1>1, <1>2
<1> QED
  BY <1>4, <1>6, <1>7, <1>8, SignInTab

LEMMA SignInAnswer ==
  ASSUME SignInInv, NEW t \in Tabs, SignIn!Answer(t), Granted(session)', session' \in Session,
         page' \in [Tabs -> Tenants \union {NoTenant}],
         attempts' \in 0..MaxLogins, flow' \in 0..attempts',
         allowed' \in [1..MaxLogins -> SUBSET Tenants],
         \A n \in 1..MaxLogins : allowed[n] \subseteq allowed'[n],
         LoginsNew', ActedHolds'
  PROVE  SignInInv'
<1>1. PICK r \in Request : /\ r = SignIn!Quiet /\ r.kind = "none" /\ r.session = SignIn!NoSession
  BY SignInConstants
<1>2. request' = [request EXCEPT ![t] = r] /\ hops' = [hops EXCEPT ![t] = 0]
  BY <1>1 DEF SignIn!Answer
<1>3. Granted(r.session)'
  BY <1>1, SignInConstants DEF Granted
<1> QED
  BY <1>1, <1>2, <1>3, SignInTab

(* What is granted to a session stays granted.                             *)
LEMMA GrantedStays ==
  ASSUME NEW s \in Session, Granted(s), SignInInv,
         \A n \in 1..MaxLogins : allowed[n] \subseteq allowed'[n]
  PROVE  Granted(s)'
<1>1. s.login \in 0..MaxLogins
  BY DEF Session
<1> QED
  BY <1>1, SignInAssumption DEF Granted

(* Session.SwitchIfAccessible: a tenant the session lists.                 *)
LEMMA SwitchGranted ==
  ASSUME SignInInv, NEW s \in Session, Granted(s), NEW to \in Tenants, SignIn!CanAccess(s, to)
  PROVE  SignIn!SwitchTo(s, to) \in Session /\ Granted(SignIn!SwitchTo(s, to))
<1>1. PICK n : n = [s EXCEPT !.tenant = to]
  OBVIOUS
<1>2. n \in Session /\ n.login = s.login /\ n.list = s.list /\ n.tenant = to
  BY <1>1 DEF Session
<1>3. s.login # 0 => to \in allowed[s.login]
  BY SignInAssumption DEF SignIn!CanAccess, SignIn!AccessibleTenantIDs, Granted
<1>4. Granted(n)
  BY <1>2, <1>3 DEF Granted
<1> QED
  BY <1>1, <1>2, <1>4 DEF SignIn!SwitchTo

LEMMA SignInSend ==
  ASSUME SignInInv, NEW t \in Tabs, SignIn!Send(t)
  PROVE  SignInInv'
<1>1. /\ request[t] = SignIn!Quiet /\ acted' = SignIn!Nothing
      /\ UNCHANGED <<attempts, allowed, flow, session, page, hops>>
  BY DEF SignIn!Send, SignIn!loginVars, SignIn!cookieVars
<1>2. ActedHolds' /\ LoginsNew' /\ attempts' \in 0..MaxLogins /\ flow' \in 0..attempts'
  BY <1>1, SignInQuietly
<1>3. hops[t] = 0 /\ hops \in [Tabs -> Nat] /\ session \in Session /\ page[t] \in Tenants \union {NoTenant}
  BY <1>1, SignInConstants DEF SignInInv, SignInType, HopsHold
<1>4. PICK q \in Request : q = SignIn!Quiet
  BY SignInConstants
<1>5. ~q.again
  BY <1>4 DEF SignIn!Quiet
<1>6. PICK r : /\ request' = [request EXCEPT ![t] = [r EXCEPT !.session = session]]
               /\ \/ \E to \in Tenants \union {NoTenant} : r = [q EXCEPT !.kind = "page", !.to = to]
                  \/ \E stamp \in {page[t], NoTenant} :
                       r = [q EXCEPT !.kind = "write", !.stamp = stamp]
                  \/ \E to \in Tenants : r = [q EXCEPT !.kind = "switch", !.to = to]
  BY <1>4 DEF SignIn!Send, SignIn!Ask, SignIn!Get
<1>7. r \in Request /\ ~r.again
  BY <1>3, <1>5, <1>6 DEF Request
<1>8. PICK g : g = [r EXCEPT !.session = session]
  OBVIOUS
<1>9. g \in Request /\ g.session = session /\ ~g.again
  BY <1>3, <1>7, <1>8 DEF Request
<1>10. request' = [request EXCEPT ![t] = g] /\ hops' = [hops EXCEPT ![t] = 0]
  BY <1>1, <1>3, <1>6, <1>8
<1>11. Granted(session)' /\ Granted(g.session)'
  BY <1>1, <1>9 DEF SignInInv, Granted
<1>12. (CASE g.again -> g.to # NoTenant /\ 0 <= 3
          [] ~g.again /\ g.to # NoTenant -> 0 <= 2
          [] OTHER -> 0 <= 1)
  BY <1>9
<1>13. /\ session' \in Session /\ page' \in [Tabs -> Tenants \union {NoTenant}]
       /\ allowed' \in [1..MaxLogins -> SUBSET Tenants] /\ allowed' = allowed
  BY <1>1 DEF SignInInv, SignInType
<1> QED
  BY <1>2, <1>9, <1>10, <1>11, <1>12, <1>13, SignInTab

LEMMA SignInLogin ==
  ASSUME SignInInv, NEW t \in Tabs, SignIn!HandleLogin(t)
  PROVE  SignInInv'
<1>1. /\ request[t] = SignIn!Quiet /\ acted' = SignIn!Nothing /\ attempts < MaxLogins
      /\ attempts' = attempts + 1 /\ flow' = attempts'
      /\ request' = [request EXCEPT ![t] = [SignIn!Quiet EXCEPT !.kind = "callback",
                                                               !.flow = attempts']]
      /\ UNCHANGED <<allowed, session, page, hops>>
  BY DEF SignIn!HandleLogin
<1>2. PICK n \in 1..MaxLogins : n = attempts'
  BY <1>1, SignInAssumption DEF SignInInv, SignInType
<1>3. PICK q \in Request : q = SignIn!Quiet
  BY SignInConstants
<1>4. PICK r : r = [q EXCEPT !.kind = "callback", !.flow = n]
  OBVIOUS
<1>5. r \in Request /\ r.kind = "callback" /\ r.session = q.session
  <2>1. n \in 0..MaxLogins
    BY SignInAssumption
  <2> QED
    BY <1>4, <2>1 DEF Request
<1>6. request' = [request EXCEPT ![t] = r]
  BY <1>1, <1>2, <1>3, <1>4
<1>7. hops[t] = 0 /\ hops \in [Tabs -> Nat]
  BY <1>1, SignInConstants DEF SignInInv, SignInType, HopsHold
<1>8. hops' = [hops EXCEPT ![t] = 0]
  BY <1>1, <1>7
<1>9. LoginsNew' /\ attempts' \in 0..MaxLogins /\ flow' \in 0..attempts'
  <2>1. attempts \in Nat /\ n = attempts + 1
    BY <1>1, <1>2, SignInAssumption DEF SignInInv, SignInType
  <2> QED
    BY <1>1, <1>2, <2>1, SignInAssumption DEF SignInInv, LoginsNew
<1>10. ActedHolds'
  BY <1>1, SignInConstants DEF ActedHolds
<1>11. Granted(session)' /\ Granted(r.session)'
  BY <1>1, <1>3, <1>5, SignInConstants DEF SignInInv, Granted
<1> QED
  BY <1>1, <1>5, <1>6, <1>8, <1>9, <1>10, <1>11, SignInTab DEF SignInInv, SignInType

(* The session of a callback holds what the login found, and no more.      *)
LEMMA SignInCallback ==
  ASSUME SignInInv, NEW t \in Tabs, NEW claims \in SUBSET Orgs,
         SignIn!HandleCallback(t, claims)
  PROVE  SignInInv'
<1>1. /\ flow' = 0 /\ acted' = SignIn!Nothing /\ UNCHANGED <<attempts, page>>
      /\ request[t].kind = "callback"
  BY DEF SignIn!HandleCallback, SignIn!Asked
<1>2. hops[t] = 0
  BY <1>1 DEF SignInInv, HopsHold
<1>3. ActedHolds' /\ attempts' \in 0..MaxLogins /\ flow' \in 0..attempts'
  BY <1>1, SignInConstants, SignInAssumption DEF ActedHolds, SignInInv, SignInType
<1>4. CASE ~(SignIn!SameFlow(t) /\ SignIn!TenantsOf(claims) # {})
  <2>1. SignIn!Answer(t) /\ UNCHANGED <<session, allowed>>
    BY <1>4 DEF SignIn!HandleCallback
  <2>2. LoginsNew' /\ Granted(session)'
    BY <1>1, <2>1 DEF SignInInv, LoginsNew, Granted
  <2> QED
    BY <1>1, <1>3, <2>1, <2>2, SignInAnswer DEF SignInInv, SignInType
<1>5. CASE SignIn!SameFlow(t) /\ SignIn!TenantsOf(claims) # {}
  <2> DEFINE found == SignIn!TenantsOf(claims)
  <2>1. PICK n : n = request[t].flow
    OBVIOUS
  <2>2. /\ session' = SignIn!NewSession(n, found)
        /\ allowed' = [allowed EXCEPT ![n] = found]
        /\ SignIn!Answer(t) \/ SignIn!Follow(t, SignIn!Get(NoTenant), session')
    BY <1>5, <2>1 DEF SignIn!HandleCallback
  <2>3. found \in SUBSET Tenants /\ found # {}
    BY <1>5, SignInAssumption DEF SignIn!TenantsOf
  <2>4. n \in 0..MaxLogins /\ flow = n
    BY <1>5, <2>1 DEF SignIn!SameFlow, SignInInv, SignInType, Request
  <2> HIDE DEF found
  <2>5. /\ session' \in Session /\ session'.login = n /\ session'.list \subseteq found
        /\ session'.tenant \in found \union {NoTenant}
    BY <2>2, <2>3, <2>4 DEF SignIn!NewSession, Session
  <2>6. /\ n # 0 => n \in 1..MaxLogins /\ allowed[n] = {}
        /\ allowed \in [1..MaxLogins -> SUBSET Tenants]
    BY <2>4, SignInAssumption DEF SignInInv, SignInType, LoginsNew
  <2>7. /\ allowed' \in [1..MaxLogins -> SUBSET Tenants]
        /\ \A m \in 1..MaxLogins : allowed[m] \subseteq allowed'[m]
        /\ \A m \in 1..MaxLogins : m # n => allowed'[m] = allowed[m]
        /\ n # 0 => allowed'[n] = found
    <3>1. CASE n = 0
      <4>1. \A m \in 1..MaxLogins : m # n
        BY <3>1
      <4>2. DOMAIN allowed = 1..MaxLogins
        BY <2>6
      <4>3. allowed' = [m \in 1..MaxLogins |-> allowed[m]]
        BY <2>2, <4>1, <4>2
      <4> QED
        BY <2>6, <3>1, <4>3
    <3>2. CASE n # 0
      BY <2>2, <2>3, <2>6, <3>2
    <3> QED
      BY <3>1, <3>2
  <2>8. LoginsNew'
    BY <1>1, <2>4, <2>7, SignInAssumption DEF SignInInv, SignInType, LoginsNew
  <2>9. Granted(session)'
    BY <2>5, <2>7 DEF Granted
  <2>10. PICK s \in Session : s = session'
    BY <2>5
  <2>11. Granted(s)'
    BY <2>9, <2>10 DEF Granted
  <2>12. CASE SignIn!Answer(t)
    BY <1>1, <1>3, <2>5, <2>7, <2>8, <2>9, <2>12, SignInAnswer DEF SignInInv, SignInType
  <2>13. CASE SignIn!Follow(t, SignIn!Get(NoTenant), session')
    <3>1. SignIn!Follow(t, SignIn!Get(NoTenant), s)
      BY <2>10, <2>13
    <3> QED
      BY <1>1, <1>2, <1>3, <2>5, <2>7, <2>8, <2>9, <2>11, <3>1, SignInFollow
  <2> QED
    BY <2>2, <2>12, <2>13
<1> QED
  BY <1>4, <1>5

LEMMA SignInSwitch ==
  ASSUME SignInInv, NEW t \in Tabs, SignIn!HandleSwitch(t)
  PROVE  SignInInv'
<1>1. /\ request[t].kind = "switch" /\ acted' = SignIn!Nothing
      /\ UNCHANGED <<attempts, allowed, flow, page>>
  BY DEF SignIn!HandleSwitch, SignIn!Asked, SignIn!loginVars
<1>2. /\ ActedHolds' /\ LoginsNew' /\ attempts' \in 0..MaxLogins /\ flow' \in 0..attempts'
      /\ allowed' \in [1..MaxLogins -> SUBSET Tenants]
      /\ \A n \in 1..MaxLogins : allowed[n] \subseteq allowed'[n]
  BY <1>1, SignInQuietly
<1>3. hops[t] = 0 /\ page' \in [Tabs -> Tenants \union {NoTenant}]
  BY <1>1 DEF SignInInv, SignInType, HopsHold
<1>4. PICK s \in Session : s = request[t].session
  BY DEF SignInInv, SignInType, Request
<1>5. PICK to \in Tenants \union {NoTenant} : to = request[t].to
  BY DEF SignInInv, SignInType, Request
<1>6. CASE SignIn!Answer(t) /\ UNCHANGED session
  <2>1. Granted(session)' /\ session' \in Session
    BY <1>1, <1>6 DEF SignInInv, SignInType, Granted
  <2> QED
    BY <1>2, <1>3, <1>6, <2>1, SignInAnswer
<1>7. CASE /\ SignIn!Live(s) /\ SignIn!CanAccess(s, to)
           /\ session' = SignIn!SwitchTo(s, to)
           /\ SignIn!Follow(t, SignIn!Get(NoTenant), session')
  <2>1. Granted(s) /\ to \in Tenants
    BY <1>4, <1>7 DEF SignInInv, SignIn!CanAccess
  <2>2. PICK z \in Session : z = SignIn!SwitchTo(s, to) /\ Granted(z)
    BY <1>7, <2>1, SwitchGranted
  <2>3. Granted(z)' /\ Granted(session)' /\ session' = z
    BY <1>1, <1>7, <2>2 DEF Granted
  <2>4. SignIn!Follow(t, SignIn!Get(NoTenant), z)
    BY <1>7, <2>3
  <2> QED
    BY <1>1, <1>2, <1>3, <2>2, <2>3, <2>4, SignInFollow
<1> QED
  BY <1>4, <1>5, <1>6, <1>7 DEF SignIn!HandleSwitch

LEMMA SignInEnds ==
  ASSUME SignInInv, NEW t \in Tabs,
         SignIn!CallbackFails(t) \/ SignIn!Refused(t)
  PROVE  SignInInv'
<1>1. /\ SignIn!Answer(t) /\ acted' = SignIn!Nothing /\ flow' \in {flow, 0}
      /\ UNCHANGED <<attempts, allowed, session>>
      /\ page' = page \/ page' = [page EXCEPT ![t] = NoTenant]
  BY DEF SignIn!CallbackFails, SignIn!Refused, SignIn!loginVars, SignIn!cookieVars
<1>2. page' \in [Tabs -> Tenants \union {NoTenant}]
  BY <1>1 DEF SignInInv, SignInType
<1>3. Granted(session)' /\ session' \in Session
  BY <1>1 DEF SignInInv, SignInType, Granted
<1> QED
  BY <1>1, <1>2, <1>3, SignInQuietly, SignInAnswer

LEMMA SignInLogout ==
  ASSUME SignInInv, NEW t \in Tabs, SignIn!HandleLogout(t)
  PROVE  SignInInv'
<1>1. /\ session' = SignIn!NoSession /\ acted' = SignIn!Nothing
      /\ page' = [page EXCEPT ![t] = NoTenant]
      /\ UNCHANGED <<attempts, allowed, flow, request, hops>>
  BY DEF SignIn!HandleLogout, SignIn!loginVars
<1>2. /\ ActedHolds' /\ LoginsNew'
  BY <1>1, SignInQuietly
<1>3. SignInType'
  BY <1>1, SignInConstants DEF SignInInv, SignInType
<1>4. Granted(session)'
  BY <1>1, SignInConstants DEF Granted
<1> QED
  BY <1>1, <1>2, <1>3, <1>4 DEF SignInInv, Granted, HopsHold

(* guardTenantHeader: the tenant a form was stamped with is the session's. *)
LEMMA SignInWrite ==
  ASSUME SignInInv, NEW t \in Tabs, SignIn!ServeWrite(t)
  PROVE  SignInInv'
<1> DEFINE r == request[t]
<1>1. /\ SignIn!Valid(r.session) /\ SignIn!Answer(t)
      /\ UNCHANGED <<attempts, allowed, flow, session, page, expired>>
  BY DEF SignIn!ServeWrite, SignIn!loginVars, SignIn!cookieVars
<1>2. \/ acted' = SignIn!Nothing
      \/ /\ SignIn!GuardTenantHeader(r)
         /\ acted' = [login |-> r.session.login, tenant |-> r.session.tenant,
                      shown |-> page[t], stamp |-> r.stamp,
                      live |-> r.session.login \notin expired, from |-> "form"]
  BY DEF SignIn!ServeWrite
<1>3. Granted(r.session)
  BY DEF SignInInv
<1>4. ActedHolds'
  <2>1. CASE acted' = SignIn!Nothing
    BY <2>1, SignInConstants DEF ActedHolds
  <2>2. CASE /\ SignIn!GuardTenantHeader(r)
             /\ acted' = [login |-> r.session.login, tenant |-> r.session.tenant,
                          shown |-> page[t], stamp |-> r.stamp,
                          live |-> r.session.login \notin expired, from |-> "form"]
    <3>1. r.session.tenant # NoTenant /\ r.session.login \notin expired
      BY <1>1 DEF SignIn!Valid, SignIn!Live
    <3>2. r.session.login # 0 => r.session.tenant \in allowed[r.session.login]
      BY <1>3, <3>1 DEF Granted
    <3>3. r.stamp # NoTenant => r.stamp = r.session.tenant
      BY <2>2 DEF SignIn!GuardTenantHeader
    <3>4. /\ acted'.login = r.session.login /\ acted'.tenant = r.session.tenant
          /\ acted'.stamp = r.stamp /\ acted'.live = (r.session.login \notin expired)
      BY <2>2
    <3> QED
      BY <1>1, <3>1, <3>2, <3>3, <3>4 DEF ActedHolds
  <2> QED
    BY <1>2, <2>1, <2>2
<1>5. /\ LoginsNew' /\ Granted(session)'
      /\ \A n \in 1..MaxLogins : allowed[n] \subseteq allowed'[n]
  BY <1>1 DEF SignInInv, LoginsNew, Granted
<1> QED
  BY <1>1, <1>4, <1>5, SignInAnswer DEF SignInInv, SignInType

(* canonicalPage: a page of the session's tenant, a redirect to it, or the *)
(* one switch to the tenant of the address.                                *)
LEMMA SignInPage ==
  ASSUME SignInInv, NEW t \in Tabs, SignIn!ServePage(t)
  PROVE  SignInInv'
<1>1. PICK r \in Request : r = request[t]
  BY DEF SignInInv, SignInType
<1>2. PICK s \in Session : s = r.session
  BY DEF Request
<1>3. /\ r.kind = "page" /\ SignIn!Valid(s) /\ UNCHANGED <<attempts, allowed, flow, expired>>
  BY <1>1, <1>2 DEF SignIn!ServePage, SignIn!Asked, SignIn!loginVars
<1>4. s.tenant # NoTenant /\ s.login # 0 /\ s.login \notin expired /\ Granted(s)
  BY <1>1, <1>2, <1>3 DEF SignIn!Valid, SignIn!Live, SignInInv
<1>5. s.tenant \in Tenants /\ s.tenant \in allowed[s.login]
  BY <1>4 DEF Session, Granted
<1>6. ActedHolds'
  <2>1. acted' = IF r.to = s.tenant
                   THEN [SignIn!Nothing EXCEPT !.login = s.login, !.tenant = s.tenant,
                           !.live = s.login \notin expired, !.from = "page"]
                   ELSE SignIn!Nothing
    BY <1>1, <1>2 DEF SignIn!ServePage
  <2>2. CASE r.to = s.tenant
    <3>1. /\ acted'.login = s.login /\ acted'.tenant = s.tenant
          /\ acted'.live = (s.login \notin expired) /\ acted'.stamp = NoTenant
      BY <2>1, <2>2 DEF SignIn!Nothing
    <3> QED
      BY <1>3, <1>4, <1>5, <3>1 DEF ActedHolds
  <2>3. CASE r.to # s.tenant
    BY <2>1, <2>3, SignInConstants DEF ActedHolds
  <2> QED
    BY <2>2, <2>3
<1>7. /\ LoginsNew' /\ \A n \in 1..MaxLogins : allowed[n] \subseteq allowed'[n]
      /\ attempts' \in 0..MaxLogins /\ flow' \in 0..attempts'
      /\ allowed' \in [1..MaxLogins -> SUBSET Tenants]
  BY <1>3 DEF SignInInv, SignInType, LoginsNew
<1>8. /\ page \in [Tabs -> Tenants \union {NoTenant}] /\ session \in Session
      /\ Granted(session) /\ HopsHold(t) /\ hops[t] \in Nat
  BY DEF SignInInv, SignInType
<1>9. ASSUME session' = session \/ session' = s
      PROVE  session' \in Session /\ Granted(session)'
  BY <1>3, <1>4, <1>8, <1>9 DEF Granted
<1>10. CASE /\ SignIn!Answer(t) /\ UNCHANGED session
            /\ page' = [page EXCEPT ![t] = s.tenant] \/ page' = [page EXCEPT ![t] = NoTenant]
  <2>1. page' \in [Tabs -> Tenants \union {NoTenant}]
    BY <1>5, <1>8, <1>10
  <2> QED
    BY <1>6, <1>7, <1>9, <1>10, <2>1, SignInAnswer
<1>11. CASE /\ r.to = NoTenant /\ SignIn!Follow(t, SignIn!Get(s.tenant), session)
            /\ UNCHANGED <<session, page>>
  <2>1. hops[t] <= 1
    BY <1>1, <1>3, <1>8, <1>11 DEF HopsHold
  <2>2. PICK to \in Tenants : to = s.tenant
    BY <1>5
  <2>3. to # NoTenant /\ SignIn!Follow(t, SignIn!Get(to), session)
    BY <1>4, <1>11, <2>2
  <2> QED
    BY <1>6, <1>7, <1>8, <1>9, <1>11, <2>1, <2>2, <2>3, SignInFollow
<1>12. CASE /\ r.to # NoTenant /\ SignIn!MaySwitch(r) /\ SignIn!CanAccess(s, r.to)
            /\ session' \in {SignIn!SwitchTo(s, r.to), session}
            /\ SignIn!Follow(t, [SignIn!Get(r.to) EXCEPT !.again = TRUE], session')
            /\ UNCHANGED page
  <2>1. PICK to \in Tenants : to = r.to /\ to # NoTenant
    BY <1>12 DEF Request
  <2>2. PICK z \in Session : z = session' /\ Granted(z)
    BY <1>4, <1>8, <1>12, <2>1, SwitchGranted
  <2>3. PICK g \in Request : g = SignIn!Get(to)
    BY <2>1, <2>2, SignInRequests
  <2>4. g.kind = "page" /\ g.to = to
    <3>1. PICK q \in Request : q = SignIn!Quiet
      BY SignInConstants
    <3>2. g = [q EXCEPT !.kind = "page", !.to = to]
      BY <2>3, <3>1 DEF SignIn!Get
    <3> QED
      BY <3>2 DEF Request
  <2>5. PICK a : a = [g EXCEPT !.again = TRUE]
    OBVIOUS
  <2>6. a \in Request /\ a.again /\ a.kind = "page" /\ a.to = to
    BY <2>4, <2>5 DEF Request
  <2>7. PICK b : b = [a EXCEPT !.session = z]
    OBVIOUS
  <2>8. b \in Request /\ b.again /\ b.kind = "page" /\ b.to = to /\ b.session = z
    BY <2>6, <2>7 DEF Request
  <2>9. PICK h \in Nat : h = hops[t] + 1
    BY <1>8
  <2>10. request' = [request EXCEPT ![t] = b] /\ hops' = [hops EXCEPT ![t] = h]
    BY <1>12, <2>1, <2>2, <2>3, <2>5, <2>7, <2>9 DEF SignIn!Follow
  <2>11. h <= 3
    BY <1>1, <1>3, <1>8, <1>12, <2>9 DEF HopsHold, SignIn!MaySwitch
  <2>12. (CASE b.again -> b.to # NoTenant /\ h <= 3
           [] ~b.again /\ b.to # NoTenant -> h <= 2
           [] OTHER -> h <= 1)
    BY <2>1, <2>8, <2>11
  <2>13. Granted(z)' /\ Granted(session)' /\ Granted(b.session)' /\ session' \in Session
    BY <1>3, <2>2, <2>8 DEF Granted
  <2>14. page' \in [Tabs -> Tenants \union {NoTenant}]
    BY <1>8, <1>12
  <2> QED
    BY <1>6, <1>7, <2>8, <2>10, <2>12, <2>13, <2>14, SignInTab
<1> QED
  BY <1>1, <1>2, <1>10, <1>11, <1>12 DEF SignIn!ServePage

LEMMA SignInRest ==
  ASSUME SignInInv,
         \/ \E active \in BOOLEAN, claims \in SUBSET Orgs : SignIn!CallWithBearer(active, claims)
         \/ \E n \in 1..MaxLogins : SignIn!SessionExpires(n)
         \/ UNCHANGED signInVars
  PROVE  SignInInv'
<1>1. UNCHANGED <<attempts, allowed, flow, session, page, request, hops>>
  BY DEF SignIn!CallWithBearer, SignIn!SessionExpires, signInVars, SignIn!loginVars,
         SignIn!cookieVars
<1>2. acted' = acted \/ (acted'.login = 0 /\ acted'.stamp = NoTenant)
  <2>1. CASE \E active \in BOOLEAN, claims \in SUBSET Orgs :
               SignIn!CallWithBearer(active, claims)
    <3>1. PICK active \in BOOLEAN, claims \in SUBSET Orgs :
            SignIn!CallWithBearer(active, claims)
      BY <2>1
    <3> QED
      BY <3>1, SignInConstants DEF SignIn!CallWithBearer, SignIn!Nothing
  <2>2. CASE \E n \in 1..MaxLogins : SignIn!SessionExpires(n)
    BY <2>2, SignInConstants DEF SignIn!SessionExpires
  <2>3. CASE UNCHANGED signInVars
    BY <2>3 DEF signInVars
  <2> QED
    BY <2>1, <2>2, <2>3
<1>3. ActedHolds'
  BY <1>1, <1>2 DEF SignInInv, ActedHolds
<1> QED
  BY <1>1, <1>3 DEF SignInInv, SignInType, LoginsNew, Granted, HopsHold

LEMMA SignInKept ==
  ASSUME SignInInv, SignIn!Next \/ UNCHANGED signInVars
  PROVE  SignInInv'
<1>1. ASSUME NEW t \in Tabs, SignIn!Browse(t)
      PROVE  SignInInv'
  BY <1>1, SignInSend, SignInLogin, SignInCallback, SignInEnds, SignInSwitch, SignInLogout,
     SignInPage, SignInWrite DEF SignIn!Browse
<1> QED
  BY <1>1, SignInRest DEF SignIn!Next

LEMMA SignInImply ==
  ASSUME SignInInv
  PROVE  SignIn!TypeOK /\ SignIn!ActsWhereGranted /\ SignIn!RedirectsEnd
<1>1. SignIn!TypeOK
  BY SignInAssumption DEF SignInInv, SignInType, Session, SignIn!TypeOK
<1>2. SignIn!ActsWhereGranted
  BY DEF SignInInv, ActedHolds, Granted, SignIn!ActsWhereGranted, SignIn!Live,
         SignIn!AccessibleTenantIDs
<1>3. SignIn!RedirectsEnd
  BY DEF SignInInv, SignInType, HopsHold, SignIn!RedirectsEnd
<1> QED
  BY <1>1, <1>2, <1>3

LEMMA SignInWorkStep ==
  ASSUME [WorkNext]_allVars, part = "sign-in"
  PROVE  part' = part /\ (SignIn!Next \/ UNCHANGED signInVars)
<1>1. CASE WorkNext
  BY <1>1 DEF WorkNext, ImportStep, SignInStep, AccessStep, MemberStep, TaskStep, BookStep,
              PurchaseStep, AssetStep, SettingsStep, FileStep, OthersRest
<1>2. CASE UNCHANGED allVars
  BY <1>2 DEF allVars
<1> QED
  BY <1>1, <1>2

(* webauth.Guard, tenantPrefixed and guardTenantHeader: whatever tabs      *)
(* switch, log in and out and expire meanwhile, a request acts in a tenant *)
(* its own login found and, from a stamped form, in the tenant of its      *)
(* page; and a page load takes at most three redirects.                    *)
THEOREM TenantActsWhereGranted == WorkSpec => []ActsWhereGranted
<1> DEFINE I == part = "sign-in" => SignInInv
<1>1. WorkInit => I
  BY SignInInit DEF WorkInit
<1>2. I /\ [WorkNext]_allVars => I'
  <2> SUFFICES ASSUME I, [WorkNext]_allVars, part = "sign-in"
               PROVE  SignInInv' /\ part' = part
    BY DEF WorkNext, ImportStep, SignInStep, AccessStep, MemberStep, TaskStep, BookStep,
           PurchaseStep, AssetStep, SettingsStep, FileStep, OthersRest, allVars
  <2> QED
    BY SignInWorkStep, SignInKept
<1>3. I => ActsWhereGranted
  BY SignInImply DEF ActsWhereGranted
<1> QED
  BY <1>1, <1>2, <1>3, PTL DEF WorkSpec

-----------------------------------------------------------------------------
(* Authorization.                                                          *)

AccessReq ==
  [pc : {"idle", "rules", "source", "fields", "write"}, kind : {"edit", "control"},
   roles : SUBSET Roles, can : BOOLEAN, hidden : BOOLEAN,
   source : RecordSources \union {NoSource}, base : Nat, secret : {0, 1}]
AccessType ==
  /\ granted \subseteq Access!Grant /\ rules \subseteq Access!Rule /\ hides \subseteq Roles
  /\ readOnly \subseteq RecordSources /\ owner \in RecordSources \union {NoSource}
  /\ req \in [Users -> AccessReq]
  /\ doc.version \in Nat /\ doc.secret \in {0, 1}
  /\ adminActed \in BOOLEAN
FirstPolicies ==
  /\ granted = FirstGrants /\ rules = FirstRules /\ hides = FirstHides
  /\ delegation = {} /\ readOnly = {}
Approver(u) ==
  \E g \in FirstGrants :
     /\ g.user = u
     /\ \/ g.role = ApproverRole /\ g.dept \in {NoDepartment, JobDepartment}
        \/ g.role = Admin
(* Who is about to write the control plane is an administrator; who writes *)
(* a field he does not see has the value of the version he read.           *)
AccessReqHolds(r) ==
  /\ r.pc # "idle" => r.base <= doc.version
  /\ r.pc \in {"source", "fields"} => r.kind = "edit"
  /\ r.pc = "write" /\ r.kind = "control" /\ ~adminActed => Admin \in r.roles
  /\ r.pc = "write" /\ r.kind = "edit" /\ r.hidden /\ r.base = doc.version =>
       r.secret = doc.secret
AccessInv ==
  /\ AccessType
  /\ ~adminActed => FirstPolicies /\ \A u \in approved : Approver(u)
  /\ \A u \in Users : AccessReqHolds(req[u])

LEMMA AccessInit ==
  ASSUME Access!Init
  PROVE  AccessInv
<1>1. PICK r : r = Access!Idle
  OBVIOUS
<1>2. r \in AccessReq /\ r.pc = "idle"
  BY <1>1 DEF Access!Idle, AccessReq
<1>3. /\ req = [u \in Users |-> r] /\ doc = [plain |-> 0, secret |-> 0, version |-> 0]
      /\ adminActed = FALSE /\ approved = {} /\ FirstPolicies
      /\ owner \in RecordSources \union {NoSource}
  BY <1>1 DEF Access!Init, FirstPolicies
<1>4. AccessType
  BY <1>2, <1>3, AccessAssumption DEF AccessType, FirstPolicies
<1>5. ASSUME NEW u \in Users
      PROVE  AccessReqHolds(req[u])
  BY <1>2, <1>3 DEF AccessReqHolds
<1> QED
  BY <1>3, <1>4, <1>5 DEF AccessInv

(* A step of one request that writes nothing.                              *)
LEMMA AccessReqMoves ==
  ASSUME AccessInv, NEW u \in Users, NEW r \in AccessReq, Access!Set(u, r),
         UNCHANGED <<Access!policyVars, doc, approved, adminActed, changes>>,
         AccessReqHolds(r),
         ~(req[u].pc = "write" /\ req[u].kind = "edit" /\ req[u].hidden /\ r.pc = "idle")
  PROVE  AccessInv' /\ Access!KeepsHidden
<1>1. /\ req \in [Users -> AccessReq] /\ req' = [req EXCEPT ![u] = r]
      /\ req'[u] = r /\ \A v \in Users : v # u => req'[v] = req[v]
      /\ req' \in [Users -> AccessReq]
      /\ UNCHANGED <<granted, rules, hides, delegation, owner, readOnly, doc, approved, adminActed>>
  BY DEF AccessInv, AccessType, Access!Set, Access!policyVars
<1>2. AccessType'
  BY <1>1 DEF AccessInv, AccessType
<1>3. ASSUME NEW v \in Users
      PROVE  AccessReqHolds(req[v])'
  BY <1>1, <1>3 DEF AccessInv, AccessReqHolds
<1>4. ~adminActed' => FirstPolicies' /\ \A v \in approved' : Approver(v)'
  BY <1>1 DEF AccessInv, FirstPolicies, Approver
<1>5. Access!KeepsHidden
  BY <1>1 DEF Access!KeepsHidden
<1> QED
  BY <1>2, <1>3, <1>4, <1>5 DEF AccessInv

LEMMA AccessIdle ==
  Access!Idle \in AccessReq /\ AccessReqHolds(Access!Idle) /\ Access!Idle.pc = "idle"
<1>1. PICK r : r = Access!Idle
  OBVIOUS
<1>2. r \in AccessReq /\ r.pc = "idle"
  BY <1>1 DEF Access!Idle, AccessReq
<1> QED
  BY <1>1, <1>2 DEF AccessReqHolds

LEMMA AccessLoadRoles ==
  ASSUME AccessInv, NEW u \in Users, NEW kind \in {"edit", "control"},
         NEW source \in RecordSources \union {NoSource}, Access!LoadRoles(u, kind, source)
  PROVE  AccessInv' /\ Access!KeepsHidden
<1>1. PICK i \in AccessReq : i = Access!Idle
  BY AccessIdle
<1>2. PICK roles \in SUBSET Roles : roles = Access!RoleCodesForUser(u)
  BY DEF Access!RoleCodesForUser, Access!RoleGrantsForUser, AccessInv, AccessType, Access!Grant
<1>3. PICK base \in Nat : base = doc.version
  BY DEF AccessInv, AccessType
<1>4. PICK r : r = [i EXCEPT !.pc = "rules", !.kind = kind, !.source = source,
                             !.roles = roles, !.base = base]
  OBVIOUS
<1>5. r \in AccessReq /\ r.pc = "rules" /\ r.base = base
  BY <1>4 DEF AccessReq
<1>6. /\ req[u].pc = "idle" /\ Access!Set(u, r)
      /\ UNCHANGED <<Access!policyVars, doc, approved, adminActed, changes>>
  BY <1>1, <1>2, <1>3, <1>4 DEF Access!LoadRoles
<1>7. AccessReqHolds(r)
  BY <1>3, <1>5 DEF AccessReqHolds
<1> QED
  BY <1>5, <1>6, <1>7, AccessReqMoves

(* CanWrite: with an administrator somewhere, and no rule that opens it to *)
(* another role, only administrators may write the control plane.          *)
LEMMA OnlyAdminWritesControl ==
  ASSUME FirstPolicies, NEW roles \in SUBSET Roles, Access!CanWrite(roles, "control")
  PROVE  Admin \in roles
<1>1. Access!RbacConfigured
  BY AccessAssumption DEF FirstPolicies, Access!RbacConfigured
<1> QED
  BY <1>1, AccessAssumption DEF FirstPolicies, Access!CanWrite

LEMMA AccessLoadRules ==
  ASSUME AccessInv, NEW u \in Users, Access!LoadRules(u)
  PROVE  AccessInv' /\ Access!KeepsHidden
<1>1. PICK r \in AccessReq : r = req[u]
  BY DEF AccessInv, AccessType
<1>2. /\ r.pc = "rules" /\ AccessReqHolds(r) /\ r.roles \in SUBSET Roles
      /\ UNCHANGED <<Access!policyVars, doc, approved, adminActed, changes>>
  BY <1>1 DEF Access!LoadRules, AccessInv, AccessReq
<1>3. CASE ~Access!CanWrite(r.roles, Access!Type(r.kind))
  <2>1. Access!Set(u, Access!Idle)
    BY <1>1, <1>3 DEF Access!LoadRules
  <2> QED
    BY <1>1, <1>2, <2>1, AccessIdle, AccessReqMoves
<1>4. CASE Access!CanWrite(r.roles, Access!Type(r.kind))
  <2>1. PICK h \in BOOLEAN : h = Access!HiddenFields(r.roles)
    BY DEF Access!HiddenFields
  <2>2. PICK p \in {"source", "write"} : p = IF r.kind = "edit" THEN "source" ELSE "write"
    OBVIOUS
  <2>3. PICK n : n = [r EXCEPT !.pc = p, !.can = TRUE, !.hidden = h]
    OBVIOUS
  <2>4. n \in AccessReq /\ n.pc = p /\ n.kind = r.kind /\ n.roles = r.roles /\ n.base = r.base
    BY <2>3 DEF AccessReq
  <2>5. Access!Set(u, n)
    BY <1>1, <1>4, <2>1, <2>2, <2>3 DEF Access!LoadRules
  <2>6. r.kind = "control" /\ ~adminActed => Admin \in r.roles
    BY <1>2, <1>4, OnlyAdminWritesControl DEF AccessInv, Access!Type
  <2>7. AccessReqHolds(n)
    BY <1>2, <2>2, <2>4, <2>6 DEF AccessReqHolds
  <2> QED
    BY <1>1, <1>2, <2>4, <2>5, <2>7, AccessReqMoves
<1> QED
  BY <1>3, <1>4

LEMMA AccessCheckSource ==
  ASSUME AccessInv, NEW u \in Users, Access!CheckSource(u)
  PROVE  AccessInv' /\ Access!KeepsHidden
<1>1. PICK r \in AccessReq : r = req[u]
  BY DEF AccessInv, AccessType
<1>2. /\ r.pc = "source" /\ AccessReqHolds(r)
      /\ UNCHANGED <<Access!policyVars, doc, approved, adminActed, changes>>
  BY <1>1 DEF Access!CheckSource, AccessInv
<1>3. CASE Access!Set(u, Access!Idle)
  BY <1>1, <1>2, <1>3, AccessIdle, AccessReqMoves
<1>4. CASE Access!Set(u, [r EXCEPT !.pc = "fields"])
  <2>1. PICK n : n = [r EXCEPT !.pc = "fields"]
    OBVIOUS
  <2>2. n \in AccessReq /\ n.pc = "fields" /\ n.base = r.base /\ n.kind = r.kind
    BY <2>1 DEF AccessReq
  <2>3. AccessReqHolds(n)
    BY <1>2, <2>2 DEF AccessReqHolds
  <2> QED
    BY <1>1, <1>2, <1>4, <2>1, <2>2, <2>3, AccessReqMoves
<1> QED
  BY <1>1, <1>3, <1>4 DEF Access!CheckSource

(* EffectiveWriteFields puts the stored value of a hidden field in.        *)
LEMMA AccessReadStored ==
  ASSUME AccessInv, NEW u \in Users, NEW value \in {Access!Absent, 0, 1},
         Access!ReadStored(u, value)
  PROVE  AccessInv' /\ Access!KeepsHidden
<1>1. PICK r \in AccessReq : r = req[u]
  BY DEF AccessInv, AccessType
<1>2. /\ r.pc = "fields" /\ AccessReqHolds(r)
      /\ UNCHANGED <<Access!policyVars, doc, approved, adminActed, changes>>
  BY <1>1 DEF Access!ReadStored, AccessInv
<1>3. CASE Access!Set(u, Access!Idle)
  BY <1>1, <1>2, <1>3, AccessIdle, AccessReqMoves
<1>4. CASE Access!Set(u, [r EXCEPT !.pc = "write",
                                   !.secret = Access!EffectiveWriteFields(u, value)])
  <2>1. PICK s \in {0, 1} : /\ s = Access!EffectiveWriteFields(u, value)
                            /\ r.hidden => s = doc.secret
    BY <1>1 DEF Access!EffectiveWriteFields, Access!Submitted, Access!Absent, AccessInv, AccessType
  <2>2. PICK n : n = [r EXCEPT !.pc = "write", !.secret = s]
    OBVIOUS
  <2>3. /\ n \in AccessReq /\ n.pc = "write" /\ n.base = r.base /\ n.secret = s
        /\ n.hidden = r.hidden /\ n.kind = r.kind /\ n.roles = r.roles
    BY <2>2 DEF AccessReq
  <2>4. r.kind = "edit"
    BY <1>1, <1>2 DEF AccessReqHolds
  <2>5. AccessReqHolds(n)
    BY <1>2, <2>1, <2>3, <2>4 DEF AccessReqHolds
  <2> QED
    BY <1>1, <1>2, <1>4, <2>1, <2>2, <2>3, <2>5, AccessReqMoves
<1> QED
  BY <1>1, <1>3, <1>4 DEF Access!ReadStored

LEMMA AccessWriteDoc ==
  ASSUME AccessInv, NEW u \in Users, Access!WriteDoc(u)
  PROVE  AccessInv' /\ Access!KeepsHidden
<1>1. PICK r \in AccessReq : r = req[u]
  BY DEF AccessInv, AccessType
<1>2. /\ r.pc = "write" /\ r.kind = "edit" /\ AccessReqHolds(r) /\ Access!Set(u, Access!Idle)
      /\ UNCHANGED <<granted, rules, hides, delegation, owner, readOnly, approved, adminActed>>
  BY <1>1 DEF Access!WriteDoc, AccessInv, Access!policyVars
<1>3. PICK i \in AccessReq : i = Access!Idle /\ i.pc = "idle"
  BY AccessIdle
<1>4. /\ req' \in [Users -> AccessReq] /\ req'[u] = i
      /\ \A v \in Users : v # u => req'[v] = req[v]
  BY <1>2, <1>3 DEF AccessInv, AccessType, Access!Set
<1>5. /\ \/ doc' = doc
         \/ /\ r.base = doc.version /\ doc'.secret = r.secret
            /\ doc'.version = doc.version + 1
  BY <1>1 DEF Access!WriteDoc, Access!SameVersion
<1>6. r.secret \in {0, 1} /\ r.base \in Nat /\ doc.version \in Nat
  BY DEF AccessReq, AccessInv, AccessType
<1>7. AccessType'
  BY <1>2, <1>4, <1>5, <1>6 DEF AccessInv, AccessType
<1>8. ASSUME NEW v \in Users
      PROVE  AccessReqHolds(req[v])'
  <2>1. CASE v = u
    BY <1>3, <1>4, <2>1 DEF AccessReqHolds
  <2>2. CASE v # u
    <3>1. AccessReqHolds(req[v]) /\ req[v].base \in Nat
      BY DEF AccessInv, AccessType, AccessReq
    <3> QED
      BY <1>2, <1>4, <1>5, <1>6, <2>2, <3>1 DEF AccessReqHolds
  <2> QED
    BY <2>1, <2>2
<1>9. ~adminActed' => FirstPolicies' /\ \A v \in approved' : Approver(v)'
  BY <1>2 DEF AccessInv, FirstPolicies, Approver
<1>10. Access!KeepsHidden
  <2> SUFFICES ASSUME NEW v \in Users, req[v].pc = "write", req'[v].pc = "idle",
                      req[v].kind = "edit", req[v].hidden
               PROVE  doc'.secret = doc.secret
    BY DEF Access!KeepsHidden
  <2>1. v = u
    BY <1>4
  <2> QED
    BY <1>1, <1>2, <1>5, <2>1 DEF AccessReqHolds
<1> QED
  BY <1>7, <1>8, <1>9, <1>10 DEF AccessInv

LEMMA AccessWriteControl ==
  ASSUME AccessInv, NEW u \in Users, Access!WriteControl(u)
  PROVE  AccessInv' /\ Access!KeepsHidden
<1>1. PICK r \in AccessReq : r = req[u]
  BY DEF AccessInv, AccessType
<1>2. /\ r.pc = "write" /\ r.kind = "control" /\ AccessReqHolds(r)
      /\ Access!Set(u, Access!Idle) /\ UNCHANGED <<owner, doc, approved>>
  BY <1>1 DEF Access!WriteControl, AccessInv
<1>3. adminActed' \in BOOLEAN /\ adminActed'
  <2>1. adminActed' = (adminActed \/ Admin \in r.roles)
    BY <1>1 DEF Access!WriteControl
  <2>2. adminActed \/ Admin \in r.roles
    BY <1>2 DEF AccessReqHolds
  <2> QED
    BY <2>1, <2>2
<1>4. PICK i \in AccessReq : i = Access!Idle /\ i.pc = "idle"
  BY AccessIdle
<1>5. /\ req' \in [Users -> AccessReq] /\ req'[u] = i
      /\ \A v \in Users : v # u => req'[v] = req[v]
  BY <1>2, <1>4 DEF AccessInv, AccessType, Access!Set
<1>6. granted' \subseteq Access!Grant
  <2>1. granted' = granted
           \/ \E g \in Access!Grant : granted' \in {granted \union {g}, granted \ {g}}
    BY DEF Access!WriteControl
  <2> QED
    BY <2>1 DEF AccessInv, AccessType
<1>7. rules' \subseteq Access!Rule
  <2>1. rules' = rules \/ \E x \in Access!Rule : rules' \in {rules \union {x}, rules \ {x}}
    BY DEF Access!WriteControl
  <2> QED
    BY <2>1 DEF AccessInv, AccessType
<1>8. hides' \subseteq Roles /\ readOnly' \subseteq RecordSources
  <2>1. hides' = hides \/ \E x \in Roles : hides' \in {hides \union {x}, hides \ {x}}
    BY DEF Access!WriteControl
  <2>2. readOnly' = readOnly
           \/ \E s \in RecordSources : readOnly' \in {readOnly \union {s}, readOnly \ {s}}
    BY DEF Access!WriteControl
  <2> QED
    BY <2>1, <2>2 DEF AccessInv, AccessType
<1>9. AccessType'
  BY <1>2, <1>3, <1>5, <1>6, <1>7, <1>8 DEF AccessInv, AccessType
<1>10. ASSUME NEW v \in Users
       PROVE  AccessReqHolds(req[v])'
  BY <1>2, <1>3, <1>4, <1>5 DEF AccessInv, AccessReqHolds
<1>11. Access!KeepsHidden
  BY <1>1, <1>2, <1>5 DEF Access!KeepsHidden
<1> QED
  BY <1>3, <1>9, <1>10, <1>11 DEF AccessInv

(* UserMayApprove, while nothing has been delegated.                       *)
LEMMA AccessApprove ==
  ASSUME AccessInv, NEW u \in Users, NEW escalated \in BOOLEAN, Access!Approve(u, escalated)
  PROVE  AccessInv' /\ Access!KeepsHidden
<1>1. /\ approved' = approved \union {u}
      /\ UNCHANGED <<granted, rules, hides, delegation, owner, readOnly, doc, req, adminActed>>
      /\ Access!UserMayApprove(u, ApproverRole, JobDepartment, escalated, Admin)
  BY DEF Access!Approve, Access!policyVars
<1>2. ASSUME ~adminActed
      PROVE  Approver(u)
  <2>1. FirstPolicies
    BY <1>2 DEF AccessInv
  <2>2. {u} \union Access!ActiveDelegatorsFor(u) = {u}
    BY <2>1 DEF FirstPolicies, Access!ActiveDelegatorsFor
  <2>3. CASE Access!UserMeetsApproval(u, ApproverRole, JobDepartment)
    <3>1. ApproverRole \in Access!RoleCodesForUserInDepartment(u, JobDepartment)
      BY <2>2, <2>3, AccessAssumption DEF Access!UserMeetsApproval
    <3> QED
      BY <2>1, <3>1 DEF FirstPolicies, Approver, Access!RoleCodesForUserInDepartment,
                        Access!RoleGrantsForUser
  <2>4. CASE Access!UserMeetsApproval(u, Admin, NoDepartment)
    <3>1. Admin \in Access!RoleCodesForUser(u)
      BY <2>2, <2>4 DEF Access!UserMeetsApproval
    <3> QED
      BY <2>1, <3>1 DEF FirstPolicies, Approver, Access!RoleCodesForUser,
                        Access!RoleGrantsForUser
  <2> QED
    BY <1>1, <2>3, <2>4 DEF Access!UserMayApprove
<1>3. AccessType'
  BY <1>1 DEF AccessInv, AccessType
<1>4. ASSUME NEW v \in Users
      PROVE  AccessReqHolds(req[v])'
  BY <1>1 DEF AccessInv, AccessReqHolds
<1>5. ~adminActed' => FirstPolicies' /\ \A v \in approved' : Approver(v)'
  BY <1>1, <1>2 DEF AccessInv, FirstPolicies, Approver
<1>6. Access!KeepsHidden
  BY <1>1 DEF Access!KeepsHidden
<1> QED
  BY <1>3, <1>4, <1>5, <1>6 DEF AccessInv

LEMMA AccessKept ==
  ASSUME AccessInv, Access!Next \/ UNCHANGED accessVars
  PROVE  AccessInv' /\ Access!KeepsHidden
<1>1. CASE UNCHANGED accessVars
  <2>1. UNCHANGED <<granted, rules, hides, delegation, owner, readOnly, doc, req, approved,
                    adminActed>>
    BY <1>1 DEF accessVars
  <2> QED
    BY <2>1 DEF AccessInv, AccessType, FirstPolicies, Approver, AccessReqHolds,
                Access!KeepsHidden
<1>2. CASE Access!Next
  BY <1>2, AccessLoadRoles, AccessLoadRules, AccessCheckSource, AccessReadStored,
     AccessWriteDoc, AccessWriteControl, AccessApprove DEF Access!Next
<1> QED
  BY <1>1, <1>2

LEMMA AccessImply ==
  ASSUME AccessInv
  PROVE  Access!TypeOK /\ Access!NoSelfPromotion
BY DEF AccessInv, AccessType, FirstPolicies, Approver, AccessReq, Access!TypeOK,
       Access!NoSelfPromotion

LEMMA AccessWorkStep ==
  ASSUME [WorkNext]_allVars, part = "access"
  PROVE  part' = part /\ (Access!Next \/ UNCHANGED accessVars)
<1>1. CASE WorkNext
  BY <1>1 DEF WorkNext, ImportStep, SignInStep, AccessStep, MemberStep, TaskStep, BookStep,
              PurchaseStep, AssetStep, SettingsStep, FileStep, OthersRest
<1>2. CASE UNCHANGED allVars
  BY <1>2 DEF allVars
<1> QED
  BY <1>1, <1>2

-----------------------------------------------------------------------------
(* The member page.                                                        *)

MemberPcs == {"idle", "lookup", "roles", "read", "validate", "create", "grant", "mint",
              "leave", "rows", "clean", "insert", "delete"}
MemberReq ==
  [pc : MemberPcs, kind : Members!Kinds, target : People, role : Roles,
   row : 0..MaxRoleRows, grant : 0..MaxGrants, created : BOOLEAN,
   left : SUBSET (1..MaxRoleRows)]
RoleRow == [user : People, role : Roles, live : BOOLEAN]
MemberUsed ==
  [row : 0..MaxRoleRows, grant : 0..MaxGrants, code : Nat, request : 0..MaxRequests]
USE DEF MemberUsed

(* The users with a request under way.                                     *)
UnderWay == {u \in People : memberReq[u].pc # "idle"}
MembersType ==
  /\ FirstAdmins \subseteq orgAccount /\ orgAccount \subseteq People
  /\ signedIn \subseteq orgAccount
  /\ memberGrant \in [People -> 0..MaxGrants] /\ code \in [People -> Nat]
  /\ userRole \in [1..MaxRoleRows -> RoleRow]
  /\ memberReq \in [People -> MemberReq]
  /\ used \in MemberUsed
  /\ failures \in [ended : Nat, record : Nat]
  /\ failures.ended + failures.record <= MaxMemberFaults
  /\ overlapped \in BOOLEAN
  /\ \A u \in People : memberGrant[u] # 0 => u \in orgAccount

(* A request mints one code at most.                                       *)
CodesCount ==
  /\ IsFiniteSet(UnderWay) /\ used.code + Cardinality(UnderWay) <= used.request
  /\ \A u \in People : code[u] <= used.code

Holds(u, role) ==
  \E n \in 1..MaxRoleRows :
     userRole[n].live /\ userRole[n].user = u /\ userRole[n].role = role

(* Requests one after the other: the one under way is an administrator's.  *)
OneByOne ==
  ~overlapped =>
    /\ \E u \in People : Holds(u, Admin)
    /\ \A u \in People : memberReq[u].pc # "idle" =>
         Holds(u, Admin) /\ \A v \in People : memberReq[v].pc # "idle" => v = u

(* A user holds a role once.                                               *)
NotStacked ==
  ~overlapped /\ failures.record = 0 =>
    \A m, n \in 1..MaxRoleRows :
       /\ m # n /\ userRole[m].live /\ userRole[n].live
       /\ userRole[m].user = userRole[n].user
       => userRole[m].role # userRole[n].role

(* Rows past the last number have not been created.                        *)
RowsNumbered == \A n \in 1..MaxRoleRows : n > used.row => ~userRole[n].live

(* A step leaves row n with its user and his role.                         *)
SameRole(n) == userRole'[n].user = userRole[n].user /\ userRole'[n].role = userRole[n].role
USE DEF SameRole

(* What a request of u has read is still so.                               *)
MemberHolds(u, q) ==
  /\ q.pc # "idle" /\ q.kind = "remove" => q.target # u
  /\ q.pc \in {"leave", "rows", "clean"} => q.kind = "remove"
  /\ q.pc = "clean" =>
       \A n \in q.left : n <= used.row /\ userRole[n].user = q.target
  /\ q.pc \in {"read", "delete"} => q.row # 0 /\ q.row <= used.row
  /\ q.pc = "delete" => ~(userRole[q.row].user = u /\ userRole[q.row].role = Admin)
  /\ q.pc = "grant" => q.target \in orgAccount
  /\ ~overlapped /\ failures.record = 0 /\ q.pc = "insert" => ~Holds(q.target, q.role)

MembersInv ==
  /\ MembersType /\ CodesCount /\ OneByOne /\ NotStacked /\ RowsNumbered
  /\ \A u \in People : MemberHolds(u, memberReq[u])

LEMMA MembersConstants ==
  /\ Members!Idle \in MemberReq /\ Members!Idle.pc = "idle"
  /\ Members!Free \in RoleRow /\ ~Members!Free.live
  /\ Cardinality(FirstAdmins) \in Nat
  /\ \A S : Members!Cardinality(S) = Cardinality(S)
<1>1. PICK p \in People : p = CHOOSE u \in People : TRUE
  BY MembersAssumption
<1>2. PICK r : r = Members!Idle
  OBVIOUS
<1>3. r \in MemberReq /\ r.pc = "idle"
  BY <1>1, <1>2, MembersAssumption DEF Members!Idle, MemberReq, MemberPcs, Members!Kinds
<1>4. Members!Free \in RoleRow /\ ~Members!Free.live
  BY <1>1, MembersAssumption DEF Members!Free, RoleRow
<1>5. Cardinality(FirstAdmins) \in Nat
  BY MembersAssumption, FS_CardinalityType
<1>6. \A S : Members!Cardinality(S) = Cardinality(S)
  BY DEF Members!Cardinality, Cardinality
<1> QED
  BY <1>2, <1>3, <1>4, <1>5, <1>6

(* The rows that provisioning leaves can be numbered.                      *)
LEMMA MembersNumbered ==
  Members!Numbers \in [FirstAdmins -> 1..Cardinality(FirstAdmins)]
<1> DEFINE k == Cardinality(FirstAdmins)
<1>1. PICK g \in Bijection(1..k, FirstAdmins) : TRUE
  BY MembersAssumption, FS_CardinalityType DEF ExistsBijection
<1>2. /\ g \in [1..k -> FirstAdmins]
      /\ \A u \in FirstAdmins : \E n \in 1..k : g[n] = u
  BY <1>1 DEF Bijection, Injection, Surjection
<1> DEFINE f == [u \in FirstAdmins |-> CHOOSE n \in 1..k : g[n] = u]
<1>3. \A u \in FirstAdmins : f[u] \in 1..k /\ g[f[u]] = u
  BY <1>2
<1>4. f \in [FirstAdmins -> 1..k] /\ \A u, v \in FirstAdmins : u # v => f[u] # f[v]
  BY <1>3
<1>5. 1..Members!Cardinality(FirstAdmins) = 1..k
  BY MembersConstants
<1> HIDE DEF f, k
<1> QED
  BY <1>4, <1>5 DEF Members!Numbers, k

LEMMA MembersInit ==
  ASSUME Members!Init
  PROVE  MembersInv
<1> DEFINE k == Cardinality(FirstAdmins)
<1>1. /\ k \in Nat /\ k <= MaxRoleRows /\ k <= MaxGrants
      /\ Members!Cardinality(FirstAdmins) = k
      /\ \A u \in FirstAdmins : Members!Numbers[u] \in 1..k
  BY MembersNumbered, MembersConstants, MembersAssumption
<1> HIDE DEF k
<1>2. PICK i \in MemberReq : i = Members!Idle /\ i.pc = "idle"
  BY MembersConstants
<1>3. PICK x \in RoleRow : x = Members!Free /\ ~x.live
  BY MembersConstants
<1>4. /\ orgAccount = FirstAdmins /\ signedIn = FirstAdmins
      /\ memberGrant = [u \in People |-> IF u \in FirstAdmins THEN Members!Numbers[u] ELSE 0]
      /\ code = [u \in People |-> 0] /\ memberReq = [u \in People |-> i]
      /\ used = [row |-> k, grant |-> k, code |-> 0, request |-> 0]
      /\ failures = [ended |-> 0, record |-> 0] /\ overlapped = FALSE
      /\ userRole = [n \in 1..MaxRoleRows |->
           IF \E u \in FirstAdmins : Members!Numbers[u] = n
             THEN [user |-> CHOOSE u \in FirstAdmins : Members!Numbers[u] = n,
                   role |-> Admin, live |-> TRUE]
             ELSE x]
  BY <1>1, <1>2, <1>3 DEF Members!Init
<1>5. ASSUME NEW n \in 1..MaxRoleRows
      PROVE  \/ userRole[n] = x /\ \A u \in FirstAdmins : Members!Numbers[u] # n
             \/ \E u \in FirstAdmins :
                  /\ userRole[n] = [user |-> u, role |-> Admin, live |-> TRUE]
                  /\ Members!Numbers[u] = n
  BY <1>4
<1>6. userRole \in [1..MaxRoleRows -> RoleRow]
  <2>1. ASSUME NEW n \in 1..MaxRoleRows
        PROVE  userRole[n] \in RoleRow
    <3>1. CASE userRole[n] = x
      BY <1>3, <3>1
    <3>2. CASE userRole[n] # x
      <4>1. PICK u \in FirstAdmins : userRole[n] = [user |-> u, role |-> Admin, live |-> TRUE]
        BY <1>5, <3>2
      <4>2. u \in People /\ Admin \in Roles
        BY MembersAssumption
      <4> QED
        BY <4>1, <4>2 DEF RoleRow
    <3> QED
      BY <3>1, <3>2
  <2> QED
    BY <1>4, <2>1
<1>7. MembersType
  <2>1. memberGrant \in [People -> 0..MaxGrants]
    BY <1>1, <1>4, MembersAssumption
  <2>2. /\ used \in MemberUsed
        /\ failures \in [ended : Nat, record : Nat] /\ failures.ended + failures.record <= MaxMemberFaults
    BY <1>1, <1>4, MembersAssumption
  <2>3. code \in [People -> Nat] /\ memberReq \in [People -> MemberReq]
    BY <1>4
  <2>4. \A u \in People : memberGrant[u] # 0 => u \in orgAccount
    BY <1>4
  <2> QED
    BY <1>4, <1>6, <2>1, <2>2, <2>3, <2>4, MembersAssumption DEF MembersType
<1>8. CodesCount
  <2>1. UnderWay = {}
    BY <1>2, <1>4 DEF UnderWay
  <2> QED
    BY <1>4, <2>1, FS_EmptySet DEF CodesCount
<1>9. OneByOne
  <2>1. PICK u \in FirstAdmins : TRUE
    BY MembersAssumption
  <2>2. PICK n \in 1..MaxRoleRows : n = Members!Numbers[u]
    BY <1>1, MembersAssumption
  <2>3. PICK v \in FirstAdmins : userRole[n] = [user |-> v, role |-> Admin, live |-> TRUE]
    BY <1>5, <2>2
  <2>4. v \in People /\ Holds(v, Admin)
    BY <2>3, MembersAssumption DEF Holds
  <2>5. \A w \in People : memberReq[w].pc = "idle"
    BY <1>2, <1>4
  <2> QED
    BY <2>4, <2>5 DEF OneByOne
<1>10. NotStacked
  <2>1. ASSUME NEW m \in 1..MaxRoleRows, NEW n \in 1..MaxRoleRows, m # n,
               userRole[m].live, userRole[n].live, userRole[m].user = userRole[n].user
        PROVE  FALSE
    <3>1. userRole[m] # x /\ userRole[n] # x
      BY <1>3, <2>1
    <3>2. PICK u \in FirstAdmins : /\ userRole[m] = [user |-> u, role |-> Admin, live |-> TRUE]
                                  /\ Members!Numbers[u] = m
      BY <1>5, <3>1
    <3>3. PICK v \in FirstAdmins : /\ userRole[n] = [user |-> v, role |-> Admin, live |-> TRUE]
                                  /\ Members!Numbers[v] = n
      BY <1>5, <3>1
    <3>4. u = v
      BY <2>1, <3>2, <3>3
    <3> QED
      BY <2>1, <3>2, <3>3, <3>4
  <2> QED
    BY <2>1 DEF NotStacked
<1>11. RowsNumbered
  BY <1>1, <1>3, <1>4, <1>5 DEF RowsNumbered
<1>12. ASSUME NEW u \in People
       PROVE  MemberHolds(u, memberReq[u])
  BY <1>2, <1>4 DEF MemberHolds
<1> QED
  BY <1>7, <1>8, <1>9, <1>10, <1>11, <1>12 DEF MembersInv

(* The bookkeeping of a step of a request of u, which goes on as q.        *)
LEMMA MembersRequest ==
  ASSUME MembersInv, NEW u \in People, NEW q \in MemberReq, memberReq[u].pc # "idle",
         memberReq' = [memberReq EXCEPT ![u] = q],
         used'.request = used.request, used'.code \in Nat,
         used'.code = used.code \/ (q.pc = "idle" /\ used'.code = used.code + 1),
         \A v \in People : code'[v] <= used'.code
  PROVE  /\ CodesCount' /\ memberReq' \in [People -> MemberReq] /\ memberReq'[u] = q
         /\ \A v \in People : v # u => memberReq'[v] = memberReq[v]
<1>1. /\ memberReq \in [People -> MemberReq] /\ IsFiniteSet(UnderWay)
      /\ used.code + Cardinality(UnderWay) <= used.request
      /\ used.code \in Nat /\ used.request \in Nat
  BY MembersAssumption DEF MembersInv, MembersType, CodesCount
<1>2. /\ memberReq' \in [People -> MemberReq] /\ memberReq'[u] = q
      /\ \A v \in People : v # u => memberReq'[v] = memberReq[v]
  BY <1>1
<1>3. CASE q.pc # "idle"
  <2>1. UnderWay' = UnderWay
    BY <1>2, <1>3 DEF UnderWay
  <2> QED
    BY <1>1, <1>2, <1>3, <2>1 DEF CodesCount
<1>4. CASE q.pc = "idle"
  <2>1. UnderWay' = UnderWay \ {u} /\ u \in UnderWay
    BY <1>2, <1>4 DEF UnderWay
  <2>2. Cardinality(UnderWay) \in Nat
    BY <1>1, FS_CardinalityType
  <2>3. IsFiniteSet(UnderWay') /\ Cardinality(UnderWay') = Cardinality(UnderWay) - 1
    BY <1>1, <2>1, FS_RemoveElement
  <2>4. used'.code + Cardinality(UnderWay') <= used'.request
    BY <1>1, <2>2, <2>3
  <2> QED
    BY <1>2, <2>3, <2>4 DEF CodesCount
<1> QED
  BY <1>2, <1>3, <1>4

(* What a request of another user has read is still so.                    *)
LEMMA MembersOthers ==
  ASSUME MembersInv, NEW u \in People, memberReq[u].pc # "idle",
         NEW v \in People, v # u, memberReq'[v] = memberReq[v],
         used'.row \in Nat, used.row <= used'.row,
         overlapped' = overlapped, orgAccount \subseteq orgAccount',
         \A n \in 1..MaxRoleRows :
           n <= used.row => SameRole(n)
  PROVE  MemberHolds(v, memberReq[v])'
<1>1. PICK p \in MemberReq : p = memberReq[v]
  BY DEF MembersInv, MembersType
<1>2. MemberHolds(v, p) /\ used.row \in 0..MaxRoleRows
  BY <1>1 DEF MembersInv, MembersType
<1>3. /\ p.row \in 0..MaxRoleRows /\ p.left \in SUBSET (1..MaxRoleRows) /\ MaxRoleRows \in Nat
  BY <1>1, MembersAssumption DEF MemberReq
<1>4. p.pc # "idle" => overlapped
  BY <1>1 DEF MembersInv, OneByOne
<1>5. /\ p.pc = "clean" =>
           \A n \in p.left : n <= used'.row /\ userRole'[n].user = p.target
      /\ p.pc \in {"read", "delete"} => p.row # 0 /\ p.row <= used'.row
      /\ p.pc = "delete" => ~(userRole'[p.row].user = v /\ userRole'[p.row].role = Admin)
  BY <1>2, <1>3 DEF MemberHolds
<1>6. /\ p.pc # "idle" /\ p.kind = "remove" => p.target # v
      /\ p.pc \in {"leave", "rows", "clean"} => p.kind = "remove"
      /\ p.pc = "grant" => p.target \in orgAccount'
      /\ p.pc = "insert" => overlapped'
  BY <1>2, <1>4 DEF MemberHolds
<1>7. MemberHolds(v, p)'
  BY <1>5, <1>6 DEF MemberHolds
<1> QED
  BY <1>1, <1>7

(* A step of a request of u.                                               *)
LEMMA MembersStep ==
  ASSUME MembersInv, NEW u \in People, NEW q \in MemberReq, memberReq[u].pc # "idle",
         memberReq' = [memberReq EXCEPT ![u] = q],
         used'.request = used.request, used'.code \in Nat,
         used'.code = used.code \/ (q.pc = "idle" /\ used'.code = used.code + 1),
         \A v \in People : code'[v] <= used'.code,
         used'.row \in Nat, used.row <= used'.row,
         overlapped' = overlapped, orgAccount \subseteq orgAccount',
         \A n \in 1..MaxRoleRows :
           n <= used.row => SameRole(n),
         MembersType', NotStacked', RowsNumbered', MemberHolds(u, q)',
         Holds(u, Admin) => Holds(u, Admin)'
  PROVE  MembersInv'
<1>1. /\ CodesCount' /\ memberReq'[u] = q
      /\ \A v \in People : v # u => memberReq'[v] = memberReq[v]
  BY MembersRequest
<1>2. ASSUME NEW v \in People, v # u
      PROVE  MemberHolds(v, memberReq[v])'
  <2>1. memberReq'[v] = memberReq[v]
    BY <1>1, <1>2
  <2> QED
    BY <1>2, <2>1, MembersOthers
<1>3. ASSUME NEW v \in People
      PROVE  MemberHolds(v, memberReq[v])'
  BY <1>1, <1>2
<1>4. OneByOne'
  <2>1. ~overlapped => Holds(u, Admin) /\ \A v \in People : v # u => memberReq[v].pc = "idle"
    BY DEF MembersInv, OneByOne
  <2>2. ~overlapped' => Holds(u, Admin)' /\ \A v \in People : v # u => memberReq'[v].pc = "idle"
    BY <1>1, <2>1
  <2> QED
    BY <2>2 DEF OneByOne
<1> QED
  BY <1>1, <1>3, <1>4 DEF MembersInv

(* A step of a request of u that leaves the rows as they are.              *)
LEMMA MembersMove ==
  ASSUME MembersInv, NEW u \in People, NEW q \in MemberReq, memberReq[u].pc # "idle",
         memberReq' = [memberReq EXCEPT ![u] = q],
         UNCHANGED <<userRole, overlapped, signedIn>>,
         used' \in MemberUsed,
         used'.row = used.row, used'.request = used.request,
         used'.code = used.code \/ (q.pc = "idle" /\ used'.code = used.code + 1),
         code' \in [People -> Nat], \A v \in People : code'[v] <= used'.code,
         orgAccount \subseteq orgAccount', orgAccount' \subseteq People,
         memberGrant' \in [People -> 0..MaxGrants],
         \A v \in People : memberGrant'[v] # 0 => v \in orgAccount',
         failures' \in [ended : Nat, record : Nat],
         failures'.ended + failures'.record <= MaxMemberFaults,
         failures.record <= failures'.record,
         MemberHolds(u, q)'
  PROVE  MembersInv'
<1>1. /\ MembersType /\ NotStacked /\ RowsNumbered /\ used.row \in 0..MaxRoleRows
      /\ failures.record \in Nat /\ failures'.record \in Nat
  BY DEF MembersInv, MembersType
<1>2. memberReq' \in [People -> MemberReq]
  BY <1>1 DEF MembersType
<1>3. MembersType'
  BY <1>1, <1>2 DEF MembersType
<1>4. NotStacked'
  <2>1. ~overlapped' /\ failures'.record = 0 => ~overlapped /\ failures.record = 0
    BY <1>1
  <2> QED
    BY <1>1, <2>1 DEF NotStacked
<1>5. RowsNumbered'
  BY <1>1 DEF RowsNumbered
<1>6. Holds(u, Admin) => Holds(u, Admin)'
  BY DEF Holds
<1>7. /\ used'.code \in Nat /\ used'.row \in Nat /\ used.row <= used'.row
  BY <1>1, MembersAssumption
<1> QED
  BY <1>3, <1>4, <1>5, <1>6, <1>7, MembersStep

(* The row of a removed or revoked role is deleted.                        *)
LEMMA MembersDie ==
  ASSUME MembersInv, NEW u \in People, NEW q \in MemberReq, memberReq[u].pc # "idle",
         NEW n \in 1..MaxRoleRows, n <= used.row,
         ~(userRole[n].user = u /\ userRole[n].role = Admin),
         Members!Die(n), memberReq' = [memberReq EXCEPT ![u] = q],
         UNCHANGED <<orgAccount, memberGrant, code, signedIn, used, failures, overlapped>>,
         q.pc # "insert", MemberHolds(u, q)
  PROVE  MembersInv'
<1>1. /\ MembersType /\ NotStacked /\ RowsNumbered /\ MaxRoleRows \in Nat
      /\ userRole \in [1..MaxRoleRows -> RoleRow] /\ used.row \in 0..MaxRoleRows
  BY MembersAssumption DEF MembersInv, MembersType
<1>2. PICK x \in RoleRow : x = userRole[n]
  BY <1>1
<1>3. PICK y : y = [x EXCEPT !.live = FALSE]
  OBVIOUS
<1>4. y \in RoleRow /\ y.user = x.user /\ y.role = x.role /\ ~y.live
  BY <1>3 DEF RoleRow
<1>5. userRole' = [userRole EXCEPT ![n] = y]
  BY <1>2, <1>3 DEF Members!Die
<1>6. /\ userRole' \in [1..MaxRoleRows -> RoleRow]
      /\ \A m \in 1..MaxRoleRows :
           /\ userRole'[m].user = userRole[m].user /\ userRole'[m].role = userRole[m].role
           /\ userRole'[m].live => m # n /\ userRole[m].live
           /\ m # n => userRole'[m] = userRole[m]
  BY <1>1, <1>2, <1>4, <1>5
<1>7. MembersType'
  <2>1. memberReq' \in [People -> MemberReq]
    BY <1>1 DEF MembersType
  <2> QED
    BY <1>1, <1>6, <2>1 DEF MembersType
<1>8. NotStacked' /\ RowsNumbered'
  BY <1>1, <1>6 DEF NotStacked, RowsNumbered
<1>9. Holds(u, Admin) => Holds(u, Admin)'
  BY <1>6 DEF Holds
<1>10. MemberHolds(u, q)'
  <2>1. q.left \in SUBSET (1..MaxRoleRows) /\ q.row \in 0..MaxRoleRows
    BY DEF MemberReq
  <2> QED
    BY <1>1, <1>6, <2>1 DEF MemberHolds
<1>11. /\ used'.code \in Nat /\ used'.row \in Nat /\ used.row <= used'.row
       /\ \A v \in People : code'[v] <= used'.code
  BY <1>1 DEF MembersInv, MembersType, CodesCount
<1> QED
  BY <1>6, <1>7, <1>8, <1>9, <1>10, <1>11, MembersStep

LEMMA MembersRemoval ==
  ASSUME MembersInv, NEW u \in People, NEW q \in MemberReq,
         memberReq' = [memberReq EXCEPT ![u] = q],
         \/ memberReq[u].pc # "clean" \/ q.pc # "idle" \/ failures'.ended # failures.ended
         \/ Members!Cardinality(memberReq[u].left) <= 1
  PROVE  Members!RemovalGoesOn
<1>1. memberReq'[u] = q /\ \A v \in People : v # u => memberReq'[v] = memberReq[v]
  BY DEF MembersInv, MembersType
<1> QED
  BY <1>1 DEF Members!RemovalGoesOn

(* A step of a request of u that changes none but itself and the faults.   *)
LEMMA MembersQuiet ==
  ASSUME MembersInv, NEW u \in People, NEW q \in MemberReq, memberReq[u].pc # "idle",
         memberReq' = [memberReq EXCEPT ![u] = q],
         UNCHANGED <<orgAccount, memberGrant, code, userRole, signedIn, used, overlapped>>,
         failures' \in [ended : Nat, record : Nat],
         failures'.ended + failures'.record <= MaxMemberFaults,
         failures.record <= failures'.record,
         MemberHolds(u, q)'
  PROVE  MembersInv'
<1>1. /\ MembersType /\ CodesCount
  BY DEF MembersInv
<1>2. /\ used' \in MemberUsed
      /\ used'.row = used.row /\ used'.request = used.request /\ used'.code = used.code
      /\ code' \in [People -> Nat] /\ \A v \in People : code'[v] <= used'.code
  BY <1>1 DEF MembersType, CodesCount
<1>3. /\ orgAccount \subseteq orgAccount' /\ orgAccount' \subseteq People
      /\ memberGrant' \in [People -> 0..MaxGrants]
      /\ \A v \in People : memberGrant'[v] # 0 => v \in orgAccount'
  BY <1>1 DEF MembersType
<1> QED
  BY <1>2, <1>3, MembersMove

LEMMA MembersUnfailing ==
  ASSUME MembersInv, failures' = failures
  PROVE  /\ failures' \in [ended : Nat, record : Nat]
         /\ failures'.ended + failures'.record <= MaxMemberFaults
         /\ failures.record <= failures'.record
BY DEF MembersInv, MembersType

LEMMA MembersFault ==
  ASSUME MembersInv, NEW kind \in {"ended", "record"}, Members!Fault(kind)
  PROVE  /\ failures' \in [ended : Nat, record : Nat]
         /\ failures'.ended + failures'.record <= MaxMemberFaults
         /\ failures.record <= failures'.record
         /\ kind = "record" => failures'.record # 0
         /\ kind = "ended" => failures'.ended # failures.ended
<1>1. failures \in [ended : Nat, record : Nat] /\ MaxMemberFaults \in Nat
  BY MembersAssumption DEF MembersInv, MembersType
<1>2. /\ failures.ended + failures.record < MaxMemberFaults
      /\ failures' = [failures EXCEPT ![kind] = @ + 1]
  BY DEF Members!Fault
<1>3. CASE kind = "record"
  <2>1. failures' = [failures EXCEPT !.record = @ + 1]
    BY <1>2, <1>3
  <2> QED
    BY <1>1, <1>2, <1>3, <2>1
<1>4. CASE kind = "ended"
  <2>1. failures' = [failures EXCEPT !.ended = @ + 1]
    BY <1>2, <1>4
  <2> QED
    BY <1>1, <1>2, <1>4, <2>1
<1> QED
  BY <1>3, <1>4

LEMMA MembersGoto ==
  ASSUME NEW r \in MemberReq, NEW x \in MemberPcs,
         NEW q, q = [r EXCEPT !.pc = x]
  PROVE  /\ q \in MemberReq /\ q.pc = x /\ q.kind = r.kind /\ q.target = r.target
         /\ q.role = r.role /\ q.row = r.row /\ q.grant = r.grant /\ q.created = r.created
         /\ q.left = r.left
BY DEF MemberReq

LEMMA MembersEnd ==
  ASSUME NEW u \in People, NEW q, q.pc = "idle"
  PROVE  MemberHolds(u, q)'
BY DEF MemberHolds

LEMMA MembersLookup ==
  ASSUME MembersInv, NEW u \in People, Members!LookupUserByEmail(u)
  PROVE  MembersInv' /\ Members!RemovalGoesOn
<1>1. PICK r \in MemberReq : r = memberReq[u]
  BY DEF MembersInv, MembersType
<1>2. PICK x \in MemberPcs : x = IF r.target \in orgAccount THEN "grant" ELSE "create"
  BY DEF MemberPcs
<1>3. PICK q : q = [r EXCEPT !.pc = x]
  OBVIOUS
<1>4. /\ r.pc = "lookup" /\ memberReq' = [memberReq EXCEPT ![u] = q]
      /\ UNCHANGED <<orgAccount, memberGrant, code, userRole, signedIn, used, failures, overlapped>>
  BY <1>1, <1>2, <1>3 DEF Members!LookupUserByEmail, Members!Goto, Members!Set,
                          Members!Quiet, Members!idVars
<1>5. /\ q \in MemberReq /\ q.pc = x /\ q.kind = r.kind /\ q.target = r.target
  BY <1>3, MembersGoto
<1>6. MemberHolds(u, r)
  BY <1>1 DEF MembersInv
<1>7. MemberHolds(u, q)'
  BY <1>2, <1>4, <1>5, <1>6 DEF MemberHolds
<1>8. MembersInv'
  BY <1>1, <1>4, <1>5, <1>7, MembersUnfailing, MembersQuiet
<1> QED
  BY <1>1, <1>4, <1>5, <1>8, MembersRemoval

LEMMA MembersCreate ==
  ASSUME MembersInv, NEW u \in People, Members!CreateUser(u)
  PROVE  MembersInv' /\ Members!RemovalGoesOn
<1>1. PICK r \in MemberReq : r = memberReq[u]
  BY DEF MembersInv, MembersType
<1>2. PICK i \in MemberReq : i = Members!Idle /\ i.pc = "idle"
  BY MembersConstants
<1>3. /\ r.pc = "create" /\ r.target \in People
      /\ UNCHANGED <<memberGrant, code, userRole, signedIn, used, failures, overlapped>>
  BY <1>1 DEF Members!CreateUser, Members!Quiet, MemberReq
<1>4. CASE r.target \in orgAccount
  <2>1. memberReq' = [memberReq EXCEPT ![u] = i] /\ orgAccount' = orgAccount
    BY <1>1, <1>2, <1>4 DEF Members!CreateUser, Members!Set
  <2>2. MembersInv'
    BY <1>1, <1>2, <1>3, <2>1, MembersUnfailing, MembersEnd, MembersQuiet
  <2> QED
    BY <1>1, <1>3, <2>1, <2>2, MembersRemoval
<1>5. CASE r.target \notin orgAccount
  <2>1. PICK q : q = [r EXCEPT !.pc = "grant", !.created = TRUE]
    OBVIOUS
  <2>2. q \in MemberReq /\ q.pc = "grant" /\ q.kind = r.kind /\ q.target = r.target
    BY <2>1 DEF MemberReq, MemberPcs
  <2>3. memberReq' = [memberReq EXCEPT ![u] = q] /\ orgAccount' = orgAccount \union {r.target}
    BY <1>1, <1>5, <2>1 DEF Members!CreateUser, Members!Set
  <2>4. MemberHolds(u, r)
    BY <1>1 DEF MembersInv
  <2>5. MemberHolds(u, q)'
    BY <1>3, <2>2, <2>3, <2>4 DEF MemberHolds
  <2>6. MembersType /\ CodesCount
    BY DEF MembersInv
  <2>7. /\ used' \in MemberUsed
        /\ used'.row = used.row /\ used'.request = used.request /\ used'.code = used.code
        /\ code' \in [People -> Nat] /\ \A v \in People : code'[v] <= used'.code
        /\ orgAccount \subseteq orgAccount' /\ orgAccount' \subseteq People
        /\ memberGrant' \in [People -> 0..MaxGrants]
        /\ \A v \in People : memberGrant'[v] # 0 => v \in orgAccount'
    BY <1>3, <2>3, <2>6 DEF MembersType, CodesCount
  <2>8. MembersInv'
    BY <1>1, <1>3, <2>2, <2>3, <2>5, <2>7, MembersUnfailing, MembersMove
  <2> QED
    BY <1>1, <1>3, <2>2, <2>3, <2>8, MembersRemoval
<1> QED
  BY <1>4, <1>5

LEMMA MembersGrant ==
  ASSUME MembersInv, NEW u \in People, Members!GrantTenantMember(u)
  PROVE  MembersInv' /\ Members!RemovalGoesOn
<1>1. PICK r \in MemberReq : r = memberReq[u]
  BY DEF MembersInv, MembersType
<1>2. PICK q : q = IF r.created THEN [r EXCEPT !.pc = "mint"] ELSE Members!Idle
  OBVIOUS
<1>3. /\ r.pc = "grant" /\ r.target \in People
      /\ memberReq' = [memberReq EXCEPT ![u] = q]
      /\ UNCHANGED <<orgAccount, code, userRole, signedIn, failures, overlapped>>
      /\ \/ UNCHANGED <<memberGrant, used>>
         \/ /\ used.grant < MaxGrants /\ used' = [used EXCEPT !.grant = @ + 1]
            /\ memberGrant' = [memberGrant EXCEPT ![r.target] = used.grant + 1]
  BY <1>1, <1>2 DEF Members!GrantTenantMember, Members!Goto, Members!Set, MemberReq
<1>4. MemberHolds(u, r)
  BY <1>1 DEF MembersInv
<1>5. MemberHolds(u, q)' /\ q \in MemberReq
  <2>1. CASE r.created
    <3>1. /\ q \in MemberReq /\ q.pc = "mint" /\ q.kind = r.kind /\ q.target = r.target
      BY <1>2, <2>1 DEF MemberReq, MemberPcs
    <3> QED
      BY <1>3, <1>4, <3>1 DEF MemberHolds
  <2>2. CASE ~r.created
    BY <1>2, <2>2, MembersConstants, MembersEnd
  <2> QED
    BY <2>1, <2>2
<1>6. MembersType /\ CodesCount /\ MaxGrants \in Nat
  BY MembersAssumption DEF MembersInv
<1>7. /\ used' \in MemberUsed
      /\ used'.row = used.row /\ used'.request = used.request /\ used'.code = used.code
      /\ memberGrant' \in [People -> 0..MaxGrants]
      /\ r.target \in orgAccount
  <2>1. /\ used \in MemberUsed
        /\ memberGrant \in [People -> 0..MaxGrants]
    BY <1>6 DEF MembersType
  <2>2. r.target \in orgAccount
    BY <1>3, <1>4 DEF MemberHolds
  <2>3. CASE UNCHANGED <<memberGrant, used>>
    BY <2>1, <2>2, <2>3
  <2>4. CASE /\ used.grant < MaxGrants /\ used' = [used EXCEPT !.grant = @ + 1]
             /\ memberGrant' = [memberGrant EXCEPT ![r.target] = used.grant + 1]
    <3>1. used.grant + 1 \in 0..MaxGrants
      BY <1>6, <2>1, <2>4
    <3>2. /\ used' \in MemberUsed
          /\ used'.row = used.row /\ used'.request = used.request /\ used'.code = used.code
      BY <2>1, <2>4, <3>1
    <3>3. memberGrant' \in [People -> 0..MaxGrants]
      BY <2>1, <2>4, <3>1
    <3> QED
      BY <2>2, <3>2, <3>3
  <2> QED
    BY <1>3, <2>3, <2>4
<1>8. /\ code' \in [People -> Nat] /\ \A v \in People : code'[v] <= used'.code
      /\ orgAccount \subseteq orgAccount' /\ orgAccount' \subseteq People
      /\ \A v \in People : memberGrant'[v] # 0 => v \in orgAccount'
  BY <1>3, <1>6, <1>7 DEF MembersType, CodesCount
<1>9. MembersInv'
  BY <1>1, <1>3, <1>5, <1>7, <1>8, MembersUnfailing, MembersMove
<1> QED
  BY <1>1, <1>3, <1>5, <1>9, MembersRemoval

LEMMA MembersForAction ==
  ASSUME MembersInv, NEW u \in People, Members!MemberForAction(u)
  PROVE  MembersInv' /\ Members!RemovalGoesOn
<1>1. PICK r \in MemberReq : r = memberReq[u]
  BY DEF MembersInv, MembersType
<1>2. PICK x : x = memberGrant[r.target]
  OBVIOUS
<1>3. r.target \in People /\ r.kind \in Members!Kinds
  BY DEF MemberReq
<1>4. x \in 0..MaxGrants
  BY <1>2, <1>3 DEF MembersInv, MembersType
<1>5. PICK q : q = IF r.target \notin Members!ListMembers THEN Members!Idle
                   ELSE [r EXCEPT !.pc = Members!AfterListing(r.kind), !.grant = x]
  OBVIOUS
<1>6. /\ r.pc = "validate" /\ memberReq' = [memberReq EXCEPT ![u] = q]
      /\ UNCHANGED <<orgAccount, memberGrant, code, userRole, signedIn, used, failures, overlapped>>
  BY <1>1, <1>2, <1>5 DEF Members!MemberForAction, Members!Set, Members!Quiet, Members!idVars
<1>7. MemberHolds(u, r)
  BY <1>1 DEF MembersInv
<1>8. MemberHolds(u, q)' /\ q \in MemberReq
  <2>1. CASE r.target \in Members!ListMembers
    <3>1. PICK a \in {"leave", "mint"} :
            a = Members!AfterListing(r.kind) /\ (a = "leave" => r.kind = "remove")
      BY DEF Members!AfterListing
    <3>2. q = [r EXCEPT !.pc = a, !.grant = x]
      BY <1>5, <2>1, <3>1
    <3>3. /\ q \in MemberReq /\ q.pc = a /\ q.kind = r.kind /\ q.target = r.target
      BY <1>4, <3>1, <3>2 DEF MemberReq, MemberPcs
    <3>4. r.kind = "remove" => r.target # u
      BY <1>6, <1>7 DEF MemberHolds
    <3> QED
      BY <3>1, <3>3, <3>4 DEF MemberHolds
  <2>2. CASE r.target \notin Members!ListMembers
    BY <1>5, <2>2, MembersConstants, MembersEnd
  <2> QED
    BY <2>1, <2>2
<1>9. MembersInv'
  BY <1>1, <1>6, <1>8, MembersUnfailing, MembersQuiet
<1> QED
  BY <1>1, <1>6, <1>8, <1>9, MembersRemoval

LEMMA MembersMint ==
  ASSUME MembersInv, NEW u \in People, Members!PasswordSetLink(u)
  PROVE  MembersInv' /\ Members!RemovalGoesOn
<1>1. PICK r \in MemberReq : r = memberReq[u]
  BY DEF MembersInv, MembersType
<1>2. PICK i \in MemberReq : i = Members!Idle /\ i.pc = "idle"
  BY MembersConstants
<1>3. /\ r.pc = "mint" /\ r.target \in People
      /\ code' = [code EXCEPT ![r.target] = used.code + 1]
      /\ used' = [used EXCEPT !.code = @ + 1]
      /\ memberReq' = [memberReq EXCEPT ![u] = i]
      /\ UNCHANGED <<orgAccount, memberGrant, userRole, signedIn, failures, overlapped>>
  BY <1>1, <1>2 DEF Members!PasswordSetLink, Members!Set, MemberReq
<1>4. MembersType /\ CodesCount
  BY DEF MembersInv
<1>5. /\ used \in MemberUsed
      /\ code \in [People -> Nat] /\ \A v \in People : code[v] <= used.code
  BY <1>4 DEF MembersType, CodesCount
<1>6. /\ used' \in MemberUsed
      /\ used'.row = used.row /\ used'.request = used.request /\ used'.code = used.code + 1
  BY <1>3, <1>5
<1>7. code' \in [People -> Nat] /\ \A v \in People : code'[v] <= used'.code
  BY <1>3, <1>5, <1>6
<1>8. /\ orgAccount \subseteq orgAccount' /\ orgAccount' \subseteq People
      /\ memberGrant' \in [People -> 0..MaxGrants]
      /\ \A v \in People : memberGrant'[v] # 0 => v \in orgAccount'
  BY <1>3, <1>4 DEF MembersType
<1>9. MembersInv'
  BY <1>1, <1>2, <1>3, <1>6, <1>7, <1>8, MembersUnfailing, MembersEnd, MembersMove
<1> QED
  BY <1>1, <1>3, <1>9, MembersRemoval

LEMMA MembersRevoke ==
  ASSUME MembersInv, NEW u \in People, Members!RevokeTenantMember(u)
  PROVE  MembersInv' /\ Members!RemovalGoesOn
<1>1. PICK r \in MemberReq : r = memberReq[u]
  BY DEF MembersInv, MembersType
<1>2. PICK i \in MemberReq : i = Members!Idle /\ i.pc = "idle"
  BY MembersConstants
<1>3. PICK q : q = [r EXCEPT !.pc = "rows"]
  OBVIOUS
<1>4. /\ r.pc = "leave" /\ r.target \in People
      /\ UNCHANGED <<orgAccount, code, userRole, signedIn, used, failures, overlapped>>
      /\ \/ memberReq' = [memberReq EXCEPT ![u] = i] /\ memberGrant' = memberGrant
         \/ /\ memberReq' = [memberReq EXCEPT ![u] = q]
            /\ memberGrant' = [memberGrant EXCEPT ![r.target] = 0]
  BY <1>1, <1>2, <1>3 DEF Members!RevokeTenantMember, Members!Goto, Members!Set,
                          Members!Quiet, MemberReq
<1>5. CASE memberReq' = [memberReq EXCEPT ![u] = i] /\ memberGrant' = memberGrant
  <2>1. MembersInv'
    BY <1>1, <1>2, <1>4, <1>5, MembersUnfailing, MembersEnd, MembersQuiet
  <2> QED
    BY <1>1, <1>4, <1>5, <2>1, MembersRemoval
<1>6. CASE /\ memberReq' = [memberReq EXCEPT ![u] = q]
           /\ memberGrant' = [memberGrant EXCEPT ![r.target] = 0]
  <2>1. q \in MemberReq /\ q.pc = "rows" /\ q.kind = r.kind /\ q.target = r.target
    BY <1>3, MembersGoto DEF MemberPcs
  <2>2. MemberHolds(u, r)
    BY <1>1 DEF MembersInv
  <2>3. MemberHolds(u, q)'
    BY <1>4, <2>1, <2>2 DEF MemberHolds
  <2>4. MembersType /\ CodesCount /\ MaxGrants \in Nat
    BY MembersAssumption DEF MembersInv
  <2>5. /\ used' \in MemberUsed
        /\ used'.row = used.row /\ used'.request = used.request /\ used'.code = used.code
        /\ code' \in [People -> Nat] /\ \A v \in People : code'[v] <= used'.code
        /\ orgAccount \subseteq orgAccount' /\ orgAccount' \subseteq People
        /\ memberGrant' \in [People -> 0..MaxGrants]
        /\ \A v \in People : memberGrant'[v] # 0 => v \in orgAccount'
    BY <1>4, <1>6, <2>4 DEF MembersType, CodesCount
  <2>6. MembersInv'
    BY <1>1, <1>4, <1>6, <2>1, <2>3, <2>5, MembersUnfailing, MembersMove
  <2> QED
    BY <1>1, <1>4, <1>6, <2>1, <2>6, MembersRemoval
<1> QED
  BY <1>4, <1>5, <1>6

LEMMA MembersListRows ==
  ASSUME MembersInv, NEW u \in People, Members!ListRows(u)
  PROVE  MembersInv' /\ Members!RemovalGoesOn
<1>1. PICK r \in MemberReq : r = memberReq[u]
  BY DEF MembersInv, MembersType
<1>2. PICK rows : rows = Members!RowsOf(r.target)
  OBVIOUS
<1>3. PICK q : q = IF rows = {} THEN Members!Idle ELSE [r EXCEPT !.pc = "clean", !.left = rows]
  OBVIOUS
<1>4. /\ r.pc = "rows" /\ memberReq' = [memberReq EXCEPT ![u] = q]
      /\ UNCHANGED <<orgAccount, memberGrant, code, userRole, signedIn, used, failures, overlapped>>
  BY <1>1, <1>2, <1>3 DEF Members!ListRows, Members!Set, Members!Quiet, Members!idVars
<1>5. MemberHolds(u, r)
  BY <1>1 DEF MembersInv
<1>6. MemberHolds(u, q)' /\ q \in MemberReq
  <2>1. CASE rows # {}
    <3>1. DOMAIN userRole = 1..MaxRoleRows /\ used.row \in 0..MaxRoleRows /\ MaxRoleRows \in Nat
      BY MembersAssumption DEF MembersInv, MembersType
    <3>2. rows \in SUBSET (1..MaxRoleRows) /\ \A n \in rows : userRole[n].live /\ userRole[n].user = r.target
      BY <1>2, <3>1 DEF Members!RowsOf
    <3>3. \A n \in rows : n <= used.row
      BY <3>1, <3>2 DEF MembersInv, RowsNumbered
    <3>4. q \in MemberReq /\ q.pc = "clean" /\ q.kind = r.kind /\ q.target = r.target /\ q.left = rows
      BY <1>3, <2>1, <3>2 DEF MemberReq, MemberPcs
    <3>5. r.kind = "remove" /\ r.target # u
      BY <1>4, <1>5 DEF MemberHolds
    <3> QED
      BY <1>4, <3>2, <3>3, <3>4, <3>5 DEF MemberHolds
  <2>2. CASE rows = {}
    BY <1>3, <2>2, MembersConstants, MembersEnd
  <2> QED
    BY <2>1, <2>2
<1>7. MembersInv'
  BY <1>1, <1>4, <1>6, MembersUnfailing, MembersQuiet
<1> QED
  BY <1>1, <1>4, <1>6, <1>7, MembersRemoval

(* What is left of a removal when one of its rows has been tried.          *)
LEMMA MembersGoOn ==
  ASSUME MembersInv, NEW u \in People, NEW r \in MemberReq, r = memberReq[u],
         r.pc = "clean", NEW n \in r.left, Members!GoesOn(u, n)
  PROVE  /\ n \in 1..MaxRoleRows /\ n <= used.row /\ userRole[n].user # u
         /\ \E q \in MemberReq :
              /\ memberReq' = [memberReq EXCEPT ![u] = q] /\ MemberHolds(u, q)
              /\ q.pc = "idle" \/ (q.pc = "clean" /\ q.kind = "remove" /\ q.target = r.target
                                   /\ r.target # u /\ q.left \subseteq r.left)
              /\ q.pc = "idle" => Members!Cardinality(r.left) <= 1
<1>1. MemberHolds(u, r) /\ r.left \in SUBSET (1..MaxRoleRows)
  BY DEF MembersInv, MemberReq
<1>2. /\ r.kind = "remove" /\ r.target # u
      /\ \A m \in r.left : m <= used.row /\ userRole[m].user = r.target
  BY <1>1 DEF MemberHolds
<1>3. PICK q : q = IF r.left = {n} THEN Members!Idle ELSE [r EXCEPT !.left = @ \ {n}]
  OBVIOUS
<1>4. memberReq' = [memberReq EXCEPT ![u] = q]
  BY <1>3 DEF Members!GoesOn, Members!Set
<1>5. CASE r.left = {n}
  <2>1. q \in MemberReq /\ q.pc = "idle"
    BY <1>3, <1>5, MembersConstants
  <2>2. Cardinality(r.left) = 1
    BY <1>5, FS_Singleton
  <2>3. Members!Cardinality(r.left) <= 1
    BY <2>2, MembersConstants
  <2> QED
    BY <1>1, <1>2, <1>4, <2>1, <2>3 DEF MemberHolds
<1>6. CASE r.left # {n}
  <2>1. PICK rest \in SUBSET (1..MaxRoleRows) : rest = r.left \ {n}
    BY <1>1
  <2>2. q = [r EXCEPT !.left = rest]
    BY <1>3, <1>6, <2>1
  <2>3. q \in MemberReq /\ q.pc = "clean" /\ q.kind = r.kind /\ q.target = r.target /\ q.left = rest
    BY <2>2 DEF MemberReq
  <2>4. MemberHolds(u, q)
    BY <1>2, <2>1, <2>3 DEF MemberHolds
  <2> QED
    BY <1>1, <1>2, <1>4, <2>1, <2>3, <2>4
<1> QED
  BY <1>5, <1>6

LEMMA MembersCleanRow ==
  ASSUME MembersInv, NEW u \in People, Members!CleanRow(u)
  PROVE  MembersInv' /\ Members!RemovalGoesOn
<1>1. PICK r \in MemberReq : r = memberReq[u]
  BY DEF MembersInv, MembersType
<1>2. PICK n \in r.left : r.pc = "clean" /\ Members!Die(n) /\ Members!GoesOn(u, n)
  BY <1>1 DEF Members!CleanRow
<1>3. UNCHANGED <<orgAccount, memberGrant, code, signedIn, used, failures, overlapped>>
  BY DEF Members!CleanRow, Members!Quiet, Members!idVars
<1>4. /\ n \in 1..MaxRoleRows /\ n <= used.row /\ userRole[n].user # u
      /\ \E q \in MemberReq :
           /\ memberReq' = [memberReq EXCEPT ![u] = q] /\ MemberHolds(u, q)
           /\ q.pc = "idle" \/ q.pc = "clean"
           /\ q.pc = "idle" => Members!Cardinality(r.left) <= 1
  BY <1>1, <1>2, MembersGoOn
<1>5. PICK q \in MemberReq :
        /\ memberReq' = [memberReq EXCEPT ![u] = q] /\ MemberHolds(u, q)
        /\ q.pc = "idle" \/ q.pc = "clean"
        /\ q.pc = "idle" => Members!Cardinality(r.left) <= 1
  BY <1>4
<1>6. MembersInv'
  BY <1>1, <1>2, <1>3, <1>4, <1>5, MembersDie
<1> QED
  BY <1>1, <1>5, <1>6, MembersRemoval

LEMMA MembersCleanFails ==
  ASSUME MembersInv, NEW u \in People, Members!CleanFails(u)
  PROVE  MembersInv' /\ Members!RemovalGoesOn
<1>1. PICK r \in MemberReq : r = memberReq[u]
  BY DEF MembersInv, MembersType
<1>2. PICK n \in r.left : r.pc = "clean" /\ Members!Fault("record") /\ Members!GoesOn(u, n)
  BY <1>1 DEF Members!CleanFails
<1>3. UNCHANGED <<orgAccount, memberGrant, code, userRole, signedIn, used, overlapped>>
  BY DEF Members!CleanFails, Members!idVars
<1>4. PICK q \in MemberReq :
        /\ memberReq' = [memberReq EXCEPT ![u] = q] /\ MemberHolds(u, q)
        /\ q.pc = "idle" \/ q.pc = "clean"
        /\ q.pc = "idle" => Members!Cardinality(r.left) <= 1
  BY <1>1, <1>2, MembersGoOn
<1>5. MemberHolds(u, q)'
  BY <1>3, <1>4 DEF MemberHolds
<1>6. MembersInv'
  BY <1>1, <1>2, <1>3, <1>4, <1>5, MembersFault, MembersQuiet
<1> QED
  BY <1>1, <1>4, <1>6, MembersRemoval

LEMMA MembersListRoles ==
  ASSUME MembersInv, NEW u \in People, Members!ListRoles(u)
  PROVE  MembersInv' /\ Members!RemovalGoesOn
<1>1. PICK r \in MemberReq : r = memberReq[u]
  BY DEF MembersInv, MembersType
<1>2. PICK i \in MemberReq : i = Members!Idle /\ i.pc = "idle"
  BY MembersConstants
<1>3. PICK q : q = [r EXCEPT !.pc = "insert"]
  OBVIOUS
<1>4. q \in MemberReq /\ q.pc = "insert" /\ q.kind = r.kind /\ q.target = r.target /\ q.role = r.role
  BY <1>3, MembersGoto DEF MemberPcs
<1>5. /\ r.pc = "roles"
      /\ UNCHANGED <<orgAccount, memberGrant, code, userRole, signedIn, used, overlapped>>
      /\ \/ memberReq' = [memberReq EXCEPT ![u] = i] /\ failures' = failures
         \/ /\ memberReq' = [memberReq EXCEPT ![u] = q] /\ failures' = failures
            /\ ~Members!HoldsRole(r.target, r.role)
         \/ memberReq' = [memberReq EXCEPT ![u] = q] /\ Members!Fault("record")
  BY <1>1, <1>2, <1>3 DEF Members!ListRoles, Members!Goto, Members!Set, Members!idVars
<1>6. CASE memberReq' = [memberReq EXCEPT ![u] = i] /\ failures' = failures
  <2>1. MembersInv'
    BY <1>1, <1>2, <1>5, <1>6, MembersUnfailing, MembersEnd, MembersQuiet
  <2> QED
    BY <1>1, <1>5, <1>6, <2>1, MembersRemoval
<1>7. MemberHolds(u, r)
  BY <1>1 DEF MembersInv
<1>8. CASE /\ memberReq' = [memberReq EXCEPT ![u] = q] /\ failures' = failures
           /\ ~Members!HoldsRole(r.target, r.role)
  <2>1. DOMAIN userRole = 1..MaxRoleRows
    BY DEF MembersInv, MembersType
  <2>2. ~Holds(r.target, r.role)
    BY <1>8, <2>1 DEF Members!HoldsRole, Members!RowsOf, Holds
  <2>3. ~Holds(r.target, r.role)'
    BY <1>5, <2>2 DEF Holds
  <2>4. MemberHolds(u, q)'
    BY <1>4, <1>5, <1>7, <2>3 DEF MemberHolds
  <2>5. MembersInv'
    BY <1>1, <1>4, <1>5, <1>8, <2>4, MembersUnfailing, MembersQuiet
  <2> QED
    BY <1>1, <1>4, <1>5, <1>8, <2>5, MembersRemoval
<1>9. CASE memberReq' = [memberReq EXCEPT ![u] = q] /\ Members!Fault("record")
  <2>1. failures'.record # 0
    BY <1>9, MembersFault
  <2>2. MemberHolds(u, q)'
    BY <1>4, <1>5, <1>7, <2>1 DEF MemberHolds
  <2>3. MembersInv'
    BY <1>1, <1>4, <1>5, <1>9, <2>2, MembersFault, MembersQuiet
  <2> QED
    BY <1>1, <1>4, <1>5, <1>9, <2>3, MembersRemoval
<1> QED
  BY <1>5, <1>6, <1>8, <1>9

LEMMA MembersInsertRole ==
  ASSUME MembersInv, NEW u \in People, Members!InsertRole(u)
  PROVE  MembersInv' /\ Members!RemovalGoesOn
<1>1. PICK r \in MemberReq : r = memberReq[u]
  BY DEF MembersInv, MembersType
<1>2. PICK i \in MemberReq : i = Members!Idle /\ i.pc = "idle"
  BY MembersConstants
<1>3. /\ MembersType /\ NotStacked /\ RowsNumbered /\ MaxRoleRows \in Nat
      /\ userRole \in [1..MaxRoleRows -> RoleRow]
      /\ used \in MemberUsed
  BY MembersAssumption DEF MembersInv, MembersType
<1>4. PICK k \in 1..MaxRoleRows : used.row < MaxRoleRows /\ k = used.row + 1
  BY <1>3 DEF Members!InsertRole
<1>5. PICK x \in RoleRow : x = [user |-> r.target, role |-> r.role, live |-> TRUE]
  BY DEF MemberReq, RoleRow
<1>6. /\ r.pc = "insert" /\ userRole' = [userRole EXCEPT ![k] = x]
      /\ used' = [used EXCEPT !.row = @ + 1] /\ memberReq' = [memberReq EXCEPT ![u] = i]
      /\ UNCHANGED <<orgAccount, memberGrant, code, signedIn, failures, overlapped>>
  BY <1>1, <1>2, <1>4, <1>5 DEF Members!InsertRole, Members!Set, Members!idVars
<1>7. /\ userRole' \in [1..MaxRoleRows -> RoleRow] /\ userRole'[k] = x
      /\ \A m \in 1..MaxRoleRows : m # k => userRole'[m] = userRole[m]
      /\ ~userRole[k].live
  BY <1>3, <1>4, <1>6 DEF RowsNumbered
<1>8. /\ used' \in MemberUsed
      /\ used'.row = k /\ used'.request = used.request /\ used'.code = used.code
  <2>1. PICK w : w = used
    OBVIOUS
  <2>2. /\ w \in MemberUsed
        /\ used' = [w EXCEPT !.row = k]
    BY <1>3, <1>4, <1>6, <2>1
  <2>3. k \in 0..MaxRoleRows
    BY <1>3, <1>4
  <2> QED
    BY <2>1, <2>2, <2>3
<1>9. MembersType'
  <2>1. memberReq' \in [People -> MemberReq]
    BY <1>3, <1>6 DEF MembersType
  <2> QED
    BY <1>3, <1>6, <1>7, <1>8, <2>1 DEF MembersType
<1>10. NotStacked'
  <2>1. SUFFICES ASSUME ~overlapped, failures.record = 0,
                        NEW m \in 1..MaxRoleRows, NEW n \in 1..MaxRoleRows, m # n,
                        userRole'[m].live, userRole'[n].live,
                        userRole'[m].user = userRole'[n].user,
                        userRole'[m].role = userRole'[n].role
                 PROVE  FALSE
    BY <1>6 DEF NotStacked
  <2>2. ~Holds(r.target, r.role)
    BY <1>1, <1>6, <2>1 DEF MembersInv, MemberHolds
  <2>3. CASE m = k \/ n = k
    BY <1>5, <1>7, <2>1, <2>2, <2>3 DEF Holds
  <2>4. CASE m # k /\ n # k
    BY <1>3, <1>7, <2>1, <2>4 DEF NotStacked
  <2> QED
    BY <2>3, <2>4
<1>11. RowsNumbered'
  BY <1>3, <1>4, <1>7, <1>8 DEF RowsNumbered
<1>12. Holds(u, Admin) => Holds(u, Admin)'
  BY <1>7 DEF Holds
<1>13. /\ used'.code \in Nat /\ used'.row \in Nat /\ used.row <= used'.row
       /\ \A n \in 1..MaxRoleRows :
            n <= used.row => SameRole(n)
       /\ \A v \in People : code'[v] <= used'.code
  BY <1>3, <1>4, <1>6, <1>7, <1>8 DEF MembersInv, CodesCount
<1>14. MembersInv'
  BY <1>1, <1>2, <1>6, <1>8, <1>9, <1>10, <1>11, <1>12, <1>13, MembersEnd, MembersStep
<1> QED
  BY <1>1, <1>6, <1>14, MembersRemoval

LEMMA MembersReadRow ==
  ASSUME MembersInv, NEW u \in People, Members!ReadRow(u)
  PROVE  MembersInv' /\ Members!RemovalGoesOn
<1>1. PICK r \in MemberReq : r = memberReq[u]
  BY DEF MembersInv, MembersType
<1>2. PICK i \in MemberReq : i = Members!Idle /\ i.pc = "idle"
  BY MembersConstants
<1>3. PICK q : q = [r EXCEPT !.pc = "delete"]
  OBVIOUS
<1>4. q \in MemberReq /\ q.pc = "delete" /\ q.kind = r.kind /\ q.target = r.target /\ q.row = r.row
  BY <1>3, MembersGoto DEF MemberPcs
<1>5. /\ r.pc = "read"
      /\ UNCHANGED <<orgAccount, memberGrant, code, userRole, signedIn, used, failures, overlapped>>
      /\ \/ memberReq' = [memberReq EXCEPT ![u] = i]
         \/ /\ memberReq' = [memberReq EXCEPT ![u] = q]
            /\ ~(userRole[r.row].user = u /\ userRole[r.row].role = Admin)
  BY <1>1, <1>2, <1>3 DEF Members!ReadRow, Members!MayRevoke, Members!Goto, Members!Set,
                          Members!Quiet, Members!idVars
<1>6. CASE memberReq' = [memberReq EXCEPT ![u] = i]
  <2>1. MembersInv'
    BY <1>1, <1>2, <1>5, <1>6, MembersUnfailing, MembersEnd, MembersQuiet
  <2> QED
    BY <1>1, <1>5, <1>6, <2>1, MembersRemoval
<1>7. CASE /\ memberReq' = [memberReq EXCEPT ![u] = q]
           /\ ~(userRole[r.row].user = u /\ userRole[r.row].role = Admin)
  <2>1. MemberHolds(u, r)
    BY <1>1 DEF MembersInv
  <2>2. MemberHolds(u, q)'
    BY <1>4, <1>5, <1>7, <2>1 DEF MemberHolds
  <2>3. MembersInv'
    BY <1>1, <1>4, <1>5, <1>7, <2>2, MembersUnfailing, MembersQuiet
  <2> QED
    BY <1>1, <1>4, <1>5, <1>7, <2>3, MembersRemoval
<1> QED
  BY <1>5, <1>6, <1>7

LEMMA MembersDeleteRow ==
  ASSUME MembersInv, NEW u \in People, Members!DeleteRow(u)
  PROVE  MembersInv' /\ Members!RemovalGoesOn
<1>1. PICK r \in MemberReq : r = memberReq[u]
  BY DEF MembersInv, MembersType
<1>2. PICK i \in MemberReq : i = Members!Idle /\ i.pc = "idle"
  BY MembersConstants
<1>3. /\ r.pc = "delete" /\ Members!Die(r.row) /\ memberReq' = [memberReq EXCEPT ![u] = i]
      /\ UNCHANGED <<orgAccount, memberGrant, code, signedIn, used, failures, overlapped>>
  BY <1>1, <1>2 DEF Members!DeleteRow, Members!Set, Members!Quiet, Members!idVars
<1>4. MemberHolds(u, r) /\ r.row \in 0..MaxRoleRows /\ MaxRoleRows \in Nat
  BY <1>1, MembersAssumption DEF MembersInv, MemberReq
<1>5. /\ r.row \in 1..MaxRoleRows /\ r.row <= used.row
      /\ ~(userRole[r.row].user = u /\ userRole[r.row].role = Admin)
  BY <1>3, <1>4 DEF MemberHolds
<1>6. MemberHolds(u, i)
  BY <1>2 DEF MemberHolds
<1>7. MembersInv'
  BY <1>1, <1>2, <1>3, <1>5, <1>6, MembersDie
<1> QED
  BY <1>1, <1>3, <1>7, MembersRemoval

LEMMA MembersFail ==
  ASSUME MembersInv, NEW u \in People, Members!Fail(u)
  PROVE  MembersInv' /\ Members!RemovalGoesOn
<1>1. PICK i \in MemberReq : i = Members!Idle /\ i.pc = "idle"
  BY MembersConstants
<1>2. /\ memberReq[u].pc # "idle" /\ memberReq' = [memberReq EXCEPT ![u] = i]
      /\ Members!Fault("ended")
      /\ UNCHANGED <<orgAccount, memberGrant, code, userRole, signedIn, used, overlapped>>
  BY <1>1 DEF Members!Fail, Members!Set, Members!idVars
<1>3. MembersInv'
  BY <1>1, <1>2, MembersEnd, MembersFault, MembersQuiet
<1> QED
  BY <1>1, <1>2, <1>3, MembersFault, MembersRemoval

LEMMA MembersFirstStep ==
  ASSUME NEW kind \in Members!Kinds
  PROVE  \E s \in MemberPcs :
           /\ s = Members!FirstStep[kind]
           /\ s \in {"lookup", "roles", "read", "validate"} /\ (s = "read" => kind = "revoke")
<1>1. /\ Members!FirstStep["invite"] = "lookup" /\ Members!FirstStep["assign"] = "roles"
      /\ Members!FirstStep["revoke"] = "read" /\ Members!FirstStep["link"] = "validate"
      /\ Members!FirstStep["email"] = "validate" /\ Members!FirstStep["remove"] = "validate"
  BY DEF Members!FirstStep
<1> QED
  BY <1>1 DEF Members!Kinds, MemberPcs

(* A request begins at the administrators' gate.                           *)
LEMMA MembersStart ==
  ASSUME MembersInv, NEW u \in People, NEW kind \in Members!Kinds, NEW aim \in People,
         NEW role \in Roles, NEW n \in 0..MaxRoleRows,
         kind = "revoke" => n # 0 /\ n <= used.row,
         Members!Start(u, kind, aim, role, n)
  PROVE  MembersInv' /\ Members!RemovalGoesOn
<1>1. PICK r \in MemberReq : r = memberReq[u]
  BY DEF MembersInv, MembersType
<1>2. PICK i \in MemberReq : i = Members!Idle /\ i.pc = "idle"
  BY MembersConstants
<1>3. PICK s \in MemberPcs :
        /\ s = Members!FirstStep[kind]
        /\ s \in {"lookup", "roles", "read", "validate"} /\ (s = "read" => kind = "revoke")
  BY MembersFirstStep
<1>4. PICK q : q = [i EXCEPT !.pc = s, !.kind = kind, !.target = aim, !.role = role, !.row = n]
  OBVIOUS
<1>5. q \in MemberReq /\ q.pc = s /\ q.kind = kind /\ q.target = aim /\ q.row = n
  BY <1>4 DEF MemberReq
<1>6. /\ r.pc = "idle" /\ used.request < MaxRequests /\ Members!IsTenantAdmin(u)
      /\ kind = "remove" => aim # u
      /\ memberReq' = [memberReq EXCEPT ![u] = q]
      /\ used' = [used EXCEPT !.request = @ + 1]
      /\ overlapped' = (overlapped \/ \E v \in People \ {u} : memberReq[v].pc # "idle")
      /\ UNCHANGED <<orgAccount, memberGrant, code, userRole, signedIn, failures>>
  BY <1>1, <1>2, <1>3, <1>4 DEF Members!Start, Members!Set, Members!idVars
<1>7. /\ MembersType /\ NotStacked /\ RowsNumbered /\ MaxRequests \in Nat
      /\ used \in MemberUsed
      /\ memberReq \in [People -> MemberReq] /\ overlapped \in BOOLEAN
  BY MembersAssumption DEF MembersInv, MembersType
<1>8. /\ memberReq' \in [People -> MemberReq] /\ memberReq'[u] = q
      /\ \A v \in People : v # u => memberReq'[v] = memberReq[v]
  BY <1>5, <1>6, <1>7
<1>9. /\ used' \in MemberUsed
      /\ used'.row = used.row /\ used'.request = used.request + 1 /\ used'.code = used.code
  <2>1. PICK k \in 0..MaxRequests : k = used.request + 1
    BY <1>6, <1>7
  <2>2. used' = [used EXCEPT !.request = k]
    BY <1>6, <2>1
  <2> QED
    BY <1>7, <2>1, <2>2
<1>10. overlapped' \in BOOLEAN /\ (~overlapped' =>
         ~overlapped /\ \A v \in People : v # u => memberReq[v].pc = "idle")
  BY <1>6, <1>7
<1>11. MembersType'
  BY <1>6, <1>7, <1>8, <1>9, <1>10 DEF MembersType
<1>12. CodesCount'
  <2>1. IsFiniteSet(UnderWay) /\ u \notin UnderWay /\ used.code + Cardinality(UnderWay) <= used.request
    BY <1>1, <1>6 DEF MembersInv, CodesCount, UnderWay
  <2>2. UnderWay' = UnderWay \union {u}
    BY <1>3, <1>5, <1>8 DEF UnderWay
  <2>3. Cardinality(UnderWay) \in Nat
    BY <2>1, FS_CardinalityType
  <2>4. IsFiniteSet(UnderWay') /\ Cardinality(UnderWay') = Cardinality(UnderWay) + 1
    BY <2>1, <2>2, FS_AddElement
  <2>5. used'.code + Cardinality(UnderWay') <= used'.request
    BY <1>7, <1>9, <2>1, <2>3, <2>4
  <2>6. \A v \in People : code'[v] <= used'.code
    BY <1>6, <1>9 DEF MembersInv, CodesCount
  <2> QED
    BY <2>4, <2>5, <2>6 DEF CodesCount
<1>13. OneByOne'
  <2>1. Holds(u, Admin)
    <3>1. DOMAIN userRole = 1..MaxRoleRows
      BY <1>7 DEF MembersType
    <3> QED
      BY <1>6, <3>1 DEF Members!IsTenantAdmin, Members!HoldsRole, Members!RowsOf, Holds
  <2>2. Holds(u, Admin)'
    BY <1>6, <2>1 DEF Holds
  <2> QED
    BY <1>8, <1>10, <2>2 DEF OneByOne
<1>14. NotStacked' /\ RowsNumbered'
  BY <1>6, <1>7, <1>9, <1>10 DEF NotStacked, RowsNumbered
<1>15. ASSUME NEW v \in People
       PROVE  MemberHolds(v, memberReq[v])'
  <2>1. CASE v = u
    <3>1. MemberHolds(u, q)'
      BY <1>3, <1>5, <1>6, <1>9 DEF MemberHolds
    <3> QED
      BY <1>8, <2>1, <3>1
  <2>2. CASE v # u
    <3>1. PICK p \in MemberReq : p = memberReq[v]
      BY <1>7
    <3>2. MemberHolds(v, p) /\ memberReq'[v] = p
      BY <1>8, <2>2, <3>1 DEF MembersInv
    <3>3. ~overlapped' /\ failures'.record = 0 /\ p.pc = "insert" => ~Holds(p.target, p.role)'
      BY <1>10, <2>2, <3>1
    <3>4. MemberHolds(v, p)'
      BY <1>6, <1>9, <3>2, <3>3 DEF MemberHolds
    <3> QED
      BY <3>2, <3>4
  <2> QED
    BY <2>1, <2>2
<1>16. Members!RemovalGoesOn
  BY <1>1, <1>5, <1>6, MembersRemoval
<1> QED
  BY <1>11, <1>12, <1>13, <1>14, <1>15, <1>16 DEF MembersInv

(* Sessions begin and end beside the requests.                             *)
LEMMA MembersSession ==
  ASSUME MembersInv, signedIn' \subseteq orgAccount,
         UNCHANGED <<orgAccount, memberGrant, code, userRole, memberReq, used, failures, overlapped>>
  PROVE  MembersInv' /\ Members!RemovalGoesOn
<1>1. MembersType'
  BY DEF MembersInv, MembersType
<1>2. UnderWay' = UnderWay
  BY DEF UnderWay
<1>3. CodesCount' /\ OneByOne' /\ NotStacked' /\ RowsNumbered'
  BY <1>2 DEF MembersInv, CodesCount, OneByOne, NotStacked, RowsNumbered, Holds
<1>4. ASSUME NEW v \in People
      PROVE  MemberHolds(v, memberReq[v])'
  BY DEF MembersInv, MemberHolds, Holds
<1>5. Members!RemovalGoesOn
  BY DEF Members!RemovalGoesOn
<1> QED
  BY <1>1, <1>3, <1>4, <1>5 DEF MembersInv

LEMMA MembersKept ==
  ASSUME MembersInv, Members!Next \/ UNCHANGED memberVars
  PROVE  MembersInv' /\ Members!RemovalGoesOn
<1>1. /\ \A u \in People : memberGrant[u] # 0 => u \in orgAccount
      /\ signedIn \subseteq orgAccount /\ used.row \in 0..MaxRoleRows
  BY DEF MembersInv, MembersType
<1>2. CASE UNCHANGED memberVars
  BY <1>1, <1>2, MembersSession DEF memberVars
<1>3. ASSUME NEW u \in People, NEW aim \in People, NEW role \in Roles,
             \/ \E kind \in {"invite", "link", "email", "remove"} :
                  role = Admin /\ Members!Start(u, kind, aim, role, 0)
             \/ Members!Start(u, "assign", aim, role, 0)
      PROVE  MembersInv' /\ Members!RemovalGoesOn
  <2>1. 0 \in 0..MaxRoleRows
    BY MembersAssumption
  <2> QED
    BY <1>3, <2>1, MembersStart DEF Members!Kinds
<1>4. ASSUME NEW u \in People, NEW n \in 1..used.row, Members!Start(u, "revoke", u, Admin, n)
      PROVE  MembersInv' /\ Members!RemovalGoesOn
  <2>1. n \in 0..MaxRoleRows /\ n # 0 /\ n <= used.row /\ Admin \in Roles
    BY <1>1, MembersAssumption
  <2> QED
    BY <1>4, <2>1, MembersStart DEF Members!Kinds
<1>5. ASSUME NEW u \in People, Members!LogIn(u) \/ Members!SessionEnds(u)
      PROVE  MembersInv' /\ Members!RemovalGoesOn
  <2>1. /\ signedIn' \subseteq orgAccount
        /\ UNCHANGED <<orgAccount, memberGrant, code, userRole, memberReq, used, failures, overlapped>>
    BY <1>1, <1>5 DEF Members!LogIn, Members!SessionEnds, Members!idVars
  <2> QED
    BY <2>1, MembersSession
<1>6. CASE Members!Next
  BY <1>3, <1>4, <1>5, <1>6, MembersLookup, MembersCreate, MembersGrant, MembersForAction,
     MembersMint, MembersRevoke, MembersListRows, MembersCleanRow, MembersCleanFails,
     MembersListRoles, MembersInsertRole, MembersReadRow, MembersDeleteRow, MembersFail
     DEF Members!Next
<1> QED
  BY <1>2, <1>6

LEMMA MembersImply ==
  ASSUME MembersInv
  PROVE  Members!TypeOK /\ Members!AdminStays /\ Members!RolesNotStacked
<1>1. /\ MembersType /\ DOMAIN userRole = 1..MaxRoleRows
      /\ used.code \in Nat /\ used.request \in 0..MaxRequests
  BY DEF MembersInv, MembersType
<1>2. code \in [People -> 0..MaxRequests]
  <2>1. Cardinality(UnderWay) \in Nat
    BY FS_CardinalityType DEF MembersInv, CodesCount
  <2>2. used.code <= MaxRequests
    BY <1>1, <2>1, MembersAssumption DEF MembersInv, CodesCount
  <2>3. \A u \in People : code[u] \in 0..MaxRequests
    BY <1>1, <2>2, MembersAssumption DEF MembersInv, CodesCount, MembersType
  <2> QED
    BY <1>1, <2>3 DEF MembersType
<1>3. Members!TypeOK
  <2>1. \A u \in People : memberReq[u].kind \in Members!Kinds
    BY <1>1 DEF MembersType, MemberReq
  <2>2. used.row <= MaxRoleRows /\ used.grant <= MaxGrants /\ used.request <= MaxRequests
    BY <1>1, MembersAssumption DEF MembersType
  <2> QED
    BY <1>1, <1>2, <2>1, <2>2 DEF MembersType, RoleRow, Members!TypeOK
<1>4. Members!AdminStays
  BY <1>1 DEF MembersInv, OneByOne, Holds, Members!AdminStays, Members!IsTenantAdmin,
              Members!HoldsRole, Members!RowsOf
<1>5. Members!RolesNotStacked
  <2>1. ~overlapped /\ ~(failures.record > 0) => ~overlapped /\ failures.record = 0
    BY <1>1 DEF MembersType
  <2> QED
    BY <1>1, <2>1 DEF MembersInv, NotStacked, Members!RolesNotStacked, Members!RowsOf
<1> QED
  BY <1>3, <1>4, <1>5

LEMMA MembersWorkStep ==
  ASSUME [WorkNext]_allVars, part = "members"
  PROVE  part' = part /\ (Members!Next \/ UNCHANGED memberVars)
<1>1. CASE WorkNext
  BY <1>1 DEF WorkNext, ImportStep, SignInStep, AccessStep, MemberStep, TaskStep, BookStep,
              PurchaseStep, AssetStep, SettingsStep, FileStep, OthersRest
<1>2. CASE UNCHANGED allVars
  BY <1>2 DEF allVars
<1> QED
  BY <1>1, <1>2

(* Authorization (kernel/auth, internal/api: nobody gives himself a role,  *)
(* decides a gated job without its role, or has a hidden attribute         *)
(* changed) and the member page (internal/api/members.go: the tenant keeps *)
(* an administrator and a role is held once while requests come one after  *)
(* the other, and a removal tries every row it listed).                    *)
THEOREM TenantAccessIsKept == WorkSpec => AccessIsKept
<1> DEFINE I == /\ part = "access" => AccessInv
                /\ part = "members" => MembersInv
           Kept == /\ part = "access" =>
                        (Access!TypeOK /\ Access!NoSelfPromotion)' /\ Access!KeepsHidden
                   /\ part = "members" =>
                        /\ (Members!TypeOK /\ Members!AdminStays /\ Members!RolesNotStacked)'
                        /\ Members!RemovalGoesOn
<1>1. WorkInit => I
  BY AccessInit, MembersInit DEF WorkInit
<1>2. I /\ [WorkNext]_allVars => I' /\ Kept
  <2>1. part' = part \/ ~[WorkNext]_allVars
    BY DEF WorkNext, ImportStep, SignInStep, AccessStep, MemberStep, TaskStep, BookStep,
           PurchaseStep, AssetStep, SettingsStep, FileStep, OthersRest, allVars
  <2>2. ASSUME I, [WorkNext]_allVars, part = "access"
        PROVE  AccessInv' /\ Access!KeepsHidden
    BY <2>2, AccessWorkStep, AccessKept
  <2>3. AccessInv' => (Access!TypeOK /\ Access!NoSelfPromotion)'
    BY AccessImply, PTL
  <2>4. ASSUME I, [WorkNext]_allVars, part = "members"
        PROVE  MembersInv' /\ Members!RemovalGoesOn
    BY <2>4, MembersWorkStep, MembersKept
  <2>5. MembersInv' => (Members!TypeOK /\ Members!AdminStays /\ Members!RolesNotStacked)'
    BY MembersImply, PTL
  <2> QED
    BY <2>1, <2>2, <2>3, <2>4, <2>5
<1> QED
  BY <1>1, <1>2, PTL DEF WorkSpec, AccessIsKept
=============================================================================
