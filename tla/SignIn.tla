------------------------------- MODULE SignIn -------------------------------
(***************************************************************************)
(* Who a request acts for (internal/webauth, internal/svcauth,             *)
(* internal/api/tenanturl.go): one browser with several tabs that share    *)
(* its cookies, the login through the identity provider, the switch        *)
(* between tenants, and connectors with a bearer token.                    *)
(*                                                                         *)
(* A sealed cookie is what it says.  A request carries the cookies of the  *)
(* moment it is sent and sets cookies when its answer arrives; the server  *)
(* keeps no state of its own between the two.  Logins are numbered: the    *)
(* number stands for the state, nonce, verifier and expiry of one attempt. *)
(***************************************************************************)
EXTENDS Integers, FiniteSets

CONSTANTS
  Tabs, Tenants, NoTenant,
  Orgs,          \* organizations of the identity provider
  LinkOf,        \* org -> the tenant that names it, or NoTenant
  MaxLogins      \* bound on attempts to log in

VARIABLES
  enabled,       \* is browser login configured
  attempts,      \* number of logins begun
  flow,          \* the flow cookie: a login, or 0
  session,       \* the session cookie
  expired,       \* logins whose session has expired
  allowed,       \* login -> the tenants it found (history)
  page,          \* tab -> the tenant its page shows
  request,       \* tab -> its request
  hops,          \* tab -> redirects since its user last acted
  acted          \* what the last step let through to a handler (history)

cookieVars == <<flow, session>>
loginVars == <<enabled, attempts, expired, allowed>>
vars == <<loginVars, cookieVars, page, request, hops, acted>>

NoSession == [login |-> 0, list |-> {}, tenant |-> NoTenant]
Quiet == [kind |-> "none", session |-> NoSession, flow |-> 0, to |-> NoTenant,
          stamp |-> NoTenant, again |-> FALSE]
Nothing == [login |-> 0, tenant |-> NoTenant, shown |-> NoTenant, stamp |-> NoTenant,
            live |-> TRUE, from |-> "none"]

Init ==
  /\ enabled \in BOOLEAN
  /\ attempts = 0 /\ flow = 0 /\ session = NoSession
  /\ expired = {} /\ allowed = [n \in 1..MaxLogins |-> {}]
  /\ page = [t \in Tabs |-> NoTenant]
  /\ request = [t \in Tabs |-> Quiet]
  /\ hops = [t \in Tabs |-> 0]
  /\ acted = Nothing

------------------------------------------------------------------------------
(* Sessions.                                                               *)

(* One tenant needs no list: the session names it.                         *)
AccessibleTenantIDs(s) ==
  IF s.list # {} THEN s.list ELSE IF s.tenant # NoTenant THEN {s.tenant} ELSE {}

CanAccess(s, t) == t # NoTenant /\ t \in AccessibleTenantIDs(s)

(* rawSessionFromCookie gives no session, Valid gives none with a tenant.  *)
Live(s) == s.login # 0 /\ s.login \notin expired
Valid(s) == Live(s) /\ s.tenant # NoTenant
NeedsChoice(s) == Live(s) /\ s.tenant = NoTenant /\ s.list # {}

(* A switch seals the session again, with the expiry it had.               *)
SwitchTo(s, t) == [s EXCEPT !.tenant = t]

------------------------------------------------------------------------------
(* Requests.                                                               *)

Ask(tab, r) == request' = [request EXCEPT ![tab] = [r EXCEPT !.session = session]]
(* A redirect is followed with the cookies that its response set.          *)
Follow(tab, r, s) ==
  /\ request' = [request EXCEPT ![tab] = [r EXCEPT !.session = s]]
  /\ hops' = [hops EXCEPT ![tab] = @ + 1]
Answer(tab) ==
  /\ request' = [request EXCEPT ![tab] = Quiet]
  /\ hops' = [hops EXCEPT ![tab] = 0]
Get(t) == [Quiet EXCEPT !.kind = "page", !.to = t]

(* The user opens a page, of a tenant (/t/slug/...) or without a prefix;   *)
(* submits an htmx form, which carries the tenant of its page; submits a   *)
(* plain form (members, AI provider, SQL sources), which does not; or      *)
(* picks a tenant.                                                         *)
Send(tab) ==
  /\ request[tab] = Quiet
  /\ \/ \E t \in Tenants \union {NoTenant} : Ask(tab, Get(t))
     \/ /\ page[tab] # NoTenant
        /\ \E stamp \in {page[tab], NoTenant} :
              Ask(tab, [Quiet EXCEPT !.kind = "write", !.stamp = stamp])
     \/ \E t \in Tenants : Ask(tab, [Quiet EXCEPT !.kind = "switch", !.to = t])
  /\ acted' = Nothing
  /\ UNCHANGED <<loginVars, cookieVars, page, hops>>

Asked(tab, kind) == enabled /\ request[tab].kind = kind

(* handleLogin; the provider sends the user back with an answer that names *)
(* the attempt (state, nonce).                                             *)
HandleLogin(tab) ==
  /\ enabled /\ request[tab] = Quiet /\ attempts < MaxLogins
  /\ attempts' = attempts + 1
  /\ flow' = attempts'
  /\ request' = [request EXCEPT ![tab] = [Quiet EXCEPT !.kind = "callback", !.flow = attempts']]
  /\ acted' = Nothing
  /\ UNCHANGED <<enabled, expired, allowed, session, page, hops>>

SameFlow(tab) == flow = request[tab].flow

(* handleCallback: the flow cookie is removed whatever happens; an         *)
(* organization that no tenant names is skipped.                           *)
TenantsOf(claims) == {LinkOf[o] : o \in claims} \ {NoTenant}
NewSession(n, tenants) ==
  [login |-> n, list |-> IF Cardinality(tenants) > 1 THEN tenants ELSE {},
   tenant |-> IF Cardinality(tenants) = 1 THEN CHOOSE t \in tenants : TRUE ELSE NoTenant]

HandleCallback(tab, claims) ==
  /\ Asked(tab, "callback")
  /\ flow' = 0
  /\ IF SameFlow(tab) /\ TenantsOf(claims) # {}
       THEN LET n == request[tab].flow IN
            /\ session' = NewSession(n, TenantsOf(claims))
            /\ allowed' = [allowed EXCEPT ![n] = TenantsOf(claims)]
            /\ IF NeedsChoice(session') THEN Answer(tab) ELSE Follow(tab, Get(NoTenant), session')
       ELSE Answer(tab) /\ UNCHANGED <<session, allowed>>
  /\ acted' = Nothing
  /\ UNCHANGED <<enabled, attempts, expired, page>>

(* The flow cookie has expired, the exchange fails, or the user gave up.   *)
CallbackFails(tab) ==
  /\ Asked(tab, "callback")
  /\ flow' = 0
  /\ Answer(tab)
  /\ acted' = Nothing
  /\ UNCHANGED <<loginVars, session, page>>

HandleSwitch(tab) ==
  LET s == request[tab].session  t == request[tab].to IN
  /\ Asked(tab, "switch")
  /\ IF Live(s) /\ CanAccess(s, t)
       THEN session' = SwitchTo(s, t) /\ Follow(tab, Get(NoTenant), session')
       ELSE Answer(tab) /\ UNCHANGED session
  /\ acted' = Nothing
  /\ UNCHANGED <<loginVars, flow, page>>

HandleLogout(tab) ==
  /\ enabled /\ request[tab] = Quiet /\ session # NoSession
  /\ session' = NoSession
  /\ page' = [page EXCEPT ![tab] = NoTenant]
  /\ acted' = Nothing
  /\ UNCHANGED <<loginVars, flow, request, hops>>

(* Guard: no session with a tenant, no data; the login page or the picker. *)
Refused(tab) ==
  /\ ~Valid(request[tab].session)
  /\ request[tab].kind \in {"page", "write"}
  /\ page' = [page EXCEPT ![tab] = NoTenant]
  /\ Answer(tab)
  /\ acted' = Nothing
  /\ UNCHANGED <<loginVars, cookieVars>>

(* canonicalPage, then tenantPrefixed: a page of the session's tenant is   *)
(* served; one of another tenant switches to it once, if the session may;  *)
(* the browser may refuse the cookie.                                      *)
MaySwitch(r) == ~r.again

ServePage(tab) ==
  LET r == request[tab]  s == r.session IN
  /\ Asked(tab, "page") /\ Valid(s)
  /\ acted' = IF r.to = s.tenant
              THEN [Nothing EXCEPT !.login = s.login, !.tenant = s.tenant,
                      !.live = s.login \notin expired, !.from = "page"]
              ELSE Nothing
  /\ IF r.to = s.tenant
       THEN /\ page' = [page EXCEPT ![tab] = s.tenant]
            /\ Answer(tab)
            /\ UNCHANGED session
     ELSE IF r.to = NoTenant
       THEN /\ Follow(tab, Get(s.tenant), session)
            /\ UNCHANGED <<session, page>>
     ELSE IF MaySwitch(r) /\ CanAccess(s, r.to)
       THEN /\ session' \in {SwitchTo(s, r.to), session}
            /\ Follow(tab, [Get(r.to) EXCEPT !.again = TRUE], session')
            /\ UNCHANGED page
     ELSE /\ page' = [page EXCEPT ![tab] = NoTenant]
          /\ Answer(tab)
          /\ UNCHANGED session
  /\ UNCHANGED <<loginVars, flow>>

(* Faulty variant: the header is not compared.                             *)
NoGuard(r) == TRUE
GuardTenantHeader(r) == r.stamp \in {NoTenant, r.session.tenant}

ServeWrite(tab) ==
  LET r == request[tab] IN
  /\ Asked(tab, "write") /\ Valid(r.session)
  /\ acted' = IF GuardTenantHeader(r)
              THEN [login |-> r.session.login, tenant |-> r.session.tenant,
                    shown |-> page[tab], stamp |-> r.stamp,
                    live |-> r.session.login \notin expired, from |-> "form"]
              ELSE Nothing
  /\ Answer(tab)
  /\ UNCHANGED <<loginVars, cookieVars, page>>

------------------------------------------------------------------------------
(* Connectors.                                                             *)

(* svcauth.Guard: an active token whose role is held in exactly one        *)
(* organization, which a tenant names.                                     *)
Identity(active, claims) ==
  IF active /\ Cardinality(claims) = 1 THEN TenantsOf(claims) ELSE {}

(* Every route is wrapped in svcauth, then webauth, then DevAuth, and      *)
(* webauth.Guard asks for a session when browser login is configured.      *)
CallWithBearer(active, claims) ==
  /\ acted' =
       IF Identity(active, claims) = {}
         THEN [Nothing EXCEPT !.from = "unauthorized"]
       ELSE IF enabled THEN [Nothing EXCEPT !.from = "redirected"]
       ELSE [Nothing EXCEPT !.from = "connector", !.tenant = CHOOSE t \in Identity(active, claims) : TRUE]
  /\ UNCHANGED <<loginVars, cookieVars, page, request, hops>>

------------------------------------------------------------------------------
SessionExpires(n) ==
  /\ allowed[n] # {} /\ n \notin expired
  /\ expired' = expired \union {n}
  /\ acted' = Nothing
  /\ UNCHANGED <<enabled, attempts, allowed, cookieVars, page, request, hops>>

Browse(tab) ==
  \/ Send(tab)
  \/ HandleLogin(tab)
  \/ \E claims \in SUBSET Orgs : HandleCallback(tab, claims)
  \/ CallbackFails(tab)
  \/ HandleSwitch(tab) \/ HandleLogout(tab)
  \/ Refused(tab) \/ ServePage(tab) \/ ServeWrite(tab)

Next ==
  \/ \E tab \in Tabs : Browse(tab)
  \/ \E active \in BOOLEAN, claims \in SUBSET Orgs : CallWithBearer(active, claims)
  \/ \E n \in 1..MaxLogins : SessionExpires(n)

Spec == Init /\ [][Next]_vars

------------------------------------------------------------------------------
TypeOK ==
  /\ attempts \in 0..MaxLogins /\ flow \in 0..MaxLogins
  /\ session.list \subseteq Tenants /\ session.tenant \in Tenants \union {NoTenant}
  /\ \A t \in Tabs : page[t] \in Tenants \union {NoTenant}

(* CanAccess, SwitchIfAccessible and guardTenantHeader: whatever was       *)
(* switched, sent or logged out in other tabs meanwhile, a request acts in *)
(* a tenant that its own login found, never on a session that has expired, *)
(* and an htmx request in the tenant of the page it comes from.            *)
ActsWhereGranted ==
  /\ acted.login # 0 => acted.tenant \in allowed[acted.login] /\ acted.live
  /\ acted.stamp # NoTenant => acted.tenant = acted.stamp
  /\ Live(session) => AccessibleTenantIDs(session) \subseteq allowed[session.login]

(* _ucswitched: whatever other tabs switch meanwhile, and although the     *)
(* browser may refuse a cookie, a page load ends in a page or a refusal,   *)
(* not in a chain of redirects.                                            *)
RedirectsEnd == \A t \in Tabs : hops[t] <= 3

(* The header of tenanturl.go: "the stale-tab hazard (two tabs, two        *)
(* tenants, one cookie) can cost a reload, never a mutation in the wrong   *)
(* tenant".                                                                *)
StaleTabOnlyReloads == acted.from = "form" => acted.tenant = acted.shown

(* The comment of Routes: a request with a bearer token "must get a clean  *)
(* 401 JSON body on failure, never webauth.Guard's own browser-oriented    *)
(* redirect to /ui/login".                                                 *)
BearerNotRedirected == acted.from # "redirected"

=============================================================================
