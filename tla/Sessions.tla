------------------------------- MODULE Sessions -------------------------------
(***************************************************************************)
(* Login, refresh and logout of one browser session                        *)
(* (src/lib/accesscontrol) by concurrent requests.  The session middleware *)
(* (koa-session over CookieStore) reads the session from Redis when a      *)
(* request begins, works on a copy, and writes the copy back, whole and    *)
(* only if it has changed, before the answer is sent.                      *)
(*                                                                         *)
(* A token set is the number of its issue; so is a code verifier.  A code  *)
(* is named by the verifier its challenge was made from.                   *)
(***************************************************************************)
EXTENDS Naturals

CONSTANTS
    Requests,   \* 1..N, in the order in which they begin
    IdPs,       \* the settings of the identity provider considered
    Roles,      \* the roles a token may grant
    MaxTokens,  \* bound on the token sets issued
    MaxLogins,  \* bound on the code verifiers made
    MaxFaults,  \* bound on the calls to Redis and the provider that fail
    None        \* nothing

(* rotates: a refresh token works once.  again: a refresh returns another  *)
(* refresh token.  idToken: a refresh returns an id_token, as a login      *)
(* does.  endSession: there is an end_session_endpoint.                    *)
IdP == [rotates : BOOLEAN, again : BOOLEAN, idToken : BOOLEAN, endSession : BOOLEAN]

Tokens == 1..MaxTokens

ASSUME SessionsAssumption ==
    /\ Requests \subseteq Nat
    /\ IdPs \subseteq IdP
    /\ MaxTokens \in Nat \ {0} /\ MaxLogins \in Nat /\ MaxFaults \in Nat
    /\ None \notin Roles \cup Nat
    /\ None \notin [token : Tokens, refresh : BOOLEAN, roles : Roles \cup {None}]

Auth == [token : Tokens, refresh : BOOLEAN, roles : Roles \cup {None}]

Session == [auth : Auth \cup {None}, codeVerifier : 0..MaxLogins]

Kinds == {"login", "auth", "logout", "other"}

VARIABLES
    idp,        \* the settings of the identity provider
    stored,     \* the session in Redis
    issued,     \* token sets issued so far
    claims,     \* claims[n]: the role token set n grants, or None
    live,       \* the token sets whose refresh token the provider accepts
    expired,    \* the token sets whose access token has expired
    logins,     \* code verifiers made so far
    codes,      \* the codes the browser has been given and not used yet
    pc,         \* what each request does next
    kind,       \* its route
    session,    \* its copy of the session
    loaded,     \* the copy as it was loaded
    code,       \* the code it carries, or the challenge it sends
    answer,     \* its answer
    faults,     \* calls that failed so far
    stale,      \* ghost: has the session been written since the request loaded it?
    overtaken,  \* ghost: has a logout been saved since the request loaded it?
    clobbered,  \* ghost: has a changed copy undone a save it had not seen?
    out,        \* ghost: has the user logged out, and not in again?
    revived,    \* ghost: has a request that the logout overtook undone it?
    ended,      \* ghost: has the provider been asked to end its session?
    presented,  \* ghost: the refresh tokens presented to the provider
    raced,      \* ghost: has one been presented twice?
    dropped     \* ghost: has a request dropped the authentication it found?

idpVars == <<issued, claims, live, presented, raced>>
requestVars == <<pc, kind, session, loaded, code, answer, stale, overtaken>>
ghosts == <<clobbered, out, revived, ended, dropped>>
vars == <<idp, stored, idpVars, expired, logins, codes, requestVars, faults, ghosts>>

Empty == [auth |-> None, codeVerifier |-> 0]

SignedIn(role) ==
    [auth |-> [token |-> 1, refresh |-> TRUE, roles |-> role], codeVerifier |-> 0]

-----------------------------------------------------------------------------
(* Nobody has logged in yet, or somebody has.                              *)
Init ==
    /\ idp \in IdPs
    /\ \/ stored = Empty /\ issued = 0 /\ claims = [n \in Tokens |-> None] /\ live = {}
       \/ \E role \in Roles \cup {None} :
             /\ stored = SignedIn(role) /\ issued = 1
             /\ claims = [n \in Tokens |-> IF n = 1 THEN role ELSE None]
             /\ live = {1}
    /\ expired = {} /\ logins = 0 /\ codes = {} /\ faults = 0
    /\ pc = [r \in Requests |-> "idle"]
    /\ kind = [r \in Requests |-> "other"]
    /\ session = [r \in Requests |-> Empty]
    /\ loaded = [r \in Requests |-> Empty]
    /\ code = [r \in Requests |-> 0]
    /\ answer = [r \in Requests |-> "none"]
    /\ stale = [r \in Requests |-> FALSE] /\ overtaken = [r \in Requests |-> FALSE]
    /\ clobbered = FALSE /\ out = FALSE /\ revived = FALSE /\ ended = FALSE /\ dropped = FALSE
    /\ presented = {} /\ raced = FALSE

(* The token sets some copy of the session holds. *)
Held ==
    {s.auth.token : s \in {t \in {stored} \cup {session[r] : r \in Requests} : t.auth # None}}

(* The access token of a token set runs out.                               *)
Expire ==
    /\ \E n \in Held \ expired : expired' = expired \cup {n}
    /\ UNCHANGED <<idp, stored, idpVars, logins, codes, requestVars, faults, ghosts>>

Fault == faults < MaxFaults /\ faults' = faults + 1

(* What a handler leaves alone. *)
Local == UNCHANGED <<idp, stored, expired, stale, overtaken, clobbered, out, revived, ended>>

(* A request arrives and CookieStore.get gives it its copy of the session, *)
(* unless Redis fails.                                                     *)
Arrives(r, k) ==
    /\ pc[r] = "idle" /\ \A q \in Requests : q < r => pc[q] # "idle"
    /\ kind' = [kind EXCEPT ![r] = k]
    /\ loaded' = [loaded EXCEPT ![r] = stored]
    /\ Local

LoadFails(r) ==
    /\ pc[r] = "idle" /\ Fault
    /\ pc' = [pc EXCEPT ![r] = "answered"]
    /\ Local /\ UNCHANGED <<logins, codes, idpVars, kind, session, loaded, code, answer, dropped>>

(* The middleware saves the session next, then the answer is sent. *)
Respond(r, status) ==
    /\ pc' = [pc EXCEPT ![r] = "save"]
    /\ answer' = [answer EXCEPT ![r] = status]

(* Mutant: the verifier is made but not kept.                              *)
StartsLogin_Forgets(r, auth) ==
    /\ logins < MaxLogins /\ logins' = logins + 1
    /\ session' = [session EXCEPT ![r] = [auth |-> auth, codeVerifier |-> stored.codeVerifier]]
    /\ code' = [code EXCEPT ![r] = logins']

(* A new code verifier for the session, its challenge for the provider.    *)
StartsLogin(r, auth) ==
    /\ logins < MaxLogins /\ logins' = logins + 1
    /\ session' = [session EXCEPT ![r] = [auth |-> auth, codeVerifier |-> logins']]
    /\ code' = [code EXCEPT ![r] = logins']

loginRouteHandler(r) ==
    /\ Arrives(r, "login")
    /\ StartsLogin(r, stored.auth)
    /\ Respond(r, "302")
    /\ UNCHANGED <<codes, idpVars, faults, dropped>>

(* Mutant: the session is destroyed.                                       *)
logoutRouteHandler_Destroys(r) ==
    /\ Arrives(r, "logout")
    /\ logins < MaxLogins /\ logins' = logins + 1
    /\ session' = [session EXCEPT ![r] = None]
    /\ code' = [code EXCEPT ![r] = logins']
    /\ Respond(r, "302")
    /\ UNCHANGED <<codes, idpVars, faults, dropped>>

(* endSessionUrl throws where there is no such endpoint.                   *)
logoutRouteHandler(r) ==
    /\ Arrives(r, "logout")
    /\ StartsLogin(r, None)
    /\ Respond(r, IF stored.auth # None /\ ~idp.endSession THEN "500" ELSE "302")
    /\ UNCHANGED <<codes, idpVars, faults, dropped>>

(* The callback /auth: its code is on its way to the provider.             *)
SendCode(r) ==
    /\ Arrives(r, "auth")
    /\ \E c \in codes : code' = [code EXCEPT ![r] = c] /\ codes' = codes \ {c}
    /\ session' = [session EXCEPT ![r] = stored]
    /\ pc' = [pc EXCEPT ![r] = "callback"]
    /\ UNCHANGED <<logins, idpVars, answer, faults, dropped>>

(* The provider issues a token set, with or without roles.                 *)
Issue(role) ==
    /\ issued < MaxTokens /\ issued' = issued + 1
    /\ claims' = [claims EXCEPT ![issued'] = role]

(* The code fits the verifier of the session: the user is signed in, even  *)
(* if endSessionUrl throws afterwards.                                     *)
CallbackAccepted(r) ==
    /\ pc[r] = "callback" /\ code[r] = session[r].codeVerifier
    /\ \E role \in Roles \cup {None} :
          /\ Issue(role)
          /\ session' = [session EXCEPT ![r].auth =
                            [token |-> issued', refresh |-> TRUE, roles |-> role]]
    /\ live' = live \cup {issued'}
    /\ Respond(r, IF idp.endSession THEN "302" ELSE "500")
    /\ Local /\ UNCHANGED <<kind, loaded, logins, codes, code, presented, raced, faults, dropped>>

CallbackRefused(r) ==
    /\ pc[r] = "callback"
    /\ \/ code[r] # session[r].codeVerifier /\ UNCHANGED faults
       \/ Fault
    /\ Respond(r, "500")
    /\ Local /\ UNCHANGED <<kind, loaded, session, logins, codes, code, idpVars, dropped>>

-----------------------------------------------------------------------------
(* checkAndRefreshAuthentication.                                          *)

Unauthenticated(r) ==
    /\ Arrives(r, "other") /\ stored.auth = None
    /\ session' = [session EXCEPT ![r] = stored]
    /\ Respond(r, "401")
    /\ UNCHANGED <<logins, codes, code, idpVars, faults, dropped>>

StillValid(r) ==
    /\ Arrives(r, "other") /\ stored.auth # None /\ stored.auth.token \notin expired
    /\ session' = [session EXCEPT ![r] = stored]
    /\ Respond(r, "200")
    /\ UNCHANGED <<logins, codes, code, idpVars, faults, dropped>>

HasExpired(r) ==
    Arrives(r, "other") /\ stored.auth # None /\ stored.auth.token \in expired

NoRefreshToken(r) ==
    /\ HasExpired(r) /\ ~stored.auth.refresh
    /\ session' = [session EXCEPT ![r] = [stored EXCEPT !.auth = None]]
    /\ dropped' = TRUE
    /\ Respond(r, "401")
    /\ UNCHANGED <<logins, codes, code, idpVars, faults>>

(* client.refresh: the request is on its way to the provider.              *)
SendRefresh(r) ==
    /\ HasExpired(r) /\ stored.auth.refresh
    /\ session' = [session EXCEPT ![r] = stored]
    /\ pc' = [pc EXCEPT ![r] = "refresh"]
    /\ UNCHANGED <<logins, codes, code, answer, idpVars, faults, dropped>>

(* The refresh has failed. *)
Rejects(r) ==
    /\ session' = [session EXCEPT ![r].auth = None]
    /\ dropped' = TRUE
    /\ Respond(r, "401")

(* The provider looks at the refresh token of token set n.                 *)
Present(n) ==
    /\ presented' = presented \cup {n}
    /\ raced' = (raced \/ n \in presented)

(* It issues another token set in exchange.                                *)
Exchange(n, role) ==
    /\ Present(n)
    /\ n \in live
    /\ Issue(role)
    /\ live' = (IF idp.rotates THEN live \ {n} ELSE live)
                  \cup (IF idp.again THEN {issued'} ELSE {})

(* Mutant: the roles of the old token are kept.                            *)
Refreshed_KeepsRoles(auth, role) ==
    [token |-> issued', refresh |-> idp.again, roles |-> auth.roles]

(* Mutant: the new refresh token is not kept.                              *)
Refreshed_NoRefreshToken(auth, role) ==
    [token |-> issued', refresh |-> FALSE, roles |-> IF role = None THEN auth.roles ELSE role]

(* A token set without roles leaves those of the old one in place.         *)
Refreshed(auth, role) ==
    [token |-> issued', refresh |-> idp.again, roles |-> IF role = None THEN auth.roles ELSE role]

(* claims() throws without an id_token, endSessionUrl without an endpoint. *)
RefreshAccepted(r) ==
    /\ pc[r] = "refresh"
    /\ \E role \in Roles \cup {None} :
          /\ Exchange(session[r].auth.token, role)
          /\ IF idp.idToken /\ idp.endSession
               THEN /\ session' = [session EXCEPT ![r].auth = Refreshed(@, role)]
                    /\ Respond(r, "200") /\ UNCHANGED dropped
               ELSE Rejects(r)
    /\ Local /\ UNCHANGED <<kind, loaded, logins, codes, code, faults>>

(* Mutant: a request that is refused asks again.                           *)
RefreshRefused_Retries(r) ==
    /\ pc[r] = "refresh" /\ session[r].auth.token \notin live
    /\ Present(session[r].auth.token)
    /\ Local /\ UNCHANGED <<issued, claims, live, kind, loaded, logins, codes, code, pc,
                            session, answer, faults, dropped>>

(* It refuses the token, or cannot be reached.                             *)
RefreshRefused(r) ==
    /\ pc[r] = "refresh"
    /\ \/ session[r].auth.token \notin live /\ UNCHANGED faults
       \/ Fault
    /\ Present(session[r].auth.token)
    /\ Rejects(r)
    /\ Local /\ UNCHANGED <<issued, claims, live, kind, loaded, logins, codes, code>>

(* It accepts the token, but its answer does not arrive.                   *)
RefreshLost(r) ==
    /\ pc[r] = "refresh" /\ Fault
    /\ \E role \in Roles \cup {None} : Exchange(session[r].auth.token, role)
    /\ Rejects(r)
    /\ Local /\ UNCHANGED <<kind, loaded, logins, codes, code>>

-----------------------------------------------------------------------------
(* Mutant: every copy is written back, as SESSION_ROLLING would have it.   *)
Changed_Always(r) == TRUE

(* koa-session compares the copy with what it has loaded; rolling and      *)
(* renew are off (config.js:69).                                           *)
Changed(r) == session[r] # loaded[r]

(* Where the answer leads.  A logout that has found no authentication, and *)
(* so no id_token, leads straight to where a login does.                   *)
Redirects(r) ==
    CASE kind[r] = "logout" /\ loaded[r].auth = None -> "login"
      [] kind[r] \in {"login", "logout"}             -> kind[r]
      [] OTHER                                       -> "other"

(* The answer is sent; only the redirect of a login or logout matters.     *)
Send(r, status) ==
    /\ pc' = [pc EXCEPT ![r] = "answered"]
    /\ kind' = [kind EXCEPT ![r] = Redirects(r)]
    /\ code' = [code EXCEPT ![r] = IF kind[r] \in {"login", "logout"} /\ status = "302"
                                      THEN @ ELSE 0]
    /\ session' = [session EXCEPT ![r] = Empty]
    /\ loaded' = [loaded EXCEPT ![r] = Empty]
    /\ answer' = [answer EXCEPT ![r] = "none"]
    /\ UNCHANGED <<idp, idpVars, expired, logins, codes, ended, dropped>>

(* r has loaded the session before the logout, and means to change it: a   *)
(* /login, which keeps the authentication it has found, the callback of a  *)
(* login, or a request that has just refreshed the authentication.         *)
Revives(r) ==
    /\ overtaken[r] /\ session[r].auth # None
    /\ kind[r] = "login" \/ session[r].auth # loaded[r].auth

UnderWay == {q \in Requests : pc[q] \notin {"idle", "answered"}}

(* The user has logged out, or has logged in since.                        *)
RecordOut(r) ==
    CASE kind[r] = "logout" ->
            /\ out' = TRUE /\ revived' = FALSE
            /\ overtaken' = [q \in Requests |-> q # r /\ q \in UnderWay]
      [] OTHER ->
            /\ out' = (out /\ ~(kind[r] = "auth" /\ Changed(r) /\ ~overtaken[r]))
            /\ revived' = (revived \/ Revives(r))
            /\ overtaken' = [overtaken EXCEPT ![r] = FALSE]

(* CookieStore.set, if the copy has changed.                               *)
Save(r) ==
    /\ pc[r] = "save"
    /\ IF Changed(r)
         THEN /\ stored' = session[r]
              /\ stale' = [q \in Requests |-> q # r /\ (stale[q] \/ q \in UnderWay)]
              /\ clobbered' = (clobbered \/ (stale[r] /\ session[r] # loaded[r]))
         ELSE /\ stale' = [stale EXCEPT ![r] = FALSE]
              /\ UNCHANGED <<stored, clobbered>>
    /\ RecordOut(r)
    /\ Send(r, answer[r])
    /\ UNCHANGED faults

(* The middleware throws: koa answers 500 whatever the handler had said.   *)
SaveFails(r) ==
    /\ pc[r] = "save" /\ Changed(r) /\ Fault
    /\ stale' = [stale EXCEPT ![r] = FALSE]
    /\ overtaken' = [overtaken EXCEPT ![r] = FALSE]
    /\ Send(r, "500")
    /\ UNCHANGED <<stored, clobbered, out, revived>>

(* The browser follows the redirect of a login or logout; the provider     *)
(* ends its session if its end_session_endpoint is called, and gives the   *)
(* user a code.                                                            *)
BrowserFollows(r) ==
    /\ pc[r] = "answered" /\ code[r] # 0
    /\ codes' = codes \cup {code[r]}
    /\ IF kind[r] = "logout" THEN live' = {} /\ ended' = TRUE ELSE UNCHANGED <<live, ended>>
    /\ kind' = [kind EXCEPT ![r] = "other"]
    /\ code' = [code EXCEPT ![r] = 0]
    /\ UNCHANGED <<idp, stored, issued, claims, presented, raced, expired, logins, pc, session,
                   loaded, answer, stale, overtaken, faults, clobbered, out, revived, dropped>>

Begin(r) ==
    \/ loginRouteHandler(r) \/ logoutRouteHandler(r) \/ SendCode(r) \/ LoadFails(r)
    \/ Unauthenticated(r) \/ StillValid(r) \/ NoRefreshToken(r) \/ SendRefresh(r)

(* The provider answers a request, or the call to it fails.                *)
ProviderAnswers(r) ==
    \/ CallbackAccepted(r) \/ CallbackRefused(r)
    \/ RefreshAccepted(r) \/ RefreshRefused(r) \/ RefreshLost(r)

Next ==
    \/ Expire
    \/ \E r \in Requests :
          Begin(r) \/ ProviderAnswers(r) \/ Save(r) \/ SaveFails(r) \/ BrowserFollows(r)

(* A call to the provider ends, one way or another, and so does a save.    *)
Fairness == \A r \in Requests : WF_vars(ProviderAnswers(r)) /\ WF_vars(Save(r))

Spec == Init /\ [][Next]_vars /\ Fairness

-----------------------------------------------------------------------------
(* Properties.                                                             *)

(* The authentication of a session copy is one the provider has given.     *)
Rightful(s) ==
    s.auth # None =>
        /\ s.auth.token <= issued
        /\ claims[s.auth.token] # None => s.auth.roles = claims[s.auth.token]
        /\ s.auth.roles \in {None} \cup {claims[n] : n \in 1..s.auth.token}

TypeOK ==
    /\ idp \in IdPs
    /\ stored \in Session
    /\ issued \in 0..MaxTokens /\ claims \in [Tokens -> Roles \cup {None}]
    /\ live \subseteq 1..issued /\ expired \subseteq 1..issued /\ presented \subseteq 1..issued
    /\ logins \in 0..MaxLogins /\ codes \subseteq 1..logins
    /\ pc \in [Requests -> {"idle", "callback", "refresh", "save", "answered"}]
    /\ kind \in [Requests -> Kinds]
    /\ session \in [Requests -> Session] /\ loaded \in [Requests -> Session]
    /\ code \in [Requests -> 0..MaxLogins]
    /\ answer \in [Requests -> {"none", "200", "302", "401", "500"}]
    /\ faults \in 0..MaxFaults
    /\ stale \in [Requests -> BOOLEAN] /\ overtaken \in [Requests -> BOOLEAN]

(* The roles a request works with, and those it leaves in the session, are *)
(* the ones its token set grants; a token set that names no roles leaves   *)
(* those of an earlier one (index.js:187).                                 *)
RolesFollowToken ==
    /\ Rightful(stored)
    /\ \A r \in Requests : Rightful(session[r]) /\ Rightful(loaded[r])

(* After a logout the session stays without authentication until a login   *)
(* that began after it has come back.  Only requests that were under way   *)
(* when the logout was saved can undo it, and only those that write: a     *)
(* /login (loginRouteHandler leaves the authentication it has found where  *)
(* it is, index.js:228), the callback of an earlier login and a request    *)
(* that has refreshed the authentication meanwhile.  One that merely       *)
(* carries its authentication, or that arrives after the logout, cannot.   *)
LogoutHolds == out /\ ~revived => stored.auth = None

(* The code of the latest login fits the session it comes back to, unless  *)
(* a request that was under way has written an older session back.         *)
LatestLoginWorks ==
    \A r \in Requests :
        /\ pc[r] = "callback"
        /\ code[r] = logins /\ ~clobbered
        => session[r].codeVerifier = code[r]

(* Nobody who is signed in gets a 401 for want of a refresh, except by a   *)
(* failed call, the end of the provider's session, a provider that gives   *)
(* no further refresh token or id_token or has no endpoint to end a        *)
(* session, or, if refresh tokens work only once, by two requests that     *)
(* refresh at the same time (index.js:176).                                *)
NoSpuriousLogout ==
    dropped => \/ faults > 0 \/ ended \/ ~idp.again \/ ~idp.idToken \/ ~idp.endSession
               \/ idp.rotates /\ raced

(* Every request is answered, whatever the provider answers.               *)
Answered ==
    \A r \in Requests : pc[r] # "idle" ~> pc[r] = "answered"
=============================================================================
