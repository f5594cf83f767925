---------------------------- MODULE SessionsProofs ----------------------------
(***************************************************************************)
(* Proofs about Sessions, for any number of requests, any identity         *)
(* providers, roles and bounds.                                            *)
(***************************************************************************)
EXTENDS Sessions, TLAPS

(* The authentication of s fits n token sets with the claims c. *)
Fits(s, n, c) ==
    s.auth # None =>
        /\ s.auth.token <= n
        /\ c[s.auth.token] # None => s.auth.roles = c[s.auth.token]
        /\ s.auth.roles \in {None} \cup {c[m] : m \in 1..s.auth.token}

(* Every verifier kept or sent is one that has been made. *)
Verifiers ==
    /\ stored.codeVerifier <= logins
    /\ \A r \in Requests :
          /\ session[r].codeVerifier <= logins /\ loaded[r].codeVerifier <= logins
          /\ code[r] <= logins

Active(r) == pc[r] \notin {"idle", "answered"}

(* What a request under way has made of the session it loaded. *)
Copies ==
    \A r \in Requests :
        /\ pc[r] = "idle" => ~stale[r]
        /\ pc[r] = "callback" => kind[r] = "auth"
        /\ pc[r] = "refresh" =>
              kind[r] = "other" /\ session[r].auth # None /\ loaded[r].auth # None
        /\ Active(r) /\ ~stale[r] => loaded[r] = stored
        /\ Active(r) /\ kind[r] = "logout" =>
              session[r].auth = None /\ session[r].codeVerifier # loaded[r].codeVerifier
        /\ Active(r) /\ kind[r] = "login" => session[r].auth = loaded[r].auth
        /\ Active(r) /\ kind[r] = "other" /\ loaded[r].auth = None => session[r].auth = None
        /\ Active(r) /\ kind[r] \in {"auth", "other"} =>
              session[r].codeVerifier = loaded[r].codeVerifier

(* After a logout neither the session nor a copy that was loaded since has *)
(* an authentication, until a login comes back.                            *)
LoggedOut ==
    out /\ ~revived =>
        /\ stored.auth = None
        /\ \A r \in Requests : Active(r) /\ ~overtaken[r] => loaded[r].auth = None

IInv == TypeOK /\ RolesFollowToken /\ Verifiers /\ Copies /\ LoggedOut

-----------------------------------------------------------------------------

LEMMA RolesAreFits ==
  /\ RolesFollowToken <=>
        /\ Fits(stored, issued, claims)
        /\ \A r \in Requests : Fits(session[r], issued, claims) /\ Fits(loaded[r], issued, claims)
  /\ RolesFollowToken' <=>
        /\ Fits(stored', issued', claims')
        /\ \A r \in Requests :
              Fits(session'[r], issued', claims') /\ Fits(loaded'[r], issued', claims')
  BY DEF RolesFollowToken, Rightful, Fits

(* A session still fits when more token sets are issued. *)
LEMMA FitsMore ==
  ASSUME NEW s \in Session, NEW n \in 0..MaxTokens, NEW m \in 0..MaxTokens, n <= m,
         NEW c \in [Tokens -> Roles \cup {None}], NEW d \in [Tokens -> Roles \cup {None}],
         \A k \in 1..n : d[k] = c[k],
         Fits(s, n, c)
  PROVE  Fits(s, m, d)
  <1>1. CASE s.auth = None
    BY <1>1 DEF Fits
  <1>2. CASE s.auth # None
    <2>1. s.auth.token \in 1..n
      BY <1>2, SessionsAssumption DEF Fits, Session, Auth, Tokens
    <2>2. \A k \in 1..s.auth.token : d[k] = c[k]
      BY <2>1
    <2> QED
      BY <1>2, <2>1, <2>2, SessionsAssumption DEF Fits
  <1> QED
    BY <1>1, <1>2

LEMMA FitsNone == ASSUME NEW s, s.auth = None, NEW n, NEW c PROVE Fits(s, n, c)
  BY DEF Fits

(* Only the copies of request r may change, and the token sets grow. *)
LEMMA RolesStep ==
  ASSUME TypeOK, RolesFollowToken, TypeOK', NEW r \in Requests,
         stored' = stored, issued <= issued', \A k \in 1..issued : claims'[k] = claims[k],
         \A q \in Requests \ {r} : session'[q] = session[q] /\ loaded'[q] = loaded[q],
         Fits(session'[r], issued', claims'), Fits(loaded'[r], issued', claims')
  PROVE  RolesFollowToken'
  <1>1. \A s \in Session : Fits(s, issued, claims) => Fits(s, issued', claims')
    BY FitsMore DEF TypeOK
  <1>2. /\ Fits(stored', issued', claims')
        /\ \A q \in Requests :
              Fits(session'[q], issued', claims') /\ Fits(loaded'[q], issued', claims')
    BY <1>1, RolesAreFits DEF TypeOK
  <1> QED
    BY <1>2, RolesAreFits

LEMMA Keeps ==
  ASSUME IInv, TypeOK',
         UNCHANGED <<stored, issued, claims, logins, code, pc, kind, session, loaded, stale,
                     overtaken, out, revived>>
  PROVE  IInv'
  BY DEF IInv, RolesFollowToken, Rightful, Verifiers, Copies, Active, LoggedOut

(* The other requests stay where they are. *)
Others(r) ==
    \A q \in Requests \ {r} :
        pc'[q] = pc[q] /\ session'[q] = session[q] /\ code'[q] = code[q]

(* IInv' when a request arrives. *)
LEMMA ArrivesInv ==
  ASSUME IInv, TypeOK', NEW r \in Requests, NEW k \in Kinds, Arrives(r, k),
         UNCHANGED <<issued, claims>>,
         Others(r), pc'[r] \in {"callback", "refresh", "save"},
         session'[r].auth \in {stored.auth, None},
         logins <= logins', session'[r].codeVerifier <= logins', code'[r] <= logins',
         pc'[r] = "callback" => k = "auth",
         pc'[r] = "refresh" => k = "other" /\ session'[r].auth # None,
         k = "logout" => session'[r].auth = None /\ session'[r].codeVerifier > logins,
         k = "login" => session'[r].auth = stored.auth,
         k \in {"auth", "other"} => session'[r].codeVerifier = stored.codeVerifier
  PROVE  IInv'
  <1> USE DEF Others
  <1>1. RolesFollowToken'
    <2>1. loaded'[r] = stored /\ (session'[r].auth = stored.auth \/ session'[r].auth = None)
      BY DEF IInv, TypeOK, Arrives
    <2>2. Fits(loaded'[r], issued', claims') /\ Fits(session'[r], issued', claims')
      BY <2>1, RolesAreFits DEF IInv, Fits
    <2> QED
      BY <2>2, RolesStep DEF IInv, Arrives, Local, TypeOK
  <1>2. Verifiers'
    BY DEF IInv, TypeOK, Verifiers, Arrives, Local, Session
  <1>3. Copies'
    BY DEF IInv, TypeOK, Copies, Verifiers, Active, Arrives, Local, Session
  <1>4. LoggedOut'
    BY DEF IInv, TypeOK, LoggedOut, Active, Arrives, Local
  <1> QED
    BY <1>1, <1>2, <1>3, <1>4 DEF IInv

(* IInv' when a request under way goes on without saving. *)
LEMMA ContinuesInv ==
  ASSUME IInv, TypeOK', NEW r \in Requests, Local, Active(r),
         UNCHANGED <<kind, loaded, logins, code>>,
         Others(r), pc'[r] = "save",
         session'[r].codeVerifier = session[r].codeVerifier,
         kind[r] = "auth" \/ (kind[r] = "other" /\ loaded[r].auth # None),
         issued <= issued', \A k \in 1..issued : claims'[k] = claims[k],
         Fits(session'[r], issued', claims')
  PROVE  IInv'
  <1> USE DEF Others
  <1>1. RolesFollowToken'
    <2>1. \A q \in Requests : loaded'[q] = loaded[q] /\ Fits(loaded[q], issued, claims)
      BY RolesAreFits DEF IInv
    <2>2. \A s \in Session : Fits(s, issued, claims) => Fits(s, issued', claims')
      BY FitsMore DEF IInv, TypeOK
    <2>3. Fits(loaded'[r], issued', claims')
      BY <2>1, <2>2 DEF IInv, TypeOK
    <2> QED
      BY <2>3, RolesStep DEF IInv, Local, TypeOK
  <1>2. Verifiers'
    BY DEF IInv, TypeOK, Verifiers, Local
  <1>3. Copies'
    BY DEF IInv, TypeOK, Copies, Active, Local
  <1>4. LoggedOut'
    BY DEF IInv, LoggedOut, Active, Local
  <1> QED
    BY <1>1, <1>2, <1>3, <1>4 DEF IInv

LEMMA EmptyType == Empty \in Session /\ Empty.auth = None /\ Empty.codeVerifier = 0
  BY SessionsAssumption DEF Empty, Session

LEMMA InitInv == Init => IInv
  <1> SUFFICES ASSUME Init PROVE IInv
    OBVIOUS
  <1>1. TypeOK /\ RolesFollowToken
    <2>1. CASE stored = Empty /\ issued = 0 /\ claims = [n \in Tokens |-> None] /\ live = {}
      BY <2>1, EmptyType, SessionsAssumption
         DEF Init, TypeOK, RolesFollowToken, Rightful, Kinds, Tokens
    <2>2. ASSUME NEW role \in Roles \cup {None}, stored = SignedIn(role), issued = 1,
                 claims = [n \in Tokens |-> IF n = 1 THEN role ELSE None], live = {1}
          PROVE  TypeOK /\ RolesFollowToken
      <3>1. stored \in Session /\ stored.auth.token = 1 /\ stored.auth.roles = role
        BY <2>2, SessionsAssumption DEF SignedIn, Session, Auth, Tokens
      <3>2. claims[1] = role /\ 1 \in 1..1
        BY <2>2, SessionsAssumption DEF Tokens
      <3>3. TypeOK
        BY <2>2, <3>1, EmptyType, SessionsAssumption DEF Init, TypeOK, Kinds, Tokens
      <3>4. Rightful(stored)
        BY <2>2, <3>1, <3>2 DEF Rightful
      <3> QED
        BY <3>3, <3>4, EmptyType DEF Init, RolesFollowToken, Rightful
    <2> QED
      BY <2>1, <2>2 DEF Init
  <1>2. Verifiers
    BY EmptyType, SessionsAssumption DEF Init, Verifiers, SignedIn
  <1>3. Copies /\ LoggedOut
    BY DEF Init, Copies, Active, LoggedOut
  <1> QED
    BY <1>1, <1>2, <1>3 DEF IInv

LEMMA ExpireInv == ASSUME IInv, Expire PROVE IInv'
  <1>1. \A n \in Held : n \in 1..issued
    BY SessionsAssumption DEF Held, IInv, RolesFollowToken, Rightful, TypeOK, Session, Auth, Tokens
  <1>2. TypeOK'
    BY <1>1 DEF Expire, IInv, TypeOK, idpVars, requestVars, ghosts
  <1> QED
    BY <1>2, Keeps DEF Expire, idpVars, requestVars, ghosts

-----------------------------------------------------------------------------
(* The routes that start a login, and the callback. *)

LEMMA LoginInv == ASSUME IInv, NEW r \in Requests, loginRouteHandler(r) PROVE IInv'
  <1> DEFINE s == [auth |-> stored.auth, codeVerifier |-> logins + 1]
  <1>1. s \in Session /\ logins' = logins + 1 /\ logins' \in 0..MaxLogins
    BY SessionsAssumption DEF IInv, TypeOK, loginRouteHandler, StartsLogin, Session
  <1>2. session' = [session EXCEPT ![r] = s] /\ code' = [code EXCEPT ![r] = logins']
    BY <1>1 DEF loginRouteHandler, StartsLogin
  <1>3. TypeOK'
    BY <1>1, <1>2 DEF IInv, TypeOK, loginRouteHandler, Arrives, Local, Respond, Kinds, idpVars
  <1>4. session'[r] = s /\ code'[r] = logins' /\ pc'[r] = "save" /\ Others(r)
    BY <1>1, <1>2 DEF IInv, TypeOK, loginRouteHandler, Respond, Others
  <1>5. logins <= logins' /\ logins < s.codeVerifier /\ s.codeVerifier <= logins'
    BY <1>1 DEF IInv, TypeOK
  <1>6. Arrives(r, "login") /\ "login" \in Kinds /\ UNCHANGED <<issued, claims>>
    BY DEF loginRouteHandler, Kinds, idpVars
  <1> HIDE DEF s
  <1>7. s.auth = stored.auth
    BY DEF s
  <1> QED
    BY <1>1, <1>3, <1>4, <1>5, <1>6, <1>7, ArrivesInv

LEMMA LogoutInv == ASSUME IInv, NEW r \in Requests, logoutRouteHandler(r) PROVE IInv'
  <1> DEFINE s == [auth |-> None, codeVerifier |-> logins + 1]
  <1>1. s \in Session /\ logins' = logins + 1 /\ logins' \in 0..MaxLogins
    BY SessionsAssumption DEF IInv, TypeOK, logoutRouteHandler, StartsLogin, Session
  <1>2. session' = [session EXCEPT ![r] = s] /\ code' = [code EXCEPT ![r] = logins']
    BY <1>1 DEF logoutRouteHandler, StartsLogin
  <1>3. TypeOK'
    BY <1>1, <1>2 DEF IInv, TypeOK, logoutRouteHandler, Arrives, Local, Respond, Kinds, idpVars
  <1>4. session'[r] = s /\ code'[r] = logins' /\ pc'[r] = "save" /\ Others(r)
    BY <1>1, <1>2 DEF IInv, TypeOK, logoutRouteHandler, Respond, Others
  <1>5. logins <= logins' /\ logins < s.codeVerifier /\ s.codeVerifier <= logins'
    BY <1>1 DEF IInv, TypeOK
  <1>6. Arrives(r, "logout") /\ "logout" \in Kinds /\ UNCHANGED <<issued, claims>>
    BY DEF logoutRouteHandler, Kinds, idpVars
  <1> HIDE DEF s
  <1>7. s.auth = None
    BY DEF s
  <1> QED
    BY <1>1, <1>3, <1>4, <1>5, <1>6, <1>7, ArrivesInv

LEMMA LoadFailsInv == ASSUME IInv, NEW r \in Requests, LoadFails(r) PROVE IInv'
  <1>1. TypeOK'
    BY SessionsAssumption DEF IInv, TypeOK, LoadFails, Fault, Local, idpVars
  <1>2. RolesFollowToken' /\ Verifiers'
    BY DEF IInv, RolesFollowToken, Rightful, Verifiers, LoadFails, Local, idpVars
  <1>3. Copies' /\ LoggedOut'
    BY DEF IInv, TypeOK, Copies, Active, LoggedOut, LoadFails, Local
  <1> QED
    BY <1>1, <1>2, <1>3 DEF IInv

LEMMA SendCodeInv == ASSUME IInv, NEW r \in Requests, SendCode(r) PROVE IInv'
  <1>1. PICK c \in codes : code' = [code EXCEPT ![r] = c] /\ codes' = codes \ {c}
    BY DEF SendCode
  <1>2. c \in 1..logins /\ logins \in 0..MaxLogins /\ MaxLogins \in Nat
    BY SessionsAssumption DEF IInv, TypeOK
  <1>3. TypeOK'
    BY <1>1, <1>2 DEF IInv, TypeOK, SendCode, Arrives, Local, Kinds, idpVars
  <1>4. session' = [session EXCEPT ![r] = stored] /\ pc' = [pc EXCEPT ![r] = "callback"]
    BY DEF SendCode
  <1>5. stored.codeVerifier <= logins
    BY DEF IInv, Verifiers
  <1>6. /\ session'[r] = stored /\ code'[r] = c /\ pc'[r] = "callback" /\ Others(r)
        /\ Arrives(r, "auth") /\ "auth" \in Kinds /\ UNCHANGED <<issued, claims, logins>>
    BY <1>1, <1>4 DEF IInv, TypeOK, SendCode, Others, Kinds, idpVars
  <1> QED
    BY <1>2, <1>3, <1>5, <1>6, ArrivesInv

(* A token set that has just been issued, with its role. *)
LEMMA IssueFits ==
  ASSUME TypeOK, NEW role \in Roles \cup {None}, Issue(role)
  PROVE  /\ issued' \in Tokens /\ issued' \in 0..MaxTokens /\ issued' = issued + 1
         /\ claims' \in [Tokens -> Roles \cup {None}] /\ claims'[issued'] = role
         /\ \A k \in 1..issued : claims'[k] = claims[k]
  BY SessionsAssumption DEF TypeOK, Issue, Tokens

LEMMA CallbackAcceptedInv ==
  ASSUME IInv, NEW r \in Requests, CallbackAccepted(r) PROVE IInv'
  <1>1. PICK role \in Roles \cup {None} :
           /\ Issue(role)
           /\ session' = [session EXCEPT ![r].auth =
                             [token |-> issued', refresh |-> TRUE, roles |-> role]]
    BY DEF CallbackAccepted
  <1> DEFINE a == [token |-> issued', refresh |-> TRUE, roles |-> role]
             s == [session[r] EXCEPT !.auth = a]
  <1>2. /\ issued' \in Tokens /\ issued' \in 0..MaxTokens /\ issued' = issued + 1
        /\ claims' \in [Tokens -> Roles \cup {None}] /\ claims'[issued'] = role
        /\ \A k \in 1..issued : claims'[k] = claims[k]
    BY <1>1, IssueFits DEF IInv
  <1>3. a \in Auth /\ s \in Session /\ session' = [session EXCEPT ![r] = s]
    BY <1>1, <1>2 DEF IInv, TypeOK, Auth, Session
  <1>4. s.auth = a /\ s.codeVerifier = session[r].codeVerifier
    BY DEF IInv, TypeOK, Session
  <1>5. Fits(s, issued', claims')
    BY <1>2, <1>4 DEF Fits, IInv, TypeOK
  <1>6. TypeOK'
    <2>1. /\ live' \subseteq 1..issued' /\ expired' \subseteq 1..issued'
          /\ presented' \subseteq 1..issued'
      BY <1>2 DEF IInv, TypeOK, CallbackAccepted, Local
    <2>2. session' \in [Requests -> Session]
      BY <1>3 DEF IInv, TypeOK
    <2>3. /\ pc' \in [Requests -> {"idle", "callback", "refresh", "save", "answered"}]
          /\ answer' \in [Requests -> {"none", "200", "302", "401", "500"}]
      BY DEF IInv, TypeOK, CallbackAccepted, Respond
    <2>4. UNCHANGED <<idp, stored, logins, codes, kind, loaded, code, faults, stale, overtaken>>
      BY DEF CallbackAccepted, Local
    <2> QED
      BY <1>2, <2>1, <2>2, <2>3, <2>4 DEF IInv, TypeOK
  <1>7. pc[r] = "callback" /\ kind[r] = "auth" /\ Active(r)
    BY DEF IInv, Copies, CallbackAccepted, Active
  <1> HIDE DEF s
  <1>8. session'[r] = s /\ pc'[r] = "save" /\ Others(r)
    BY <1>3 DEF IInv, TypeOK, Others, CallbackAccepted, Respond
  <1>9. Local /\ UNCHANGED <<kind, loaded, logins, code>>
    BY DEF CallbackAccepted
  <1>10. issued <= issued'
    BY <1>2 DEF IInv, TypeOK
  <1> QED
    BY <1>2, <1>4, <1>5, <1>6, <1>7, <1>8, <1>9, <1>10, ContinuesInv

LEMMA CallbackRefusedInv ==
  ASSUME IInv, NEW r \in Requests, CallbackRefused(r) PROVE IInv'
  <1>1. faults' \in 0..MaxFaults
    BY SessionsAssumption DEF IInv, TypeOK, CallbackRefused, Fault
  <1>2. TypeOK'
    BY <1>1 DEF IInv, TypeOK, CallbackRefused, Respond, Local, idpVars
  <1>3. pc[r] = "callback" /\ kind[r] = "auth" /\ Active(r)
    BY DEF IInv, Copies, CallbackRefused, Active
  <1>4. /\ session'[r] = session[r] /\ pc'[r] = "save" /\ Others(r) /\ Local
        /\ UNCHANGED <<kind, loaded, logins, code, issued, claims>>
    BY DEF IInv, TypeOK, Others, CallbackRefused, Respond, idpVars
  <1>5. Fits(session'[r], issued', claims') /\ issued <= issued'
    BY <1>4, RolesAreFits DEF IInv, TypeOK
  <1> QED
    BY <1>2, <1>3, <1>4, <1>5, ContinuesInv

-----------------------------------------------------------------------------
(* checkAndRefreshAuthentication, when the request arrives. *)

(* A request that is answered, or refreshes, with the copy it was given or *)
(* one without authentication.                                             *)
LEMMA OtherInv ==
  ASSUME IInv, NEW r \in Requests, Arrives(r, "other"), NEW s \in Session,
         s.auth \in {stored.auth, None}, s.codeVerifier = stored.codeVerifier,
         session' = [session EXCEPT ![r] = s],
         NEW p \in {"save", "refresh"}, p = "refresh" => s.auth # None,
         pc' = [pc EXCEPT ![r] = p],
         answer' \in [Requests -> {"none", "200", "302", "401", "500"}],
         UNCHANGED <<logins, codes, code, idpVars, faults>>
  PROVE  IInv'
  <1>1. TypeOK'
    <2>1. /\ session' \in [Requests -> Session] /\ loaded' \in [Requests -> Session]
          /\ kind' \in [Requests -> Kinds]
          /\ pc' \in [Requests -> {"idle", "callback", "refresh", "save", "answered"}]
      BY DEF IInv, TypeOK, Arrives, Kinds
    <2> QED
      BY <2>1 DEF IInv, TypeOK, Arrives, Local, idpVars
  <1>2. /\ session'[r] = s /\ pc'[r] = p /\ Others(r) /\ code'[r] <= logins'
        /\ logins <= logins' /\ session'[r].codeVerifier <= logins'
        /\ "other" \in Kinds /\ UNCHANGED <<issued, claims>>
    BY DEF IInv, TypeOK, Verifiers, Others, Kinds, idpVars
  <1> QED
    BY <1>1, <1>2, ArrivesInv

LEMMA CheckInv ==
  ASSUME IInv, NEW r \in Requests,
         Unauthenticated(r) \/ StillValid(r) \/ NoRefreshToken(r) \/ SendRefresh(r)
  PROVE  IInv'
  <1> DEFINE none == [stored EXCEPT !.auth = None]
  <1>1. stored \in Session /\ none \in Session /\ none.auth = None
        /\ none.codeVerifier = stored.codeVerifier
    BY DEF IInv, TypeOK, Session
  <1>2. answer \in [Requests -> {"none", "200", "302", "401", "500"}]
    BY DEF IInv, TypeOK
  <1> HIDE DEF none
  <1>3. CASE Unauthenticated(r)
    BY <1>1, <1>2, <1>3, OtherInv DEF Unauthenticated, Respond
  <1>4. CASE StillValid(r)
    BY <1>1, <1>2, <1>4, OtherInv DEF StillValid, Respond
  <1>5. CASE NoRefreshToken(r)
    BY <1>1, <1>2, <1>5, OtherInv DEF NoRefreshToken, HasExpired, Respond, none
  <1>6. CASE SendRefresh(r)
    BY <1>1, <1>2, <1>6, OtherInv DEF SendRefresh, HasExpired
  <1> QED
    BY <1>3, <1>4, <1>5, <1>6

-----------------------------------------------------------------------------
(* The provider's answer to a refresh. *)

LEMMA PresentType ==
  ASSUME IInv, NEW r \in Requests, pc[r] = "refresh", Present(session[r].auth.token)
  PROVE  presented' \subseteq 1..issued
  BY SessionsAssumption
     DEF IInv, TypeOK, Copies, RolesFollowToken, Rightful, Present, Session, Auth, Tokens

LEMMA RejectsInv ==
  ASSUME IInv, NEW r \in Requests, pc[r] = "refresh", Rejects(r), Local,
         UNCHANGED <<kind, loaded, logins, codes, code>>,
         issued' \in 0..MaxTokens, issued <= issued',
         claims' \in [Tokens -> Roles \cup {None}], \A k \in 1..issued : claims'[k] = claims[k],
         live' \subseteq 1..issued', presented' \subseteq 1..issued', faults' \in 0..MaxFaults
  PROVE  IInv'
  <1> DEFINE s == [session[r] EXCEPT !.auth = None]
  <1>1. s \in Session /\ s.auth = None /\ s.codeVerifier = session[r].codeVerifier
    BY DEF IInv, TypeOK, Session
  <1>2. session' = [session EXCEPT ![r] = s]
    BY DEF Rejects
  <1>3. TypeOK'
    <2>1. /\ session' \in [Requests -> Session]
          /\ pc' \in [Requests -> {"idle", "callback", "refresh", "save", "answered"}]
          /\ answer' \in [Requests -> {"none", "200", "302", "401", "500"}]
      BY <1>1, <1>2 DEF IInv, TypeOK, Rejects, Respond
    <2>2. expired' \subseteq 1..issued'
      BY DEF IInv, TypeOK, Local
    <2> QED
      BY <2>1, <2>2 DEF IInv, TypeOK, Local
  <1>4. session'[r] = s /\ pc'[r] = "save" /\ Others(r)
    BY <1>2 DEF IInv, TypeOK, Others, Rejects, Respond
  <1>5. kind[r] = "other" /\ loaded[r].auth # None /\ Active(r)
    BY DEF IInv, Copies, Active
  <1> HIDE DEF s
  <1> QED
    BY <1>1, <1>3, <1>4, <1>5, FitsNone, ContinuesInv

LEMMA ExchangeType ==
  ASSUME IInv, NEW n, NEW role \in Roles \cup {None}, Exchange(n, role)
  PROVE  /\ issued' \in Tokens /\ issued' \in 0..MaxTokens /\ issued' = issued + 1
         /\ issued <= issued' /\ n \in 1..issued
         /\ claims' \in [Tokens -> Roles \cup {None}] /\ claims'[issued'] = role
         /\ \A k \in 1..issued : claims'[k] = claims[k]
         /\ live' \subseteq 1..issued' /\ presented' \subseteq 1..issued'
  <1>1. TypeOK /\ Issue(role) /\ n \in 1..issued /\ issued \in Nat
    BY DEF IInv, TypeOK, Exchange
  <1>2. issued' = issued + 1
    BY <1>1, IssueFits
  <1>3. live' \subseteq 1..issued' /\ presented' \subseteq 1..issued'
    BY <1>1, <1>2 DEF TypeOK, Exchange, Present
  <1> QED
    BY <1>1, <1>2, <1>3, IssueFits

LEMMA FaultType == ASSUME IInv, Fault PROVE faults' \in 0..MaxFaults
  BY SessionsAssumption DEF IInv, TypeOK, Fault

LEMMA RefusedInv ==
  ASSUME IInv, NEW r \in Requests, RefreshRefused(r) \/ RefreshLost(r) PROVE IInv'
  <1>1. CASE RefreshRefused(r)
    <2>1. faults' \in 0..MaxFaults
      BY <1>1, FaultType DEF RefreshRefused, IInv, TypeOK
    <2>2. presented' \subseteq 1..issued
      BY <1>1, PresentType DEF RefreshRefused
    <2> QED
      BY <1>1, <2>1, <2>2, RejectsInv DEF RefreshRefused, IInv, TypeOK
  <1>2. CASE RefreshLost(r)
    <2>1. PICK role \in Roles \cup {None} : Exchange(session[r].auth.token, role)
      BY <1>2 DEF RefreshLost
    <2>2. faults' \in 0..MaxFaults
      BY <1>2, FaultType DEF RefreshLost
    <2> QED
      BY <1>2, <2>1, <2>2, ExchangeType, RejectsInv DEF RefreshLost
  <1> QED
    BY <1>1, <1>2

LEMMA RefreshAcceptedInv ==
  ASSUME IInv, NEW r \in Requests, RefreshAccepted(r) PROVE IInv'
  <1>1. PICK role \in Roles \cup {None} :
           /\ Exchange(session[r].auth.token, role)
           /\ IF idp.idToken /\ idp.endSession
                THEN /\ session' = [session EXCEPT ![r].auth = Refreshed(@, role)]
                     /\ Respond(r, "200") /\ UNCHANGED dropped
                ELSE Rejects(r)
    BY DEF RefreshAccepted
  <1>2. /\ issued' \in Tokens /\ issued' \in 0..MaxTokens /\ issued' = issued + 1
        /\ issued <= issued' /\ session[r].auth.token \in 1..issued
        /\ claims' \in [Tokens -> Roles \cup {None}] /\ claims'[issued'] = role
        /\ \A k \in 1..issued : claims'[k] = claims[k]
        /\ live' \subseteq 1..issued' /\ presented' \subseteq 1..issued'
    BY <1>1, ExchangeType
  <1>3. /\ pc[r] = "refresh" /\ Local /\ UNCHANGED <<kind, loaded, logins, codes, code, faults>>
        /\ faults' \in 0..MaxFaults
    BY DEF RefreshAccepted, IInv, TypeOK
  <1>4. CASE ~(idp.idToken /\ idp.endSession)
    BY <1>1, <1>2, <1>3, <1>4, RejectsInv
  <1>5. CASE idp.idToken /\ idp.endSession
    <2> DEFINE a == Refreshed(session[r].auth, role)
               s == [session[r] EXCEPT !.auth = a]
    <2>1. session[r] \in Session /\ session[r].auth \in Auth /\ session[r].auth # None
      BY <1>3 DEF IInv, TypeOK, Copies, Session
    <2>2. idp.again \in BOOLEAN
      BY SessionsAssumption DEF IInv, TypeOK, IdP
    <2>3. a \in Auth
      BY <1>2, <2>1, <2>2 DEF Refreshed, Auth
    <2>4. a.token = issued' /\ a.roles = IF role = None THEN session[r].auth.roles ELSE role
      BY DEF Refreshed
    <2>5. Fits(session[r], issued, claims)
      BY RolesAreFits DEF IInv
    <2> HIDE DEF a
    <2>6. s \in Session /\ s.auth = a /\ s.codeVerifier = session[r].codeVerifier
      BY <2>1, <2>3 DEF Session
    <2>7. session' = [session EXCEPT ![r] = s]
      BY <1>1, <1>5 DEF a
    <2>8. Fits(s, issued', claims')
      <3>1. \A m \in 1..session[r].auth.token :
               m \in 1..issued /\ m \in 1..issued' /\ claims'[m] = claims[m]
        BY <1>2 DEF IInv, TypeOK
      <3>2. session[r].auth.roles \in {None} \cup {claims'[m] : m \in 1..issued'}
        BY <2>1, <2>5, <3>1 DEF Fits
      <3>3. a.token \in 1..issued' /\ (claims'[a.token] # None => a.roles = claims'[a.token])
        BY <1>2, <2>4 DEF Tokens
      <3>4. a.roles \in {None} \cup {claims'[m] : m \in 1..issued'}
        BY <1>2, <2>4, <3>2, <3>3
      <3> QED
        BY <1>2, <2>4, <2>6, <3>3, <3>4 DEF Fits
    <2> HIDE DEF s
    <2>9. TypeOK'
      <3>1. /\ session' \in [Requests -> Session]
            /\ pc' \in [Requests -> {"idle", "callback", "refresh", "save", "answered"}]
            /\ answer' \in [Requests -> {"none", "200", "302", "401", "500"}]
        BY <1>1, <1>5, <2>6, <2>7 DEF IInv, TypeOK, Respond
      <3>2. expired' \subseteq 1..issued'
        BY <1>2, <1>3 DEF IInv, TypeOK, Local
      <3> QED
        BY <1>2, <1>3, <3>1, <3>2 DEF IInv, TypeOK, Local
    <2>10. session'[r] = s /\ pc'[r] = "save" /\ Others(r)
      BY <1>1, <1>3, <1>5, <2>7 DEF IInv, TypeOK, Others, Respond
    <2>11. kind[r] = "other" /\ loaded[r].auth # None /\ Active(r)
      BY <1>3 DEF IInv, Copies, Active
    <2> QED
      BY <1>2, <1>3, <2>6, <2>8, <2>9, <2>10, <2>11, ContinuesInv
  <1> QED
    BY <1>4, <1>5

-----------------------------------------------------------------------------
(* The end of a request. *)

(* IInv' when request r is answered. *)
LEMMA SendInv ==
  ASSUME IInv, NEW r \in Requests, pc[r] = "save", NEW status, Send(r, status),
         stored' \in {stored, session[r]}, stale'[r] = FALSE,
         stale' \in [Requests -> BOOLEAN], overtaken' \in [Requests -> BOOLEAN],
         \A q \in Requests \ {r} :
             /\ pc[q] = "idle" => ~stale'[q]
             /\ Active(q) /\ ~stale'[q] => ~stale[q] /\ stored' = stored,
         faults' \in 0..MaxFaults
  PROVE  TypeOK' /\ RolesFollowToken' /\ Verifiers' /\ Copies'
  <1>1. /\ session' = [session EXCEPT ![r] = Empty] /\ loaded' = [loaded EXCEPT ![r] = Empty]
        /\ UNCHANGED <<idp, idpVars, expired, logins, codes>>
        /\ pc' = [pc EXCEPT ![r] = "answered"]
    BY DEF Send
  <1>2. code' \in [Requests -> 0..MaxLogins] /\ \A q \in Requests : code'[q] \in {code[q], 0}
    BY SessionsAssumption DEF IInv, TypeOK, Send
  <1>3. kind' \in [Requests -> Kinds] /\ \A q \in Requests \ {r} : kind'[q] = kind[q]
    BY DEF IInv, TypeOK, Send, Redirects, Kinds
  <1>4. TypeOK'
    <2>1. /\ pc' \in [Requests -> {"idle", "callback", "refresh", "save", "answered"}]
          /\ answer' \in [Requests -> {"none", "200", "302", "401", "500"}]
          /\ session' \in [Requests -> Session] /\ loaded' \in [Requests -> Session]
          /\ stored' \in Session
      BY <1>1, EmptyType DEF IInv, TypeOK, Send
    <2> QED
      BY <1>1, <1>2, <1>3, <2>1 DEF IInv, TypeOK, idpVars
  <1>5. RolesFollowToken'
    <2>1. \A s : s.auth = None => Fits(s, issued, claims)
      BY FitsNone
    <2>2. \A q \in Requests :
             session'[q] \in {session[q], Empty} /\ loaded'[q] \in {loaded[q], Empty}
      BY <1>1 DEF IInv, TypeOK
    <2>3. /\ Fits(stored', issued, claims)
          /\ \A q \in Requests :
                Fits(session'[q], issued, claims) /\ Fits(loaded'[q], issued, claims)
      BY <2>1, <2>2, EmptyType, RolesAreFits DEF IInv
    <2> QED
      BY <1>1, <2>3, RolesAreFits DEF idpVars
  <1>6. Verifiers'
    BY <1>1, <1>2, EmptyType DEF IInv, TypeOK, Verifiers
  <1>7. Copies'
    <2>1. \A q \in Requests \ {r} :
             /\ pc'[q] = pc[q] /\ kind'[q] = kind[q]
             /\ session'[q] = session[q] /\ loaded'[q] = loaded[q]
      BY <1>1, <1>3 DEF IInv, TypeOK
    <2>2. pc'[r] = "answered"
      BY <1>1 DEF IInv, TypeOK
    <2> QED
      BY <2>1, <2>2 DEF IInv, Copies, Active
  <1> QED
    BY <1>4, <1>5, <1>6, <1>7

(* A request saves its copy: a logout leaves no authentication, nor does   *)
(* any request after it that has not been overtaken.                       *)
LEMMA SaveLoggedOut ==
  ASSUME IInv, NEW r \in Requests, Save(r) PROVE LoggedOut'
  <1>1. /\ pc[r] = "save" /\ Active(r) /\ pc'[r] = "answered"
        /\ \A q \in Requests \ {r} : loaded'[q] = loaded[q] /\ (Active(q)' <=> Active(q))
    BY DEF Save, Send, Active, IInv, TypeOK
  <1>2. ~Active(r)'
    BY <1>1 DEF Active
  <1>3. stored' = IF Changed(r) THEN session[r] ELSE stored
    BY DEF Save
  <1>4. CASE kind[r] = "logout"
    <2>1. stored'.auth = None
      BY <1>1, <1>3, <1>4 DEF IInv, Copies, Changed
    <2>2. \A q \in Requests \ {r} : Active(q) => overtaken'[q]
      BY <1>4 DEF Save, RecordOut, UnderWay, Active
    <2> QED
      BY <1>1, <1>2, <2>1, <2>2 DEF LoggedOut
  <1>5. CASE kind[r] # "logout"
    <2> SUFFICES ASSUME out', ~revived'
                 PROVE  /\ stored'.auth = None
                        /\ \A q \in Requests :
                              Active(q)' /\ ~overtaken'[q] => loaded'[q].auth = None
      BY DEF LoggedOut
    <2>1. /\ out' = (out /\ ~(kind[r] = "auth" /\ Changed(r) /\ ~overtaken[r]))
          /\ revived' = (revived \/ Revives(r))
          /\ overtaken' = [overtaken EXCEPT ![r] = FALSE]
      BY <1>5 DEF Save, RecordOut
    <2>2. /\ out /\ ~(kind[r] = "auth" /\ Changed(r) /\ ~overtaken[r])
          /\ ~revived /\ ~Revives(r)
      BY <2>1
    <2>3. /\ stored.auth = None
          /\ \A q \in Requests : Active(q) /\ ~overtaken[q] => loaded[q].auth = None
      BY <2>2 DEF IInv, LoggedOut
    <2>4. \A q \in Requests \ {r} : overtaken'[q] = overtaken[q]
      BY <2>1 DEF IInv, TypeOK
    <2>5. ASSUME Changed(r) PROVE session[r].auth = None
      <3>1. kind[r] \in {"login", "auth", "other"}
        BY <1>5 DEF IInv, TypeOK, Kinds
      <3>2. CASE ~overtaken[r]
        <4>1. loaded[r].auth = None /\ kind[r] \in {"login", "other"}
          BY <1>1, <2>2, <2>3, <2>5, <3>1, <3>2
        <4> QED
          BY <1>1, <4>1 DEF IInv, Copies
      <3>3. CASE overtaken[r] /\ session[r].auth # None
        <4>1. kind[r] \in {"auth", "other"} /\ session[r].auth = loaded[r].auth
          BY <2>2, <3>1, <3>3 DEF Revives
        <4>2. session[r].codeVerifier = loaded[r].codeVerifier
          BY <1>1, <4>1 DEF IInv, Copies
        <4>3. session[r] \in Session /\ loaded[r] \in Session
          BY DEF IInv, TypeOK
        <4>4. session[r] = loaded[r]
          BY <4>1, <4>2, <4>3 DEF Session
        <4> QED
          BY <2>5, <4>4 DEF Changed
      <3> QED
        BY <3>2, <3>3
    <2> QED
      BY <1>1, <1>2, <1>3, <2>3, <2>4, <2>5
  <1> QED
    BY <1>4, <1>5

LEMMA SaveInv == ASSUME IInv, NEW r \in Requests, Save(r) PROVE IInv'
  <1>1. pc[r] = "save" /\ Active(r) /\ Send(r, answer[r]) /\ UNCHANGED faults
    BY DEF Save, Active
  <1>2. overtaken' \in [Requests -> BOOLEAN]
    BY DEF Save, RecordOut, IInv, TypeOK
  <1>3. CASE ~Changed(r)
    <2>1. stored' = stored /\ stale' = [stale EXCEPT ![r] = FALSE]
      BY <1>3 DEF Save
    <2>2. stale' \in [Requests -> BOOLEAN] /\ stale'[r] = FALSE
          /\ \A q \in Requests \ {r} : stale'[q] = stale[q]
      BY <2>1 DEF IInv, TypeOK
    <2>3. TypeOK' /\ RolesFollowToken' /\ Verifiers' /\ Copies'
      BY <1>1, <1>2, <2>1, <2>2, SendInv DEF IInv, TypeOK, Copies
    <2> QED
      BY <2>3, SaveLoggedOut DEF IInv
  <1>4. CASE Changed(r)
    <2>1. /\ stored' = session[r]
          /\ stale' = [q \in Requests |-> q # r /\ (stale[q] \/ q \in UnderWay)]
      BY <1>4 DEF Save
    <2>2. stale' \in [Requests -> BOOLEAN]
      BY <2>1
    <2>3. stale'[r] = FALSE
      BY <2>1
    <2>4. \A q \in Requests \ {r} : stale'[q] <=> stale[q] \/ Active(q)
      BY <2>1 DEF Active, UnderWay
    <2>5. \A q \in Requests \ {r} :
             /\ pc[q] = "idle" => ~stale'[q]
             /\ Active(q) /\ ~stale'[q] => ~stale[q] /\ stored' = stored
      BY <2>4 DEF IInv, Copies, Active
    <2>6. stored' \in {stored, session[r]} /\ faults' \in 0..MaxFaults
      BY <1>1, <2>1 DEF IInv, TypeOK
    <2>7. TypeOK' /\ RolesFollowToken' /\ Verifiers' /\ Copies'
      BY <1>1, <1>2, <2>2, <2>3, <2>5, <2>6, SendInv
    <2> QED
      BY <2>7, SaveLoggedOut DEF IInv
  <1> QED
    BY <1>3, <1>4

LEMMA SaveFailsInv == ASSUME IInv, NEW r \in Requests, SaveFails(r) PROVE IInv'
  <1>1. /\ stale' = [stale EXCEPT ![r] = FALSE] /\ overtaken' = [overtaken EXCEPT ![r] = FALSE]
        /\ UNCHANGED <<stored, out, revived>>
        /\ pc[r] = "save" /\ Send(r, "500")
    BY DEF SaveFails
  <1>2. /\ stale' \in [Requests -> BOOLEAN] /\ overtaken' \in [Requests -> BOOLEAN]
        /\ stale'[r] = FALSE
        /\ \A q \in Requests \ {r} : stale'[q] = stale[q] /\ overtaken'[q] = overtaken[q]
    BY <1>1 DEF IInv, TypeOK
  <1>3. faults' \in 0..MaxFaults
    BY FaultType DEF SaveFails
  <1>4. TypeOK' /\ RolesFollowToken' /\ Verifiers' /\ Copies'
    BY <1>1, <1>2, <1>3, SendInv DEF IInv, TypeOK, Copies
  <1>5. \A q \in Requests : Active(q)' => q # r /\ Active(q) /\ loaded'[q] = loaded[q]
    BY <1>1 DEF Send, Active, IInv, TypeOK
  <1>6. LoggedOut'
    BY <1>1, <1>2, <1>5 DEF IInv, LoggedOut
  <1> QED
    BY <1>4, <1>6 DEF IInv

LEMMA FollowsInv == ASSUME IInv, NEW r \in Requests, BrowserFollows(r) PROVE IInv'
  <1>1. code[r] \in 1..logins /\ logins \in 0..MaxLogins
    BY SessionsAssumption DEF IInv, TypeOK, Verifiers, BrowserFollows
  <1>2. /\ code' \in [Requests -> 0..MaxLogins] /\ \A q \in Requests : code'[q] \in {code[q], 0}
        /\ kind' \in [Requests -> Kinds] /\ \A q \in Requests \ {r} : kind'[q] = kind[q]
        /\ pc[r] = "answered"
    BY SessionsAssumption DEF IInv, TypeOK, BrowserFollows, Kinds
  <1>3. TypeOK'
    <2>1. live' \subseteq 1..issued /\ codes' \subseteq 1..logins
      BY <1>1 DEF IInv, TypeOK, BrowserFollows
    <2> QED
      BY <1>2, <2>1 DEF IInv, TypeOK, BrowserFollows
  <1>4. RolesFollowToken' /\ LoggedOut'
    BY DEF IInv, RolesFollowToken, Rightful, LoggedOut, Active, BrowserFollows
  <1>5. Verifiers'
    BY <1>1, <1>2 DEF IInv, Verifiers, TypeOK, BrowserFollows
  <1>6. Copies'
    BY <1>2 DEF IInv, Copies, Active, BrowserFollows
  <1> QED
    BY <1>3, <1>4, <1>5, <1>6 DEF IInv

-----------------------------------------------------------------------------

LEMMA StepInv == IInv /\ [Next]_vars => IInv'
  <1> SUFFICES ASSUME IInv, [Next]_vars PROVE IInv'
    OBVIOUS
  <1>1. CASE Expire
    BY <1>1, ExpireInv
  <1>2. ASSUME NEW r \in Requests, Begin(r) PROVE IInv'
    BY <1>2, LoginInv, LogoutInv, SendCodeInv, LoadFailsInv, CheckInv DEF Begin
  <1>3. ASSUME NEW r \in Requests, ProviderAnswers(r) PROVE IInv'
    BY <1>3, CallbackAcceptedInv, CallbackRefusedInv, RefreshAcceptedInv, RefusedInv
       DEF ProviderAnswers
  <1>4. ASSUME NEW r \in Requests, Save(r) \/ SaveFails(r) \/ BrowserFollows(r) PROVE IInv'
    BY <1>4, SaveInv, SaveFailsInv, FollowsInv
  <1>5. CASE UNCHANGED vars
    <2>1. TypeOK'
      BY <1>5 DEF IInv, TypeOK, vars, idpVars, requestVars, ghosts
    <2> QED
      BY <1>5, <2>1, Keeps DEF vars, idpVars, requestVars, ghosts
  <1> QED
    BY <1>1, <1>2, <1>3, <1>4, <1>5 DEF Next

(* The invariant the theorems below rest on: the authentication of every   *)
(* copy is one the provider gave, and what a request has made of the copy  *)
(* it loaded depends on its route alone.                                   *)
THEOREM SessionInvariant == Spec => []IInv
  BY InitInv, StepInv, PTL DEF Spec

(* Type correctness of Sessions.                                           *)
THEOREM TypeCorrect == Spec => []TypeOK
  <1>1. IInv => TypeOK
    BY DEF IInv
  <1> QED
    BY <1>1, SessionInvariant, PTL

(* checkAndRefreshAuthentication and authRouteHandler (index.js:149-312):  *)
(* however requests interleave, no session gets roles its token sets did   *)
(* not grant.                                                              *)
THEOREM RolesAreGranted == Spec => []RolesFollowToken
  <1>1. IInv => RolesFollowToken
    BY DEF IInv
  <1> QED
    BY <1>1, SessionInvariant, PTL

(* logoutRouteHandler (index.js:111-139): a logout holds against every     *)
(* request that arrives after it, and against those it overtook, except    *)
(* one that writes: a /login, a callback, or one that has refreshed.       *)
THEOREM LogoutIsKept == Spec => []LogoutHolds
  <1>1. IInv => LogoutHolds
    BY DEF IInv, LoggedOut, LogoutHolds
  <1> QED
    BY <1>1, SessionInvariant, PTL

-----------------------------------------------------------------------------
(* Refresh tokens.                                                         *)

(* What excuses a 401 for want of a refresh. *)
Excused ==
    \/ faults > 0 \/ ended \/ ~idp.again \/ ~idp.idToken \/ ~idp.endSession
    \/ idp.rotates /\ raced

(* Without an excuse every copy holds a refresh token, and the provider    *)
(* takes each one until it has been presented to a provider that rotates.  *)
RefreshInv ==
    ~Excused =>
        /\ ~dropped
        /\ stored.auth # None => stored.auth.refresh
        /\ \A r \in Requests : session[r].auth # None => session[r].auth.refresh
        /\ \A n \in (1..issued) \ live : idp.rotates /\ n \in presented

(* An excuse remains one. *)
Persists ==
    /\ idp' = idp /\ faults <= faults' /\ faults' \in Nat
    /\ ended => ended'
    /\ raced => raced'

LEMMA ExcusePersists == ASSUME IInv, Persists, Excused PROVE Excused'
  BY SessionsAssumption DEF Persists, Excused, IInv, TypeOK

LEMMA FaultIsExcuse == ASSUME IInv, Fault PROVE Excused' /\ faults <= faults' /\ faults' \in Nat
  BY SessionsAssumption DEF Fault, Excused, IInv, TypeOK

LEMMA FaultsStay == ASSUME IInv, UNCHANGED faults PROVE faults <= faults' /\ faults' \in Nat
  BY SessionsAssumption DEF IInv, TypeOK

LEMMA InitRefresh == Init => RefreshInv
  BY EmptyType, SessionsAssumption DEF Init, RefreshInv, SignedIn

(* Nothing is issued or presented, and no copy gains an authentication. *)
LEMMA RefreshKeeps ==
  ASSUME IInv, RefreshInv, Persists, UNCHANGED <<issued, live, presented, dropped>>,
         \A s \in {stored'} \cup {session'[q] : q \in Requests} :
            s.auth # None =>
                \E t \in {stored} \cup {session[q] : q \in Requests} : s.auth = t.auth
  PROVE  RefreshInv'
  <1>1. CASE Excused'
    BY <1>1 DEF RefreshInv
  <1>2. CASE ~Excused'
    <2>1. ~Excused
      BY <1>2, ExcusePersists
    <2>2. \A t \in {stored} \cup {session[q] : q \in Requests} : t.auth # None => t.auth.refresh
      BY <2>1 DEF RefreshInv
    <2>3. \A s \in {stored'} \cup {session'[q] : q \in Requests} :
             s.auth # None => s.auth.refresh
      BY <2>2
    <2> QED
      BY <2>1, <2>3 DEF RefreshInv, Persists
  <1> QED
    BY <1>1, <1>2

(* A request arrives, and leaves the authentication it finds alone. *)
LEMMA RefreshArrives ==
  ASSUME IInv, RefreshInv, NEW r \in Requests, Local, UNCHANGED <<idpVars, dropped, faults>>,
         NEW s, session' = [session EXCEPT ![r] = s], s.auth \in {stored.auth, None}
  PROVE  RefreshInv'
  <1>1. Persists
    BY FaultsStay DEF Persists, Local, idpVars
  <1>2. stored' = stored /\ \A q \in Requests : session'[q] = IF q = r THEN s ELSE session[q]
    BY DEF Local, IInv, TypeOK
  <1>3. \A t \in {stored'} \cup {session'[q] : q \in Requests} :
            t.auth # None =>
                \E u \in {stored} \cup {session[q] : q \in Requests} : t.auth = u.auth
    BY <1>2
  <1> QED
    BY <1>1, <1>3, RefreshKeeps DEF idpVars

LEMMA BeginRefresh == ASSUME IInv, RefreshInv, NEW r \in Requests, Begin(r) PROVE RefreshInv'
  <1>1. CASE loginRouteHandler(r)
    <2> DEFINE s == [auth |-> stored.auth, codeVerifier |-> logins']
    <2>1. session' = [session EXCEPT ![r] = s] /\ s.auth = stored.auth
      BY <1>1 DEF loginRouteHandler, StartsLogin
    <2> HIDE DEF s
    <2> QED
      BY <1>1, <2>1, RefreshArrives DEF loginRouteHandler, Arrives
  <1>2. CASE logoutRouteHandler(r)
    <2> DEFINE s == [auth |-> None, codeVerifier |-> logins']
    <2>1. session' = [session EXCEPT ![r] = s] /\ s.auth = None
      BY <1>2 DEF logoutRouteHandler, StartsLogin
    <2> HIDE DEF s
    <2> QED
      BY <1>2, <2>1, RefreshArrives DEF logoutRouteHandler, Arrives
  <1>3. CASE LoadFails(r)
    BY <1>3, FaultIsExcuse DEF LoadFails, RefreshInv
  <1>4. CASE SendCode(r)
    BY <1>4, RefreshArrives DEF SendCode, Arrives
  <1>5. CASE Unauthenticated(r)
    BY <1>5, RefreshArrives DEF Unauthenticated, Arrives
  <1>6. CASE StillValid(r)
    BY <1>6, RefreshArrives DEF StillValid, Arrives
  <1>7. CASE SendRefresh(r)
    BY <1>7, RefreshArrives DEF SendRefresh, HasExpired, Arrives
  <1>8. CASE NoRefreshToken(r)
    <2>1. Persists
      BY <1>8, FaultsStay DEF NoRefreshToken, HasExpired, Arrives, Local, Persists, idpVars
    <2>2. Excused
      BY <1>8 DEF NoRefreshToken, HasExpired, RefreshInv
    <2> QED
      BY <2>1, <2>2, ExcusePersists DEF RefreshInv
  <1> QED
    BY <1>1, <1>2, <1>3, <1>4, <1>5, <1>6, <1>7, <1>8 DEF Begin

LEMMA CallbackRefresh ==
  ASSUME IInv, RefreshInv, NEW r \in Requests, CallbackAccepted(r) \/ CallbackRefused(r)
  PROVE  RefreshInv'
  <1>1. CASE CallbackRefused(r)
    <2>1. CASE Fault
      BY <2>1, FaultIsExcuse DEF RefreshInv
    <2>2. CASE UNCHANGED faults
      <3>1. Persists /\ UNCHANGED <<issued, live, presented, dropped, stored, session>>
        BY <1>1, <2>2, FaultsStay DEF CallbackRefused, Local, Persists, idpVars
      <3> QED
        BY <3>1, RefreshKeeps
    <2> QED
      BY <1>1, <2>1, <2>2 DEF CallbackRefused
  <1>2. CASE CallbackAccepted(r)
    <2>1. Persists /\ UNCHANGED <<stored, presented, dropped, idp>>
      BY <1>2, FaultsStay DEF CallbackAccepted, Local, Persists
    <2>2. issued' = issued + 1 /\ live' = live \cup {issued'}
      BY <1>2 DEF CallbackAccepted, Issue
    <2>3. \A q \in Requests : session'[q].auth = session[q].auth \/ session'[q].auth.refresh
      BY <1>2 DEF CallbackAccepted, IInv, TypeOK, Session
    <2>4. (1..issued') \ live' = (1..issued) \ live
      BY <2>2 DEF IInv, TypeOK
    <2> QED
      BY <2>1, <2>3, <2>4, ExcusePersists DEF RefreshInv
  <1> QED
    BY <1>1, <1>2

(* The provider refuses a token only if it was presented before. *)
LEMMA RefusedRefresh ==
  ASSUME IInv, RefreshInv, NEW r \in Requests, RefreshRefused(r) \/ RefreshLost(r)
  PROVE  RefreshInv'
  <1>1. CASE Fault
    BY <1>1, FaultIsExcuse DEF RefreshInv
  <1>2. CASE session[r].auth.token \notin live /\ UNCHANGED faults /\ RefreshRefused(r)
    <2> DEFINE n == session[r].auth.token
    <2>1. n \in 1..issued
      BY <1>2, SessionsAssumption
         DEF RefreshRefused, IInv, Copies, RolesFollowToken, Rightful, TypeOK, Session, Auth, Tokens
    <2>2. raced' = (raced \/ n \in presented) /\ idp' = idp /\ ended' = ended
      BY <1>2 DEF RefreshRefused, Present, Local
    <2>3. Persists
      BY <2>2, <1>2, FaultsStay DEF Persists
    <2>4. ~Excused => idp.rotates /\ n \in presented
      BY <1>2, <2>1 DEF RefreshInv
    <2>5. Excused'
      BY <2>2, <2>3, <2>4, ExcusePersists DEF Excused
    <2> QED
      BY <2>5 DEF RefreshInv
  <1> QED
    BY <1>1, <1>2 DEF RefreshRefused, RefreshLost

LEMMA AcceptedRefresh ==
  ASSUME IInv, RefreshInv, NEW r \in Requests, RefreshAccepted(r)
  PROVE  RefreshInv'
  <1> DEFINE n == session[r].auth.token
  <1>1. Persists /\ UNCHANGED <<stored, idp, faults, ended>>
    BY FaultsStay DEF RefreshAccepted, Exchange, Present, Local, Persists
  <1>2. PICK role \in Roles \cup {None} :
          /\ Exchange(n, role)
          /\ IF idp.idToken /\ idp.endSession
               THEN /\ session' = [session EXCEPT ![r].auth = Refreshed(@, role)]
                    /\ Respond(r, "200") /\ UNCHANGED dropped
               ELSE Rejects(r)
    BY DEF RefreshAccepted
  <1>3. CASE Excused'
    BY <1>3 DEF RefreshInv
  <1>4. CASE ~Excused'
    <2>1. ~Excused
      BY <1>1, <1>4, ExcusePersists
    <2>2. idp.idToken /\ idp.endSession /\ idp.again
      BY <2>1 DEF Excused
    <2>3. session' = [session EXCEPT ![r].auth = Refreshed(@, role)] /\ dropped' = dropped
      BY <1>2, <2>2
    <2>4. \A q \in Requests : session'[q].auth = session[q].auth \/ session'[q].auth.refresh
      BY <2>2, <2>3 DEF Refreshed, IInv, TypeOK, Session
    <2>5. /\ issued' = issued + 1 /\ presented' = presented \cup {n}
          /\ live' = (IF idp.rotates THEN live \ {n} ELSE live) \cup {issued'}
      BY <1>2, <2>2 DEF Exchange, Issue, Present
    <2>6. \A m \in (1..issued') \ live' : idp.rotates /\ m \in presented'
      BY <2>1, <2>5 DEF RefreshInv, IInv, TypeOK
    <2> QED
      BY <1>1, <2>1, <2>3, <2>4, <2>6 DEF RefreshInv
  <1> QED
    BY <1>3, <1>4

LEMMA SentRefresh ==
  ASSUME IInv, RefreshInv, NEW r \in Requests, Save(r) \/ SaveFails(r) \/ BrowserFollows(r)
  PROVE  RefreshInv'
  <1>1. CASE Save(r)
    <2>1. Persists /\ UNCHANGED <<issued, live, presented, dropped>>
      BY <1>1, FaultsStay DEF Save, Send, Persists, idpVars
    <2>2. stored' \in {stored, session[r]} /\ session' = [session EXCEPT ![r] = Empty]
      BY <1>1 DEF Save, Send
    <2>3. \A q \in Requests : session'[q] = IF q = r THEN Empty ELSE session[q]
      BY <2>2 DEF IInv, TypeOK
    <2>4. \A t \in {stored'} \cup {session'[q] : q \in Requests} :
            t.auth # None =>
                \E u \in {stored} \cup {session[q] : q \in Requests} : t.auth = u.auth
      BY <2>2, <2>3, EmptyType
    <2> QED
      BY <2>1, <2>4, RefreshKeeps
  <1>2. CASE SaveFails(r)
    BY <1>2, FaultIsExcuse DEF SaveFails, RefreshInv
  <1>3. CASE BrowserFollows(r)
    <2>1. Persists /\ UNCHANGED <<issued, presented, dropped, stored, session>>
      BY <1>3, FaultsStay DEF BrowserFollows, Persists
    <2>2. ended' \/ live' = live
      BY <1>3 DEF BrowserFollows
    <2>3. CASE ended'
      BY <2>3 DEF RefreshInv, Excused
    <2> QED
      BY <2>1, <2>2, <2>3, RefreshKeeps
  <1> QED
    BY <1>1, <1>2, <1>3

LEMMA StepRefresh == IInv /\ RefreshInv /\ [Next]_vars => RefreshInv'
  <1> SUFFICES ASSUME IInv, RefreshInv, [Next]_vars PROVE RefreshInv'
    OBVIOUS
  <1>1. CASE Expire \/ UNCHANGED vars
    <2>1. /\ UNCHANGED <<idp, faults, ended, raced, issued, live, presented, dropped>>
          /\ UNCHANGED <<stored, session>>
      BY <1>1 DEF Expire, vars, idpVars, requestVars, ghosts
    <2>2. Persists
      BY <2>1, FaultsStay DEF Persists
    <2> QED
      BY <2>1, <2>2, RefreshKeeps
  <1>2. ASSUME NEW r \in Requests, ProviderAnswers(r) PROVE RefreshInv'
    BY <1>2, CallbackRefresh, AcceptedRefresh, RefusedRefresh DEF ProviderAnswers
  <1> QED
    BY <1>1, <1>2, BeginRefresh, SentRefresh DEF Next

(* Nobody who is signed in is refused for want of a refresh, for any       *)
(* number of concurrent requests, unless a call failed, the user logged    *)
(* out, the provider lacks what the code needs, or its refresh tokens work *)
(* once and two requests presented the same (index.js:176-214).            *)
THEOREM RefreshKeepsUsersIn == Spec => []NoSpuriousLogout
  <1>1. RefreshInv => NoSpuriousLogout
    BY DEF RefreshInv, NoSpuriousLogout, Excused
  <1> QED
    BY <1>1, InitRefresh, StepRefresh, SessionInvariant, PTL DEF Spec

-----------------------------------------------------------------------------
(* Code verifiers.                                                         *)

StartLogin == {"login", "logout"}

(* The code of the latest login has been sent to the browser. *)
Released ==
    \/ logins \in codes
    \/ \E r \in Requests : pc[r] = "answered" /\ code[r] = logins /\ logins # 0

(* What each request has made of the verifier it loaded. *)
VerifierCopies ==
    \A r \in Requests :
        /\ pc[r] = "idle" => code[r] = 0
        /\ Active(r) /\ kind[r] \in StartLogin =>
              session[r].codeVerifier = code[r] /\ session[r].codeVerifier # loaded[r].codeVerifier
        /\ Active(r) /\ kind[r] \notin StartLogin =>
              session[r].codeVerifier = loaded[r].codeVerifier

(* Once the latest login has been answered its verifier is in the session, *)
(* and an older login still under way has not seen that save.              *)
LatestKept ==
    ~clobbered /\ Released =>
        /\ stored.codeVerifier = logins
        /\ \A r \in Requests : Active(r) /\ kind[r] \in StartLogin => stale[r]

VerifierInv == VerifierCopies /\ LatestKept /\ LatestLoginWorks

LEMMA InitVerifier == Init => VerifierInv
  BY SessionsAssumption
     DEF Init, VerifierInv, VerifierCopies, LatestKept, LatestLoginWorks, Released, Active

(* Only the session copy of a request under way changes, not its verifier. *)
LEMMA VerifierKeeps ==
  ASSUME IInv, VerifierInv, NEW r \in Requests,
         UNCHANGED <<stored, logins, codes, kind, loaded, code, stale, clobbered>>,
         Active(r), pc'[r] = "save", \A q \in Requests \ {r} : pc'[q] = pc[q],
         \A q \in Requests : session'[q].codeVerifier = session[q].codeVerifier
  PROVE  VerifierInv'
  <1>1. \A q \in Requests : Active(q)' <=> Active(q)
    BY DEF Active
  <1>2. \A q \in Requests : pc'[q] \in {"idle", "answered", "callback"} => pc'[q] = pc[q]
    BY DEF Active
  <1>3. VerifierCopies'
    BY <1>1, <1>2 DEF VerifierInv, VerifierCopies
  <1>4. LatestKept'
    BY <1>1, <1>2 DEF VerifierInv, LatestKept, Released
  <1>5. LatestLoginWorks'
    BY <1>2 DEF VerifierInv, LatestLoginWorks
  <1> QED
    BY <1>3, <1>4, <1>5 DEF VerifierInv

(* A request of another route arrives and sends nothing, or a code. *)
LEMMA VerifierArrives ==
  ASSUME IInv, VerifierInv, NEW r \in Requests, NEW k \in {"auth", "other"}, Arrives(r, k),
         logins' = logins, codes' \subseteq codes,
         pc'[r] \in {"callback", "refresh", "save"}, Others(r),
         session'[r].codeVerifier = stored.codeVerifier,
         code'[r] = code[r] \/ (code'[r] \in codes /\ pc'[r] = "callback"),
         pc'[r] = "callback" => code'[r] \in codes
  PROVE  VerifierInv'
  <1>1. /\ pc[r] = "idle" /\ ~Active(r) /\ Active(r)' /\ kind'[r] = k /\ loaded'[r] = stored
        /\ UNCHANGED <<stored, stale, clobbered>>
        /\ \A q \in Requests \ {r} : kind'[q] = kind[q] /\ loaded'[q] = loaded[q]
      BY DEF Arrives, Local, Active, IInv, TypeOK
  <1>2. \A q \in Requests \ {r} :
           /\ Active(q)' <=> Active(q)
           /\ pc'[q] = pc[q] /\ session'[q] = session[q] /\ code'[q] = code[q]
    BY DEF Active, Others
  <1>3. k \notin StartLogin
    BY DEF StartLogin
  <1>4. VerifierCopies'
    BY <1>1, <1>2, <1>3 DEF VerifierInv, VerifierCopies
  <1>5. Released' => Released
    BY <1>1, <1>2 DEF Released, Active
  <1>6. LatestKept'
    BY <1>1, <1>2, <1>3, <1>5 DEF VerifierInv, LatestKept
  <1>7. LatestLoginWorks'
    <2> SUFFICES ASSUME NEW q \in Requests, pc'[q] = "callback", code'[q] = logins', ~clobbered'
                 PROVE  session'[q].codeVerifier = code'[q]
      BY DEF LatestLoginWorks
    <2>1. CASE q # r
      BY <1>1, <1>2, <2>1 DEF VerifierInv, LatestLoginWorks
    <2>2. CASE q = r
      BY <1>1, <2>2 DEF VerifierInv, LatestKept, Released
    <2> QED
      BY <2>1, <2>2
  <1> QED
    BY <1>4, <1>6, <1>7 DEF VerifierInv

(* A new verifier: no code of it has been released yet. *)
LEMMA VerifierStarts ==
  ASSUME IInv, VerifierInv, NEW r \in Requests, NEW k \in StartLogin, Arrives(r, k),
         NEW auth, StartsLogin(r, auth), UNCHANGED codes, NEW status, Respond(r, status)
  PROVE  VerifierInv'
  <1>1. logins \in Nat /\ logins' = logins + 1 /\ codes \subseteq 1..logins
    BY SessionsAssumption DEF StartsLogin, IInv, TypeOK
  <1>2. /\ pc'[r] = "save" /\ Active(r)' /\ kind'[r] = k /\ loaded'[r] = stored
        /\ code'[r] = logins' /\ session'[r].codeVerifier = logins'
    BY DEF StartsLogin, Respond, Arrives, Local, Active, IInv, TypeOK
  <1>3. \A q \in Requests \ {r} :
           /\ pc'[q] = pc[q] /\ kind'[q] = kind[q] /\ (Active(q)' <=> Active(q))
           /\ loaded'[q] = loaded[q] /\ code'[q] = code[q] /\ session'[q] = session[q]
    BY DEF StartsLogin, Respond, Arrives, Local, Active, IInv, TypeOK
  <1>4. stored.codeVerifier # logins' /\ \A q \in Requests \ {r} : code'[q] # logins'
    BY <1>1, <1>3, SessionsAssumption DEF IInv, Verifiers, TypeOK, Session
  <1>5. VerifierCopies'
    BY <1>2, <1>3, <1>4 DEF VerifierInv, VerifierCopies
  <1>6. ~Released'
    BY <1>1, <1>2, <1>4 DEF Released
  <1>7. LatestLoginWorks'
    BY <1>2, <1>4 DEF LatestLoginWorks
  <1> QED
    BY <1>5, <1>6, <1>7 DEF VerifierInv, LatestKept

LEMMA BeginVerifier == ASSUME IInv, VerifierInv, NEW r \in Requests, Begin(r) PROVE VerifierInv'
  <1>1. CASE loginRouteHandler(r)
    BY <1>1, VerifierStarts DEF loginRouteHandler, StartLogin
  <1>2. CASE logoutRouteHandler(r)
    BY <1>2, VerifierStarts DEF logoutRouteHandler, StartLogin
  <1>3. CASE LoadFails(r)
    <2>1. /\ pc[r] = "idle" /\ code[r] = 0 /\ ~Active(r) /\ pc'[r] = "answered"
          /\ \A q \in Requests \ {r} : pc'[q] = pc[q]
          /\ UNCHANGED <<stored, logins, codes, kind, session, loaded, code, stale, clobbered>>
      BY <1>3 DEF LoadFails, Local, Active, IInv, TypeOK, VerifierInv, VerifierCopies
    <2>2. \A q \in Requests :
             (Active(q)' <=> Active(q)) /\ (pc'[q] \in {"idle", "callback"} => pc'[q] = pc[q])
      BY <2>1 DEF Active
    <2>3. Released' => Released
      BY <2>1 DEF Released
    <2> QED
      BY <2>1, <2>2, <2>3 DEF VerifierInv, VerifierCopies, LatestKept, LatestLoginWorks
  <1>4. CASE SendCode(r)
    <2>1. PICK c \in codes : code' = [code EXCEPT ![r] = c] /\ codes' = codes \ {c}
      BY <1>4 DEF SendCode
    <2>2. /\ code'[r] = c /\ session'[r] = stored /\ pc'[r] = "callback"
          /\ Others(r) /\ Arrives(r, "auth") /\ logins' = logins
      BY <1>4, <2>1 DEF SendCode, Others, IInv, TypeOK
    <2> QED
      BY <2>1, <2>2, VerifierArrives
  <1>5. CASE Unauthenticated(r) \/ StillValid(r) \/ NoRefreshToken(r) \/ SendRefresh(r)
    <2>1. /\ Arrives(r, "other") /\ UNCHANGED <<logins, codes, code>>
          /\ pc'[r] \in {"save", "refresh"} /\ Others(r)
      BY <1>5 DEF Unauthenticated, StillValid, NoRefreshToken, SendRefresh, HasExpired, Respond,
                  Others, IInv, TypeOK
    <2>2. session'[r].codeVerifier = stored.codeVerifier
      BY <1>5 DEF Unauthenticated, StillValid, NoRefreshToken, SendRefresh, IInv, TypeOK, Session
    <2> QED
      BY <2>1, <2>2, VerifierArrives
  <1> QED
    BY <1>1, <1>2, <1>3, <1>4, <1>5 DEF Begin

LEMMA AnswersVerifier ==
  ASSUME IInv, VerifierInv, NEW r \in Requests, ProviderAnswers(r) PROVE VerifierInv'
  <1>1. /\ UNCHANGED <<stored, logins, codes, kind, loaded, code, stale, clobbered>>
        /\ pc[r] \in {"callback", "refresh"} /\ \E status : Respond(r, status)
    BY DEF ProviderAnswers, CallbackAccepted, CallbackRefused, RefreshAccepted, RefreshRefused,
           RefreshLost, Rejects, Local
  <1>2. \E auth : session' = [session EXCEPT ![r].auth = auth] \/ session' = session
    BY DEF ProviderAnswers, CallbackAccepted, CallbackRefused, RefreshAccepted, RefreshRefused,
           RefreshLost, Rejects
  <1>3. \A q \in Requests : session'[q].codeVerifier = session[q].codeVerifier
    BY <1>2 DEF IInv, TypeOK, Session
  <1>4. Active(r) /\ pc'[r] = "save" /\ \A q \in Requests \ {r} : pc'[q] = pc[q]
    BY <1>1 DEF Active, Respond, IInv, TypeOK
  <1> QED
    BY <1>1, <1>3, <1>4, VerifierKeeps

(* What Send does to the request and leaves of the others. *)
LEMMA SendVerifier ==
  ASSUME IInv, VerifierInv, NEW r \in Requests, pc[r] = "save", NEW status, Send(r, status)
  PROVE  /\ pc'[r] = "answered" /\ ~Active(r)' /\ Active(r)
         /\ code'[r] # 0 => kind[r] \in StartLogin /\ code'[r] = code[r]
         /\ \A q \in Requests \ {r} :
               /\ pc'[q] = pc[q] /\ kind'[q] = kind[q] /\ (Active(q)' <=> Active(q))
               /\ loaded'[q] = loaded[q] /\ code'[q] = code[q] /\ session'[q] = session[q]
         /\ UNCHANGED <<logins, codes>>
         /\ VerifierCopies'
  <1>1. /\ pc'[r] = "answered" /\ ~Active(r)' /\ Active(r)
        /\ code'[r] # 0 => kind[r] \in StartLogin /\ code'[r] = code[r]
        /\ \A q \in Requests \ {r} :
               /\ pc'[q] = pc[q] /\ kind'[q] = kind[q] /\ (Active(q)' <=> Active(q))
               /\ loaded'[q] = loaded[q] /\ code'[q] = code[q] /\ session'[q] = session[q]
        /\ UNCHANGED <<logins, codes>>
    BY DEF Send, Active, StartLogin, IInv, TypeOK
  <1>2. VerifierCopies'
    BY <1>1 DEF VerifierInv, VerifierCopies
  <1> QED
    BY <1>1, <1>2

LEMMA SaveVerifier == ASSUME IInv, VerifierInv, NEW r \in Requests, Save(r) PROVE VerifierInv'
  <1>1. pc[r] = "save" /\ Send(r, answer[r])
    BY DEF Save
  <1> USE SendVerifier
  <1>2. LatestLoginWorks'
    <2>1. ~clobbered' => ~clobbered
      BY DEF Save
    <2> QED
      BY <1>1, <2>1 DEF VerifierInv, LatestLoginWorks
  <1>3. CASE ~Changed(r)
    <2>1. stored' = stored /\ stale' = [stale EXCEPT ![r] = FALSE] /\ clobbered' = clobbered
      BY <1>3 DEF Save
    <2>2. kind[r] \notin StartLogin
      BY <1>1, <1>3 DEF Changed, VerifierInv, VerifierCopies
    <2>3. Released' => Released
      BY <1>1, <2>2 DEF Released
    <2>4. \A q \in Requests \ {r} : stale'[q] = stale[q]
      BY <2>1 DEF IInv, TypeOK
    <2>5. LatestKept'
      BY <1>1, <2>1, <2>3, <2>4 DEF VerifierInv, LatestKept
    <2> QED
      BY <1>1, <1>2, <2>5 DEF VerifierInv
  <1>4. CASE Changed(r)
    <2>1. /\ stored' = session[r]
          /\ \A q \in Requests \ {r} : Active(q) => stale'[q]
          /\ ~clobbered' => ~clobbered /\ ~stale[r]
      BY <1>4 DEF Save, Changed, UnderWay, Active
    <2>2. ASSUME ~clobbered', Released' PROVE stored'.codeVerifier = logins'
      <3>1. CASE Released
        <4>1. kind[r] \notin StartLogin /\ stored.codeVerifier = logins
          BY <1>1, <2>1, <2>2, <3>1 DEF VerifierInv, LatestKept
        <4>2. loaded[r] = stored
          BY <1>1, <2>1, <2>2 DEF IInv, Copies
        <4> QED
          BY <1>1, <2>1, <4>1, <4>2 DEF VerifierInv, VerifierCopies
      <3>2. CASE ~Released
        <4>1. code'[r] = logins /\ logins # 0
          BY <1>1, <2>2, <3>2 DEF Released
        <4> QED
          BY <1>1, <2>1, <4>1 DEF VerifierInv, VerifierCopies
      <3> QED
        BY <3>1, <3>2
    <2>3. LatestKept'
      BY <1>1, <2>1, <2>2 DEF LatestKept
    <2> QED
      BY <1>1, <1>2, <2>3 DEF VerifierInv
  <1> QED
    BY <1>3, <1>4

LEMMA SaveFailsVerifier ==
  ASSUME IInv, VerifierInv, NEW r \in Requests, SaveFails(r) PROVE VerifierInv'
  <1>1. pc[r] = "save" /\ Send(r, "500") /\ UNCHANGED <<stored, clobbered>>
    BY DEF SaveFails
  <1> USE SendVerifier
  <1>2. code'[r] = 0
    BY <1>1 DEF Send, IInv, TypeOK
  <1>3. \A q \in Requests \ {r} : stale'[q] = stale[q]
    BY DEF SaveFails, IInv, TypeOK
  <1>4. Released' => Released
    BY <1>1, <1>2 DEF Released
  <1>5. LatestKept'
    BY <1>1, <1>3, <1>4 DEF VerifierInv, LatestKept
  <1>6. LatestLoginWorks'
    BY <1>1 DEF VerifierInv, LatestLoginWorks
  <1> QED
    BY <1>1, <1>5, <1>6 DEF VerifierInv

LEMMA FollowsVerifier ==
  ASSUME IInv, VerifierInv, NEW r \in Requests, BrowserFollows(r) PROVE VerifierInv'
  <1>1. /\ pc[r] = "answered" /\ code[r] # 0 /\ code'[r] = 0 /\ codes' = codes \cup {code[r]}
        /\ \A q \in Requests \ {r} : kind'[q] = kind[q] /\ code'[q] = code[q]
        /\ UNCHANGED <<stored, logins, pc, session, loaded, stale, clobbered>>
    BY SessionsAssumption DEF BrowserFollows, IInv, TypeOK
  <1>2. \A q \in Requests : Active(q) => q # r /\ Active(q)'
    BY <1>1 DEF Active
  <1>3. \A q \in Requests : Active(q)' => q # r /\ Active(q)
    BY <1>1 DEF Active
  <1>4. Released' => Released
    BY <1>1 DEF Released
  <1> QED
    BY <1>1, <1>2, <1>3, <1>4 DEF VerifierInv, VerifierCopies, LatestKept, LatestLoginWorks

LEMMA StepVerifier == IInv /\ VerifierInv /\ [Next]_vars => VerifierInv'
  <1> SUFFICES ASSUME IInv, VerifierInv, [Next]_vars PROVE VerifierInv'
    OBVIOUS
  <1>1. CASE Expire \/ UNCHANGED vars
    <2>1. UNCHANGED <<stored, logins, codes, pc, kind, loaded, code, stale, clobbered, session>>
      BY <1>1 DEF Expire, vars, requestVars, ghosts
    <2> QED
      BY <2>1 DEF VerifierInv, VerifierCopies, LatestKept, LatestLoginWorks, Released, Active
  <1> QED
    BY <1>1, BeginVerifier, AnswersVerifier, SaveVerifier, SaveFailsVerifier, FollowsVerifier
       DEF Next

(* The code of the latest login fits the session it comes back to, however *)
(* many logins, logouts and refreshes overlap with it, unless one of them  *)
(* wrote an older session back (index.js:111-139, 229, 262-268).           *)
THEOREM LatestLoginFits == Spec => []LatestLoginWorks
  <1>1. VerifierInv => LatestLoginWorks
    BY DEF VerifierInv
  <1> QED
    BY <1>1, InitVerifier, StepVerifier, SessionInvariant, PTL DEF Spec

=============================================================================
