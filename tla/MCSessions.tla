----------------------------- MODULE MCSessions -----------------------------
(* Requests of one browser, and providers that differ in one setting.      *)
EXTENDS Sessions

Keycloak == [rotates |-> FALSE, again |-> TRUE, idToken |-> TRUE, endSession |-> TRUE]

Providers ==
    {Keycloak, [Keycloak EXCEPT !.rotates = TRUE],
     [Keycloak EXCEPT !.again = FALSE], [Keycloak EXCEPT !.idToken = FALSE],
     [Keycloak EXCEPT !.endSession = FALSE]}
=============================================================================
