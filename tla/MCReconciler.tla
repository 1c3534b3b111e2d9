---------------------------- MODULE MCReconciler ----------------------------
(* Small instances of Reconciler for TLC. *)
EXTENDS Reconciler

(* Three configurations: external auth without TLS material; OIDC with   *)
(* dynamic client registration and a pushed certificate; OIDC at the same *)
(* issuer with an explicit client id and a client CA.                     *)
MCConfigs ==
    { [eps |-> "e1", auth |-> "external", cert |-> None, ca |-> None,
       issuer |-> "https://idp-1", clientId |-> None],
      [eps |-> "e2", auth |-> "oidc", cert |-> "pem1", ca |-> None,
       issuer |-> "https://idp-1", clientId |-> None],
      [eps |-> "e1", auth |-> "oidc", cert |-> None, ca |-> "pem1",
       issuer |-> "https://idp-1", clientId |-> "static-client"] }

MCIssuers == {"https://idp-1"}
MCIssuerHash == [i \in MCIssuers |-> "5c3e0a1f"]
MCNames == {"a", "b"}
MCOneName == {"a"}
(* Every name may be given every configuration. *)
MCOffersAll == [n \in MCNames |-> MCConfigs]
MCOffersOne == [n \in MCOneName |-> MCConfigs]
(* The second service only ever registers with external auth. *)
MCOffersTwo ==
    [n \in MCNames |-> IF n = "a" THEN MCConfigs
                       ELSE {c \in MCConfigs : c.auth = "external"}]
MCEndpointLists == {"e1", "e2"}
MCPems == {"pem1"}

(* The derived secret names of every instance below are apart. *)
ASSUME MCSecretNamesApart == SecretNamesApart


(* Two names where one is "oidc-" followed by the other. *)
MCCollidingNames == {"a", "oidc-a"}
MCOffersColliding ==
    [n \in MCCollidingNames |-> {c \in MCConfigs : c.auth = "external"}]

(* A service that only uses dynamic client registration. *)
MCOffersDynamic ==
    [n \in MCOneName |-> {c \in MCConfigs : c.auth = "oidc" /\ c.clientId = None}]
=============================================================================
