---------------------------- MODULE MCTlsSystem ----------------------------
(* Small instance of TlsSystem: one service that pushes its own TLS       *)
(* certificate, and a wildcard secret name configured as tls-<that name>. *)
EXTENDS TlsSystem, MCReconciler

MCOffersCert == [n \in MCOneName |-> {c \in MCConfigs : c.cert # None}]
MCSecretValues == {"wildcard-v1"}

====
