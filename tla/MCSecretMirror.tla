--------------------------- MODULE MCSecretMirror ---------------------------
(* Small instance of SecretMirror: two contents for the wildcard secret.   *)
EXTENDS SecretMirror

MCSecretValues == {"wildcard-v1", "wildcard-v2"}
MCMirrorKey == <<"secrets", "zenith-tls">>

====
