------------------------------ MODULE TlsSystem ------------------------------
(***************************************************************************)
(* The two control loops of zenith-sync side by side: ServiceReconciler    *)
(* and TLSSecretMirror, scheduled independently in one process, both      *)
(* writing secrets of the target namespace.  The mirror's copy is the     *)
(* reconciler's object <<"secrets", config.ingress.tls.secret_name>>; the  *)
(* mirror runs when TLS is enabled and that name is set (run, line 740).   *)
(***************************************************************************)
EXTENDS Reconciler

CONSTANTS SecretValues, MaxSourceChanges, MaxMirrorRestarts

VARIABLES upstream, mphase, minitial, mevents, schanges, mrestarts

M == INSTANCE SecretMirror
         WITH MirrorKey <- <<"secrets", WildcardSecret>>,
              MirrorEnabled <- TlsEnabled /\ WildcardSecret # None

reconcilerVars == <<registry, events, phase, tasks, failed, changes, restarts, idp>>
mirrorVars == <<upstream, mphase, minitial, mevents, schanges, mrestarts>>

SystemInit == Init /\ M!MirrorInit

(* A step of either loop, or of their environments. *)
SystemNext ==
    \/ Next /\ UNCHANGED mirrorVars
    \/ M!MirrorNext /\ UNCHANGED reconcilerVars

SystemSpec == SystemInit /\ [][SystemNext]_<<vars, mirrorVars>>

(* The wildcard secret stays the mirrored copy of its source while the    *)
(* reconciler works: whenever the source secret exists and                *)
(* TLSSecretMirror.run has handled every change to it, the secret of that *)
(* name in the target namespace is the copy _update_mirror wrote.  The    *)
(* spec has the two loops share no mutable state, so no reconcile may     *)
(* replace the object the mirror keeps up to date.                        *)
WildcardMirrored == upstream # None => M!MirrorInSync

====
