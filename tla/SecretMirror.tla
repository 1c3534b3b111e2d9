---------------------------- MODULE SecretMirror ----------------------------
(***************************************************************************)
(* TLSSecretMirror.run of zenith-sync (src/sync/zenith/sync/kubernetes.py).*)
(*                                                                          *)
(* When TLS is enabled and a wildcard secret name is configured, the      *)
(* mirror watches that secret in its own namespace and copies it into the  *)
(* target namespace: once for the initial state returned by watch_one,     *)
(* then once per watch event, deleting the copy when the source is absent    *)
(* or deleted.  Each cluster call may raise, which ends run(); a restart   *)
(* of the process starts it again.  Otherwise it idles for ever.           *)
(*                                                                          *)
(* The copy is the entry MirrorKey of the target namespace's objects,     *)
(* cluster, so that the module can be composed with the reconciler, which *)
(* writes the same namespace.                                               *)
(***************************************************************************)
EXTENDS Naturals, Sequences

CONSTANTS
    SecretValues,      \* type and data the upstream secret can hold
    MirrorEnabled,     \* config.ingress.tls.enabled and tls.secret_name set
    MirrorKey,         \* <<"secrets", config.ingress.tls.secret_name>>
    MaxSourceChanges,  \* bound on changes to the upstream secret
    MaxMirrorRestarts, \* bound on restarts of the mirror
    None

ASSUME MirrorAssumption ==
    /\ MirrorEnabled \in BOOLEAN
    /\ MaxSourceChanges \in Nat
    /\ MaxMirrorRestarts \in Nat
    /\ None \notin SecretValues

VARIABLES
    upstream,  \* the source secret in the mirror's own namespace, or None
    mphase,    \* "disabled", "watch", "initial", "loop" or "stopped"
    minitial,  \* initial_state returned by watch_one
    mevents,   \* watch events delivered and not yet handled
    cluster,   \* objects of the target namespace: key |-> [owner, data]
    schanges,  \* changes to the upstream so far
    mrestarts  \* restarts of the mirror so far

mvars == <<upstream, mphase, minitial, mevents, schanges, mrestarts>>
vars == <<mvars, cluster>>

(* What _update_mirror writes: the source's type and data, labelled only   *)
(* with created-by (no service-name label, hence owner None), annotated    *)
(* with the source's namespace/name.                                       *)
Mirrored(v) == IF v = None THEN None ELSE [owner |-> None, data |-> [mirror |-> v]]

WatchEvent == [type: {"ADDED", "MODIFIED"}, object: SecretValues]
              \cup [type: {"DELETED"}, object: {None}]

Watching == mphase \in {"initial", "loop"}

-----------------------------------------------------------------------------
(* Changes to the source secret, made by whoever manages it.  A change is *)
(* delivered to the watch only when one is open.                           *)

Deliver(e) == mevents' = IF Watching THEN Append(mevents, e) ELSE mevents

SourcePut(v) ==
    /\ schanges < MaxSourceChanges
    /\ upstream' = v
    /\ Deliver([type |-> IF upstream = None THEN "ADDED" ELSE "MODIFIED", object |-> v])
    /\ schanges' = schanges + 1
    /\ UNCHANGED <<mphase, minitial, cluster, mrestarts>>

SourceDelete ==
    /\ schanges < MaxSourceChanges
    /\ upstream # None
    /\ upstream' = None
    /\ Deliver([type |-> "DELETED", object |-> None])
    /\ schanges' = schanges + 1
    /\ UNCHANGED <<mphase, minitial, cluster, mrestarts>>

-----------------------------------------------------------------------------
(* The mirror loop. *)

(* secrets.watch_one: the current state, and a stream of later changes.    *)
Watch ==
    /\ mphase = "watch"
    /\ minitial' = upstream
    /\ mevents' = <<>>
    /\ mphase' = "initial"
    /\ UNCHANGED <<upstream, cluster, schanges, mrestarts>>

(* _update_mirror of the initial state, or _delete_mirror if it is absent. *)
ApplyInitial_UpdateOnly ==
    /\ mphase = "initial"
    /\ cluster' = IF minitial = None THEN cluster
                  ELSE [cluster EXCEPT ![MirrorKey] = Mirrored(minitial)]
    /\ mphase' = "loop"
    /\ UNCHANGED <<upstream, minitial, mevents, schanges, mrestarts>>

ApplyInitial ==
    /\ mphase = "initial"
    /\ cluster' = [cluster EXCEPT ![MirrorKey] = Mirrored(minitial)]
    /\ mphase' = "loop"
    /\ UNCHANGED <<upstream, minitial, mevents, schanges, mrestarts>>

(* One turn of `async for event in events`: update unless DELETED.         *)
HandleEvent_IgnoreDeleted ==
    /\ mphase = "loop"
    /\ mevents # <<>>
    /\ cluster' = IF Head(mevents).type = "DELETED" THEN cluster
                  ELSE [cluster EXCEPT ![MirrorKey] = Mirrored(Head(mevents).object)]
    /\ mevents' = Tail(mevents)
    /\ UNCHANGED <<upstream, mphase, minitial, schanges, mrestarts>>

HandleEvent ==
    /\ mphase = "loop"
    /\ mevents # <<>>
    /\ cluster' = [cluster EXCEPT ![MirrorKey] = Mirrored(Head(mevents).object)]
    /\ mevents' = Tail(mevents)
    /\ UNCHANGED <<upstream, mphase, minitial, schanges, mrestarts>>

(* A call raises (watch_one, a write, or the watch stream itself): nothing *)
(* in run() catches it, so the loop ends.                                  *)
MirrorFail ==
    /\ mphase \in {"watch", "initial", "loop"}
    /\ mphase' = "stopped"
    /\ UNCHANGED <<upstream, minitial, mevents, cluster, schanges, mrestarts>>

(* The process restarts: the watch and its undelivered events are lost.    *)
MirrorRestart ==
    /\ mrestarts < MaxMirrorRestarts
    /\ mphase # "disabled"
    /\ mphase' = "watch"
    /\ minitial' = None
    /\ mevents' = <<>>
    /\ mrestarts' = mrestarts + 1
    /\ UNCHANGED <<upstream, cluster, schanges>>

-----------------------------------------------------------------------------

MirrorInit ==
    /\ upstream \in SecretValues \cup {None}
    /\ mphase = IF MirrorEnabled THEN "watch" ELSE "disabled"
    /\ minitial = None
    /\ mevents = <<>>
    /\ schanges = 0
    /\ mrestarts = 0

Init == MirrorInit /\ cluster = [k \in {MirrorKey} |-> None]

MirrorStep == Watch \/ ApplyInitial \/ HandleEvent

MirrorNext ==
    \/ \E v \in SecretValues : SourcePut(v)
    \/ SourceDelete
    \/ MirrorStep
    \/ MirrorFail
    \/ MirrorRestart

Spec == Init /\ [][MirrorNext]_vars

-----------------------------------------------------------------------------
(* Properties. *)

(* Type invariant of the mirror's variables. *)
MirrorTypeOK ==
    /\ upstream \in SecretValues \cup {None}
    /\ mphase \in {"disabled", "watch", "initial", "loop", "stopped"}
    /\ minitial \in SecretValues \cup {None}
    /\ mevents \in Seq(WatchEvent)
    /\ schanges \in 0..MaxSourceChanges
    /\ mrestarts \in 0..MaxMirrorRestarts
    /\ cluster[MirrorKey] \in {Mirrored(v) : v \in SecretValues \cup {None}}

(* The mirror is faithful: whenever TLSSecretMirror.run is in its event     *)
(* loop and has handled every change delivered so far, the copy in the    *)
(* target namespace is exactly the current upstream secret, or absent when   *)
(* the upstream is.  It must hold across changes made between watch_one and  *)
(* the first write, and across a restart after the upstream was deleted.     *)
MirrorInSync ==
    mphase = "loop" /\ mevents = <<>> => cluster[MirrorKey] = Mirrored(upstream)

====
