----------------------------- MODULE Reconciler -----------------------------
(***************************************************************************)
(* The service reconciler of zenith-sync (ServiceReconciler in            *)
(* src/sync/zenith/sync/kubernetes.py).                                     *)
(*                                                                          *)
(* The registration source holds the current configuration of every       *)
(* service name.  The reconciler subscribes to it, removes orphans and     *)
(* reconciles the snapshot in one concurrent batch (asyncio.gather), then  *)
(* handles the event stream one event at a time.  Reconciling or removing *)
(* a service is a sequence of cluster calls; each call is one atomic step *)
(* and may fail, which restarts the whole operation until the configured  *)
(* number of attempts is used up.  The process may crash and restart at   *)
(* any time; the cluster keeps its objects, the subscription is lost.     *)
(*                                                                          *)
(* A cluster object is identified by <<kind, object name>>, object names   *)
(* being formed from the service name exactly as the code formats them.   *)
(* An object records its ownership label (the service-name label set by    *)
(* _adopt, or None) and the part of its content the properties compare.  *)
(* Helm releases are kept under the kind "releases".                      *)
(***************************************************************************)
EXTENDS Naturals, Sequences

CONSTANTS
    Names,          \* service names the registration source can deliver
    Configs,        \* per-service configurations the source can deliver
    Offers,         \* name |-> the configurations the source offers for it
    Issuers,        \* OIDC issuer URLs used by Configs
    IssuerHash,     \* issuer |-> the first 8 hex digits of its sha256
    EndpointLists,  \* endpoint lists a service can register
    Pems,           \* certificate material a service can push
    DynClientIds,   \* client ids the issuer can return on registration
    Cookies,        \* values the random cookie secret can take
    TlsEnabled,     \* config.ingress.tls.enabled
    WildcardSecret, \* config.ingress.tls.secret_name (None when unset)
    MaxAttempts,    \* config.reconciliation_retries
    MaxChanges,     \* bound on changes made by the registration source
    MaxRestarts,    \* bound on restarts of the process
    CrashMidCall,   \* whether the process can die in the middle of a call
    None            \* absent value: no object, no task, no label

AuthTypes == {"skip", "external", "oidc"}

(* What the model keeps of service.config and service.endpoints.  auth is *)
(* "skip" when skip-auth is set, otherwise the auth-type value.            *)
ConfigType ==
    [eps: EndpointLists, auth: AuthTypes, cert: Pems \cup {None},
     ca: Pems \cup {None}, issuer: Issuers, clientId: STRING \cup {None}]

ASSUME ConstantsAssumption ==
    /\ Names \subseteq STRING
    /\ Configs \subseteq ConfigType
    /\ Offers \in [Names -> SUBSET Configs]
    /\ IssuerHash \in [Issuers -> STRING]
    /\ TlsEnabled \in BOOLEAN
    /\ WildcardSecret \in STRING \cup {None}
    /\ MaxAttempts \in Nat
    /\ MaxChanges \in Nat
    /\ MaxRestarts \in Nat
    /\ CrashMidCall \in BOOLEAN
    /\ None \notin STRING

VARIABLES
    registry,  \* the registration source: name |-> config, or None
    events,    \* the subscribed event stream, not yet consumed
    phase,     \* "init" (not subscribed), "sync" (startup batch), "steady"
    tasks,     \* name |-> the operation in progress for it, or None
    cluster,   \* object key |-> [owner, data], or None
    failed,    \* names whose last operation gave up (observation only)
    changes,   \* source changes so far (bounded by MaxChanges)
    restarts,  \* restarts so far (bounded by MaxRestarts)
    idp        \* clients registered at the issuers (observation only)

vars == <<registry, events, phase, tasks, cluster, failed, changes, restarts, idp>>

-----------------------------------------------------------------------------
(* Object names, as the code formats them. *)

OidcName(n) == "oidc-" \o n                       \* f"oidc-{service.name}"
TlsName(n) == "tls-" \o n                         \* f"tls-{service.name}"
ClientCaName(n) == "tls-client-ca-" \o n          \* f"tls-client-ca-{name}"
OidcSecretName(n, i) == OidcName(n) \o "-" \o IssuerHash[i]

SvcKey(n) == <<"services", n>>
EpKey(n) == <<"endpoints", n>>
IngKey(n) == <<"ingresses", n>>
OidcIngKey(n) == <<"ingresses", OidcName(n)>>
ReleaseKey(n) == <<"releases", OidcName(n)>>
TlsKey(n) == <<"secrets", TlsName(n)>>
CaKey(n) == <<"secrets", ClientCaName(n)>>
OidcSecretKey(n, i) == <<"secrets", OidcSecretName(n, i)>>

KeysOf(n) ==
    {SvcKey(n), EpKey(n), IngKey(n), OidcIngKey(n), ReleaseKey(n),
     TlsKey(n), CaKey(n)} \cup {OidcSecretKey(n, i) : i \in Issuers}

(* The wildcard TLS secret the ingresses reference when it is configured; *)
(* TLSSecretMirror keeps it, the reconciler only refers to it.            *)
WildcardKeys == {<<"secrets", w>> : w \in {WildcardSecret} \ {None}}

Keys == (UNION {KeysOf(n) : n \in Names}) \cup WildcardKeys

(* The OIDC secret name of a name and an issuer names no other secret the *)
(* reconciler writes: "oidc-" and "tls-" differ in their first letter, and *)
(* the 8 digits of the issuer hash end the name.  A name given as one or  *)
(* more strings cannot be taken apart by the provers, so this is stated.  *)
SecretNamesApart ==
    /\ \A n, m \in Names, i, j \in Issuers :
         OidcSecretName(n, i) = OidcSecretName(m, j) => n = m /\ i = j
    /\ \A n, m \in Names, i \in Issuers :
         OidcSecretName(n, i) \notin {TlsName(m), ClientCaName(m)}

-----------------------------------------------------------------------------
(* Values. *)

ClientIds == DynClientIds \cup ({c.clientId : c \in Configs} \ {None})
Creds == [cookie: Cookies, client: ClientIds]
TlsNames == {None, WildcardSecret} \cup {TlsName(n) : n \in Names}

Data ==
    [port: {"dynamic"}]               \* the service: port 80 -> "dynamic"
    \cup [eps: EndpointLists]         \* the endpoints object
    \cup [crt: Pems] \cup [ca: Pems]  \* tls-<name>, tls-client-ca-<name>
    \cup Creds                        \* the OIDC secret
    \cup [creds: Creds \cup {None}, cfg: Configs] \* oauth2-proxy values
    \cup [tls: TlsNames]              \* the /_oidc ingress
    \cup [cfg: Configs, tls: TlsNames] \* the service's ingress

Obj == [owner: Names \cup {None}, data: Data]

Event == [kind: {"created", "updated"}, name: Names, cfg: Configs]
         \cup [kind: {"deleted"}, name: Names, cfg: {None}]

(* The retry loop compares attempt with reconciliation_retries only by   *)
(* ==.  With retries <= 0 the code's counter grows for ever without ever *)
(* being equal to it; the model stops it at 1, which the test cannot     *)
(* tell apart.  Attempts is the range the counter takes.                 *)
Attempts == 1..(IF MaxAttempts = 0 THEN 1 ELSE MaxAttempts)

ReconcileTask == [op: {"reconcile"}, cfg: Configs, pc: Nat \ {0},
                  attempt: Attempts, creds: Creds \cup {None}]
RemoveTask == [op: {"remove"}, cfg: {None}, pc: Nat \ {0},
               attempt: Attempts, creds: {None}]

(* None stands for no object, no content, no configuration and no task. *)
ASSUME NoneIsNoObject ==
    None \notin Obj \cup Data \cup Configs \cup ReconcileTask \cup RemoveTask

NewTask(op, c) == [op |-> op, cfg |-> c, pc |-> 1, attempt |-> 1, creds |-> None]

-----------------------------------------------------------------------------
(* The control flow of one attempt, as the list of cluster calls it makes. *)

OidcEnabled(c) == c.auth = "oidc"

(* _reconcile_service, with _apply_tls and _apply_auth inlined. *)
ReconcileSteps(c) ==
    <<"service", "endpoints">>
    \o (IF c.cert # None THEN <<"tlsSecret">> ELSE <<>>)
    \o (IF c.ca # None THEN <<"caSecret">> ELSE <<>>)
    \o (IF OidcEnabled(c)
          THEN <<"oidcSecret", "oidcRelease", "oidcIngress">>
          ELSE <<"deleteOidcIngress", "uninstallOidc">>)
    \o <<"ingress">>

(* _remove_service. *)
RemoveSteps ==
    <<"deleteIngresses", "deleteEndpoints", "deleteServices",
      "deleteSecrets", "uninstallOidc">>

Steps(t) == IF t.op = "reconcile" THEN ReconcileSteps(t.cfg) ELSE RemoveSteps

At(n, s) == tasks[n] # None /\ Steps(tasks[n])[tasks[n].pc] = s

(* A call that only _reconcile_service makes. *)
ReconcileAt(n, s) == At(n, s) /\ tasks[n].op = "reconcile"

(* A call returned: go on with the next one, or end the operation. *)
Advance(n) ==
    IF tasks[n].pc = Len(Steps(tasks[n]))
      THEN /\ tasks' = [tasks EXCEPT ![n] = None]
           /\ failed' = failed \ {n}
      ELSE /\ tasks' = [tasks EXCEPT ![n].pc = @ + 1]
           /\ UNCHANGED failed

Put(k, owner, d) == cluster' = [cluster EXCEPT ![k] = [owner |-> owner, data |-> d]]
Drop(k) == cluster' = [cluster EXCEPT ![k] = None]

(* easykube delete_all(labels = _labels(name)) on one kind. *)
DeleteAllLabelled(kind, n) ==
    [k \in Keys |-> IF k[1] = kind /\ cluster[k] # None /\ cluster[k].owner = n
                      THEN None ELSE cluster[k]]

(* The secret name _apply_tls puts in the ingress TLS section. *)
TlsSecretFor(n, c) ==
    IF c.cert # None THEN TlsName(n)
    ELSE IF TlsEnabled
         THEN IF WildcardSecret # None THEN WildcardSecret ELSE TlsName(n)
         ELSE None

(* The secret name _reconcile_oidc_ingress works out for the /_oidc route. *)
OidcIngressTls(n, c) ==
    IF c.cert # None THEN TlsName(n)
    ELSE IF TlsEnabled
         THEN IF WildcardSecret # None THEN WildcardSecret ELSE TlsName(n)
         ELSE None

(* Mutant: registers a new client whenever none is supplied, even when  *)
(* one is on record (the elif "client-id" not in next_data dropped).     *)
NextOidcData_AlwaysRegister(old, c, fresh, issued) ==
    LET have == IF old = None THEN {} ELSE DOMAIN old.data IN
    [cookie |-> IF "cookie" \in have THEN old.data.cookie ELSE fresh,
     client |-> IF c.clientId # None THEN c.clientId ELSE issued]

(* next_data of _reconcile_oidc_secret, from the secret read (old, or     *)
(* None on 404), a fresh random cookie and the id a registration returns. *)
(* A key of existing_data is a field of the stored data.                 *)
NextOidcData(old, c, fresh, issued) ==
    LET have == IF old = None THEN {} ELSE DOMAIN old.data IN
    [cookie |-> IF "cookie" \in have THEN old.data.cookie ELSE fresh,
     client |-> IF c.clientId # None THEN c.clientId
                ELSE IF "client" \in have THEN old.data.client ELSE issued]

-----------------------------------------------------------------------------
(* The registration source (not under src/): a change of the set of       *)
(* registered services, delivered as an event once subscribed.            *)

Register(n, c) ==
    /\ changes < MaxChanges
    /\ registry[n] # c
    /\ registry' = [registry EXCEPT ![n] = c]
    /\ events' = IF phase = "init" THEN events
                 ELSE Append(events,
                        [kind |-> IF registry[n] = None THEN "created" ELSE "updated",
                         name |-> n, cfg |-> c])
    /\ changes' = changes + 1
    /\ UNCHANGED <<phase, tasks, cluster, failed, restarts, idp>>

Deregister(n) ==
    /\ changes < MaxChanges
    /\ registry[n] # None
    /\ registry' = [registry EXCEPT ![n] = None]
    /\ events' = IF phase = "init" THEN events
                 ELSE Append(events, [kind |-> "deleted", name |-> n, cfg |-> None])
    /\ changes' = changes + 1
    /\ UNCHANGED <<phase, tasks, cluster, failed, restarts, idp>>

-----------------------------------------------------------------------------
(* ServiceReconciler.run *)

(* Names of the Service objects carrying the ownership labels.            *)
Existing == {n \in Names : cluster[SvcKey(n)] # None /\ cluster[SvcKey(n)].owner # None}

(* Subscribe, list the existing services and start the startup batch:    *)
(* reconcile every service of the snapshot, remove every other existing. *)
Subscribe ==
    /\ phase = "init"
    /\ tasks' = [n \in Names |->
                   IF registry[n] # None THEN NewTask("reconcile", registry[n])
                   ELSE IF n \in Existing THEN NewTask("remove", None)
                   ELSE None]
    /\ phase' = "sync"
    /\ UNCHANGED <<registry, events, cluster, failed, changes, restarts, idp>>

Idle == \A n \in Names : tasks[n] = None

(* asyncio.gather returns once every task of the batch has returned. *)
FinishSync ==
    /\ phase = "sync"
    /\ Idle
    /\ phase' = "steady"
    /\ UNCHANGED <<registry, events, tasks, cluster, failed, changes, restarts, idp>>

(* async for event in events: one event at a time, in order. *)
NextEvent ==
    /\ phase = "steady"
    /\ Idle
    /\ events # <<>>
    /\ LET e == Head(events) IN
         tasks' = [tasks EXCEPT ![e.name] =
                     IF e.kind = "deleted" THEN NewTask("remove", None)
                     ELSE NewTask("reconcile", e.cfg)]
    /\ events' = Tail(events)
    /\ UNCHANGED <<registry, phase, cluster, failed, changes, restarts, idp>>

-----------------------------------------------------------------------------
(* _reconcile_service: one action per cluster call. *)

TaskVars == <<registry, events, phase, changes, restarts, idp>>

WriteService(n) ==
    /\ ReconcileAt(n, "service")
    /\ Put(SvcKey(n), n, [port |-> "dynamic"])
    /\ Advance(n)
    /\ UNCHANGED TaskVars

WriteEndpoints(n) ==
    /\ ReconcileAt(n, "endpoints")
    /\ Put(EpKey(n), n, [eps |-> tasks[n].cfg.eps])
    /\ Advance(n)
    /\ UNCHANGED TaskVars

WriteTlsSecret(n) ==
    /\ ReconcileAt(n, "tlsSecret")
    /\ tasks[n].cfg.cert # None          \* if "tls-cert" in service.config
    /\ Put(TlsKey(n), n, [crt |-> tasks[n].cfg.cert])
    /\ Advance(n)
    /\ UNCHANGED TaskVars

WriteCaSecret(n) ==
    /\ ReconcileAt(n, "caSecret")
    /\ tasks[n].cfg.ca # None            \* if "tls-client-ca" in service.config
    /\ Put(CaKey(n), n, [ca |-> tasks[n].cfg.ca])
    /\ Advance(n)
    /\ UNCHANGED TaskVars

(* Whether _reconcile_oidc_secret goes to the issuer: no client id is   *)
(* supplied and none is on record.                                      *)
Registers(old, c) ==
    c.clientId = None /\ (old = None \/ "client" \notin DOMAIN old.data)

(* _reconcile_oidc_secret up to the patch: read the secret (404 is no     *)
(* secret), compute next_data and, when Registers, register a client at *)
(* the issuer, which keeps it whatever happens next.  next_data is kept  *)
(* in the task (creds) for the patch; creds is None until it is computed. *)
RegisterOidcClient(n) ==
    /\ ReconcileAt(n, "oidcSecret")
    /\ tasks[n].creds = None
    /\ LET c == tasks[n].cfg
           old == cluster[OidcSecretKey(n, c.issuer)]
       IN \E fresh \in Cookies, issued \in DynClientIds :
            /\ tasks' = [tasks EXCEPT ![n].creds = NextOidcData(old, c, fresh, issued)]
            /\ idp' = IF Registers(old, c)
                        THEN idp \cup {[name |-> n, issuer |-> c.issuer,
                                        client |-> issued]}
                        ELSE idp
    /\ UNCHANGED <<cluster, failed>>
    /\ UNCHANGED <<registry, events, phase, changes, restarts>>

(* The create_or_patch when next_data differs from what was read.  It sets *)
(* no labels and keeps those already there.  Only this task writes the    *)
(* secret, so what was read is what is there now.                        *)
PatchOidcSecret(n) ==
    /\ ReconcileAt(n, "oidcSecret")
    /\ tasks[n].creds # None
    /\ LET k == OidcSecretKey(n, tasks[n].cfg.issuer)
           next == tasks[n].creds
       IN cluster' = IF cluster[k] # None /\ cluster[k].data = next THEN cluster
                     ELSE [cluster EXCEPT ![k] =
                            [owner |-> IF cluster[k] = None THEN None
                                       ELSE cluster[k].owner,
                             data |-> next]]
    /\ Advance(n)
    /\ UNCHANGED TaskVars

(* _reconcile_oidc_proxy: helm ensure_release with the credentials just   *)
(* returned by _reconcile_oidc_secret.                                   *)
EnsureOidcRelease(n) ==
    /\ ReconcileAt(n, "oidcRelease")
    /\ Put(ReleaseKey(n), None, [creds |-> tasks[n].creds, cfg |-> tasks[n].cfg])
    /\ Advance(n)
    /\ UNCHANGED TaskVars

WriteOidcIngress(n) ==
    /\ ReconcileAt(n, "oidcIngress")
    /\ Put(OidcIngKey(n), n, [tls |-> OidcIngressTls(n, tasks[n].cfg)])
    /\ Advance(n)
    /\ UNCHANGED TaskVars

(* Mutant: the non-OIDC branch leaves the /_oidc ingress in place. *)
DeleteOidcIngress_Skipped(n) ==
    /\ At(n, "deleteOidcIngress")
    /\ UNCHANGED cluster
    /\ Advance(n)
    /\ UNCHANGED TaskVars

(* ingresses.delete(oidc_release_name): by name, whatever its labels. *)
DeleteOidcIngress(n) ==
    /\ At(n, "deleteOidcIngress")
    /\ Drop(OidcIngKey(n))
    /\ Advance(n)
    /\ UNCHANGED TaskVars

(* helm uninstall_release(f"oidc-{name}"); absence is not an error. *)
UninstallOidc(n) ==
    /\ At(n, "uninstallOidc")
    /\ Drop(ReleaseKey(n))
    /\ Advance(n)
    /\ UNCHANGED TaskVars

WriteIngress(n) ==
    /\ ReconcileAt(n, "ingress")
    /\ Put(IngKey(n), n, [cfg |-> tasks[n].cfg, tls |-> TlsSecretFor(n, tasks[n].cfg)])
    /\ Advance(n)
    /\ UNCHANGED TaskVars

-----------------------------------------------------------------------------
(* _remove_service *)

(* Mutant: delete_all without the label selector. *)
DeleteIngresses_Unselected(n) ==
    /\ At(n, "deleteIngresses")
    /\ cluster' = [k \in Keys |-> IF k[1] = "ingresses" THEN None ELSE cluster[k]]
    /\ Advance(n)
    /\ UNCHANGED TaskVars

DeleteIngresses(n) ==
    /\ At(n, "deleteIngresses")
    /\ cluster' = DeleteAllLabelled("ingresses", n)
    /\ Advance(n)
    /\ UNCHANGED TaskVars

DeleteEndpoints(n) ==
    /\ At(n, "deleteEndpoints")
    /\ cluster' = DeleteAllLabelled("endpoints", n)
    /\ Advance(n)
    /\ UNCHANGED TaskVars

DeleteServices(n) ==
    /\ At(n, "deleteServices")
    /\ cluster' = DeleteAllLabelled("services", n)
    /\ Advance(n)
    /\ UNCHANGED TaskVars

DeleteSecrets(n) ==
    /\ At(n, "deleteSecrets")
    /\ cluster' = DeleteAllLabelled("secrets", n)
    /\ Advance(n)
    /\ UNCHANGED TaskVars

-----------------------------------------------------------------------------
(* Mutant: gives up one attempt too late (attempt > retries). *)
Fail_OffByOne(n) ==
    /\ tasks[n] # None
    /\ IF tasks[n].attempt > MaxAttempts
         THEN /\ tasks' = [tasks EXCEPT ![n] = None]
              /\ failed' = failed \cup {n}
         ELSE /\ tasks' = [tasks EXCEPT ![n].pc = 1, ![n].attempt = @ + 1,
                                        ![n].creds = None]
              /\ UNCHANGED failed
    /\ UNCHANGED <<cluster>>
    /\ UNCHANGED TaskVars

(* Mutant: the attempt counter is never incremented. *)
Fail_NoIncrement(n) ==
    /\ tasks[n] # None
    /\ IF tasks[n].attempt = MaxAttempts
         THEN /\ tasks' = [tasks EXCEPT ![n] = None]
              /\ failed' = failed \cup {n}
         ELSE /\ tasks' = [tasks EXCEPT ![n].pc = 1, ![n].creds = None]
              /\ UNCHANGED failed
    /\ UNCHANGED <<cluster>>
    /\ UNCHANGED TaskVars

(* attempt = attempt + 1, stopped where the == test can no longer hold. *)
NextAttempt(a) == IF a < MaxAttempts THEN a + 1 ELSE a

(* _try_reconcile_service / _try_remove_service: the call in progress     *)
(* raised.  Retry from the first call, or give up after the last attempt. *)
Fail(n) ==
    /\ tasks[n] # None
    /\ IF tasks[n].attempt = MaxAttempts
         THEN /\ tasks' = [tasks EXCEPT ![n] = None]
              /\ failed' = failed \cup {n}
         ELSE /\ tasks' = [tasks EXCEPT ![n].pc = 1,
                                        ![n].attempt = NextAttempt(@),
                                        ![n].creds = None]
              /\ UNCHANGED failed
    /\ UNCHANGED <<cluster>>
    /\ UNCHANGED TaskVars

(* The process stops and is restarted: the cluster is kept, the          *)
(* subscription and the tasks are not.  It may stop while waiting for the *)
(* next event (a rollout, an eviction) and, when CrashMidCall holds, at   *)
(* any point, a startup call that raises included.  failed records what   *)
(* gave up and is kept: a restart is what should repair it.              *)
Restart ==
    /\ restarts < MaxRestarts
    /\ phase # "init"
    /\ CrashMidCall \/ (phase = "steady" /\ Idle)
    /\ phase' = "init"
    /\ tasks' = [n \in Names |-> None]
    /\ events' = <<>>
    /\ restarts' = restarts + 1
    /\ UNCHANGED <<registry, cluster, failed, changes, idp>>

-----------------------------------------------------------------------------

Init ==
    /\ registry \in {r \in [Names -> Configs \cup {None}] :
                       \A n \in Names : r[n] \in Offers[n] \cup {None}}
    /\ events = <<>>
    /\ phase = "init"
    /\ tasks = [n \in Names |-> None]
    /\ cluster = [k \in Keys |-> None]
    /\ failed = {}
    /\ changes = 0
    /\ restarts = 0
    /\ idp = {}

TaskStep(n) ==
    \/ WriteService(n) \/ WriteEndpoints(n) \/ WriteTlsSecret(n)
    \/ WriteCaSecret(n) \/ RegisterOidcClient(n) \/ PatchOidcSecret(n)
    \/ EnsureOidcRelease(n)
    \/ WriteOidcIngress(n) \/ DeleteOidcIngress(n) \/ UninstallOidc(n)
    \/ WriteIngress(n)
    \/ DeleteIngresses(n) \/ DeleteEndpoints(n) \/ DeleteServices(n)
    \/ DeleteSecrets(n)
    \/ Fail(n)

ReconcilerStep ==
    \/ Subscribe
    \/ FinishSync
    \/ NextEvent
    \/ \E n \in Names : TaskStep(n)

Source ==
    \/ \E n \in Names : \E c \in Offers[n] : Register(n, c)
    \/ \E n \in Names : Deregister(n)

Next == Source \/ ReconcilerStep \/ Restart

(* The reconciler is one asyncio task: whenever one of its coroutines can *)
(* run it eventually does, and every cluster call returns or raises.     *)
Spec == Init /\ [][Next]_vars /\ WF_vars(ReconcilerStep)

-----------------------------------------------------------------------------
(* Properties *)

TypeOK ==
    /\ registry \in [Names -> Configs \cup {None}]
    /\ events \in Seq(Event)
    /\ phase \in {"init", "sync", "steady"}
    /\ tasks \in [Names -> ReconcileTask \cup RemoveTask \cup {None}]
    /\ cluster \in [Keys -> Obj \cup {None}]
    /\ failed \subseteq Names
    /\ changes \in 0..MaxChanges
    /\ restarts \in 0..MaxRestarts
    /\ idp \subseteq [name: Names, issuer: Issuers, client: DynClientIds]

(* The reconciler has nothing left to do: synchronised, no event pending. *)
Quiescent == phase = "steady" /\ events = <<>> /\ Idle

Holds(k, n, d) == cluster[k] = [owner |-> n, data |-> d]

(* A label-selector query for n finds nothing and no proxy release is left. *)
Removed(n) ==
    /\ \A k \in Keys : cluster[k] # None => cluster[k].owner # n
    /\ cluster[ReleaseKey(n)] = None

(* Everything configuration c of n asks for is in the cluster, current.  *)
Published(n, c) ==
    /\ Holds(SvcKey(n), n, [port |-> "dynamic"])
    /\ Holds(EpKey(n), n, [eps |-> c.eps])
    /\ cluster[IngKey(n)] # None
    /\ cluster[IngKey(n)].owner = n
    /\ cluster[IngKey(n)].data.cfg = c
    /\ c.cert # None => Holds(TlsKey(n), n, [crt |-> c.cert])
    /\ c.ca # None => Holds(CaKey(n), n, [ca |-> c.ca])
    /\ IF OidcEnabled(c)
         THEN LET s == cluster[OidcSecretKey(n, c.issuer)] IN
              /\ s # None
              /\ c.clientId # None => s.data.client = c.clientId
              /\ cluster[ReleaseKey(n)] = [owner |-> None,
                                           data |-> [creds |-> s.data, cfg |-> c]]
              /\ cluster[OidcIngKey(n)] # None
              /\ cluster[OidcIngKey(n)].owner = n
              /\ cluster[OidcIngKey(n)].data.tls = cluster[IngKey(n)].data.tls
         ELSE /\ cluster[OidcIngKey(n)] = None
              /\ cluster[ReleaseKey(n)] = None

(* Convergence (spec 4.1, 5): once the reconciler is quiescent, every     *)
(* name whose last operation did not give up is in the cluster exactly as *)
(* the registration source now has it: a registered service has its      *)
(* service, endpoints, ingress, TLS and client-CA secrets, and, for OIDC, *)
(* a proxy release holding the stored credentials and a /_oidc route on  *)
(* the same TLS secret as the main route; an unregistered one has no      *)
(* labelled object and no release.  This covers orphan removal at        *)
(* startup, the ordering of events, retries after a partial reconcile and *)
(* the teardown of OIDC when a service stops using it.                   *)
Converged ==
    Quiescent =>
      \A n \in Names \ failed :
        IF registry[n] = None THEN Removed(n) ELSE Published(n, registry[n])

(* Non-interference (spec 5): a call made for service n changes only      *)
(* objects that are absent, unlabelled or labelled n; it never clobbers   *)
(* or deletes an object another service owns.                            *)
ScopedWrites ==
    [][\A n \in Names :
         TaskStep(n) =>
           \A k \in Keys :
             cluster'[k] # cluster[k] =>
               cluster[k] = None \/ cluster[k].owner \in {n, None}]_vars

(* OIDC secret stability (spec 3, 8): the cookie secret of a stored OIDC  *)
(* client record never changes, and its client id changes only to the    *)
(* explicit id of the configuration being reconciled; a retry, a restart  *)
(* or a second reconcile does not register a new client.                  *)
CredentialsStable ==
    [][\A n \in Names, i \in Issuers :
         LET k == OidcSecretKey(n, i) IN
           cluster[k] # None /\ cluster'[k] # None =>
             /\ cluster'[k].data.cookie = cluster[k].data.cookie
             /\ cluster'[k].data.client # cluster[k].data.client =>
                  /\ tasks[n] # None
                  /\ tasks[n].cfg.clientId = cluster'[k].data.client]_vars

(* The names of the OIDC secrets _reconcile_oidc_secret writes. *)
OidcSecretKeys == {OidcSecretKey(n, i) : n \in Names, i \in Issuers}

(* Ownership completeness (spec 3: every managed resource carries the    *)
(* ownership labels, which are the sole means of garbage collection):    *)
(* once quiescent, a name that is no longer registered and did not give  *)
(* up has none of the objects zenith-sync creates for it left, the OIDC  *)
(* client secret included.                                               *)
NothingLeftAfterRemoval ==
    Quiescent =>
      \A n \in Names \ failed :
        registry[n] = None => \A k \in KeysOf(n) : cluster[k] = None

EventuallyQuiescent == <>[]Quiescent

=============================================================================
