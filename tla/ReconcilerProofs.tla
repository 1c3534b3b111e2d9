-------------------------- MODULE ReconcilerProofs --------------------------
(***************************************************************************)
(* Proofs about Reconciler, for every value of the constants that         *)
(* satisfies ConstantsAssumption.                                          *)
(***************************************************************************)
EXTENDS Reconciler, TLAPS

USE ConstantsAssumption

TaskType == ReconcileTask \cup RemoveTask \cup {None}

-----------------------------------------------------------------------------
(* Lemmas about the operators the model is built from. *)

(* Every key formed from a service name is a key of the cluster. *)
LEMMA KeysOfName ==
    ASSUME NEW n \in Names
    PROVE  /\ SvcKey(n) \in Keys /\ EpKey(n) \in Keys /\ IngKey(n) \in Keys
           /\ OidcIngKey(n) \in Keys /\ ReleaseKey(n) \in Keys
           /\ TlsKey(n) \in Keys /\ CaKey(n) \in Keys
           /\ \A i \in Issuers : OidcSecretKey(n, i) \in Keys
BY DEF Keys, KeysOf

(* Writing an object of the right shape at a key keeps the cluster typed. *)
LEMMA PutTyped ==
    ASSUME NEW k \in Keys, NEW o \in Names \cup {None}, NEW d \in Data,
           cluster \in [Keys -> Obj \cup {None}],
           Put(k, o, d)
    PROVE  cluster' \in [Keys -> Obj \cup {None}]
BY DEF Put, Obj

LEMMA DropTyped ==
    ASSUME NEW k \in Keys, cluster \in [Keys -> Obj \cup {None}], Drop(k)
    PROVE  cluster' \in [Keys -> Obj \cup {None}]
BY DEF Drop

LEMMA DeleteAllTyped ==
    ASSUME NEW kind, NEW n, cluster \in [Keys -> Obj \cup {None}]
    PROVE  DeleteAllLabelled(kind, n) \in [Keys -> Obj \cup {None}]
BY DEF DeleteAllLabelled

(* A call that returns keeps the task table and the give-up set typed. *)
LEMMA AdvanceTyped ==
    ASSUME NEW n \in Names, tasks \in [Names -> TaskType],
           tasks[n] \in ReconcileTask \cup RemoveTask,
           failed \subseteq Names, Advance(n)
    PROVE  tasks' \in [Names -> TaskType] /\ failed' \subseteq Names
BY DEF Advance, TaskType, ReconcileTask, RemoveTask

(* Only a credentials record has a cookie or a client field. *)
LEMMA CredsFields ==
    ASSUME NEW d \in Data, "cookie" \in DOMAIN d \/ "client" \in DOMAIN d
    PROVE  d \in Creds
<1>1. CASE d \in [port: {"dynamic"}]  BY <1>1
<1>2. CASE d \in [eps: EndpointLists]  BY <1>2
<1>3. CASE d \in [crt: Pems]  BY <1>3
<1>4. CASE d \in [ca: Pems]  BY <1>4
<1>5. CASE d \in Creds  BY <1>5
<1>6. CASE d \in [creds: Creds \cup {None}, cfg: Configs]  BY <1>6
<1>7. CASE d \in [tls: TlsNames]  BY <1>7
<1>8. CASE d \in [cfg: Configs, tls: TlsNames]  BY <1>8
<1> QED BY <1>1, <1>2, <1>3, <1>4, <1>5, <1>6, <1>7, <1>8 DEF Data

(* The next OIDC client record is a record of credentials. *)
LEMMA NextOidcDataTyped ==
    ASSUME NEW old \in Obj \cup {None}, NEW c \in Configs,
           NEW fresh \in Cookies, NEW issued \in DynClientIds
    PROVE  NextOidcData(old, c, fresh, issued) \in Creds
<1> DEFINE have == IF old = None THEN {} ELSE DOMAIN old.data
<1>1. (IF "cookie" \in have THEN old.data.cookie ELSE fresh) \in Cookies
  BY CredsFields DEF Obj, Creds
<1>2. (IF c.clientId # None THEN c.clientId
       ELSE IF "client" \in have THEN old.data.client ELSE issued) \in ClientIds
  <2>1. c.clientId # None => c.clientId \in ClientIds
    BY DEF ClientIds
  <2>2. "client" \in have => old.data.client \in ClientIds
    BY CredsFields DEF Obj, Creds
  <2> QED BY <2>1, <2>2 DEF ClientIds
<1> QED BY <1>1, <1>2 DEF NextOidcData, Creds

(* A call that writes one object and returns keeps the state typed. *)
LEMMA PutStepTyped ==
    ASSUME TypeOK, NEW n \in Names, tasks[n] \in ReconcileTask \cup RemoveTask,
           NEW k \in Keys, NEW o \in Names \cup {None}, NEW d \in Data,
           Put(k, o, d), Advance(n), UNCHANGED TaskVars
    PROVE  TypeOK'
<1>1. cluster' \in [Keys -> Obj \cup {None}]
  BY PutTyped DEF TypeOK
<1>2. tasks' \in [Names -> TaskType] /\ failed' \subseteq Names
  BY AdvanceTyped DEF TypeOK, TaskType
<1> QED BY <1>1, <1>2 DEF TypeOK, TaskVars, TaskType

(* A call that replaces the cluster by a typed one and returns. *)
LEMMA ClusterStepTyped ==
    ASSUME TypeOK, NEW n \in Names, tasks[n] \in ReconcileTask \cup RemoveTask,
           cluster' \in [Keys -> Obj \cup {None}], Advance(n), UNCHANGED TaskVars
    PROVE  TypeOK'
<1>1. tasks' \in [Names -> TaskType] /\ failed' \subseteq Names
  BY AdvanceTyped DEF TypeOK, TaskType
<1> QED BY <1>1 DEF TypeOK, TaskVars, TaskType

(* The task a reconcile-only call runs in is a reconcile task. *)
LEMMA ReconcileAtTask ==
    ASSUME TypeOK, NEW n \in Names, NEW st, ReconcileAt(n, st)
    PROVE  tasks[n] \in ReconcileTask /\ tasks[n].cfg \in ConfigType
BY DEF TypeOK, ReconcileAt, At, ReconcileTask, RemoveTask

-----------------------------------------------------------------------------
(* Type correctness. *)

(* One step of the reconciler keeps the state typed. *)
LEMMA TypeStep == TypeOK /\ [Next]_vars => TypeOK'
<1> SUFFICES ASSUME TypeOK, [Next]_vars PROVE TypeOK'
  OBVIOUS
<1>1. ASSUME NEW n \in Names, NEW c \in Offers[n], Register(n, c)
      PROVE  TypeOK'
  BY <1>1 DEF Register, TypeOK, Event
<1>2. ASSUME NEW n \in Names, Deregister(n) PROVE TypeOK'
  BY <1>2 DEF Deregister, TypeOK, Event
<1>3. CASE Subscribe
  BY <1>3 DEF Subscribe, TypeOK, NewTask, ReconcileTask, RemoveTask, Attempts
<1>4. CASE FinishSync
  BY <1>4 DEF FinishSync, TypeOK
<1>5. CASE NextEvent
  BY <1>5 DEF NextEvent, TypeOK, NewTask, ReconcileTask, RemoveTask, Event, Attempts
<1>6. ASSUME NEW n \in Names, TaskStep(n) PROVE TypeOK'
  <2> USE DEF TypeOK
  <2>1. CASE WriteService(n)
    <3>1. tasks[n] \in ReconcileTask
      BY <2>1, ReconcileAtTask DEF WriteService
    <3> QED BY <2>1, <3>1, KeysOfName, PutStepTyped DEF WriteService, Data
  <2>2. CASE WriteEndpoints(n)
    <3>1. tasks[n] \in ReconcileTask /\ tasks[n].cfg \in ConfigType
      BY <2>2, ReconcileAtTask DEF WriteEndpoints
    <3>2. [eps |-> tasks[n].cfg.eps] \in Data
      BY <3>1 DEF Data, ConfigType
    <3> QED BY <2>2, <3>1, <3>2, KeysOfName, PutStepTyped DEF WriteEndpoints
  <2>3. CASE WriteTlsSecret(n)
    <3>1. tasks[n] \in ReconcileTask /\ tasks[n].cfg \in ConfigType
      BY <2>3, ReconcileAtTask DEF WriteTlsSecret
    <3>2. [crt |-> tasks[n].cfg.cert] \in Data
      BY <2>3, <3>1 DEF Data, ConfigType, WriteTlsSecret
    <3> QED BY <2>3, <3>1, <3>2, KeysOfName, PutStepTyped DEF WriteTlsSecret
  <2>4. CASE WriteCaSecret(n)
    <3>1. tasks[n] \in ReconcileTask /\ tasks[n].cfg \in ConfigType
      BY <2>4, ReconcileAtTask DEF WriteCaSecret
    <3>2. [ca |-> tasks[n].cfg.ca] \in Data
      BY <2>4, <3>1 DEF Data, ConfigType, WriteCaSecret
    <3> QED BY <2>4, <3>1, <3>2, KeysOfName, PutStepTyped DEF WriteCaSecret
  <2>5. CASE RegisterOidcClient(n)
    <3> DEFINE c == tasks[n].cfg
               k == OidcSecretKey(n, c.issuer)
    <3>0. tasks[n] \in ReconcileTask
      BY <2>5, ReconcileAtTask DEF RegisterOidcClient
    <3>1. c \in Configs /\ c.issuer \in Issuers /\ k \in Keys
      <4>1. c \in Configs
        BY <3>0 DEF ReconcileTask
      <4>2. c.issuer \in Issuers
        BY <4>1 DEF ConfigType
      <4> QED BY <4>1, <4>2, KeysOfName
    <3>2. PICK fresh \in Cookies, issued \in DynClientIds :
            /\ tasks' = [tasks EXCEPT ![n].creds = NextOidcData(cluster[k], c, fresh, issued)]
            /\ idp' = IF Registers(cluster[k], c)
                        THEN idp \cup {[name |-> n, issuer |-> c.issuer,
                                        client |-> issued]}
                        ELSE idp
      BY <2>5 DEF RegisterOidcClient
    <3>3. NextOidcData(cluster[k], c, fresh, issued) \in Creds
      BY <3>1, NextOidcDataTyped
    <3>4. tasks' \in [Names -> TaskType]
      <4>1. [tasks[n] EXCEPT !.creds = NextOidcData(cluster[k], c, fresh, issued)]
              \in ReconcileTask
        BY <3>0, <3>3, Zenon DEF ReconcileTask
      <4> QED BY <3>2, <4>1 DEF TaskType
    <3>5. idp' \subseteq [name: Names, issuer: Issuers, client: DynClientIds]
      BY <3>1, <3>2
    <3> QED BY <2>5, <3>4, <3>5 DEF RegisterOidcClient, TaskType
  <2>6. CASE EnsureOidcRelease(n)
    <3>1. tasks[n] \in ReconcileTask
      BY <2>6, ReconcileAtTask DEF EnsureOidcRelease
    <3>2. [creds |-> tasks[n].creds, cfg |-> tasks[n].cfg] \in Data
      BY <3>1 DEF Data, ReconcileTask
    <3> QED BY <2>6, <3>1, <3>2, KeysOfName, PutStepTyped DEF EnsureOidcRelease
  <2>7. CASE WriteOidcIngress(n)
    <3>1. tasks[n] \in ReconcileTask
      BY <2>7, ReconcileAtTask DEF WriteOidcIngress
    <3>2. [tls |-> OidcIngressTls(n, tasks[n].cfg)] \in Data
      BY DEF Data, OidcIngressTls, TlsNames
    <3> QED BY <2>7, <3>1, <3>2, KeysOfName, PutStepTyped DEF WriteOidcIngress
  <2>8. CASE DeleteOidcIngress(n)
    BY <2>8, KeysOfName, DropTyped, ClusterStepTyped DEF DeleteOidcIngress, At, TaskType
  <2>9. CASE UninstallOidc(n)
    BY <2>9, KeysOfName, DropTyped, ClusterStepTyped DEF UninstallOidc, At, TaskType
  <2>10. CASE WriteIngress(n)
    <3>1. tasks[n] \in ReconcileTask
      BY <2>10, ReconcileAtTask DEF WriteIngress
    <3>2. [cfg |-> tasks[n].cfg, tls |-> TlsSecretFor(n, tasks[n].cfg)] \in Data
      BY <3>1 DEF Data, TlsSecretFor, TlsNames, ReconcileTask
    <3> QED BY <2>10, <3>1, <3>2, KeysOfName, PutStepTyped DEF WriteIngress
  <2>11. CASE DeleteIngresses(n)
    BY <2>11, DeleteAllTyped, ClusterStepTyped DEF DeleteIngresses, At, TaskType
  <2>12. CASE DeleteEndpoints(n)
    BY <2>12, DeleteAllTyped, ClusterStepTyped DEF DeleteEndpoints, At, TaskType
  <2>13. CASE DeleteServices(n)
    BY <2>13, DeleteAllTyped, ClusterStepTyped DEF DeleteServices, At, TaskType
  <2>14. CASE DeleteSecrets(n)
    BY <2>14, DeleteAllTyped, ClusterStepTyped DEF DeleteSecrets, At, TaskType
  <2>15. CASE Fail(n)
    <3>1. tasks[n] \in ReconcileTask \cup RemoveTask
      BY <2>15 DEF Fail, TaskType
    <3>2. NextAttempt(tasks[n].attempt) \in Attempts
      BY <3>1 DEF ReconcileTask, RemoveTask, Attempts, NextAttempt
    <3>3. CASE tasks[n].attempt = MaxAttempts
      BY <2>15, <3>3 DEF Fail, TaskVars, TaskType
    <3>4. CASE tasks[n].attempt # MaxAttempts
      <4> DEFINE t == [tasks[n] EXCEPT !.pc = 1, !.attempt = NextAttempt(@),
                                       !.creds = None]
      <4>1. tasks' = [tasks EXCEPT ![n] = t] /\ failed' = failed
        BY <2>15, <3>4 DEF Fail
      <4>2. t \in ReconcileTask \cup RemoveTask
        <5>0. 1 \in Nat \ {0}
          OBVIOUS
        <5>1. CASE tasks[n] \in ReconcileTask
          BY <5>0, <5>1, <3>2, Zenon DEF ReconcileTask
        <5>2. CASE tasks[n] \in RemoveTask
          BY <5>0, <5>2, <3>2, Zenon DEF RemoveTask
        <5> QED BY <3>1, <5>1, <5>2
      <4> QED BY <2>15, <4>1, <4>2 DEF Fail, TaskVars, TaskType
    <3> QED BY <3>3, <3>4
  <2>16. CASE PatchOidcSecret(n)
    <3> DEFINE k == OidcSecretKey(n, tasks[n].cfg.issuer)
    <3>0. tasks[n] \in ReconcileTask /\ tasks[n].cfg \in ConfigType
      BY <2>16, ReconcileAtTask DEF PatchOidcSecret
    <3>1. k \in Keys
      BY <3>0, KeysOfName DEF ConfigType
    <3>2. tasks[n].creds \in Creds
      BY <2>16, <3>0 DEF PatchOidcSecret, ReconcileTask
    <3>3. cluster' \in [Keys -> Obj \cup {None}]
      BY <2>16, <3>1, <3>2 DEF PatchOidcSecret, Obj, Data
    <3> QED BY <2>16, <3>0, <3>3, ClusterStepTyped DEF PatchOidcSecret
  <2> QED BY <1>6, <2>1, <2>2, <2>3, <2>4, <2>5, <2>6, <2>7, <2>8, <2>9, <2>10,
             <2>11, <2>12, <2>13, <2>14, <2>15, <2>16 DEF TaskStep
<1>7. CASE Restart
  BY <1>7 DEF Restart, TypeOK
<1>8. CASE UNCHANGED vars
  BY <1>8 DEF vars, TypeOK
<1> QED BY <1>1, <1>2, <1>3, <1>4, <1>5, <1>6, <1>7, <1>8
        DEF Next, Source, ReconcilerStep

(* Type correctness of the whole reconciler: every variable, the task   *)
(* table with its retry counter and the cluster objects written by every *)
(* call, keeps its type in every reachable state.                        *)
THEOREM TypeCorrect == Spec => []TypeOK
<1>1. Init => TypeOK
  BY DEF Init, TypeOK
<1>2. QED BY <1>1, TypeStep, PTL DEF Spec

=============================================================================
