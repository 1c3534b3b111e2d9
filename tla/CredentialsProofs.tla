------------------------- MODULE CredentialsProofs -------------------------
(***************************************************************************)
(* Proof that _reconcile_oidc_secret never regenerates a stored cookie    *)
(* secret and replaces a stored client id only by the explicit one of the *)
(* configuration being reconciled (CredentialsStable), for every instance *)
(* whose derived secret names are apart (SecretNamesApart).               *)
(*                                                                          *)
(* The property is about a step, and the step that writes the secret is  *)
(* the patch, which writes the next_data computed at the read.  What      *)
(* makes it hold is that between the read and the patch the secret does   *)
(* not change, so the next_data a task holds agrees with the secret: the  *)
(* same cookie, and the same client or the explicit one (PendingAgrees).  *)
(* That needs every stored OIDC secret to hold a credentials record, so   *)
(* that the cookie and the client are read from it, and to carry no      *)
(* label, so that no removal deletes it.                                   *)
(***************************************************************************)
EXTENDS ReconcilerProofs

(* The OIDC secret a task's next_data is computed for. *)
TaskSecret(n) == cluster[OidcSecretKey(n, tasks[n].cfg.issuer)]

OidcSecretsHoldCreds ==
    \A k \in OidcSecretKeys :
      cluster[k] # None => cluster[k].owner = None /\ cluster[k].data \in Creds

PendingAgrees ==
    \A n \in Names :
      tasks[n] # None /\ tasks[n].creds # None /\ TaskSecret(n) # None =>
        /\ tasks[n].creds.cookie = TaskSecret(n).data.cookie
        /\ \/ tasks[n].creds.client = TaskSecret(n).data.client
           \/ tasks[n].cfg.clientId # None /\ tasks[n].creds.client = tasks[n].cfg.clientId

CredIInv == TypeOK /\ OidcSecretsHoldCreds /\ PendingAgrees

(* The body of CredentialsStable. *)
StableStep ==
    \A n \in Names, i \in Issuers :
         LET k == OidcSecretKey(n, i) IN
           cluster[k] # None /\ cluster'[k] # None =>
             /\ cluster'[k].data.cookie = cluster[k].data.cookie
             /\ cluster'[k].data.client # cluster[k].data.client =>
                  /\ tasks[n] # None
                  /\ tasks[n].cfg.clientId = cluster'[k].data.client

(* A step that leaves every OIDC secret as it is, and every task's      *)
(* configuration and next_data as they are, or drops them.               *)
SecretsKept == \A k \in OidcSecretKeys : cluster'[k] = cluster[k]
TasksKept ==
    \A m \in Names :
      \/ tasks'[m] = None
      \/ tasks'[m].creds = None
      \/ /\ tasks[m] # None
         /\ tasks'[m].cfg = tasks[m].cfg
         /\ tasks'[m].creds = tasks[m].creds

-----------------------------------------------------------------------------
(* Lemmas about keys. *)

LEMMA OidcKeysAreKeys == OidcSecretKeys \subseteq Keys
BY KeysOfName DEF OidcSecretKeys

(* No other key the reconciler writes is an OIDC secret key. *)
LEMMA OtherKeys ==
    ASSUME SecretNamesApart, NEW n \in Names
    PROVE  \A k \in {SvcKey(n), EpKey(n), IngKey(n), OidcIngKey(n), ReleaseKey(n),
                     TlsKey(n), CaKey(n)} : k \notin OidcSecretKeys
BY DEF SecretNamesApart, OidcSecretKeys, SvcKey, EpKey, IngKey, OidcIngKey, ReleaseKey,
   TlsKey, CaKey, OidcSecretKey

(* An OIDC secret key determines its name and issuer. *)
LEMMA OidcKeyInjective ==
    ASSUME SecretNamesApart, NEW n \in Names, NEW m \in Names,
           NEW i \in Issuers, NEW j \in Issuers,
           OidcSecretKey(n, i) = OidcSecretKey(m, j)
    PROVE  n = m /\ i = j
BY DEF SecretNamesApart, OidcSecretKey

(* A task holding next_data is a reconcile task, and its secret is one of *)
(* the OIDC secrets.                                                       *)
LEMMA TaskIssuer ==
    ASSUME TypeOK, NEW n \in Names, tasks[n] # None, tasks[n].creds # None
    PROVE  /\ tasks[n] \in ReconcileTask
           /\ tasks[n].cfg.issuer \in Issuers
           /\ OidcSecretKey(n, tasks[n].cfg.issuer) \in OidcSecretKeys
<1>1. tasks[n] \in ReconcileTask
  BY DEF TypeOK, RemoveTask
<1>2. tasks[n].cfg \in ConfigType
  <2>1. tasks[n].cfg \in Configs
    BY <1>1 DEF ReconcileTask
  <2> QED BY <2>1, ConstantsAssumption
<1>3. tasks[n].cfg.issuer \in Issuers
  BY <1>2 DEF ConfigType
<1> QED BY <1>1, <1>3 DEF OidcSecretKeys

-----------------------------------------------------------------------------
(* Steps that touch no OIDC secret and no next_data. *)

LEMMA QuietIInv ==
    ASSUME CredIInv, TypeOK', SecretsKept, TasksKept
    PROVE  CredIInv'
<1>1. OidcSecretsHoldCreds'
  BY DEF CredIInv, OidcSecretsHoldCreds, SecretsKept
<1>2. PendingAgrees'
  <2> SUFFICES ASSUME NEW m \in Names, tasks'[m] # None, tasks'[m].creds # None,
                      TaskSecret(m)' # None
               PROVE  /\ tasks'[m].creds.cookie = TaskSecret(m)'.data.cookie
                      /\ \/ tasks'[m].creds.client = TaskSecret(m)'.data.client
                         \/ /\ tasks'[m].cfg.clientId # None
                            /\ tasks'[m].creds.client = tasks'[m].cfg.clientId
    BY DEF PendingAgrees
  <2>1. /\ tasks[m] # None
        /\ tasks'[m].cfg = tasks[m].cfg
        /\ tasks'[m].creds = tasks[m].creds
    BY DEF TasksKept
  <2>2. OidcSecretKey(m, tasks[m].cfg.issuer) \in OidcSecretKeys
    BY <2>1, TaskIssuer DEF CredIInv
  <2>3. TaskSecret(m)' = TaskSecret(m)
    BY <2>1, <2>2 DEF SecretsKept, TaskSecret
  <2> QED BY <2>1, <2>3 DEF CredIInv, PendingAgrees
<1> QED BY <1>1, <1>2 DEF CredIInv

LEMMA QuietStable ==
    ASSUME SecretsKept PROVE StableStep
BY DEF SecretsKept, StableStep, OidcSecretKeys


(* A call that returns changes only the program counter of its task. *)
LEMMA AdvanceKept ==
    ASSUME TypeOK, NEW n \in Names, tasks[n] # None, Advance(n)
    PROVE  TasksKept
<1> SUFFICES ASSUME NEW m \in Names
             PROVE  \/ tasks'[m] = None
                    \/ tasks'[m].creds = None
                    \/ /\ tasks[m] # None
                       /\ tasks'[m].cfg = tasks[m].cfg
                       /\ tasks'[m].creds = tasks[m].creds
  BY DEF TasksKept
<1>1. tasks[n] \in ReconcileTask \cup RemoveTask
  BY DEF TypeOK
<1>2. CASE tasks[n].pc = Len(Steps(tasks[n]))
  <2>1. tasks' = [tasks EXCEPT ![n] = None]
    BY <1>2 DEF Advance
  <2> QED BY <2>1 DEF TypeOK
<1>3. CASE tasks[n].pc # Len(Steps(tasks[n]))
  <2>1. tasks' = [tasks EXCEPT ![n].pc = @ + 1]
    BY <1>3 DEF Advance
  <2>2. CASE m = n
    BY <1>1, <2>1, <2>2 DEF TypeOK, ReconcileTask, RemoveTask
  <2>3. CASE m # n
    BY <2>1, <2>3 DEF TypeOK
  <2> QED BY <2>2, <2>3
<1> QED BY <1>2, <1>3

LEMMA PutKept ==
    ASSUME TypeOK, NEW k0 \in Keys, k0 \notin OidcSecretKeys, NEW o, NEW d, Put(k0, o, d)
    PROVE  SecretsKept
BY OidcKeysAreKeys DEF TypeOK, Put, SecretsKept

LEMMA DropKept ==
    ASSUME TypeOK, NEW k0 \in Keys, k0 \notin OidcSecretKeys, Drop(k0)
    PROVE  SecretsKept
BY OidcKeysAreKeys DEF TypeOK, Drop, SecretsKept

(* Deleting by label spares the unlabelled OIDC secrets. *)
LEMMA DeleteAllKept ==
    ASSUME CredIInv, NEW kind, NEW n \in Names, cluster' = DeleteAllLabelled(kind, n)
    PROVE  SecretsKept
<1>1. n # None
  BY ConstantsAssumption
<1> QED BY <1>1, OidcKeysAreKeys DEF DeleteAllLabelled, SecretsKept, CredIInv,
           OidcSecretsHoldCreds

(* Every call of a task but the OIDC secret read and patch. *)
QuietTaskStep(n) ==
    \/ WriteService(n) \/ WriteEndpoints(n) \/ WriteTlsSecret(n)
    \/ WriteCaSecret(n) \/ EnsureOidcRelease(n)
    \/ WriteOidcIngress(n) \/ DeleteOidcIngress(n) \/ UninstallOidc(n)
    \/ WriteIngress(n)
    \/ DeleteIngresses(n) \/ DeleteEndpoints(n) \/ DeleteServices(n)
    \/ DeleteSecrets(n)
    \/ Fail(n)

LEMMA QuietTask ==
    ASSUME SecretNamesApart, CredIInv, NEW n \in Names, QuietTaskStep(n)
    PROVE  SecretsKept /\ TasksKept
<1> DEFINE Writes(k0) == k0 \in Keys /\ k0 \notin OidcSecretKeys
<1>1. /\ Writes(SvcKey(n)) /\ Writes(EpKey(n)) /\ Writes(IngKey(n))
      /\ Writes(OidcIngKey(n)) /\ Writes(ReleaseKey(n))
      /\ Writes(TlsKey(n)) /\ Writes(CaKey(n))
  BY OtherKeys, KeysOfName
<1>0. TypeOK
  BY DEF CredIInv
<1>2. CASE WriteService(n)
  BY <1>1, <1>2, <1>0, PutKept, AdvanceKept DEF WriteService, ReconcileAt, At
<1>3. CASE WriteEndpoints(n)
  BY <1>1, <1>3, <1>0, PutKept, AdvanceKept DEF WriteEndpoints, ReconcileAt, At
<1>4. CASE WriteTlsSecret(n)
  BY <1>1, <1>4, <1>0, PutKept, AdvanceKept DEF WriteTlsSecret, ReconcileAt, At
<1>5. CASE WriteCaSecret(n)
  BY <1>1, <1>5, <1>0, PutKept, AdvanceKept DEF WriteCaSecret, ReconcileAt, At
<1>6. CASE EnsureOidcRelease(n)
  BY <1>1, <1>6, <1>0, PutKept, AdvanceKept DEF EnsureOidcRelease, ReconcileAt, At
<1>7. CASE WriteOidcIngress(n)
  BY <1>1, <1>7, <1>0, PutKept, AdvanceKept DEF WriteOidcIngress, ReconcileAt, At
<1>8. CASE DeleteOidcIngress(n)
  BY <1>1, <1>8, <1>0, DropKept, AdvanceKept DEF DeleteOidcIngress, At
<1>9. CASE UninstallOidc(n)
  BY <1>1, <1>9, <1>0, DropKept, AdvanceKept DEF UninstallOidc, At
<1>10. CASE WriteIngress(n)
  BY <1>1, <1>10, <1>0, PutKept, AdvanceKept DEF WriteIngress, ReconcileAt, At
<1>11. CASE DeleteIngresses(n)
  BY <1>11, <1>0, DeleteAllKept, AdvanceKept DEF DeleteIngresses, At
<1>12. CASE DeleteEndpoints(n)
  BY <1>12, <1>0, DeleteAllKept, AdvanceKept DEF DeleteEndpoints, At
<1>13. CASE DeleteServices(n)
  BY <1>13, <1>0, DeleteAllKept, AdvanceKept DEF DeleteServices, At
<1>14. CASE DeleteSecrets(n)
  BY <1>14, <1>0, DeleteAllKept, AdvanceKept DEF DeleteSecrets, At
<1>15. CASE Fail(n)
  <2>1. SecretsKept
    BY <1>15 DEF Fail, SecretsKept
  <2>2. \/ tasks' = [tasks EXCEPT ![n] = None]
        \/ tasks' = [tasks EXCEPT ![n].pc = 1, ![n].attempt = NextAttempt(@),
                                  ![n].creds = None]
    BY <1>15 DEF Fail
  <2>3. tasks[n] \in ReconcileTask \cup RemoveTask
    BY <1>0, <1>15 DEF Fail, TypeOK
  <2>4. TasksKept
    BY <1>0, <2>2, <2>3 DEF TypeOK, TasksKept, ReconcileTask, RemoveTask
  <2> QED BY <2>1, <2>4
<1> QED BY <1>2, <1>3, <1>4, <1>5, <1>6, <1>7, <1>8, <1>9, <1>10, <1>11, <1>12,
           <1>13, <1>14, <1>15 DEF QuietTaskStep

(* The loop's own steps, the source and restarts start tasks afresh or     *)
(* leave them, and write no object.                                        *)
LEMMA QuietLoop ==
    ASSUME TypeOK,
           \/ Subscribe \/ FinishSync \/ NextEvent \/ Restart \/ UNCHANGED vars
           \/ \E n \in Names : \E c \in Offers[n] : Register(n, c)
           \/ \E n \in Names : Deregister(n)
    PROVE  SecretsKept /\ TasksKept
<1>1. CASE Subscribe
  BY <1>1 DEF Subscribe, TypeOK, TasksKept, SecretsKept, NewTask
<1>2. CASE FinishSync
  BY <1>2 DEF FinishSync, TypeOK, TasksKept, SecretsKept
<1>3. CASE NextEvent
  <2> DEFINE e == Head(events)
  <2>1. /\ tasks' = [tasks EXCEPT ![e.name] =
                       IF e.kind = "deleted" THEN NewTask("remove", None)
                       ELSE NewTask("reconcile", e.cfg)]
        /\ cluster' = cluster
    BY <1>3 DEF NextEvent
  <2>2. \A m \in Names : tasks'[m] = tasks[m] \/ tasks'[m].creds = None
    BY <2>1 DEF TypeOK, NewTask
  <2> QED BY <2>1, <2>2 DEF TypeOK, TasksKept, SecretsKept
<1>4. CASE Restart
  BY <1>4 DEF Restart, TasksKept, SecretsKept
<1>5. CASE UNCHANGED vars
  BY <1>5 DEF vars, TypeOK, TasksKept, SecretsKept
<1>6. CASE \E n \in Names : \E c \in Offers[n] : Register(n, c)
  BY <1>6 DEF Register, TypeOK, TasksKept, SecretsKept
<1>7. CASE \E n \in Names : Deregister(n)
  BY <1>7 DEF Deregister, TypeOK, TasksKept, SecretsKept
<1> QED BY <1>1, <1>2, <1>3, <1>4, <1>5, <1>6, <1>7

-----------------------------------------------------------------------------
(* The read: next_data takes the stored cookie and the stored or explicit *)
(* client of a secret holding credentials.                                  *)
LEMMA RegisterStep ==
    ASSUME CredIInv, NEW n \in Names, RegisterOidcClient(n)
    PROVE  /\ OidcSecretsHoldCreds' /\ PendingAgrees'
           /\ SecretsKept /\ StableStep
<1> DEFINE c == tasks[n].cfg
           s == cluster[OidcSecretKey(n, c.issuer)]
<1>1. tasks[n] \in ReconcileTask /\ c.issuer \in Issuers
      /\ OidcSecretKey(n, c.issuer) \in OidcSecretKeys
  <2>1. tasks[n] \in ReconcileTask /\ c \in ConfigType
    BY ReconcileAtTask DEF RegisterOidcClient, CredIInv
  <2>2. c.issuer \in Issuers
    BY <2>1 DEF ConfigType
  <2> QED BY <2>1, <2>2 DEF OidcSecretKeys
<1>2. PICK fresh \in Cookies, issued \in DynClientIds :
        tasks' = [tasks EXCEPT ![n].creds = NextOidcData(s, c, fresh, issued)]
  BY DEF RegisterOidcClient
<1>3. cluster' = cluster
  BY DEF RegisterOidcClient
<1>4. SecretsKept
  BY <1>3 DEF SecretsKept
<1>5. s # None =>
        /\ NextOidcData(s, c, fresh, issued).cookie = s.data.cookie
        /\ \/ NextOidcData(s, c, fresh, issued).client = s.data.client
           \/ c.clientId # None /\ NextOidcData(s, c, fresh, issued).client = c.clientId
  <2> SUFFICES ASSUME s # None PROVE s.data \in Creds
    BY DEF NextOidcData, Creds
  <2> QED BY <1>1 DEF CredIInv, OidcSecretsHoldCreds
<1>6. PendingAgrees'
  <2> SUFFICES ASSUME NEW m \in Names, tasks'[m] # None, tasks'[m].creds # None,
                      TaskSecret(m)' # None
               PROVE  /\ tasks'[m].creds.cookie = TaskSecret(m)'.data.cookie
                      /\ \/ tasks'[m].creds.client = TaskSecret(m)'.data.client
                         \/ /\ tasks'[m].cfg.clientId # None
                            /\ tasks'[m].creds.client = tasks'[m].cfg.clientId
    BY DEF PendingAgrees
  <2>1. CASE m = n
    <3>1. tasks'[n].creds = NextOidcData(s, c, fresh, issued) /\ tasks'[n].cfg = c
      BY <1>1, <1>2 DEF CredIInv, TypeOK
    <3>2. TaskSecret(n)' = s
      BY <1>3, <3>1 DEF TaskSecret
    <3> QED BY <1>5, <2>1, <3>1, <3>2
  <2>2. CASE m # n
    <3>1. tasks'[m] = tasks[m]
      BY <1>2, <2>2 DEF CredIInv, TypeOK
    <3> QED BY <1>3, <3>1 DEF CredIInv, PendingAgrees, TaskSecret
  <2> QED BY <2>1, <2>2
<1> QED BY <1>3, <1>4, <1>6, QuietStable DEF CredIInv, OidcSecretsHoldCreds

(* The patch: the secret takes next_data, which agrees with it. *)
LEMMA PatchStep ==
    ASSUME SecretNamesApart, CredIInv, NEW n \in Names, PatchOidcSecret(n)
    PROVE  /\ OidcSecretsHoldCreds' /\ PendingAgrees' /\ StableStep
<1> DEFINE c == tasks[n].cfg
           k == OidcSecretKey(n, c.issuer)
           next == tasks[n].creds
<1>1. /\ tasks[n] \in ReconcileTask /\ c.issuer \in Issuers /\ k \in OidcSecretKeys
      /\ next \in Creds /\ tasks[n] # None /\ next # None
  <2>1. tasks[n] # None /\ next # None
    BY DEF PatchOidcSecret, ReconcileAt, At
  <2>2. tasks[n] \in ReconcileTask /\ c.issuer \in Issuers /\ k \in OidcSecretKeys
    BY <2>1, TaskIssuer DEF CredIInv
  <2> QED BY <2>1, <2>2 DEF ReconcileTask
<1>2. k \in Keys
  BY <1>1, OidcKeysAreKeys
<1>3. /\ cluster' \in [Keys -> Obj \cup {None}]
      /\ cluster'[k].data = next /\ cluster'[k].owner = None /\ cluster'[k] \in Obj
      /\ \A k2 \in Keys : k2 # k => cluster'[k2] = cluster[k2]
  <2>1. CASE cluster[k] # None /\ cluster[k].data = next
    <3>1. cluster' = cluster
      BY <2>1 DEF PatchOidcSecret
    <3>2. cluster[k] \in Obj
      BY <1>2, <2>1 DEF CredIInv, TypeOK
    <3> QED BY <1>1, <2>1, <3>1, <3>2 DEF CredIInv, TypeOK, OidcSecretsHoldCreds
  <2>2. CASE ~(cluster[k] # None /\ cluster[k].data = next)
    <3>1. cluster' = [cluster EXCEPT ![k] =
                       [owner |-> IF cluster[k] = None THEN None
                                  ELSE cluster[k].owner,
                        data |-> next]]
      BY <2>2 DEF PatchOidcSecret
    <3>2. cluster'[k] \in Obj
      <4>1. next \in Data
        BY <1>1 DEF Data
      <4>2. (IF cluster[k] = None THEN None ELSE cluster[k].owner) \in Names \cup {None}
        BY <1>2 DEF CredIInv, TypeOK, Obj
      <4> QED BY <1>2, <3>1, <4>1, <4>2 DEF CredIInv, TypeOK, Obj
    <3>3. cluster[k] # None => cluster[k].owner = None
      BY <1>1 DEF CredIInv, OidcSecretsHoldCreds
    <3> QED BY <1>2, <3>1, <3>2, <3>3 DEF CredIInv, TypeOK
  <2> QED BY <2>1, <2>2
<1>4. TasksKept /\ (tasks'[n] # None => tasks'[n].creds = next /\ tasks'[n].cfg = c)
  <2>1. Advance(n) /\ tasks[n] # None
    BY DEF PatchOidcSecret, ReconcileAt, At
  <2>2. TasksKept
    BY <2>1, AdvanceKept DEF CredIInv
  <2>3. tasks'[n] # None => tasks'[n].creds = next /\ tasks'[n].cfg = c
    BY <1>1, <2>1 DEF Advance, CredIInv, TypeOK, ReconcileTask
  <2> QED BY <2>2, <2>3
<1>5. OidcSecretsHoldCreds'
  BY <1>1, <1>3, OidcKeysAreKeys DEF OidcSecretsHoldCreds, CredIInv
<1>6. PendingAgrees'
  <2> SUFFICES ASSUME NEW m \in Names, tasks'[m] # None, tasks'[m].creds # None,
                      TaskSecret(m)' # None
               PROVE  /\ tasks'[m].creds.cookie = TaskSecret(m)'.data.cookie
                      /\ \/ tasks'[m].creds.client = TaskSecret(m)'.data.client
                         \/ /\ tasks'[m].cfg.clientId # None
                            /\ tasks'[m].creds.client = tasks'[m].cfg.clientId
    BY DEF PendingAgrees
  <2>1. CASE m = n
    <3>1. TaskSecret(n)' = cluster'[k]
      BY <1>4, <2>1 DEF TaskSecret
    <3> QED BY <1>3, <1>4, <2>1, <3>1
  <2>2. CASE m # n
    <3>1. /\ tasks[m] # None
          /\ tasks'[m].cfg = tasks[m].cfg
          /\ tasks'[m].creds = tasks[m].creds
      BY <1>4 DEF TasksKept
    <3>2. tasks[m].cfg.issuer \in Issuers
          /\ OidcSecretKey(m, tasks[m].cfg.issuer) \in OidcSecretKeys
      BY <3>1, TaskIssuer DEF CredIInv
    <3>3. OidcSecretKey(m, tasks[m].cfg.issuer) # k
      BY <1>1, <2>2, <3>2, OidcKeyInjective
    <3>4. TaskSecret(m)' = TaskSecret(m)
      BY <1>3, <3>1, <3>2, <3>3, OidcKeysAreKeys DEF TaskSecret
    <3> QED BY <3>1, <3>4 DEF CredIInv, PendingAgrees
  <2> QED BY <2>1, <2>2
<1>7. StableStep
  <2> SUFFICES ASSUME NEW m \in Names, NEW i \in Issuers,
                      cluster[OidcSecretKey(m, i)] # None,
                      cluster'[OidcSecretKey(m, i)] # None
               PROVE  LET k2 == OidcSecretKey(m, i) IN
                        /\ cluster'[k2].data.cookie = cluster[k2].data.cookie
                        /\ cluster'[k2].data.client # cluster[k2].data.client =>
                             /\ tasks[m] # None
                             /\ tasks[m].cfg.clientId = cluster'[k2].data.client
    BY DEF StableStep
  <2>1. OidcSecretKey(m, i) \in Keys
    BY OidcKeysAreKeys DEF OidcSecretKeys
  <2>2. CASE OidcSecretKey(m, i) # k
    BY <1>3, <2>1, <2>2
  <2>3. CASE OidcSecretKey(m, i) = k
    <3>1. m = n /\ i = c.issuer
      BY <1>1, <2>3, OidcKeyInjective
    <3>2. /\ next.cookie = cluster[k].data.cookie
          /\ \/ next.client = cluster[k].data.client
             \/ c.clientId # None /\ next.client = c.clientId
      <4>1. TaskSecret(n) # None
        BY <2>3 DEF TaskSecret
      <4> QED BY <1>1, <4>1 DEF CredIInv, PendingAgrees, TaskSecret
    <3>3. tasks[n] # None
      BY DEF PatchOidcSecret, ReconcileAt, At
    <3> QED BY <1>3, <3>1, <3>2, <3>3
  <2> QED BY <2>2, <2>3
<1> QED BY <1>5, <1>6, <1>7

(* One step of the reconciler keeps CredIInv and is a CredentialsStable step. *)
LEMMA CredStep ==
    ASSUME SecretNamesApart, CredIInv, [Next]_vars
    PROVE  CredIInv' /\ StableStep
<1>1. TypeOK'
  BY TypeStep DEF CredIInv
<1>2. ASSUME NEW n \in Names, TaskStep(n) PROVE CredIInv' /\ StableStep
  <2>1. CASE RegisterOidcClient(n)
    BY <1>1, <2>1, RegisterStep DEF CredIInv
  <2>2. CASE PatchOidcSecret(n)
    BY <1>1, <2>2, PatchStep DEF CredIInv
  <2>3. CASE QuietTaskStep(n)
    BY <1>1, <2>3, QuietTask, QuietIInv, QuietStable DEF CredIInv
  <2> QED BY <1>2, <2>1, <2>2, <2>3 DEF TaskStep, QuietTaskStep
<1>3. CASE \/ Subscribe \/ FinishSync \/ NextEvent \/ Restart \/ UNCHANGED vars
           \/ \E n \in Names : \E c \in Offers[n] : Register(n, c)
           \/ \E n \in Names : Deregister(n)
  BY <1>1, <1>3, QuietLoop, QuietIInv, QuietStable DEF CredIInv
<1> QED BY <1>2, <1>3 DEF Next, Source, ReconcilerStep

LEMMA InitCredIInv == Init => CredIInv
<1> SUFFICES ASSUME Init PROVE CredIInv
  OBVIOUS
<1>1. TypeOK
  BY ConstantsAssumption DEF Init, TypeOK
<1>2. OidcSecretsHoldCreds
  BY OidcKeysAreKeys DEF Init, OidcSecretsHoldCreds
<1>3. PendingAgrees
  BY DEF Init, PendingAgrees
<1> QED BY <1>1, <1>2, <1>3 DEF CredIInv

(* OIDC secret stability of _reconcile_oidc_secret, for every instance     *)
(* whose derived secret names are apart: a stored cookie secret never      *)
(* changes, and a stored client id changes only to the explicit id of the *)
(* configuration being reconciled, across retries, restarts and the       *)
(* interleaving of the startup batch.                                      *)
THEOREM CredentialsStableHolds ==
    ASSUME SecretNamesApart PROVE Spec => CredentialsStable
<1>1. CredIInv /\ [Next]_vars => CredIInv' /\ StableStep
  BY CredStep
<1> QED BY InitCredIInv, <1>1, PTL DEF Spec, CredentialsStable, StableStep


====
