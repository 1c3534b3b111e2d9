---------------------------- MODULE TaskStepProofs ----------------------------
(***************************************************************************)
(* The step lemmas behind ConvergedHolds: every call of a service's task, *)
(* and its failure, keeps ConvIInv (TaskStepConv).  Each call of          *)
(* _reconcile_service or _remove_service keeps what the earlier calls of  *)
(* its task left behind and what holds of every other name.               *)
(***************************************************************************)
EXTENDS ConvergenceProofs

-----------------------------------------------------------------------------
(* Convergence: an operation whose calls have all returned has done its   *)
(* job.                                                                   *)

(* An object is of one of the kinds delete_all removes, or a release. *)
LEMMA KeyKinds ==
    ASSUME NEW k \in Keys
    PROVE  \/ k[1] \in {"services", "endpoints", "ingresses", "secrets"}
           \/ \E m \in Names : k = ReleaseKey(m)
BY DEF Keys, KeysOf, WildcardKeys, SvcKey, EpKey, IngKey, OidcIngKey, ReleaseKey,
       TlsKey, CaKey, OidcSecretKey

(* Once the delete_all calls and the uninstall of _remove_service have     *)
(* returned, n is removed.                                                *)
LEMMA RemoveDoneGood ==
    ASSUME TypeOK', Owners', NEW n \in Names, NEW t,
           \A s \in DOMAIN RemoveKind \cup {"uninstallOidc"} : StepDone(n, t, s)'
    PROVE  Removed(n)'
<1>1. n # None  BY ConstantsAssumption
<1>0. /\ StepDone(n, t, "deleteIngresses")' /\ StepDone(n, t, "deleteEndpoints")'
      /\ StepDone(n, t, "deleteServices")' /\ StepDone(n, t, "deleteSecrets")'
      /\ StepDone(n, t, "uninstallOidc")'
  BY DEF RemoveKind
<1>2. \A kind \in {"services", "endpoints", "ingresses", "secrets"} : NoneOwned(kind, n)'
  BY <1>0 DEF StepDone, RemoveKind
<1>3. cluster'[ReleaseKey(n)] = None
  BY <1>0 DEF StepDone, RemoveKind
<1>4. \A k \in Keys : cluster'[k] # None => cluster'[k].owner # n
  <2> SUFFICES ASSUME NEW k \in Keys, cluster'[k] # None PROVE cluster'[k].owner # n
    OBVIOUS
  <2>1. CASE k[1] \in {"services", "endpoints", "ingresses", "secrets"}
    BY <1>2, <2>1 DEF NoneOwned
  <2>2. CASE \E m \in Names : k = ReleaseKey(m)
    BY <1>1, <2>2 DEF Owners
  <2> QED BY <2>1, <2>2, KeyKinds
<1> QED BY <1>3, <1>4 DEF Removed

(* An object written by a call is not None. *)
LEMMA ObjNotNone ==
    ASSUME NEW n \in Names \cup {None}, NEW d \in Data
    PROVE  [owner |-> n, data |-> d] # None
BY NoneIsNoObject DEF Obj

(* The TLS secret names _apply_tls and _reconcile_oidc_ingress choose. *)
LEMMA TlsSecretName ==
    ASSUME NEW n \in Names, NEW c
    PROVE  TlsSecretFor(n, c) \in TlsNames /\ OidcIngressTls(n, c) = TlsSecretFor(n, c)
BY DEF TlsSecretFor, OidcIngressTls, TlsNames

(* Once every call of _reconcile_service has returned, c is published. *)
LEMMA ReconcileDoneGood ==
    ASSUME NEW n \in Names, NEW t, NEW c \in Configs, t.cfg = c,
           \A s \in ReconcileCalls(c) : StepDone(n, t, s)'
    PROVE  Published(n, c)'
<1>0. /\ StepDone(n, t, "service")' /\ StepDone(n, t, "endpoints")'
      /\ StepDone(n, t, "ingress")'
      /\ c.cert # None => StepDone(n, t, "tlsSecret")'
      /\ c.ca # None => StepDone(n, t, "caSecret")'
  BY DEF ReconcileCalls
<1>1. /\ Holds(SvcKey(n), n, [port |-> "dynamic"])'
      /\ Holds(EpKey(n), n, [eps |-> c.eps])'
      /\ Holds(IngKey(n), n, [cfg |-> c, tls |-> TlsSecretFor(n, c)])'
  BY <1>0 DEF StepDone, RemoveKind
<1>2. c.cert # None => Holds(TlsKey(n), n, [crt |-> c.cert])'
  BY <1>0 DEF StepDone, RemoveKind
<1>3. c.ca # None => Holds(CaKey(n), n, [ca |-> c.ca])'
  BY <1>0 DEF StepDone, RemoveKind
<1>6. /\ Holds(SvcKey(n), n, [port |-> "dynamic"])'
      /\ Holds(EpKey(n), n, [eps |-> c.eps])'
      /\ cluster'[IngKey(n)] # None
      /\ cluster'[IngKey(n)].owner = n
      /\ cluster'[IngKey(n)].data.cfg = c
      /\ cluster'[IngKey(n)].data.tls = TlsSecretFor(n, c)
      /\ c.cert # None => Holds(TlsKey(n), n, [crt |-> c.cert])'
      /\ c.ca # None => Holds(CaKey(n), n, [ca |-> c.ca])'
  <2>1. cluster'[IngKey(n)] = [owner |-> n, data |-> [cfg |-> c, tls |-> TlsSecretFor(n, c)]]
    BY <1>1 DEF Holds
  <2>2. /\ cluster'[IngKey(n)] # None
        /\ cluster'[IngKey(n)].owner = n
        /\ cluster'[IngKey(n)].data.cfg = c
        /\ cluster'[IngKey(n)].data.tls = TlsSecretFor(n, c)
    <3>1. [cfg |-> c, tls |-> TlsSecretFor(n, c)] \in Data
      BY TlsSecretName DEF Data
    <3> QED BY <2>1, <3>1, ObjNotNone
  <2> QED BY <1>1, <1>2, <1>3, <2>2
<1>4. CASE OidcEnabled(c)
  <2>0. /\ StepDone(n, t, "oidcSecret")' /\ StepDone(n, t, "oidcRelease")'
        /\ StepDone(n, t, "oidcIngress")'
    BY <1>4 DEF ReconcileCalls
  <2>1. /\ t.creds # None
        /\ cluster'[OidcSecretKey(n, c.issuer)] # None
        /\ cluster'[OidcSecretKey(n, c.issuer)].data = t.creds
        /\ c.clientId # None => t.creds.client = c.clientId
    BY <2>0 DEF StepDone, RemoveKind
  <2>2. Holds(ReleaseKey(n), None, [creds |-> t.creds, cfg |-> c])'
    BY <2>0 DEF StepDone, RemoveKind
  <2>3. Holds(OidcIngKey(n), n, [tls |-> OidcIngressTls(n, c)])'
    BY <2>0 DEF StepDone, RemoveKind
  <2>4. /\ OidcIngressTls(n, c) = TlsSecretFor(n, c)
        /\ [tls |-> OidcIngressTls(n, c)] \in Data
    BY TlsSecretName DEF Data
  <2>6. cluster'[OidcIngKey(n)] # None
    BY <2>3, <2>4, ObjNotNone DEF Holds
  <2>5. /\ cluster'[ReleaseKey(n)] =
             [owner |-> None,
              data |-> [creds |-> cluster'[OidcSecretKey(n, c.issuer)].data, cfg |-> c]]
        /\ cluster'[OidcIngKey(n)] # None
        /\ cluster'[OidcIngKey(n)].owner = n
        /\ cluster'[OidcIngKey(n)].data.tls = cluster'[IngKey(n)].data.tls
    BY <1>6, <2>1, <2>2, <2>3, <2>4, <2>6 DEF Holds
  <2> QED BY <1>4, <1>6, <2>1, <2>5 DEF Published, Holds
<1>5. CASE ~OidcEnabled(c)
  <2>0. StepDone(n, t, "deleteOidcIngress")' /\ StepDone(n, t, "uninstallOidc")'
    BY <1>5 DEF ReconcileCalls
  <2>1. cluster'[OidcIngKey(n)] = None /\ cluster'[ReleaseKey(n)] = None
    BY <2>0 DEF StepDone, RemoveKind
  <2> QED BY <1>5, <1>6, <2>1 DEF Published, Holds
<1> QED BY <1>4, <1>5

(* Together: an operation with all its calls returned leaves n as its    *)
(* configuration asks.                                                    *)
LEMMA DoneGood ==
    ASSUME TypeOK', Owners', NEW n \in Names, NEW t \in ReconcileTask \cup RemoveTask,
           \A s \in SetOf(Steps(t)) : StepDone(n, t, s)'
    PROVE  Good(n, t.cfg)'
<1>1. CASE t.op = "reconcile"
  <2>1. t.cfg \in Configs /\ SetOf(Steps(t)) = ReconcileCalls(t.cfg)
    BY <1>1, StepsOf
  <2>2. t.cfg # None  BY <2>1, NoneIsNoObject
  <2>3. Published(n, t.cfg)'  BY <2>1, ReconcileDoneGood
  <2> QED BY <2>2, <2>3 DEF Good
<1>2. CASE t.op # "reconcile"
  <2>1. t.cfg = None /\ SetOf(Steps(t)) = DOMAIN RemoveKind \cup {"uninstallOidc"}
    BY <1>2, StepsOf
  <2>2. Removed(n)'  BY <2>1, RemoveDoneGood
  <2> QED BY <2>1, <2>2 DEF Good
<1> QED BY <1>1, <1>2

-----------------------------------------------------------------------------
(* Convergence: a step of n's task keeps what holds of every other name. *)

NameInv(n) == Progress(n) /\ CredsHeld(n) /\ Settled(n) /\ Tracking(n)

LEMMA OtherTaskKept ==
    ASSUME TypeOK, NEW n \in Names, NEW m \in Names \ {n}, NameInv(m), FrameBy(n),
           tasks'[m] = tasks[m], (m \in failed') = (m \in failed),
           registry' = registry, events' = events, phase' = phase
    PROVE  NameInv(m)'
<1>0. m # None
  BY ConstantsAssumption
<1>1. \A k \in KeysOf(m) : cluster'[k] = cluster[k]
  BY DEF FrameBy
<1>2. \A k \in Keys : cluster'[k] # cluster[k] /\ cluster'[k] # None =>
                        cluster'[k].owner # m
  BY <1>0 DEF FrameBy
<1>3. \A c \in Configs : Published(m, c)' = Published(m, c)
  BY <1>1, PublishedKept
<1>4. Removed(m) => Removed(m)'
  <2>1. ReleaseKey(m) \in KeysOf(m)  BY DEF KeysOf
  <2> QED BY <1>1, <1>2, <2>1, RemovedKept
<1>5. Good(m, registry[m]) => Good(m, registry[m])'
  <2>1. registry[m] \in Configs \cup {None}  BY DEF TypeOK
  <2> QED BY <1>3, <1>4, <2>1 DEF Good
<1>6. Progress(m)'
  <2> SUFFICES ASSUME tasks[m] # None,
                      NEW j \in 1..(tasks[m].pc - 1)
               PROVE  StepDone(m, tasks[m], Steps(tasks[m])[j])'
    BY DEF Progress, NameInv
  <2> PICK t : t = tasks[m]  OBVIOUS
  <2> PICK s : s = Steps(t)[j]  OBVIOUS
  <2>1. t \in ReconcileTask \cup RemoveTask
    BY DEF TypeOK
  <2>2. j \in 1..Len(Steps(t)) /\ StepDone(m, t, s)
    BY DEF Progress, NameInv
  <2>3. s \in SetOf(Steps(t))  BY <2>1, <2>2, StepIn
  <2>4. StepDone(m, t, s)'
    <3>1. CASE s \in DOMAIN RemoveKind
      BY <2>2, <3>1, <1>2, RemoveDoneKept
    <3>2. CASE s \notin DOMAIN RemoveKind
      <4>1. s \in StepNames \ DOMAIN RemoveKind /\ StepKey(m, t.cfg, s) \in KeysOf(m)
        BY <2>1, <2>3, <3>2, CallKeyIn
      <4> QED BY <1>1, <2>2, <4>1, DoneKept
    <3> QED BY <3>1, <3>2
  <2> QED BY <2>4
<1>7. CredsHeld(m)'
  BY DEF CredsHeld, NameInv
<1>8. Settled(m)'
  BY <1>3, <1>4 DEF Settled, NameInv
<1>9. Tracking(m)'
  BY <1>5 DEF Tracking, Pending, NameInv
<1> QED BY <1>6, <1>7, <1>8, <1>9 DEF NameInv

-----------------------------------------------------------------------------
(* Convergence: a call of n's task that returns keeps what holds of n. *)

(* StepDone reads of a task only its configuration and credentials. *)
LEMMA StepDoneTask ==
    ASSUME NEW n, NEW t, NEW u, NEW s, u.cfg = t.cfg, u.creds = t.creds
    PROVE  /\ StepDone(n, u, s) = StepDone(n, t, s)
           /\ StepDone(n, u, s)' = StepDone(n, t, s)'
BY DEF StepDone

(* The calls of one _reconcile_service write distinct objects. *)
LEMMA StepKeysApart ==
    ASSUME NamesApart, NEW n \in Names, NEW c \in Configs,
           NEW s \in ReconcileCalls(c), NEW s2 \in ReconcileCalls(c), s # s2
    PROVE  StepKey(n, c, s) # StepKey(n, c, s2)
<1>1. c.issuer \in Issuers  BY ConstantsAssumption DEF ConfigType
<1>2. /\ IngKey(n) # OidcIngKey(n) /\ TlsKey(n) # CaKey(n)
      /\ OidcSecretKey(n, c.issuer) \notin {TlsKey(n), CaKey(n)}
  BY <1>1, KeysDistinct
<1> HIDE DEF NamesApart
<1>3. CASE OidcEnabled(c)
  BY <1>2, <1>3 DEF ReconcileCalls, StepKey, SvcKey, EpKey, IngKey, OidcIngKey,
     ReleaseKey, TlsKey, CaKey, OidcSecretKey
<1>4. CASE ~OidcEnabled(c)
  BY <1>2, <1>4 DEF ReconcileCalls, StepKey, SvcKey, EpKey, IngKey, OidcIngKey,
     ReleaseKey, TlsKey, CaKey, OidcSecretKey
<1> QED BY <1>3, <1>4

(* A call of _reconcile_service that changes only its own object keeps  *)
(* what the other calls of the task left behind.                         *)
LEMMA ReconcileCallKept ==
    ASSUME TypeOK, NamesApart, NEW n \in Names, NEW t \in ReconcileTask,
           NEW s \in SetOf(Steps(t)),
           \A k \in Keys : k # StepKey(n, t.cfg, s) => cluster'[k] = cluster[k]
    PROVE  \A s2 \in SetOf(Steps(t)) \ {s} : StepDone(n, t, s2) => StepDone(n, t, s2)'
<1> SUFFICES ASSUME NEW s2 \in SetOf(Steps(t)) \ {s}, StepDone(n, t, s2)
             PROVE  StepDone(n, t, s2)'
  OBVIOUS
<1>1. t.cfg \in Configs /\ SetOf(Steps(t)) = ReconcileCalls(t.cfg)
  BY StepsOf DEF ReconcileTask
<1>2. s2 \notin DOMAIN RemoveKind
  BY <1>1 DEF ReconcileCalls, RemoveKind
<1>3. s2 \in StepNames \ DOMAIN RemoveKind /\ StepKey(n, t.cfg, s2) \in KeysOf(n)
  BY <1>2, CallKeyIn
<1>4. StepKey(n, t.cfg, s2) # StepKey(n, t.cfg, s)
  BY <1>1, StepKeysApart
<1>5. StepKey(n, t.cfg, s2) \in Keys  BY <1>3 DEF Keys
<1> QED BY <1>3, <1>4, <1>5, DoneKept

(* A call that only deletes keeps what the calls of _remove_service left. *)
LEMMA ShrinkKept ==
    ASSUME NEW n \in Names, NEW t,
           \A k \in Keys : cluster'[k] \in {cluster[k], None}
    PROVE  \A s2 \in DOMAIN RemoveKind \cup {"uninstallOidc"} :
             StepDone(n, t, s2) => StepDone(n, t, s2)'
<1>1. ReleaseKey(n) \in Keys  BY DEF Keys, KeysOf
<1>2. \A kind : NoneOwned(kind, n) => NoneOwned(kind, n)'
  BY DEF NoneOwned
<1> QED BY <1>1, <1>2 DEF StepDone, RemoveKind

LEMMA AdvanceKept ==
    ASSUME ConvIInv, TypeOK', Owners', NEW n \in Names,
           NEW t, t = tasks[n], t # None, NEW s, s = Steps(t)[t.pc],
           StepDone(n, t, s)',
           \A s2 \in SetOf(Steps(t)) \ {s} : StepDone(n, t, s2) => StepDone(n, t, s2)',
           Advance(n), registry' = registry, events' = events, phase' = phase
    PROVE  NameInv(n)'
<1>0. /\ t \in ReconcileTask \cup RemoveTask
      /\ t.pc \in 1..Len(Steps(t))
      /\ \A j \in 1..(t.pc - 1) : StepDone(n, t, Steps(t)[j])
  BY DEF ConvIInv, TypeOK, Progress
<1>1. \A j \in 1..t.pc : StepDone(n, t, Steps(t)[j])'
  <2> SUFFICES ASSUME NEW j \in 1..t.pc PROVE StepDone(n, t, Steps(t)[j])'
    OBVIOUS
  <2>1. Steps(t)[j] \in SetOf(Steps(t))  BY <1>0, StepIn
  <2>2. CASE j = t.pc  BY <2>2
  <2>3. CASE j # t.pc
    <3>1. CASE Steps(t)[j] = s  BY <3>1
    <3>2. CASE Steps(t)[j] # s  BY <1>0, <2>1, <2>3, <3>2
    <3> QED BY <3>1, <3>2
  <2> QED BY <2>2, <2>3
<1>2. Pending(n)' <=> Pending(n)
  BY DEF Pending
<1>3. CASE t.pc = Len(Steps(t))
  <2>1. tasks'[n] = None /\ n \notin failed'
    BY <1>3 DEF Advance, ConvIInv, TypeOK
  <2>2. Good(n, t.cfg)'
    <3>1. \A s2 \in SetOf(Steps(t)) : StepDone(n, t, s2)'
      BY <1>1, <1>3 DEF SetOf
    <3> QED BY <1>0, <3>1, DoneGood
  <2>3. Settled(n)'
    <3>1. t.cfg \in Configs \cup {None}  BY <1>0 DEF ReconcileTask, RemoveTask
    <3> QED BY <2>2, <3>1 DEF Settled, Good
  <2>4. Tracking(n)'
    <3> SUFFICES ASSUME phase' # "init", ~Pending(n)' PROVE Good(n, registry[n])'
      BY <2>1 DEF Tracking
    <3>1. registry'[n] = t.cfg  BY <1>2 DEF ConvIInv, Tracking
    <3> QED BY <2>2, <3>1
  <2> QED BY <2>1, <2>3, <2>4 DEF NameInv, Progress, CredsHeld
<1>4. CASE t.pc # Len(Steps(t))
  <2> PICK u : u = tasks'[n]  OBVIOUS
  <2>1. u = [t EXCEPT !.pc = t.pc + 1] /\ failed' = failed
    BY <1>4 DEF Advance, ConvIInv, TypeOK
  <2>2. /\ u # None /\ u.cfg = t.cfg /\ u.creds = t.creds /\ u.op = t.op
        /\ u.pc = t.pc + 1 /\ Steps(u) = Steps(t)
    BY <1>0, <2>1, NoneIsNoObject DEF Steps, ReconcileTask, RemoveTask
  <2>3. Progress(n)'
    <3>1. u.pc \in 1..Len(Steps(u))  BY <1>0, <1>4, <2>2, StepsOf
    <3>2. \A j \in 1..(u.pc - 1) : StepDone(n, u, Steps(u)[j])'
      <4> SUFFICES ASSUME NEW j \in 1..t.pc PROVE StepDone(n, u, Steps(t)[j])'
        BY <1>0, <2>2
      <4>1. StepDone(n, u, Steps(t)[j])' = StepDone(n, t, Steps(t)[j])'
        BY <2>2, StepDoneTask
      <4> QED BY <1>1, <4>1
    <3> QED BY <3>1, <3>2 DEF Progress
  <2>4. CredsHeld(n)'
    <3>1. u.op = "reconcile" /\ OidcEnabled(u.cfg) /\ u.pc > OidcAt(u.cfg)
          => u.creds # None
      <4> SUFFICES ASSUME t.op = "reconcile", OidcEnabled(t.cfg), t.pc + 1 > OidcAt(t.cfg)
                   PROVE  t.creds # None
        BY <2>2
      <4>1. CASE t.pc > OidcAt(t.cfg)
        BY <4>1 DEF ConvIInv, CredsHeld
      <4>2. CASE t.pc <= OidcAt(t.cfg)
        <5>1. Steps(t) = ReconcileSteps(t.cfg)  BY DEF Steps
        <5>2. OidcAt(t.cfg) \in 1..Len(Steps(t))
              /\ Steps(t)[OidcAt(t.cfg)] = "oidcSecret"
          BY <5>1, OidcOrder
        <5>3. t.pc = OidcAt(t.cfg)  BY <1>0, <4>2, <5>2
        <5>4. s = "oidcSecret"  BY <5>2, <5>3
        <5> QED BY <5>4 DEF StepDone, RemoveKind
      <4> QED BY <1>0, <4>1, <4>2 DEF OidcAt
    <3>2. u.creds # None /\ u.cfg.clientId # None => u.creds.client = u.cfg.clientId
      BY <2>2 DEF ConvIInv, CredsHeld
    <3> QED BY <2>2, <3>1, <3>2 DEF CredsHeld
  <2>5. Settled(n)'  BY <2>2 DEF Settled
  <2>6. Tracking(n)'
    <3> SUFFICES ASSUME phase' # "init", ~Pending(n)' PROVE u.cfg = registry'[n]
      BY <2>1, <2>2 DEF Tracking
    <3> QED BY <1>2, <2>2 DEF ConvIInv, Tracking
  <2> QED BY <2>3, <2>4, <2>5, <2>6 DEF NameInv
<1> QED BY <1>3, <1>4

(* The current call of n's task, as a set member. *)
LEMMA CurrentCall ==
    ASSUME ConvIInv, NEW n \in Names, NEW t, t = tasks[n], t # None
    PROVE  /\ t \in ReconcileTask \cup RemoveTask
           /\ t.pc \in 1..Len(Steps(t))
           /\ Steps(t)[t.pc] \in SetOf(Steps(t))
<1>1. t \in ReconcileTask \cup RemoveTask /\ t.pc \in 1..Len(Steps(t))
  BY DEF ConvIInv, TypeOK, Progress
<1> QED BY <1>1, StepIn

(* A call of _reconcile_service that wrote its own object and returned. *)
LEMMA PutCall ==
    ASSUME ConvIInv, TypeOK', Owners', NamesApart, NEW n \in Names,
           NEW t, t = tasks[n], t # None, t.op = "reconcile",
           NEW s, s = Steps(t)[t.pc],
           \A k \in Keys : k # StepKey(n, t.cfg, s) => cluster'[k] = cluster[k],
           StepDone(n, t, s)', Advance(n),
           registry' = registry, events' = events, phase' = phase
    PROVE  NameInv(n)'
<1>1. t \in ReconcileTask /\ s \in SetOf(Steps(t))
  BY CurrentCall DEF RemoveTask
<1>2. \A s2 \in SetOf(Steps(t)) \ {s} : StepDone(n, t, s2) => StepDone(n, t, s2)'
  BY <1>1, ReconcileCallKept DEF ConvIInv
<1> QED BY <1>2, AdvanceKept

(* A call of _remove_service that deleted and returned. *)
LEMMA DeleteCall ==
    ASSUME ConvIInv, TypeOK', Owners', NEW n \in Names,
           NEW t, t = tasks[n], t # None, t.op # "reconcile",
           NEW s, s = Steps(t)[t.pc],
           \A k \in Keys : cluster'[k] \in {cluster[k], None},
           StepDone(n, t, s)', Advance(n),
           registry' = registry, events' = events, phase' = phase
    PROVE  NameInv(n)'
<1>1. SetOf(Steps(t)) = DOMAIN RemoveKind \cup {"uninstallOidc"}
  BY CurrentCall, StepsOf
<1>2. \A s2 \in SetOf(Steps(t)) \ {s} : StepDone(n, t, s2) => StepDone(n, t, s2)'
  BY <1>1, ShrinkKept
<1> QED BY <1>2, AdvanceKept

(* A write of _reconcile_service at the object of its call. *)
LEMMA PutStep ==
    ASSUME ConvIInv, TypeOK', Owners', NamesApart, NEW n \in Names,
           NEW t, t = tasks[n], NEW x, ReconcileAt(n, x), NEW o, NEW d,
           StepKey(n, t.cfg, x) \in Keys, Put(StepKey(n, t.cfg, x), o, d),
           StepDone(n, t, x)', Advance(n), UNCHANGED TaskVars
    PROVE  NameInv(n)'
<1>1. t # None /\ t.op = "reconcile" /\ x = Steps(t)[t.pc]
  BY DEF ReconcileAt, At
<1>2. \A k \in Keys : k # StepKey(n, t.cfg, x) => cluster'[k] = cluster[k]
  BY DEF Put, ConvIInv, TypeOK
<1> QED BY <1>1, <1>2, PutCall DEF TaskVars

(* The writes of _reconcile_service keep what holds of n. *)
LEMMA OwnWrites ==
    ASSUME ConvIInv, TypeOK', Owners', NamesApart, NEW n \in Names,
           \/ WriteService(n) \/ WriteEndpoints(n) \/ WriteTlsSecret(n)
           \/ WriteCaSecret(n) \/ WriteOidcIngress(n) \/ WriteIngress(n)
    PROVE  NameInv(n)'
<1> PICK t : t = tasks[n]  OBVIOUS
<1>0. /\ SvcKey(n) \in Keys /\ EpKey(n) \in Keys /\ TlsKey(n) \in Keys
      /\ CaKey(n) \in Keys /\ OidcIngKey(n) \in Keys /\ IngKey(n) \in Keys
  BY DEF Keys, KeysOf
<1>1. CASE WriteService(n)
  <2>1. StepDone(n, t, "service")'
    BY <1>0, <1>1 DEF WriteService, Put, StepDone, RemoveKind, Holds, ConvIInv, TypeOK
  <2> QED BY <1>0, <1>1, <2>1, PutStep DEF WriteService, StepKey
<1>2. CASE WriteEndpoints(n)
  <2>1. StepDone(n, t, "endpoints")'
    BY <1>0, <1>2 DEF WriteEndpoints, Put, StepDone, RemoveKind, Holds, ConvIInv, TypeOK
  <2> QED BY <1>0, <1>2, <2>1, PutStep DEF WriteEndpoints, StepKey
<1>3. CASE WriteTlsSecret(n)
  <2>1. StepDone(n, t, "tlsSecret")'
    BY <1>0, <1>3 DEF WriteTlsSecret, Put, StepDone, RemoveKind, Holds, ConvIInv, TypeOK
  <2> QED BY <1>0, <1>3, <2>1, PutStep DEF WriteTlsSecret, StepKey
<1>4. CASE WriteCaSecret(n)
  <2>1. StepDone(n, t, "caSecret")'
    BY <1>0, <1>4 DEF WriteCaSecret, Put, StepDone, RemoveKind, Holds, ConvIInv, TypeOK
  <2> QED BY <1>0, <1>4, <2>1, PutStep DEF WriteCaSecret, StepKey
<1>5. CASE WriteOidcIngress(n)
  <2>1. StepDone(n, t, "oidcIngress")'
    BY <1>0, <1>5 DEF WriteOidcIngress, Put, StepDone, RemoveKind, Holds, ConvIInv, TypeOK
  <2> QED BY <1>0, <1>5, <2>1, PutStep DEF WriteOidcIngress, StepKey
<1>6. CASE WriteIngress(n)
  <2>1. StepDone(n, t, "ingress")'
    BY <1>0, <1>6 DEF WriteIngress, Put, StepDone, RemoveKind, Holds, ConvIInv, TypeOK
  <2> QED BY <1>0, <1>6, <2>1, PutStep DEF WriteIngress, StepKey
<1> QED BY <1>1, <1>2, <1>3, <1>4, <1>5, <1>6

(* The patch of _reconcile_oidc_secret and the proxy release keep what *)
(* holds of n.                                                          *)
LEMMA OwnOidc ==
    ASSUME ConvIInv, TypeOK', Owners', NamesApart, NEW n \in Names,
           PatchOidcSecret(n) \/ EnsureOidcRelease(n)
    PROVE  NameInv(n)'
<1> PICK t : t = tasks[n]  OBVIOUS
<1>0. t # None => t \in ReconcileTask \cup RemoveTask /\ t.pc \in 1..Len(Steps(t))
  BY DEF ConvIInv, TypeOK, Progress
<1>1. CASE PatchOidcSecret(n)
  <2>1. /\ t # None /\ t.op = "reconcile" /\ Steps(t)[t.pc] = "oidcSecret"
        /\ t.creds # None
    BY <1>1 DEF PatchOidcSecret, ReconcileAt, At
  <2> DEFINE k == OidcSecretKey(n, t.cfg.issuer)
  <2>2. /\ t \in ReconcileTask /\ t.cfg \in Configs /\ t.creds \in Creds
        /\ k \in Keys /\ k = StepKey(n, t.cfg, "oidcSecret")
    BY <1>0, <2>1, ConstantsAssumption DEF RemoveTask, ReconcileTask, ConfigType, Keys,
       KeysOf, StepKey
  <2>3. t.cfg.clientId # None => t.creds.client = t.cfg.clientId
    BY <2>1 DEF ConvIInv, CredsHeld
  <2>4. /\ \A kk \in Keys : kk # k => cluster'[kk] = cluster[kk]
        /\ cluster'[k] # None /\ cluster'[k].data = t.creds
    <3>1. CASE cluster[k] # None /\ cluster[k].data = t.creds
      BY <1>1, <3>1 DEF PatchOidcSecret
    <3>2. CASE ~(cluster[k] # None /\ cluster[k].data = t.creds)
      <4> DEFINE o == [owner |-> IF cluster[k] = None THEN None ELSE cluster[k].owner,
                       data |-> t.creds]
      <4>1. cluster' = [cluster EXCEPT ![k] = o]
        BY <1>1, <3>2 DEF PatchOidcSecret
      <4>2. o.owner \in Names \cup {None} /\ t.creds \in Data
        BY <2>2 DEF ConvIInv, TypeOK, Obj, Data
      <4>3. o # None
        BY <4>2, ObjNotNone
      <4> QED BY <2>2, <4>1, <4>3 DEF ConvIInv, TypeOK
    <3> QED BY <3>1, <3>2
  <2>5. StepDone(n, t, "oidcSecret")'
    BY <2>1, <2>3, <2>4 DEF StepDone, RemoveKind
  <2>6. Advance(n) /\ registry' = registry /\ events' = events /\ phase' = phase
    BY <1>1 DEF PatchOidcSecret, TaskVars
  <2> QED BY <2>1, <2>2, <2>4, <2>5, <2>6, PutCall
<1>2. CASE EnsureOidcRelease(n)
  <2>1. /\ t # None /\ t.op = "reconcile" /\ Steps(t)[t.pc] = "oidcRelease"
    BY <1>2 DEF EnsureOidcRelease, ReconcileAt, At
  <2>2. t.creds # None
    <3>1. Steps(t) = ReconcileSteps(t.cfg) /\ t.cfg \in Configs
      BY <1>0, <2>1 DEF Steps, RemoveTask, ReconcileTask
    <3>2. OidcEnabled(t.cfg)
      <4>1. "oidcRelease" \in ReconcileCalls(t.cfg)
        BY <1>0, <2>1, <3>1, StepIn, ReconcileStepsSet
      <4> QED BY <4>1 DEF ReconcileCalls
    <3>3. t.pc > OidcAt(t.cfg)
      BY <1>0, <2>1, <3>1, <3>2, OidcOrder
    <3> QED BY <2>1, <3>2, <3>3 DEF ConvIInv, CredsHeld
  <2>3. ReleaseKey(n) \in Keys /\ StepKey(n, t.cfg, "oidcRelease") = ReleaseKey(n)
    BY DEF Keys, KeysOf, StepKey
  <2>4. StepDone(n, t, "oidcRelease")'
    BY <1>2, <2>2, <2>3 DEF EnsureOidcRelease, Put, StepDone, RemoveKind, Holds,
       ConvIInv, TypeOK
  <2> QED BY <1>2, <2>3, <2>4, PutStep DEF EnsureOidcRelease
<1> QED BY <1>1, <1>2

(* A delete by name, in _reconcile_service or _remove_service. *)
LEMMA DropStep ==
    ASSUME ConvIInv, TypeOK', Owners', NamesApart, NEW n \in Names,
           NEW t, t = tasks[n], NEW x, At(n, x), x \in {"deleteOidcIngress", "uninstallOidc"},
           StepKey(n, t.cfg, x) \in Keys, Drop(StepKey(n, t.cfg, x)),
           StepDone(n, t, x)', Advance(n), UNCHANGED TaskVars
    PROVE  NameInv(n)'
<1>1. t # None /\ x = Steps(t)[t.pc]
  BY DEF At
<1>2. CASE t.op = "reconcile"
  <2>1. \A k \in Keys : k # StepKey(n, t.cfg, x) => cluster'[k] = cluster[k]
    BY DEF Drop, ConvIInv, TypeOK
  <2> QED BY <1>1, <1>2, <2>1, PutCall DEF TaskVars
<1>3. CASE t.op # "reconcile"
  <2>1. \A k \in Keys : cluster'[k] \in {cluster[k], None}
    BY DEF Drop, ConvIInv, TypeOK
  <2> QED BY <1>1, <1>3, <2>1, DeleteCall DEF TaskVars
<1> QED BY <1>2, <1>3

(* The deletes of both operations keep what holds of n. *)
LEMMA OwnDeletes ==
    ASSUME ConvIInv, TypeOK', Owners', NamesApart, NEW n \in Names,
           \/ DeleteOidcIngress(n) \/ UninstallOidc(n)
           \/ DeleteIngresses(n) \/ DeleteEndpoints(n) \/ DeleteServices(n)
           \/ DeleteSecrets(n)
    PROVE  NameInv(n)'
<1> PICK t : t = tasks[n]  OBVIOUS
<1>0. /\ OidcIngKey(n) \in Keys /\ ReleaseKey(n) \in Keys
      /\ StepKey(n, t.cfg, "deleteOidcIngress") = OidcIngKey(n)
      /\ StepKey(n, t.cfg, "uninstallOidc") = ReleaseKey(n)
  BY DEF Keys, KeysOf, StepKey
<1>1. CASE DeleteOidcIngress(n)
  <2>1. StepDone(n, t, "deleteOidcIngress")'
    BY <1>0, <1>1 DEF DeleteOidcIngress, Drop, StepDone, RemoveKind, ConvIInv, TypeOK
  <2> QED BY <1>0, <1>1, <2>1, DropStep DEF DeleteOidcIngress
<1>2. CASE UninstallOidc(n)
  <2>1. StepDone(n, t, "uninstallOidc")'
    BY <1>0, <1>2 DEF UninstallOidc, Drop, StepDone, RemoveKind, ConvIInv, TypeOK
  <2> QED BY <1>0, <1>2, <2>1, DropStep DEF UninstallOidc
<1>3. ASSUME NEW x \in DOMAIN RemoveKind, At(n, x),
             cluster' = DeleteAllLabelled(RemoveKind[x], n), Advance(n), UNCHANGED TaskVars
      PROVE  NameInv(n)'
  <2>1. t # None /\ x = Steps(t)[t.pc]
    BY <1>3 DEF At
  <2>2. t.op # "reconcile"
    <3>1. x \in SetOf(Steps(t))  BY <2>1, CurrentCall
    <3>2. t.op = "reconcile" => SetOf(Steps(t)) = ReconcileCalls(t.cfg)
      BY <2>1, CurrentCall, StepsOf
    <3> QED BY <3>1, <3>2 DEF ReconcileCalls, RemoveKind
  <2>3. \A k \in Keys : cluster'[k] \in {cluster[k], None}
    BY <1>3 DEF DeleteAllLabelled
  <2>4. StepDone(n, t, x)'
    <3>1. StepDone(n, t, x)' = NoneOwned(RemoveKind[x], n)'
      BY DEF StepDone, RemoveKind
    <3>2. NoneOwned(RemoveKind[x], n)'
      BY <1>3 DEF NoneOwned, DeleteAllLabelled
    <3> QED BY <3>1, <3>2
  <2> QED BY <1>3, <2>1, <2>2, <2>3, <2>4, DeleteCall DEF TaskVars
<1>4. CASE DeleteIngresses(n)
  BY <1>3, <1>4 DEF DeleteIngresses, RemoveKind
<1>5. CASE DeleteEndpoints(n)
  BY <1>3, <1>5 DEF DeleteEndpoints, RemoveKind
<1>6. CASE DeleteServices(n)
  BY <1>3, <1>6 DEF DeleteServices, RemoveKind
<1>7. CASE DeleteSecrets(n)
  BY <1>3, <1>7 DEF DeleteSecrets, RemoveKind
<1> QED BY <1>1, <1>2, <1>4, <1>5, <1>6, <1>7

(* Before the credentials are computed, no call that reads them is done. *)
LEMMA StepDoneCreds ==
    ASSUME NEW n, NEW t, NEW u, NEW x, u.cfg = t.cfg, t.creds = None, StepDone(n, t, x)
    PROVE  StepDone(n, u, x)
<1>1. x \notin {"oidcSecret", "oidcRelease"}
  BY DEF StepDone, RemoveKind
<1> QED BY <1>1 DEF StepDone

(* _reconcile_oidc_secret up to the patch keeps what holds of n. *)
LEMMA OwnRegister ==
    ASSUME ConvIInv, NEW n \in Names, RegisterOidcClient(n)
    PROVE  NameInv(n)'
<1> PICK t : t = tasks[n]  OBVIOUS
<1> PICK u : u = tasks'[n]  OBVIOUS
<1>1. /\ t # None /\ t.op = "reconcile" /\ t.creds = None
      /\ t \in ReconcileTask /\ t.cfg \in Configs
      /\ t.pc \in 1..Len(Steps(t))
  BY DEF RegisterOidcClient, ReconcileAt, At, ConvIInv, TypeOK, Progress, RemoveTask,
     ReconcileTask
<1>2. PICK fresh \in Cookies, issued \in DynClientIds :
        u = [t EXCEPT !.creds = NextOidcData(cluster[OidcSecretKey(n, t.cfg.issuer)],
                                             t.cfg, fresh, issued)]
  BY DEF RegisterOidcClient, ConvIInv, TypeOK
<1> DEFINE nd == NextOidcData(cluster[OidcSecretKey(n, t.cfg.issuer)], t.cfg, fresh, issued)
<1>3. /\ nd \in Creds
      /\ t.cfg.clientId # None => nd.client = t.cfg.clientId
  <2>1. cluster[OidcSecretKey(n, t.cfg.issuer)] \in Obj \cup {None}
    <3>1. OidcSecretKey(n, t.cfg.issuer) \in Keys
      BY <1>1, ConstantsAssumption DEF ConfigType, Keys, KeysOf
    <3> QED BY <3>1 DEF ConvIInv, TypeOK
  <2>2. nd \in Creds  BY <1>1, <2>1, NextOidcDataTyped
  <2> QED BY <2>2 DEF NextOidcData
<1>4. /\ u.cfg = t.cfg /\ u.pc = t.pc /\ u.op = t.op /\ u.creds = nd
      /\ u \in ReconcileTask /\ u # None /\ Steps(u) = Steps(t)
  BY <1>1, <1>2, <1>3, NoneIsNoObject DEF ReconcileTask, Steps, Creds
<1>5. cluster' = cluster /\ failed' = failed /\ registry' = registry
      /\ events' = events /\ phase' = phase
  BY DEF RegisterOidcClient
<1>6. Progress(n)'
  <2> SUFFICES ASSUME NEW j \in 1..(t.pc - 1) PROVE StepDone(n, u, Steps(t)[j])'
    BY <1>1, <1>4 DEF Progress
  <2>1. StepDone(n, t, Steps(t)[j])  BY <1>1 DEF ConvIInv, Progress
  <2>2. StepDone(n, u, Steps(t)[j])  BY <1>1, <1>4, <2>1, StepDoneCreds
  <2> QED BY <1>5, <2>2 DEF StepDone, NoneOwned, Holds, Removed
<1>7. CredsHeld(n)'
  <2>1. nd # None  BY <1>3, NoneIsNoObject DEF Data
  <2> QED BY <1>3, <1>4, <2>1 DEF CredsHeld
<1>8. Settled(n)'  BY <1>4 DEF Settled
<1>9. Tracking(n)'
  BY <1>1, <1>4, <1>5 DEF ConvIInv, Tracking, Pending
<1> QED BY <1>6, <1>7, <1>8, <1>9 DEF NameInv

(* A failed call keeps what holds of n: a retry starts from the first    *)
(* call, giving up records n as failed.                                  *)
LEMMA OwnFail ==
    ASSUME ConvIInv, NEW n \in Names, Fail(n)
    PROVE  NameInv(n)'
<1> PICK t : t = tasks[n]  OBVIOUS
<1>1. t # None /\ t \in ReconcileTask \cup RemoveTask
  BY DEF Fail, ConvIInv, TypeOK
<1>2. registry' = registry /\ events' = events /\ phase' = phase
  BY DEF Fail, TaskVars
<1>3. CASE t.attempt = MaxAttempts
  <2>1. tasks'[n] = None /\ n \in failed'
    BY <1>3 DEF Fail, ConvIInv, TypeOK
  <2> QED BY <2>1 DEF NameInv, Progress, CredsHeld, Settled, Tracking
<1>4. CASE t.attempt # MaxAttempts
  <2> PICK u : u = tasks'[n]  OBVIOUS
  <2>1. u = [t EXCEPT !.pc = 1, !.attempt = NextAttempt(t.attempt), !.creds = None]
    BY <1>4, Zenon DEF Fail, ConvIInv, TypeOK
  <2>2. /\ u.cfg = t.cfg /\ u.op = t.op /\ u.pc = 1 /\ u.creds = None
        /\ Steps(u) = Steps(t) /\ u # None
    <3>1. u \in ReconcileTask \cup RemoveTask
      <4>1. NextAttempt(t.attempt) \in Attempts
        BY <1>1, ConstantsAssumption DEF NextAttempt, Attempts, ReconcileTask, RemoveTask
      <4>0. 1 \in Nat \ {0}  OBVIOUS
      <4>2. CASE t \in ReconcileTask
        BY <2>1, <4>0, <4>1, <4>2, Zenon DEF ReconcileTask
      <4>3. CASE t \in RemoveTask
        BY <2>1, <4>0, <4>1, <4>3, Zenon DEF RemoveTask
      <4> QED BY <1>1, <4>2, <4>3
    <3> QED BY <1>1, <2>1, <3>1, NoneIsNoObject, Zenon DEF Steps, ReconcileTask, RemoveTask
  <2>3. Progress(n)'
    BY <1>1, <2>2, StepsOf DEF Progress
  <2>4. CredsHeld(n)'
    BY <2>2 DEF CredsHeld, OidcAt
  <2>5. Settled(n)'  BY <2>2 DEF Settled
  <2>6. Tracking(n)'
    BY <1>1, <1>2, <2>2 DEF ConvIInv, Tracking, Pending
  <2> QED BY <2>3, <2>4, <2>5, <2>6 DEF NameInv
<1> QED BY <1>3, <1>4

(* A step of n's task changes no other task and no other name's failure. *)
LEMMA TaskFrame ==
    ASSUME TypeOK, NEW n \in Names, TaskStep(n)
    PROVE  /\ \A m \in Names \ {n} : tasks'[m] = tasks[m] /\ (m \in failed' <=> m \in failed)
           /\ registry' = registry /\ events' = events /\ phase' = phase
<1>1. ASSUME Advance(n), UNCHANGED TaskVars
      PROVE  \A m \in Names \ {n} : tasks'[m] = tasks[m] /\ (m \in failed' <=> m \in failed)
  BY <1>1 DEF Advance, TypeOK
<1>2. CASE RegisterOidcClient(n)
  BY <1>2 DEF RegisterOidcClient, TypeOK
<1>3. CASE Fail(n)
  BY <1>3 DEF Fail, TypeOK, TaskVars
<1>4. CASE ~RegisterOidcClient(n) /\ ~Fail(n)
  <2>1. Advance(n) /\ UNCHANGED TaskVars
    BY <1>4 DEF TaskStep, WriteService, WriteEndpoints, WriteTlsSecret, WriteCaSecret,
       PatchOidcSecret, EnsureOidcRelease, WriteOidcIngress, DeleteOidcIngress,
       UninstallOidc, WriteIngress, DeleteIngresses, DeleteEndpoints, DeleteServices,
       DeleteSecrets
  <2> QED BY <1>1, <2>1 DEF TaskVars
<1> QED BY <1>2, <1>3, <1>4

(* A step of a task keeps the invariant. *)
LEMMA TaskStepConv ==
    ASSUME ConvIInv, NamesApart, NEW n \in Names, TaskStep(n)
    PROVE  ConvIInv'
<1>1. TypeOK' /\ Owners' /\ FrameBy(n)
  <2>1. [Next]_vars  BY DEF Next, ReconcilerStep
  <2> QED BY <2>1, TypeStep, ScopedTask DEF ConvIInv
<1>2. /\ \A m \in Names \ {n} : tasks'[m] = tasks[m] /\ (m \in failed' <=> m \in failed)
      /\ registry' = registry /\ events' = events /\ phase' = phase
  BY TaskFrame DEF ConvIInv
<1>3. tasks[n] # None
  BY DEF TaskStep, WriteService, WriteEndpoints, WriteTlsSecret, WriteCaSecret,
     RegisterOidcClient, PatchOidcSecret, EnsureOidcRelease, WriteOidcIngress,
     DeleteOidcIngress, UninstallOidc, WriteIngress, DeleteIngresses, DeleteEndpoints,
     DeleteServices, DeleteSecrets, Fail, ReconcileAt, At
<1>4. Unsubscribed'
  BY <1>2, <1>3 DEF ConvIInv, Unsubscribed, Idle
<1>5. LastEventsCurrent'
  BY <1>2 DEF ConvIInv, LastEventsCurrent
<1>6. NameInv(n)'
  BY <1>1, OwnWrites, OwnOidc, OwnDeletes, OwnRegister, OwnFail DEF TaskStep
<1>7. ASSUME NEW m \in Names \ {n} PROVE NameInv(m)'
  <2>1. TypeOK /\ NameInv(m)  BY DEF ConvIInv, NameInv
  <2> QED BY <1>1, <1>2, <2>1, OtherTaskKept
<1> QED BY <1>1, <1>4, <1>5, <1>6, <1>7 DEF ConvIInv, NameInv

=============================================================================
