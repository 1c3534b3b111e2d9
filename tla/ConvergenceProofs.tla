-------------------------- MODULE ConvergenceProofs --------------------------
(***************************************************************************)
(* The proof that the reconciler keeps to its own objects (ScopedWrites), *)
(* for every instance whose derived object names do not collide, and the *)
(* invariant and lemmas on which the proof that it converges (Converged,  *)
(* in TaskStepProofs and ConvergedProofs) rests.                          *)
(*                                                                          *)
(* Neither property is inductive.  ConvIInv makes them so:               *)
(*  - Owners: an object under a name derived from n is labelled n or not  *)
(*    labelled at all, and a release is never labelled;                   *)
(*  - Unsubscribed: before the subscription no event and no task exists;  *)
(*  - LastEventsCurrent: the last pending event of a name carries the     *)
(*    registry's current value for it;                                     *)
(*  - Progress: the calls a task has made so far did what they do, and    *)
(*    its program counter is within its list of calls;                     *)
(*  - CredsHeld: a task past the OIDC secret call holds credentials, and *)
(*    they agree with an explicit client id, so the release call that      *)
(*    follows writes what the secret holds;                                *)
(*  - Settled: a name without a task whose last operation succeeded is     *)
(*    removed or published with some configuration;                        *)
(*  - Tracking: once no event for a name is pending, its task works        *)
(*    towards the registry's value, and without a task the name is         *)
(*    published or removed as the registry now has it.                     *)
(***************************************************************************)
EXTENDS ReconcilerProofs, SequenceTheorems

(* The object names _apply_tls, _apply_auth and _reconcile_oidc_secret    *)
(* derive from service names are apart from each other and from the      *)
(* service names themselves.  The code does not check this: a service     *)
(* named oidc-a takes the ingress name of a's /_oidc route (finding 1).   *)
NamesApart ==
    /\ SecretNamesApart
    /\ \A n, m \in Names : OidcName(n) = OidcName(m) => n = m
    /\ \A n, m \in Names : TlsName(n) = TlsName(m) => n = m
    /\ \A n, m \in Names : ClientCaName(n) = ClientCaName(m) => n = m
    /\ \A n, m \in Names : n # OidcName(m)
    /\ \A n, m \in Names : TlsName(n) # ClientCaName(m)

-----------------------------------------------------------------------------
(* Ownership. *)

Owners ==
    /\ \A n \in Names : \A k \in KeysOf(n) :
         cluster[k] # None => cluster[k].owner \in {n, None}
    /\ \A n \in Names :
         cluster[ReleaseKey(n)] # None => cluster[ReleaseKey(n)].owner = None

(* What a step of n's task may change, and the body of ScopedWrites. *)
ScopedBy(n) ==
    \A k \in Keys :
      cluster'[k] # cluster[k] => cluster[k] = None \/ cluster[k].owner \in {n, None}

ScopedStep == \A n \in Names : TaskStep(n) => ScopedBy(n)

(* A step of n's task leaves the objects under the names of every other   *)
(* service alone, and what it writes is labelled n or not labelled.       *)
FrameBy(n) ==
    /\ \A m \in Names \ {n} : \A k \in KeysOf(m) : cluster'[k] = cluster[k]
    /\ \A k \in Keys : cluster'[k] # cluster[k] /\ cluster'[k] # None =>
         cluster'[k].owner \in {n, None}

-----------------------------------------------------------------------------
(* What a call leaves behind once it has returned, for task t of n. *)

NoneOwned(kind, n) ==
    \A k \in Keys : k[1] = kind /\ cluster[k] # None => cluster[k].owner # n

RemoveKind == [deleteIngresses |-> "ingresses", deleteEndpoints |-> "endpoints",
               deleteServices |-> "services", deleteSecrets |-> "secrets"]

StepDone(n, t, s) ==
    LET c == t.cfg
        sec == cluster[OidcSecretKey(n, c.issuer)]
    IN CASE s = "service" -> Holds(SvcKey(n), n, [port |-> "dynamic"])
         [] s = "endpoints" -> Holds(EpKey(n), n, [eps |-> c.eps])
         [] s = "tlsSecret" -> Holds(TlsKey(n), n, [crt |-> c.cert])
         [] s = "caSecret" -> Holds(CaKey(n), n, [ca |-> c.ca])
         [] s = "oidcSecret" ->
              /\ t.creds # None /\ sec # None /\ sec.data = t.creds
              /\ c.clientId # None => t.creds.client = c.clientId
         [] s = "oidcRelease" ->
              /\ t.creds # None
              /\ Holds(ReleaseKey(n), None, [creds |-> t.creds, cfg |-> c])
         [] s = "oidcIngress" -> Holds(OidcIngKey(n), n, [tls |-> OidcIngressTls(n, c)])
         [] s = "deleteOidcIngress" -> cluster[OidcIngKey(n)] = None
         [] s = "uninstallOidc" -> cluster[ReleaseKey(n)] = None
         [] s = "ingress" -> Holds(IngKey(n), n, [cfg |-> c, tls |-> TlsSecretFor(n, c)])
         [] s \in DOMAIN RemoveKind -> NoneOwned(RemoveKind[s], n)
         [] OTHER -> FALSE

Progress(n) ==
    tasks[n] # None =>
      /\ tasks[n].pc \in 1..Len(Steps(tasks[n]))
      /\ \A j \in 1..(tasks[n].pc - 1) : StepDone(n, tasks[n], Steps(tasks[n])[j])

(* The index of the OIDC secret call in ReconcileSteps(c). *)
OidcAt(c) == 3 + (IF c.cert # None THEN 1 ELSE 0) + (IF c.ca # None THEN 1 ELSE 0)

(* The credentials a task holds agree with an explicit client id, and a   *)
(* task past the OIDC secret call holds them.                              *)
CredsHeld(n) ==
    tasks[n] # None =>
      /\ tasks[n].creds # None /\ tasks[n].cfg.clientId # None =>
           tasks[n].creds.client = tasks[n].cfg.clientId
      /\ tasks[n].op = "reconcile" /\ OidcEnabled(tasks[n].cfg)
         /\ tasks[n].pc > OidcAt(tasks[n].cfg) => tasks[n].creds # None

-----------------------------------------------------------------------------
(* Events and the registry. *)

Good(n, c) == IF c = None THEN Removed(n) ELSE Published(n, c)

Pending(n) == \E i \in 1..Len(events) : events[i].name = n

(* An event is the last of its name, and then carries the registry's     *)
(* value (None for a deletion), or a later one of that name follows.      *)
LastEventsCurrent ==
    \A i \in 1..Len(events) :
      \/ events[i].cfg = registry[events[i].name]
      \/ \E j \in (i + 1)..Len(events) : events[j].name = events[i].name

(* A name whose last operation succeeded is removed or published. *)
Settled(n) ==
    tasks[n] = None /\ n \notin failed =>
      Removed(n) \/ \E c \in Configs : Published(n, c)

Tracking(n) ==
    phase # "init" /\ ~Pending(n) =>
      /\ tasks[n] # None => tasks[n].cfg = registry[n]
      /\ tasks[n] = None /\ n \notin failed => Good(n, registry[n])

(* Before the subscription nothing is delivered and nothing runs. *)
Unsubscribed == phase = "init" => events = <<>> /\ Idle

ConvIInv ==
    /\ TypeOK
    /\ Owners
    /\ Unsubscribed
    /\ LastEventsCurrent
    /\ \A n \in Names : Progress(n) /\ CredsHeld(n) /\ Settled(n) /\ Tracking(n)

-----------------------------------------------------------------------------
(* Lemmas about the lists of calls. *)

(* The elements of a list. *)
SetOf(s) == {s[j] : j \in 1..Len(s)}

StepNames ==
    {"service", "endpoints", "tlsSecret", "caSecret", "oidcSecret",
     "oidcRelease", "oidcIngress", "deleteOidcIngress", "uninstallOidc",
     "ingress", "deleteIngresses", "deleteEndpoints", "deleteServices",
     "deleteSecrets"}

(* The elements of a concatenation are those of its two parts. *)
LEMMA ConcatSet ==
    ASSUME NEW s \in Seq(StepNames), NEW t \in Seq(StepNames)
    PROVE  /\ s \o t \in Seq(StepNames)
           /\ Len(s \o t) = Len(s) + Len(t)
           /\ SetOf(s \o t) = SetOf(s) \cup SetOf(t)
<1>1. /\ s \o t \in Seq(StepNames)
      /\ Len(s \o t) = Len(s) + Len(t)
      /\ \A i \in 1..Len(s) + Len(t) :
           (s \o t)[i] = IF i <= Len(s) THEN s[i] ELSE t[i - Len(s)]
  BY ConcatProperties
<1>2. SetOf(s \o t) \subseteq SetOf(s) \cup SetOf(t)
  BY <1>1 DEF SetOf
<1>3. SetOf(s) \subseteq SetOf(s \o t)
  BY <1>1 DEF SetOf
<1>4. SetOf(t) \subseteq SetOf(s \o t)
  <2> SUFFICES ASSUME NEW j \in 1..Len(t) PROVE t[j] \in SetOf(s \o t)
    BY DEF SetOf
  <2>1. (s \o t)[Len(s) + j] = t[j] /\ Len(s) + j \in 1..Len(s \o t)
    BY <1>1
  <2> QED BY <2>1 DEF SetOf
<1> QED BY <1>1, <1>2, <1>3, <1>4

(* The calls _reconcile_service makes for configuration c, as a set. *)
ReconcileCalls(c) ==
    {"service", "endpoints", "ingress"}
    \cup (IF c.cert # None THEN {"tlsSecret"} ELSE {})
    \cup (IF c.ca # None THEN {"caSecret"} ELSE {})
    \cup (IF OidcEnabled(c) THEN {"oidcSecret", "oidcRelease", "oidcIngress"}
                            ELSE {"deleteOidcIngress", "uninstallOidc"})

LEMMA ReconcileStepsSet ==
    ASSUME NEW c
    PROVE  /\ ReconcileSteps(c) \in Seq(StepNames)
           /\ Len(ReconcileSteps(c)) >= 1
           /\ SetOf(ReconcileSteps(c)) = ReconcileCalls(c)
<1> DEFINE head == <<"service", "endpoints">>
           tls == IF c.cert # None THEN <<"tlsSecret">> ELSE <<>>
           ca == IF c.ca # None THEN <<"caSecret">> ELSE <<>>
           auth == IF OidcEnabled(c) THEN <<"oidcSecret", "oidcRelease", "oidcIngress">>
                   ELSE <<"deleteOidcIngress", "uninstallOidc">>
           last == <<"ingress">>
<1> HIDE DEF head, tls, ca, auth, last
<1>1. /\ head \in Seq(StepNames) /\ Len(head) = 2
      /\ SetOf(head) = {"service", "endpoints"}
  BY DEF SetOf, StepNames, head
<1>2. tls \in Seq(StepNames) /\ SetOf(tls) = IF c.cert # None THEN {"tlsSecret"} ELSE {}
  <2>1. CASE c.cert # None  BY <2>1 DEF SetOf, StepNames, tls
  <2>2. CASE c.cert = None  BY <2>2 DEF SetOf, StepNames, tls
  <2> QED BY <2>1, <2>2
<1>3. ca \in Seq(StepNames) /\ SetOf(ca) = IF c.ca # None THEN {"caSecret"} ELSE {}
  <2>1. CASE c.ca # None  BY <2>1 DEF SetOf, StepNames, ca
  <2>2. CASE c.ca = None  BY <2>2 DEF SetOf, StepNames, ca
  <2> QED BY <2>1, <2>2
<1>4. /\ auth \in Seq(StepNames)
      /\ SetOf(auth) = IF OidcEnabled(c) THEN {"oidcSecret", "oidcRelease", "oidcIngress"}
                       ELSE {"deleteOidcIngress", "uninstallOidc"}
  <2>1. CASE OidcEnabled(c)  BY <2>1 DEF SetOf, StepNames, auth
  <2>2. CASE ~OidcEnabled(c)  BY <2>2 DEF SetOf, StepNames, auth
  <2> QED BY <2>1, <2>2
<1>5. last \in Seq(StepNames) /\ SetOf(last) = {"ingress"}
  BY DEF SetOf, StepNames, last
<1>6. ReconcileSteps(c) = head \o tls \o ca \o auth \o last
  BY DEF ReconcileSteps, head, tls, ca, auth, last
<1>7. /\ head \o tls \in Seq(StepNames) /\ Len(head \o tls) >= 2
      /\ SetOf(head \o tls) = SetOf(head) \cup SetOf(tls)
  BY <1>1, <1>2, ConcatSet
<1>8. /\ head \o tls \o ca \in Seq(StepNames)
      /\ Len(head \o tls \o ca) = Len(head \o tls) + Len(ca)
      /\ SetOf(head \o tls \o ca) = SetOf(head \o tls) \cup SetOf(ca)
  BY <1>3, <1>7, ConcatSet, Zenon
<1>9. /\ head \o tls \o ca \o auth \in Seq(StepNames)
      /\ Len(head \o tls \o ca \o auth) = Len(head \o tls \o ca) + Len(auth)
      /\ SetOf(head \o tls \o ca \o auth) = SetOf(head \o tls \o ca) \cup SetOf(auth)
  BY <1>4, <1>8, ConcatSet, Zenon
<1>10. /\ head \o tls \o ca \o auth \o last \in Seq(StepNames)
       /\ Len(head \o tls \o ca \o auth \o last) = Len(head \o tls \o ca \o auth) + Len(last)
       /\ SetOf(head \o tls \o ca \o auth \o last)
            = SetOf(head \o tls \o ca \o auth) \cup SetOf(last)
  BY <1>5, <1>9, ConcatSet, Zenon
<1>11. Len(head \o tls \o ca \o auth \o last) >= 1
  BY <1>3, <1>4, <1>5, <1>7, <1>8, <1>9, <1>10, LenProperties
<1> QED BY <1>1, <1>2, <1>3, <1>4, <1>5, <1>6, <1>7, <1>8, <1>9, <1>10, <1>11
      DEF ReconcileCalls

(* In an OIDC list of calls the secret call is at OidcAt(c) and the      *)
(* release call after it.                                                 *)
LEMMA OidcOrder ==
    ASSUME NEW c, OidcEnabled(c)
    PROVE  /\ OidcAt(c) \in 1..Len(ReconcileSteps(c))
           /\ ReconcileSteps(c)[OidcAt(c)] = "oidcSecret"
           /\ \A j \in 1..Len(ReconcileSteps(c)) :
                ReconcileSteps(c)[j] = "oidcRelease" => j > OidcAt(c)
<1> DEFINE pre == <<"service", "endpoints">>
                  \o (IF c.cert # None THEN <<"tlsSecret">> ELSE <<>>)
                  \o (IF c.ca # None THEN <<"caSecret">> ELSE <<>>)
           auth == <<"oidcSecret", "oidcRelease", "oidcIngress">>
           last == <<"ingress">>
<1>1. /\ pre \in Seq(StepNames) /\ Len(pre) = OidcAt(c) - 1
      /\ \A j \in 1..Len(pre) : pre[j] # "oidcRelease"
  <2>1. CASE c.cert # None /\ c.ca # None
    BY <2>1 DEF OidcAt, StepNames
  <2>2. CASE c.cert # None /\ c.ca = None
    BY <2>2 DEF OidcAt, StepNames
  <2>3. CASE c.cert = None /\ c.ca # None
    BY <2>3 DEF OidcAt, StepNames
  <2>4. CASE c.cert = None /\ c.ca = None
    BY <2>4 DEF OidcAt, StepNames
  <2> QED BY <2>1, <2>2, <2>3, <2>4
<1>2. /\ auth \in Seq(StepNames) /\ Len(auth) = 3
      /\ auth[1] = "oidcSecret" /\ auth[3] # "oidcRelease"
      /\ last \in Seq(StepNames) /\ Len(last) = 1 /\ last[1] # "oidcRelease"
  BY DEF StepNames
<1>3. ReconcileSteps(c) = (pre \o auth) \o last
  BY DEF ReconcileSteps
<1> HIDE DEF pre, auth, last
<1>4. /\ pre \o auth \in Seq(StepNames)
      /\ Len(pre \o auth) = Len(pre) + Len(auth)
      /\ \A i \in 1..Len(pre) + Len(auth) :
           (pre \o auth)[i] = IF i <= Len(pre) THEN pre[i] ELSE auth[i - Len(pre)]
  <2>1. pre \in Seq(StepNames) /\ auth \in Seq(StepNames)
    BY <1>1, <1>2
  <2> QED BY <2>1, ConcatProperties
<1>5. /\ Len((pre \o auth) \o last) = Len(pre \o auth) + Len(last)
      /\ \A i \in 1..Len(pre \o auth) + Len(last) :
           ((pre \o auth) \o last)[i] =
             IF i <= Len(pre \o auth) THEN (pre \o auth)[i] ELSE last[i - Len(pre \o auth)]
  <2>1. pre \o auth \in Seq(StepNames) /\ last \in Seq(StepNames)
    BY <1>2, <1>4
  <2> QED BY <2>1, ConcatProperties
<1>6. /\ OidcAt(c) \in 3..5
      /\ Len(pre \o auth) = OidcAt(c) + 2
      /\ Len(ReconcileSteps(c)) = OidcAt(c) + 3
  <2>1. OidcAt(c) \in 3..5
    BY DEF OidcAt
  <2> QED BY <2>1, <1>1, <1>2, <1>3, <1>4, <1>5
<1>7. ReconcileSteps(c)[OidcAt(c)] = (pre \o auth)[OidcAt(c)]
  BY <1>3, <1>5, <1>6
<1>8. ReconcileSteps(c)[OidcAt(c)] = "oidcSecret"
  <2>1. (pre \o auth)[OidcAt(c)] = auth[1]
    BY <1>1, <1>2, <1>4, <1>6
  <2> QED BY <1>7, <2>1, <1>2
<1>9. \A j \in 1..Len(ReconcileSteps(c)) :
        ReconcileSteps(c)[j] = "oidcRelease" => j > OidcAt(c)
  <2> SUFFICES ASSUME NEW j \in 1..Len(ReconcileSteps(c)), j <= OidcAt(c)
               PROVE  ReconcileSteps(c)[j] # "oidcRelease"
    BY <1>6
  <2>1. ReconcileSteps(c)[j] = (pre \o auth)[j]
    BY <1>3, <1>5, <1>6
  <2>2. CASE j < OidcAt(c)
    <3>1. (pre \o auth)[j] = pre[j]
      BY <2>2, <1>1, <1>2, <1>4, <1>6
    <3> QED BY <2>1, <3>1, <2>2, <1>1, <1>6
  <2>3. CASE j = OidcAt(c)
    BY <2>3, <1>8
  <2> QED BY <2>2, <2>3, <1>6
<1> QED BY <1>6, <1>8, <1>9

LEMMA RemoveStepsSet ==
    /\ RemoveSteps \in Seq(StepNames)
    /\ Len(RemoveSteps) >= 1
    /\ SetOf(RemoveSteps) = DOMAIN RemoveKind \cup {"uninstallOidc"}
BY DEF RemoveSteps, SetOf, StepNames, RemoveKind

-----------------------------------------------------------------------------
(* What a call leaves behind stays when nothing it wrote is touched. *)

(* The object a call of _reconcile_service writes or deletes. *)
StepKey(n, c, s) ==
    CASE s = "service" -> SvcKey(n)
      [] s = "endpoints" -> EpKey(n)
      [] s = "tlsSecret" -> TlsKey(n)
      [] s = "caSecret" -> CaKey(n)
      [] s = "oidcSecret" -> OidcSecretKey(n, c.issuer)
      [] s \in {"oidcRelease", "uninstallOidc"} -> ReleaseKey(n)
      [] s \in {"oidcIngress", "deleteOidcIngress"} -> OidcIngKey(n)
      [] s = "ingress" -> IngKey(n)

LEMMA DoneKept ==
    ASSUME NEW n, NEW t, NEW s \in StepNames \ DOMAIN RemoveKind,
           StepDone(n, t, s),
           cluster'[StepKey(n, t.cfg, s)] = cluster[StepKey(n, t.cfg, s)]
    PROVE  StepDone(n, t, s)'
<1>1. CASE s = "service"  BY <1>1 DEF StepDone, StepKey, Holds
<1>2. CASE s = "endpoints"  BY <1>2 DEF StepDone, StepKey, Holds
<1>3. CASE s = "tlsSecret"  BY <1>3 DEF StepDone, StepKey, Holds
<1>4. CASE s = "caSecret"  BY <1>4 DEF StepDone, StepKey, Holds
<1>5. CASE s = "oidcSecret"  BY <1>5 DEF StepDone, StepKey
<1>6. CASE s = "oidcRelease"  BY <1>6 DEF StepDone, StepKey, Holds
<1>7. CASE s = "oidcIngress"  BY <1>7 DEF StepDone, StepKey, Holds
<1>8. CASE s = "deleteOidcIngress"  BY <1>8 DEF StepDone, StepKey
<1>9. CASE s = "uninstallOidc"  BY <1>9 DEF StepDone, StepKey
<1>10. CASE s = "ingress"  BY <1>10 DEF StepDone, StepKey, Holds
<1> QED BY <1>1, <1>2, <1>3, <1>4, <1>5, <1>6, <1>7, <1>8, <1>9, <1>10
        DEF StepNames, RemoveKind

(* A delete_all call leaves nothing labelled n as long as no object       *)
(* labelled n appears.                                                   *)
LEMMA RemoveDoneKept ==
    ASSUME NEW n, NEW t, NEW s \in DOMAIN RemoveKind, StepDone(n, t, s),
           \A k \in Keys : cluster'[k] # cluster[k] /\ cluster'[k] # None =>
                             cluster'[k].owner # n
    PROVE  StepDone(n, t, s)'
<1>1. StepDone(n, t, s) = NoneOwned(RemoveKind[s], n)
  BY DEF StepDone, RemoveKind
<1>2. StepDone(n, t, s)' = NoneOwned(RemoveKind[s], n)'
  BY DEF StepDone, RemoveKind
<1> QED BY <1>1, <1>2, Zenon DEF NoneOwned

(* Published reads only the objects under the names derived from m. *)
LEMMA PublishedKept ==
    ASSUME NEW m \in Names, NEW c \in Configs,
           \A k \in KeysOf(m) : cluster'[k] = cluster[k]
    PROVE  Published(m, c)' = Published(m, c)
<1>1. c.issuer \in Issuers
  BY ConstantsAssumption DEF ConfigType
<1>2. /\ cluster'[SvcKey(m)] = cluster[SvcKey(m)]
      /\ cluster'[EpKey(m)] = cluster[EpKey(m)]
      /\ cluster'[IngKey(m)] = cluster[IngKey(m)]
      /\ cluster'[OidcIngKey(m)] = cluster[OidcIngKey(m)]
      /\ cluster'[ReleaseKey(m)] = cluster[ReleaseKey(m)]
      /\ cluster'[TlsKey(m)] = cluster[TlsKey(m)]
      /\ cluster'[CaKey(m)] = cluster[CaKey(m)]
      /\ cluster'[OidcSecretKey(m, c.issuer)] = cluster[OidcSecretKey(m, c.issuer)]
  BY <1>1 DEF KeysOf
<1> QED BY <1>2 DEF Published, Holds

(* Removed stays while m's release stays and nothing labelled m appears. *)
LEMMA RemovedKept ==
    ASSUME NEW m, Removed(m),
           cluster'[ReleaseKey(m)] = cluster[ReleaseKey(m)],
           \A k \in Keys : cluster'[k] # cluster[k] /\ cluster'[k] # None =>
                             cluster'[k].owner # m
    PROVE  Removed(m)'
BY DEF Removed

-----------------------------------------------------------------------------
(* Lemmas about keys: under NamesApart each key belongs to one name, and  *)
(* the keys of one name are pairwise distinct.                             *)

LEMMA KeysDisjoint ==
    ASSUME NamesApart, NEW n \in Names, NEW m \in Names,
           NEW k \in KeysOf(n), k \in KeysOf(m)
    PROVE  n = m
<1> DEFINE Others(x) == {SvcKey(x), EpKey(x), IngKey(x), OidcIngKey(x), ReleaseKey(x),
                         TlsKey(x), CaKey(x)}
<1>1. \A x \in Names : KeysOf(x) = Others(x) \cup {OidcSecretKey(x, i) : i \in Issuers}
  BY DEF KeysOf
<1>2. CASE k \in {OidcSecretKey(n, i) : i \in Issuers}
  <2> PICK i \in Issuers : k = OidcSecretKey(n, i)  BY <1>2
  <2>1. CASE k \in {OidcSecretKey(m, j) : j \in Issuers}
    BY <2>1 DEF NamesApart, SecretNamesApart, OidcSecretKey
  <2>2. CASE k \in Others(m)
    BY <2>2 DEF NamesApart, SecretNamesApart, OidcSecretKey, SvcKey, EpKey, IngKey,
       OidcIngKey, ReleaseKey, TlsKey, CaKey
  <2> QED BY <1>1, <2>1, <2>2
<1>3. CASE k \in Others(n)
  <2>1. CASE k \in {OidcSecretKey(m, j) : j \in Issuers}
    BY <1>3, <2>1 DEF NamesApart, SecretNamesApart, OidcSecretKey, SvcKey, EpKey, IngKey,
       OidcIngKey, ReleaseKey, TlsKey, CaKey
  <2>2. CASE k \in Others(m)
    BY <1>3, <2>2 DEF NamesApart, SvcKey, EpKey, IngKey, OidcIngKey, ReleaseKey,
       TlsKey, CaKey
  <2> QED BY <1>1, <2>1, <2>2
<1> QED BY <1>1, <1>2, <1>3

(* The objects _reconcile_service writes for one name are distinct: those *)
(* of one kind differ by name, the others by kind.                        *)
LEMMA KeysDistinct ==
    ASSUME NamesApart, NEW n \in Names, NEW i \in Issuers
    PROVE  /\ IngKey(n) # OidcIngKey(n)
           /\ TlsKey(n) # CaKey(n)
           /\ OidcSecretKey(n, i) \notin {TlsKey(n), CaKey(n)}
BY DEF NamesApart, SecretNamesApart, TlsKey, CaKey, OidcSecretKey, OidcIngKey, IngKey

(* The calls of a task, as a set. *)
LEMMA StepsOf ==
    ASSUME NEW t \in ReconcileTask \cup RemoveTask
    PROVE  /\ Steps(t) \in Seq(StepNames)
           /\ Len(Steps(t)) >= 1
           /\ t.op = "reconcile" =>
                /\ t.cfg \in Configs
                /\ SetOf(Steps(t)) = ReconcileCalls(t.cfg)
           /\ t.op # "reconcile" =>
                /\ t.cfg = None /\ t.creds = None
                /\ SetOf(Steps(t)) = DOMAIN RemoveKind \cup {"uninstallOidc"}
<1>1. CASE t \in ReconcileTask
  BY <1>1, ReconcileStepsSet DEF Steps, ReconcileTask
<1>2. CASE t \in RemoveTask
  BY <1>2, RemoveStepsSet DEF Steps, RemoveTask
<1> QED BY <1>1, <1>2

(* The object a call writes is under the names derived from n. *)
LEMMA StepKeyIn ==
    ASSUME NEW n, NEW c, NEW s \in StepNames \ DOMAIN RemoveKind,
           s = "oidcSecret" => c.issuer \in Issuers
    PROVE  StepKey(n, c, s) \in KeysOf(n)
BY DEF StepKey, KeysOf, StepNames, RemoveKind

(* The j-th call of a task is one of its calls. *)
LEMMA StepIn ==
    ASSUME NEW t \in ReconcileTask \cup RemoveTask, NEW j \in 1..Len(Steps(t))
    PROVE  /\ Steps(t)[j] \in SetOf(Steps(t))
           /\ Steps(t)[j] \in StepNames
BY StepsOf DEF SetOf

(* A call of a task that is not a delete_all call writes an object under *)
(* the names derived from n.                                             *)
LEMMA CallKeyIn ==
    ASSUME NEW n, NEW t \in ReconcileTask \cup RemoveTask,
           NEW s \in SetOf(Steps(t)) \ DOMAIN RemoveKind
    PROVE  /\ s \in StepNames \ DOMAIN RemoveKind
           /\ StepKey(n, t.cfg, s) \in KeysOf(n)
<1>1. s \in StepNames  BY StepsOf DEF SetOf
<1>2. s = "oidcSecret" => t.cfg.issuer \in Issuers
  <2>1. CASE t.op = "reconcile"
    BY <2>1, StepsOf, ConstantsAssumption DEF ConfigType
  <2>2. CASE t.op # "reconcile"
    BY <2>2, StepsOf DEF RemoveKind
  <2> QED BY <2>1, <2>2
<1> QED BY <1>1, <1>2, StepKeyIn

-----------------------------------------------------------------------------
(* Ownership is kept, and a task step is scoped. *)

(* Writing one object under a name derived from n, labelled n or not     *)
(* labelled (and not labelled if it is the release).                     *)
LEMMA WriteScoped ==
    ASSUME TypeOK, Owners, NamesApart, NEW n \in Names, NEW k0 \in KeysOf(n), NEW o,
           cluster' = [cluster EXCEPT ![k0] = o],
           o = None \/ o.owner \in {n, None},
           k0 = ReleaseKey(n) => o = None \/ o.owner = None
    PROVE  Owners' /\ ScopedBy(n) /\ FrameBy(n)
<1>1. KeysOf(n) \subseteq Keys
  BY DEF Keys
<1>2. \A m \in Names : \A k \in KeysOf(m) :
        cluster'[k] # None => cluster'[k].owner \in {m, None}
  <2> SUFFICES ASSUME NEW m \in Names, NEW k \in KeysOf(m), cluster'[k] # None
               PROVE  cluster'[k].owner \in {m, None}
    OBVIOUS
  <2>1. CASE k = k0
    <3>1. m = n  BY <2>1, KeysDisjoint
    <3> QED BY <1>1, <2>1, <3>1 DEF TypeOK
  <2>2. CASE k # k0
    <3>1. k \in Keys  BY DEF Keys
    <3> QED BY <2>2, <3>1 DEF Owners, TypeOK
  <2> QED BY <2>1, <2>2
<1>3. \A m \in Names :
        cluster'[ReleaseKey(m)] # None => cluster'[ReleaseKey(m)].owner = None
  <2> SUFFICES ASSUME NEW m \in Names, cluster'[ReleaseKey(m)] # None
               PROVE  cluster'[ReleaseKey(m)].owner = None
    OBVIOUS
  <2>0. ReleaseKey(m) \in KeysOf(m) /\ ReleaseKey(m) \in Keys  BY DEF KeysOf, Keys
  <2>1. CASE ReleaseKey(m) = k0
    <3>1. m = n  BY <2>0, <2>1, KeysDisjoint
    <3> QED BY <1>1, <2>1, <3>1 DEF TypeOK
  <2>2. CASE ReleaseKey(m) # k0
    BY <2>0, <2>2 DEF Owners, TypeOK
  <2> QED BY <2>1, <2>2
<1>4. ScopedBy(n)
  <2> SUFFICES ASSUME NEW k \in Keys, cluster'[k] # cluster[k], cluster[k] # None
               PROVE  cluster[k].owner \in {n, None}
    BY DEF ScopedBy
  <2>1. k = k0  BY <1>1 DEF TypeOK
  <2> QED BY <2>1 DEF Owners
<1>5. FrameBy(n)
  <2>1. \A m \in Names \ {n} : \A k \in KeysOf(m) : k # k0
    BY KeysDisjoint
  <2>2. \A m \in Names : KeysOf(m) \subseteq Keys
    BY DEF Keys
  <2> QED BY <1>1, <2>1, <2>2 DEF FrameBy, TypeOK
<1> QED BY <1>2, <1>3, <1>4, <1>5 DEF Owners

(* easykube delete_all with the labels of n deletes only objects of n. *)
LEMMA DeleteScoped ==
    ASSUME TypeOK, Owners, NEW n \in Names, NEW kind,
           cluster' = DeleteAllLabelled(kind, n)
    PROVE  Owners' /\ ScopedBy(n) /\ FrameBy(n)
<1>1. \A k \in Keys : cluster'[k] = cluster[k] \/ cluster'[k] = None
  BY DEF DeleteAllLabelled
<1>2. \A m \in Names : KeysOf(m) \subseteq Keys /\ ReleaseKey(m) \in Keys
  BY DEF Keys, KeysOf
<1>3. ScopedBy(n)
  BY DEF ScopedBy, DeleteAllLabelled
<1>4. FrameBy(n)
  <2>1. None \notin Names
    BY ConstantsAssumption, Zenon
  <2> QED BY <1>1, <1>2, <2>1 DEF FrameBy, DeleteAllLabelled, Owners
<1> QED BY <1>1, <1>2, <1>3, <1>4 DEF Owners

(* Every call of n's task keeps ownership and touches only what it may. *)
LEMMA ScopedTask ==
    ASSUME TypeOK, Owners, NamesApart, NEW n \in Names, TaskStep(n)
    PROVE  Owners' /\ ScopedBy(n) /\ FrameBy(n)
<1>1. ASSUME NEW k0 \in KeysOf(n), NEW o \in {n, None}, NEW d, Put(k0, o, d),
             k0 = ReleaseKey(n) => o = None
      PROVE  Owners' /\ ScopedBy(n) /\ FrameBy(n)
  BY <1>1, WriteScoped, Zenon DEF Put
<1>2. ASSUME NEW k0 \in KeysOf(n), Drop(k0) PROVE Owners' /\ ScopedBy(n) /\ FrameBy(n)
  BY <1>2, WriteScoped, Zenon DEF Drop
<1>3. ASSUME UNCHANGED cluster PROVE Owners' /\ ScopedBy(n) /\ FrameBy(n)
  BY <1>3 DEF Owners, ScopedBy, FrameBy
<1>4. ASSUME NEW kind, cluster' = DeleteAllLabelled(kind, n)
      PROVE  Owners' /\ ScopedBy(n) /\ FrameBy(n)
  BY <1>4, DeleteScoped
<1>5. /\ SvcKey(n) \in KeysOf(n) /\ EpKey(n) \in KeysOf(n) /\ IngKey(n) \in KeysOf(n)
      /\ OidcIngKey(n) \in KeysOf(n) /\ ReleaseKey(n) \in KeysOf(n)
      /\ TlsKey(n) \in KeysOf(n) /\ CaKey(n) \in KeysOf(n)
      /\ \A i \in Issuers : OidcSecretKey(n, i) \in KeysOf(n)
  BY DEF KeysOf
<1>6. /\ SvcKey(n) # ReleaseKey(n) /\ EpKey(n) # ReleaseKey(n)
      /\ IngKey(n) # ReleaseKey(n) /\ OidcIngKey(n) # ReleaseKey(n)
      /\ TlsKey(n) # ReleaseKey(n) /\ CaKey(n) # ReleaseKey(n)
  BY DEF SvcKey, EpKey, IngKey, OidcIngKey, ReleaseKey, TlsKey, CaKey
<1>7. CASE WriteService(n)   BY <1>1, <1>5, <1>6, <1>7 DEF WriteService
<1>8. CASE WriteEndpoints(n) BY <1>1, <1>5, <1>6, <1>8 DEF WriteEndpoints
<1>9. CASE WriteTlsSecret(n) BY <1>1, <1>5, <1>6, <1>9 DEF WriteTlsSecret
<1>10. CASE WriteCaSecret(n) BY <1>1, <1>5, <1>6, <1>10 DEF WriteCaSecret
<1>11. CASE RegisterOidcClient(n) BY <1>3, <1>11 DEF RegisterOidcClient
<1>12. CASE PatchOidcSecret(n)
  <2> DEFINE k == OidcSecretKey(n, tasks[n].cfg.issuer)
  <2>1. tasks[n].cfg \in ConfigType
    BY <1>12, ReconcileAtTask DEF PatchOidcSecret
  <2>2. k \in KeysOf(n) /\ k \in Keys /\ k # ReleaseKey(n)
    BY <1>5, <2>1 DEF ConfigType, Keys, OidcSecretKey, ReleaseKey
  <2>3. CASE cluster[k] # None /\ cluster[k].data = tasks[n].creds
    BY <1>3, <1>12, <2>3 DEF PatchOidcSecret
  <2>4. CASE ~(cluster[k] # None /\ cluster[k].data = tasks[n].creds)
    <3> DEFINE o == [owner |-> IF cluster[k] = None THEN None ELSE cluster[k].owner,
                     data |-> tasks[n].creds]
    <3>1. cluster' = [cluster EXCEPT ![k] = o]
      BY <1>12, <2>4 DEF PatchOidcSecret
    <3>2. o.owner \in {n, None}
      BY <2>2 DEF Owners
    <3> QED BY <2>2, <3>1, <3>2, WriteScoped, Zenon
  <2> QED BY <2>3, <2>4
<1>13. CASE EnsureOidcRelease(n) BY <1>1, <1>5, <1>13 DEF EnsureOidcRelease
<1>14. CASE WriteOidcIngress(n) BY <1>1, <1>5, <1>6, <1>14 DEF WriteOidcIngress
<1>15. CASE DeleteOidcIngress(n) BY <1>2, <1>5, <1>15 DEF DeleteOidcIngress
<1>16. CASE UninstallOidc(n) BY <1>2, <1>5, <1>16 DEF UninstallOidc
<1>17. CASE WriteIngress(n) BY <1>1, <1>5, <1>6, <1>17 DEF WriteIngress
<1>18. CASE DeleteIngresses(n) BY <1>4, <1>18 DEF DeleteIngresses
<1>19. CASE DeleteEndpoints(n) BY <1>4, <1>19 DEF DeleteEndpoints
<1>20. CASE DeleteServices(n) BY <1>4, <1>20 DEF DeleteServices
<1>21. CASE DeleteSecrets(n) BY <1>4, <1>21 DEF DeleteSecrets
<1>22. CASE Fail(n) BY <1>3, <1>22 DEF Fail
<1> QED BY <1>7, <1>8, <1>9, <1>10, <1>11, <1>12, <1>13, <1>14, <1>15, <1>16,
           <1>17, <1>18, <1>19, <1>20, <1>21, <1>22 DEF TaskStep

(* Every step keeps ownership; a step of a task is scoped. *)
LEMMA OwnersStep ==
    ASSUME NamesApart, TypeOK, Owners, [Next]_vars
    PROVE  Owners' /\ ScopedStep
<1>1. ScopedStep
  BY ScopedTask DEF ScopedStep
<1>2. ASSUME \E n \in Names : TaskStep(n) PROVE Owners'
  <2> PICK n \in Names : TaskStep(n)  BY <1>2
  <2> QED BY ScopedTask
<1>3. ASSUME ~\E n \in Names : TaskStep(n) PROVE Owners'
  <2>1. cluster' = cluster
    BY <1>3, Zenon DEF Next, ReconcilerStep, Source, Register, Deregister, Subscribe,
       FinishSync, NextEvent, Restart, vars
  <2> QED BY <2>1 DEF Owners
<1> QED BY <1>1, <1>2, <1>3

LEMMA InitOwners == Init => TypeOK /\ Owners
<1> SUFFICES ASSUME Init PROVE TypeOK /\ Owners
  OBVIOUS
<1>1. TypeOK  BY ConstantsAssumption DEF Init, TypeOK
<1>2. \A n \in Names : KeysOf(n) \subseteq Keys /\ ReleaseKey(n) \in Keys
  BY DEF Keys, KeysOf
<1> QED BY <1>1, <1>2 DEF Init, Owners

(* Non-interference of the per-service calls (spec 5), in every instance  *)
(* whose derived object names are apart: no call _reconcile_service or    *)
(* _remove_service makes for n changes an object labelled for another     *)
(* service.  The name_collision run shows it fails without NamesApart.    *)
THEOREM ScopedWritesHolds ==
    ASSUME NamesApart PROVE Spec => ScopedWrites
<1>1. TypeOK /\ Owners /\ [Next]_vars => (TypeOK /\ Owners)' /\ ScopedStep
  BY OwnersStep, TypeStep
<1> QED BY InitOwners, <1>1, PTL DEF Spec, ScopedWrites, ScopedStep, ScopedBy

=============================================================================
