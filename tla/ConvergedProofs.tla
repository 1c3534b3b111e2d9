---------------------------- MODULE ConvergedProofs ----------------------------
(***************************************************************************)
(* Convergence of the reconciler (ConvergedHolds): the registration       *)
(* source, the subscription, the event loop and a restart keep ConvIInv,  *)
(* and ConvIInv gives Converged in every quiescent state.                 *)
(***************************************************************************)
EXTENDS TaskStepProofs

-----------------------------------------------------------------------------
(* Convergence: the registration source and the event loop. *)

(* A cluster left alone keeps every name's state. *)
LEMMA GoodKept ==
    ASSUME TypeOK, cluster' = cluster, NEW m \in Names
    PROVE  /\ \A c \in Configs : Published(m, c)' = Published(m, c)
           /\ Removed(m)' = Removed(m)
           /\ \A c \in Configs \cup {None} : Good(m, c)' = Good(m, c)
<1>1. \A c \in Configs : Published(m, c)' = Published(m, c)
  BY PublishedKept
<1>2. Removed(m)' = Removed(m)
  BY DEF Removed
<1> QED BY <1>1, <1>2 DEF Good

(* A step that changes neither the cluster nor m's task keeps Progress. *)
LEMMA ProgressKept ==
    ASSUME NEW m, cluster' = cluster, tasks'[m] = tasks[m], Progress(m)
    PROVE  Progress(m)'
<1> PICK t : t = tasks[m]  OBVIOUS
<1>1. \A x : StepDone(m, t, x)' = StepDone(m, t, x)
  BY DEF StepDone, NoneOwned, Holds
<1> QED BY <1>1 DEF Progress

(* A change of the registration of n0 to v, delivered as event e once    *)
(* subscribed.                                                            *)
LEMMA SourceConv ==
    ASSUME ConvIInv, TypeOK', NEW n0 \in Names, NEW v \in Configs \cup {None},
           NEW e \in Event, e.name = n0, e.cfg = v,
           registry' = [registry EXCEPT ![n0] = v],
           events' = IF phase = "init" THEN events ELSE Append(events, e),
           phase' = phase, tasks' = tasks, cluster' = cluster, failed' = failed
    PROVE  ConvIInv'
<1>1. Owners' /\ Unsubscribed'
  BY DEF ConvIInv, Owners, Unsubscribed, Idle
<1>2. LastEventsCurrent' /\ \A m \in Names : Tracking(m)'
  <2>1. CASE phase = "init"
    BY <2>1 DEF ConvIInv, Unsubscribed, LastEventsCurrent, Tracking
  <2>2. CASE phase # "init"
    <3>1. events \in Seq(Event)  BY DEF ConvIInv, TypeOK
    <3>2. /\ events' = Append(events, e)
          /\ Len(events') = Len(events) + 1
          /\ events'[Len(events) + 1] = e
          /\ \A i \in 1..Len(events) : events'[i] = events[i]
      BY <2>2, <3>1, AppendProperties
    <3>3. \A i \in 1..Len(events) : events[i].name \in Names
      BY <3>1 DEF Event
    <3>4. LastEventsCurrent'
      <4> SUFFICES ASSUME NEW i \in 1..Len(events')
                   PROVE  \/ events'[i].cfg = registry'[events'[i].name]
                          \/ \E j \in (i + 1)..Len(events') :
                               events'[j].name = events'[i].name
        BY DEF LastEventsCurrent
      <4>1. CASE i = Len(events) + 1
        BY <3>2, <4>1 DEF ConvIInv, TypeOK
      <4>2. CASE i \in 1..Len(events) /\ events[i].name = n0
        <5>1. Len(events) + 1 \in (i + 1)..Len(events')  BY <3>2, <4>2
        <5> QED BY <3>2, <4>2, <5>1
      <4>3. CASE i \in 1..Len(events) /\ events[i].name # n0
        <5>1. registry'[events[i].name] = registry[events[i].name]
          BY <3>3, <4>3 DEF ConvIInv, TypeOK
        <5>2. \/ events[i].cfg = registry[events[i].name]
              \/ \E j \in (i + 1)..Len(events) : events[j].name = events[i].name
          BY <4>3 DEF ConvIInv, LastEventsCurrent
        <5> QED BY <3>2, <4>3, <5>1, <5>2
      <4> QED BY <3>2, <4>1, <4>2, <4>3
    <3>5. \A m \in Names : Tracking(m)'
      <4> SUFFICES ASSUME NEW m \in Names, ~Pending(m)' PROVE Tracking(m)'
        BY DEF Tracking
      <4>1. m # n0
        BY <3>2 DEF Pending
      <4>2. ~Pending(m)
        BY <3>2 DEF Pending
      <4>3. registry'[m] = registry[m] /\ registry[m] \in Configs \cup {None}
        BY <4>1 DEF ConvIInv, TypeOK
      <4>4. Good(m, registry[m])' = Good(m, registry[m])
        BY <4>3, GoodKept DEF ConvIInv
      <4> QED BY <2>2, <4>2, <4>3, <4>4 DEF ConvIInv, Tracking
    <3> QED BY <3>4, <3>5
  <2> QED BY <2>1, <2>2
<1>3. \A m \in Names : Progress(m)' /\ CredsHeld(m)' /\ Settled(m)'
  <2> SUFFICES ASSUME NEW m \in Names PROVE Progress(m)' /\ CredsHeld(m)' /\ Settled(m)'
    OBVIOUS
  <2>1. Progress(m)'  BY ProgressKept DEF ConvIInv
  <2>2. CredsHeld(m)'  BY DEF ConvIInv, CredsHeld
  <2>3. Settled(m)'
    BY GoodKept DEF ConvIInv, Settled
  <2> QED BY <2>1, <2>2, <2>3
<1> QED BY <1>1, <1>2, <1>3 DEF ConvIInv

(* A task that has just started: at its first call, without credentials. *)
LEMMA FreshTask ==
    ASSUME NEW m, NEW op, NEW c,
           \/ op = "reconcile" /\ c \in Configs
           \/ op = "remove" /\ c = None,
           tasks'[m] = NewTask(op, c)
    PROVE  /\ tasks'[m] # None /\ tasks'[m].cfg = c
           /\ Progress(m)' /\ CredsHeld(m)'
<1>1. NewTask(op, c) \in ReconcileTask \cup RemoveTask
  <2>1. 1 \in Attempts /\ 1 \in Nat \ {0}  BY ConstantsAssumption DEF Attempts
  <2>2. CASE op = "reconcile" /\ c \in Configs
    <3>1. NewTask(op, c) \in ReconcileTask  BY <2>1, <2>2 DEF NewTask, ReconcileTask
    <3> QED BY <3>1
  <2>3. CASE op = "remove" /\ c = None
    <3>1. NewTask(op, c) \in RemoveTask  BY <2>1, <2>3 DEF NewTask, RemoveTask
    <3> QED BY <3>1
  <2> QED BY <2>2, <2>3
<1>2. NewTask(op, c) # None  BY <1>1, NoneIsNoObject
<1>3. Len(Steps(NewTask(op, c))) >= 1
  <2> PICK t \in ReconcileTask \cup RemoveTask : t = NewTask(op, c)  BY <1>1
  <2> QED BY StepsOf
<1> QED BY <1>2, <1>3 DEF NewTask, Progress, CredsHeld, OidcAt

(* Subscribing and listing starts the startup batch: a name with no task *)
(* in it is neither registered nor has a labelled service, so it is      *)
(* removed.                                                               *)
LEMMA SubscribeConv ==
    ASSUME ConvIInv, TypeOK', Subscribe
    PROVE  ConvIInv'
<1>1. events = <<>> /\ Idle /\ events' = <<>> /\ cluster' = cluster
      /\ failed' = failed /\ registry' = registry /\ phase' = "sync"
  BY DEF Subscribe, ConvIInv, Unsubscribed
<1>2. Owners' /\ Unsubscribed' /\ LastEventsCurrent'
  BY <1>1 DEF ConvIInv, Owners, Unsubscribed, LastEventsCurrent
<1>3. ASSUME NEW m \in Names PROVE NameInv(m)'
  <2>0. registry[m] \in Configs \cup {None} /\ tasks[m] = None
    BY <1>1 DEF ConvIInv, TypeOK, Idle
  <2>1. ~Pending(m)'  BY <1>1 DEF Pending
  <2>2. CASE registry[m] # None
    <3>1. tasks'[m] = NewTask("reconcile", registry[m])
      BY <2>2 DEF Subscribe
    <3>2. /\ tasks'[m] # None /\ tasks'[m].cfg = registry[m]
          /\ Progress(m)' /\ CredsHeld(m)'
      BY <2>0, <2>2, <3>1, FreshTask
    <3> QED BY <1>1, <3>2 DEF NameInv, Settled, Tracking
  <2>3. CASE registry[m] = None /\ m \in Existing
    <3>1. tasks'[m] = NewTask("remove", None)
      BY <2>3 DEF Subscribe
    <3>2. /\ tasks'[m] # None /\ tasks'[m].cfg = None
          /\ Progress(m)' /\ CredsHeld(m)'
      BY <3>1, FreshTask
    <3> QED BY <1>1, <2>3, <3>2 DEF NameInv, Settled, Tracking
  <2>4. CASE registry[m] = None /\ m \notin Existing
    <3>1. tasks'[m] = None  BY <2>4 DEF Subscribe
    <3>2. m \notin failed => Removed(m)
      <4> SUFFICES ASSUME m \notin failed, ~Removed(m) PROVE FALSE
        OBVIOUS
      <4>1. PICK c \in Configs : Published(m, c)
        BY <2>0 DEF ConvIInv, Settled
      <4>2. cluster[SvcKey(m)] = [owner |-> m, data |-> [port |-> "dynamic"]]
        BY <4>1 DEF Published, Holds
      <4>3. [owner |-> m, data |-> [port |-> "dynamic"]] # None
        <5>1. [port |-> "dynamic"] \in Data  BY DEF Data
        <5> QED BY <5>1, ObjNotNone
      <4>4. m # None  BY ConstantsAssumption, Zenon
      <4> QED BY <2>4, <4>2, <4>3, <4>4 DEF Existing
    <3>3. Removed(m)' = Removed(m) /\ Good(m, None)' = Removed(m)'
      BY <1>1, GoodKept DEF ConvIInv, Good
    <3> QED BY <1>1, <2>4, <3>1, <3>2, <3>3 DEF NameInv, Progress, CredsHeld, Settled,
               Tracking
  <2> QED BY <2>2, <2>3, <2>4
<1> QED BY <1>2, <1>3 DEF ConvIInv, NameInv

(* The end of the startup batch changes nothing the invariant reads but  *)
(* the phase, which stays past the subscription.                        *)
LEMMA FinishSyncConv ==
    ASSUME ConvIInv, TypeOK', FinishSync
    PROVE  ConvIInv'
<1>1. phase = "sync" /\ phase' = "steady"
      /\ UNCHANGED <<registry, events, tasks, cluster, failed>>
  BY DEF FinishSync
<1>2. \A m \in Names : Progress(m)'  BY <1>1, ProgressKept DEF ConvIInv
<1>3. ASSUME NEW m \in Names PROVE Settled(m)' /\ Tracking(m)'
  <2>1. registry[m] \in Configs \cup {None} /\ registry'[m] = registry[m]
    BY <1>1 DEF ConvIInv, TypeOK
  <2>2. Good(m, registry[m])' = Good(m, registry[m])
    BY <1>1, <2>1, GoodKept DEF ConvIInv
  <2>3. Removed(m)' = Removed(m) /\ \A c \in Configs : Published(m, c)' = Published(m, c)
    BY <1>1, GoodKept DEF ConvIInv
  <2> QED BY <1>1, <2>2, <2>3 DEF ConvIInv, Settled, Tracking, Pending
<1> QED BY <1>1, <1>2, <1>3 DEF ConvIInv, Owners, Unsubscribed, LastEventsCurrent,
           CredsHeld

(* Taking the next event starts the operation it asks for; when it was  *)
(* the last event of its name it carries the registry's current value.   *)
LEMMA NextEventConv ==
    ASSUME ConvIInv, TypeOK', NextEvent
    PROVE  ConvIInv'
<1> PICK e : e = Head(events)  OBVIOUS
<1>1. /\ phase = "steady" /\ Idle /\ events # <<>>
      /\ tasks' = [tasks EXCEPT ![e.name] =
                     IF e.kind = "deleted" THEN NewTask("remove", None)
                     ELSE NewTask("reconcile", e.cfg)]
      /\ events' = Tail(events)
      /\ UNCHANGED <<registry, phase, cluster, failed>>
  BY DEF NextEvent
<1>2. /\ events \in Seq(Event)
      /\ e \in Event /\ e = events[1]
      /\ Len(events') = Len(events) - 1
      /\ \A i \in 1..Len(events') : events'[i] = events[i + 1]
  <2>1. events \in Seq(Event)  BY DEF ConvIInv, TypeOK
  <2> QED BY <1>1, <2>1, HeadTailProperties
<1>3. e.name \in Names  BY <1>2 DEF Event
<1>4. Owners' /\ Unsubscribed'
  BY <1>1 DEF ConvIInv, Owners, Unsubscribed
<1>5. LastEventsCurrent'
  <2> SUFFICES ASSUME NEW i \in 1..Len(events')
               PROVE  \/ events'[i].cfg = registry'[events'[i].name]
                      \/ \E j \in (i + 1)..Len(events') : events'[j].name = events'[i].name
    BY DEF LastEventsCurrent
  <2>1. \/ events[i + 1].cfg = registry[events[i + 1].name]
        \/ \E j \in (i + 2)..Len(events) : events[j].name = events[i + 1].name
    <3>1. i + 1 \in 1..Len(events)  BY <1>2
    <3>2. LastEventsCurrent  BY DEF ConvIInv
    <3> QED BY <3>1, <3>2 DEF LastEventsCurrent
  <2>2. \A j \in (i + 2)..Len(events) : j - 1 \in (i + 1)..Len(events') /\ events'[j - 1] = events[j]
    BY <1>2
  <2> QED BY <1>1, <1>2, <2>1, <2>2
<1>6. ASSUME NEW m \in Names \ {e.name} PROVE NameInv(m)'
  <2>1. tasks'[m] = tasks[m]  BY <1>1 DEF ConvIInv, TypeOK
  <2>2. Pending(m)' <=> Pending(m)
    <3>1. Pending(m) => \E i \in 1..Len(events') : events'[i].name = m
      <4> SUFFICES ASSUME NEW i \in 1..Len(events), events[i].name = m
                   PROVE  \E i2 \in 1..Len(events') : events'[i2].name = m
        BY DEF Pending
      <4>1. i # 1  BY <1>2
      <4>2. i - 1 \in 1..Len(events') /\ events'[i - 1] = events[i]  BY <1>2, <4>1
      <4> QED BY <4>2
    <3>2. (\E i \in 1..Len(events') : events'[i].name = m) => Pending(m)
      <4> SUFFICES ASSUME NEW i \in 1..Len(events'), events'[i].name = m
                   PROVE  \E i2 \in 1..Len(events) : events[i2].name = m
        BY DEF Pending
      <4> QED BY <1>2
    <3> QED BY <3>1, <3>2 DEF Pending
  <2>3. registry[m] \in Configs \cup {None}  BY DEF ConvIInv, TypeOK
  <2>4. Good(m, registry[m])' = Good(m, registry[m])
    BY <1>1, <2>3, GoodKept DEF ConvIInv
  <2>5. Removed(m)' = Removed(m) /\ \A c \in Configs : Published(m, c)' = Published(m, c)
    BY <1>1, GoodKept DEF ConvIInv
  <2>6. Progress(m)'  BY <1>1, <2>1, ProgressKept DEF ConvIInv
  <2> QED BY <1>1, <2>1, <2>2, <2>4, <2>5, <2>6
          DEF ConvIInv, NameInv, CredsHeld, Settled, Tracking
<1>7. NameInv(e.name)'
  <2> DEFINE m == e.name
  <2>1. Pending(m)' => Tracking(m)'  BY DEF Tracking
  <2>2. ~Pending(m)' => e.cfg = registry[m]
    <3> SUFFICES ASSUME ~Pending(m)' PROVE e.cfg = registry[m]
      OBVIOUS
    <3>1. \A j \in 2..Len(events) : events[j].name # m
      <4> SUFFICES ASSUME NEW j \in 2..Len(events), events[j].name = m PROVE FALSE
        OBVIOUS
      <4>1. j - 1 \in 1..Len(events') /\ events'[j - 1] = events[j]  BY <1>2
      <4> QED BY <4>1 DEF Pending
    <3>2. 1 \in 1..Len(events)  BY <1>1, <1>2, EmptySeq
    <3> QED BY <1>2, <3>1, <3>2 DEF ConvIInv, LastEventsCurrent
  <2>3. CASE e.kind = "deleted"
    <3>1. tasks'[m] = NewTask("remove", None)  BY <1>1, <1>3, <2>3 DEF ConvIInv, TypeOK
    <3>2. e.cfg = None  BY <1>2, <2>3 DEF Event
    <3>3. /\ tasks'[m] # None /\ tasks'[m].cfg = None /\ Progress(m)' /\ CredsHeld(m)'
      BY <3>1, FreshTask
    <3> QED BY <1>1, <2>1, <2>2, <3>2, <3>3 DEF NameInv, Settled, Tracking
  <2>4. CASE e.kind # "deleted"
    <3>1. tasks'[m] = NewTask("reconcile", e.cfg)  BY <1>1, <1>3, <2>4 DEF ConvIInv, TypeOK
    <3>2. e.cfg \in Configs  BY <1>2, <2>4 DEF Event
    <3>3. /\ tasks'[m] # None /\ tasks'[m].cfg = e.cfg /\ Progress(m)' /\ CredsHeld(m)'
      BY <3>1, <3>2, FreshTask
    <3> QED BY <1>1, <2>1, <2>2, <3>3 DEF NameInv, Settled, Tracking
  <2> QED BY <2>3, <2>4
<1> QED BY <1>4, <1>5, <1>6, <1>7 DEF ConvIInv, NameInv

(* A restart between events forgets the subscription and the tasks; there *)
(* were none running, and the cluster is kept.                            *)
LEMMA RestartConv ==
    ASSUME ConvIInv, TypeOK', Restart, ~CrashMidCall
    PROVE  ConvIInv'
<1>1. /\ Idle /\ phase' = "init" /\ events' = <<>> /\ tasks' = [n \in Names |-> None]
      /\ UNCHANGED <<registry, cluster, failed>>
  BY DEF Restart
<1>2. ASSUME NEW m \in Names PROVE Settled(m)'
  <2>1. Removed(m)' = Removed(m) /\ \A c \in Configs : Published(m, c)' = Published(m, c)
    BY <1>1, GoodKept DEF ConvIInv
  <2> QED BY <1>1, <2>1 DEF ConvIInv, Settled, Idle
<1> QED BY <1>1, <1>2 DEF ConvIInv, Owners, Unsubscribed, Idle, LastEventsCurrent,
           Progress, CredsHeld, Tracking

-----------------------------------------------------------------------------
(* Convergence. *)

LEMMA ConvStep ==
    ASSUME NamesApart, ~CrashMidCall, ConvIInv, [Next]_vars
    PROVE  ConvIInv'
<1>1. TypeOK'  BY TypeStep DEF ConvIInv
<1>2. CASE \E n \in Names : \E c \in Offers[n] : Register(n, c)
  <2> PICK n \in Names : \E c \in Offers[n] : Register(n, c)  BY <1>2
  <2> PICK c \in Offers[n] : Register(n, c)  OBVIOUS
  <2> DEFINE e == [kind |-> IF registry[n] = None THEN "created" ELSE "updated",
                   name |-> n, cfg |-> c]
  <2>1. c \in Configs  BY ConstantsAssumption
  <2>2. e \in Event  BY <2>1 DEF Event
  <2> QED BY <1>1, <2>1, <2>2, SourceConv DEF Register
<1>3. CASE \E n \in Names : Deregister(n)
  <2> PICK n \in Names : Deregister(n)  BY <1>3
  <2> DEFINE e == [kind |-> "deleted", name |-> n, cfg |-> None]
  <2>1. e \in Event  BY DEF Event
  <2> QED BY <1>1, <2>1, SourceConv DEF Deregister
<1>4. CASE Subscribe  BY <1>1, <1>4, SubscribeConv
<1>5. CASE FinishSync  BY <1>1, <1>5, FinishSyncConv
<1>6. CASE NextEvent  BY <1>1, <1>6, NextEventConv
<1>7. CASE \E n \in Names : TaskStep(n)  BY <1>7, TaskStepConv
<1>8. CASE Restart  BY <1>1, <1>8, RestartConv
<1>9. CASE UNCHANGED vars
  <2>1. UNCHANGED <<registry, events, phase, tasks, cluster, failed>>  BY <1>9 DEF vars
  <2>2. \A m \in Names : Progress(m)'  BY <2>1, ProgressKept DEF ConvIInv
  <2>3. ASSUME NEW m \in Names PROVE Settled(m)' /\ Tracking(m)'
    <3>1. registry[m] \in Configs \cup {None}  BY DEF ConvIInv, TypeOK
    <3>2. Good(m, registry[m])' = Good(m, registry[m])
      BY <2>1, <3>1, GoodKept DEF ConvIInv
    <3>3. Removed(m)' = Removed(m) /\ \A c \in Configs : Published(m, c)' = Published(m, c)
      BY <2>1, GoodKept DEF ConvIInv
    <3> QED BY <2>1, <3>2, <3>3 DEF ConvIInv, Settled, Tracking, Pending
  <2> QED BY <1>1, <2>1, <2>2, <2>3 DEF ConvIInv, Owners, Unsubscribed, Idle,
             LastEventsCurrent, CredsHeld
<1> QED BY <1>2, <1>3, <1>4, <1>5, <1>6, <1>7, <1>8, <1>9
        DEF Next, Source, ReconcilerStep

LEMMA InitConv == Init => ConvIInv
<1> SUFFICES ASSUME Init PROVE ConvIInv
  OBVIOUS
<1>1. TypeOK /\ Owners  BY InitOwners
<1>2. \A m \in Names : Removed(m)
  <2>1. \A m \in Names : ReleaseKey(m) \in Keys  BY DEF Keys, KeysOf
  <2> QED BY <2>1 DEF Init, Removed
<1> QED BY <1>1, <1>2 DEF Init, ConvIInv, Unsubscribed, Idle, LastEventsCurrent,
           Progress, CredsHeld, Settled, Tracking

LEMMA ConvConverged == ConvIInv => Converged
<1> SUFFICES ASSUME ConvIInv, Quiescent, NEW n \in Names \ failed
             PROVE  IF registry[n] = None THEN Removed(n) ELSE Published(n, registry[n])
  BY DEF Converged
<1>1. phase # "init" /\ ~Pending(n) /\ tasks[n] = None
  BY DEF Quiescent, Idle, Pending
<1>2. Good(n, registry[n])  BY <1>1 DEF ConvIInv, Tracking
<1> QED BY <1>2 DEF Good

(* Convergence of the reconciler (spec 4.1, 5), for every instance whose   *)
(* derived object names are apart and in which the process stops only     *)
(* while waiting for the next event: once ServiceReconciler.run has        *)
(* handled every event, every name whose last operation did not give up   *)
(* is published as registered or removed.  The restart_mid_removal run  *)
(* shows it failing when the process dies mid-call; the name_collision   *)
(* run shows the clash of derived names that NamesApart rules out.       *)
THEOREM ConvergedHolds ==
    ASSUME NamesApart, ~CrashMidCall PROVE Spec => []Converged
<1>1. ConvIInv /\ [Next]_vars => ConvIInv'  BY ConvStep
<1> QED BY InitConv, <1>1, ConvConverged, PTL DEF Spec

=============================================================================
