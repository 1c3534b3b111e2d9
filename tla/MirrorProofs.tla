---------------------------- MODULE MirrorProofs ----------------------------
(***************************************************************************)
(* Proofs about the TLS secret mirror (SecretMirror), for every set of    *)
(* secret contents and every bound.                                        *)
(*                                                                          *)
(* MirrorInSync is not inductive: a state in the event loop with pending   *)
(* events says nothing about the copy.  What makes it hold is that an open *)
(* watch always ends in the current source: the last delivered event      *)
(* carries it, and before the first event the initial state of watch_one  *)
(* is it.  Handling the events in order then leaves the copy equal to the *)
(* source once the last one is handled.                                     *)
(***************************************************************************)
EXTENDS SecretMirror, SequenceTheorems, TLAPS

Values == SecretValues \cup {None}

(* The state the watch will have reported once every pending event is in. *)
LastPending == mevents[Len(mevents)].object

MirrorIInv ==
    /\ MirrorTypeOK
    /\ cluster \in [{MirrorKey} -> {Mirrored(v) : v \in Values}]
    /\ (Watching /\ mevents # <<>>) => LastPending = upstream
    /\ (mphase = "initial" /\ mevents = <<>>) => minitial = upstream
    /\ MirrorInSync

(* A watch event carries the state the source has after the change. *)
LEMMA EventObject ==
    ASSUME NEW e \in WatchEvent
    PROVE  e.object \in Values
BY DEF WatchEvent, Values

LEMMA InitIInv == Init => MirrorIInv
BY MirrorAssumption DEF Init, MirrorInit, MirrorIInv, MirrorTypeOK, Values,
   Mirrored, MirrorInSync, Watching

(* Changes of the source: the event appended when a watch is open is the  *)
(* new last pending event.                                                 *)
LEMMA SourceIInv ==
    ASSUME MirrorIInv,
           \/ \E v \in SecretValues : SourcePut(v)
           \/ SourceDelete
    PROVE  MirrorIInv'
<1> USE MirrorAssumption
<1>1. CASE \E v \in SecretValues : SourcePut(v)
  <2> PICK v \in SecretValues : SourcePut(v)
    BY <1>1
  <2>1. CASE Watching
    <3>1. DEFINE e == [type |-> IF upstream = None THEN "ADDED" ELSE "MODIFIED",
                       object |-> v]
    <3>2. e \in WatchEvent
      BY DEF WatchEvent
    <3>3. mevents' = Append(mevents, e) /\ upstream' = v
      BY <2>1 DEF SourcePut, Deliver
    <3> QED
      BY <2>1, <3>2, <3>3 DEF SourcePut, MirrorIInv, MirrorTypeOK, LastPending,
         Watching, MirrorInSync, Values
  <2>2. CASE ~Watching
    BY <2>2 DEF SourcePut, Deliver, MirrorIInv, MirrorTypeOK, LastPending,
       Watching, MirrorInSync, Values
  <2> QED BY <2>1, <2>2
<1>2. CASE SourceDelete
  <2>1. CASE Watching
    <3>1. DEFINE e == [type |-> "DELETED", object |-> None]
    <3>2. e \in WatchEvent
      BY DEF WatchEvent
    <3>3. mevents' = Append(mevents, e) /\ upstream' = None
      BY <1>2, <2>1 DEF SourceDelete, Deliver
    <3> QED
      BY <1>2, <2>1, <3>2, <3>3 DEF SourceDelete, MirrorIInv, MirrorTypeOK,
         LastPending, Watching, MirrorInSync, Values
  <2>2. CASE ~Watching
    BY <1>2, <2>2 DEF SourceDelete, Deliver, MirrorIInv, MirrorTypeOK,
       LastPending, Watching, MirrorInSync, Values
  <2> QED BY <2>1, <2>2
<1> QED BY <1>1, <1>2

(* Handling one event: the copy takes the event's state, and the rest of *)
(* the queue still ends in the source.                                     *)
LEMMA HandleEventIInv ==
    ASSUME MirrorIInv, HandleEvent
    PROVE  MirrorIInv'
<1> USE MirrorAssumption
<1>1. mevents \in Seq(WatchEvent) /\ mevents # <<>>
  BY DEF MirrorIInv, MirrorTypeOK, HandleEvent
<1>2. Head(mevents) \in WatchEvent /\ Tail(mevents) \in Seq(WatchEvent)
  BY <1>1
<1>3. Head(mevents).object \in Values
  BY <1>2, EventObject
<1>4. cluster' = [cluster EXCEPT ![MirrorKey] = Mirrored(Head(mevents).object)]
  BY DEF HandleEvent
<1>5. cluster' \in [{MirrorKey} -> {Mirrored(v) : v \in Values}]
  BY <1>3, <1>4 DEF MirrorIInv
<1>6. LastPending = upstream
  BY <1>1 DEF HandleEvent, MirrorIInv, Watching
<1>7. mphase' = "loop" /\ mevents' = Tail(mevents) /\ upstream' = upstream
  BY DEF HandleEvent
<1>8. MirrorTypeOK'
  <2>1. cluster'[MirrorKey] \in {Mirrored(v) : v \in Values}
    BY <1>5
  <2> QED BY <1>2, <1>7, <2>1 DEF HandleEvent, MirrorIInv, MirrorTypeOK, Values
<1>9. (Watching /\ mevents # <<>>)' => LastPending' = upstream'
  <2> SUFFICES ASSUME Tail(mevents) # <<>>
               PROVE  Tail(mevents)[Len(Tail(mevents))].object = upstream
    BY <1>7 DEF LastPending
  <2>1. Tail(mevents)[Len(Tail(mevents))] = mevents[Len(mevents)]
    BY <1>1, HeadTailProperties, EmptySeq
  <2> QED BY <1>6, <2>1 DEF LastPending
<1>10. MirrorInSync'
  <2> SUFFICES ASSUME Tail(mevents) = <<>>
               PROVE  cluster'[MirrorKey] = Mirrored(upstream)
    BY <1>7 DEF MirrorInSync
  <2>0. Len(Tail(mevents)) = Len(mevents) - 1
    BY <1>1, HeadTailProperties
  <2>1. Len(Tail(mevents)) = 0
    BY <1>2, EmptySeq
  <2>2. Len(mevents) = 1
    BY <1>1, <2>0, <2>1, LenProperties
  <2>3. Head(mevents).object = upstream
    BY <1>1, <1>6, <2>2 DEF LastPending
  <2>4. cluster'[MirrorKey] = Mirrored(Head(mevents).object)
    BY <1>4 DEF MirrorIInv
  <2> QED BY <2>3, <2>4
<1> QED BY <1>5, <1>7, <1>8, <1>9, <1>10 DEF MirrorIInv

LEMMA LoopIInv ==
    ASSUME MirrorIInv, Watch \/ ApplyInitial \/ MirrorFail \/ MirrorRestart
    PROVE  MirrorIInv'
<1> USE MirrorAssumption
<1>1. CASE Watch
  BY <1>1 DEF Watch, MirrorIInv, MirrorTypeOK, MirrorInSync, Watching, LastPending
<1>2. CASE ApplyInitial
  <2>1. minitial \in Values
    BY DEF MirrorIInv, MirrorTypeOK, Values
  <2>2. cluster' \in [{MirrorKey} -> {Mirrored(v) : v \in Values}]
    BY <1>2, <2>1 DEF ApplyInitial, MirrorIInv
  <2>3. cluster'[MirrorKey] = Mirrored(minitial)
    BY <1>2 DEF ApplyInitial, MirrorIInv
  <2> QED
    BY <1>2, <2>1, <2>2, <2>3 DEF ApplyInitial, MirrorIInv, MirrorTypeOK,
       MirrorInSync, Watching, LastPending, Values
<1>3. CASE MirrorFail
  BY <1>3 DEF MirrorFail, MirrorIInv, MirrorTypeOK, MirrorInSync, Watching, LastPending
<1>4. CASE MirrorRestart
  BY <1>4 DEF MirrorRestart, MirrorIInv, MirrorTypeOK, MirrorInSync, Watching,
     LastPending, Values
<1> QED BY <1>1, <1>2, <1>3, <1>4

LEMMA NextIInv == MirrorIInv /\ [MirrorNext]_vars => MirrorIInv'
<1> SUFFICES ASSUME MirrorIInv, [MirrorNext]_vars PROVE MirrorIInv'
  OBVIOUS
<1>1. CASE \/ \E v \in SecretValues : SourcePut(v)
           \/ SourceDelete
  BY <1>1, SourceIInv
<1>2. CASE HandleEvent
  BY <1>2, HandleEventIInv
<1>3. CASE Watch \/ ApplyInitial \/ MirrorFail \/ MirrorRestart
  BY <1>3, LoopIInv
<1>4. CASE UNCHANGED vars
  BY <1>4 DEF vars, mvars, MirrorIInv, MirrorTypeOK, MirrorInSync, Watching,
     LastPending
<1> QED BY <1>1, <1>2, <1>3, <1>4 DEF MirrorNext, MirrorStep

(* TLSSecretMirror is faithful in every instance: whenever its event loop *)
(* has handled every delivered change, the copy in the target namespace    *)
(* equals the source secret (absent when the source is absent).           *)
THEOREM MirrorCorrect == Spec => []MirrorInSync
<1>1. MirrorIInv => MirrorInSync
  BY DEF MirrorIInv
<1> QED BY InitIInv, NextIInv, <1>1, PTL DEF Spec

====
