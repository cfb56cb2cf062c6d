-------------------------- MODULE HookClientProofs --------------------------
(* Proofs about a component that uses both hooks. The first part is about    *)
(* useWorkerPool alone, for any number of calls, changes of the options,     *)
(* mounts and calls of close(): it owns at most one pool and offers that     *)
(* one, and its status is that of the latest call on it, that is, the hook   *)
(* implements LatestCall. The second part is about the whole component, for  *)
(* any number of runs and batches besides: each hook keeps its promise       *)
(* beside the other one, and so do the batch and the statistics.             *)
EXTENDS HookClient, TLAPS

-----------------------------------------------------------------------------
(* The inductive invariant.                                                  *)

Closure == [binding : Nat, generation : Nat, id : Nat, api : Nat,
            done : BOOLEAN]

(* No closure and no outdated commit holds a number that is yet to be given  *)
(* out, and a binding stands for one api and one status of the pool.         *)
NumbersGivenOut ==
  /\ held.binding # 0 /\ held.binding <= shown.binding
  /\ held.generation <= shown.generation /\ shown.generation <= generation
  /\ held.binding = shown.binding => held.api = shown.api
  /\ \A i \in 1..Len(calls) :
       /\ calls[i].binding # 0 /\ calls[i].binding <= shown.binding
       /\ calls[i].generation <= generation /\ calls[i].id <= latestCallId

(* The pool effect runs and is cleaned up with the component's effects.      *)
EffectOfGeneration ==
  /\ passive = "run" => connected
  /\ passive = "clean" => ~connected
  /\ ~connected /\ passive = "none" => effect = NoEffect
  /\ effect # NoEffect => effect.generation = generation
  /\ Live /\ poolStatus = "ready" => api = poolRef /\ poolRef \in open

(* A commit whose binding is live, and whose generation is current, shows    *)
(* the api the hook has: nothing can have replaced or closed it since.       *)
ShownIsCurrent ==
  Live /\ activeBinding = shown.binding /\ shown.generation = generation =>
    shown.api = api /\ shown.poolStatus = poolStatus

StatusFollows ==
  Live =>
    /\ Followed = IF status = "running" THEN {subject} ELSE {}
    /\ status = "running" =>
         /\ subject # None
         /\ activeBinding = shown.binding /\ shown.generation = generation

HookInv ==
  /\ HookType /\ NumbersGivenOut /\ EffectOfGeneration /\ ShownIsCurrent
  /\ StatusFollows /\ StatusOfShownPool /\ OwnsOnePool

HookStepMaps == HookInv' /\ [Latest!LatestNext]_(Latest!latestVars)

-----------------------------------------------------------------------------
(* What is used of the state in most of the proofs.                          *)

LEMMA Shapes ==
  ASSUME HookInv
  PROVE  /\ shown \in View /\ held \in View
         /\ shown.binding \in Nat \ {0} /\ shown.generation \in Nat
         /\ generation \in Nat /\ latestCallId \in Nat
         /\ Len(calls) \in Nat /\ subject \in 0..Len(calls)
         /\ activeBinding \in {0, shown.binding}
         /\ effect.generation \in Nat
<1>1. /\ shown \in View /\ held \in View /\ calls \in Seq(Closure)
      /\ generation \in Nat /\ latestCallId \in Nat
      /\ subject \in 0..Len(calls) /\ activeBinding \in {0, shown.binding}
      /\ effect \in [generation : Nat, pool : 0..Len(pools)]
  BY DEF HookInv, HookType, Closure, None
<1>2. /\ shown.binding \in Nat /\ held.binding \in Nat
      /\ shown.generation \in Nat
  BY <1>1 DEF View
<1>3. held.binding # 0 /\ held.binding <= shown.binding
  BY DEF HookInv, NumbersGivenOut
<1> QED  BY <1>1, <1>2, <1>3

LEMMA CallShape ==
  ASSUME HookInv, NEW i \in 1..Len(calls)
  PROVE  /\ calls[i] \in Closure
         /\ calls[i].binding \in Nat \ {0} /\ calls[i].id \in Nat
         /\ calls[i].generation \in Nat
         /\ calls[i].binding <= shown.binding
         /\ calls[i].generation <= generation /\ calls[i].id <= latestCallId
<1>1. calls \in Seq(Closure)
  BY DEF HookInv, HookType, Closure
<1>2. calls[i] \in Closure
  BY <1>1
<1> QED  BY <1>2 DEF HookInv, NumbersGivenOut, Closure

(* What a render returns.                                                    *)
LEMMA RenderedView ==
  ASSUME HookInv
  PROVE  /\ Rendered \in View
         /\ Rendered.api = api /\ Rendered.poolStatus = poolStatus
         /\ Rendered.generation = generation
         /\ Rendered.binding \in Nat \ {0}
         /\ Rendered.binding >= shown.binding
         /\ Rendered.binding = shown.binding
              <=> api = shown.api /\ poolStatus = shown.poolStatus
<1>1. shown.binding \in Nat \ {0} /\ generation \in Nat
  BY Shapes
<1>2. api \in Nat /\ poolStatus \in {"initializing", "ready", "error", "closed"}
  BY DEF HookInv, HookType
<1> QED  BY <1>1, <1>2 DEF Rendered, View

(* In the terms of LatestCall, the tracked call is the one shown running.    *)
LEMMA TrackedCall ==
  ASSUME StatusFollows
  PROVE  Tracked = IF Live /\ status = "running" THEN subject ELSE 0
<1>1. CASE Live /\ status = "running"
  <2>1. Followed = {subject}
    BY <1>1 DEF StatusFollows
  <2>2. (CHOOSE i \in Followed : TRUE) = subject
    BY <2>1
  <2> QED  BY <1>1, <2>1, <2>2 DEF Tracked
<1>2. CASE ~(Live /\ status = "running")
  BY <1>2 DEF StatusFollows, Tracked
<1> QED  BY <1>1, <1>2

(* The end of a call is not published once the live binding is another one,  *)
(* or the generation or the latest call a later one.                         *)
LEMMA ChangeFollowsNone ==
  ASSUME HookInv, calls' = calls,
         \/ activeBinding' \notin 1..shown.binding
         \/ generation' > generation /\ generation' \in Nat
         \/ latestCallId' > latestCallId /\ latestCallId' \in Nat
  PROVE  Followed' = {}
<1>1. shown.binding \in Nat /\ generation \in Nat /\ latestCallId \in Nat
  BY Shapes
<1>2. ASSUME NEW i \in 1..Len(calls)
      PROVE  ~IsCurrent(calls[i])'
  BY <1>1, <1>2, CallShape DEF IsCurrent, BindingIsCurrent
<1> QED  BY <1>2 DEF Followed

-----------------------------------------------------------------------------
(* Steps that leave the status alone map to a stutter, and the others that   *)
(* reset it to Forget.                                                       *)

LEMMA Stutters ==
  ASSUME StatusFollows, StatusFollows', Live' = Live,
         UNCHANGED <<calls, status, subject>>
  PROVE  [Latest!LatestNext]_(Latest!latestVars)
<1>1. CASE Live
  <2>1. Followed' = Followed
    BY <1>1 DEF StatusFollows
  <2> QED  BY <1>1, <2>1 DEF Tracked, Latest!latestVars
<1>2. CASE ~Live
  BY <1>2 DEF Tracked, Latest!latestVars
<1> QED  BY <1>1, <1>2

LEMMA Forgets ==
  ASSUME calls' = calls, Tracked' = 0,
         Live' => status' \in {"idle", "error"} /\ subject' = 0
  PROVE  [Latest!LatestNext]_(Latest!latestVars)
<1>1. Latest!Forget
  BY DEF Latest!Forget
<1> QED  BY <1>1 DEF Latest!LatestNext

-----------------------------------------------------------------------------
(* The parts of the invariant that a step leaves alone.                      *)

LEMMA EffectUntouched ==
  ASSUME HookInv,
         UNCHANGED <<passive, connected, effect, generation, poolStatus, api,
                     poolRef, open>>
  PROVE  EffectOfGeneration' /\ OwnsOnePool'
BY DEF HookInv, EffectOfGeneration, OwnsOnePool, Live

LEMMA StatusUntouched ==
  ASSUME HookInv,
         UNCHANGED <<calls, status, subject, connected, effect, activeBinding,
                     latestCallId, generation, shown>>
  PROVE  StatusFollows'
<1>1. Followed' = Followed
  BY DEF Followed, IsCurrent, BindingIsCurrent
<1> QED  BY <1>1 DEF HookInv, StatusFollows, Live

-----------------------------------------------------------------------------
(* React's steps.                                                            *)

LEMMA CommitType ==
  ASSUME HookInv, Commit
  PROVE  HookType'
<1>1. shown' \in View /\ held' \in View
  BY RenderedView DEF Commit, HookInv, HookType
<1>2. /\ activeBinding' \in {None, shown'.binding} /\ latestCallId' \in Nat
      /\ ~connected' => activeBinding' = None
  BY RenderedView DEF Commit, RebindTo, HookInv, HookType
<1>3. passive' \in {"none", "run", "clean"}
  BY DEF Commit
<1> QED
  BY <1>1, <1>2, <1>3 DEF Commit, HookInv, HookType, stateVars, poolVars

LEMMA CommitNumbers ==
  ASSUME HookInv, Commit
  PROVE  NumbersGivenOut'
<1>1. /\ shown' = Rendered /\ held' \in {held, shown}
      /\ calls' = calls /\ generation' = generation
      /\ latestCallId' \in {latestCallId, latestCallId + 1}
  BY DEF Commit, RebindTo, poolVars
<1>2. /\ shown'.binding \in Nat /\ shown'.binding >= shown.binding
      /\ shown'.generation = generation
      /\ shown'.binding = shown.binding => shown'.api = shown.api
  BY <1>1, RenderedView
<1>3. /\ shown.binding \in Nat \ {0} /\ held.binding \in Nat
      /\ shown.generation \in Nat /\ held.generation \in Nat
      /\ generation \in Nat /\ latestCallId \in Nat
  BY Shapes DEF View
<1>4. \A i \in 1..Len(calls) :
        /\ calls[i].binding # 0 /\ calls[i].binding <= shown'.binding
        /\ calls[i].generation <= generation
        /\ calls[i].id <= latestCallId'
  BY <1>1, <1>2, <1>3, CallShape
<1>5. /\ held'.binding # 0 /\ held'.binding <= shown'.binding
      /\ held'.generation <= shown'.generation
      /\ held'.binding = shown'.binding => held'.api = shown'.api
  BY <1>1, <1>2, <1>3 DEF HookInv, NumbersGivenOut
<1> QED  BY <1>1, <1>2, <1>3, <1>4, <1>5 DEF NumbersGivenOut

(* A commit changes the binding only after the effect or close() has reset   *)
(* the status, when no call is followed any more.                            *)
LEMMA CommitFollows ==
  ASSUME HookInv, Commit
  PROVE  StatusFollows'
<1>1. /\ shown' = Rendered
      /\ UNCHANGED <<calls, status, subject, connected, effect, generation>>
  BY DEF Commit, stateVars, poolVars
<1>2. CASE Rendered.binding = shown.binding
  <2>1. UNCHANGED <<activeBinding, latestCallId>>
    BY <1>2 DEF Commit, RebindTo
  <2>2. Followed' = Followed
    BY <1>1, <2>1 DEF Followed, IsCurrent, BindingIsCurrent
  <2> QED
    BY <1>1, <1>2, <2>1, <2>2, RenderedView DEF HookInv, StatusFollows, Live
<1>3. CASE Rendered.binding # shown.binding
  <2>1. activeBinding' = Rendered.binding
    BY <1>3 DEF Commit, RebindTo
  <2>2. activeBinding' \notin 1..shown.binding
    BY <1>3, <2>1, RenderedView, Shapes
  <2>3. Followed' = {}
    BY <1>1, <2>2, ChangeFollowsNone
  <2>4. Live => status # "running"
    BY <1>3, RenderedView DEF HookInv, StatusFollows, ShownIsCurrent
  <2> QED  BY <1>1, <2>3, <2>4 DEF StatusFollows, Live
<1> QED  BY <1>2, <1>3

LEMMA CommitMaps ==
  ASSUME HookInv, Commit
  PROVE  HookStepMaps
<1>1. /\ shown' = Rendered /\ connected /\ passive = "none"
      /\ passive' \in {"none", "run"}
      /\ UNCHANGED <<calls, status, subject, connected, effect, generation,
                     api, poolStatus, poolRef, open>>
  BY DEF Commit, stateVars, poolVars
<1>2. EffectOfGeneration' /\ OwnsOnePool'
  BY <1>1 DEF HookInv, EffectOfGeneration, OwnsOnePool, Live
<1>3. ShownIsCurrent' /\ StatusOfShownPool' /\ Live' = Live
  BY <1>1, RenderedView DEF HookInv, ShownIsCurrent, StatusOfShownPool, Live
<1> QED
  BY <1>1, <1>2, <1>3, CommitType, CommitNumbers, CommitFollows, Stutters
     DEF HookStepMaps, HookInv

(* Until the pool effect has run again the status is nobody's.               *)
LEMMA ConnectMaps ==
  ASSUME HookInv, Connect
  PROVE  HookStepMaps
<1>1. /\ ~connected /\ passive = "none" /\ connected' = TRUE
      /\ passive' = "run" /\ shown' \in {shown, Rendered}
      /\ activeBinding' = shown'.binding
      /\ UNCHANGED <<api, poolStatus, status, subject, held, latestCallId,
                     generation, poolRef, effect, pools, open, calls>>
  BY DEF Connect, stateVars, poolVars
<1>2. effect = NoEffect /\ ~Live /\ ~Live' /\ Live' = Live
  BY <1>1 DEF HookInv, EffectOfGeneration, Live
<1>3. /\ shown' \in View /\ shown'.binding \in Nat
      /\ shown'.binding >= shown.binding
      /\ shown'.generation \in {shown.generation, generation}
      /\ shown'.binding = shown.binding => shown'.api = shown.api
  BY <1>1, RenderedView, Shapes
<1>4. HookType'
  BY <1>1, <1>3 DEF HookInv, HookType
<1>5. NumbersGivenOut'
  <2>1. \A i \in 1..Len(calls) :
          /\ calls[i].binding # 0 /\ calls[i].binding <= shown'.binding
          /\ calls[i].generation <= generation
          /\ calls[i].id <= latestCallId
    BY <1>3, CallShape, Shapes
  <2>2. /\ held.binding # 0 /\ held.binding <= shown'.binding
        /\ held.generation <= shown'.generation
        /\ shown'.generation <= generation
        /\ held.binding = shown'.binding => held.api = shown'.api
    BY <1>3, Shapes DEF HookInv, NumbersGivenOut, View
  <2> QED  BY <1>1, <2>1, <2>2 DEF NumbersGivenOut
<1>6. /\ EffectOfGeneration' /\ ShownIsCurrent' /\ StatusFollows'
      /\ StatusOfShownPool' /\ OwnsOnePool'
  BY <1>1, <1>2 DEF HookInv, EffectOfGeneration, ShownIsCurrent,
     StatusFollows, StatusOfShownPool, OwnsOnePool, Live
<1> QED
  BY <1>1, <1>2, <1>4, <1>5, <1>6, Stutters DEF HookStepMaps, HookInv

LEMMA DisconnectMaps ==
  ASSUME HookInv, Disconnect
  PROVE  HookStepMaps
<1>1. /\ connected' = FALSE /\ passive' = "clean"
      /\ latestCallId' \in {latestCallId, latestCallId + 1}
      /\ UNCHANGED <<api, poolStatus, status, subject, shown, held,
                     generation, poolRef, effect, pools, open, calls>>
  BY DEF Disconnect, stateVars, poolVars
<1>2. activeBinding' = None
  BY Shapes DEF Disconnect, None
<1>3. HookType'
  <2>1. latestCallId' \in Nat
    BY <1>1, Shapes
  <2> QED  BY <1>1, <1>2, <2>1 DEF HookInv, HookType
<1>4. NumbersGivenOut'
  <2>1. \A i \in 1..Len(calls) : calls[i].id <= latestCallId'
    BY <1>1, Shapes, CallShape
  <2> QED  BY <1>1, <2>1 DEF HookInv, NumbersGivenOut
<1>5. ~Live'
  BY <1>1 DEF Live
<1>6. /\ EffectOfGeneration' /\ ShownIsCurrent' /\ StatusFollows'
      /\ StatusOfShownPool' /\ OwnsOnePool'
  BY <1>1, <1>5 DEF HookInv, EffectOfGeneration, ShownIsCurrent,
     StatusFollows, StatusOfShownPool, OwnsOnePool
<1>7. Tracked' = 0
  BY <1>5 DEF Tracked
<1> QED
  BY <1>1, <1>3, <1>4, <1>5, <1>6, <1>7, Forgets DEF HookStepMaps, HookInv

-----------------------------------------------------------------------------
(* The effect that owns the pool.                                            *)

LEMMA CleanedUpRefs ==
  ASSUME HookInv
  PROVE  /\ CleanedUp.generation \in Nat /\ CleanedUp.generation >= generation
         /\ CleanedUp.latestCallId \in Nat
         /\ CleanedUp.latestCallId >= latestCallId
         /\ CleanedUp.poolRef \in 0..Len(pools) /\ CleanedUp.open = {}
<1>1. /\ generation \in Nat /\ latestCallId \in Nat
      /\ poolRef \in 0..Len(pools) /\ open \subseteq {effect.pool}
      /\ Len(pools) \in Nat
  BY DEF HookInv, HookType, OwnsOnePool
<1>2. CleanedUp.open = {}
  BY <1>1 DEF CleanedUp
<1>3. CleanedUp.poolRef \in 0..Len(pools)
  BY <1>1 DEF CleanedUp, None
<1>4. /\ CleanedUp.generation \in {generation, generation + 1}
      /\ CleanedUp.latestCallId \in {latestCallId, latestCallId + 1}
  BY DEF CleanedUp
<1> QED  BY <1>1, <1>2, <1>3, <1>4

LEMMA SetUpMaps ==
  ASSUME HookInv, SetUp
  PROVE  HookStepMaps
<1> DEFINE refs == CleanedUp
<1>1. /\ passive = "run" /\ passive' = "none" /\ connected
      /\ generation' = refs.generation + 1
      /\ latestCallId' = refs.latestCallId + 1
      /\ UNCHANGED <<shown, held, connected, activeBinding, calls>>
  BY DEF SetUp, reactVars, HookInv, EffectOfGeneration
<1>2. /\ generation' \in Nat /\ generation' > generation
      /\ latestCallId' \in Nat /\ latestCallId' > latestCallId
  BY <1>1, CleanedUpRefs, Shapes, SMTT(20)
<1>3. /\ pools' \in Seq(Nat) /\ open' \subseteq 1..Len(pools')
      /\ poolRef' \in 0..Len(pools') /\ api' \in 0..Len(pools')
      /\ effect' \in [generation : Nat, pool : 0..Len(pools')]
      /\ poolStatus' \in {"ready", "error"} /\ status' \in {"idle", "error"}
      /\ subject' = 0
      /\ effect'.generation = generation' /\ open' \subseteq {effect'.pool}
      /\ poolStatus' = "ready" => api' = poolRef' /\ poolRef' \in open'
  <2> pools \in Seq(Nat)
    BY DEF HookInv, HookType
  <2>1. pools \in Seq(Nat) /\ Len(pools) \in Nat /\ refs.generation + 1 \in Nat
    BY CleanedUpRefs
  <2>2. CASE CreatePool(refs)
    <3>1. /\ pools' = Append(pools, refs.generation + 1)
          /\ open' = refs.open \cup {Len(pools) + 1}
          /\ poolRef' = Len(pools) + 1 /\ api' = Len(pools) + 1
          /\ effect' = [generation |-> refs.generation + 1,
                        pool |-> Len(pools) + 1]
          /\ poolStatus' = "ready" /\ status' = "idle" /\ subject' = 0
      BY <2>2 DEF CreatePool, None
    <3>2. pools' \in Seq(Nat) /\ Len(pools') = Len(pools) + 1
      BY <2>1, <3>1
    <3>3. open' = {Len(pools) + 1}
      BY <3>1, CleanedUpRefs
    <3> QED  BY <1>1, <2>1, <3>1, <3>2, <3>3
  <2>3. CASE FailToCreate(refs)
    <3>1. /\ pools' = pools /\ open' = refs.open
          /\ poolRef' = 0 /\ api' = 0
          /\ effect' = [generation |-> refs.generation + 1, pool |-> 0]
          /\ poolStatus' = "error" /\ status' = "error" /\ subject' = 0
      BY <2>3 DEF FailToCreate, None
    <3> QED  BY <1>1, <2>1, <3>1, CleanedUpRefs
  <2> QED  BY <2>2, <2>3 DEF SetUp
<1>4. HookType'
  BY <1>1, <1>2, <1>3, SMTT(20) DEF HookInv, HookType
<1>5. NumbersGivenOut'
  <2>1. \A i \in 1..Len(calls) :
          /\ calls[i].binding # 0 /\ calls[i].binding <= shown.binding
          /\ calls[i].generation <= generation'
          /\ calls[i].id <= latestCallId'
    BY <1>2, CallShape, Shapes
  <2>2. shown.generation <= generation'
    BY <1>2, Shapes DEF HookInv, NumbersGivenOut
  <2> QED  BY <1>1, <2>1, <2>2 DEF HookInv, NumbersGivenOut
<1>6. EffectOfGeneration' /\ OwnsOnePool'
  BY <1>1, <1>3 DEF EffectOfGeneration, OwnsOnePool, Live
<1>7. ShownIsCurrent'
  BY <1>1, <1>2, Shapes DEF HookInv, NumbersGivenOut, ShownIsCurrent
<1>8. Followed' = {}
  BY <1>1, <1>2, ChangeFollowsNone
<1>9. StatusFollows' /\ StatusOfShownPool' /\ Tracked' = 0
  BY <1>3, <1>8 DEF StatusFollows, StatusOfShownPool, Tracked, None
<1> QED
  BY <1>1, <1>3, <1>4, <1>5, <1>6, <1>7, <1>9, Forgets
     DEF HookStepMaps, HookInv

LEMMA CleanUpMaps ==
  ASSUME HookInv, CleanUp
  PROVE  HookStepMaps
<1>1. /\ passive = "clean" /\ passive' = "none" /\ ~connected
      /\ generation' = CleanedUp.generation
      /\ latestCallId' = CleanedUp.latestCallId
      /\ poolRef' = CleanedUp.poolRef /\ open' = {} /\ effect' = NoEffect
      /\ UNCHANGED <<api, poolStatus, status, subject, shown, held, connected,
                     activeBinding, pools, calls>>
  BY CleanedUpRefs DEF CleanUp, stateVars, reactVars, HookInv,
     EffectOfGeneration
<1>2. ~Live /\ ~Live' /\ Live' = Live
  BY <1>1 DEF Live
<1>3. /\ generation' \in Nat /\ generation' >= generation
      /\ latestCallId' \in Nat /\ latestCallId' >= latestCallId
      /\ poolRef' \in 0..Len(pools)
  BY <1>1, CleanedUpRefs
<1>4. NoEffect \in [generation : Nat, pool : 0..Len(pools)]
  BY DEF NoEffect, None, HookInv, HookType
<1>5. HookType'
  BY <1>1, <1>3, <1>4 DEF HookInv, HookType
<1>6. NumbersGivenOut'
  <2>1. \A i \in 1..Len(calls) :
          /\ calls[i].binding # 0 /\ calls[i].binding <= shown.binding
          /\ calls[i].generation <= generation'
          /\ calls[i].id <= latestCallId'
    BY <1>3, CallShape, Shapes
  <2>2. shown.generation <= generation'
    BY <1>3, Shapes DEF HookInv, NumbersGivenOut
  <2> QED  BY <1>1, <2>1, <2>2 DEF HookInv, NumbersGivenOut
<1>7. /\ EffectOfGeneration' /\ ShownIsCurrent' /\ StatusFollows'
      /\ StatusOfShownPool' /\ OwnsOnePool'
  BY <1>1, <1>2 DEF EffectOfGeneration, ShownIsCurrent, StatusFollows,
     StatusOfShownPool, OwnsOnePool
<1> QED
  BY <1>1, <1>2, <1>5, <1>6, <1>7, Stutters DEF HookStepMaps, HookInv

-----------------------------------------------------------------------------
(* The program's steps.                                                      *)

LEMMA ReconfigureMaps ==
  ASSUME HookInv, Reconfigure
  PROVE  HookStepMaps
<1>1. UNCHANGED <<api, poolStatus, status, subject, shown, held, connected,
                  passive, activeBinding, latestCallId, generation, poolRef,
                  effect, pools, open, calls>>
  BY DEF Reconfigure, stateVars, reactVars, poolVars
<1>2. HookType' /\ NumbersGivenOut'
  BY <1>1 DEF HookInv, HookType, NumbersGivenOut
<1>3. ShownIsCurrent' /\ StatusOfShownPool' /\ Live' = Live
  BY <1>1 DEF HookInv, ShownIsCurrent, StatusOfShownPool, Live
<1> QED
  BY <1>1, <1>2, <1>3, EffectUntouched, StatusUntouched, Stutters
     DEF HookStepMaps, HookInv

LEMMA CloseMaps ==
  ASSUME HookInv, Close
  PROVE  HookStepMaps
<1>1. /\ activeBinding' = None /\ latestCallId' = latestCallId + 1
      /\ api' = None /\ poolStatus' = "closed"
      /\ status' = "idle" /\ subject' = None
      /\ open' \subseteq open
      /\ UNCHANGED <<shown, held, connected, passive, generation, poolRef,
                     effect, pools, calls>>
  BY DEF Close, reactVars
<1>2. HookType'
  <2>1. latestCallId' \in Nat
    BY <1>1, Shapes
  <2>2. api' \in 0..Len(pools') /\ subject' \in 0..Len(calls')
    BY <1>1 DEF HookInv, HookType, None
  <2> QED  BY <1>1, <2>1, <2>2 DEF HookInv, HookType
<1>3. NumbersGivenOut'
  <2>1. \A i \in 1..Len(calls) : calls[i].id <= latestCallId'
    BY <1>1, Shapes, CallShape
  <2> QED  BY <1>1, <2>1 DEF HookInv, NumbersGivenOut
<1>4. EffectOfGeneration' /\ OwnsOnePool'
  BY <1>1 DEF HookInv, EffectOfGeneration, OwnsOnePool, Live
<1>5. ShownIsCurrent'
  BY <1>1, Shapes DEF ShownIsCurrent, None
<1>6. Followed' = {}
  BY <1>1, Shapes, ChangeFollowsNone DEF None
<1>7. StatusFollows' /\ StatusOfShownPool' /\ Tracked' = 0 /\ subject' = 0
  BY <1>1, <1>6 DEF StatusFollows, StatusOfShownPool, Tracked, None
<1> QED
  BY <1>1, <1>2, <1>3, <1>4, <1>5, <1>7, Forgets DEF HookStepMaps, HookInv

(* A call is added to the others, which stay as they are.                    *)
LEMMA CallAdds ==
  ASSUME HookInv, NEW view \in {shown, held}, Call(view)
  PROVE  /\ HookType' /\ NumbersGivenOut' /\ ShownIsCurrent'
         /\ EffectOfGeneration' /\ OwnsOnePool' /\ Live' = Live
         /\ Len(calls') = Len(calls) + 1
         /\ \A i \in 1..Len(calls) : calls'[i] = calls[i]
         /\ calls'[Len(calls) + 1] =
              [binding |-> view.binding, generation |-> view.generation,
               id |-> IF BindingIsCurrent(view) THEN latestCallId + 1 ELSE 0,
               api |-> view.api, done |-> view.api = None]
<1> DEFINE n == Len(calls) + 1
           id == IF BindingIsCurrent(view) THEN latestCallId + 1 ELSE 0
           c == [binding |-> view.binding, generation |-> view.generation,
                 id |-> id, api |-> view.api, done |-> view.api = None]
<1>1. /\ view \in View /\ latestCallId \in Nat /\ Len(calls) \in Nat
      /\ shown.binding \in Nat /\ held.binding \in Nat
      /\ shown.generation \in Nat /\ held.generation \in Nat
      /\ generation \in Nat
  BY Shapes DEF View
<1>2. calls \in Seq(Closure)
  BY DEF HookInv, HookType, Closure
<1>3. c \in Closure
  BY <1>1 DEF Closure, View
<1>4. /\ calls' = Append(calls, c)
      /\ latestCallId' = IF BindingIsCurrent(view) THEN latestCallId + 1
                         ELSE latestCallId
      /\ UNCHANGED <<api, poolStatus, shown, held, connected, passive,
                     activeBinding, generation, poolRef, effect, pools, open>>
  BY DEF Call, reactVars, poolVars
<1>5. /\ calls' \in Seq(Closure) /\ Len(calls') = n
      /\ \A i \in 1..Len(calls) : calls'[i] = calls[i]
      /\ calls'[n] = c
  BY <1>2, <1>3, <1>4
<1>6. HookType'
  <2>1. latestCallId' \in Nat
    BY <1>1, <1>4
  <2>2. /\ subject' \in 0..Len(calls')
        /\ status' \in {"idle", "running", "completed", "error"}
    BY <1>1, <1>5, Shapes, SMTT(20) DEF Call, HookInv, HookType
  <2> QED  BY <1>4, <1>5, <2>1, <2>2 DEF HookInv, HookType, Closure
<1>7. NumbersGivenOut'
  <2>1. \A i \in 1..Len(calls') : i \in 1..Len(calls) \/ i = n
    BY <1>1, <1>5
  <2>2. /\ c.binding # 0 /\ c.binding <= shown.binding
        /\ c.generation <= generation /\ c.id <= latestCallId'
    BY <1>1, <1>4, Shapes DEF HookInv, NumbersGivenOut
  <2>3. \A i \in 1..Len(calls) :
          /\ calls[i].binding # 0 /\ calls[i].binding <= shown.binding
          /\ calls[i].generation <= generation /\ calls[i].id <= latestCallId'
    BY <1>1, <1>4, CallShape
  <2>4. \A i \in 1..Len(calls') :
          /\ calls'[i].binding # 0 /\ calls'[i].binding <= shown.binding
          /\ calls'[i].generation <= generation
          /\ calls'[i].id <= latestCallId'
    BY <1>5, <2>1, <2>2, <2>3
  <2> QED  BY <1>4, <2>4 DEF HookInv, NumbersGivenOut
<1>8. ShownIsCurrent' /\ Live' = Live
  BY <1>4 DEF HookInv, ShownIsCurrent, Live
<1>9. EffectOfGeneration' /\ OwnsOnePool'
  BY <1>4, EffectUntouched
<1> QED  BY <1>5, <1>6, <1>7, <1>8, <1>9

(* Which calls are followed after a call has been made.                      *)
LEMMA FollowedAfterCall ==
  ASSUME HookInv, NEW view \in {shown, held}, Call(view)
  PROVE  Followed' = IF ~BindingIsCurrent(view) THEN Followed
                     ELSE IF view.api = None THEN {} ELSE {Len(calls) + 1}
<1> DEFINE n == Len(calls) + 1
<1>1. /\ Len(calls') = n /\ Len(calls) \in Nat /\ latestCallId \in Nat
      /\ \A i \in 1..Len(calls) : calls'[i] = calls[i]
      /\ UNCHANGED <<activeBinding, generation>>
  BY CallAdds, Shapes DEF Call, poolVars
<1>2. /\ calls'[n].binding = view.binding
      /\ calls'[n].generation = view.generation
      /\ calls'[n].id = IF BindingIsCurrent(view) THEN latestCallId + 1 ELSE 0
      /\ calls'[n].done = (view.api = None)
  BY CallAdds
<1>3. \A i : i \in Followed' <=>
        /\ i \in 1..n /\ ~calls'[i].done /\ calls'[i].id # 0
        /\ activeBinding = calls'[i].binding
        /\ generation = calls'[i].generation /\ latestCallId' = calls'[i].id
  BY <1>1 DEF Followed, IsCurrent, BindingIsCurrent
<1>4. \A i : i \in 1..n <=> i \in 1..Len(calls) \/ i = n
  BY <1>1
<1>5. CASE BindingIsCurrent(view)
  <2>1. latestCallId' = latestCallId + 1
    BY <1>5 DEF Call
  <2>2. \A i \in 1..Len(calls) : i \notin Followed'
    BY <1>1, <1>3, <2>1, CallShape
  <2>3. n \in Followed' <=> view.api # None
    <3>1. calls'[n].id # 0 /\ latestCallId' = calls'[n].id
      BY <1>1, <1>2, <1>5, <2>1
    <3>2. /\ activeBinding = calls'[n].binding
          /\ generation = calls'[n].generation
      BY <1>2, <1>5 DEF BindingIsCurrent
    <3>3. n \in 1..n
      BY <1>1
    <3> QED  BY <1>2, <1>3, <3>1, <3>2, <3>3
  <2> QED  BY <1>3, <1>4, <1>5, <2>2, <2>3
<1>6. CASE ~BindingIsCurrent(view)
  <2>1. latestCallId' = latestCallId
    BY <1>6 DEF Call
  <2>2. n \notin Followed'
    BY <1>2, <1>3, <1>6
  <2>3. \A i \in 1..Len(calls) : i \in Followed' <=> i \in Followed
    BY <1>1, <1>3, <1>4, <2>1 DEF Followed, IsCurrent, BindingIsCurrent
  <2>4. \A i : i \in Followed => i \in 1..Len(calls)
    BY DEF Followed
  <2>5. \A i : i \in Followed' <=> i \in Followed
    BY <1>3, <1>4, <2>2, <2>3, <2>4
  <2>6. Followed' = Followed
    BY <2>5 DEF Followed
  <2> QED  BY <1>6, <2>6
<1> QED  BY <1>5, <1>6

LEMMA LiveCallMaps ==
  ASSUME HookInv, NEW view \in {shown, held}, Call(view),
         BindingIsCurrent(view), Live
  PROVE  HookStepMaps
<1> DEFINE n == Len(calls) + 1
<1>1. /\ HookType' /\ NumbersGivenOut' /\ ShownIsCurrent'
      /\ EffectOfGeneration' /\ OwnsOnePool' /\ Live'
      /\ Len(calls') = n /\ Len(calls) \in Nat
      /\ calls'[n].api = view.api /\ calls'[n].generation = view.generation
  <2>1. /\ HookType' /\ NumbersGivenOut' /\ ShownIsCurrent'
        /\ EffectOfGeneration' /\ OwnsOnePool' /\ Live' = Live
        /\ Len(calls') = n
    BY CallAdds
  <2>2. calls'[n] =
          [binding |-> view.binding, generation |-> view.generation,
           id |-> IF BindingIsCurrent(view) THEN latestCallId + 1 ELSE 0,
           api |-> view.api, done |-> view.api = None]
    BY CallAdds
  <2>3. calls'[n].api = view.api /\ calls'[n].generation = view.generation
    BY <2>2
  <2>4. Len(calls) \in Nat
    BY Shapes
  <2> QED  BY <2>1, <2>3, <2>4
<1>2. /\ subject' = n
      /\ status' = IF view.api = None THEN "error" ELSE "running"
      /\ UNCHANGED <<api, generation, activeBinding, shown>>
  BY DEF Call, reactVars, poolVars
<1>3. /\ activeBinding = shown.binding /\ shown.generation = generation
      /\ view.generation = generation /\ view.api = api
  <2>1. /\ activeBinding = view.binding /\ generation = view.generation
        /\ activeBinding = shown.binding
        /\ shown.generation \in Nat /\ held.generation \in Nat
        /\ generation \in Nat
    BY Shapes DEF BindingIsCurrent, HookInv, NumbersGivenOut, View
  <2>2. shown.generation = generation
    BY <2>1 DEF HookInv, NumbersGivenOut
  <2>3. view.api = shown.api
    BY <2>1 DEF HookInv, NumbersGivenOut
  <2> QED  BY <2>1, <2>2, <2>3 DEF HookInv, ShownIsCurrent
<1>4. Followed' = IF view.api = None THEN {} ELSE {n}
  BY FollowedAfterCall
<1>5. StatusFollows' /\ StatusOfShownPool'
  BY <1>1, <1>2, <1>3, <1>4 DEF StatusFollows, StatusOfShownPool, None
<1>6. Tracked' = IF view.api = None THEN 0 ELSE n
  <2>1. CASE view.api = None
    BY <1>4, <2>1 DEF Tracked
  <2>2. CASE view.api # None
    <3>1. Followed' = {n}
      BY <1>4, <2>2
    <3>2. (CHOOSE i \in Followed' : TRUE) = n
      BY <3>1
    <3> QED  BY <1>1, <2>2, <3>1, <3>2 DEF Tracked
  <2> QED  BY <2>1, <2>2
<1>7. Latest!Begin \/ Latest!Refuse
  BY <1>1, <1>2, <1>6 DEF Latest!Begin, Latest!Refuse
<1> QED
  BY <1>1, <1>5, <1>7 DEF HookStepMaps, HookInv, Latest!LatestNext

(* A call through an outdated function, or before the pool effect has run.   *)
LEMMA OtherCallMaps ==
  ASSUME HookInv, NEW view \in {shown, held}, Call(view),
         ~(BindingIsCurrent(view) /\ Live)
  PROVE  HookStepMaps
<1>1. /\ HookType' /\ NumbersGivenOut' /\ ShownIsCurrent'
      /\ EffectOfGeneration' /\ OwnsOnePool' /\ Live' = Live
      /\ Len(calls') = Len(calls) + 1
      /\ \A i \in 1..Len(calls) : calls'[i] = calls[i]
  BY CallAdds
<1>2. /\ UNCHANGED <<api, generation, activeBinding, shown>>
      /\ ~BindingIsCurrent(view) => UNCHANGED <<subject, status>>
  BY DEF Call, reactVars, poolVars
<1>3. CASE ~Live
  <2>1. StatusFollows' /\ StatusOfShownPool'
    BY <1>1, <1>3 DEF StatusFollows, StatusOfShownPool
  <2>2. Latest!Ignore
    BY <1>1, <1>3 DEF Latest!Ignore, Tracked
  <2> QED  BY <1>1, <2>1, <2>2 DEF HookStepMaps, HookInv, Latest!LatestNext
<1>4. CASE ~BindingIsCurrent(view)
  <2>1. Followed' = Followed /\ UNCHANGED <<subject, status>>
    BY <1>2, <1>4, FollowedAfterCall
  <2>2. StatusFollows'
    BY <1>1, <1>2, <2>1 DEF HookInv, StatusFollows
  <2>3. StatusOfShownPool'
    BY <1>1, <1>2, <2>1, Shapes DEF HookInv, StatusOfShownPool, None
  <2>4. Latest!Ignore
    BY <1>1, <2>1 DEF Latest!Ignore, Tracked
  <2> QED
    BY <1>1, <2>2, <2>3, <2>4 DEF HookStepMaps, HookInv, Latest!LatestNext
<1> QED  BY <1>3, <1>4

LEMMA SettleMaps ==
  ASSUME HookInv, NEW i \in 1..Len(calls), Settle(i)
  PROVE  HookStepMaps
<1>1. /\ calls' = [calls EXCEPT ![i].done = TRUE]
      /\ UNCHANGED <<api, poolStatus, shown, held, connected, passive,
                     activeBinding, latestCallId, generation, poolRef, effect,
                     pools, open>>
  BY DEF Settle, reactVars, poolVars
<1>2. calls \in Seq(Closure) /\ calls[i] \in Closure
  BY CallShape DEF HookInv, HookType, Closure
<1>3. [calls[i] EXCEPT !.done = TRUE] \in Closure
  BY <1>2 DEF Closure
<1>4. /\ calls' \in Seq(Closure) /\ Len(calls') = Len(calls)
      /\ \A j \in 1..Len(calls) :
           calls'[j] = IF j = i THEN [calls[i] EXCEPT !.done = TRUE]
                       ELSE calls[j]
  BY <1>1, <1>2, <1>3
<1>5. \A j \in 1..Len(calls) :
        /\ calls'[j].binding = calls[j].binding
        /\ calls'[j].generation = calls[j].generation
        /\ calls'[j].id = calls[j].id /\ calls'[j].api = calls[j].api
        /\ calls'[j].done = (calls[j].done \/ j = i)
  BY <1>2, <1>4, CallShape, ZenonT(40) DEF Closure
<1>6. HookType'
  <2>1. subject' \in {subject, i}
    BY DEF Settle
  <2>2. status' \in {"idle", "running", "completed", "error"}
    BY DEF Settle, HookInv, HookType
  <2>3. subject' \in 0..Len(calls')
    BY <1>4, <2>1, Shapes
  <2> QED  BY <1>1, <1>4, <2>2, <2>3 DEF HookInv, HookType, Closure
<1>7. NumbersGivenOut'
  BY <1>1, <1>4, <1>5 DEF HookInv, NumbersGivenOut
<1>8. EffectOfGeneration' /\ OwnsOnePool'
  BY <1>1, EffectUntouched
<1>9. ShownIsCurrent' /\ Live' = Live
  BY <1>1 DEF HookInv, ShownIsCurrent, Live
<1>10. Followed' = Followed \ {i}
  BY <1>1, <1>4, <1>5 DEF Followed, IsCurrent, BindingIsCurrent
<1>11. CASE Live /\ IsCurrent(calls[i])
  <2>1. i \in Followed
    BY <1>11 DEF Followed, Settle
  <2>2. status = "running" /\ subject = i /\ Followed = {i}
    BY <1>11, <2>1 DEF HookInv, StatusFollows
  <2>3. subject' = i /\ status' \in {"completed", "error"} /\ Followed' = {}
    BY <1>10, <1>11, <2>2 DEF Settle
  <2>4. StatusFollows'
    BY <2>3 DEF StatusFollows
  <2>5. StatusOfShownPool'
    BY <1>1, <1>5, <1>9, <2>2, <2>3 DEF HookInv, StatusOfShownPool
  <2>6. Tracked = i /\ Tracked' = 0
    BY <1>11, <2>2, <2>3, TrackedCall DEF HookInv, Tracked
  <2>7. Latest!End
    BY <1>4, <1>9, <1>11, <2>2, <2>3, <2>6 DEF Latest!End
  <2> QED
    BY <1>6, <1>7, <1>8, <1>9, <2>4, <2>5, <2>7
       DEF HookStepMaps, HookInv, Latest!LatestNext
<1>12. CASE ~Live
  <2>1. StatusFollows' /\ StatusOfShownPool'
    BY <1>9, <1>12 DEF StatusFollows, StatusOfShownPool
  <2>2. UNCHANGED Latest!latestVars
    BY <1>4, <1>9, <1>12 DEF Latest!latestVars, Tracked
  <2> QED
    BY <1>6, <1>7, <1>8, <1>9, <2>1, <2>2 DEF HookStepMaps, HookInv
<1>13. CASE ~IsCurrent(calls[i])
  <2>1. UNCHANGED <<subject, status>> /\ Followed' = Followed
    BY <1>10, <1>13 DEF Settle, Followed
  <2>2. StatusFollows'
    BY <1>1, <1>9, <2>1 DEF HookInv, StatusFollows
  <2>3. StatusOfShownPool'
    BY <1>1, <1>5, <1>9, <2>1, Shapes DEF HookInv, StatusOfShownPool, None
  <2>4. UNCHANGED Latest!latestVars
    BY <1>4, <1>9, <2>1 DEF Latest!latestVars, Tracked
  <2> QED
    BY <1>6, <1>7, <1>8, <1>9, <2>2, <2>3, <2>4 DEF HookStepMaps, HookInv
<1> QED  BY <1>11, <1>12, <1>13

-----------------------------------------------------------------------------

(* There is no pool and no call at first.                                    *)
LEMMA InitMaps ==
  ASSUME HookInit
  PROVE  HookInv /\ Latest!LatestInit
<1>1. Followed = {} /\ Len(calls) = 0 /\ Len(pools) = 0 /\ ~Live
  BY DEF HookInit, Followed, Live
<1>2. FirstRender \in View /\ NoEffect \in [generation : Nat, pool : 0..0]
  BY DEF FirstRender, View, NoEffect, None
<1>3. HookType
  <2>1. /\ shown \in View /\ held \in View
        /\ effect \in [generation : Nat, pool : 0..Len(pools)]
        /\ pools \in Seq(Nat) /\ calls \in Seq(Closure)
        /\ open \subseteq 1..Len(pools)
    BY <1>1, <1>2 DEF HookInit
  <2>2. /\ api \in 0..Len(pools) /\ subject \in 0..Len(calls)
        /\ poolRef \in 0..Len(pools) /\ generation \in Nat
        /\ latestCallId \in Nat /\ activeBinding = None /\ ~connected
    BY <1>1 DEF HookInit, None
  <2>3. /\ poolStatus \in {"initializing", "ready", "error", "closed"}
        /\ status \in {"idle", "running", "completed", "error"}
        /\ connected \in BOOLEAN /\ passive \in {"none", "run", "clean"}
    BY DEF HookInit
  <2> QED  BY <2>1, <2>2, <2>3 DEF HookType, Closure
<1>4. NumbersGivenOut
  BY <1>1 DEF HookInit, NumbersGivenOut, FirstRender
<1>5. /\ EffectOfGeneration /\ ShownIsCurrent /\ StatusFollows
      /\ StatusOfShownPool /\ OwnsOnePool
  BY <1>1 DEF HookInit, EffectOfGeneration, ShownIsCurrent, StatusFollows,
     StatusOfShownPool, OwnsOnePool
<1>6. Latest!LatestInit
  BY <1>1 DEF HookInit, Latest!LatestInit, Tracked
<1> QED  BY <1>3, <1>4, <1>5, <1>6 DEF HookInv

LEMMA NextMaps ==
  ASSUME HookInv, [HookNext]_hookVars
  PROVE  HookStepMaps
<1>1. CASE UNCHANGED hookVars
  <2>1. UNCHANGED <<api, poolStatus, status, subject, shown, held, connected,
                    passive, activeBinding, latestCallId, generation, poolRef,
                    effect, pools, open, calls>>
    BY <1>1 DEF hookVars, stateVars, reactVars, poolVars
  <2>2. HookType' /\ NumbersGivenOut'
    BY <2>1 DEF HookInv, HookType, NumbersGivenOut
  <2>3. ShownIsCurrent' /\ StatusOfShownPool' /\ Live' = Live
    BY <2>1 DEF HookInv, ShownIsCurrent, StatusOfShownPool, Live
  <2> QED
    BY <2>1, <2>2, <2>3, EffectUntouched, StatusUntouched, Stutters
       DEF HookStepMaps, HookInv
<1>2. CASE HookNext
  <2>1. ASSUME NEW view \in {shown, held}, Call(view)
        PROVE  HookStepMaps
    BY <2>1, LiveCallMaps, OtherCallMaps
  <2> QED
    BY <1>2, <2>1, ConnectMaps, DisconnectMaps, CommitMaps, SetUpMaps,
       CleanUpMaps, ReconfigureMaps, CloseMaps, SettleMaps DEF HookNext
<1> QED  BY <1>1, <1>2

(* The inductive invariant holds in every execution.                         *)
THEOREM HookInvariance == HookSpec => []HookInv
<1>1. HookInit => HookInv
  BY InitMaps
<1>2. HookInv /\ [HookNext]_hookVars => HookInv'
  BY NextMaps DEF HookStepMaps
<1> QED  BY <1>1, <1>2, PTL DEF HookSpec

(* No pool but the one the effect holds is left open.                        *)
THEOREM OnePoolOwned == HookSpec => []OwnsOnePool
<1>1. HookInv => OwnsOnePool
  BY DEF HookInv
<1> QED  BY <1>1, HookInvariance, PTL

(* The api of a ready pool is that of the owned pool, which is open.         *)
THEOREM OwnedPoolOffered == HookSpec => []OffersOwnedPool
<1>1. HookInv => OffersOwnedPool
  BY DEF HookInv, EffectOfGeneration, OffersOwnedPool, AtRest
<1> QED  BY <1>1, HookInvariance, PTL

(* The status is never about a call on a pool that has been replaced.        *)
THEOREM StatusIsOfPool == HookSpec => []StatusOfShownPool
<1>1. HookInv => StatusOfShownPool
  BY DEF HookInv
<1> QED  BY <1>1, HookInvariance, PTL

(* The hook implements LatestCall: "running" is always about the latest call *)
(* it tracks, and the end of no other call is ever published.                *)
THEOREM HookShowsLatestCall == HookSpec => ShowsLatestCall
<1>1. HookInit => Latest!LatestInit
  BY InitMaps
<1>2. HookInv /\ [HookNext]_hookVars
        => [Latest!LatestNext]_(Latest!latestVars)
  BY NextMaps DEF HookStepMaps
<1> QED
  BY <1>1, <1>2, HookInvariance, PTL
     DEF HookSpec, ShowsLatestCall, Latest!LatestSpec

(* What a reader of the status may count on: "running" is shown exactly      *)
(* while the end of a call is still to be shown, and that call is the one    *)
(* the status is about.                                                      *)
LatestInv == Latest!LatestType /\ Latest!RunningIsTracked
SubjectShown == IF Live THEN subject ELSE 0

(* A status about one call is never followed by a status about an earlier    *)
(* one, in whatever order the calls end, and none is left "running" by a     *)
(* call that is over or ignored by the pool hook.                            *)
THEOREM StatusNeverGoesBack ==
  HookSpec => []LatestInv /\ Latest!NeverGoesBack
<1> USE DEF LatestInv, Latest!LatestType, Latest!RunningIsTracked, SubjectShown
<1>1. Latest!LatestInit => LatestInv
  BY DEF Latest!LatestInit
<1>2. LatestInv /\ [Latest!LatestNext]_(Latest!latestVars)
        => LatestInv'
  BY DEF Latest!LatestNext, Latest!latestVars, Latest!Begin,
     Latest!Refuse, Latest!Ignore, Latest!End, Latest!Forget
<1>3. LatestInv /\ [Latest!LatestNext]_(Latest!latestVars)
        => [SubjectShown' = 0 \/ SubjectShown' >= SubjectShown]_(
               Latest!latestVars)
  BY DEF Latest!LatestNext, Latest!latestVars, Latest!Begin,
     Latest!Refuse, Latest!Ignore, Latest!End, Latest!Forget
<1> QED
  BY <1>1, <1>2, <1>3, HookShowsLatestCall, PTL
     DEF Latest!LatestSpec, Latest!NeverGoesBack, ShowsLatestCall

-----------------------------------------------------------------------------
(* The component that uses both hooks.                                       *)

(* The theorems about the task hook, of the task hook of this component.     *)
TaskP == INSTANCE TaskHookProofs WITH
  Apis <- 1..(MaxReconfigs + MaxMounts),
  Methods <- {"fibAsync"}, method <- "fibAsync",
  MaxRuns <- MaxStarted, MaxCallIds <- 5 * MaxMounts + MaxStarted,
  status <- taskStatus, subject <- taskSubject, shown <- taskShown,
  held <- taskHeld, activeBinding <- taskBinding, latestCallId <- taskCallId

-----------------------------------------------------------------------------
(* The pool hook of the component is PoolHook: the other parts never touch   *)
(* its state, and of its own steps the component restricts some.             *)

LEMMA ClientStepIsHookStep ==
  ASSUME [ClientNext]_clientVars
  PROVE  [HookNext]_hookVars
<1>1. CASE UNCHANGED clientVars
  BY <1>1 DEF clientVars
<1>2. CASE ClientConnect \/ ClientDisconnect \/ ClientCommit \/ ClientSetUp
           \/ ClientCleanUp
  BY <1>2 DEF ClientConnect, ClientDisconnect, ClientCommit, ClientSetUp,
     ClientCleanUp, HookNext
<1>3. CASE HookStep
  BY <1>3 DEF HookStep, HookNext
<1>4. CASE TaskStep
  <2>1. connected' = connected
    BY <1>4 DEF TaskStep, Task!Start, Task!Settle
  <2> QED
    BY <1>4, <2>1 DEF TaskStep, hookVars, reactVars
<1>5. CASE AppStep
  <2>1. CASE ApplyConfig
    BY <2>1 DEF ApplyConfig, HookNext
  <2>2. CASE ~ApplyConfig
    BY <1>5, <2>2 DEF AppStep, RunBatch, BatchSettled, UpdateStats
  <2> QED  BY <2>1, <2>2
<1> QED  BY <1>1, <1>2, <1>3, <1>4, <1>5 DEF ClientNext

(* Whatever the component does besides, its pool hook behaves as PoolHook    *)
(* says, so that everything proved of the hook holds of the component's.     *)
THEOREM ClientUsesHook == ClientSpec => HookSpec
<1>1. ClientInit => HookInit
  BY DEF ClientInit
<1>2. [ClientNext]_clientVars => [HookNext]_hookVars
  BY ClientStepIsHookStep
<1> QED  BY <1>1, <1>2, PTL DEF ClientSpec, HookSpec

(* The component owns at most one open pool, offers that one, and never      *)
(* shows a status that is about a call on another.                           *)
THEOREM ClientOwnsOnePool ==
  ClientSpec => [](OwnsOnePool /\ OffersOwnedPool /\ StatusOfShownPool)
BY ClientUsesHook, OnePoolOwned, OwnedPoolOffered, StatusIsOfPool, PTL

(* The component shows the latest call of its pool hook.                     *)
THEOREM ClientShowsLatestCall == ClientSpec => ShowsLatestCall
BY ClientUsesHook, HookShowsLatestCall, PTL

-----------------------------------------------------------------------------
(* The inductive invariant.                                                  *)

Batch == [generation : Nat, done : BOOLEAN]

(* A pool is created only by an effect that was set up with a mount or after *)
(* a change of the options, so there are at most as many as of these.        *)
PoolsCounted ==
  /\ options \in 0..MaxReconfigs /\ dependencies \in 0..options
  /\ mounts \in 0..MaxMounts
  /\ Len(pools) + (IF passive = "run" THEN 1 ELSE 0) <= mounts + dependencies

(* No two pools were created in the same generation, and the pool in the     *)
(* effect's closure was created in the generation in that closure.           *)
PoolGenerations ==
  /\ \A i \in 1..Len(pools) : pools[i] <= generation
  /\ \A i, j \in 1..Len(pools) : i < j => pools[i] < pools[j]
  /\ effect.pool # None => pools[effect.pool] = effect.generation

(* The statistics beside a ready pool are its own unless the form was        *)
(* applied and the effect that replaces the pool is due.                     *)
StatsFollow ==
  /\ stats \in 0..Len(pools)
  /\ Live /\ poolStatus = "ready" /\ passive = "none"
       /\ dependencies = options => stats = poolRef

(* Each batch has a generation of its own; the one shown running is the one  *)
(* whose end will be shown.                                                  *)
BatchFollows ==
  /\ batchGeneration \in Nat
  /\ batchStatus \in {"idle", "running", "completed", "error"}
  /\ batches \in Seq(Batch) /\ batchSubject \in 0..Len(batches)
  /\ \A i \in 1..Len(batches) : batches[i].generation <= batchGeneration
  /\ PendingBatches = IF batchStatus = "running" THEN {batchSubject} ELSE {}
  /\ batchStatus = "running" => batchSubject # None

ClientInv ==
  /\ HookInv /\ TaskP!TaskInv
  /\ PoolsCounted /\ PoolGenerations /\ StatsFollow /\ BatchFollows

-----------------------------------------------------------------------------
(* The pools that were created: how many, and in which generations.          *)

LEMMA PoolNumbers ==
  ASSUME HookInv
  PROVE  /\ pools \in Seq(Nat) /\ \A i \in 1..Len(pools) : pools[i] \in Nat
         /\ CleanedUp.generation + 1 \in Nat
<1>1. pools \in Seq(Nat)
  BY DEF HookInv, HookType
<1> QED  BY <1>1, CleanedUpRefs

LEMMA PoolsStayCounted ==
  ASSUME HookInv, PoolsCounted, [HookNext]_hookVars
  PROVE  PoolsCounted'
<1>1. /\ options \in 0..MaxReconfigs /\ dependencies \in 0..options
      /\ mounts \in 0..MaxMounts /\ Len(pools) \in Nat
      /\ MaxReconfigs \in Nat /\ MaxMounts \in Nat
      /\ Len(pools) + (IF passive = "run" THEN 1 ELSE 0)
           <= mounts + dependencies
  BY PoolHookAssumption DEF PoolsCounted, HookInv, HookType
<1>2. CASE Connect
  <2>1. /\ mounts < MaxMounts /\ mounts' = mounts + 1 /\ passive = "none"
        /\ passive' = "run" /\ dependencies' \in {options, dependencies}
        /\ UNCHANGED <<options, pools>>
    BY <1>2 DEF Connect, poolVars
  <2> QED  BY <1>1, <2>1 DEF PoolsCounted
<1>3. CASE Commit
  <2>1. /\ passive = "none" /\ dependencies' = options
        /\ passive' = IF options # dependencies THEN "run" ELSE "none"
        /\ UNCHANGED <<options, mounts, pools>>
    BY <1>3 DEF Commit, poolVars, countVars
  <2> QED  BY <1>1, <2>1 DEF PoolsCounted
<1>4. CASE SetUp
  <2>1. pools \in Seq(Nat) /\ CleanedUp.generation + 1 \in Nat
    BY PoolNumbers
  <2>2. /\ passive = "run" /\ passive' = "none"
        /\ pools' \in {pools, Append(pools, CleanedUp.generation + 1)}
        /\ UNCHANGED <<options, dependencies, mounts>>
    BY <1>4 DEF SetUp, CreatePool, FailToCreate, reactVars, countVars
  <2>3. Len(pools') \in Nat /\ Len(pools') <= Len(pools) + 1
    BY <1>1, <2>1, <2>2
  <2> QED  BY <1>1, <2>2, <2>3 DEF PoolsCounted
<1>5. CASE Reconfigure
  <2>1. /\ options < MaxReconfigs /\ options' = options + 1
        /\ UNCHANGED <<dependencies, mounts, pools, passive>>
    BY <1>5 DEF Reconfigure, reactVars, poolVars, countVars
  <2> QED  BY <1>1, <2>1 DEF PoolsCounted
<1>6. CASE Disconnect \/ CleanUp
  <2>1. /\ passive \in {"none", "clean"} /\ passive' \in {"none", "clean"}
        /\ UNCHANGED <<options, dependencies, mounts, pools>>
    BY <1>6 DEF Disconnect, CleanUp, reactVars, poolVars, countVars
  <2> QED  BY <1>1, <2>1 DEF PoolsCounted
<1>7. ASSUME UNCHANGED <<options, dependencies, mounts, pools, passive>>
      PROVE  PoolsCounted'
  BY <1>7 DEF PoolsCounted
<1>8. CASE \/ Close \/ UNCHANGED hookVars
           \/ \E view \in {shown, held} : Call(view)
           \/ \E i \in 1..Len(calls) : Settle(i)
  <2>1. UNCHANGED <<options, dependencies, mounts, pools, passive>>
    BY <1>8 DEF Close, Call, Settle, hookVars, reactVars, poolVars, countVars
  <2> QED  BY <1>7, <2>1
<1> QED  BY <1>2, <1>3, <1>4, <1>5, <1>6, <1>8 DEF HookNext

LEMMA GenerationsStayApart ==
  ASSUME HookInv, PoolGenerations, [HookNext]_hookVars
  PROVE  PoolGenerations'
<1>1. /\ pools \in Seq(Nat) /\ Len(pools) \in Nat /\ generation \in Nat
      /\ effect.pool \in 0..Len(pools)
      /\ \A i \in 1..Len(pools) : pools[i] \in Nat
  BY DEF HookInv, HookType
<1>2. ASSUME generation' \in Nat, generation' >= generation, pools' = pools,
             \/ effect' = effect
             \/ effect'.pool = None
      PROVE  PoolGenerations'
  <2>1. \A i \in 1..Len(pools) : pools[i] <= generation'
    BY <1>1, <1>2 DEF PoolGenerations
  <2> QED  BY <1>2, <2>1 DEF PoolGenerations
<1>3. CASE SetUp
  <2> DEFINE g == CleanedUp.generation + 1
             n == Len(pools) + 1
  <2>1. g \in Nat /\ g > generation /\ generation' = g
    BY <1>1, <1>3, CleanedUpRefs DEF SetUp
  <2>2. CASE FailToCreate(CleanedUp)
    <3>1. pools' = pools /\ effect'.pool = None
      BY <2>2 DEF FailToCreate
    <3> QED  BY <1>1, <1>2, <2>1, <3>1
  <2>3. CASE CreatePool(CleanedUp)
    <3>1. pools' = Append(pools, g) /\ effect' = [generation |-> g, pool |-> n]
      BY <2>3 DEF CreatePool
    <3> HIDE DEF g
    <3>2. /\ Len(pools') = n /\ pools'[n] = g
          /\ \A i \in 1..Len(pools) : pools'[i] = pools[i]
      BY <1>1, <2>1, <3>1
    <3>3. \A i \in 1..Len(pools') : i \in 1..Len(pools) \/ i = n
      BY <1>1, <3>2
    <3>4. \A i \in 1..Len(pools) : pools[i] < g
      BY <1>1, <2>1 DEF PoolGenerations
    <3>5. \A i \in 1..Len(pools') : pools'[i] <= generation'
      BY <2>1, <3>2, <3>3, <3>4, <1>1
    <3>6. ASSUME NEW i \in 1..Len(pools'), NEW j \in 1..Len(pools'), i < j
          PROVE  pools'[i] < pools'[j]
      <4>1. i \in 1..Len(pools)
        BY <1>1, <3>2, <3>6
      <4>2. CASE j \in 1..Len(pools)
        BY <3>2, <3>6, <4>1, <4>2 DEF PoolGenerations
      <4>3. CASE j = n
        BY <3>2, <3>4, <4>1, <4>3
      <4> QED  BY <3>3, <4>2, <4>3
    <3>7. effect'.pool # None => pools'[effect'.pool] = effect'.generation
      BY <3>1, <3>2
    <3> QED  BY <3>5, <3>6, <3>7 DEF PoolGenerations
  <2> QED  BY <1>3, <2>2, <2>3 DEF SetUp
<1>4. CASE CleanUp
  <2>1. /\ generation' = CleanedUp.generation /\ pools' = pools
        /\ effect' = NoEffect
    BY <1>4 DEF CleanUp
  <2> QED  BY <1>2, <2>1, CleanedUpRefs DEF NoEffect
<1>5. CASE \/ Connect \/ Disconnect \/ Commit \/ Reconfigure \/ Close
           \/ UNCHANGED hookVars
           \/ \E view \in {shown, held} : Call(view)
           \/ \E i \in 1..Len(calls) : Settle(i)
  <2>1. UNCHANGED <<generation, pools, effect>>
    BY <1>5 DEF Connect, Disconnect, Commit, Reconfigure, Close, Call, Settle,
       hookVars, poolVars
  <2> QED  BY <1>1, <1>2, <2>1
<1> QED  BY <1>3, <1>4, <1>5 DEF HookNext

-----------------------------------------------------------------------------
(* The task hook, whose api is the pool hook's.                              *)

(* The instances of TaskHook and of its proofs say the same.                 *)
LEMMA SameTask ==
  /\ Task!TaskInit => TaskP!TaskInit
  /\ Task!Commit => TaskP!Commit
  /\ Task!Connect => TaskP!Connect
  /\ Task!Disconnect => TaskP!Disconnect
  /\ \A view : Task!Start(view) => TaskP!Start(view)
  /\ \A i : Task!Settle(i) => TaskP!Settle(i)
<1> USE DEF Task!None, TaskP!None, Task!arguments, TaskP!arguments
<1>1. Task!TaskInit => TaskP!TaskInit
  BY DEF Task!TaskInit, TaskP!TaskInit
<1>2. Task!Commit => TaskP!Commit
  BY DEF Task!Commit, TaskP!Commit, Task!Rendered, TaskP!Rendered,
     Task!Rebind, TaskP!Rebind
<1>3. Task!Connect => TaskP!Connect
  BY DEF Task!Connect, TaskP!Connect, Task!Rendered, TaskP!Rendered,
     Task!Rebind, TaskP!Rebind
<1>4. Task!Disconnect => TaskP!Disconnect
  BY DEF Task!Disconnect, TaskP!Disconnect
<1>5. ASSUME NEW view, Task!Start(view)
      PROVE  TaskP!Start(view)
  BY <1>5 DEF Task!Start, TaskP!Start, Task!BindingIsCurrent,
     TaskP!BindingIsCurrent
<1>6. ASSUME NEW i, Task!Settle(i)
      PROVE  TaskP!Settle(i)
  BY <1>6 DEF Task!Settle, TaskP!Settle, Task!IsCurrent, TaskP!IsCurrent,
     Task!BindingIsCurrent, TaskP!BindingIsCurrent
<1> QED  BY <1>1, <1>2, <1>3, <1>4, <1>5, <1>6

LEMMA SameLatest ==
  /\ TaskP!Latest!LatestInit => Task!Latest!LatestInit
  /\ [TaskP!Latest!LatestNext]_(TaskP!Latest!latestVars)
       => [Task!Latest!LatestNext]_(Task!Latest!latestVars)
<1>1. Task!Tracked = TaskP!Tracked /\ Task!Tracked' = TaskP!Tracked'
  BY DEF Task!Tracked, TaskP!Tracked, Task!Followed, TaskP!Followed,
     Task!IsCurrent, TaskP!IsCurrent, Task!BindingIsCurrent,
     TaskP!BindingIsCurrent
<1> QED
  BY <1>1 DEF Task!Latest!LatestInit, TaskP!Latest!LatestInit,
     Task!Latest!LatestNext, TaskP!Latest!LatestNext,
     Task!Latest!latestVars, TaskP!Latest!latestVars,
     Task!Latest!Begin, TaskP!Latest!Begin,
     Task!Latest!Refuse, TaskP!Latest!Refuse,
     Task!Latest!Ignore, TaskP!Latest!Ignore,
     Task!Latest!End, TaskP!Latest!End,
     Task!Latest!Forget, TaskP!Latest!Forget

(* What is assumed of the constants of TaskHook.                             *)
LEMMA TaskConstants ==
  /\ 1..(MaxReconfigs + MaxMounts) \subseteq Nat \ {0}
  /\ MaxStarted \in Nat /\ 5 * MaxMounts + MaxStarted \in Nat
BY PoolHookAssumption, ClientAssumption

(* The api the pool hook offers is one that TaskHook knows.                  *)
LEMMA ApiIsKnown ==
  ASSUME HookInv', PoolsCounted'
  PROVE  api' \in 1..(MaxReconfigs + MaxMounts) \cup {0}
<1>1. api' \in 0..Len(pools') /\ Len(pools') \in Nat
  BY DEF HookInv, HookType
<1>2. Len(pools') <= MaxReconfigs + MaxMounts
  BY <1>1, PoolHookAssumption DEF PoolsCounted
<1> QED  BY <1>1, <1>2, PoolHookAssumption

(* A step of the pool hook may hand the task hook another api; until it      *)
(* renders with it, the task hook stays as it is.                            *)
LEMMA ApiMovesAlone ==
  ASSUME TaskP!TaskInv, HookInv', PoolsCounted',
         UNCHANGED <<taskHookVars, connected>>
  PROVE  TaskP!KeepsAndMaps
<1>1. UNCHANGED <<taskStatus, taskSubject, taskShown, taskHeld, taskBinding,
                  taskCallId, runs, connected>>
  BY DEF taskHookVars
<1>2. api' \in 1..(MaxReconfigs + MaxMounts) \cup {TaskP!None}
  BY ApiIsKnown DEF TaskP!None
<1>3. TaskP!TaskType'
  BY <1>1, <1>2 DEF TaskP!TaskInv, TaskP!TaskType
<1> QED  BY <1>1, <1>3, TaskConstants, TaskP!OtherStepsMap

LEMMA TaskKept ==
  ASSUME TaskP!TaskInv, HookInv', PoolsCounted', [ClientNext]_clientVars
  PROVE  TaskP!KeepsAndMaps
<1>1. CASE ClientCommit
  BY <1>1, SameTask, TaskConstants, TaskP!CommitMaps DEF ClientCommit
<1>2. CASE ClientConnect
  BY <1>2, SameTask, TaskConstants, TaskP!ConnectMaps DEF ClientConnect
<1>3. CASE ClientDisconnect
  BY <1>3, SameTask, TaskConstants, TaskP!DisconnectMaps DEF ClientDisconnect
<1>4. CASE TaskStep
  <2>1. ASSUME NEW view \in {taskShown, taskHeld}, Task!Start(view)
        PROVE  TaskP!KeepsAndMaps
    BY <2>1, SameTask, TaskConstants, TaskP!LiveStartMaps,
       TaskP!OutdatedStartMaps
  <2>2. ASSUME NEW i \in 1..Len(runs), Task!Settle(i)
        PROVE  TaskP!KeepsAndMaps
    BY <2>2, SameTask, TaskConstants, TaskP!SettleMaps
  <2> QED  BY <1>4, <2>1, <2>2 DEF TaskStep
<1>5. CASE \/ ClientSetUp \/ ClientCleanUp \/ HookStep \/ AppStep
           \/ UNCHANGED clientVars
  <2>1. UNCHANGED taskHookVars
    BY <1>5 DEF ClientSetUp, ClientCleanUp, HookStep, AppStep, ApplyConfig,
       RunBatch, BatchSettled, UpdateStats, clientVars
  <2>2. connected' = connected
    BY <1>5 DEF ClientSetUp, ClientCleanUp, HookStep, AppStep, ApplyConfig,
       RunBatch, BatchSettled, UpdateStats, clientVars, hookVars, reactVars,
       SetUp, CleanUp, Call, Settle, Close, Reconfigure
  <2> QED  BY <2>1, <2>2, ApiMovesAlone
<1> QED  BY <1>1, <1>2, <1>3, <1>4, <1>5 DEF ClientNext

-----------------------------------------------------------------------------
(* The statistics.                                                           *)

(* A report that is taken over is from the pool of the current generation,   *)
(* and that is the pool that is shown.                                       *)
LEMMA StatsKept ==
  ASSUME ClientInv, HookInv', PoolsCounted', PoolGenerations',
         [ClientNext]_clientVars
  PROVE  StatsFollow'
<1> HookInv /\ PoolGenerations /\ PoolsCounted /\ StatsFollow
  BY DEF ClientInv
<1>1. /\ Len(pools) \in Nat /\ stats \in 0..Len(pools)
      /\ Live /\ poolStatus = "ready" /\ passive = "none"
           /\ dependencies = options => stats = poolRef
      /\ options \in Nat
  BY PoolHookAssumption
     DEF HookInv, HookType, StatsFollow, PoolsCounted
<1>2. CASE ClientSetUp
  <2>1. /\ pools' = pools \/ Len(pools') = Len(pools) + 1
        /\ pools' # pools => poolRef' = Len(pools')
        /\ pools' = pools => poolStatus' = "error"
    <3>1. pools \in Seq(Nat) /\ CleanedUp.generation + 1 \in Nat
      BY PoolNumbers
    <3>2. CASE CreatePool(CleanedUp)
      <4>1. /\ pools' = Append(pools, CleanedUp.generation + 1)
            /\ poolRef' = Len(pools) + 1
        BY <3>2 DEF CreatePool
      <4>2. Len(pools') = Len(pools) + 1
        BY <3>1, <4>1
      <4> QED  BY <1>1, <4>1, <4>2
    <3>3. CASE FailToCreate(CleanedUp)
      BY <3>3 DEF FailToCreate
    <3> QED  BY <1>2, <3>2, <3>3 DEF ClientSetUp, SetUp
  <2>2. stats' = IF pools' = pools THEN stats ELSE Len(pools')
    BY <1>2 DEF ClientSetUp
  <2> QED  BY <1>1, <2>1, <2>2 DEF StatsFollow
<1>3. CASE ApplyConfig
  <2>1. /\ stats' = None /\ options' = options + 1
        /\ UNCHANGED <<dependencies, pools>>
    BY <1>3 DEF ApplyConfig, Reconfigure, reactVars, poolVars
  <2>2. options' # dependencies'
    BY <2>1, PoolHookAssumption DEF PoolsCounted
  <2> QED  BY <1>1, <2>1, <2>2 DEF StatsFollow, None
<1>4. ASSUME NEW pool \in 1..Len(pools), UpdateStats(pool)
      PROVE  StatsFollow'
  <2>1. UNCHANGED <<hookVars, options, pools, generation, passive, poolRef,
                    poolStatus, dependencies, effect, connected>>
    BY <1>4 DEF UpdateStats, hookVars, stateVars, poolVars, reactVars
  <2>2. stats' = IF generation = pools[pool] THEN pool ELSE stats
    BY <1>4 DEF UpdateStats
  <2>3. ASSUME Live, poolStatus = "ready", generation = pools[pool]
        PROVE  pool = poolRef
    <3>1. /\ poolRef \in open /\ open \subseteq {effect.pool}
          /\ open \subseteq 1..Len(pools)
          /\ effect.generation = generation
      BY <2>3 DEF HookInv, HookType, EffectOfGeneration, OwnsOnePool,
         Live
    <3>2. /\ poolRef \in 1..Len(pools) /\ pools[poolRef] = generation
      BY <1>1, <3>1 DEF PoolGenerations, None
    <3>3. \A i \in 1..Len(pools) : pools[i] \in Nat
      BY PoolNumbers
    <3>4. ~(pool < poolRef) /\ ~(poolRef < pool)
      BY <2>3, <3>2, <3>3 DEF PoolGenerations
    <3> QED  BY <1>1, <3>2, <3>4
  <2> QED  BY <1>1, <2>1, <2>2, <2>3 DEF StatsFollow, Live
<1>5. CASE ClientCommit
  <2>1. /\ passive = "none" /\ dependencies' = options /\ options' = options
        /\ passive' = IF options # dependencies THEN "run" ELSE "none"
        /\ UNCHANGED <<stats, pools, poolRef, poolStatus, connected, effect>>
    BY <1>5 DEF ClientCommit, Commit, stateVars, poolVars
  <2> QED  BY <1>1, <2>1 DEF StatsFollow, Live
<1>6. CASE ClientConnect \/ ClientDisconnect \/ ClientCleanUp
  <2>1. UNCHANGED <<stats, pools>>
    BY <1>6 DEF ClientConnect, ClientDisconnect, ClientCleanUp, Connect,
       Disconnect, CleanUp, poolVars
  <2>2. passive' # "none" \/ ~Live'
    BY <1>6 DEF ClientConnect, ClientDisconnect, ClientCleanUp, Connect,
       Disconnect, CleanUp, Live
  <2> QED  BY <1>1, <2>1, <2>2 DEF StatsFollow
<1>7. CASE HookStep /\ Close
  <2>1. poolStatus' = "closed" /\ UNCHANGED <<stats, pools>>
    BY <1>7 DEF HookStep, Close
  <2> QED  BY <1>1, <2>1 DEF StatsFollow
<1>8. CASE \/ HookStep /\ ~Close
           \/ TaskStep \/ RunBatch \/ UNCHANGED clientVars
           \/ \E i \in 1..Len(batches) : BatchSettled(i)
  <2>1. UNCHANGED <<stats, pools, poolRef, poolStatus, options, dependencies,
                    passive, effect, connected>>
    BY <1>8 DEF HookStep, TaskStep, RunBatch, BatchSettled, Call, Settle,
       Task!Start, Task!Settle, clientVars, hookVars, stateVars, reactVars,
       poolVars
  <2> QED  BY <1>1, <2>1 DEF StatsFollow, Live
<1> QED
  BY <1>2, <1>3, <1>4, <1>5, <1>6, <1>7, <1>8 DEF ClientNext, AppStep

-----------------------------------------------------------------------------
(* The batch.                                                                *)

LEMMA PendingBatch ==
  ASSUME NEW i
  PROVE  i \in PendingBatches <=>
           /\ i \in 1..Len(batches) /\ ~batches[i].done
           /\ batches[i].generation = batchGeneration
BY DEF PendingBatches

LEMMA BatchShape ==
  ASSUME BatchFollows, NEW i \in 1..Len(batches)
  PROVE  /\ batches[i] \in Batch /\ batches[i].generation \in Nat
         /\ batches[i].done \in BOOLEAN
         /\ batches[i].generation <= batchGeneration
<1>1. batches[i] \in Batch
  BY DEF BatchFollows
<1> QED  BY <1>1 DEF Batch, BatchFollows

(* In the terms of LatestCall, the tracked batch is the one shown running.   *)
LEMMA TrackedBatch ==
  ASSUME BatchFollows
  PROVE  (IF PendingBatches = {} THEN 0
          ELSE CHOOSE i \in PendingBatches : TRUE)
           = IF batchStatus = "running" THEN batchSubject ELSE 0
<1>1. CASE batchStatus = "running"
  <2>1. PendingBatches = {batchSubject}
    BY <1>1 DEF BatchFollows
  <2>2. (CHOOSE i \in PendingBatches : TRUE) = batchSubject
    BY <2>1
  <2> QED  BY <1>1, <2>1, <2>2
<1>2. CASE batchStatus # "running"
  BY <1>2 DEF BatchFollows
<1> QED  BY <1>1, <1>2

BatchStepMaps ==
  BatchFollows' /\ [LatestBatch!LatestNext]_(LatestBatch!latestVars)

(* Applying the form forgets the batch that was shown.                       *)
LEMMA ApplyConfigMaps ==
  ASSUME BatchFollows, ApplyConfig
  PROVE  BatchStepMaps
<1>1. /\ batchGeneration \in Nat /\ batches \in Seq(Batch)
      /\ \A i \in 1..Len(batches) : batches[i].generation <= batchGeneration
  BY DEF BatchFollows
<1>2. /\ batchGeneration' = batchGeneration + 1 /\ batches' = batches
      /\ batchStatus' = "idle" /\ batchSubject' = None
  BY DEF ApplyConfig
<1>3. \A i \in 1..Len(batches) :
        /\ batches[i].generation \in Nat
        /\ batches[i].generation < batchGeneration'
  BY <1>1, <1>2, BatchShape
<1>4. PendingBatches' = {}
  BY <1>2, <1>3 DEF PendingBatches
<1>5. BatchFollows'
  BY <1>1, <1>2, <1>3, <1>4 DEF BatchFollows, None
<1>6. LatestBatch!Forget
  BY <1>2, <1>4 DEF LatestBatch!Forget, None
<1> QED  BY <1>5, <1>6 DEF BatchStepMaps, LatestBatch!LatestNext

LEMMA RunBatchMaps ==
  ASSUME BatchFollows, RunBatch
  PROVE  BatchStepMaps
<1> DEFINE n == Len(batches) + 1
           b == [generation |-> batchGeneration + 1, done |-> FALSE]
<1>1. /\ batchGeneration \in Nat /\ batches \in Seq(Batch)
      /\ Len(batches) \in Nat
      /\ \A i \in 1..Len(batches) : batches[i].generation <= batchGeneration
  BY DEF BatchFollows
<1>2. /\ batchGeneration' = batchGeneration + 1
      /\ batchStatus' = "running" /\ batchSubject' = n
      /\ batches' = Append(batches, b)
  BY DEF RunBatch
<1>3. b \in Batch /\ b.generation = batchGeneration' /\ ~b.done
  BY <1>1, <1>2 DEF Batch
<1> HIDE DEF b
<1>4. /\ batches' \in Seq(Batch) /\ Len(batches') = n /\ batches'[n] = b
      /\ \A i \in 1..Len(batches) : batches'[i] = batches[i]
  BY <1>1, <1>2, <1>3
<1>5. \A i : i \in 1..n <=> i \in 1..Len(batches) \/ i = n
  BY <1>1
<1>6. \A i \in 1..Len(batches) :
        /\ batches[i].generation \in Nat
        /\ batches[i].generation < batchGeneration'
  BY <1>1, <1>2, BatchShape
<1>7. \A i \in 1..n : batches'[i].generation <= batchGeneration'
  BY <1>1, <1>2, <1>3, <1>4, <1>5, <1>6
<1>8. PendingBatches' = {n}
  <2>1. \A i : i \in PendingBatches' <=>
          /\ i \in 1..n /\ ~batches'[i].done
          /\ batches'[i].generation = batchGeneration'
    BY <1>4 DEF PendingBatches
  <2>2. \A i \in 1..Len(batches) :
          batches'[i].generation # batchGeneration'
    BY <1>1, <1>2, <1>4, <1>6
  <2> QED  BY <1>3, <1>4, <1>5, <2>1, <2>2
<1>9. BatchFollows'
  BY <1>1, <1>2, <1>4, <1>7, <1>8 DEF BatchFollows, None
<1>10. (CHOOSE i \in PendingBatches' : TRUE) = n
  BY <1>8
<1>11. LatestBatch!Begin
  BY <1>2, <1>4, <1>8, <1>10 DEF LatestBatch!Begin
<1> QED  BY <1>9, <1>11 DEF BatchStepMaps, LatestBatch!LatestNext

LEMMA BatchSettledMaps ==
  ASSUME BatchFollows, NEW i \in 1..Len(batches), BatchSettled(i)
  PROVE  BatchStepMaps
<1>1. /\ batches \in Seq(Batch) /\ batches[i] \in Batch /\ ~batches[i].done
      /\ batches' = [batches EXCEPT ![i].done = TRUE]
      /\ batchGeneration' = batchGeneration
  BY DEF BatchFollows, BatchSettled
<1>2. [batches[i] EXCEPT !.done = TRUE] \in Batch
  BY <1>1 DEF Batch
<1>3. /\ batches' \in Seq(Batch) /\ Len(batches') = Len(batches)
      /\ \A j \in 1..Len(batches) :
           batches'[j] = IF j = i THEN [batches[i] EXCEPT !.done = TRUE]
                         ELSE batches[j]
  BY <1>1, <1>2
<1>4. ASSUME NEW j \in 1..Len(batches)
      PROVE  /\ batches'[j].generation = batches[j].generation
             /\ batches'[j].done = (batches[j].done \/ j = i)
  <2>1. batches[j] \in Batch /\ batches[j].done \in BOOLEAN
    BY BatchShape
  <2>2. CASE j = i
    <3>1. batches'[j] = [batches[j] EXCEPT !.done = TRUE]
      BY <1>3, <2>2
    <3>2. /\ batches'[j].generation = batches[j].generation
          /\ batches'[j].done = TRUE
      BY <2>1, <3>1 DEF Batch
    <3> QED  BY <2>2, <3>2
  <2>3. CASE j # i
    BY <1>3, <2>1, <2>3
  <2> QED  BY <2>2, <2>3
<1>5. PendingBatches' = PendingBatches \ {i}
  BY <1>1, <1>3, <1>4 DEF PendingBatches
<1>6. \A j \in 1..Len(batches') : batches'[j].generation <= batchGeneration'
  BY <1>1, <1>3, <1>4 DEF BatchFollows
<1>7. CASE batches[i].generation = batchGeneration
  <2>1. i \in PendingBatches
    BY <1>1, <1>7 DEF PendingBatches
  <2>2. /\ batchStatus = "running" /\ batchSubject = i
        /\ PendingBatches = {i} /\ PendingBatches' = {}
    BY <1>5, <2>1 DEF BatchFollows
  <2>3. batchSubject' = i /\ batchStatus' \in {"completed", "error"}
    BY <1>7 DEF BatchSettled
  <2>4. BatchFollows'
    BY <1>1, <1>3, <1>6, <2>2, <2>3 DEF BatchFollows
  <2>5. (CHOOSE j \in PendingBatches : TRUE) = i
    BY <2>2
  <2>6. i # 0
    BY DEF BatchFollows
  <2>7. LatestBatch!End
    BY <1>3, <2>2, <2>3, <2>5, <2>6 DEF LatestBatch!End
  <2> QED  BY <2>4, <2>7 DEF BatchStepMaps, LatestBatch!LatestNext
<1>8. CASE batches[i].generation # batchGeneration
  <2>1. UNCHANGED <<batchSubject, batchStatus>>
    BY <1>8 DEF BatchSettled
  <2>2. PendingBatches' = PendingBatches
    BY <1>5, <1>8 DEF PendingBatches
  <2>3. BatchFollows'
    BY <1>1, <1>3, <1>6, <2>1, <2>2 DEF BatchFollows
  <2>4. UNCHANGED LatestBatch!latestVars
    BY <1>3, <2>1, <2>2 DEF LatestBatch!latestVars
  <2> QED  BY <2>3, <2>4 DEF BatchStepMaps
<1> QED  BY <1>7, <1>8

LEMMA BatchKept ==
  ASSUME BatchFollows, [ClientNext]_clientVars
  PROVE  BatchStepMaps
<1>1. ASSUME UNCHANGED batchVars
      PROVE  BatchStepMaps
  <2>1. /\ UNCHANGED <<batchGeneration, batchStatus, batchSubject, batches>>
        /\ PendingBatches' = PendingBatches
    BY <1>1 DEF batchVars, PendingBatches
  <2> QED  BY <2>1 DEF BatchStepMaps, BatchFollows, LatestBatch!latestVars
<1>2. CASE ApplyConfig
  BY <1>2, ApplyConfigMaps
<1>3. CASE RunBatch
  BY <1>3, RunBatchMaps
<1>4. CASE \E i \in 1..Len(batches) : BatchSettled(i)
  BY <1>4, BatchSettledMaps
<1>5. CASE \/ ClientConnect \/ ClientDisconnect \/ ClientCommit
           \/ ClientSetUp \/ ClientCleanUp \/ HookStep \/ TaskStep
           \/ UNCHANGED clientVars
           \/ \E pool \in 1..Len(pools) : UpdateStats(pool)
  <2>1. UNCHANGED batchVars
    BY <1>5 DEF ClientConnect, ClientDisconnect, ClientCommit, ClientSetUp,
       ClientCleanUp, HookStep, TaskStep, UpdateStats, clientVars
  <2> QED  BY <1>1, <2>1
<1> QED  BY <1>2, <1>3, <1>4, <1>5 DEF ClientNext, AppStep

-----------------------------------------------------------------------------

LEMMA ClientInitInv ==
  ASSUME ClientInit
  PROVE  /\ ClientInv /\ TaskP!Latest!LatestInit
         /\ LatestBatch!LatestInit
<1>1. HookInv
  BY InitMaps DEF ClientInit
<1>2. TaskP!TaskInv /\ TaskP!Latest!LatestInit
  BY SameTask, TaskConstants, TaskP!InitMaps DEF ClientInit
<1>3. PoolsCounted /\ PoolGenerations
  BY PoolHookAssumption DEF ClientInit, HookInit, PoolsCounted,
     PoolGenerations, NoEffect
<1>4. StatsFollow
  BY DEF ClientInit, HookInit, StatsFollow, Live, None
<1>5. PendingBatches = {} /\ batches \in Seq(Batch) /\ Len(batches) = 0
  BY DEF ClientInit, PendingBatches
<1>6. BatchFollows
  BY <1>5 DEF ClientInit, BatchFollows, None
<1>7. LatestBatch!LatestInit
  BY <1>5 DEF ClientInit, LatestBatch!LatestInit, None
<1> QED  BY <1>1, <1>2, <1>3, <1>4, <1>6, <1>7 DEF ClientInv

LEMMA ClientStep ==
  ASSUME ClientInv, [ClientNext]_clientVars
  PROVE  /\ ClientInv'
         /\ [TaskP!Latest!LatestNext]_(TaskP!Latest!latestVars)
         /\ [LatestBatch!LatestNext]_(LatestBatch!latestVars)
<1>1. [HookNext]_hookVars
  BY ClientStepIsHookStep
<1>2. /\ HookInv /\ TaskP!TaskInv /\ PoolsCounted /\ PoolGenerations
      /\ BatchFollows
  BY DEF ClientInv
<1>3. HookInv'
  BY <1>1, <1>2, NextMaps DEF HookStepMaps
<1>4. PoolsCounted' /\ PoolGenerations'
  BY <1>1, <1>2, PoolsStayCounted, GenerationsStayApart
<1>5. TaskP!TaskInv' /\ [TaskP!Latest!LatestNext]_(TaskP!Latest!latestVars)
  BY <1>2, <1>3, <1>4, TaskKept DEF TaskP!KeepsAndMaps
<1>6. StatsFollow'
  BY <1>3, <1>4, StatsKept
<1>7. BatchFollows' /\ [LatestBatch!LatestNext]_(LatestBatch!latestVars)
  BY <1>2, BatchKept DEF BatchStepMaps
<1> QED  BY <1>3, <1>4, <1>5, <1>6, <1>7 DEF ClientInv

(* The inductive invariant of the component holds in every execution.        *)
THEOREM ClientInvariance == ClientSpec => []ClientInv
<1>1. ClientInit => ClientInv
  BY ClientInitInv
<1>2. ClientInv /\ [ClientNext]_clientVars => ClientInv'
  BY ClientStep
<1> QED  BY <1>1, <1>2, PTL DEF ClientSpec

(* The state of both hooks and of the component is well formed; in           *)
(* particular every api the task hook is handed is that of a pool that was   *)
(* created.                                                                  *)
THEOREM ClientTyped == ClientSpec => []ClientType
<1>1. ClientInv => ClientType
  <2> SUFFICES ASSUME ClientInv
               PROVE  ClientType
    OBVIOUS
  <2>1. TaskP!TaskType /\ HookType
    BY DEF ClientInv, HookInv, TaskP!TaskInv
  <2>2. Task!TaskType
    BY <2>1 DEF TaskP!TaskType, Task!TaskType, TaskP!View, Task!View,
       TaskP!Run, Task!Run, TaskP!None, Task!None
  <2> QED
    BY <2>1, <2>2 DEF ClientInv, StatsFollow, BatchFollows, ClientType, Batch
<1> QED  BY <1>1, ClientInvariance, PTL

(* When nothing is due, the statistics beside a ready pool are its own,      *)
(* whatever a pool that was replaced reports late.                           *)
THEOREM StatsAreOfShownPool == ClientSpec => []StatsOfShownPool
<1>1. ClientInv => StatsOfShownPool
  BY DEF ClientInv, StatsFollow, StatsOfShownPool, AtRest
<1> QED  BY <1>1, ClientInvariance, PTL

(* The task hook shows the latest run on the api it is bound to, however     *)
(* often the pool behind that api is replaced.                               *)
THEOREM ClientShowsLatestRun == ClientSpec => ShowsLatestRun
<1>1. ClientInit => Task!Latest!LatestInit
  BY ClientInitInv, SameLatest
<1>2. ClientInv /\ [ClientNext]_clientVars
        => [Task!Latest!LatestNext]_(Task!Latest!latestVars)
  BY ClientStep, SameLatest
<1> QED
  BY <1>1, <1>2, ClientInvariance, PTL
     DEF ClientSpec, ShowsLatestRun, Task!ShowsLatestRun,
         Task!Latest!LatestSpec

(* A batch that was running when the form was applied never appears as the   *)
(* outcome of a later one, and none is shown running for ever.               *)
THEOREM ShownBatchIsLatest == ClientSpec => ShowsLatestBatch
<1>1. ClientInit => LatestBatch!LatestInit
  BY ClientInitInv
<1>2. ClientInv /\ [ClientNext]_clientVars
        => [LatestBatch!LatestNext]_(LatestBatch!latestVars)
  BY ClientStep
<1> QED
  BY <1>1, <1>2, ClientInvariance, PTL
     DEF ClientSpec, ShowsLatestBatch, LatestBatch!LatestSpec

(* What a reader of the status may count on: "running" is shown exactly      *)
(* while the end of a batch is still to be shown, and that batch is the one  *)
(* the status is about.                                                      *)
LatestBatchInv == LatestBatch!LatestType /\ LatestBatch!RunningIsTracked

(* A status about one batch is never followed by a status about an earlier   *)
(* one, in whatever order the batches end, and none is left "running" by a    *)
(* batch that is over or ignored.                                            *)
THEOREM BatchNeverGoesBack ==
  ClientSpec => []LatestBatchInv /\ LatestBatch!NeverGoesBack
<1> USE DEF LatestBatchInv, LatestBatch!LatestType, LatestBatch!RunningIsTracked
<1>1. ClientInv => LatestBatchInv
  <2> SUFFICES ASSUME BatchFollows
               PROVE  LatestBatchInv
    BY DEF ClientInv
  <2>1. /\ Len(batches) \in Nat /\ batchSubject \in 0..Len(batches)
        /\ batchStatus \in {"idle", "running", "completed", "error"}
        /\ batchStatus = "running" => batchSubject # 0
    BY DEF BatchFollows, None
  <2> DEFINE tracked == IF PendingBatches = {} THEN 0
                        ELSE CHOOSE i \in PendingBatches : TRUE
  <2>2. tracked = IF batchStatus = "running" THEN batchSubject ELSE 0
    BY TrackedBatch
  <2> HIDE DEF tracked
  <2>3. /\ tracked \in 0..Len(batches)
        /\ (batchStatus = "running") <=> (tracked # 0)
        /\ tracked # 0 => batchSubject = tracked
    BY <2>1, <2>2
  <2> QED  BY <2>1, <2>3 DEF tracked
<1>2. LatestBatchInv /\ [LatestBatch!LatestNext]_(LatestBatch!latestVars)
        => [batchSubject' = 0 \/ batchSubject' >= batchSubject]_(
               LatestBatch!latestVars)
  BY DEF LatestBatch!LatestNext, LatestBatch!latestVars, LatestBatch!Begin,
     LatestBatch!Refuse, LatestBatch!Ignore, LatestBatch!End, LatestBatch!Forget
<1> QED
  BY <1>1, <1>2, ClientInvariance, ShownBatchIsLatest, PTL
     DEF LatestBatch!LatestSpec, LatestBatch!NeverGoesBack, ShowsLatestBatch
=============================================================================
