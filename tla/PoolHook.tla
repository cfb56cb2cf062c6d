------------------------------ MODULE PoolHook ------------------------------
(* The hook useWorkerPool of comlink-worker-pool-react. React renders the    *)
(* hook, commits what it rendered, runs the layout effects in the commit and *)
(* the effect that owns the pool some time later; calls settle, and the      *)
(* program uses any of the functions it was ever given, in between. A value  *)
(* set with setState is the variable's value at once and reaches the         *)
(* program's functions with the next commit: "shown" holds what that was.    *)
(* A commit follows the render it commits immediately: all updates of the    *)
(* hook have React's default priority, and a render that is interrupted is   *)
(* started again. Disconnect is the removal of the component's effects by an *)
(* unmount, a hidden Activity or StrictMode's rehearsal; Connect sets them   *)
(* up.                                                                       *)
(* X_Y is X with the slip Y in it, used only to see the properties fail.     *)
EXTENDS Naturals, Sequences, FiniteSets

CONSTANTS
  MaxCalls,        \* bound: calls made through call()
  MaxReconfigs,    \* bound: changes of the options the pool depends on
  MaxMounts,       \* bound: times the effects are set up
  MaxCloses        \* bound: calls of close() that find a pool

ASSUME PoolHookAssumption ==
  /\ MaxCalls \in Nat /\ MaxReconfigs \in Nat
  /\ MaxMounts \in Nat /\ MaxCloses \in Nat

None == 0   \* null; pools, bindings and calls are numbered from 1

VARIABLES
  api, poolStatus, status,  \* useState; api is the number of its pool
  subject,       \* the call "status" speaks of; stands for result and error
  options,       \* the options the pool depends on, as a revision
  shown,         \* the last commit: its binding, api, poolStatus, and the
                 \* callGeneration of its call function
  held,          \* an earlier value of "shown" whose call is still in use
  dependencies,  \* the options the last commit was rendered with
  connected,     \* the component's effects are set up
  passive,       \* the pool effect: "none" due, to "run", or to be "cleaned"
  activeBinding, \* activeCallBindingRef
  generation,    \* generationRef
  latestCallId,  \* latestCallIdRef
  poolRef,       \* poolRef
  effect,        \* generation and pool in the closure of the pool effect
  pools,         \* the generation each pool was created for
  open,          \* pools that nobody has closed or terminated
  calls,         \* what each call() has in its closure, and whether it ended
  mounts, closes \* history: counters for the bounds

reactVars == <<shown, held, dependencies, connected>>
stateVars == <<api, poolStatus, status, subject>>
poolVars == <<generation, poolRef, effect, pools, open>>
countVars == <<mounts, closes>>
hookVars == <<stateVars, options, reactVars, passive, activeBinding, latestCallId,
              poolVars, calls, countVars>>

NoEffect == [generation |-> 0, pool |-> None]   \* generations count from 1

View == [binding : Nat, api : Nat, poolStatus : {"initializing", "ready",
         "error", "closed"}, generation : Nat]

(* The shapes of the hook's state; a binding is live only while connected.   *)
HookType ==
  /\ api \in 0..Len(pools)
  /\ poolStatus \in {"initializing", "ready", "error", "closed"}
  /\ status \in {"idle", "running", "completed", "error"}
  /\ subject \in 0..Len(calls)
  /\ shown \in View /\ held \in View
  /\ connected \in BOOLEAN /\ passive \in {"none", "run", "clean"}
  /\ activeBinding \in {None, shown.binding}
  /\ ~connected => activeBinding = None
  /\ generation \in Nat /\ latestCallId \in Nat
  /\ poolRef \in 0..Len(pools)
  /\ pools \in Seq(Nat) /\ open \subseteq 1..Len(pools)
  /\ effect \in [generation : Nat, pool : 0..Len(pools)]
  /\ calls \in Seq([binding : Nat, generation : Nat, id : Nat, api : Nat,
                    done : BOOLEAN])

FirstRender ==
  [binding |-> 1, api |-> None, poolStatus |-> "initializing",
   generation |-> 0]

HookInit ==
  /\ api = None /\ poolStatus = "initializing"
  /\ status = "idle" /\ subject = None
  /\ options = 0 /\ dependencies = 0
  /\ shown = FirstRender /\ held = FirstRender
  /\ connected = FALSE /\ passive = "none"
  /\ activeBinding = None /\ generation = 0 /\ latestCallId = 0
  /\ poolRef = None /\ effect = NoEffect /\ pools = <<>> /\ open = {}
  /\ calls = <<>> /\ mounts = 0 /\ closes = 0

-----------------------------------------------------------------------------
(* What call() decides with: bindingIsCurrent and isCurrent.                 *)

BindingIsCurrent_AnyGeneration(c) == activeBinding = c.binding
BindingIsCurrent(c) ==
  activeBinding = c.binding /\ generation = c.generation

IsCurrent_AnyCall(c) == c.id # 0 /\ BindingIsCurrent(c)
IsCurrent(c) == c.id # 0 /\ BindingIsCurrent(c) /\ latestCallId = c.id

(* A render: useMemo keeps the binding while api and poolStatus are the      *)
(* same, callGeneration is read from its ref.                                *)
Rendered ==
  [binding |-> IF api = shown.api /\ poolStatus = shown.poolStatus
               THEN shown.binding ELSE shown.binding + 1,
   api |-> api, poolStatus |-> poolStatus, generation |-> generation]

-----------------------------------------------------------------------------
(* React. Passive effects that are due run before anything is rendered.      *)

(* The layout effect of the binding: the clean-up of the old one, then the   *)
(* new one, when the binding has changed.                                    *)
RebindTo(view) ==
  IF view.binding = shown.binding THEN UNCHANGED <<activeBinding, latestCallId>>
  ELSE /\ activeBinding' = view.binding
       /\ latestCallId' = IF activeBinding = shown.binding
                          THEN latestCallId + 1 ELSE latestCallId

Commit ==
  /\ connected /\ passive = "none"
  /\ shown' = Rendered
  /\ held' \in {held, shown}
  /\ dependencies' = options
  /\ passive' = IF options # dependencies THEN "run" ELSE "none"
  /\ RebindTo(Rendered)
  /\ UNCHANGED <<stateVars, options, connected, poolVars, calls, countVars>>

(* The effects are set up, with or without rendering the component again.    *)
Connect ==
  /\ ~connected /\ passive = "none" /\ mounts < MaxMounts
  /\ mounts' = mounts + 1
  /\ connected' = TRUE /\ passive' = "run"
  /\ \/ shown' = Rendered /\ dependencies' = options
     \/ UNCHANGED <<shown, dependencies>>
  /\ activeBinding' = shown'.binding
  /\ UNCHANGED <<stateVars, options, held, latestCallId, poolVars, calls,
                 closes>>

(* The layout effect is cleaned up in the commit, the pool effect later.     *)
Disconnect_KeepsBinding ==
  /\ connected /\ passive = "none"
  /\ connected' = FALSE /\ passive' = "clean"
  /\ latestCallId' = latestCallId + 1
  /\ UNCHANGED <<stateVars, options, shown, held, dependencies, activeBinding,
                 poolVars, calls, countVars>>

Disconnect ==
  /\ connected /\ passive = "none"
  /\ connected' = FALSE /\ passive' = "clean"
  /\ IF activeBinding = shown.binding
     THEN activeBinding' = None /\ latestCallId' = latestCallId + 1
     ELSE UNCHANGED <<activeBinding, latestCallId>>
  /\ UNCHANGED <<stateVars, options, shown, held, dependencies, poolVars,
                 calls, countVars>>

-----------------------------------------------------------------------------
(* The effect that owns the pool: its clean-up and what it leaves behind, as *)
(* records of the refs it assigns, and its body.                             *)

CleanedUp_KeepsPool ==
  LET mine == effect # NoEffect /\ generation = effect.generation
  IN [generation |-> IF mine THEN generation + 1 ELSE generation,
      latestCallId |-> IF mine THEN latestCallId + 1 ELSE latestCallId,
      poolRef |-> IF poolRef = effect.pool THEN None ELSE poolRef,
      open |-> open]

CleanedUp ==
  LET mine == effect # NoEffect /\ generation = effect.generation
  IN [generation |-> IF mine THEN generation + 1 ELSE generation,
      latestCallId |-> IF mine THEN latestCallId + 1 ELSE latestCallId,
      poolRef |-> IF poolRef = effect.pool THEN None ELSE poolRef,
      open |-> open \ {effect.pool}]

(* new WorkerPool and getApi return: the pool is owned and shown.            *)
CreatePool(refs) ==
  LET pool == Len(pools) + 1
  IN /\ pools' = Append(pools, refs.generation + 1)
     /\ open' = refs.open \cup {pool}
     /\ poolRef' = pool
     /\ effect' = [generation |-> refs.generation + 1, pool |-> pool]
     /\ api' = pool /\ poolStatus' = "ready"
     /\ status' = "idle" /\ subject' = None

(* The constructor throws: the effect ends in its catch.                     *)
FailToCreate(refs) ==
  /\ poolRef' = None /\ open' = refs.open /\ UNCHANGED pools
  /\ effect' = [generation |-> refs.generation + 1, pool |-> None]
  /\ api' = None /\ poolStatus' = "error"
  /\ status' = "error" /\ subject' = None

SetUp ==
  /\ passive = "run" /\ passive' = "none"
  /\ generation' = CleanedUp.generation + 1
  /\ latestCallId' = CleanedUp.latestCallId + 1
  /\ CreatePool(CleanedUp) \/ FailToCreate(CleanedUp)
  /\ UNCHANGED <<options, reactVars, activeBinding, calls, countVars>>

CleanUp ==
  /\ passive = "clean" /\ passive' = "none"
  /\ generation' = CleanedUp.generation
  /\ latestCallId' = CleanedUp.latestCallId
  /\ poolRef' = CleanedUp.poolRef /\ open' = CleanedUp.open
  /\ effect' = NoEffect
  /\ UNCHANGED <<stateVars, options, reactVars, activeBinding, pools, calls,
                 countVars>>

-----------------------------------------------------------------------------
(* The program: other options, call() of the last commit or of an earlier    *)
(* one, the end of a call at any time, close().                              *)

Reconfigure ==
  /\ options < MaxReconfigs /\ options' = options + 1
  /\ UNCHANGED <<stateVars, reactVars, passive, activeBinding, latestCallId,
                 poolVars, calls, countVars>>

Call(view) ==
  /\ Len(calls) < MaxCalls
  /\ LET current == BindingIsCurrent(view)
         id == IF current THEN latestCallId + 1 ELSE 0
     IN /\ calls' = Append(calls,
             [binding |-> view.binding, generation |-> view.generation,
              id |-> id, api |-> view.api, done |-> view.api = None])
        /\ IF current
           THEN /\ latestCallId' = id /\ subject' = Len(calls) + 1
                /\ status' = IF view.api = None THEN "error" ELSE "running"
           ELSE UNCHANGED <<latestCallId, subject, status>>
  /\ UNCHANGED <<api, poolStatus, options, reactVars, passive, activeBinding,
                 poolVars, countVars>>

Settle(i) ==
  /\ ~calls[i].done /\ calls' = [calls EXCEPT ![i].done = TRUE]
  /\ IF IsCurrent(calls[i])
     THEN subject' = i /\ status' \in {"completed", "error"}
     ELSE UNCHANGED <<subject, status>>
  /\ UNCHANGED <<api, poolStatus, options, reactVars, passive, activeBinding,
                 latestCallId, poolVars, countVars>>

Close_KeepsApi ==
  /\ poolRef # None /\ closes < MaxCloses /\ closes' = closes + 1
  /\ activeBinding' = None /\ latestCallId' = latestCallId + 1
  /\ status' = "idle" /\ subject' = None
  /\ open' = open \ {poolRef}
  /\ UNCHANGED <<api, poolStatus, options, reactVars, passive, generation,
                 poolRef, effect, pools, calls, mounts>>

Close ==
  /\ poolRef # None /\ closes < MaxCloses /\ closes' = closes + 1
  /\ activeBinding' = None /\ latestCallId' = latestCallId + 1
  /\ api' = None /\ poolStatus' = "closed"
  /\ status' = "idle" /\ subject' = None
  /\ open' = open \ {poolRef}
  /\ UNCHANGED <<options, reactVars, passive, generation, poolRef, effect,
                 pools, calls, mounts>>

HookNext ==
  \/ Connect \/ Disconnect \/ Commit \/ SetUp \/ CleanUp
  \/ Reconfigure \/ Close
  \/ \E view \in {shown, held} : Call(view)
  \/ \E i \in 1..Len(calls) : Settle(i)

HookSpec == HookInit /\ [][HookNext]_hookVars

-----------------------------------------------------------------------------
(* Properties.                                                               *)

(* The pool effect has run since the effects were last set up.               *)
Live == connected /\ effect # NoEffect

(* Nothing is due: the last commit shows the state the hook has.             *)
AtRest ==
  /\ Live /\ passive = "none" /\ dependencies = options
  /\ shown.api = api /\ shown.poolStatus = poolStatus
  /\ shown.generation = generation

(* Calls whose end the hook would still publish: there is at most one.       *)
Followed == {i \in 1..Len(calls) : ~calls[i].done /\ IsCurrent(calls[i])}

Tracked ==
  IF Live /\ Followed # {} THEN CHOOSE i \in Followed : TRUE ELSE 0

Latest == INSTANCE LatestCall WITH
  started <- Len(calls),
  tracked <- Tracked,
  view <- IF Live THEN status ELSE "idle",
  subject <- IF Live THEN subject ELSE 0

(* Whatever is reconfigured, closed, hidden or called through an outdated    *)
(* function meanwhile, the hook shows the state of the latest call it        *)
(* tracks, and "running" only while that call's end is still to be shown.    *)
ShowsLatestCall == Latest!LatestSpec

(* A status is about a call made on the pool that is shown, in the           *)
(* generation that is current: a result of a replaced or closed pool never   *)
(* stands beside another pool.                                               *)
StatusOfShownPool ==
  Live /\ subject # None =>
    calls[subject].api = api /\ calls[subject].generation = generation

(* Every pool but the owned one has been closed or terminated, and without   *)
(* effects there is none: no change of options, failed start, hiding or      *)
(* unmount leaks the workers of a pool.                                      *)
OwnsOnePool ==
  /\ open \subseteq {effect.pool}
  /\ ~connected /\ passive = "none" => open = {}

(* The api that is offered is that of the owned pool and works, unless the   *)
(* effect that replaces the pool is yet to be rendered.                      *)
OffersOwnedPool ==
  AtRest /\ poolStatus = "ready" =>
    shown.api = poolRef /\ poolRef \in open

(* useWorkerPool.ts documents status as the state of the latest call started *)
(* through call(); so a call made now through the function last rendered     *)
(* would be tracked.                                                         *)
CallsAreTracked == AtRest => BindingIsCurrent(shown)
=============================================================================
