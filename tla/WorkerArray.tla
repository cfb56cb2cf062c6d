----------------------------- MODULE WorkerArray -----------------------------
(* The array this.workers of WorkerPool.ts with the index each worker keeps  *)
(* of its place (poolIndex): a worker that leaves is replaced by the last    *)
(* one. WorkerPool.tla has a set of workers in its place. The loop of        *)
(* terminateAll() reads the length and the last worker before it settles     *)
(* tasks, whose observers may make further workers leave. Indexes count from *)
(* 0 as in the code: workers[i + 1] is its this.workers[i].                  *)
EXTENDS Integers, Sequences

CONSTANTS
  MaxWorkers,  \* bound: number of workers ever created
  Size         \* the option size

(* The constructor refuses other sizes.                                      *)
ArrayAssumption == MaxWorkers \in Nat /\ Size \in Nat \ {0}

Workers == 1..MaxWorkers

VARIABLES
  created,     \* workers made so far
  workers,     \* this.workers
  poolIndex,   \* the index each worker keeps
  managed,     \* the workers whose flag managed is set
  phase,       \* of terminateAll(): "open", "closing" in its loop, "closed"
  held,        \* what an iteration of that loop read, <<>> between two
  asked        \* the last call, with its arguments

arrayVars == <<created, workers, poolIndex, managed, phase, held, asked>>

Reading == [worker : Workers, before : Nat]
Attached == {workers[i] : i \in 1..Len(workers)}

ArrayInit ==
  /\ created = 0 /\ workers = <<>> /\ poolIndex = [w \in Workers |-> -1]
  /\ managed = {} /\ phase = "open" /\ held = <<>> /\ asked = <<>>

(* _getAvailableWorker() adds the worker it made; after terminateAll() when  *)
(* the factory has called it.                                                *)
AddWorker ==
  /\ phase # "closing" /\ created < MaxWorkers /\ Len(workers) < Size
  /\ created' = created + 1
  /\ poolIndex' = [poolIndex EXCEPT ![created + 1] = Len(workers)]
  /\ workers' = Append(workers, created + 1)
  /\ managed' = managed \cup {created + 1}
  /\ asked' = <<"add", created + 1>>
  /\ UNCHANGED <<phase, held>>

-----------------------------------------------------------------------------
(* _removeWorker().                                                          *)

(* Array.lastIndexOf                                                         *)
LastIndexOf(w) ==
  LET at == {i \in 1..Len(workers) : workers[i] = w}
  IN IF at = {} THEN -1 ELSE (CHOOSE i \in at : \A j \in at : j <= i) - 1

(* Where the worker is; a forced removal looks for it when its own index is  *)
(* not right.                                                                *)
PlaceOf(w, force) ==
  LET i == poolIndex[w]
  IN IF i \in 0..(Len(workers) - 1) /\ workers[i + 1] = w THEN i
     ELSE IF force THEN LastIndexOf(w) ELSE -1

(* The array and the indexes once the worker at index i has left.            *)
Left(w, i) ==
  LET n == Len(workers)
      last == workers[n]
      popped == SubSeq(workers, 1, n - 1)
  IN [workers |-> IF last = w THEN popped ELSE [popped EXCEPT ![i + 1] = last],
      poolIndex |-> [v \in Workers |-> IF v = w THEN -1
                                       ELSE IF v = last THEN i
                                       ELSE poolIndex[v]]]

(* active: the worker has tasks.                                             *)
Removable(w, force, active) ==
  w \in managed /\ (force \/ ~active) /\ PlaceOf(w, force) >= 0

Leave(w, force) ==
  /\ workers' = Left(w, PlaceOf(w, force)).workers
  /\ poolIndex' = Left(w, PlaceOf(w, force)).poolIndex
  /\ managed' = managed \ {w}

RemoveWorker(w, force, active) ==
  /\ w <= created
  /\ IF Removable(w, force, active) THEN Leave(w, force)
     ELSE UNCHANGED <<workers, poolIndex, managed>>
  /\ asked' = <<"remove", w, force, active>>
  /\ UNCHANGED <<created, phase, held>>

-----------------------------------------------------------------------------
(* The loop of terminateAll().                                               *)

TerminateAll ==
  /\ phase = "open" /\ phase' = "closing" /\ asked' = <<"terminateAll">>
  /\ UNCHANGED <<created, workers, poolIndex, managed, held>>

(* An iteration begins; the observers of the tasks it settles come next.     *)
ReadLast ==
  /\ phase = "closing" /\ held = <<>> /\ workers # <<>>
  /\ held' = [worker |-> workers[Len(workers)], before |-> Len(workers)]
  /\ asked' = <<"read">>
  /\ UNCHANGED <<created, workers, poolIndex, managed, phase>>

(* As many workers as before, so the last one is dropped to get on.          *)
Stuck(n) == Len(workers) = n

Detach ==
  /\ held # <<>> /\ held' = <<>>
  /\ IF Removable(held.worker, TRUE, FALSE) THEN Leave(held.worker, TRUE)
     ELSE /\ workers' = IF Stuck(held.before)
                        THEN SubSeq(workers, 1, Len(workers) - 1) ELSE workers
          /\ UNCHANGED <<poolIndex, managed>>
  /\ asked' = <<"detach", held.worker>>
  /\ UNCHANGED <<created, phase>>

Emptied ==
  /\ phase = "closing" /\ held = <<>> /\ workers = <<>>
  /\ phase' = "closed" /\ asked' = <<"closed">>
  /\ UNCHANGED <<created, workers, poolIndex, managed, held>>

ArrayNext ==
  \/ AddWorker \/ TerminateAll \/ ReadLast \/ Detach \/ Emptied
  \/ \E w \in Workers, force, active \in BOOLEAN : RemoveWorker(w, force, active)

ArraySpec == ArrayInit /\ [][ArrayNext]_arrayVars

-----------------------------------------------------------------------------
(* Safety.                                                                   *)

(* The flag, the array and the indexes tell the same: exactly the managed    *)
(* workers are in the array, each once and at the index it keeps, after any  *)
(* sequence of additions and removals from the middle.                       *)
IndexExact ==
  /\ workers \in Seq(Workers) /\ Len(workers) <= Size
  /\ managed = Attached
  /\ \A i \in 1..Len(workers) : poolIndex[workers[i]] = i - 1
  /\ \A w \in Workers \ managed : poolIndex[w] = -1

(* What a removal that is asked for takes out.                               *)
TakesOutAsked ==
  \A w \in Workers :
    /\ asked' \in {<<"remove", w, TRUE, active>> : active \in BOOLEAN}
                    \cup {<<"remove", w, FALSE, FALSE>>, <<"detach", w>>}
         => Attached' = Attached \ {w} /\ managed' = managed \ {w}
    /\ asked' = <<"remove", w, FALSE, TRUE>>
         => Attached' = Attached /\ managed' = managed

(* A removal that may take place takes out the worker it is asked for and no *)
(* other, and terminateAll() never drops a worker it has not detached, also  *)
(* when an observer removes workers between its reading and its removal.     *)
RemovesTheOneAsked == [][TakesOutAsked]_arrayVars
=============================================================================
