------------------------ MODULE SchedulerQueueProofs ------------------------
(* Proofs about the two index structures of the pool, of any size and under  *)
(* any sequence of calls. The scheduling queue, for any tasks and priorities:*)
(* its linked list and its heap hold the same tasks, each is sound, and      *)
(* together they do what AbstractQueue promises. The array of workers: each  *)
(* managed worker is where its index says, and a removal takes out the       *)
(* worker it is asked for.                                                   *)
EXTENDS SchedulerQueue, WorkerArray, SequenceTheorems, WellFoundedInduction,
        TLAPS

-----------------------------------------------------------------------------
(* Induction, in the form the provers can use it: over sets of numbers.      *)

LEMMA LeastNumber ==
  ASSUME NEW S \in SUBSET Nat, S # {}
  PROVE  \E m \in S : \A k \in S : m <= k
<1>1. PICK m \in S : \A k \in S : ~ (<<k, m>> \in OpToRel(<, Nat))
  BY WFMin, NatLessThanWellFounded
<1>2. \A k \in S : ~ (k < m)
  BY <1>1 DEF OpToRel
<1> QED  BY <1>2

LEMMA UpTo ==
  ASSUME NEW n \in Nat, NEW S, 0 \in S, \A k \in 1..n : k - 1 \in S => k \in S
  PROVE  \A k \in 0..n : k \in S
<1> SUFFICES ASSUME (0..n) \ S # {} PROVE FALSE
  OBVIOUS
<1>1. (0..n) \ S \in SUBSET Nat
  OBVIOUS
<1>2. PICK m \in (0..n) \ S : \A k \in (0..n) \ S : m <= k
  BY <1>1, LeastNumber
<1> QED  BY <1>2

(* A loop is the sequence of its states: such a sequence exists, so what the *)
(* first state has and every iteration keeps, the last state has. Inv holds  *)
(* pairs of a number of iterations and a state.                              *)
LEMMA LoopRuns ==
  ASSUME NEW n \in Nat, NEW body, NEW start
  PROVE  \E after : /\ after[n] = Repeat(body, n, start)
                    /\ after[0] = start
                    /\ \A k \in 1..n : after[k] = body[after[k - 1]]
<1> DEFINE Run(g, m) ==
             [k \in 0..m |-> IF k = 0 THEN start ELSE body[g[k - 1]]]
           Good == {m \in 0..n : \E g : g = Run(g, m)}
<1>1. 0 \in Good
  <2> DEFINE h == [k \in 0..0 |-> start]
  <2>1. h = Run(h, 0)
    OBVIOUS
  <2> HIDE DEF h
  <2> QED  BY <2>1
<1>2. ASSUME NEW m \in 1..n, m - 1 \in Good
      PROVE  m \in Good
  <2>1. PICK g : g = Run(g, m - 1)
    BY <1>2
  <2> DEFINE h == [k \in 0..m |-> IF k = m THEN body[g[m - 1]] ELSE g[k]]
  <2>2. \A k \in 0..m : h[k] = IF k = 0 THEN start ELSE body[h[k - 1]]
    BY <2>1
  <2>3. h = Run(h, m)
    BY <2>2
  <2> HIDE DEF h
  <2> QED  BY <2>3
<1>3. n \in Good
  <2> HIDE DEF Good
  <2> QED  BY <1>1, <1>2, UpTo
<1> DEFINE after == CHOOSE g : g = Run(g, n)
<1>4. after = Run(after, n)
  BY <1>3
<1>5. after[n] = Repeat(body, n, start)
  BY DEF Repeat
<1> HIDE DEF after
<1> QED  BY <1>4, <1>5

LEMMA LoopKeeps ==
  ASSUME NEW n \in Nat, NEW body, NEW start, NEW Inv, <<0, start>> \in Inv,
         \A k \in 1..n : \A x : <<k - 1, x>> \in Inv => <<k, body[x]>> \in Inv
  PROVE  <<n, Repeat(body, n, start)>> \in Inv
<1>1. PICK after : /\ after[n] = Repeat(body, n, start)
                   /\ after[0] = start
                   /\ \A k \in 1..n : after[k] = body[after[k - 1]]
  BY LoopRuns
<1> DEFINE Good == {k \in 0..n : <<k, after[k]>> \in Inv}
<1>2. 0 \in Good
  BY <1>1
<1>3. ASSUME NEW k \in 1..n, k - 1 \in Good
      PROVE  k \in Good
  BY <1>1, <1>3
<1>4. n \in Good
  <2> HIDE DEF Good
  <2> QED  BY <1>2, <1>3, UpTo
<1> QED  BY <1>1, <1>4

-----------------------------------------------------------------------------
(* The order in which tasks are taken: a strict total order.                 *)

LEMMA TakenInOrder ==
  ASSUME NEW prio \in [Tasks -> Nat], NEW a \in Tasks, NEW b \in Tasks
  PROVE  /\ ~Before(prio, a, a)
         /\ Before(prio, a, b) => ~Before(prio, b, a)
         /\ a # b => Before(prio, a, b) \/ Before(prio, b, a)
BY QueueAssumption DEF Before, Tasks

(* No task comes before one that comes no later than it.                     *)
LEMMA OrderIsTransitive ==
  ASSUME NEW prio \in [Tasks -> Nat], NEW a \in Tasks, NEW b \in Tasks,
         NEW c \in Tasks, ~Before(prio, b, a), ~Before(prio, c, b)
  PROVE  ~Before(prio, c, a)
<1>1. /\ prio[a] \in Nat /\ prio[b] \in Nat /\ prio[c] \in Nat
      /\ a \in Nat /\ b \in Nat /\ c \in Nat
  BY QueueAssumption DEF Tasks
<1> QED  BY <1>1 DEF Before

LEMMA ParentOf ==
  ASSUME NEW i \in Nat \ {0}
  PROVE  /\ Parent(i) \in 0..(i - 1)
         /\ i = 2 * Parent(i) + 1 \/ i = 2 * Parent(i) + 2
BY DEF Parent

LEMMA ChildrenOf ==
  ASSUME NEW i \in Nat
  PROVE  Parent(2 * i + 1) = i /\ Parent(2 * i + 2) = i
BY DEF Parent

-----------------------------------------------------------------------------
(* The heap, while a loop moves the task t through it: index i is to receive *)
(* t, every other index has one of the tasks M, which knows its index.       *)

InPlace(items, queueIndex, M, i, t) ==
  /\ items \in Seq(Tasks) /\ queueIndex \in [Tasks -> Int]
  /\ M \subseteq Tasks /\ t \in M /\ i \in 0..(Len(items) - 1)
  /\ \A j \in 0..(Len(items) - 1) :
       j # i => /\ items[j + 1] \in M /\ items[j + 1] # t
                /\ queueIndex[items[j + 1]] = j
  /\ \A u \in M \ {t} :
       /\ queueIndex[u] \in 0..(Len(items) - 1) /\ queueIndex[u] # i
       /\ items[queueIndex[u] + 1] = u

AllInPlace(items, queueIndex, M) ==
  /\ items \in Seq(Tasks) /\ queueIndex \in [Tasks -> Int] /\ M \subseteq Tasks
  /\ \A j \in 0..(Len(items) - 1) :
       items[j + 1] \in M /\ queueIndex[items[j + 1]] = j
  /\ \A u \in M : /\ queueIndex[u] \in 0..(Len(items) - 1)
                   /\ items[queueIndex[u] + 1] = u

LEMMA TakeOut ==
  ASSUME NEW items, NEW queueIndex, NEW M, AllInPlace(items, queueIndex, M),
         NEW i \in 0..(Len(items) - 1)
  PROVE  InPlace(items, queueIndex, M, i, items[i + 1])
BY DEF AllInPlace, InPlace

LEMMA PutIn ==
  ASSUME NEW items, NEW queueIndex, NEW M, NEW i, NEW t,
         InPlace(items, queueIndex, M, i, t)
  PROVE  AllInPlace([items EXCEPT ![i + 1] = t],
                    [queueIndex EXCEPT ![t] = i], M)
BY DEF AllInPlace, InPlace

(* A child or a parent moves to the free index and leaves its own.           *)
LEMMA MoveOver ==
  ASSUME NEW items, NEW queueIndex, NEW M, NEW i, NEW t,
         InPlace(items, queueIndex, M, i, t),
         NEW b \in 0..(Len(items) - 1), b # i
  PROVE  InPlace([items EXCEPT ![i + 1] = items[b + 1]],
                 [queueIndex EXCEPT ![items[b + 1]] = i], M, b, t)
BY SMTT(20) DEF InPlace

-----------------------------------------------------------------------------
(* The order of the heap, from the index low on: no task comes before its    *)
(* parent. While t is moved there is no order between i and its parent       *)
(* (upwards) or its children (downwards), but the order that goes around i.  *)

HeapOrder(prio, items, low) ==
  \A j \in 1..(Len(items) - 1) :
    Parent(j) >= low => ~Before(prio, items[j + 1], items[Parent(j) + 1])

At(items, i, t, j) == IF j = i THEN t ELSE items[j + 1]

AroundOrder(prio, items, low, i) ==
  i > 0 /\ Parent(i) >= low =>
    \A j \in 1..(Len(items) - 1) :
      Parent(j) = i => ~Before(prio, items[j + 1], items[Parent(i) + 1])

UpOrder(prio, items, i, t) ==
  /\ \A j \in 1..(Len(items) - 1) :
       j # i => ~Before(prio, At(items, i, t, j), At(items, i, t, Parent(j)))
  /\ AroundOrder(prio, items, 0, i)

DownOrder(prio, items, low, i, t) ==
  /\ \A j \in 1..(Len(items) - 1) :
       Parent(j) >= low /\ Parent(j) # i =>
         ~Before(prio, At(items, i, t, j), At(items, i, t, Parent(j)))
  /\ AroundOrder(prio, items, low, i)

(* The parent p of i comes down and t goes on at p.                          *)
LEMMA UpKeepsOrder ==
  ASSUME NEW prio \in [Tasks -> Nat], NEW items \in Seq(Tasks),
         NEW i \in 1..(Len(items) - 1), NEW t \in Tasks,
         UpOrder(prio, items, i, t),
         Before(prio, t, items[Parent(i) + 1])
  PROVE  UpOrder(prio, [items EXCEPT ![i + 1] = items[Parent(i) + 1]],
                 Parent(i), t)
<1> DEFINE n == Len(items)
           p == Parent(i)
           c == items[p + 1]
           moved == [items EXCEPT ![i + 1] = c]
<1>1. /\ n \in Nat /\ i \in 1..(n - 1) /\ p \in 0..(i - 1)
      /\ Len(moved) = n
  <2>1. i \in Nat \ {0}
    OBVIOUS
  <2> QED  BY <2>1, ParentOf
<1>2. \A j \in 1..(n - 1) : Parent(j) \in 0..(j - 1)
  BY <1>1, ParentOf, SMTT(20)
<1>3. \A j \in 0..(n - 1) : /\ items[j + 1] \in Tasks
                            /\ moved[j + 1] = IF j = i THEN c ELSE items[j + 1]
  BY <1>1, SMTT(20)
<1>4. \A j \in 1..(n - 1) : j # i =>
        ~Before(prio, At(items, i, t, j), At(items, i, t, Parent(j)))
  BY DEF UpOrder
<1>5. \A j \in 1..(n - 1) :
        Parent(j) = i => ~Before(prio, items[j + 1], c)
  BY <1>1 DEF UpOrder, AroundOrder
<1>6. c = items[p + 1] /\ c \in Tasks /\ ~Before(prio, c, t)
  <2>1. c \in Tasks
    BY <1>1, <1>3
  <2> HIDE DEF n, moved
  <2> QED  BY <2>1, TakenInOrder
<1>7. UpOrder(prio, moved, p, t) <=>
        /\ \A j \in 1..(n - 1) : j # p =>
             ~Before(prio, At(moved, p, t, j), At(moved, p, t, Parent(j)))
        /\ p > 0 => \A j \in 1..(n - 1) : Parent(j) = p =>
             ~Before(prio, moved[j + 1], moved[Parent(p) + 1])
  <2>1. p > 0 => Parent(p) >= 0
    BY <1>1, <1>2
  <2> QED  BY <1>1, <2>1 DEF UpOrder, AroundOrder
<1>8. p = Parent(i)
  OBVIOUS
<1> HIDE DEF n, p, c, moved
<1>9. ASSUME NEW j \in 1..(n - 1), j # p
      PROVE  ~Before(prio, At(moved, p, t, j), At(moved, p, t, Parent(j)))
  <2>1. Parent(j) \in 0..(n - 1) /\ j \in 0..(n - 1)
    BY <1>1, <1>2, SMTT(20)
  <2>2. CASE j = i
    BY <1>1, <1>3, <1>6, <1>8, <1>9, <2>1, <2>2 DEF At
  <2>3. CASE j # i /\ Parent(j) = i
    BY <1>1, <1>3, <1>5, <1>9, <2>1, <2>3 DEF At
  <2>4. CASE j # i /\ Parent(j) # i
    <3>1. ~Before(prio, items[j + 1], items[Parent(j) + 1])
      BY <1>4, <2>4 DEF At
    <3>2. CASE Parent(j) = p
      <4>1. ~Before(prio, items[j + 1], t)
        BY <1>3, <1>6, <2>1, <3>1, <3>2, OrderIsTransitive
      <4> QED  BY <1>3, <1>9, <2>1, <2>4, <3>2, <4>1 DEF At
    <3>3. CASE Parent(j) # p
      BY <1>3, <1>9, <2>1, <2>4, <3>1, <3>3 DEF At
    <3> QED  BY <3>2, <3>3
  <2> QED  BY <2>2, <2>3, <2>4
<1>10. ASSUME p > 0, NEW j \in 1..(n - 1), Parent(j) = p
       PROVE  ~Before(prio, moved[j + 1], moved[Parent(p) + 1])
  <2>1. p \in 1..(n - 1) /\ Parent(p) \in 0..(p - 1) /\ j \in 0..(n - 1)
        /\ Parent(p) \in 0..(n - 1)
    BY <1>1, <1>2, <1>10
  <2>2. ~Before(prio, c, items[Parent(p) + 1])
    <3>1. ~Before(prio, At(items, i, t, p), At(items, i, t, Parent(p)))
      BY <1>1, <1>4, <2>1
    <3> QED  BY <1>1, <1>6, <2>1, <3>1 DEF At
  <2>3. moved[Parent(p) + 1] = items[Parent(p) + 1]
    BY <1>1, <1>3, <2>1, SMTT(20)
  <2>4. CASE j = i
    BY <1>3, <2>1, <2>2, <2>3, <2>4
  <2>5. CASE j # i
    <3>1. ~Before(prio, items[j + 1], c)
      <4>1. ~Before(prio, At(items, i, t, j), At(items, i, t, p))
        BY <1>4, <1>10, <2>5
      <4> QED  BY <1>1, <1>6, <2>5, <4>1 DEF At
    <3>2. ~Before(prio, items[j + 1], items[Parent(p) + 1])
      BY <1>3, <1>6, <2>1, <2>2, <3>1, OrderIsTransitive
    <3> QED  BY <1>3, <2>1, <2>3, <2>5, <3>2
  <2> QED  BY <2>4, <2>5
<1>11. UpOrder(prio, moved, p, t)
  BY <1>7, <1>9, <1>10
<1> QED  BY <1>11 DEF p, c, moved

(* The loop upwards is over: the heap is in order once t is put in.          *)
LEMMA UpEndsInOrder ==
  ASSUME NEW prio \in [Tasks -> Nat], NEW items \in Seq(Tasks),
         NEW i \in 0..(Len(items) - 1), NEW t \in Tasks,
         UpOrder(prio, items, i, t),
         i = 0 \/ ~Before(prio, t, items[Parent(i) + 1])
  PROVE  HeapOrder(prio, [items EXCEPT ![i + 1] = t], 0)
<1>1. \A j \in 1..(Len(items) - 1) : Parent(j) \in 0..(j - 1)
  BY ParentOf
<1>2. \A j \in 0..(Len(items) - 1) :
        [items EXCEPT ![i + 1] = t][j + 1] = At(items, i, t, j)
  BY DEF At
<1>3. \A j \in 1..(Len(items) - 1) :
        ~Before(prio, At(items, i, t, j), At(items, i, t, Parent(j)))
  BY <1>1, SMTT(20) DEF UpOrder, At
<1>4. Len([items EXCEPT ![i + 1] = t]) = Len(items)
  OBVIOUS
<1> QED  BY <1>1, <1>2, <1>3, <1>4, SMTT(20) DEF HeapOrder

(* The first child b of i comes up and t goes on at b.                       *)
LEMMA DownKeepsOrder ==
  ASSUME NEW prio \in [Tasks -> Nat], NEW items \in Seq(Tasks), NEW low \in Nat,
         NEW i \in 0..(Len(items) - 1), NEW t \in Tasks, low <= i,
         DownOrder(prio, items, low, i, t),
         NEW b \in 1..(Len(items) - 1), Parent(b) = i,
         \A j \in 1..(Len(items) - 1) :
           Parent(j) = i => ~Before(prio, items[j + 1], items[b + 1]),
         Before(prio, items[b + 1], t)
  PROVE  DownOrder(prio, [items EXCEPT ![i + 1] = items[b + 1]], low, b, t)
<1> DEFINE n == Len(items)
           c == items[b + 1]
           moved == [items EXCEPT ![i + 1] = c]
<1>1. /\ n \in Nat /\ b \in 1..(n - 1) /\ i \in 0..(b - 1)
      /\ Len(moved) = n
  BY ParentOf, SMTT(20)
<1>2. \A j \in 1..(n - 1) : Parent(j) \in 0..(j - 1)
  BY <1>1, ParentOf, SMTT(20)
<1>3. \A j \in 0..(n - 1) : /\ items[j + 1] \in Tasks
                            /\ moved[j + 1] = IF j = i THEN c ELSE items[j + 1]
  BY <1>1, SMTT(20)
<1>4. \A j \in 1..(n - 1) : Parent(j) >= low /\ Parent(j) # i =>
        ~Before(prio, At(items, i, t, j), At(items, i, t, Parent(j)))
  BY DEF DownOrder
<1>5. i > 0 /\ Parent(i) >= low =>
        ~Before(prio, c, items[Parent(i) + 1])
  BY <1>1 DEF DownOrder, AroundOrder
<1>6. c \in Tasks /\ ~Before(prio, t, c)
  <2>1. c \in Tasks
    BY <1>1, <1>3
  <2> QED  BY <2>1, TakenInOrder
<1>7. DownOrder(prio, moved, low, b, t) <=>
        /\ \A j \in 1..(n - 1) : Parent(j) >= low /\ Parent(j) # b =>
             ~Before(prio, At(moved, b, t, j), At(moved, b, t, Parent(j)))
        /\ \A j \in 1..(n - 1) : Parent(j) = b =>
             ~Before(prio, moved[j + 1], moved[i + 1])
  <2>1. b > 0 /\ Parent(b) = i /\ i >= low
    BY <1>1
  <2> HIDE DEF moved
  <2>2. AroundOrder(prio, moved, low, b) <=>
          \A j \in 1..(n - 1) :
            Parent(j) = b => ~Before(prio, moved[j + 1], moved[i + 1])
    BY <1>1, <2>1 DEF AroundOrder
  <2> QED  BY <1>1, <2>2 DEF DownOrder
<1>8. c = items[b + 1] /\ \A j \in 1..(n - 1) :
        Parent(j) = i => ~Before(prio, items[j + 1], c)
  OBVIOUS
<1> HIDE DEF n, c, moved
<1>9. ASSUME NEW j \in 1..(n - 1), Parent(j) >= low, Parent(j) # b
      PROVE  ~Before(prio, At(moved, b, t, j), At(moved, b, t, Parent(j)))
  <2>1. Parent(j) \in 0..(j - 1) /\ Parent(j) \in 0..(n - 1) /\ j \in 0..(n - 1)
    BY <1>1, <1>2, SMTT(20)
  <2>2. CASE Parent(j) = i
    <3>1. At(moved, b, t, Parent(j)) = c
      BY <1>1, <1>3, <2>1, <2>2 DEF At
    <3>2. CASE j = b
      BY <1>6, <3>1, <3>2 DEF At
    <3>3. CASE j # b
      BY <1>3, <1>8, <2>1, <2>2, <3>1, <3>3 DEF At
    <3> QED  BY <3>2, <3>3
  <2>3. CASE j = i
    <3>1. ~Before(prio, c, items[Parent(i) + 1])
      BY <1>5, <1>9, <2>3
    <3>2. At(moved, b, t, j) = c
      BY <1>1, <1>3, <2>3 DEF At
    <3>3. At(moved, b, t, Parent(j)) = items[Parent(i) + 1]
      BY <1>3, <1>9, <2>1, <2>3, SMTT(20) DEF At
    <3> QED  BY <3>1, <3>2, <3>3
  <2>4. CASE j # i /\ Parent(j) # i
    <3>1. ~Before(prio, At(items, i, t, j), At(items, i, t, Parent(j)))
      BY <1>4, <1>9, <2>4
    <3>2. ~Before(prio, items[j + 1], items[Parent(j) + 1])
      BY <2>4, <3>1 DEF At
    <3>3. j # b
      BY <2>4
    <3>4. At(moved, b, t, j) = items[j + 1]
      BY <1>3, <2>1, <2>4, <3>3 DEF At
    <3>5. At(moved, b, t, Parent(j)) = items[Parent(j) + 1]
      BY <1>3, <1>9, <2>1, <2>4 DEF At
    <3> QED  BY <3>2, <3>4, <3>5
  <2> QED  BY <2>2, <2>3, <2>4
<1>10. ASSUME NEW j \in 1..(n - 1), Parent(j) = b
       PROVE  ~Before(prio, moved[j + 1], moved[i + 1])
  <2>1. b < j /\ i < j /\ i # b /\ b >= low
    <3>1. b \in 0..(j - 1)
      BY <1>2, <1>10
    <3> QED  BY <1>1, <3>1
  <2>2. ~Before(prio, At(items, i, t, j), At(items, i, t, b))
    BY <1>4, <1>10, <2>1
  <2>3. ~Before(prio, items[j + 1], c)
    BY <1>8, <2>1, <2>2 DEF At
  <2>4. moved[j + 1] = items[j + 1] /\ moved[i + 1] = c
    BY <1>1, <1>3, <2>1
  <2> QED  BY <2>3, <2>4
<1>11. DownOrder(prio, moved, low, b, t)
  BY <1>7, <1>9, <1>10
<1> QED  BY <1>11 DEF c, moved

(* The loop downwards is over: the heap is in order once t is put in.        *)
LEMMA DownEndsInOrder ==
  ASSUME NEW prio \in [Tasks -> Nat], NEW items \in Seq(Tasks), NEW low \in Nat,
         NEW i \in 0..(Len(items) - 1), NEW t \in Tasks,
         DownOrder(prio, items, low, i, t),
         \A j \in 1..(Len(items) - 1) :
           Parent(j) = i => ~Before(prio, items[j + 1], t)
  PROVE  HeapOrder(prio, [items EXCEPT ![i + 1] = t], low)
<1>1. \A j \in 1..(Len(items) - 1) : Parent(j) \in 0..(j - 1)
  BY ParentOf
<1>2. \A j \in 0..(Len(items) - 1) :
        [items EXCEPT ![i + 1] = t][j + 1] = At(items, i, t, j)
  BY DEF At
<1>3. \A j \in 1..(Len(items) - 1) : Parent(j) >= low =>
        ~Before(prio, At(items, i, t, j), At(items, i, t, Parent(j)))
  BY <1>1 DEF DownOrder, At
<1>4. Len([items EXCEPT ![i + 1] = t]) = Len(items)
  OBVIOUS
<1> QED  BY <1>1, <1>2, <1>3, <1>4, SMTT(20) DEF HeapOrder

-----------------------------------------------------------------------------
(* The two loops over the heap.                                              *)

(* r is s but for the order of its heap, which holds the tasks M.            *)
OnlyHeap(r, s, M) ==
  /\ r.previous = s.previous /\ r.next = s.next
  /\ r.oldest = s.oldest /\ r.newest = s.newest
  /\ r.size = s.size /\ r.uniform = s.uniform /\ r.heapMode = s.heapMode
  /\ Len(r.items) = Len(s.items)
  /\ \A u \in Tasks \ M : r.queueIndex[u] = s.queueIndex[u]

LEMMA QueueFields ==
  ASSUME NEW s \in QueueType
  PROVE  /\ s.items \in Seq(Tasks) /\ s.queueIndex \in [Tasks -> Int]
         /\ s.previous \in [Tasks -> Tasks \cup {Null}]
         /\ s.next \in [Tasks -> Tasks \cup {Null}]
         /\ s.oldest \in Tasks \cup {Null} /\ s.newest \in Tasks \cup {Null}
         /\ s.size \in Nat /\ s.uniform \in Nat \cup {Null}
         /\ s.heapMode \in BOOLEAN
BY DEF QueueType

LEMMA PutFields ==
  ASSUME NEW s \in QueueType, NEW i \in 0..(Len(s.items) - 1), NEW t \in Tasks
  PROVE  /\ Put(s, i, t) \in QueueType
         /\ Put(s, i, t).items = [s.items EXCEPT ![i + 1] = t]
         /\ Put(s, i, t).queueIndex = [s.queueIndex EXCEPT ![t] = i]
<1>1. [s.items EXCEPT ![i + 1] = t] \in Seq(Tasks)
  BY QueueFields
<1>2. [s.queueIndex EXCEPT ![t] = i] \in [Tasks -> Int]
  BY QueueFields
<1> QED  BY <1>1, <1>2 DEF Put, QueueType

LEMMA PutIsOnlyHeap ==
  ASSUME NEW s \in QueueType, NEW i \in 0..(Len(s.items) - 1), NEW M,
         NEW t \in M, M \subseteq Tasks
  PROVE  OnlyHeap(Put(s, i, t), s, M)
<1>1. Len([s.items EXCEPT ![i + 1] = t]) = Len(s.items)
  BY QueueFields
<1>2. \A u \in Tasks \ M : [s.queueIndex EXCEPT ![t] = i][u] = s.queueIndex[u]
  BY QueueFields
<1> QED  BY <1>1, <1>2 DEF Put, OnlyHeap, QueueType

(* A task of the heap moves from index b to the free index i.                *)
LEMMA PutMoves ==
  ASSUME NEW s \in QueueType, NEW M, NEW i, NEW t,
         InPlace(s.items, s.queueIndex, M, i, t),
         NEW b \in 0..(Len(s.items) - 1), b # i
  PROVE  LET r == Put(s, i, s.items[b + 1])
         IN  /\ r \in QueueType /\ OnlyHeap(r, s, M)
             /\ r.items = [s.items EXCEPT ![i + 1] = s.items[b + 1]]
             /\ InPlace(r.items, r.queueIndex, M, b, t)
<1>1. /\ s.items[b + 1] \in M /\ M \subseteq Tasks
      /\ i \in 0..(Len(s.items) - 1)
  BY DEF InPlace
<1> DEFINE c == s.items[b + 1]
           r == Put(s, i, c)
<1>2. InPlace([s.items EXCEPT ![i + 1] = c], [s.queueIndex EXCEPT ![c] = i],
              M, b, t)
  BY MoveOver
<1>4. c \in M /\ c \in Tasks
  BY <1>1
<1> HIDE DEF c
<1>3. /\ r \in QueueType /\ OnlyHeap(r, s, M)
      /\ r.items = [s.items EXCEPT ![i + 1] = c]
      /\ r.queueIndex = [s.queueIndex EXCEPT ![c] = i]
  <2>1. OnlyHeap(r, s, M)
    BY <1>1, <1>4, PutIsOnlyHeap
  <2>2. i \in 0..(Len(s.items) - 1) /\ c \in Tasks
    BY <1>1, <1>4
  <2>3. /\ Put(s, i, c) \in QueueType
        /\ Put(s, i, c).items = [s.items EXCEPT ![i + 1] = c]
        /\ Put(s, i, c).queueIndex = [s.queueIndex EXCEPT ![c] = i]
    BY <2>2, PutFields
  <2> QED  BY <2>1, <2>3
<1> QED  BY <1>2, <1>3 DEF c

LEMMA PutEnds ==
  ASSUME NEW s \in QueueType, NEW M, NEW i, NEW t,
         InPlace(s.items, s.queueIndex, M, i, t)
  PROVE  LET r == Put(s, i, t)
         IN  /\ r \in QueueType /\ OnlyHeap(r, s, M)
             /\ r.items = [s.items EXCEPT ![i + 1] = t]
             /\ AllInPlace(r.items, r.queueIndex, M)
<1>1. t \in M /\ M \subseteq Tasks /\ i \in 0..(Len(s.items) - 1)
  BY DEF InPlace
<1>2. AllInPlace([s.items EXCEPT ![i + 1] = t],
                 [s.queueIndex EXCEPT ![t] = i], M)
  BY PutIn
<1> DEFINE r == Put(s, i, t)
<1>3. /\ r \in QueueType /\ OnlyHeap(r, s, M)
      /\ r.items = [s.items EXCEPT ![i + 1] = t]
      /\ r.queueIndex = [s.queueIndex EXCEPT ![t] = i]
  <2>1. t \in Tasks
    BY <1>1
  <2>2. OnlyHeap(r, s, M)
    BY <1>1, PutIsOnlyHeap
  <2> QED  BY <1>1, <2>1, <2>2, PutFields
<1> QED  BY <1>2, <1>3

LEMMA OnlyHeapTwice ==
  ASSUME NEW r, NEW s, NEW v, NEW M, OnlyHeap(r, s, M), OnlyHeap(v, r, M)
  PROVE  OnlyHeap(v, s, M)
BY DEF OnlyHeap

UpStops(prio, l, t) ==
  l.index = 0 \/ ~Before(prio, t, l.q.items[Parent(l.index) + 1])

(* What holds after k iterations of the loop upwards.                        *)
Rising(prio, s, M, t, k, l) ==
  /\ InPlace(l.q.items, l.q.queueIndex, M, l.index, t)
  /\ UpOrder(prio, l.q.items, l.index, t) /\ OnlyHeap(l.q, s, M)
  /\ l.index <= Len(s.items) - 1 - k \/ UpStops(prio, l, t)

LEMMA RisingStep ==
  ASSUME NEW prio \in [Tasks -> Nat], NEW s \in QueueType, NEW M, NEW t,
         NEW k \in Nat \ {0}, NEW l \in AtIndex, Rising(prio, s, M, t, k - 1, l)
  PROVE  /\ UpStep(prio, t)[l] \in AtIndex
         /\ Rising(prio, s, M, t, k, UpStep(prio, t)[l])
<1> DEFINE p == Parent(l.index)
           parent == l.q.items[p + 1]
           put == Put(l.q, l.index, parent)
           m == [index |-> p, q |-> put]
<1>1. /\ l.q \in QueueType /\ l.q.items \in Seq(Tasks) /\ t \in M
      /\ l.index \in 0..(Len(l.q.items) - 1) /\ M \subseteq Tasks
      /\ Len(l.q.items) = Len(s.items) /\ Len(s.items) \in Nat
  BY QueueFields DEF AtIndex, Rising, InPlace, OnlyHeap
<1>2. UpStep(prio, t)[l] = IF UpStops(prio, l, t) THEN l ELSE m
  BY DEF UpStep, UpStops
<1>3. CASE UpStops(prio, l, t)
  BY <1>2, <1>3 DEF Rising
<1>4. CASE ~UpStops(prio, l, t)
  <2>1. /\ l.index \in 1..(Len(l.q.items) - 1)
        /\ p \in 0..(l.index - 1) /\ p \in 0..(Len(l.q.items) - 1)
        /\ Before(prio, t, parent)
    BY <1>1, <1>4, ParentOf DEF UpStops
  <2>2. InPlace(l.q.items, l.q.queueIndex, M, l.index, t)
    BY DEF Rising
  <2>3. UpOrder(prio, [l.q.items EXCEPT ![l.index + 1] = parent], p, t)
    BY <1>1, <2>1, UpKeepsOrder DEF Rising
  <2> HIDE DEF p
  <2>4. /\ put \in QueueType /\ OnlyHeap(put, l.q, M)
        /\ put.items = [l.q.items EXCEPT ![l.index + 1] = parent]
        /\ InPlace(put.items, put.queueIndex, M, p, t)
    <3>1. p # l.index
      BY <1>1, <2>1
    <3> QED  BY <1>1, <2>1, <2>2, <3>1, PutMoves
  <2> HIDE DEF parent, put
  <2>5. OnlyHeap(put, s, M)
    BY <2>4, OnlyHeapTwice DEF Rising
  <2>6. p <= Len(s.items) - 1 - k
    BY <1>1, <1>4, <2>1 DEF Rising
  <2>7. m \in AtIndex /\ m.index = p /\ m.q = put
    BY <2>1, <2>4 DEF AtIndex
  <2> HIDE DEF m
  <2> QED  BY <1>2, <1>4, <2>3, <2>4, <2>5, <2>6, <2>7 DEF Rising
<1> QED  BY <1>3, <1>4

(* The loop ends at the latest at the root.                                  *)
LEMMA RisingEnds ==
  ASSUME NEW prio \in [Tasks -> Nat], NEW s \in QueueType, NEW M, NEW t,
         NEW l \in AtIndex, Rising(prio, s, M, t, Len(s.items), l)
  PROVE  LET r == Put(l.q, l.index, t)
         IN  /\ r \in QueueType /\ AllInPlace(r.items, r.queueIndex, M)
             /\ HeapOrder(prio, r.items, 0) /\ OnlyHeap(r, s, M)
<1>1. /\ l.q \in QueueType /\ l.q.items \in Seq(Tasks) /\ t \in Tasks
      /\ l.index \in 0..(Len(l.q.items) - 1)
      /\ Len(l.q.items) = Len(s.items) /\ Len(s.items) \in Nat
  BY QueueFields DEF AtIndex, Rising, InPlace, OnlyHeap
<1>2. UpStops(prio, l, t)
  BY <1>1 DEF Rising
<1>3. HeapOrder(prio, [l.q.items EXCEPT ![l.index + 1] = t], 0)
  BY <1>1, <1>2, UpEndsInOrder DEF Rising, UpStops
<1> DEFINE r == Put(l.q, l.index, t)
<1>4. /\ r \in QueueType /\ OnlyHeap(r, l.q, M)
      /\ r.items = [l.q.items EXCEPT ![l.index + 1] = t]
      /\ AllInPlace(r.items, r.queueIndex, M)
  BY <1>1, PutEnds DEF Rising
<1> HIDE DEF r
<1>5. OnlyHeap(r, s, M)
  BY <1>4, OnlyHeapTwice DEF Rising
<1> QED  BY <1>3, <1>4, <1>5 DEF r

(* siftUp() restores the order.                                              *)
LEMMA SiftUpSorts ==
  ASSUME NEW prio \in [Tasks -> Nat], NEW s \in QueueType, NEW M,
         AllInPlace(s.items, s.queueIndex, M),
         NEW i \in 0..(Len(s.items) - 1),
         UpOrder(prio, s.items, i, s.items[i + 1])
  PROVE  LET r == SiftUp(prio, s, i)
         IN  /\ r \in QueueType /\ AllInPlace(r.items, r.queueIndex, M)
             /\ HeapOrder(prio, r.items, 0) /\ OnlyHeap(r, s, M)
<1> DEFINE t == s.items[i + 1]
           n == Len(s.items)
           first == [index |-> i, q |-> s]
           end == Repeat(UpStep(prio, t), n, first)
           Inv == {x \in Nat \X AtIndex : Rising(prio, s, M, t, x[1], x[2])}
<1>1. n \in Nat /\ i \in 0..(n - 1) /\ t \in Tasks
  BY QueueFields
<1>2. <<0, first>> \in Inv
  <2>1. first \in AtIndex /\ first.index = i /\ first.q = s
    BY DEF AtIndex
  <2>2. OnlyHeap(s, s, M)
    BY DEF OnlyHeap
  <2>3. InPlace(s.items, s.queueIndex, M, i, t)
    BY TakeOut
  <2> HIDE DEF first
  <2>4. Rising(prio, s, M, t, 0, first)
    BY <1>1, <2>1, <2>2, <2>3 DEF Rising
  <2> QED  BY <2>1, <2>4
<1>3. ASSUME NEW k \in 1..n, NEW x, <<k - 1, x>> \in Inv
      PROVE  <<k, UpStep(prio, t)[x]>> \in Inv
  <2>1. x \in AtIndex /\ Rising(prio, s, M, t, k - 1, x) /\ k \in Nat \ {0}
    BY <1>3
  <2> HIDE DEF t, n
  <2>2. /\ UpStep(prio, t)[x] \in AtIndex
        /\ Rising(prio, s, M, t, k, UpStep(prio, t)[x])
    BY <2>1, RisingStep
  <2> QED  BY <2>1, <2>2
<1>4. <<n, end>> \in Inv
  <2> HIDE DEF Inv, first, t, n
  <2> QED  BY <1>1, <1>2, <1>3, LoopKeeps
<1>5. end \in AtIndex /\ Rising(prio, s, M, t, n, end)
  BY <1>4
<1>6. SiftUp(prio, s, i) = Put(end.q, end.index, t)
  BY DEF SiftUp
<1> HIDE DEF end, t
<1> QED  BY <1>5, <1>6, RisingEnds

LEMMA ParentsAreFirstHalf ==
  ASSUME NEW n \in Nat, NEW i \in Nat
  PROVE  i >= n \div 2 <=> 2 * i + 1 >= n
OBVIOUS

LEMMA FirstChildIsFirst ==
  ASSUME NEW prio \in [Tasks -> Nat], NEW items \in Seq(Tasks), NEW i \in Nat,
         ~(i >= Len(items) \div 2)
  PROVE  LET b == FirstChild(prio, items, i)
         IN  /\ b \in 1..(Len(items) - 1) /\ b > i /\ Parent(b) = i
             /\ \A j \in 1..(Len(items) - 1) :
                  Parent(j) = i => ~Before(prio, items[j + 1], items[b + 1])
<1> DEFINE n == Len(items)
           left == 2 * i + 1
           right == left + 1
           b == FirstChild(prio, items, i)
<1>1. n \in Nat /\ left < n /\ left \in 1..(n - 1)
  BY ParentsAreFirstHalf
<1>2. Parent(left) = i /\ Parent(right) = i
  BY ChildrenOf
<1>3. b = IF right < n /\ Before(prio, items[right + 1], items[left + 1])
          THEN right ELSE left
  BY DEF FirstChild
<1>4. b \in 1..(n - 1) /\ b > i /\ Parent(b) = i
  BY <1>1, <1>2, <1>3
<1>5. ASSUME NEW j \in 1..(n - 1), Parent(j) = i
      PROVE  ~Before(prio, items[j + 1], items[b + 1])
  <2>1. j = left \/ j = right
    <3>1. j \in Nat \ {0}
      BY <1>1
    <3>2. j = 2 * Parent(j) + 1 \/ j = 2 * Parent(j) + 2
      BY <3>1, ParentOf
    <3> QED  BY <1>5, <3>2
  <2>2. items[left + 1] \in Tasks /\ (right < n => items[right + 1] \in Tasks)
    BY <1>1
  <2> HIDE DEF left, b
  <2>3. CASE j = left
    BY <1>3, <2>2, <2>3, TakenInOrder
  <2>4. CASE j = right
    BY <1>1, <1>3, <2>2, <2>4, TakenInOrder
  <2> QED  BY <2>1, <2>3, <2>4
<1> QED  BY <1>4, <1>5

LEMMA LeavesHaveNoChild ==
  ASSUME NEW n \in Nat, NEW i \in Nat, i >= n \div 2, NEW j \in 1..(n - 1)
  PROVE  Parent(j) # i
<1>1. j \in Nat \ {0}
  OBVIOUS
<1>2. j = 2 * Parent(j) + 1 \/ j = 2 * Parent(j) + 2
  BY <1>1, ParentOf
<1> QED  BY <1>2, ParentsAreFirstHalf

DownStops(prio, l, t) ==
  \/ l.index >= Len(l.q.items) \div 2
  \/ ~Before(prio, l.q.items[FirstChild(prio, l.q.items, l.index) + 1], t)

(* What holds after k iterations of the loop downwards.                      *)
Falling(prio, s, low, M, t, k, l) ==
  /\ InPlace(l.q.items, l.q.queueIndex, M, l.index, t) /\ low <= l.index
  /\ DownOrder(prio, l.q.items, low, l.index, t) /\ OnlyHeap(l.q, s, M)
  /\ l.index >= k \/ DownStops(prio, l, t)

LEMMA FallingStep ==
  ASSUME NEW prio \in [Tasks -> Nat], NEW s \in QueueType, NEW low \in Nat,
         NEW M, NEW t, NEW k \in Nat \ {0}, NEW l \in AtIndex,
         Falling(prio, s, low, M, t, k - 1, l)
  PROVE  /\ DownStep(prio, t)[l] \in AtIndex
         /\ Falling(prio, s, low, M, t, k, DownStep(prio, t)[l])
<1> DEFINE b == FirstChild(prio, l.q.items, l.index)
           child == l.q.items[b + 1]
           put == Put(l.q, l.index, child)
           m == [index |-> b, q |-> put]
<1>1. /\ l.q \in QueueType /\ l.q.items \in Seq(Tasks)
      /\ t \in M /\ M \subseteq Tasks /\ t \in Tasks
      /\ l.index \in 0..(Len(l.q.items) - 1) /\ l.index \in Nat
      /\ Len(l.q.items) = Len(s.items) /\ Len(s.items) \in Nat
  BY QueueFields DEF AtIndex, Falling, InPlace, OnlyHeap
<1>2. DownStep(prio, t)[l] = IF DownStops(prio, l, t) THEN l ELSE m
  BY DEF DownStep, DownStops
<1>3. CASE DownStops(prio, l, t)
  BY <1>2, <1>3 DEF Falling
<1>4. CASE ~DownStops(prio, l, t)
  <2>1. ~(l.index >= Len(l.q.items) \div 2) /\ Before(prio, child, t)
    BY <1>4 DEF DownStops
  <2>2. /\ b \in 1..(Len(l.q.items) - 1) /\ b > l.index /\ Parent(b) = l.index
        /\ \A j \in 1..(Len(l.q.items) - 1) :
             Parent(j) = l.index =>
               ~Before(prio, l.q.items[j + 1], l.q.items[b + 1])
    BY <1>1, <2>1, FirstChildIsFirst
  <2> HIDE DEF b
  <2>3. InPlace(l.q.items, l.q.queueIndex, M, l.index, t)
    BY DEF Falling
  <2>4. DownOrder(prio, [l.q.items EXCEPT ![l.index + 1] = child], low, b, t)
    BY <1>1, <2>1, <2>2, DownKeepsOrder DEF Falling
  <2>5. /\ put \in QueueType /\ OnlyHeap(put, l.q, M)
        /\ put.items = [l.q.items EXCEPT ![l.index + 1] = child]
        /\ InPlace(put.items, put.queueIndex, M, b, t)
    <3>1. b # l.index /\ b \in 0..(Len(l.q.items) - 1)
      BY <1>1, <2>2
    <3> QED  BY <1>1, <2>3, <3>1, PutMoves
  <2> HIDE DEF child, put
  <2>6. OnlyHeap(put, s, M)
    BY <2>5, OnlyHeapTwice DEF Falling
  <2>7. b >= k /\ low <= b
    BY <1>1, <1>4, <2>2 DEF Falling
  <2>8. m \in AtIndex /\ m.index = b /\ m.q = put
    BY <2>2, <2>5 DEF AtIndex
  <2> HIDE DEF m
  <2> QED  BY <1>2, <1>4, <2>4, <2>5, <2>6, <2>7, <2>8 DEF Falling
<1> QED  BY <1>3, <1>4

(* The loop ends at the latest at a leaf.                                    *)
LEMMA FallingEnds ==
  ASSUME NEW prio \in [Tasks -> Nat], NEW s \in QueueType, NEW low \in Nat,
         NEW M, NEW t, NEW l \in AtIndex,
         Falling(prio, s, low, M, t, Len(s.items), l)
  PROVE  LET r == Put(l.q, l.index, t)
         IN  /\ r \in QueueType /\ AllInPlace(r.items, r.queueIndex, M)
             /\ HeapOrder(prio, r.items, low) /\ OnlyHeap(r, s, M)
<1> DEFINE n == Len(l.q.items)
           b == FirstChild(prio, l.q.items, l.index)
<1>1. /\ l.q \in QueueType /\ l.q.items \in Seq(Tasks) /\ t \in Tasks
      /\ l.index \in 0..(n - 1) /\ l.index \in Nat
      /\ n = Len(s.items) /\ n \in Nat
  BY QueueFields DEF AtIndex, Falling, InPlace, OnlyHeap
<1>2. DownStops(prio, l, t)
  BY <1>1 DEF Falling
<1>3. ASSUME NEW j \in 1..(n - 1), Parent(j) = l.index
      PROVE  ~Before(prio, l.q.items[j + 1], t)
  <2>1. ~(l.index >= n \div 2)
    BY <1>1, <1>3, LeavesHaveNoChild
  <2>2. /\ b \in 1..(n - 1)
        /\ ~Before(prio, l.q.items[j + 1], l.q.items[b + 1])
    BY <1>1, <1>3, <2>1, FirstChildIsFirst
  <2>3. ~Before(prio, l.q.items[b + 1], t)
    BY <1>2, <2>1 DEF DownStops
  <2>4. l.q.items[j + 1] \in Tasks /\ l.q.items[b + 1] \in Tasks
    BY <1>1, <2>2, SMTT(20)
  <2> QED  BY <1>1, <2>2, <2>3, <2>4, OrderIsTransitive
<1>4. HeapOrder(prio, [l.q.items EXCEPT ![l.index + 1] = t], low)
  BY <1>1, <1>3, DownEndsInOrder DEF Falling
<1> DEFINE r == Put(l.q, l.index, t)
<1>5. /\ r \in QueueType /\ OnlyHeap(r, l.q, M)
      /\ r.items = [l.q.items EXCEPT ![l.index + 1] = t]
      /\ AllInPlace(r.items, r.queueIndex, M)
  BY <1>1, PutEnds DEF Falling
<1> HIDE DEF r
<1>6. OnlyHeap(r, s, M)
  BY <1>5, OnlyHeapTwice DEF Falling
<1> QED  BY <1>4, <1>5, <1>6 DEF r

(* siftDown() restores the order from low on.                                *)
LEMMA SiftDownSorts ==
  ASSUME NEW prio \in [Tasks -> Nat], NEW s \in QueueType, NEW low \in Nat,
         NEW M, AllInPlace(s.items, s.queueIndex, M),
         NEW i \in 0..(Len(s.items) - 1), low <= i,
         DownOrder(prio, s.items, low, i, s.items[i + 1])
  PROVE  LET r == SiftDown(prio, s, i)
         IN  /\ r \in QueueType /\ AllInPlace(r.items, r.queueIndex, M)
             /\ HeapOrder(prio, r.items, low) /\ OnlyHeap(r, s, M)
<1> DEFINE t == s.items[i + 1]
           n == Len(s.items)
           first == [index |-> i, q |-> s]
           end == Repeat(DownStep(prio, t), n, first)
           Inv == {x \in Nat \X AtIndex :
                     Falling(prio, s, low, M, t, x[1], x[2])}
<1>1. n \in Nat /\ i \in 0..(n - 1) /\ t \in Tasks
  BY QueueFields
<1>2. <<0, first>> \in Inv
  <2>1. first \in AtIndex /\ first.index = i /\ first.q = s
    BY DEF AtIndex
  <2>2. OnlyHeap(s, s, M)
    BY DEF OnlyHeap
  <2>3. InPlace(s.items, s.queueIndex, M, i, t)
    BY TakeOut
  <2> HIDE DEF first
  <2>4. Falling(prio, s, low, M, t, 0, first)
    BY <1>1, <2>1, <2>2, <2>3 DEF Falling
  <2> QED  BY <2>1, <2>4
<1>3. ASSUME NEW k \in 1..n, NEW x, <<k - 1, x>> \in Inv
      PROVE  <<k, DownStep(prio, t)[x]>> \in Inv
  <2>1. x \in AtIndex /\ Falling(prio, s, low, M, t, k - 1, x) /\ k \in Nat \ {0}
    BY <1>3
  <2> HIDE DEF t, n
  <2>2. /\ DownStep(prio, t)[x] \in AtIndex
        /\ Falling(prio, s, low, M, t, k, DownStep(prio, t)[x])
    BY <2>1, FallingStep
  <2> QED  BY <2>1, <2>2
<1>4. <<n, end>> \in Inv
  <2> HIDE DEF Inv, first, t, n
  <2> QED  BY <1>1, <1>2, <1>3, LoopKeeps
<1>5. end \in AtIndex /\ Falling(prio, s, low, M, t, n, end)
  BY <1>4
<1>6. SiftDown(prio, s, i) = Put(end.q, end.index, t)
  BY DEF SiftDown
<1> HIDE DEF end, t
<1> QED  BY <1>5, <1>6, FallingEnds

-----------------------------------------------------------------------------
(* What the methods do to the heap.                                          *)

(* s has the tasks M in a heap.                                              *)
Heaped(prio, s, M) ==
  AllInPlace(s.items, s.queueIndex, M) /\ HeapOrder(prio, s.items, 0)

LEMMA PushFields ==
  ASSUME NEW s \in QueueType, NEW t \in Tasks
  PROVE  /\ Push(s, t) \in QueueType
         /\ Push(s, t).items = Append(s.items, t)
         /\ Push(s, t).queueIndex = [s.queueIndex EXCEPT ![t] = Len(s.items)]
         /\ Push(s, t).previous = s.previous /\ Push(s, t).next = s.next
         /\ Push(s, t).oldest = s.oldest /\ Push(s, t).newest = s.newest
         /\ Push(s, t).size = s.size /\ Push(s, t).uniform = s.uniform
         /\ Push(s, t).heapMode = s.heapMode
<1>1. /\ Append(s.items, t) \in Seq(Tasks)
      /\ [s.queueIndex EXCEPT ![t] = Len(s.items)] \in [Tasks -> Int]
  BY QueueFields
<1> QED  BY <1>1 DEF Push, QueueType

LEMMA PushPlaces ==
  ASSUME NEW items, NEW queueIndex, NEW M, AllInPlace(items, queueIndex, M),
         NEW t \in Tasks \ M
  PROVE  AllInPlace(Append(items, t), [queueIndex EXCEPT ![t] = Len(items)],
                    M \cup {t})
<1> DEFINE n == Len(items)
           more == Append(items, t)
           index == [queueIndex EXCEPT ![t] = n]
<1>1. /\ items \in Seq(Tasks) /\ n \in Nat /\ more \in Seq(Tasks)
      /\ Len(more) = n + 1 /\ index \in [Tasks -> Int] /\ M \subseteq Tasks
  BY DEF AllInPlace
<1>2. \A j \in 0..n : more[j + 1] = IF j = n THEN t ELSE items[j + 1]
  BY <1>1
<1>3. \A u \in Tasks : index[u] = IF u = t THEN n ELSE queueIndex[u]
  BY <1>1 DEF AllInPlace
<1>4. \A j \in 0..(n - 1) : items[j + 1] \in M /\ queueIndex[items[j + 1]] = j
  BY DEF AllInPlace
<1>5. \A u \in M : queueIndex[u] \in 0..(n - 1) /\ items[queueIndex[u] + 1] = u
  BY DEF AllInPlace
<1> HIDE DEF n, more, index
<1>6. \A j \in 0..n : more[j + 1] \in M \cup {t} /\ index[more[j + 1]] = j
  <2> SUFFICES ASSUME NEW j \in 0..n
               PROVE  more[j + 1] \in M \cup {t} /\ index[more[j + 1]] = j
    OBVIOUS
  <2>1. CASE j = n
    BY <1>2, <1>3, <2>1
  <2>2. CASE j # n
    <3>1. j \in 0..(n - 1)
      BY <1>1, <2>2
    <3>2. more[j + 1] = items[j + 1]
      BY <1>2, <2>2
    <3>3. items[j + 1] \in M /\ queueIndex[items[j + 1]] = j
      BY <1>4, <3>1
    <3> QED  BY <1>1, <1>3, <3>2, <3>3
  <2> QED  BY <2>1, <2>2
<1>7. \A u \in M \cup {t} : index[u] \in 0..n /\ more[index[u] + 1] = u
  BY <1>1, <1>2, <1>3, <1>5, SMTT(20)
<1>8. AllInPlace(more, index, M \cup {t})
  BY <1>1, <1>6, <1>7 DEF AllInPlace
<1> QED  BY <1>8 DEF more, index, n

LEMMA PushedUpOrder ==
  ASSUME NEW prio \in [Tasks -> Nat], NEW items \in Seq(Tasks),
         NEW t \in Tasks, HeapOrder(prio, items, 0)
  PROVE  UpOrder(prio, Append(items, t), Len(items), t)
<1> DEFINE n == Len(items)
           more == Append(items, t)
<1>1. n \in Nat /\ Len(more) = n + 1
  OBVIOUS
<1>2. \A j \in 0..(n - 1) : more[j + 1] = items[j + 1]
  BY <1>1
<1>3. \A j \in 1..n : Parent(j) \in 0..(j - 1)
  BY <1>1, ParentOf
<1>4. \A j \in 1..(n - 1) :
        ~Before(prio, items[j + 1], items[Parent(j) + 1])
  BY <1>1, <1>3 DEF HeapOrder
<1> HIDE DEF more
<1>5. \A j \in 1..n : j # n =>
        ~Before(prio, At(more, n, t, j), At(more, n, t, Parent(j)))
  <2> SUFFICES ASSUME NEW j \in 1..(n - 1)
               PROVE  ~Before(prio, At(more, n, t, j),
                              At(more, n, t, Parent(j)))
    BY <1>1
  <2>1. Parent(j) \in 0..(n - 1) /\ Parent(j) # n /\ j # n
    BY <1>1, <1>3
  <2>2. more[j + 1] = items[j + 1]
    BY <1>2
  <2>3. more[Parent(j) + 1] = items[Parent(j) + 1]
    BY <1>2, <2>1
  <2> QED  BY <1>4, <2>1, <2>2, <2>3 DEF At
<1>6. AroundOrder(prio, more, 0, n)
  BY <1>1, <1>3 DEF AroundOrder
<1> QED  BY <1>1, <1>5, <1>6 DEF UpOrder, more

(* insert() in heap mode.                                                    *)
LEMMA InsertHeaps ==
  ASSUME NEW prio \in [Tasks -> Nat], NEW s \in QueueType, NEW M,
         Heaped(prio, s, M), NEW t \in Tasks \ M
  PROVE  LET pushed == Push(s, t)
             r == SiftUp(prio, pushed, pushed.queueIndex[t])
         IN  /\ r \in QueueType /\ Heaped(prio, r, M \cup {t})
             /\ OnlyHeap(r, pushed, M \cup {t})
<1> DEFINE p == Push(s, t)
           n == Len(s.items)
<1>1. /\ p \in QueueType /\ p.items = Append(s.items, t)
      /\ p.queueIndex = [s.queueIndex EXCEPT ![t] = n]
      /\ s.items \in Seq(Tasks) /\ s.queueIndex \in [Tasks -> Int]
  BY PushFields, QueueFields
<1> HIDE DEF p
<1>2. /\ n \in 0..(Len(p.items) - 1) /\ p.items[n + 1] = t
      /\ p.queueIndex[t] = n
  BY <1>1
<1>3. AllInPlace(p.items, p.queueIndex, M \cup {t})
  <2>1. AllInPlace(s.items, s.queueIndex, M)
    BY DEF Heaped
  <2> QED  BY <1>1, <2>1, PushPlaces
<1>4. UpOrder(prio, p.items, n, p.items[n + 1])
  BY <1>1, <1>2, PushedUpOrder, SMTT(20) DEF Heaped
<1> QED  BY <1>1, <1>2, <1>3, <1>4, SiftUpSorts DEF Heaped, p

LEMMA LastLeaves ==
  ASSUME NEW items \in Seq(Tasks), Len(items) > 0
  PROVE  LET rest == SubSeq(items, 1, Len(items) - 1)
         IN  /\ rest \in Seq(Tasks) /\ Len(rest) = Len(items) - 1
             /\ \A j \in 0..(Len(items) - 2) : rest[j + 1] = items[j + 1]
OBVIOUS

(* The last task of the heap is the one that leaves.                         *)
LEMMA LastLeavesHeap ==
  ASSUME NEW prio, NEW s \in QueueType, NEW M, Heaped(prio, s, M),
         NEW t \in M, s.queueIndex[t] = Len(s.items) - 1,
         NEW r \in QueueType,
         r.items = SubSeq(s.items, 1, Len(s.items) - 1),
         r.queueIndex = s.queueIndex
  PROVE  Heaped(prio, r, M \ {t})
<1> DEFINE n == Len(s.items)
<1>1. /\ s.items \in Seq(Tasks) /\ n \in Nat /\ n > 0
      /\ s.queueIndex \in [Tasks -> Int] /\ M \subseteq Tasks
  BY QueueFields DEF Heaped, AllInPlace
<1>2. /\ r.items \in Seq(Tasks) /\ Len(r.items) = n - 1
      /\ \A j \in 0..(n - 2) : r.items[j + 1] = s.items[j + 1]
  BY <1>1, LastLeaves
<1>3. \A j \in 0..(n - 1) :
        s.items[j + 1] \in M /\ s.queueIndex[s.items[j + 1]] = j
  BY DEF Heaped, AllInPlace
<1>4. \A u \in M : /\ s.queueIndex[u] \in 0..(n - 1)
                   /\ s.items[s.queueIndex[u] + 1] = u
  BY DEF Heaped, AllInPlace
<1>5. s.queueIndex[t] = n - 1 /\ s.items[n] = t
  BY <1>1, <1>4
<1> HIDE DEF n
<1>6. ASSUME NEW j \in 0..(n - 2)
      PROVE  r.items[j + 1] \in M \ {t} /\ r.queueIndex[r.items[j + 1]] = j
  <2>1. j \in 0..(n - 1) /\ j # n - 1
    BY <1>1
  <2>2. r.items[j + 1] = s.items[j + 1]
    BY <1>2
  <2>3. s.items[j + 1] \in M /\ s.queueIndex[s.items[j + 1]] = j
    BY <1>3, <2>1
  <2>4. s.items[j + 1] # t
    BY <1>5, <2>1, <2>3
  <2> QED  BY <2>2, <2>3, <2>4
<1>7. ASSUME NEW u \in M \ {t}
      PROVE  /\ r.queueIndex[u] \in 0..(n - 2)
             /\ r.items[r.queueIndex[u] + 1] = u
  <2>1. s.queueIndex[u] \in 0..(n - 1) /\ s.items[s.queueIndex[u] + 1] = u
    BY <1>4
  <2>2. s.queueIndex[u] # n - 1
    BY <1>1, <1>5, <2>1
  <2>3. r.queueIndex[u] = s.queueIndex[u] /\ s.queueIndex[u] \in 0..(n - 2)
    BY <1>1, <2>1, <2>2
  <2>4. r.items[s.queueIndex[u] + 1] = s.items[s.queueIndex[u] + 1]
    BY <1>2, <2>3
  <2> QED  BY <2>1, <2>3, <2>4
<1>8. AllInPlace(r.items, r.queueIndex, M \ {t})
  <2>1. Len(r.items) - 1 = n - 2
    BY <1>1, <1>2
  <2> QED  BY <1>1, <1>2, <1>6, <1>7, <2>1 DEF AllInPlace
<1>9. ASSUME NEW j \in 1..(n - 2), Parent(j) >= 0
      PROVE  ~Before(prio, r.items[j + 1], r.items[Parent(j) + 1])
  <2>1. Parent(j) \in 0..(j - 1)
    BY <1>1, ParentOf
  <2>2. ~Before(prio, s.items[j + 1], s.items[Parent(j) + 1])
    BY <1>1, <1>9 DEF Heaped, HeapOrder, n
  <2>3. r.items[j + 1] = s.items[j + 1]
    BY <1>1, <1>2
  <2>4. r.items[Parent(j) + 1] = s.items[Parent(j) + 1]
    <3>1. Parent(j) \in 0..(n - 2)
      BY <1>1, <2>1
    <3>2. \A k \in 0..(n - 2) : r.items[k + 1] = s.items[k + 1]
      BY <1>2
    <3> QED  BY <3>1, <3>2
  <2> QED  BY <2>2, <2>3, <2>4
<1>10. HeapOrder(prio, r.items, 0)
  <2>1. Len(r.items) - 1 = n - 2
    BY <1>1, <1>2
  <2> QED  BY <1>9, <2>1 DEF HeapOrder
<1> QED  BY <1>8, <1>10 DEF Heaped

(* Another one leaves: the last one takes its place.                         *)
LEMMA LastTakesPlace ==
  ASSUME NEW prio, NEW s \in QueueType, NEW M, Heaped(prio, s, M),
         NEW t \in M, s.queueIndex[t] # Len(s.items) - 1,
         NEW r \in QueueType,
         r.items = SubSeq(s.items, 1, Len(s.items) - 1),
         r.queueIndex = s.queueIndex
  PROVE  LET last == s.items[Len(s.items)]
         IN  /\ s.queueIndex[t] \in 0..(Len(s.items) - 2) /\ last \in M \ {t}
             /\ InPlace(r.items, r.queueIndex, M \ {t}, s.queueIndex[t], last)
<1> DEFINE n == Len(s.items)
           i == s.queueIndex[t]
           last == s.items[n]
<1>1. /\ s.items \in Seq(Tasks) /\ n \in Nat /\ n > 0
      /\ s.queueIndex \in [Tasks -> Int] /\ M \subseteq Tasks
  BY QueueFields DEF Heaped, AllInPlace
<1>2. /\ r.items \in Seq(Tasks) /\ Len(r.items) = n - 1
      /\ \A j \in 0..(n - 2) : r.items[j + 1] = s.items[j + 1]
  BY <1>1, LastLeaves
<1>3. \A j \in 0..(n - 1) :
        s.items[j + 1] \in M /\ s.queueIndex[s.items[j + 1]] = j
  BY DEF Heaped, AllInPlace
<1>4. \A u \in M : /\ s.queueIndex[u] \in 0..(n - 1)
                   /\ s.items[s.queueIndex[u] + 1] = u
  BY DEF Heaped, AllInPlace
<1>5. /\ i \in 0..(n - 2) /\ s.items[i + 1] = t
      /\ last \in M /\ s.queueIndex[last] = n - 1 /\ last # t
  <2>1. i \in 0..(n - 2) /\ s.items[i + 1] = t
    BY <1>1, <1>4
  <2>2. last \in M /\ s.queueIndex[last] = n - 1
    BY <1>1, <1>3
  <2> QED  BY <1>1, <2>1, <2>2
<1>0. i = s.queueIndex[t]
  OBVIOUS
<1> HIDE DEF n, last, i
<1>6. ASSUME NEW j \in 0..(n - 2), j # i
      PROVE  /\ r.items[j + 1] \in M \ {t} /\ r.items[j + 1] # last
             /\ r.queueIndex[r.items[j + 1]] = j
  <2>1. r.items[j + 1] = s.items[j + 1]
    BY <1>2
  <2>2. s.items[j + 1] \in M /\ s.queueIndex[s.items[j + 1]] = j
    BY <1>1, <1>3
  <2>3. j # n - 1
    BY <1>1
  <2>4. s.items[j + 1] # t /\ s.items[j + 1] # last
    BY <1>0, <1>5, <1>6, <2>2, <2>3
  <2> QED  BY <2>1, <2>2, <2>4
<1>7. ASSUME NEW u \in M \ {t, last}
      PROVE  /\ r.queueIndex[u] \in 0..(n - 2) /\ r.queueIndex[u] # i
             /\ r.items[r.queueIndex[u] + 1] = u
  <2>1. s.queueIndex[u] \in 0..(n - 1) /\ s.items[s.queueIndex[u] + 1] = u
    BY <1>4
  <2>2. s.queueIndex[u] # n - 1
    <3>1. (n - 1) + 1 = n
      BY <1>1
    <3>2. s.queueIndex[u] = n - 1 => s.items[n] = u
      BY <2>1, <3>1
    <3> QED  BY <3>2 DEF last
  <2>3. s.queueIndex[u] # i
    <3>1. s.queueIndex[u] = i => s.items[i + 1] = u
      BY <2>1
    <3> QED  BY <1>5, <3>1
  <2>4. r.queueIndex[u] = s.queueIndex[u] /\ s.queueIndex[u] \in 0..(n - 2)
    <3>1. r.queueIndex = s.queueIndex
      OBVIOUS
    <3>2. \A k \in 0..(n - 1) : k # n - 1 => k \in 0..(n - 2)
      BY <1>1
    <3> QED  BY <2>1, <2>2, <3>1, <3>2
  <2>5. r.items[s.queueIndex[u] + 1] = s.items[s.queueIndex[u] + 1]
    BY <1>2, <2>4
  <2> QED  BY <2>1, <2>3, <2>4, <2>5
<1>8. InPlace(r.items, r.queueIndex, M \ {t}, i, last)
  <2>1. Len(r.items) - 1 = n - 2 /\ r.queueIndex \in [Tasks -> Int]
    BY <1>1, <1>2
  <2>2. last \in M \ {t} /\ M \ {t} \subseteq Tasks
    BY <1>1, <1>5
  <2> QED  BY <1>2, <1>5, <1>6, <1>7, <2>1, <2>2 DEF InPlace
<1> QED  BY <1>5, <1>8 DEF n, last, i

(* Another task t stands at i instead: it goes up if it comes before its     *)
(* parent and down otherwise.                                                *)
LEMMA ReplacedGoesUp ==
  ASSUME NEW prio \in [Tasks -> Nat], NEW items \in Seq(Tasks),
         HeapOrder(prio, items, 0), NEW i \in 1..(Len(items) - 1),
         NEW t \in Tasks, Before(prio, t, items[Parent(i) + 1])
  PROVE  UpOrder(prio, [items EXCEPT ![i + 1] = t], i, t)
<1> DEFINE n == Len(items)
           moved == [items EXCEPT ![i + 1] = t]
           p == Parent(i)
<1>1. n \in Nat /\ i \in 1..(n - 1) /\ Len(moved) = n
  OBVIOUS
<1>2. \A j \in 1..(n - 1) : Parent(j) \in 0..(j - 1)
  BY <1>1, ParentOf, SMTT(20)
<1>3. \A j \in 0..(n - 1) : items[j + 1] \in Tasks
  BY <1>1
<1>4. \A j \in 0..(n - 1) : j # i => moved[j + 1] = items[j + 1]
  BY <1>1
<1>5. \A j \in 1..(n - 1) :
        ~Before(prio, items[j + 1], items[Parent(j) + 1])
  BY <1>2 DEF HeapOrder
<1>6. p \in 0..(n - 1) /\ p < i /\ p # i /\ p = Parent(i)
  BY <1>1, <1>2
<1>7. ~Before(prio, items[p + 1], t)
  BY <1>3, <1>6, TakenInOrder
<1> HIDE DEF n, moved, p
<1>8. ASSUME NEW j \in 1..(n - 1), Parent(j) = i
      PROVE  /\ ~Before(prio, items[j + 1], items[p + 1])
             /\ ~Before(prio, items[j + 1], t)
             /\ j # i /\ moved[j + 1] = items[j + 1]
  <2>1. j \in 0..(n - 1) /\ j # i /\ i \in 0..(n - 1)
    BY <1>1, <1>2, <1>8
  <2>2. /\ items[j + 1] \in Tasks /\ items[i + 1] \in Tasks
        /\ items[p + 1] \in Tasks
    BY <1>3, <1>6, <2>1
  <2>3. /\ ~Before(prio, items[j + 1], items[i + 1])
        /\ ~Before(prio, items[i + 1], items[p + 1])
    BY <1>1, <1>5, <1>6, <1>8
  <2>4. ~Before(prio, items[j + 1], items[p + 1])
    BY <2>2, <2>3, OrderIsTransitive
  <2>5. ~Before(prio, items[j + 1], t)
    BY <1>7, <2>2, <2>4, OrderIsTransitive
  <2> QED  BY <1>4, <2>1, <2>4, <2>5
<1>9. ASSUME NEW j \in 1..(n - 1), j # i
      PROVE  ~Before(prio, At(moved, i, t, j), At(moved, i, t, Parent(j)))
  <2>1. j \in 0..(n - 1) /\ Parent(j) \in 0..(n - 1)
    BY <1>1, <1>2
  <2>2. At(moved, i, t, j) = items[j + 1]
    BY <1>4, <1>9, <2>1 DEF At
  <2>3. CASE Parent(j) = i
    BY <1>8, <2>2, <2>3 DEF At
  <2>4. CASE Parent(j) # i
    <3>1. At(moved, i, t, Parent(j)) = items[Parent(j) + 1]
      BY <1>4, <2>1, <2>4 DEF At
    <3> QED  BY <1>5, <2>2, <3>1
  <2> QED  BY <2>3, <2>4
<1>10. AroundOrder(prio, moved, 0, i)
  <2>1. moved[p + 1] = items[p + 1]
    BY <1>4, <1>6
  <2> QED  BY <1>1, <1>6, <1>8, <2>1 DEF AroundOrder
<1> QED  BY <1>1, <1>9, <1>10 DEF UpOrder, moved

LEMMA ReplacedGoesDown ==
  ASSUME NEW prio \in [Tasks -> Nat], NEW items \in Seq(Tasks),
         HeapOrder(prio, items, 0), NEW i \in 0..(Len(items) - 1),
         NEW t \in Tasks, i = 0 \/ ~Before(prio, t, items[Parent(i) + 1])
  PROVE  DownOrder(prio, [items EXCEPT ![i + 1] = t], 0, i, t)
<1> DEFINE n == Len(items)
           moved == [items EXCEPT ![i + 1] = t]
<1>1. n \in Nat /\ i \in 0..(n - 1) /\ Len(moved) = n
  OBVIOUS
<1>2. \A j \in 1..(n - 1) : Parent(j) \in 0..(j - 1)
  BY <1>1, ParentOf
<1>3. \A j \in 0..(n - 1) : items[j + 1] \in Tasks
  BY <1>1
<1>4. \A j \in 0..(n - 1) : j # i => moved[j + 1] = items[j + 1]
  BY <1>1
<1>5. \A j \in 1..(n - 1) :
        ~Before(prio, items[j + 1], items[Parent(j) + 1])
  BY <1>2 DEF HeapOrder
<1> HIDE DEF n, moved
<1>6. ASSUME NEW j \in 1..(n - 1), Parent(j) # i
      PROVE  ~Before(prio, At(moved, i, t, j), At(moved, i, t, Parent(j)))
  <2>1. j \in 0..(n - 1) /\ Parent(j) \in 0..(n - 1) /\ j # 0
    BY <1>1, <1>2, SMTT(20)
  <2>2. At(moved, i, t, Parent(j)) = items[Parent(j) + 1]
    BY <1>4, <1>6, <2>1 DEF At
  <2>3. CASE j = i
    BY <2>1, <2>2, <2>3 DEF At
  <2>4. CASE j # i
    <3>1. At(moved, i, t, j) = items[j + 1]
      BY <1>4, <2>1, <2>4 DEF At
    <3> QED  BY <1>5, <2>2, <3>1
  <2> QED  BY <2>3, <2>4
<1>7. ASSUME i > 0, NEW j \in 1..(n - 1), Parent(j) = i
      PROVE  ~Before(prio, moved[j + 1], moved[Parent(i) + 1])
  <2>1. /\ i \in 1..(n - 1) /\ j \in 0..(n - 1) /\ j # i
        /\ Parent(i) \in 0..(n - 1) /\ Parent(i) # i
    BY <1>1, <1>2, <1>7, SMTT(20)
  <2>2. /\ ~Before(prio, items[j + 1], items[i + 1])
        /\ ~Before(prio, items[i + 1], items[Parent(i) + 1])
    BY <1>5, <1>7, <2>1
  <2>3. /\ items[j + 1] \in Tasks /\ items[i + 1] \in Tasks
        /\ items[Parent(i) + 1] \in Tasks
    BY <1>1, <1>3, <2>1
  <2>4. ~Before(prio, items[j + 1], items[Parent(i) + 1])
    BY <2>2, <2>3, OrderIsTransitive
  <2> QED  BY <1>4, <2>1, <2>4
<1> QED  BY <1>1, <1>6, <1>7 DEF DownOrder, AroundOrder, moved

LEMMA OrderWithoutLast ==
  ASSUME NEW prio, NEW items \in Seq(Tasks), Len(items) > 0,
         HeapOrder(prio, items, 0)
  PROVE  HeapOrder(prio, SubSeq(items, 1, Len(items) - 1), 0)
<1> DEFINE n == Len(items)
           rest == SubSeq(items, 1, n - 1)
<1>1. /\ n \in Nat /\ Len(rest) = n - 1
      /\ \A j \in 0..(n - 2) : rest[j + 1] = items[j + 1]
  BY LastLeaves
<1>2. \A j \in 1..(n - 1) : Parent(j) >= 0 =>
        ~Before(prio, items[j + 1], items[Parent(j) + 1])
  BY DEF HeapOrder
<1> HIDE DEF n, rest
<1>3. ASSUME NEW j \in 1..(n - 2), Parent(j) >= 0
      PROVE  ~Before(prio, rest[j + 1], rest[Parent(j) + 1])
  <2>1. j \in Nat \ {0} /\ j \in 0..(n - 2) /\ j \in 1..(n - 1)
    BY <1>1
  <2>2. Parent(j) \in 0..(j - 1)
    BY <2>1, ParentOf
  <2>3. Parent(j) \in 0..(n - 2)
    BY <1>1, <2>2
  <2> QED  BY <1>1, <1>2, <1>3, <2>1, <2>3
<1>4. Len(rest) - 1 = n - 2
  BY <1>1
<1>5. HeapOrder(prio, rest, 0)
  BY <1>3, <1>4 DEF HeapOrder
<1> QED  BY <1>5 DEF rest, n

LEMMA Replaced ==
  ASSUME NEW items \in Seq(Tasks), NEW i \in 0..(Len(items) - 1), NEW t
  PROVE  /\ Len([items EXCEPT ![i + 1] = t]) = Len(items)
         /\ \A j \in 0..(Len(items) - 1) :
              [items EXCEPT ![i + 1] = t][j + 1]
                = IF j = i THEN t ELSE items[j + 1]
OBVIOUS

Popped(s) == [s EXCEPT !.items = SubSeq(@, 1, Len(@) - 1)]

(* remove() in heap mode: t leaves the heap.                                 *)
LEMMA LeaveHeapSorts ==
  ASSUME NEW prio \in [Tasks -> Nat], NEW s \in QueueType, NEW M,
         Heaped(prio, s, M), NEW t \in M
  PROVE  LET r == LeaveHeap(prio, s, t)
         IN  /\ r \in QueueType /\ Heaped(prio, r, M \ {t})
             /\ OnlyHeap(r, Popped(s), M \ {t})
<1> DEFINE n == Len(s.items)
           i == s.queueIndex[t]
           last == s.items[n]
           popped == Popped(s)
           moved == Put(popped, i, last)
           rest == M \ {t}
           r == LeaveHeap(prio, s, t)
<1>1. /\ s.items \in Seq(Tasks) /\ n \in Nat /\ i \in 0..(n - 1)
      /\ M \subseteq Tasks /\ s.queueIndex \in [Tasks -> Int]
  BY QueueFields DEF Heaped, AllInPlace
<1>2. /\ popped \in QueueType
      /\ popped.items = SubSeq(s.items, 1, Len(s.items) - 1)
      /\ popped.queueIndex = s.queueIndex
      /\ popped.items \in Seq(Tasks) /\ Len(popped.items) = n - 1
      /\ \A j \in 0..(n - 2) : popped.items[j + 1] = s.items[j + 1]
  <2>1. /\ SubSeq(s.items, 1, n - 1) \in Seq(Tasks)
        /\ Len(SubSeq(s.items, 1, n - 1)) = n - 1
        /\ \A j \in 0..(n - 2) :
             SubSeq(s.items, 1, n - 1)[j + 1] = s.items[j + 1]
    BY <1>1, LastLeaves
  <2> QED  BY <2>1 DEF Popped, QueueType
<1>3. r = IF i >= Len(popped.items) THEN popped
          ELSE IF i > 0 /\ Before(prio, last, moved.items[Parent(i) + 1])
               THEN SiftUp(prio, moved, i) ELSE SiftDown(prio, moved, i)
  BY DEF LeaveHeap, Popped
<1> HIDE DEF popped, r
<1>4. CASE i = n - 1
  <2>1. r = popped
    BY <1>1, <1>2, <1>3, <1>4
  <2>2. Heaped(prio, popped, rest)
    BY <1>2, <1>4, LastLeavesHeap
  <2>3. OnlyHeap(popped, popped, rest)
    BY DEF OnlyHeap
  <2> QED  BY <1>2, <2>1, <2>2, <2>3 DEF r, popped
<1>5. CASE i # n - 1
  <2>1. /\ i \in 0..(n - 2) /\ last \in rest
        /\ InPlace(popped.items, popped.queueIndex, rest, i, last)
    BY <1>2, <1>5, LastTakesPlace
  <2>2. HeapOrder(prio, popped.items, 0)
    <3>1. n > 0 /\ HeapOrder(prio, s.items, 0)
      BY <1>1 DEF Heaped
    <3> QED  BY <1>1, <1>2, <3>1, OrderWithoutLast
  <2>3. last \in Tasks /\ i \in 0..(Len(popped.items) - 1)
    BY <1>1, <1>2, <2>1
  <2> HIDE DEF i, last
  <2>4. /\ moved \in QueueType /\ OnlyHeap(moved, popped, rest)
        /\ moved.items = [popped.items EXCEPT ![i + 1] = last]
        /\ AllInPlace(moved.items, moved.queueIndex, rest)
    BY <1>2, <2>1, PutEnds
  <2>5. /\ i \in 0..(Len(moved.items) - 1) /\ moved.items[i + 1] = last
        /\ i > 0 => /\ i \in 1..(Len(popped.items) - 1)
                    /\ moved.items[Parent(i) + 1]
                         = popped.items[Parent(i) + 1]
    <3>1. i \in Nat /\ Len(popped.items) \in Nat /\ Len(popped.items) = n - 1
      BY <1>2, <2>3
    <3> HIDE DEF n, rest, moved
    <3>2. i > 0 => i \in Nat \ {0} /\ i \in 1..(Len(popped.items) - 1)
      BY <2>3, <3>1
    <3>3. i > 0 => Parent(i) \in 0..(i - 1)
      BY <3>2, ParentOf
    <3>4. Len(moved.items) = Len(popped.items) /\ moved.items[i + 1] = last
      BY <1>2, <2>3, <2>4
    <3>5. i > 0 => moved.items[Parent(i) + 1] = popped.items[Parent(i) + 1]
      <4> SUFFICES ASSUME i > 0
                   PROVE  moved.items[Parent(i) + 1]
                            = popped.items[Parent(i) + 1]
        OBVIOUS
      <4>1. /\ Parent(i) + 1 # i + 1
            /\ Parent(i) + 1 \in 1..Len(popped.items)
        BY <2>3, <3>1, <3>3
      <4>2. Parent(i) \in 0..(Len(popped.items) - 1) /\ Parent(i) # i
        BY <2>3, <3>1, <3>3
      <4>3. popped.items \in Seq(Tasks)
        BY <1>2
      <4>4. [popped.items EXCEPT ![i + 1] = last][Parent(i) + 1]
              = popped.items[Parent(i) + 1]
        BY <2>3, <4>2, <4>3, Replaced
      <4> QED  BY <2>4, <4>4
    <3> QED  BY <2>3, <3>2, <3>4, <3>5
  <2> HIDE DEF moved
  <2>6. /\ r \in QueueType /\ AllInPlace(r.items, r.queueIndex, rest)
        /\ HeapOrder(prio, r.items, 0) /\ OnlyHeap(r, moved, rest)
    <3>1. CASE i > 0 /\ Before(prio, last, moved.items[Parent(i) + 1])
      <4>1. UpOrder(prio, moved.items, i, last)
        <5>1. /\ i \in 1..(Len(popped.items) - 1)
              /\ Before(prio, last, popped.items[Parent(i) + 1])
              /\ popped.items \in Seq(Tasks)
          BY <1>2, <2>5, <3>1
        <5>2. UpOrder(prio, [popped.items EXCEPT ![i + 1] = last], i, last)
          BY <2>2, <2>3, <5>1, ReplacedGoesUp
        <5> QED  BY <2>4, <5>2
      <4>2. r = SiftUp(prio, moved, i)
        BY <1>1, <1>2, <1>3, <2>1, <3>1
      <4> QED  BY <2>4, <2>5, <4>1, <4>2, SiftUpSorts
    <3>2. CASE ~(i > 0 /\ Before(prio, last, moved.items[Parent(i) + 1]))
      <4>1. i = 0 \/ ~Before(prio, last, popped.items[Parent(i) + 1])
        BY <2>3, <2>5, <3>2
      <4>2. DownOrder(prio, moved.items, 0, i, last)
        <5>1. popped.items \in Seq(Tasks)
          BY <1>2
        <5>2. DownOrder(prio, [popped.items EXCEPT ![i + 1] = last], 0, i, last)
          BY <2>2, <2>3, <4>1, <5>1, ReplacedGoesDown
        <5> QED  BY <2>4, <5>2
      <4>3. r = SiftDown(prio, moved, i)
        BY <1>1, <1>2, <1>3, <2>1, <3>2
      <4>4. 0 <= i /\ 0 \in Nat
        BY <2>3
      <4> QED  BY <2>4, <2>5, <4>2, <4>3, <4>4, SiftDownSorts
    <3> QED  BY <3>1, <3>2
  <2>7. OnlyHeap(r, popped, rest)
    BY <2>4, <2>6, OnlyHeapTwice
  <2> QED  BY <2>6, <2>7 DEF Heaped, r, popped
<1> QED  BY <1>4, <1>5

-----------------------------------------------------------------------------
(* The linked list: s links the tasks of list, which come in the order of    *)
(* their numbers, and no other task.                                         *)

Nth(list, i) == IF i \in 1..Len(list) THEN list[i] ELSE Null

Ascending(list) ==
  /\ list \in Seq(Tasks)
  /\ \A i, j \in 1..Len(list) : i < j => list[i] < list[j]

Linked(s, list) ==
  /\ Ascending(list) /\ s.size = Len(list)
  /\ s.oldest = Nth(list, 1) /\ s.newest = Nth(list, Len(list))
  /\ \A i \in 1..Len(list) : /\ s.next[list[i]] = Nth(list, i + 1)
                             /\ s.previous[list[i]] = Nth(list, i - 1)
  /\ \A u \in Tasks \ Members(list) :
       s.next[u] = Null /\ s.previous[u] = Null

LEMMA NullIsNoTask == Null \notin Tasks
BY QueueAssumption DEF Tasks

LEMMA AscendingFacts ==
  ASSUME NEW list, Ascending(list)
  PROVE  /\ list \in Seq(Tasks) /\ Len(list) \in Nat
         /\ \A i \in 1..Len(list) : list[i] \in Tasks
         /\ \A i, j \in 1..Len(list) : list[i] = list[j] => i = j
         /\ \A u \in Members(list) : \E i \in 1..Len(list) : u = list[i]
         /\ \A i \in 1..Len(list) : list[i] \in Members(list)
         /\ Members(list) \subseteq Tasks
<1>1. list \in Seq(Tasks) /\ Len(list) \in Nat
  BY DEF Ascending
<1>2. \A i \in 1..Len(list) : list[i] \in Tasks
  BY <1>1
<1>3. \A i, j \in 1..Len(list) : list[i] = list[j] => i = j
  <2> SUFFICES ASSUME NEW i \in 1..Len(list), NEW j \in 1..Len(list),
                      list[i] = list[j], i # j
               PROVE  FALSE
    OBVIOUS
  <2>1. list[i] \in Nat /\ list[j] \in Nat
    BY <1>2, QueueAssumption DEF Tasks
  <2>2. i < j \/ j < i
    BY <1>1
  <2>3. list[i] < list[j] \/ list[j] < list[i]
    BY <2>2 DEF Ascending
  <2> QED  BY <2>1, <2>3
<1> QED  BY <1>1, <1>2, <1>3 DEF Members

LEMMA ListIsBounded ==
  ASSUME NEW list, Ascending(list)
  PROVE  Len(list) \in 0..MaxTasks
<1> DEFINE n == Len(list)
           S == {k \in 0..n : k > 0 => list[k] >= k}
<1>1. /\ n \in Nat /\ \A i \in 1..n : list[i] \in Nat /\ list[i] <= MaxTasks
      /\ MaxTasks \in Nat
  BY AscendingFacts, QueueAssumption DEF Tasks
<1>2. 0 \in S
  BY <1>1
<1>3. ASSUME NEW k \in 1..n, k - 1 \in S
      PROVE  k \in S
  <2>1. CASE k = 1
    <3>1. list[1] \in Tasks
      BY <2>1, <1>1, AscendingFacts
    <3>2. list[1] >= 1
      BY <3>1, QueueAssumption DEF Tasks
    <3> QED  BY <1>1, <2>1, <3>2
  <2>2. CASE k # 1
    <3>1. k - 1 \in 1..n /\ list[k - 1] >= k - 1 /\ k - 1 < k
      BY <1>1, <1>3, <2>2
    <3>2. list[k - 1] < list[k]
      BY <3>1 DEF Ascending
    <3>3. list[k - 1] \in Nat /\ list[k] \in Nat
      BY <1>1, <3>1
    <3> QED  BY <1>1, <3>1, <3>2, <3>3
  <2> QED  BY <2>1, <2>2
<1>4. n \in S
  <2> HIDE DEF S, n
  <2> QED  BY <1>1, <1>2, <1>3, UpTo
<1> QED  BY <1>1, <1>4

(* A walk along links that follow a list reads that list.                    *)
LEMMA WalkReads ==
  ASSUME NEW link \in [Tasks -> Tasks \cup {Null}], NEW list \in Seq(Tasks),
         Len(list) \in 0..MaxTasks,
         \A i \in 1..Len(list) : link[list[i]] = Nth(list, i + 1)
  PROVE  Walk(link, Nth(list, 1)) = list
<1> DEFINE n == Len(list)
           first == [at |-> Nth(list, 1), seen |-> <<>>]
           Read(k, l) ==
             /\ l.at = Nth(list, Len(l.seen) + 1) /\ Len(l.seen) <= n
             /\ \A i \in 1..Len(l.seen) : l.seen[i] = list[i]
             /\ Len(l.seen) >= k \/ Len(l.seen) = n
           Inv == {x \in Nat \X AtTask : Read(x[1], x[2])}
<1>1. /\ n \in Nat /\ n <= MaxTasks /\ MaxTasks \in Nat
      /\ \A i \in 1..n : list[i] \in Tasks
  BY QueueAssumption
<1>2. <<0, first>> \in Inv
  <2>1. first \in AtTask /\ first.at = Nth(list, 1) /\ first.seen = <<>>
    BY <1>1 DEF AtTask, Nth
  <2> HIDE DEF first
  <2>2. Read(0, first)
    BY <1>1, <2>1
  <2> QED  BY <2>1, <2>2
<1>3. ASSUME NEW k \in 1..MaxTasks, NEW l, <<k - 1, l>> \in Inv
      PROVE  <<k, WalkStep(link)[l]>> \in Inv
  <2> DEFINE m == WalkStep(link)[l]
             len == Len(l.seen)
  <2>1. l \in AtTask /\ Read(k - 1, l) /\ k \in Nat /\ k - 1 \in Nat
    BY <1>1, <1>3
  <2>2. /\ l.seen \in Seq(Tasks) /\ len \in Nat
        /\ l.at \in Tasks \cup {Null}
    BY <2>1 DEF AtTask
  <2>3. m = IF l.at = Null THEN l
            ELSE [at |-> link[l.at], seen |-> Append(l.seen, l.at)]
    BY <2>1 DEF WalkStep
  <2> HIDE DEF m
  <2>4. CASE l.at = Null
    <3>1. len = n
      <4>1. len < n => len + 1 \in 1..n
        BY <1>1, <2>2
      <4>2. len < n => l.at \in Tasks
        BY <1>1, <2>1, <4>1 DEF Nth
      <4> QED  BY <1>1, <2>1, <2>2, <2>4, <4>2, NullIsNoTask
    <3>2. Read(k, l)
      BY <2>1, <3>1
    <3> QED  BY <2>1, <2>3, <2>4, <3>2 DEF m
  <2>5. CASE l.at # Null
    <3>1. /\ len + 1 \in 1..n /\ l.at = list[len + 1] /\ l.at \in Tasks
          /\ link[l.at] = Nth(list, len + 2)
      <4>1. len + 1 \in 1..n /\ l.at = list[len + 1]
        BY <2>1, <2>5 DEF Nth
      <4>2. (len + 1) + 1 = len + 2
        BY <2>2
      <4> QED  BY <1>1, <4>1, <4>2
    <3>2. /\ m.at = link[l.at] /\ m.seen = Append(l.seen, l.at) /\ m \in AtTask
      BY <2>2, <2>3, <2>5, <3>1 DEF AtTask
    <3>3. Len(m.seen) = len + 1
      BY <2>2, <3>2
    <3>4. ASSUME NEW i \in 1..(len + 1)
          PROVE  m.seen[i] = list[i]
      <4>1. CASE i = len + 1
        BY <2>2, <3>1, <3>2, <4>1
      <4>2. CASE i # len + 1
        <5>1. i \in 1..len
          BY <2>2, <4>2
        <5>2. m.seen[i] = l.seen[i]
          BY <2>2, <3>2, <5>1
        <5> QED  BY <2>1, <5>1, <5>2
      <4> QED  BY <4>1, <4>2
    <3>5. m.at = Nth(list, Len(m.seen) + 1)
      BY <2>2, <3>1, <3>2, <3>3
    <3>6. Len(m.seen) <= n /\ (Len(m.seen) >= k \/ Len(m.seen) = n)
      BY <1>1, <2>1, <2>2, <3>1, <3>3
    <3> HIDE DEF n
    <3>7. Read(k, m)
      BY <3>3, <3>4, <3>5, <3>6
    <3> QED  BY <2>1, <3>2, <3>7 DEF m, n
  <2> QED  BY <2>4, <2>5
<1> DEFINE end == Repeat(WalkStep(link), MaxTasks, first)
<1>4. <<MaxTasks, end>> \in Inv
  <2> HIDE DEF Inv, first
  <2> QED  BY <1>1, <1>2, <1>3, LoopKeeps
<1>5. Walk(link, Nth(list, 1)) = end.seen
  BY DEF Walk
<1> HIDE DEF end, first
<1>6. end.seen \in Seq(Tasks) /\ Len(end.seen) = n
      /\ \A i \in 1..n : end.seen[i] = list[i]
  BY <1>1, <1>4 DEF AtTask
<1>7. end.seen = list
  BY <1>6, SeqEqual
<1> QED  BY <1>5, <1>7

Reversed(list) == [i \in 1..Len(list) |-> list[Len(list) + 1 - i]]

(* Both walks over the linked list read its tasks.                           *)
LEMMA LinkedReads ==
  ASSUME NEW s \in QueueType, NEW list, Linked(s, list)
  PROVE  Listed(s) = list /\ Walk(s.previous, s.newest) = Reversed(list)
<1> DEFINE n == Len(list)
           back == Reversed(list)
<1>1. /\ list \in Seq(Tasks) /\ n \in 0..MaxTasks /\ n \in Nat
      /\ \A i \in 1..n : list[i] \in Tasks
  BY ListIsBounded, AscendingFacts DEF Linked
<1>2. Listed(s) = list
  BY <1>1, WalkReads, QueueFields DEF Linked, Listed
<1>3. /\ back \in Seq(Tasks) /\ Len(back) = n
      /\ \A i \in 1..n : back[i] = list[n + 1 - i]
  BY <1>1 DEF Reversed
<1> HIDE DEF back
<1>4. ASSUME NEW i \in Int
      PROVE  Nth(back, i) = Nth(list, n + 1 - i)
  BY <1>1, <1>3 DEF Nth
<1>5. Nth(back, 1) = s.newest
  <2>1. n + 1 - 1 = n
    BY <1>1
  <2> QED  BY <1>4, <2>1 DEF Linked
<1>6. ASSUME NEW i \in 1..n
      PROVE  s.previous[back[i]] = Nth(back, i + 1)
  <2>1. n + 1 - i \in 1..n /\ n + 1 - (i + 1) = (n + 1 - i) - 1
    BY <1>1
  <2>2. s.previous[list[n + 1 - i]] = Nth(list, (n + 1 - i) - 1)
    BY <2>1 DEF Linked
  <2>3. Nth(back, i + 1) = Nth(list, n + 1 - (i + 1))
    BY <1>1, <1>4
  <2> QED  BY <1>3, <2>1, <2>2, <2>3
<1>7. Walk(s.previous, s.newest) = back
  BY <1>1, <1>3, <1>5, <1>6, WalkReads, QueueFields
<1> QED  BY <1>2, <1>7 DEF back

LEMMA Appended ==
  ASSUME NEW list \in Seq(Tasks), NEW t \in Tasks
  PROVE  /\ Append(list, t) \in Seq(Tasks)
         /\ Len(Append(list, t)) = Len(list) + 1
         /\ \A i \in 1..Len(list) : Append(list, t)[i] = list[i]
         /\ Append(list, t)[Len(list) + 1] = t
         /\ Members(Append(list, t)) = Members(list) \cup {t}
<1> DEFINE n == Len(list)
           more == Append(list, t)
<1>1. /\ more \in Seq(Tasks) /\ Len(more) = n + 1 /\ n \in Nat
      /\ \A i \in 1..n : more[i] = list[i]
      /\ more[n + 1] = t
  OBVIOUS
<1> HIDE DEF more, n
<1>2. \A i : i \in 1..(n + 1) <=> i \in 1..n \/ i = n + 1
  BY <1>1
<1>3. {more[i] : i \in 1..(n + 1)} = {list[i] : i \in 1..n} \cup {t}
  BY <1>1, <1>2
<1> QED  BY <1>1, <1>3 DEF Members, more, n

(* insert() puts a task younger than all others at the end of the list.      *)
LEMMA LinkLastLinks ==
  ASSUME NEW s \in QueueType, NEW list, Linked(s, list), NEW t \in Tasks,
         \A u \in Members(list) : u < t
  PROVE  LET r == LinkLast(s, t)
         IN  /\ r \in QueueType /\ Linked(r, Append(list, t))
             /\ r.items = s.items /\ r.queueIndex = s.queueIndex
             /\ r.uniform = s.uniform /\ r.heapMode = s.heapMode
<1> DEFINE n == Len(list)
           more == Append(list, t)
           r == LinkLast(s, t)
           new == s.newest
           next == IF new = Null THEN [s.next EXCEPT ![t] = Null]
                   ELSE [s.next EXCEPT ![t] = Null, ![new] = t]
           previous == [s.previous EXCEPT ![t] = new]
<1>1. /\ list \in Seq(Tasks) /\ n \in Nat
      /\ \A i \in 1..n : list[i] \in Tasks /\ list[i] \in Members(list)
      /\ \A i, j \in 1..n : list[i] = list[j] => i = j
  BY AscendingFacts DEF Linked
<1>2. /\ more \in Seq(Tasks) /\ Len(more) = n + 1 /\ more[n + 1] = t
      /\ \A i \in 1..n : more[i] = list[i]
      /\ Members(more) = Members(list) \cup {t}
  BY <1>1, Appended
<1>3. /\ new = Nth(list, n) /\ new \in Tasks \cup {Null}
      /\ new # Null => n > 0 /\ new = list[n] /\ new \in Tasks
      /\ new = Null => n = 0
  BY <1>1, NullIsNoTask, QueueFields DEF Linked, Nth
<1>4. /\ next \in [Tasks -> Tasks \cup {Null}]
      /\ previous \in [Tasks -> Tasks \cup {Null}]
  BY <1>3, QueueFields
<1>5. /\ r \in QueueType /\ r.next = next /\ r.previous = previous
      /\ r.oldest = (IF new = Null THEN t ELSE s.oldest) /\ r.newest = t
      /\ r.size = s.size + 1 /\ r.items = s.items
      /\ r.queueIndex = s.queueIndex
      /\ r.uniform = s.uniform /\ r.heapMode = s.heapMode
  <2>1. r = [s EXCEPT !.previous = previous, !.next = next,
                      !.oldest = IF new = Null THEN t ELSE @,
                      !.newest = t, !.size = @ + 1]
    BY DEF LinkLast
  <2> DEFINE first == IF new = Null THEN t ELSE s.oldest
             size == s.size + 1
  <2>2. /\ size \in Nat /\ first \in Tasks \cup {Null}
        /\ t \in Tasks \cup {Null}
    BY QueueFields
  <2>3. r = [s EXCEPT !.previous = previous, !.next = next, !.oldest = first,
                      !.newest = t, !.size = size]
    BY <2>1
  <2> HIDE DEF r, previous, next, first, size
  <2>4. /\ r \in QueueType /\ r.next = next /\ r.previous = previous
        /\ r.oldest = first /\ r.newest = t
        /\ r.size = size /\ r.items = s.items
        /\ r.queueIndex = s.queueIndex
        /\ r.uniform = s.uniform /\ r.heapMode = s.heapMode
    BY <1>4, <2>2, <2>3 DEF QueueType
  <2> QED  BY <2>4 DEF first, size
<1>6. t \notin Members(list)
  <2>1. ~(t < t)
    BY QueueAssumption DEF Tasks
  <2> QED  BY <2>1
<1>7. \A u \in Tasks :
        /\ u # t => next[u] = IF u = new THEN t ELSE s.next[u]
        /\ next[t] = Null
        /\ previous[u] = IF u = t THEN new ELSE s.previous[u]
  <2>1. new # t
    BY <1>1, <1>3, <1>6, NullIsNoTask
  <2> QED  BY <1>3, <2>1, NullIsNoTask, QueueFields
<1> HIDE DEF n, more, next, previous, new, r
<1>8. Ascending(more)
  <2> SUFFICES ASSUME NEW i \in 1..(n + 1), NEW j \in 1..(n + 1), i < j
               PROVE  more[i] < more[j]
    BY <1>2 DEF Ascending
  <2>1. i \in 1..n /\ more[i] = list[i]
    BY <1>1, <1>2
  <2>2. CASE j = n + 1
    BY <1>1, <1>2, <2>1, <2>2
  <2>3. CASE j # n + 1
    <3>1. j \in 1..n /\ more[j] = list[j]
      BY <1>1, <1>2, <2>3
    <3> QED  BY <2>1, <3>1 DEF Linked, Ascending, n
  <2> QED  BY <2>2, <2>3
<1>9. Nth(more, n + 2) = Null /\ Nth(more, n + 1) = t
      /\ \A i \in 0..n : Nth(more, i) = Nth(list, i)
  <2>1. /\ n + 2 \notin 1..(n + 1) /\ n + 1 \in 1..(n + 1)
        /\ \A i \in 0..n : i \in 1..(n + 1) <=> i \in 1..n
    BY <1>1
  <2> QED  BY <1>1, <1>2, <2>1 DEF Nth, n
<1>10. ASSUME NEW i \in 1..(n + 1)
       PROVE  /\ r.next[more[i]] = Nth(more, i + 1)
              /\ r.previous[more[i]] = Nth(more, i - 1)
  <2>1. CASE i = n + 1
    <3>1. more[i] = t /\ i + 1 = n + 2 /\ i - 1 = n /\ n \in 0..n
      BY <1>1, <1>2, <2>1
    <3> QED  BY <1>3, <1>5, <1>7, <1>9, <3>1
  <2>2. CASE i # n + 1
    <3>1. i \in 1..n /\ more[i] = list[i] /\ list[i] \in Tasks /\ list[i] # t
      BY <1>1, <1>2, <1>6, <2>2
    <3>2. /\ s.next[list[i]] = Nth(list, i + 1)
          /\ s.previous[list[i]] = Nth(list, i - 1)
      BY <3>1 DEF Linked, n
    <3>3. i - 1 \in 0..n
      BY <1>1, <3>1
    <3>4. r.previous[more[i]] = Nth(more, i - 1)
      BY <1>5, <1>7, <1>9, <3>1, <3>2, <3>3
    <3>5. CASE i = n
      <4>1. list[i] = new /\ i + 1 = n + 1
        BY <1>1, <1>3, <3>1, <3>5
      <4> QED  BY <1>5, <1>7, <1>9, <3>1, <3>4, <4>1
    <3>6. CASE i # n
      <4>1. i + 1 \in 0..n
        BY <1>1, <3>1, <3>6
      <4>2. list[i] # new
        <5>1. n > 0 => n \in 1..n
          BY <1>1
        <5> QED  BY <1>1, <1>3, <3>1, <3>6, <5>1, NullIsNoTask
      <4> QED  BY <1>5, <1>7, <1>9, <3>1, <3>2, <3>4, <4>1, <4>2
    <3> QED  BY <3>5, <3>6
  <2> QED  BY <2>1, <2>2
<1>11. ASSUME NEW u \in Tasks \ Members(more)
       PROVE  r.next[u] = Null /\ r.previous[u] = Null
  <2>1. u # t /\ u \in Tasks \ Members(list)
    BY <1>2
  <2>2. u # new
    <3>1. n > 0 => n \in 1..n
      BY <1>1
    <3> QED  BY <1>1, <1>3, <2>1, <3>1, NullIsNoTask
  <2> QED  BY <1>5, <1>7, <2>1, <2>2 DEF Linked
<1>12. r.oldest = Nth(more, 1)
  <2>1. CASE new = Null
    <3>1. n + 1 = 1
      BY <1>3, <2>1
    <3> QED  BY <1>5, <1>9, <2>1, <3>1
  <2>2. CASE new # Null
    <3>1. 1 \in 0..n
      BY <1>1, <1>3, <2>2
    <3> QED  BY <1>5, <1>9, <2>2, <3>1 DEF Linked
  <2> QED  BY <2>1, <2>2
<1>13. r.size = n + 1 /\ r.newest = Nth(more, n + 1)
  BY <1>5, <1>9 DEF Linked, n
<1>14. Linked(r, more)
  BY <1>2, <1>8, <1>10, <1>11, <1>12, <1>13 DEF Linked
<1> QED  BY <1>5, <1>14 DEF r, more

(* list without its m-th task.                                               *)
Dropped(list, m) == SubSeq(list, 1, m - 1) \o SubSeq(list, m + 1, Len(list))

LEMMA DroppedFacts ==
  ASSUME NEW list \in Seq(Tasks), NEW m \in 1..Len(list)
  PROVE  LET rest == Dropped(list, m)
         IN  /\ rest \in Seq(Tasks) /\ Len(rest) = Len(list) - 1
             /\ \A i \in 1..(Len(list) - 1) :
                  rest[i] = IF i < m THEN list[i] ELSE list[i + 1]
<1> DEFINE n == Len(list)
           a == SubSeq(list, 1, m - 1)
           b == SubSeq(list, m + 1, n)
<1>1. /\ n \in Nat /\ m \in 1..n
      /\ a \in Seq(Tasks) /\ Len(a) = m - 1
      /\ \A i \in 1..(m - 1) : a[i] = list[i]
  OBVIOUS
<1>2. b \in Seq(Tasks) /\ Len(b) = n - m
      /\ \A i \in 1..(n - m) : b[i] = list[m + i]
  OBVIOUS
<1> HIDE DEF a, b, n
<1>3. a \o b \in Seq(Tasks) /\ Len(a \o b) = n - 1
  <2>1. a \o b \in Seq(Tasks) /\ Len(a \o b) = Len(a) + Len(b)
    BY <1>1, <1>2
  <2>2. (m - 1) + (n - m) = n - 1
    BY <1>1
  <2> QED  BY <1>1, <1>2, <2>1, <2>2
<1>4. ASSUME NEW i \in 1..(n - 1)
      PROVE  (a \o b)[i] = IF i < m THEN list[i] ELSE list[i + 1]
  <2>1. (a \o b)[i] = IF i <= m - 1 THEN a[i] ELSE b[i - (m - 1)]
    BY <1>1, <1>2
  <2>2. CASE i < m
    BY <1>1, <2>1, <2>2
  <2>3. CASE ~(i < m)
    <3>1. i - (m - 1) \in 1..(n - m) /\ m + (i - (m - 1)) = i + 1
      BY <1>1, <2>3
    <3>2. b[i - (m - 1)] = list[i + 1]
      BY <1>2, <3>1
    <3> QED  BY <1>1, <2>1, <2>3, <3>2
  <2> QED  BY <2>2, <2>3
<1> QED  BY <1>3, <1>4 DEF Dropped, a, b, n

LEMMA DroppedMembers ==
  ASSUME NEW list, Ascending(list), NEW m \in 1..Len(list)
  PROVE  Members(Dropped(list, m)) = Members(list) \ {list[m]}
<1> DEFINE n == Len(list)
           rest == Dropped(list, m)
<1>1. /\ n \in Nat /\ Len(rest) = n - 1
      /\ \A i \in 1..(n - 1) :
           rest[i] = IF i < m THEN list[i] ELSE list[i + 1]
      /\ \A i, j \in 1..n : list[i] = list[j] => i = j
  BY DroppedFacts, AscendingFacts
<1> HIDE DEF n, rest
<1>2. ASSUME NEW i \in 1..(n - 1)
      PROVE  \E j \in 1..n : j # m /\ rest[i] = list[j]
  <2>1. CASE i < m
    <3>1. i \in 1..n /\ i # m /\ rest[i] = list[i]
      BY <1>1, <2>1
    <3> QED  BY <3>1
  <2>2. CASE ~(i < m)
    <3>1. i + 1 \in 1..n /\ i + 1 # m /\ rest[i] = list[i + 1]
      BY <1>1, <2>2 DEF n
    <3> QED  BY <3>1
  <2> QED  BY <2>1, <2>2
<1>3. ASSUME NEW j \in 1..n, j # m
      PROVE  \E i \in 1..(n - 1) : rest[i] = list[j]
  <2>1. CASE j < m
    <3>1. j \in 1..(n - 1) /\ rest[j] = list[j]
      BY <1>1, <2>1 DEF n
    <3> QED  BY <3>1
  <2>2. CASE ~(j < m)
    <3>1. j - 1 \in 1..(n - 1) /\ ~(j - 1 < m) /\ (j - 1) + 1 = j
      BY <1>1, <1>3, <2>2 DEF n
    <3>2. rest[j - 1] = list[j]
      BY <1>1, <3>1
    <3> QED  BY <3>1, <3>2
  <2> QED  BY <2>1, <2>2
<1>4. \A j \in 1..n : list[j] = list[m] <=> j = m
  BY <1>1 DEF n
<1>5. {rest[i] : i \in 1..(n - 1)} = {list[j] : j \in 1..n} \ {list[m]}
  BY <1>2, <1>3, <1>4
<1> QED  BY <1>1, <1>5 DEF Members, rest, n

(* A task that is not listed changes no index, one that is, the others.      *)
LEMMA DroppedNth ==
  ASSUME NEW list \in Seq(Tasks), NEW m \in 1..Len(list),
         NEW i \in 0..Len(list)
  PROVE  Nth(Dropped(list, m), i)
           = IF i < m THEN Nth(list, i) ELSE Nth(list, i + 1)
<1> DEFINE n == Len(list)
           rest == Dropped(list, m)
<1>1. /\ n \in Nat /\ m \in 1..n /\ Len(rest) = n - 1
      /\ \A j \in 1..(n - 1) :
           rest[j] = IF j < m THEN list[j] ELSE list[j + 1]
  <2>1. /\ Len(rest) = n - 1
        /\ \A j \in 1..(n - 1) :
             rest[j] = IF j < m THEN list[j] ELSE list[j + 1]
    BY DroppedFacts
  <2> HIDE DEF rest
  <2> QED  BY <2>1
<1> HIDE DEF rest, n
<1>2. /\ i \in 1..(n - 1) \/ i = 0 \/ i = n
      /\ i < m => (i \in 1..n <=> i \in 1..(n - 1))
      /\ ~(i < m) => (i + 1 \in 1..n <=> i \in 1..(n - 1))
  BY <1>1 DEF n
<1> QED  BY <1>1, <1>2 DEF Nth, rest, n

Unlinked(r, s, list, m) ==
  /\ r \in QueueType /\ Linked(r, Dropped(list, m))
  /\ r.items = s.items
  /\ r.queueIndex = [s.queueIndex EXCEPT ![list[m]] = -1]
  /\ r.uniform = s.uniform /\ r.heapMode = s.heapMode

(* remove() takes a task out of the list wherever it is.                     *)
LEMMA UnlinkLinks ==
  ASSUME NEW s \in QueueType, NEW list, Linked(s, list), NEW m \in 1..Len(list)
  PROVE  Unlinked(Unlink(s, list[m]), s, list, m)
<1> DEFINE n == Len(list)
           t == list[m]
           rest == Dropped(list, m)
           r == Unlink(s, t)
           before == s.previous[t]
           after == s.next[t]
           next == [[v \in Tasks |-> IF v = before THEN after ELSE s.next[v]]
                      EXCEPT ![t] = Null]
           previous == [v \in Tasks |-> IF v = t THEN Null
                                        ELSE IF v = after THEN before
                                        ELSE s.previous[v]]
           oldest == IF before = Null THEN after ELSE s.oldest
           newest == IF after = Null THEN before ELSE s.newest
           size == s.size - 1
           index == [s.queueIndex EXCEPT ![t] = -1]
<1>1. /\ list \in Seq(Tasks) /\ n \in Nat /\ m \in 1..n
      /\ \A i \in 1..n : list[i] \in Tasks /\ list[i] \in Members(list)
      /\ \A i, j \in 1..n : list[i] = list[j] => i = j
      /\ t \in Tasks
  BY AscendingFacts DEF Linked
<1>2. /\ rest \in Seq(Tasks) /\ Len(rest) = n - 1
      /\ \A i \in 1..(n - 1) :
           rest[i] = IF i < m THEN list[i] ELSE list[i + 1]
      /\ Members(rest) = Members(list) \ {t}
  BY <1>1, DroppedFacts, DroppedMembers DEF Linked
<1>3. \A i \in 0..n :
        Nth(rest, i) = IF i < m THEN Nth(list, i) ELSE Nth(list, i + 1)
  BY <1>1, DroppedNth
<1>4. before = Nth(list, m - 1) /\ after = Nth(list, m + 1)
  BY DEF Linked
<1>5. before \in Tasks \cup {Null} /\ after \in Tasks \cup {Null}
  BY <1>1, QueueFields
<1>6. /\ r = [s EXCEPT !.next = next, !.previous = previous, !.oldest = oldest,
                       !.newest = newest, !.queueIndex = index, !.size = size]
  BY DEF Unlink
<1>7. /\ next \in [Tasks -> Tasks \cup {Null}]
      /\ previous \in [Tasks -> Tasks \cup {Null}]
      /\ oldest \in Tasks \cup {Null} /\ newest \in Tasks \cup {Null}
      /\ index \in [Tasks -> Int]
  <2>1. /\ s.next \in [Tasks -> Tasks \cup {Null}]
        /\ s.previous \in [Tasks -> Tasks \cup {Null}]
        /\ s.oldest \in Tasks \cup {Null} /\ s.newest \in Tasks \cup {Null}
        /\ s.queueIndex \in [Tasks -> Int]
    BY QueueFields
  <2> HIDE DEF before, after, t
  <2>2. next \in [Tasks -> Tasks \cup {Null}]
    BY <1>5, <2>1
  <2>3. previous \in [Tasks -> Tasks \cup {Null}]
    BY <1>5, <2>1
  <2>4. index \in [Tasks -> Int]
    <3>1. -1 \in Int
      OBVIOUS
    <3> DEFINE none == -1
    <3> HIDE DEF none
    <3>2. [s.queueIndex EXCEPT ![t] = none] \in [Tasks -> Int]
      BY <2>1, <3>1 DEF none
    <3> QED  BY <3>2 DEF none
  <2>5. oldest \in Tasks \cup {Null} /\ newest \in Tasks \cup {Null}
    BY <1>5, <2>1
  <2> HIDE DEF next, previous, oldest, newest, index
  <2> QED  BY <2>2, <2>3, <2>4, <2>5
<1>8. size = n - 1 /\ size \in Nat
  BY <1>1 DEF Linked
<1>9. \A v \in Tasks :
        /\ next[v] = IF v = t THEN Null
                     ELSE IF v = before THEN after ELSE s.next[v]
        /\ previous[v] = IF v = t THEN Null
                         ELSE IF v = after THEN before ELSE s.previous[v]
  BY <1>1
<1>10. /\ oldest = IF before = Null THEN after ELSE Nth(list, 1)
       /\ newest = IF after = Null THEN before ELSE Nth(list, n)
  BY DEF Linked
<1>11. t = list[m]
  OBVIOUS
<1> HIDE DEF n, t, r, rest, before, after, next, previous, oldest, newest,
             size, index
<1>12. /\ r \in QueueType /\ r.next = next /\ r.previous = previous
       /\ r.oldest = oldest /\ r.newest = newest /\ r.size = size
       /\ r.items = s.items /\ r.queueIndex = index
       /\ r.uniform = s.uniform /\ r.heapMode = s.heapMode
  BY <1>6, <1>7, <1>8 DEF QueueType
<1>13. Ascending(rest)
  <2> SUFFICES ASSUME NEW i \in 1..(n - 1), NEW j \in 1..(n - 1), i < j
               PROVE  rest[i] < rest[j]
    BY <1>2 DEF Ascending
  <2>1. PICK k \in 1..n : rest[i] = list[k] /\ k = IF i < m THEN i ELSE i + 1
    BY <1>1, <1>2
  <2>2. PICK l \in 1..n : rest[j] = list[l] /\ l = IF j < m THEN j ELSE j + 1
    BY <1>1, <1>2
  <2>3. k < l
    BY <1>1, <2>1, <2>2
  <2> QED  BY <2>1, <2>2, <2>3 DEF Linked, Ascending, n
<1>14. /\ \A i \in 1..n : /\ s.next[list[i]] = Nth(list, i + 1)
                         /\ s.previous[list[i]] = Nth(list, i - 1)
       /\ \A i \in 1..n : Nth(list, i) = list[i]
       /\ Nth(list, 0) = Null /\ Nth(list, n + 1) = Null
  BY <1>1 DEF Linked, Nth, n
<1>15. ASSUME NEW i \in 1..(n - 1)
       PROVE  /\ next[rest[i]] = Nth(rest, i + 1)
              /\ previous[rest[i]] = Nth(rest, i - 1)
  <2>1. CASE i < m - 1
    <3>1. /\ i \in 1..n /\ i # m /\ i # m + 1 /\ i # m - 1 /\ i < m
          /\ i + 1 \in 0..n /\ i + 1 < m
          /\ i - 1 \in 0..n /\ i - 1 < m
      BY <1>1, <2>1
    <3>2. rest[i] = list[i] /\ list[i] \in Tasks /\ list[i] # t
      BY <1>1, <1>2, <1>11, <3>1
    <3>3. list[i] # before
      <4>1. m - 1 \in 1..n
        BY <1>1, <2>1
      <4> QED  BY <1>1, <1>4, <1>14, <3>1, <4>1
    <3>4. list[i] # after
      <4>1. CASE m = n
        BY <1>4, <1>14, <3>2, <4>1, NullIsNoTask
      <4>2. CASE m # n
        <5>1. m + 1 \in 1..n
          BY <1>1, <4>2
        <5> QED  BY <1>1, <1>4, <1>14, <3>1, <5>1
      <4> QED  BY <4>1, <4>2
    <3> QED  BY <1>3, <1>9, <1>14, <3>1, <3>2, <3>3, <3>4
  <2>2. CASE i = m - 1
    <3>1. /\ i \in 1..n /\ i # m /\ i # m + 1 /\ i < m
          /\ i + 1 = m /\ m \in 0..n /\ ~(m < m)
          /\ i - 1 \in 0..n /\ i - 1 < m
      BY <1>1, <2>2
    <3>2. rest[i] = list[i] /\ list[i] \in Tasks /\ list[i] # t
          /\ list[i] = before
      BY <1>1, <1>2, <1>4, <1>11, <1>14, <2>2, <3>1
    <3>3. list[i] # after
      <4>1. CASE m = n
        BY <1>4, <1>14, <3>2, <4>1, NullIsNoTask
      <4>2. CASE m # n
        <5>1. m + 1 \in 1..n
          BY <1>1, <4>2
        <5> QED  BY <1>1, <1>4, <1>14, <3>1, <5>1
      <4> QED  BY <4>1, <4>2
    <3>4. next[rest[i]] = Nth(rest, i + 1)
      BY <1>3, <1>4, <1>9, <3>1, <3>2
    <3> QED  BY <1>3, <1>9, <1>14, <3>1, <3>2, <3>3, <3>4
  <2>3. CASE i >= m
    <3>1. /\ i + 1 \in 1..n /\ i + 1 # m /\ ~(i < m)
          /\ i + 1 \in 0..n /\ ~(i + 1 < m) /\ i - 1 \in 0..n
          /\ (i + 1) - 1 = i /\ (i - 1) + 1 = i /\ i \in 1..n
      BY <1>1, <2>3
    <3>2. rest[i] = list[i + 1] /\ list[i + 1] \in Tasks /\ list[i + 1] # t
      BY <1>1, <1>2, <1>11, <3>1
    <3>3. list[i + 1] # before
      <4>1. CASE m = 1
        BY <1>4, <1>14, <3>2, <4>1, NullIsNoTask
      <4>2. CASE m # 1
        <5>1. m - 1 \in 1..n /\ m - 1 # i + 1
          BY <1>1, <2>3, <4>2
        <5> QED  BY <1>1, <1>4, <1>14, <3>1, <5>1
      <4> QED  BY <4>1, <4>2
    <3>4. next[rest[i]] = Nth(rest, i + 1)
      BY <1>3, <1>9, <1>14, <3>1, <3>2, <3>3
    <3>5. CASE i = m
      <4>1. i - 1 < m /\ m + 1 \in 1..n /\ m + 1 = i + 1
        BY <1>1, <3>1, <3>5
      <4>2. list[i + 1] = after
        BY <1>4, <1>14, <4>1
      <4>3. previous[rest[i]] = before
        BY <1>9, <3>2, <4>2
      <4> QED  BY <1>3, <1>4, <3>1, <3>4, <3>5, <4>1, <4>3
    <3>6. CASE i # m
      <4>1. ~(i - 1 < m) /\ i # m
        BY <1>1, <2>3, <3>6
      <4>2. list[i + 1] # after
        <5>1. m + 1 \in 1..n /\ m + 1 # i + 1
          BY <1>1, <2>3, <3>1, <3>6
        <5> QED  BY <1>1, <1>4, <1>14, <3>1, <5>1
      <4>3. s.previous[list[i + 1]] = Nth(list, i)
        BY <1>14, <3>1
      <4>4. Nth(rest, i - 1) = Nth(list, i)
        BY <1>3, <3>1, <4>1
      <4> QED  BY <1>9, <3>2, <3>4, <4>2, <4>3, <4>4
    <3> QED  BY <3>5, <3>6
  <2>4. i < m - 1 \/ i = m - 1 \/ i >= m
    BY <1>1
  <2> QED  BY <2>1, <2>2, <2>3, <2>4
<1>16. ASSUME NEW u \in Tasks \ Members(rest)
       PROVE  next[u] = Null /\ previous[u] = Null
  <2>1. CASE u = t
    BY <1>9, <2>1
  <2>2. CASE u # t
    <3>1. u \in Tasks \ Members(list)
      BY <1>2, <2>2
    <3>2. \A i \in 1..n : u # list[i]
      BY <1>1, <3>1
    <3>3. u # before /\ u # after
      BY <1>4, <3>2, NullIsNoTask DEF Nth, n
    <3>4. s.next[u] = Null /\ s.previous[u] = Null
      BY <3>1 DEF Linked
    <3> QED  BY <1>9, <2>2, <3>3, <3>4
  <2> QED  BY <2>1, <2>2
<1>17. oldest = Nth(rest, 1)
  <2>1. 1 \in 0..n
    BY <1>1
  <2>2. CASE m = 1
    <3>1. before = Null /\ after = Nth(list, 2) /\ ~(1 < m)
      BY <1>4, <1>14, <2>2
    <3> QED  BY <1>3, <1>10, <2>1, <3>1
  <2>3. CASE m # 1
    <3>1. 1 < m /\ m - 1 \in 1..n
      BY <1>1, <2>3
    <3>2. before # Null
      BY <1>1, <1>4, <1>14, <3>1, NullIsNoTask
    <3> QED  BY <1>3, <1>10, <2>1, <3>1, <3>2
  <2> QED  BY <2>2, <2>3
<1>18. newest = Nth(rest, n - 1)
  <2>1. n - 1 \in 0..n /\ (n - 1) + 1 = n
    BY <1>1
  <2>2. CASE m = n
    <3>1. after = Null /\ before = Nth(list, n - 1) /\ n - 1 < m
      BY <1>1, <1>4, <1>14, <2>2
    <3> QED  BY <1>3, <1>10, <2>1, <3>1
  <2>3. CASE m # n
    <3>1. ~(n - 1 < m) /\ m + 1 \in 1..n
      BY <1>1, <2>3
    <3>2. after # Null
      <4>1. after = list[m + 1] /\ list[m + 1] \in Tasks
        BY <1>1, <1>4, <1>14, <3>1
      <4> QED  BY <4>1, NullIsNoTask
    <3> QED  BY <1>3, <1>10, <2>1, <3>1, <3>2
  <2> QED  BY <2>2, <2>3
<1>19. Linked(r, rest)
  BY <1>2, <1>8, <1>12, <1>13, <1>15, <1>16, <1>17, <1>18 DEF Linked
<1> QED  BY <1>12, <1>19 DEF Unlinked, r, rest, index, t

-----------------------------------------------------------------------------
(* The promotion from one priority to a heap.                                *)

SameList(r, s) ==
  /\ r.previous = s.previous /\ r.next = s.next
  /\ r.oldest = s.oldest /\ r.newest = s.newest /\ r.size = s.size

LEMMA SameListIsLinked ==
  ASSUME NEW r, NEW s, NEW list, Linked(s, list), SameList(r, s)
  PROVE  Linked(r, list)
BY DEF Linked, SameList

(* After k iterations of the loop that fills the array.                      *)
Filled(s, list, k, l) ==
  LET m == Len(l.q.items)
  IN /\ l.at = Nth(list, m + 1) /\ m <= Len(list)
     /\ \A i \in 1..m : l.q.items[i] = list[i] /\ l.q.queueIndex[list[i]] = i - 1
     /\ m >= k \/ m = Len(list)
     /\ SameList(l.q, s) /\ l.q.uniform = s.uniform
     /\ l.q.heapMode = s.heapMode
     /\ \A u \in Tasks \ Members(list) : l.q.queueIndex[u] = s.queueIndex[u]

Filling == [at : Tasks \cup {Null}, q : QueueType]

LEMMA FilledStep ==
  ASSUME NEW s \in QueueType, NEW list, Linked(s, list), NEW k \in Nat \ {0},
         NEW l \in Filling, Filled(s, list, k - 1, l)
  PROVE  PushStep[l] \in Filling /\ Filled(s, list, k, PushStep[l])
<1> DEFINE n == Len(list)
           m == Len(l.q.items)
           pushed == Push(l.q, l.at)
           r == PushStep[l]
<1>1. /\ list \in Seq(Tasks) /\ n \in Nat
      /\ \A i \in 1..n : list[i] \in Tasks /\ list[i] \in Members(list)
      /\ \A i, j \in 1..n : list[i] = list[j] => i = j
  BY AscendingFacts DEF Linked
<1>2. /\ l.q \in QueueType /\ l.at \in Tasks \cup {Null}
      /\ l.q.items \in Seq(Tasks) /\ m \in Nat /\ m <= n
      /\ l.q.queueIndex \in [Tasks -> Int]
      /\ l.q.next \in [Tasks -> Tasks \cup {Null}]
  <2>1. l.q \in QueueType /\ l.at \in Tasks \cup {Null} /\ m <= n
    BY DEF Filling, Filled
  <2> QED  BY <2>1, QueueFields
<1>3. r = IF l.at = Null THEN l
          ELSE [at |-> l.q.next[l.at], q |-> pushed]
  BY DEF PushStep, Filling
<1>4. /\ l.at = Nth(list, m + 1) /\ SameList(l.q, s)
      /\ l.q.uniform = s.uniform /\ l.q.heapMode = s.heapMode
      /\ m >= k - 1 \/ m = n
      /\ \A i \in 1..m :
           l.q.items[i] = list[i] /\ l.q.queueIndex[list[i]] = i - 1
      /\ \A u \in Tasks \ Members(list) : l.q.queueIndex[u] = s.queueIndex[u]
  BY DEF Filled
<1> HIDE DEF r
<1>5. CASE l.at = Null
  <2>1. m = n
    <3>1. m # n => m + 1 \in 1..n /\ list[m + 1] \in Tasks
      BY <1>1, <1>2
    <3> QED  BY <1>4, <1>5, <3>1, NullIsNoTask DEF Nth
  <2> QED  BY <1>3, <1>4, <1>5, <2>1 DEF Filled, r
<1>6. CASE l.at # Null
  <2> DEFINE t == l.at
  <2>1. m + 1 \in 1..n /\ t = list[m + 1] /\ t \in Tasks
    BY <1>1, <1>4, <1>6 DEF Nth
  <2>2. /\ pushed \in QueueType /\ pushed.items = Append(l.q.items, t)
        /\ pushed.queueIndex = [l.q.queueIndex EXCEPT ![t] = m]
        /\ SameList(pushed, l.q) /\ pushed.uniform = l.q.uniform
        /\ pushed.heapMode = l.q.heapMode
    BY <1>2, <2>1, PushFields DEF SameList
  <2> HIDE DEF pushed, t
  <2>3. /\ r.at = l.q.next[t] /\ r.q = pushed /\ r \in Filling
    BY <1>2, <1>3, <1>6, <2>1, <2>2 DEF Filling, t
  <2>4. /\ Len(pushed.items) = m + 1
        /\ \A i \in 1..m : pushed.items[i] = l.q.items[i]
        /\ pushed.items[m + 1] = t
    BY <1>2, <2>1, <2>2
  <2>5. ASSUME NEW i \in 1..(m + 1)
        PROVE  /\ pushed.items[i] = list[i]
               /\ pushed.queueIndex[list[i]] = i - 1
    <3>1. CASE i = m + 1
      <4>1. (m + 1) - 1 = m
        BY <1>2
      <4>2. pushed.queueIndex[t] = m
        BY <1>2, <2>1, <2>2
      <4>3. list[i] = t /\ pushed.items[i] = t
        BY <2>1, <2>4, <3>1
      <4> QED  BY <3>1, <4>1, <4>2, <4>3
    <3>2. CASE i # m + 1
      <4>1. i \in 1..m /\ i \in 1..n
        <5>1. m \in Nat /\ n \in Nat /\ m <= n
          BY <1>1, <1>2
        <5> HIDE DEF m, n
        <5> QED  BY <3>2, <5>1
      <4>2. list[i] # t /\ list[i] \in Tasks
        BY <1>1, <2>1, <3>2, <4>1
      <4> QED  BY <1>2, <1>4, <2>2, <2>4, <4>1, <4>2
    <3> QED  BY <3>1, <3>2
  <2>6. r.at = Nth(list, Len(pushed.items) + 1)
    <3>1. l.q.next = s.next
      BY <1>4 DEF SameList
    <3>2. s.next[t] = Nth(list, (m + 1) + 1)
      BY <2>1 DEF Linked
    <3> QED  BY <2>3, <2>4, <3>1, <3>2
  <2>7. SameList(pushed, s)
    BY <1>4, <2>2 DEF SameList
  <2>8. ASSUME NEW u \in Tasks \ Members(list)
        PROVE  pushed.queueIndex[u] = s.queueIndex[u]
    <3>1. u # t
      BY <1>1, <2>1
    <3> QED  BY <1>2, <1>4, <2>2, <3>1
  <2>9. m + 1 >= k \/ m + 1 = n
    BY <1>1, <1>2, <1>4, <2>1
  <2>10. m + 1 <= n
    BY <2>1
  <2> HIDE DEF n, m
  <2>11. Filled(s, list, k, r)
    BY <1>4, <2>2, <2>3, <2>4, <2>5, <2>6, <2>7, <2>8, <2>9, <2>10
       DEF Filled, n
  <2> QED  BY <2>3, <2>11 DEF r
<1> QED  BY <1>5, <1>6

(* The array holds the tasks of the list, in their order.                    *)
LEMMA ArrayIsFilled ==
  ASSUME NEW s \in QueueType, NEW list, Linked(s, list), s.items = <<>>
  PROVE  LET r == Repeat(PushStep, MaxTasks, [at |-> s.oldest, q |-> s]).q
         IN  /\ r \in QueueType /\ SameList(r, s) /\ r.uniform = s.uniform
             /\ r.heapMode = s.heapMode /\ Len(r.items) = Len(list)
             /\ AllInPlace(r.items, r.queueIndex, Members(list))
             /\ \A u \in Tasks \ Members(list) :
                  r.queueIndex[u] = s.queueIndex[u]
<1> DEFINE n == Len(list)
           first == [at |-> s.oldest, q |-> s]
           end == Repeat(PushStep, MaxTasks, first)
           r == end.q
           Inv == {x \in Nat \X Filling : Filled(s, list, x[1], x[2])}
<1>1. /\ list \in Seq(Tasks) /\ n \in 0..MaxTasks /\ n \in Nat
      /\ MaxTasks \in Nat
      /\ \A i \in 1..n : list[i] \in Tasks /\ list[i] \in Members(list)
      /\ \A u \in Members(list) : \E i \in 1..n : u = list[i]
      /\ Members(list) \subseteq Tasks
  BY AscendingFacts, ListIsBounded, QueueAssumption DEF Linked
<1>2. <<0, first>> \in Inv
  <2>1. first \in Filling /\ first.at = Nth(list, 1) /\ first.q = s
    BY QueueFields DEF Linked, Filling
  <2>2. Len(s.items) = 0 /\ 0 + 1 = 1
    OBVIOUS
  <2> HIDE DEF first
  <2>3. SameList(s, s)
    BY DEF SameList
  <2>4. Filled(s, list, 0, first)
    BY <1>1, <2>1, <2>2, <2>3 DEF Filled
  <2> QED  BY <2>1, <2>4
<1>3. ASSUME NEW k \in 1..MaxTasks, NEW l, <<k - 1, l>> \in Inv
      PROVE  <<k, PushStep[l]>> \in Inv
  <2>1. l \in Filling /\ Filled(s, list, k - 1, l) /\ k \in Nat \ {0}
    BY <1>1, <1>3
  <2>2. PushStep[l] \in Filling /\ Filled(s, list, k, PushStep[l])
    BY <2>1, FilledStep
  <2> QED  BY <2>1, <2>2
<1>4. <<MaxTasks, end>> \in Inv
  <2> HIDE DEF Inv, first
  <2> QED  BY <1>1, <1>2, <1>3, LoopKeeps
<1>5. end \in Filling /\ Filled(s, list, MaxTasks, end)
  BY <1>4
<1> HIDE DEF end
<1>6. r \in QueueType /\ r.items \in Seq(Tasks)
      /\ r.queueIndex \in [Tasks -> Int] /\ Len(r.items) \in Nat
  <2>1. r \in QueueType
    BY <1>5 DEF Filling
  <2> QED  BY <2>1, QueueFields
<1>7. /\ SameList(r, s) /\ r.uniform = s.uniform /\ r.heapMode = s.heapMode
      /\ \A u \in Tasks \ Members(list) : r.queueIndex[u] = s.queueIndex[u]
  BY <1>5 DEF Filled
<1>8. Len(r.items) = n
      /\ \A i \in 1..n : r.items[i] = list[i] /\ r.queueIndex[list[i]] = i - 1
  BY <1>1, <1>5, <1>6 DEF Filled
<1> HIDE DEF r, n
<1>9. ASSUME NEW j \in 0..(n - 1)
      PROVE  r.items[j + 1] \in Members(list) /\ r.queueIndex[r.items[j + 1]] = j
  <2>1. j + 1 \in 1..n /\ (j + 1) - 1 = j
    BY <1>1
  <2> QED  BY <1>1, <1>8, <2>1
<1>10. ASSUME NEW u \in Members(list)
       PROVE  r.queueIndex[u] \in 0..(n - 1) /\ r.items[r.queueIndex[u] + 1] = u
  <2>1. PICK i \in 1..n : u = list[i]
    BY <1>1
  <2>2. r.queueIndex[u] = i - 1 /\ r.items[i] = u
    BY <1>8, <2>1
  <2>3. i - 1 \in 0..(n - 1) /\ (i - 1) + 1 = i
    BY <1>1
  <2> QED  BY <2>2, <2>3
<1>11. AllInPlace(r.items, r.queueIndex, Members(list))
  BY <1>1, <1>6, <1>8, <1>9, <1>10 DEF AllInPlace
<1> QED  BY <1>6, <1>7, <1>8, <1>11 DEF r, end, first, n

(* The order from i on, once the tasks below i are in order.                 *)
LEMMA HeapifyOrder ==
  ASSUME NEW prio, NEW items \in Seq(Tasks), NEW i \in 0..(Len(items) - 1),
         HeapOrder(prio, items, i + 1)
  PROVE  DownOrder(prio, items, i, i, items[i + 1])
<1>1. \A j \in 1..(Len(items) - 1) : Parent(j) \in 0..(j - 1)
  BY ParentOf
<1>2. \A j \in 1..(Len(items) - 1) : Parent(j) >= i /\ Parent(j) # i =>
        j # i /\ Parent(j) >= i + 1
  BY <1>1
<1>3. ~(i > 0 /\ Parent(i) >= i)
  <2>1. i > 0 => i \in Nat \ {0}
    OBVIOUS
  <2> QED  BY <2>1, ParentOf
<1> QED  BY <1>2, <1>3 DEF HeapOrder, DownOrder, AroundOrder, At

(* After k iterations of the loop that sorts the array.                      *)
Heapifying(prio, s, M, k, l) ==
  /\ AllInPlace(l.q.items, l.q.queueIndex, M) /\ OnlyHeap(l.q, s, M)
  /\ HeapOrder(prio, l.q.items, l.index + 1)
  /\ l.index \in -1..(Len(s.items) - 1)
  /\ l.index <= Len(s.items) - 1 - k \/ l.index = -1

LEMMA HeapifyingStep ==
  ASSUME NEW prio \in [Tasks -> Nat], NEW s \in QueueType, NEW M,
         NEW k \in Nat \ {0}, NEW l \in AtIndex,
         Heapifying(prio, s, M, k - 1, l)
  PROVE  /\ HeapifyStep(prio)[l] \in AtIndex
         /\ Heapifying(prio, s, M, k, HeapifyStep(prio)[l])
<1> DEFINE n == Len(s.items)
           i == l.index
           sifted == SiftDown(prio, l.q, i)
           r == HeapifyStep(prio)[l]
<1>1. /\ l.q \in QueueType /\ i \in -1..(n - 1) /\ n \in Nat
      /\ Len(l.q.items) = n /\ l.q.items \in Seq(Tasks) /\ i \in Int
  BY QueueFields DEF AtIndex, Heapifying, OnlyHeap
<1>2. r = IF i < 0 THEN l ELSE [index |-> i - 1, q |-> sifted]
  BY DEF HeapifyStep
<1>3. CASE i < 0
  BY <1>1, <1>2, <1>3 DEF Heapifying
<1>4. CASE ~(i < 0)
  <2>1. i \in 0..(Len(l.q.items) - 1) /\ i \in Nat /\ i <= i
    BY <1>1, <1>4
  <2>2. DownOrder(prio, l.q.items, i, i, l.q.items[i + 1])
    BY <1>1, <2>1, HeapifyOrder DEF Heapifying
  <2>3. /\ sifted \in QueueType /\ OnlyHeap(sifted, l.q, M)
        /\ AllInPlace(sifted.items, sifted.queueIndex, M)
        /\ HeapOrder(prio, sifted.items, i)
    BY <1>1, <2>1, <2>2, SiftDownSorts DEF Heapifying
  <2> HIDE DEF sifted
  <2>4. OnlyHeap(sifted, s, M)
    BY <2>3, OnlyHeapTwice DEF Heapifying
  <2> HIDE DEF r
  <2>5. r.index = i - 1 /\ r.q = sifted /\ r \in AtIndex
    <3>1. r = [index |-> i - 1, q |-> sifted] /\ i - 1 \in Int
      BY <1>1, <1>2, <1>4
    <3> QED  BY <2>3, <3>1 DEF AtIndex
  <2>6. /\ i - 1 \in -1..(n - 1) /\ (i - 1) + 1 = i
        /\ i - 1 <= n - 1 - k \/ i - 1 = -1
    <3>1. i <= n - 1 - (k - 1) \/ i = -1
      BY DEF Heapifying
    <3>2. i \in 0..(n - 1) /\ n \in Nat /\ k \in Nat
      BY <1>1, <1>4
    <3> HIDE DEF i, n
    <3> QED  BY <3>1, <3>2
  <2> HIDE DEF i, n
  <2>7. Heapifying(prio, s, M, k, r)
    BY <2>3, <2>4, <2>5, <2>6 DEF Heapifying, n
  <2> QED  BY <2>5, <2>7 DEF r
<1> QED  BY <1>3, <1>4

(* The first insert() of a second priority sorts the array.                  *)
LEMMA HeapifySorts ==
  ASSUME NEW prio \in [Tasks -> Nat], NEW s \in QueueType, NEW M,
         AllInPlace(s.items, s.queueIndex, M)
  PROVE  LET n == Len(s.items)
             r == Repeat(HeapifyStep(prio), n,
                         [index |-> n \div 2 - 1, q |-> s]).q
         IN  r \in QueueType /\ Heaped(prio, r, M) /\ OnlyHeap(r, s, M)
<1> DEFINE n == Len(s.items)
           half == n \div 2 - 1
           first == [index |-> half, q |-> s]
           end == Repeat(HeapifyStep(prio), n, first)
           r == end.q
           Inv == {x \in Nat \X AtIndex : Heapifying(prio, s, M, x[1], x[2])}
<1>1. /\ n \in Nat /\ half \in Int /\ half \in -1..(n - 1)
      /\ half + 1 = n \div 2 /\ half <= n - 1 - 0
  <2>1. n \in Nat
    BY QueueFields
  <2> HIDE DEF n
  <2>2. n \div 2 \in 0..n
    BY <2>1
  <2> QED  BY <2>1, <2>2
<1>2. HeapOrder(prio, s.items, half + 1)
  <2> SUFFICES ASSUME NEW j \in 1..(n - 1), Parent(j) >= half + 1
               PROVE  FALSE
    BY DEF HeapOrder
  <2>1. j \in Nat \ {0}
    BY <1>1
  <2>2. Parent(j) \in 0..(j - 1)
    BY <2>1, ParentOf
  <2>3. Parent(j) \in Nat /\ Parent(j) >= n \div 2
    <3>1. Parent(j) \in Nat
      BY <2>1, <2>2
    <3>2. half + 1 = n \div 2 /\ Parent(j) >= half + 1
      BY <1>1
    <3> HIDE DEF half, n
    <3> QED  BY <3>1, <3>2
  <2> QED  BY <1>1, <2>3, LeavesHaveNoChild
<1> HIDE DEF half
<1>3. <<0, first>> \in Inv
  <2>1. first \in AtIndex /\ first.index = half /\ first.q = s
    BY <1>1 DEF AtIndex
  <2>2. OnlyHeap(s, s, M)
    BY DEF OnlyHeap
  <2> HIDE DEF first
  <2>3. Heapifying(prio, s, M, 0, first)
    BY <1>1, <1>2, <2>1, <2>2 DEF Heapifying
  <2> QED  BY <2>1, <2>3
<1>4. ASSUME NEW k \in 1..n, NEW l, <<k - 1, l>> \in Inv
      PROVE  <<k, HeapifyStep(prio)[l]>> \in Inv
  <2>1. l \in AtIndex /\ Heapifying(prio, s, M, k - 1, l) /\ k \in Nat \ {0}
    BY <1>1, <1>4
  <2>2. /\ HeapifyStep(prio)[l] \in AtIndex
        /\ Heapifying(prio, s, M, k, HeapifyStep(prio)[l])
    BY <2>1, HeapifyingStep
  <2> QED  BY <2>1, <2>2
<1>5. <<n, end>> \in Inv
  <2> HIDE DEF Inv, first, n
  <2> QED  BY <1>1, <1>3, <1>4, LoopKeeps
<1>6. end \in AtIndex /\ Heapifying(prio, s, M, n, end)
  BY <1>5
<1> HIDE DEF end
<1>7. end.index = -1 /\ end.index + 1 = 0
  BY <1>1, <1>6 DEF Heapifying
<1>8. r \in QueueType /\ Heaped(prio, r, M) /\ OnlyHeap(r, s, M)
  BY <1>6, <1>7 DEF Heapifying, Heaped, AtIndex
<1> QED  BY <1>8 DEF end, first, half

-----------------------------------------------------------------------------
(* The state of a queue that holds the tasks of list.                        *)

Sound(prio, s, list) ==
  /\ s \in QueueType /\ Linked(s, list)
  /\ \A u \in Tasks \ Members(list) : s.queueIndex[u] = -1
  /\ s.heapMode => /\ list # <<>> /\ Len(s.items) = Len(list)
                   /\ Heaped(prio, s, Members(list))
  /\ ~s.heapMode => /\ s.items = <<>>
                    /\ \A u \in Members(list) : /\ s.queueIndex[u] = FIFO
                                                /\ prio[u] = s.uniform

LEMMA SoundFacts ==
  ASSUME NEW prio, NEW s, NEW list, Sound(prio, s, list)
  PROVE  /\ s \in QueueType /\ Linked(s, list) /\ Ascending(list)
         /\ list \in Seq(Tasks) /\ Len(list) \in 0..MaxTasks
         /\ Members(list) \subseteq Tasks /\ s.size = Len(list)
         /\ Listed(s) = list
BY LinkedReads, ListIsBounded, AscendingFacts DEF Sound, Linked

(* Only the priorities of the queued tasks matter.                           *)
LEMMA SoundForOthers ==
  ASSUME NEW prio, NEW prio2, NEW s, NEW list, Sound(prio, s, list),
         \A u \in Members(list) : prio2[u] = prio[u]
  PROVE  Sound(prio2, s, list)
<1>1. ASSUME s.heapMode
      PROVE  HeapOrder(prio2, s.items, 0)
  <2>1. /\ HeapOrder(prio, s.items, 0) /\ s.items \in Seq(Tasks)
        /\ \A j \in 0..(Len(s.items) - 1) : s.items[j + 1] \in Members(list)
    BY <1>1 DEF Sound, Heaped, AllInPlace
  <2>2. Len(s.items) \in Nat
    BY <2>1
  <2> SUFFICES ASSUME NEW j \in 1..(Len(s.items) - 1), Parent(j) >= 0
               PROVE  ~Before(prio2, s.items[j + 1], s.items[Parent(j) + 1])
    BY DEF HeapOrder
  <2>3. j \in Nat \ {0}
    BY <2>2
  <2>4. Parent(j) \in 0..(j - 1)
    BY <2>3, ParentOf
  <2>5. Parent(j) \in 0..(Len(s.items) - 1) /\ j \in 0..(Len(s.items) - 1)
    BY <2>2, <2>3, <2>4
  <2>6. s.items[j + 1] \in Members(list) /\ s.items[Parent(j) + 1] \in Members(list)
    BY <2>1, <2>5
  <2>7. ~Before(prio, s.items[j + 1], s.items[Parent(j) + 1])
    BY <2>1 DEF HeapOrder
  <2> QED  BY <2>6, <2>7 DEF Before
<1> QED  BY <1>1 DEF Sound, Heaped

(* contains() answers by the list.                                           *)
LEMMA ContainsListed ==
  ASSUME NEW prio, NEW s, NEW list, Sound(prio, s, list), NEW t \in Tasks
  PROVE  Contains(s, t) <=> t \in Members(list)
<1>1. CASE t \notin Members(list)
  <2>1. s.queueIndex[t] = -1
    BY <1>1 DEF Sound
  <2> QED  BY <1>1, <2>1 DEF Contains, FIFO
<1>2. CASE t \in Members(list) /\ s.heapMode
  <2>1. /\ s.queueIndex[t] \in 0..(Len(s.items) - 1)
        /\ s.items[s.queueIndex[t] + 1] = t
    BY <1>2 DEF Sound, Heaped, AllInPlace
  <2> QED  BY <1>2, <2>1 DEF Contains, FIFO
<1>3. CASE t \in Members(list) /\ ~s.heapMode
  <2>1. s.queueIndex[t] = FIFO
    BY <1>3 DEF Sound
  <2>2. PICK i \in 1..Len(list) : t = list[i]
    BY <1>3 DEF Members
  <2>3. /\ Len(list) \in Nat /\ \A j \in 1..Len(list) : list[j] \in Tasks
        /\ s.oldest = Nth(list, 1) /\ s.previous[t] = Nth(list, i - 1)
    BY <2>2, AscendingFacts DEF Sound, Linked
  <2>4. CASE i = 1
    BY <1>3, <2>1, <2>2, <2>3, <2>4 DEF Contains, Nth
  <2>5. CASE i # 1
    <3>1. i - 1 \in 1..Len(list)
      BY <2>3, <2>5
    <3>2. s.previous[t] # Null
      BY <2>3, <3>1, NullIsNoTask DEF Nth
    <3> QED  BY <1>3, <2>1, <3>2 DEF Contains
  <2> QED  BY <2>4, <2>5
<1> QED  BY <1>1, <1>2, <1>3

(* A queue that was just filled in heap mode.                                *)
LEMMA SoundInHeap ==
  ASSUME NEW prio, NEW r \in QueueType, NEW s, NEW list, Linked(s, list),
         SameList(r, s), r.heapMode, list # <<>>, Len(r.items) = Len(list),
         Heaped(prio, r, Members(list)),
         \A u \in Tasks \ Members(list) : r.queueIndex[u] = -1
  PROVE  Sound(prio, r, list)
BY SameListIsLinked DEF Sound

LEMMA InsertedInHeap ==
  ASSUME NEW prio \in [Tasks -> Nat], NEW s, NEW list, Sound(prio, s, list),
         NEW t \in Tasks, \A u \in Members(list) : u < t, s.heapMode
  PROVE  Sound(prio, Inserted(prio, s, t), Append(list, t))
<1> DEFINE more == Append(list, t)
           linked == LinkLast(s, t)
           pushed == Push(linked, t)
           r == SiftUp(prio, pushed, pushed.queueIndex[t])
           M == Members(list)
<1>1. /\ s \in QueueType /\ list \in Seq(Tasks) /\ M \subseteq Tasks
      /\ Linked(s, list) /\ Len(list) \in Nat
      /\ Len(s.items) = Len(list) /\ Heaped(prio, s, M)
      /\ \A u \in Tasks \ M : s.queueIndex[u] = -1
  BY SoundFacts DEF Sound
<1>2. /\ linked \in QueueType /\ Linked(linked, more)
      /\ linked.items = s.items /\ linked.queueIndex = s.queueIndex
      /\ linked.heapMode = s.heapMode
  BY <1>1, LinkLastLinks
<1>3. t \in Tasks \ M
  <2>1. ~(t < t)
    BY QueueAssumption DEF Tasks
  <2> QED  BY <2>1
<1>4. /\ more \in Seq(Tasks) /\ Len(more) = Len(list) + 1
      /\ Members(more) = M \cup {t}
  BY <1>1, Appended
<1> HIDE DEF linked
<1>5. /\ pushed \in QueueType /\ pushed.items = Append(linked.items, t)
      /\ pushed.queueIndex = [linked.queueIndex EXCEPT ![t] = Len(linked.items)]
      /\ SameList(pushed, linked) /\ pushed.heapMode = linked.heapMode
  BY <1>2, PushFields DEF SameList
<1>6. Heaped(prio, linked, M)
  BY <1>1, <1>2 DEF Heaped
<1>7. /\ r \in QueueType /\ Heaped(prio, r, M \cup {t})
      /\ OnlyHeap(r, pushed, M \cup {t})
  BY <1>2, <1>3, <1>6, InsertHeaps
<1> HIDE DEF r, pushed, more
<1>8. SameList(r, linked) /\ r.heapMode
  BY <1>2, <1>5, <1>7 DEF OnlyHeap, SameList
<1>9. Len(r.items) = Len(more) /\ more # <<>>
  <2>1. s.items \in Seq(Tasks)
    BY <1>1, QueueFields
  <2>2. Len(pushed.items) = Len(list) + 1
    BY <1>1, <1>2, <1>5, <2>1
  <2> QED  BY <1>1, <1>4, <1>7, <2>2 DEF OnlyHeap
<1>10. ASSUME NEW u \in Tasks \ Members(more)
       PROVE  r.queueIndex[u] = -1
  <2>1. u \in Tasks \ (M \cup {t}) /\ u # t /\ u \in Tasks \ M
    BY <1>4
  <2>2. pushed.queueIndex[u] = s.queueIndex[u]
    BY <1>1, <1>2, <1>5, <2>1, QueueFields
  <2>3. r.queueIndex[u] = pushed.queueIndex[u]
    BY <1>7, <2>1 DEF OnlyHeap
  <2> QED  BY <1>1, <2>1, <2>2, <2>3
<1>11. Sound(prio, r, more)
  BY <1>2, <1>4, <1>7, <1>8, <1>9, <1>10, SoundInHeap
<1>12. r = Inserted(prio, s, t)
  BY DEF Inserted, r, pushed, linked
<1> QED  BY <1>11, <1>12 DEF more

(* promoteToHeap() of a queue whose list is linked and whose array is empty. *)
LEMMA PromotedSound ==
  ASSUME NEW prio \in [Tasks -> Nat], NEW s \in QueueType, NEW list,
         Linked(s, list), list # <<>>, s.items = <<>>,
         \A u \in Tasks \ Members(list) : s.queueIndex[u] = -1
  PROVE  Sound(prio, PromoteToHeap(prio, s), list)
<1> DEFINE s1 == [s EXCEPT !.heapMode = TRUE]
           pushed == Repeat(PushStep, MaxTasks, [at |-> s1.oldest, q |-> s1]).q
           n == Len(pushed.items)
           r == Repeat(HeapifyStep(prio), n,
                       [index |-> n \div 2 - 1, q |-> pushed]).q
           M == Members(list)
<1>1. /\ s1 \in QueueType /\ SameList(s1, s) /\ s1.items = <<>>
      /\ s1.queueIndex = s.queueIndex /\ s1.heapMode /\ s1.oldest = s.oldest
  BY DEF QueueType, SameList
<1> HIDE DEF s1
<1>2. Linked(s1, list)
  BY <1>1, SameListIsLinked
<1>3. /\ pushed \in QueueType /\ SameList(pushed, s1)
      /\ pushed.heapMode = s1.heapMode /\ n = Len(list)
      /\ AllInPlace(pushed.items, pushed.queueIndex, M)
      /\ \A u \in Tasks \ M : pushed.queueIndex[u] = s1.queueIndex[u]
  BY <1>1, <1>2, ArrayIsFilled
<1> HIDE DEF pushed
<1>4. /\ r \in QueueType /\ Heaped(prio, r, M) /\ OnlyHeap(r, pushed, M)
  BY <1>3, HeapifySorts
<1>5. PromoteToHeap(prio, s) = r
  BY <1>1 DEF PromoteToHeap, pushed, s1
<1> HIDE DEF r
<1>6. /\ SameList(r, s) /\ r.heapMode /\ Len(r.items) = Len(list)
      /\ \A u \in Tasks \ M : r.queueIndex[u] = -1
  BY <1>1, <1>3, <1>4 DEF SameList, OnlyHeap
<1>7. Sound(prio, r, list)
  BY <1>4, <1>6, SoundInHeap
<1> QED  BY <1>5, <1>7

LEMMA InsertedInList ==
  ASSUME NEW prio \in [Tasks -> Nat], NEW s, NEW list, Sound(prio, s, list),
         NEW t \in Tasks, \A u \in Members(list) : u < t, ~s.heapMode
  PROVE  Sound(prio, Inserted(prio, s, t), Append(list, t))
<1> DEFINE more == Append(list, t)
           linked == LinkLast(s, t)
           known == IF linked.size = 1 THEN [linked EXCEPT !.uniform = prio[t]]
                    ELSE linked
           fifo == [known EXCEPT !.queueIndex = [@ EXCEPT ![t] = FIFO]]
           M == Members(list)
<1>1. /\ s \in QueueType /\ list \in Seq(Tasks) /\ M \subseteq Tasks
      /\ Linked(s, list) /\ Len(list) \in Nat /\ s.items = <<>>
      /\ \A u \in Tasks \ M : s.queueIndex[u] = -1
      /\ \A u \in M : s.queueIndex[u] = FIFO /\ prio[u] = s.uniform
  <2>1. /\ s \in QueueType /\ list \in Seq(Tasks) /\ M \subseteq Tasks
        /\ Linked(s, list)
    BY SoundFacts
  <2>2. Len(list) \in Nat
    BY <2>1
  <2>3. /\ s.items = <<>> /\ \A u \in Tasks \ M : s.queueIndex[u] = -1
        /\ \A u \in M : s.queueIndex[u] = FIFO /\ prio[u] = s.uniform
    BY DEF Sound
  <2> QED  BY <2>1, <2>2, <2>3
<1>2. /\ linked \in QueueType /\ Linked(linked, more)
      /\ linked.items = s.items /\ linked.queueIndex = s.queueIndex
      /\ linked.heapMode = s.heapMode /\ linked.uniform = s.uniform
  BY <1>1, LinkLastLinks
<1>3. t \in Tasks \ M
  <2>1. ~(t < t)
    BY QueueAssumption DEF Tasks
  <2> QED  BY <2>1
<1>4. /\ more \in Seq(Tasks) /\ Len(more) = Len(list) + 1
      /\ Members(more) = M \cup {t} /\ more # <<>>
  <2>1. /\ more \in Seq(Tasks) /\ Len(more) = Len(list) + 1
        /\ Members(more) = M \cup {t}
    BY <1>1, Appended
  <2> QED  BY <1>1, <2>1
<1>5. linked.size = Len(list) + 1
  BY <1>2, <1>4 DEF Linked
<1> HIDE DEF linked, more
<1>6. /\ known \in QueueType /\ SameList(known, linked)
      /\ known.items = <<>> /\ known.queueIndex = s.queueIndex
      /\ ~known.heapMode
      /\ known.uniform = IF linked.size = 1 THEN prio[t] ELSE s.uniform
  <2>1. prio[t] \in Nat
    BY <1>3
  <2>2. CASE linked.size = 1
    BY <1>1, <1>2, <2>1, <2>2 DEF QueueType, SameList
  <2>3. CASE linked.size # 1
    BY <1>1, <1>2, <2>3 DEF SameList
  <2> QED  BY <2>2, <2>3
<1> HIDE DEF known
<1>7. Linked(known, more)
  BY <1>2, <1>6, SameListIsLinked
<1>8. Inserted(prio, s, t) = IF prio[t] = known.uniform THEN fifo
                             ELSE PromoteToHeap(prio, known)
  BY DEF Inserted, known, linked
<1>9. ASSUME prio[t] = known.uniform
      PROVE  Sound(prio, fifo, more)
  <2>1. /\ [known.queueIndex EXCEPT ![t] = FIFO] \in [Tasks -> Int]
    <3>1. FIFO \in Int
      BY DEF FIFO
    <3> QED  BY <1>6, <3>1, QueueFields
  <2>2. /\ fifo \in QueueType /\ SameList(fifo, known)
        /\ fifo.items = <<>> /\ ~fifo.heapMode
        /\ fifo.uniform = known.uniform
        /\ fifo.queueIndex = [known.queueIndex EXCEPT ![t] = FIFO]
    BY <1>6, <2>1 DEF QueueType, SameList
  <2>3. Linked(fifo, more)
    BY <1>7, <2>2, SameListIsLinked
  <2> HIDE DEF fifo
  <2>4. \A u \in Tasks : fifo.queueIndex[u]
                           = IF u = t THEN FIFO ELSE s.queueIndex[u]
    BY <1>1, <1>6, <2>2, QueueFields
  <2>5. ASSUME NEW u \in Members(more)
        PROVE  fifo.queueIndex[u] = FIFO /\ prio[u] = fifo.uniform
    <3>1. CASE u = t
      BY <1>3, <1>9, <2>2, <2>4, <3>1
    <3>2. CASE u # t
      <4>1. u \in M
        BY <1>4, <3>2
      <4>2. Len(list) # 0
        BY <1>1, <4>1 DEF Members
      <4>3. known.uniform = s.uniform
        BY <1>1, <1>5, <1>6, <4>2
      <4> QED  BY <1>1, <2>2, <2>4, <3>2, <4>1, <4>3
    <3> QED  BY <3>1, <3>2
  <2>6. \A u \in Tasks \ Members(more) : fifo.queueIndex[u] = -1
    BY <1>1, <1>4, <2>4
  <2> QED  BY <2>2, <2>3, <2>5, <2>6 DEF Sound
<1>10. Sound(prio, PromoteToHeap(prio, known), more)
  <2>1. \A u \in Tasks \ Members(more) : known.queueIndex[u] = -1
    BY <1>1, <1>4, <1>6
  <2> QED  BY <1>4, <1>6, <1>7, <2>1, PromotedSound
<1> QED  BY <1>8, <1>9, <1>10 DEF more

(* insert() appends the task to the queue and keeps it sound.                *)
LEMMA InsertedSound ==
  ASSUME NEW prio \in [Tasks -> Nat], NEW s, NEW list, Sound(prio, s, list),
         NEW t \in Tasks, \A u \in Members(list) : u < t
  PROVE  Sound(prio, Inserted(prio, s, t), Append(list, t))
BY InsertedInHeap, InsertedInList

LEMMA StaysInPlace ==
  ASSUME NEW items, NEW queueIndex, NEW M, AllInPlace(items, queueIndex, M),
         NEW t, t \notin M, NEW x \in Int
  PROVE  AllInPlace(items, [queueIndex EXCEPT ![t] = x], M)
BY DEF AllInPlace

LEMMA ResetFields ==
  ASSUME NEW s \in QueueType
  PROVE  /\ Reset(s) \in QueueType /\ SameList(Reset(s), s)
         /\ Reset(s).items = <<>> /\ Reset(s).queueIndex = s.queueIndex
         /\ ~Reset(s).heapMode
<1>1. <<>> \in Seq(Tasks) /\ Null \in Nat \cup {Null} /\ FALSE \in BOOLEAN
  OBVIOUS
<1> QED  BY <1>1 DEF Reset, QueueType, SameList

(* remove() of the m-th task drops it from the queue and keeps it sound.     *)
LEMMA RemovedSound ==
  ASSUME NEW prio \in [Tasks -> Nat], NEW s, NEW list, Sound(prio, s, list),
         NEW m \in 1..Len(list)
  PROVE  Sound(prio, Removed(prio, s, list[m]), Dropped(list, m))
<1> DEFINE t == list[m]
           n == Len(list)
           rest == Dropped(list, m)
           M == Members(list)
           heap == IF s.heapMode THEN LeaveHeap(prio, s, t) ELSE s
           left == Unlink(heap, t)
           r == Removed(prio, s, t)
<1>1. /\ s \in QueueType /\ Linked(s, list) /\ n \in Nat /\ t \in M /\ t \in Tasks
      /\ \A u \in Tasks \ M : s.queueIndex[u] = -1
      /\ M \subseteq Tasks /\ Ascending(list) /\ list \in Seq(Tasks)
  BY AscendingFacts DEF Sound, Linked
<1>2. /\ Len(rest) = n - 1 /\ Members(rest) = M \ {t} /\ rest \in Seq(Tasks)
  BY <1>1, DroppedFacts, DroppedMembers
<1>3. /\ heap \in QueueType /\ SameList(heap, s) /\ heap.heapMode = s.heapMode
      /\ heap.uniform = s.uniform
      /\ \A u \in Tasks \ M : heap.queueIndex[u] = -1
      /\ s.heapMode => Heaped(prio, heap, M \ {t}) /\ Len(heap.items) = n - 1
      /\ ~s.heapMode => heap = s
  <2>1. CASE s.heapMode
    <3> DEFINE gone == LeaveHeap(prio, s, t)
    <3>1. Heaped(prio, s, M) /\ Len(s.items) = n
      BY <2>1 DEF Sound
    <3>2. /\ gone \in QueueType /\ Heaped(prio, gone, M \ {t})
          /\ OnlyHeap(gone, Popped(s), M \ {t})
      BY <1>1, <3>1, LeaveHeapSorts
    <3> HIDE DEF gone
    <3>3. /\ SameList(Popped(s), s) /\ Popped(s).heapMode = s.heapMode
          /\ Popped(s).uniform = s.uniform
          /\ Popped(s).queueIndex = s.queueIndex
          /\ Popped(s).items = SubSeq(s.items, 1, Len(s.items) - 1)
      BY <1>1 DEF Popped, SameList, QueueType
    <3>4. Len(Popped(s).items) = n - 1
      <4>1. s.items \in Seq(Tasks)
        BY <1>1, QueueFields
      <4>2. n > 0
        BY <1>1
      <4> QED  BY <3>1, <3>3, <4>1, <4>2, LastLeaves
    <3>5. /\ SameList(gone, s) /\ gone.heapMode = s.heapMode
          /\ gone.uniform = s.uniform /\ Len(gone.items) = n - 1
          /\ \A u \in Tasks \ M : gone.queueIndex[u] = -1
      BY <1>1, <3>2, <3>3, <3>4 DEF OnlyHeap, SameList
    <3>6. heap = gone
      BY <2>1 DEF gone
    <3> QED  BY <2>1, <3>2, <3>5, <3>6
  <2>2. CASE ~s.heapMode
    BY <1>1, <2>2 DEF SameList
  <2> QED  BY <2>1, <2>2
<1> HIDE DEF heap
<1>4. Linked(heap, list)
  BY <1>1, <1>3, SameListIsLinked
<1>5. /\ left \in QueueType /\ Linked(left, rest) /\ left.items = heap.items
      /\ left.queueIndex = [heap.queueIndex EXCEPT ![t] = -1]
      /\ left.uniform = heap.uniform /\ left.heapMode = heap.heapMode
  <2>1. heap \in QueueType
    BY <1>3
  <2>2. Unlinked(left, heap, list, m)
    BY <1>4, <2>1, UnlinkLinks
  <2> QED  BY <2>2 DEF Unlinked
<1>6. r = IF left.size = 0 THEN Reset(left) ELSE left
  BY DEF Removed, heap
<1> HIDE DEF left, r
<1>7. left.size = n - 1
  BY <1>2, <1>5 DEF Linked
<1>8. \A u \in Tasks :
        left.queueIndex[u] = IF u = t THEN -1 ELSE heap.queueIndex[u]
  BY <1>1, <1>3, <1>5, QueueFields, SMTT(20)
<1> HIDE DEF t, rest, M
<1>9. \A u \in Tasks \ Members(rest) : left.queueIndex[u] = -1
  BY <1>1, <1>2, <1>3, <1>8
<1>10. CASE left.size = 0
  <2>1. /\ r \in QueueType /\ SameList(r, left) /\ r.items = <<>>
        /\ r.queueIndex = left.queueIndex /\ ~r.heapMode
    BY <1>5, <1>6, <1>10, ResetFields
  <2>2. Linked(r, rest)
    BY <1>5, <2>1, SameListIsLinked
  <2>3. Members(rest) = {}
    <3>1. 1..Len(rest) = {}
      BY <1>2, <1>7, <1>10
    <3> QED  BY <3>1 DEF Members
  <2>4. Sound(prio, r, rest)
    BY <1>9, <2>1, <2>2, <2>3 DEF Sound
  <2> QED  BY <2>4 DEF r, t, rest
<1>11. CASE left.size # 0
  <2>1. r = left
    BY <1>6, <1>11
  <2>2. CASE s.heapMode
    <3>1. Heaped(prio, left, Members(rest))
      <4>1. Heaped(prio, heap, M \ {t}) /\ t \notin M \ {t} /\ -1 \in Int
        BY <1>3, <2>2
      <4>2. AllInPlace(left.items, left.queueIndex, M \ {t})
        BY <1>5, <4>1, StaysInPlace DEF Heaped
      <4> QED  BY <1>2, <1>5, <4>1, <4>2 DEF Heaped
    <3>2. rest # <<>> /\ Len(left.items) = Len(rest) /\ left.heapMode
      BY <1>2, <1>3, <1>5, <1>7, <1>11, <2>2
    <3> QED  BY <1>5, <1>9, <2>1, <3>1, <3>2 DEF Sound, r, t, rest
  <2>3. CASE ~s.heapMode
    <3>1. /\ left.items = <<>> /\ ~left.heapMode
          /\ left.uniform = s.uniform /\ heap = s
      BY <1>3, <1>5, <2>3 DEF Sound
    <3>2. ASSUME NEW u \in Members(rest)
          PROVE  left.queueIndex[u] = FIFO /\ prio[u] = left.uniform
      <4>1. u \in M /\ u # t /\ u \in Tasks
        BY <1>1, <1>2
      <4>2. s.queueIndex[u] = FIFO /\ prio[u] = s.uniform
        BY <2>3, <4>1 DEF Sound, M
      <4> QED  BY <1>8, <3>1, <4>1, <4>2
    <3> QED  BY <1>5, <1>9, <2>1, <3>1, <3>2 DEF Sound, r, t, rest
  <2> QED  BY <2>2, <2>3
<1> QED  BY <1>10, <1>11

(* drain() leaves an empty queue.                                            *)
LEMMA DrainedSound ==
  ASSUME NEW prio, NEW s, NEW list, Sound(prio, s, list)
  PROVE  Sound(prio, Drained(s), <<>>)
<1> DEFINE M == Members(list)
           index == [t \in Tasks |-> IF t \in M THEN -1 ELSE s.queueIndex[t]]
           prev == [t \in Tasks |-> IF t \in M THEN Null ELSE s.previous[t]]
           nxt == [t \in Tasks |-> IF t \in M THEN Null ELSE s.next[t]]
           r == Drained(s)
<1>1. /\ s \in QueueType /\ Linked(s, list) /\ Listed(s) = list
      /\ \A u \in Tasks \ M : s.queueIndex[u] = -1
  <2>1. s \in QueueType /\ Linked(s, list) /\ Listed(s) = list
    BY SoundFacts
  <2> QED  BY <2>1 DEF Sound
<1>2. /\ s.queueIndex \in [Tasks -> Int]
      /\ s.previous \in [Tasks -> Tasks \cup {Null}]
      /\ s.next \in [Tasks -> Tasks \cup {Null}]
  BY <1>1, QueueFields
<1>3. \A t \in Tasks :
        /\ index[t] = -1
        /\ prev[t] = Null /\ nxt[t] = Null
  BY <1>1 DEF Linked
<1>4. /\ index \in [Tasks -> Int] /\ prev \in [Tasks -> Tasks \cup {Null}]
      /\ nxt \in [Tasks -> Tasks \cup {Null}]
  BY <1>2
<1>5. r = [Reset(s) EXCEPT !.queueIndex = index, !.previous = prev,
                           !.next = nxt, !.oldest = Null, !.newest = Null,
                           !.size = 0]
  <2>1. \A t : (\E i \in 1..Len(list) : list[i] = t) <=> t \in M
    BY DEF Members
  <2>2. /\ Reset(s).queueIndex = s.queueIndex
        /\ Reset(s).previous = s.previous /\ Reset(s).next = s.next
    BY <1>1, ResetFields DEF SameList
  <2> DEFINE Gone(t) == \E i \in 1..Len(list) : list[i] = t
  <2>3. /\ index = [t \in Tasks |-> IF Gone(t) THEN -1
                                   ELSE Reset(s).queueIndex[t]]
        /\ prev = [t \in Tasks |-> IF Gone(t) THEN Null
                                  ELSE Reset(s).previous[t]]
        /\ nxt = [t \in Tasks |-> IF Gone(t) THEN Null
                                 ELSE Reset(s).next[t]]
    BY <2>1, <2>2
  <2>4. r = [Reset(s) EXCEPT
               !.queueIndex = [t \in Tasks |-> IF Gone(t) THEN -1 ELSE @[t]],
               !.previous = [t \in Tasks |-> IF Gone(t) THEN Null ELSE @[t]],
               !.next = [t \in Tasks |-> IF Gone(t) THEN Null ELSE @[t]],
               !.oldest = Null, !.newest = Null, !.size = 0]
    BY <1>1 DEF Drained
  <2> HIDE DEF index, prev, nxt, r, Gone
  <2> QED  BY <2>3, <2>4
<1> HIDE DEF index, prev, nxt, r
<1>6. /\ r \in QueueType /\ r.queueIndex = index /\ r.previous = prev
      /\ r.next = nxt /\ r.oldest = Null /\ r.newest = Null /\ r.size = 0
      /\ r.items = <<>> /\ ~r.heapMode
  <2>1. /\ Reset(s) \in QueueType /\ Reset(s).items = <<>> /\ ~Reset(s).heapMode
    BY <1>1, ResetFields
  <2> QED  BY <1>4, <1>5, <2>1 DEF QueueType
<1>7. /\ Ascending(<<>>) /\ Members(<<>>) = {} /\ Len(<<>>) = 0
      /\ Nth(<<>>, 1) = Null /\ Nth(<<>>, Len(<<>>)) = Null
  BY DEF Ascending, Members, Nth
<1>8. Linked(r, <<>>)
  BY <1>3, <1>6, <1>7 DEF Linked
<1>9. Sound(prio, r, <<>>)
  BY <1>3, <1>6, <1>7, <1>8 DEF Sound
<1> QED  BY <1>9 DEF r

-----------------------------------------------------------------------------
(* enforceLimit(): the tasks it evicts in order, of a queue where the m-th   *)
(* task goes first (none does when m is 0), and the queue after j of them.   *)

Victims(list, m) ==
  IF m = 0 THEN list ELSE <<list[m]>> \o Dropped(list, m)

Remaining(list, m, j) ==
  IF m = 0 THEN SubSeq(list, j + 1, Len(list))
  ELSE IF j = 0 THEN list
  ELSE SubSeq(Dropped(list, m), j, Len(list) - 1)

LEMMA SubSeqFacts ==
  ASSUME NEW list \in Seq(Tasks), NEW a \in 1..(Len(list) + 1)
  PROVE  LET rest == SubSeq(list, a, Len(list))
         IN  /\ rest \in Seq(Tasks) /\ Len(rest) = Len(list) - a + 1
             /\ \A i \in 1..(Len(list) - a + 1) : rest[i] = list[a + i - 1]
OBVIOUS

(* The first of the rest goes: the rest starts one later.                    *)
LEMMA DropsFirst ==
  ASSUME NEW list \in Seq(Tasks), NEW a \in 1..Len(list)
  PROVE  /\ SubSeq(list, a, Len(list))[1] = list[a]
         /\ Dropped(SubSeq(list, a, Len(list)), 1)
              = SubSeq(list, a + 1, Len(list))
<1> DEFINE n == Len(list)
           rest == SubSeq(list, a, n)
           x == Dropped(rest, 1)
           y == SubSeq(list, a + 1, n)
<1>1. /\ n \in Nat /\ a \in 1..n /\ rest \in Seq(Tasks)
      /\ Len(rest) = n - a + 1
      /\ \A i \in 1..(n - a + 1) : rest[i] = list[a + i - 1]
  BY SubSeqFacts
<1>2. /\ y \in Seq(Tasks) /\ Len(y) = n - a
      /\ \A i \in 1..(n - a) : y[i] = list[a + i]
  <2>1. a + 1 \in 1..(n + 1) /\ n - (a + 1) + 1 = n - a
    BY <1>1
  <2>2. \A i \in 1..(n - a) : (a + 1) + i - 1 = a + i
    BY <1>1
  <2>3. /\ y \in Seq(Tasks) /\ Len(y) = n - (a + 1) + 1
        /\ \A i \in 1..(n - (a + 1) + 1) : y[i] = list[(a + 1) + i - 1]
    BY <2>1, SubSeqFacts
  <2> HIDE DEF y, rest
  <2> QED  BY <2>1, <2>2, <2>3
<1>3. 1 \in 1..Len(rest) /\ Len(rest) - 1 = n - a
  BY <1>1
<1> HIDE DEF rest, y
<1>4. /\ x \in Seq(Tasks) /\ Len(x) = n - a
      /\ \A i \in 1..(n - a) : x[i] = rest[i + 1]
  <2>1. \A i \in 1..(n - a) : ~(i < 1)
    BY <1>1
  <2> QED  BY <1>1, <1>3, <2>1, DroppedFacts
<1> HIDE DEF x
<1>5. ASSUME NEW i \in 1..(n - a)
      PROVE  x[i] = y[i]
  <2>1. i + 1 \in 1..(n - a + 1) /\ a + (i + 1) - 1 = a + i
    BY <1>1
  <2>2. rest[i + 1] = list[a + i]
    BY <1>1, <2>1
  <2> QED  BY <1>2, <1>4, <2>2
<1>6. x = y
  BY <1>2, <1>4, <1>5, SeqEqual
<1>7. rest[1] = list[a]
  <2>1. 1 \in 1..(n - a + 1) /\ a + 1 - 1 = a
    BY <1>1
  <2> QED  BY <1>1, <2>1
<1> QED  BY <1>6, <1>7 DEF x, y, rest

LEMMA SubSeqMembers ==
  ASSUME NEW list \in Seq(Tasks), NEW a \in 1..(Len(list) + 1)
  PROVE  Members(SubSeq(list, a, Len(list))) \subseteq Members(list)
<1> DEFINE n == Len(list)
           rest == SubSeq(list, a, n)
<1>1. /\ n \in Nat /\ a \in 1..(n + 1) /\ Len(rest) = n - a + 1
      /\ \A i \in 1..(n - a + 1) : rest[i] = list[a + i - 1]
  BY SubSeqFacts
<1>2. \A i \in 1..(n - a + 1) : a + i - 1 \in 1..n
  BY <1>1
<1> HIDE DEF rest
<1> QED  BY <1>1, <1>2 DEF Members, rest

LEMMA WholeSubSeq ==
  ASSUME NEW list \in Seq(Tasks)
  PROVE  SubSeq(list, 1, Len(list)) = list
<1> DEFINE n == Len(list)
<1>1. /\ n \in Nat /\ SubSeq(list, 1, n) \in Seq(Tasks)
      /\ Len(SubSeq(list, 1, n)) = n
      /\ \A i \in 1..n : SubSeq(list, 1, n)[i] = list[i]
  <2>1. 1 \in 1..(n + 1) /\ n - 1 + 1 = n
    OBVIOUS
  <2>2. \A i \in 1..n : 1 + i - 1 = i
    OBVIOUS
  <2> QED  BY <2>1, <2>2, SubSeqFacts
<1> QED  BY <1>1, SeqEqual

LEMMA VictimsFacts ==
  ASSUME NEW list \in Seq(Tasks), NEW m \in 0..Len(list)
  PROVE  LET v == Victims(list, m)
         IN  /\ v \in Seq(Tasks) /\ Len(v) = Len(list)
             /\ m = 0 => v = list
             /\ m > 0 => /\ v[1] = list[m]
                         /\ \A j \in 1..(Len(list) - 1) :
                              v[j + 1] = Dropped(list, m)[j]
<1> DEFINE n == Len(list)
           d == Dropped(list, m)
<1>1. CASE m = 0
  BY <1>1 DEF Victims
<1>2. CASE m # 0
  <2>1. m \in 1..n /\ n \in Nat /\ list[m] \in Tasks
    BY <1>2
  <2>2. d \in Seq(Tasks) /\ Len(d) = n - 1
    BY <2>1, DroppedFacts
  <2> HIDE DEF d, n
  <2>3. /\ <<list[m]>> \o d \in Seq(Tasks)
        /\ Len(<<list[m]>> \o d) = 1 + (n - 1)
        /\ (<<list[m]>> \o d)[1] = list[m]
    BY <2>1, <2>2
  <2>4. \A j \in 1..(n - 1) : (<<list[m]>> \o d)[j + 1] = d[j]
    BY <2>1, <2>2
  <2> QED  BY <1>2, <2>1, <2>3, <2>4 DEF Victims, d, n
<1> QED  BY <1>1, <1>2

(* The next victim is where the loop looks for it, and leaves the rest.      *)
LEMMA NextVictim ==
  ASSUME NEW list \in Seq(Tasks), NEW m \in 0..Len(list),
         NEW j \in 0..(Len(list) - 1)
  PROVE  LET at == IF m > 0 /\ j = 0 THEN m ELSE 1
             rest == Remaining(list, m, j)
         IN  /\ rest \in Seq(Tasks) /\ Len(rest) = Len(list) - j
             /\ at \in 1..Len(rest) /\ rest[at] = Victims(list, m)[j + 1]
             /\ Dropped(rest, at) = Remaining(list, m, j + 1)
<1> DEFINE n == Len(list)
           d == Dropped(list, m)
           at == IF m > 0 /\ j = 0 THEN m ELSE 1
           rest == Remaining(list, m, j)
<1>1. n \in Nat /\ m \in 0..n /\ j \in 0..(n - 1)
  OBVIOUS
<1>2. CASE m = 0
  <2>1. j + 1 \in 1..n /\ n - (j + 1) + 1 = n - j /\ j + 1 \in 1..(n + 1)
    BY <1>1
  <2>2. /\ rest = SubSeq(list, j + 1, n) /\ at = 1
        /\ Remaining(list, m, j + 1) = SubSeq(list, (j + 1) + 1, n)
    BY <1>2 DEF Remaining
  <2>3. rest \in Seq(Tasks) /\ Len(rest) = n - j
    BY <2>1, <2>2, SubSeqFacts
  <2>4. rest[1] = list[j + 1] /\ Dropped(rest, 1) = Remaining(list, m, j + 1)
    BY <2>1, <2>2, DropsFirst
  <2>5. 1 \in 1..(n - j)
    BY <1>1
  <2> QED  BY <1>2, <2>2, <2>3, <2>4, <2>5 DEF Victims
<1>3. CASE m # 0 /\ j = 0
  <2>1. m \in 1..n /\ m > 0
    BY <1>1, <1>3
  <2>2. rest = list /\ at = m /\ n - j = n /\ j + 1 = 1
    BY <1>1, <1>3, <2>1 DEF Remaining
  <2>3. d \in Seq(Tasks) /\ Len(d) = n - 1
    BY <2>1, DroppedFacts
  <2>4. Remaining(list, m, j + 1) = SubSeq(d, 1, n - 1)
    BY <1>3, <2>2 DEF Remaining
  <2>5. Remaining(list, m, j + 1) = d
    BY <2>3, <2>4, WholeSubSeq
  <2>6. Victims(list, m)[1] = list[m]
    BY <2>1, VictimsFacts
  <2> QED  BY <2>1, <2>2, <2>5, <2>6
<1>4. CASE m # 0 /\ j # 0
  <2>1. /\ m \in 1..n /\ j \in 1..(n - 1) /\ j + 1 # 0 /\ m > 0
        /\ (n - 1) - j + 1 = n - j /\ 1 \in 1..(n - j)
    BY <1>1, <1>4
  <2>2. d \in Seq(Tasks) /\ Len(d) = n - 1
    BY <2>1, DroppedFacts
  <2>3. /\ rest = SubSeq(d, j, Len(d)) /\ at = 1
        /\ Remaining(list, m, j + 1) = SubSeq(d, j + 1, Len(d))
    BY <1>4, <2>1, <2>2 DEF Remaining
  <2> HIDE DEF d
  <2>4. j \in 1..Len(d) /\ j \in 1..(Len(d) + 1)
    BY <1>1, <2>1, <2>2
  <2> HIDE DEF rest, at
  <2>5. rest \in Seq(Tasks) /\ Len(rest) = n - j
    BY <2>1, <2>2, <2>3, <2>4, SubSeqFacts
  <2>6. rest[1] = d[j] /\ Dropped(rest, 1) = Remaining(list, m, j + 1)
    BY <2>2, <2>3, <2>4, DropsFirst
  <2>7. Victims(list, m)[j + 1] = d[j]
    BY <2>1, VictimsFacts DEF d
  <2> QED  BY <2>1, <2>3, <2>5, <2>6, <2>7 DEF rest, at
<1> QED  BY <1>2, <1>3, <1>4

LEMMA RemainingLength ==
  ASSUME NEW list \in Seq(Tasks), NEW m \in 0..Len(list), NEW j \in 0..Len(list)
  PROVE  /\ Remaining(list, m, j) \in Seq(Tasks)
         /\ Len(Remaining(list, m, j)) = Len(list) - j
<1> DEFINE n == Len(list)
           rest == Remaining(list, m, j - 1)
           at == IF m > 0 /\ j - 1 = 0 THEN m ELSE 1
<1>1. n \in Nat
  OBVIOUS
<1>2. CASE j = 0
  <2>1. Remaining(list, m, 0) = list
    <3>1. CASE m = 0
      <4>1. Remaining(list, m, 0) = SubSeq(list, 1, n)
        BY <3>1 DEF Remaining
      <4> QED  BY <4>1, WholeSubSeq
    <3>2. CASE m # 0
      BY <3>2 DEF Remaining
    <3> QED  BY <3>1, <3>2
  <2> QED  BY <1>2, <2>1
<1>3. CASE j # 0
  <2>1. j - 1 \in 0..(n - 1) /\ (j - 1) + 1 = j
    BY <1>1, <1>3
  <2>2. /\ rest \in Seq(Tasks) /\ Len(rest) = n - (j - 1)
        /\ at \in 1..Len(rest) /\ Dropped(rest, at) = Remaining(list, m, j)
    BY <2>1, NextVictim
  <2> HIDE DEF rest, at
  <2>3. /\ Dropped(rest, at) \in Seq(Tasks)
        /\ Len(Dropped(rest, at)) = Len(rest) - 1
    BY <2>2, DroppedFacts
  <2> QED  BY <1>1, <2>1, <2>2, <2>3
<1> QED  BY <1>2, <1>3

LEMMA SubSeqGrows ==
  ASSUME NEW v \in Seq(Tasks), NEW j \in 0..(Len(v) - 1)
  PROVE  /\ SubSeq(v, 1, j + 1) \in Seq(Tasks)
         /\ Append(SubSeq(v, 1, j), v[j + 1]) = SubSeq(v, 1, j + 1)
<1> DEFINE n == Len(v)
           a == SubSeq(v, 1, j)
           b == SubSeq(v, 1, j + 1)
           c == Append(a, v[j + 1])
<1>1. n \in Nat /\ j \in 0..(n - 1) /\ j + 1 \in 1..n /\ v[j + 1] \in Tasks
  OBVIOUS
<1>2. a \in Seq(Tasks) /\ Len(a) = j /\ \A i \in 1..j : a[i] = v[i]
  OBVIOUS
<1>3. b \in Seq(Tasks) /\ Len(b) = j + 1 /\ \A i \in 1..(j + 1) : b[i] = v[i]
  OBVIOUS
<1> HIDE DEF a, b, n
<1>4. /\ c \in Seq(Tasks) /\ Len(c) = j + 1 /\ c[j + 1] = v[j + 1]
      /\ \A i \in 1..j : c[i] = a[i]
  BY <1>1, <1>2
<1>5. ASSUME NEW i \in 1..(j + 1)
      PROVE  c[i] = b[i]
  <2>1. CASE i = j + 1
    BY <1>3, <1>4, <2>1
  <2>2. CASE i # j + 1
    <3>1. i \in 1..j
      BY <1>1, <2>2
    <3> QED  BY <1>2, <1>3, <1>4, <3>1
  <2> QED  BY <2>1, <2>2
<1> HIDE DEF c
<1>6. c = b
  BY <1>3, <1>4, <1>5, SeqEqual
<1> QED  BY <1>3, <1>6 DEF a, b, c

(* Which task, the m-th or none, goes before the oldest ones.                *)
GoesFirst(list, submitted, policy, m) ==
  \/ m = 0 /\ (policy = "drop-oldest" \/ submitted \notin Members(list))
  \/ /\ m \in 1..Len(list) /\ submitted = list[m] /\ policy = "reject"

(* The victim the code looks for is the next one.                            *)
LEMMA VictimIsNext ==
  ASSUME NEW prio, NEW list, Ascending(list), NEW submitted \in Tasks,
         NEW policy, NEW m \in 0..Len(list),
         GoesFirst(list, submitted, policy, m),
         NEW j \in 0..(Len(list) - 1), NEW s,
         Sound(prio, s, Remaining(list, m, j))
  PROVE  (IF ~Contains(s, submitted) \/ policy = "drop-oldest"
          THEN s.oldest ELSE submitted) = Victims(list, m)[j + 1]
<1> DEFINE n == Len(list)
           at == IF m > 0 /\ j = 0 THEN m ELSE 1
           rest == Remaining(list, m, j)
<1>1. /\ list \in Seq(Tasks) /\ n \in Nat
      /\ rest \in Seq(Tasks) /\ at \in 1..Len(rest) /\ Len(rest) \in Nat
      /\ rest[at] = Victims(list, m)[j + 1]
  BY AscendingFacts, NextVictim
<1>2. s.oldest = rest[1]
  <2>1. 1 \in 1..Len(rest)
    BY <1>1
  <2> QED  BY <2>1 DEF Sound, Linked, Nth
<1>3. Contains(s, submitted) <=> submitted \in Members(rest)
  BY ContainsListed
<1>4. CASE m = 0
  <2>1. rest = SubSeq(list, j + 1, n) /\ j + 1 \in 1..(n + 1) /\ at = 1
    BY <1>1, <1>4 DEF Remaining
  <2>2. Members(rest) \subseteq Members(list)
    BY <1>1, <2>1, SubSeqMembers
  <2> QED  BY <1>1, <1>2, <1>3, <1>4, <2>1, <2>2 DEF GoesFirst
<1>5. CASE m # 0 /\ j = 0
  <2>1. /\ rest = list /\ at = m /\ submitted = list[m] /\ policy = "reject"
    BY <1>1, <1>5 DEF Remaining, GoesFirst
  <2>2. submitted \in Members(rest)
    BY <1>1, <2>1 DEF Members
  <2> HIDE DEF rest, at
  <2> QED  BY <1>1, <1>3, <2>1, <2>2
<1>6. CASE m # 0 /\ j # 0
  <2>1. /\ at = 1 /\ m \in 1..n /\ j \in 1..(n - 1) /\ submitted = list[m]
    BY <1>1, <1>6 DEF GoesFirst
  <2> DEFINE d == Dropped(list, m)
  <2>2. d \in Seq(Tasks) /\ Len(d) = n - 1 /\ Members(d) = Members(list) \ {list[m]}
    BY <1>1, <2>1, DroppedFacts, DroppedMembers
  <2>3. rest = SubSeq(d, j, Len(d))
    BY <1>6, <2>2 DEF Remaining
  <2> HIDE DEF d, rest, at
  <2>4. j \in 1..(Len(d) + 1)
    BY <1>1, <2>1, <2>2
  <2>5. Members(rest) \subseteq Members(d)
    BY <2>2, <2>3, <2>4, SubSeqMembers
  <2> QED  BY <1>1, <1>2, <1>3, <2>1, <2>2, <2>5
<1> QED  BY <1>4, <1>5, <1>6

(* After k iterations of the loop of enforceLimit() j tasks are gone, none   *)
(* of them while the queue was within its limit.                             *)
Limiting(prio, list, m, limit, k, l) ==
  \E j \in 0..Len(list) :
    /\ l.gone = SubSeq(Victims(list, m), 1, j)
    /\ Sound(prio, l.q, Remaining(list, m, j))
    /\ j >= k \/ Len(list) - j <= limit
    /\ j = 0 \/ Len(list) - (j - 1) > limit

Evicting == [gone : Seq(Tasks), q : QueueType]

LEMMA LimitingStep ==
  ASSUME NEW prio \in [Tasks -> Nat], NEW list, Ascending(list),
         NEW submitted \in Tasks, NEW limit \in Nat, NEW policy,
         NEW m \in 0..Len(list), GoesFirst(list, submitted, policy, m),
         NEW k \in Nat \ {0}, NEW l \in Evicting,
         Limiting(prio, list, m, limit, k - 1, l)
  PROVE  LET r == LimitStep(prio, submitted, limit, policy)[l]
         IN  r \in Evicting /\ Limiting(prio, list, m, limit, k, r)
<1> DEFINE n == Len(list)
           v == Victims(list, m)
           r == LimitStep(prio, submitted, limit, policy)[l]
           victim == IF ~Contains(l.q, submitted) \/ policy = "drop-oldest"
                     THEN l.q.oldest ELSE submitted
<1>1. PICK j \in 0..n :
        /\ l.gone = SubSeq(v, 1, j) /\ Sound(prio, l.q, Remaining(list, m, j))
        /\ j >= k - 1 \/ n - j <= limit
        /\ j = 0 \/ n - (j - 1) > limit
  BY DEF Limiting
<1> DEFINE rest == Remaining(list, m, j)
<1>2. /\ list \in Seq(Tasks) /\ n \in Nat /\ v \in Seq(Tasks) /\ Len(v) = n
      /\ l.gone \in Seq(Tasks) /\ l.q \in QueueType
  BY AscendingFacts, VictimsFacts DEF Evicting
<1>3. l.q.size = n - j
  BY <1>1, <1>2, RemainingLength DEF Sound, Linked
<1>4. r = IF l.q.size <= limit \/ victim = Null \/ ~Contains(l.q, victim)
          THEN l
          ELSE [gone |-> Append(l.gone, victim),
                q |-> Removed(prio, l.q, victim)]
  BY DEF LimitStep, Evicting
<1> HIDE DEF r
<1>5. CASE n - j <= limit
  BY <1>1, <1>3, <1>4, <1>5 DEF Limiting, r
<1>6. CASE ~(n - j <= limit)
  <2>1. j \in 0..(n - 1) /\ j + 1 \in 0..n
    BY <1>2, <1>6
  <2>2. victim = v[j + 1]
    BY <1>1, <2>1, VictimIsNext
  <2> DEFINE at == IF m > 0 /\ j = 0 THEN m ELSE 1
  <2>3. /\ rest \in Seq(Tasks) /\ at \in 1..Len(rest)
        /\ rest[at] = v[j + 1] /\ Dropped(rest, at) = Remaining(list, m, j + 1)
    BY <1>2, <2>1, NextVictim
  <2> HIDE DEF victim, v, at, n
  <2>4. victim \in Members(rest) /\ victim \in Tasks
    BY <2>2, <2>3 DEF Members
  <2>5. victim # Null /\ Contains(l.q, victim)
    BY <1>1, <2>4, ContainsListed, NullIsNoTask
  <2>6. Sound(prio, Removed(prio, l.q, victim), Remaining(list, m, j + 1))
    BY <1>1, <2>2, <2>3, RemovedSound
  <2>7. /\ SubSeq(v, 1, j + 1) \in Seq(Tasks)
        /\ Append(l.gone, victim) = SubSeq(v, 1, j + 1)
    BY <1>1, <1>2, <2>1, <2>2, SubSeqGrows
  <2>8. r = [gone |-> SubSeq(v, 1, j + 1), q |-> Removed(prio, l.q, victim)]
    BY <1>3, <1>4, <1>6, <2>5, <2>7
  <2>9. /\ r \in Evicting /\ r.gone = SubSeq(v, 1, j + 1)
        /\ Sound(prio, r.q, Remaining(list, m, j + 1))
    <3>1. Removed(prio, l.q, victim) \in QueueType
      BY <2>6 DEF Sound
    <3> QED  BY <2>6, <2>7, <2>8, <3>1 DEF Evicting
  <2>10. /\ j + 1 >= k \/ n - (j + 1) <= limit
         /\ n - ((j + 1) - 1) > limit
    <3>1. (j + 1) - 1 = j
      BY <1>1
    <3> QED  BY <1>1, <1>2, <1>6, <3>1
  <2>11. Limiting(prio, list, m, limit, k, r)
    BY <2>1, <2>9, <2>10 DEF Limiting, v, n
  <2> QED  BY <2>9, <2>11 DEF r
<1> QED  BY <1>5, <1>6

(* enforceLimit() evicts the victims that are too many, and only those.      *)
LEMMA LimitedSound ==
  ASSUME NEW prio \in [Tasks -> Nat], NEW s, NEW list, Sound(prio, s, list),
         NEW submitted \in Tasks, NEW limit \in Nat, NEW policy,
         NEW m \in 0..Len(list), GoesFirst(list, submitted, policy, m)
  PROVE  LET end == Limited(prio, s, submitted, limit, policy)
             j == IF Len(list) <= limit THEN 0 ELSE Len(list) - limit
         IN  /\ j \in 0..Len(list)
             /\ end.gone = SubSeq(Victims(list, m), 1, j)
             /\ end.gone \in Seq(Tasks)
             /\ Sound(prio, end.q, Remaining(list, m, j))
<1> DEFINE n == Len(list)
           first == [gone |-> <<>>, q |-> s]
           body == LimitStep(prio, submitted, limit, policy)
           end == Repeat(body, MaxTasks, first)
           e == IF n <= limit THEN 0 ELSE n - limit
           Inv == {x \in Nat \X Evicting :
                     Limiting(prio, list, m, limit, x[1], x[2])}
<1>1. /\ s \in QueueType /\ Ascending(list) /\ list \in Seq(Tasks)
      /\ n \in 0..MaxTasks /\ n \in Nat /\ MaxTasks \in Nat
  BY SoundFacts, QueueAssumption
<1>2. <<0, first>> \in Inv
  <2>1. first \in Evicting /\ first.gone = <<>> /\ first.q = s
    BY <1>1 DEF Evicting
  <2>2. SubSeq(Victims(list, m), 1, 0) = <<>>
    BY <1>1, VictimsFacts
  <2>3. Remaining(list, m, 0) = list
    <3>1. m = 0 => Remaining(list, m, 0) = SubSeq(list, 1, n)
      BY DEF Remaining
    <3>2. m # 0 => Remaining(list, m, 0) = list
      BY DEF Remaining
    <3> QED  BY <1>1, <3>1, <3>2, WholeSubSeq
  <2> HIDE DEF first
  <2>4. Limiting(prio, list, m, limit, 0, first)
    BY <1>1, <2>1, <2>2, <2>3 DEF Limiting
  <2> QED  BY <2>1, <2>4
<1>3. ASSUME NEW k \in 1..MaxTasks, NEW l, <<k - 1, l>> \in Inv
      PROVE  <<k, body[l]>> \in Inv
  <2>1. /\ l \in Evicting /\ Limiting(prio, list, m, limit, k - 1, l)
        /\ k \in Nat \ {0}
    BY <1>1, <1>3
  <2>2. body[l] \in Evicting /\ Limiting(prio, list, m, limit, k, body[l])
    BY <1>1, <2>1, LimitingStep
  <2> QED  BY <2>1, <2>2
<1>4. <<MaxTasks, end>> \in Inv
  <2> HIDE DEF Inv, first, body
  <2> QED  BY <1>1, <1>2, <1>3, LoopKeeps
<1>5. end \in Evicting /\ Limiting(prio, list, m, limit, MaxTasks, end)
  BY <1>4
<1>6. Limited(prio, s, submitted, limit, policy) = end
  BY DEF Limited
<1> HIDE DEF end
<1>7. PICK j \in 0..n :
        /\ end.gone = SubSeq(Victims(list, m), 1, j)
        /\ Sound(prio, end.q, Remaining(list, m, j))
        /\ j >= MaxTasks \/ n - j <= limit
        /\ j = 0 \/ n - (j - 1) > limit
  BY <1>5 DEF Limiting
<1>8. j = e /\ e \in 0..n
  BY <1>1, <1>7
<1> QED  BY <1>5, <1>6, <1>7, <1>8 DEF Evicting

-----------------------------------------------------------------------------
(* The operators of PriorityQueue, on the list.                              *)

LEMMA WithoutDrops ==
  ASSUME NEW list, Ascending(list), NEW m \in 1..Len(list)
  PROVE  /\ Promise!Without(list, list[m]) = Dropped(list, m)
         /\ Promise!Elems(list) = Members(list)
<1>1. Promise!Elems(list) = Members(list)
  BY DEF Promise!Elems, Members
<1>2. list[m] \in Members(list)
  BY DEF Members
<1>3. Promise!IndexOf(list, list[m]) = m
  BY AscendingFacts DEF Promise!IndexOf
<1> QED  BY <1>1, <1>2, <1>3 DEF Promise!Without, Dropped

LEMMA WithoutStranger ==
  ASSUME NEW list, NEW t, t \notin Members(list)
  PROVE  Promise!Without(list, t) = list
BY DEF Promise!Without, Promise!Elems, Members

(* No task of a heap comes before the one at its root.                       *)
LEMMA RootIsFirst ==
  ASSUME NEW prio \in [Tasks -> Nat], NEW items \in Seq(Tasks),
         HeapOrder(prio, items, 0), NEW i \in 0..(Len(items) - 1)
  PROVE  ~Before(prio, items[i + 1], items[1])
<1> DEFINE n == Len(items)
           Bad == {j \in 0..(n - 1) : Before(prio, items[j + 1], items[1])}
<1>1. n \in Nat /\ 0 \in 0..(n - 1) /\ \A j \in 0..(n - 1) : items[j + 1] \in Tasks
  OBVIOUS
<1>2. Bad \in SUBSET Nat
  BY <1>1
<1> SUFFICES ASSUME Bad # {} PROVE FALSE
  OBVIOUS
<1>3. PICK j \in Bad : \A k \in Bad : j <= k
  BY <1>2, LeastNumber
<1>4. /\ j \in 0..(n - 1) /\ Before(prio, items[j + 1], items[1])
      /\ j \in Nat
  BY <1>1, <1>3
<1>5. j # 0
  <2>1. 0 + 1 = 1 /\ items[1] \in Tasks
    BY <1>1
  <2> QED  BY <1>4, <2>1, TakenInOrder
<1> DEFINE p == Parent(j)
<1>6. p \in 0..(j - 1)
  <2>1. j \in Nat \ {0}
    BY <1>4, <1>5
  <2> QED  BY <2>1, ParentOf
<1>7. p \in 0..(n - 1) /\ j \in 1..(n - 1) /\ p >= 0 /\ p < j
  <2> HIDE DEF p, n
  <2> QED  BY <1>1, <1>4, <1>5, <1>6
<1> HIDE DEF p, n
<1>8. ~Before(prio, items[j + 1], items[p + 1])
  BY <1>7 DEF HeapOrder, p, n
<1>9. ~Before(prio, items[p + 1], items[1])
  <2>1. p \notin Bad
    BY <1>3, <1>4, <1>6, <1>7
  <2> QED  BY <1>7, <2>1
<1>10. /\ items[j + 1] \in Tasks /\ items[p + 1] \in Tasks /\ items[1] \in Tasks
  <2>1. items[0 + 1] \in Tasks /\ 0 + 1 = 1
    BY <1>1
  <2> QED  BY <1>1, <1>4, <1>7, <2>1
<1> QED  BY <1>4, <1>8, <1>9, <1>10, OrderIsTransitive

(* shift() takes a task that goes first.                                     *)
LEMMA TakesFirst ==
  ASSUME NEW prio \in [Tasks -> Nat], NEW s, NEW list, Sound(prio, s, list),
         list # <<>>
  PROVE  LET first == IF s.heapMode THEN s.items[1] ELSE s.oldest
         IN  first \in Members(list) /\ first \in Promise!Firsts(list, prio)
<1> DEFINE n == Len(list)
           first == IF s.heapMode THEN s.items[1] ELSE s.oldest
<1>1. /\ s \in QueueType /\ list \in Seq(Tasks) /\ n \in Nat /\ n > 0
      /\ Members(list) \subseteq Tasks /\ Ascending(list)
      /\ s.items \in Seq(Tasks)
  <2>1. s \in QueueType /\ list \in Seq(Tasks) /\ Members(list) \subseteq Tasks
        /\ Ascending(list)
    BY SoundFacts
  <2> QED  BY <2>1, QueueFields
<1>2. ASSUME s.heapMode, NEW u \in Members(list) \ {first}
      PROVE  Before(prio, first, u)
  <2>1. /\ first = s.items[1] /\ HeapOrder(prio, s.items, 0)
        /\ s.queueIndex[u] \in 0..(Len(s.items) - 1)
        /\ s.items[s.queueIndex[u] + 1] = u
    BY <1>2 DEF Sound, Heaped, AllInPlace
  <2>2. ~Before(prio, u, first)
    BY <1>1, <2>1, RootIsFirst
  <2>3. first \in Tasks /\ u \in Tasks
    BY <1>1, <2>1
  <2> QED  BY <2>2, <2>3, TakenInOrder
<1>3. ASSUME s.heapMode
      PROVE  first \in Members(list)
  <2>1. /\ 0 \in 0..(Len(s.items) - 1) /\ 0 + 1 = 1
    BY <1>1, <1>3 DEF Sound
  <2>2. s.items[0 + 1] \in Members(list)
    BY <1>3, <2>1 DEF Sound, Heaped, AllInPlace
  <2> QED  BY <1>3, <2>1, <2>2
<1>4. ASSUME ~s.heapMode
      PROVE  /\ first = list[1] /\ first \in Members(list)
             /\ \A u \in Members(list) \ {first} : Before(prio, first, u)
  <2>1. 1 \in 1..n
    BY <1>1
  <2>2. first = list[1] /\ list[1] \in Members(list)
    BY <1>4, <2>1 DEF Sound, Linked, Nth, Members
  <2> SUFFICES ASSUME NEW u \in Members(list) \ {first}
               PROVE  Before(prio, first, u)
    BY <2>2
  <2>3. PICK i \in 1..n : u = list[i]
    BY DEF Members
  <2>4. i # 1 /\ 1 < i
    BY <1>1, <2>2, <2>3
  <2>5. first < u
    BY <1>1, <2>1, <2>2, <2>3, <2>4 DEF Ascending
  <2>6. prio[first] = prio[u]
    BY <1>4, <2>2 DEF Sound
  <2> QED  BY <2>5, <2>6 DEF Before
<1>5. /\ first \in Members(list)
      /\ \A u \in Members(list) \ {first} : Before(prio, first, u)
  BY <1>2, <1>3, <1>4
<1> HIDE DEF first
<1>6. first \in Promise!Firsts(list, prio)
  <2>1. Promise!Elems(list) = Members(list)
    BY DEF Promise!Elems, Members
  <2> QED  BY <1>5, <2>1 DEF Promise!Firsts, Promise!Ahead, Before
<1> QED  BY <1>5, <1>6 DEF first

-----------------------------------------------------------------------------
(* The inductive invariant: the queue is sound and holds no task that was    *)
(* not inserted yet.                                                         *)

QueueInv ==
  /\ TypeOK /\ Sound(priority, q, Listed(q))
  /\ \A t \in Members(Listed(q)) : t <= submittedTasks

LEMMA QueueStart ==
  ASSUME Init
  PROVE  QueueInv /\ Listed(q) = <<>>
<1>1. q = [items |-> <<>>, queueIndex |-> [t \in Tasks |-> -1],
           previous |-> [t \in Tasks |-> Null], next |-> [t \in Tasks |-> Null],
           oldest |-> Null, newest |-> Null, size |-> 0, uniform |-> Null,
           heapMode |-> FALSE]
  BY DEF Init
<1>2. q \in QueueType
  <2>1. /\ <<>> \in Seq(Tasks) /\ 0 \in Nat /\ FALSE \in BOOLEAN
        /\ [t \in Tasks |-> -1] \in [Tasks -> Int]
        /\ [t \in Tasks |-> Null] \in [Tasks -> Tasks \cup {Null}]
    OBVIOUS
  <2> QED  BY <1>1, <2>1 DEF QueueType
<1>3. /\ Ascending(<<>>) /\ Members(<<>>) = {} /\ Len(<<>>) = 0
      /\ Nth(<<>>, 1) = Null /\ Nth(<<>>, Len(<<>>)) = Null
  BY DEF Ascending, Members, Nth
<1>4. Linked(q, <<>>)
  BY <1>1, <1>3 DEF Linked
<1>5. Sound(priority, q, <<>>)
  BY <1>1, <1>2, <1>3, <1>4 DEF Sound
<1>6. Listed(q) = <<>>
  BY <1>5, SoundFacts
<1>7. TypeOK
  BY <1>2, QueueAssumption DEF Init, TypeOK, Took
<1> QED  BY <1>3, <1>5, <1>6, <1>7 DEF QueueInv

LEMMA PrioritiesAreNumbers ==
  ASSUME TypeOK
  PROVE  priority \in [Tasks -> Nat]
<1>1. Priorities \cup {0} \subseteq Nat
  BY QueueAssumption
<1> QED  BY <1>1 DEF TypeOK

(* What every action shows: the next state is sound, holds the tasks of some *)
(* list, and the call took out some of the tasks.                            *)
LEMMA QueueInvHolds ==
  ASSUME QueueInv, NEW list, Sound(priority', q', list),
         submittedTasks' \in 0..MaxTasks,
         priority' \in [Tasks -> Priorities \cup {0}], out'.tasks \in Seq(Tasks),
         \A t \in Members(list) : t <= submittedTasks'
  PROVE  QueueInv' /\ Listed(q') = list
<1>1. Listed(q') = list /\ q' \in QueueType
  BY SoundFacts
<1>2. TypeOK'
  BY <1>1 DEF TypeOK
<1>3. Sound(priority, q, Listed(q))'
  BY <1>1
<1>4. (\A t \in Members(Listed(q)) : t <= submittedTasks)'
  BY <1>1
<1> QED  BY <1>1, <1>2, <1>3, <1>4 DEF QueueInv

LEMMA InsertKeeps ==
  ASSUME QueueInv, NEW p \in Priorities, Insert(p)
  PROVE  QueueInv' /\ Listed(q') = Append(Listed(q), submittedTasks + 1)
<1> DEFINE list == Listed(q)
           t == submittedTasks + 1
<1>1. /\ submittedTasks < MaxTasks /\ submittedTasks' = t
      /\ priority' = [priority EXCEPT ![t] = p]
      /\ q' = Inserted(priority', q, t) /\ out'.tasks = <<>>
  BY DEF Insert, Took
<1>2. /\ TypeOK /\ Sound(priority, q, list)
      /\ \A u \in Members(list) : u <= submittedTasks
      /\ list \in Seq(Tasks) /\ Members(list) \subseteq Tasks
  BY SoundFacts DEF QueueInv
<1>3. /\ submittedTasks \in Nat /\ t \in Tasks /\ t \in 0..MaxTasks
      /\ \A u \in Tasks : u <= submittedTasks => u < t /\ u # t
      /\ \A u \in Tasks : u < t => u <= t
  BY <1>1, <1>2, QueueAssumption DEF TypeOK, Tasks
<1>4. priority' \in [Tasks -> Priorities \cup {0}]
  BY <1>1, <1>2 DEF TypeOK
<1>5. priority' \in [Tasks -> Nat]
  <2>1. Priorities \cup {0} \subseteq Nat
    BY QueueAssumption
  <2> QED  BY <1>4, <2>1
<1> HIDE DEF list, t
<1>6. Sound(priority', q, list)
  <2>1. \A u \in Members(list) : priority'[u] = priority[u]
    BY <1>1, <1>2, <1>3 DEF TypeOK
  <2> QED  BY <1>2, <2>1, SoundForOthers
<1>7. Sound(priority', q', Append(list, t))
  <2>1. \A u \in Members(list) : u < t
    BY <1>2, <1>3
  <2> QED  BY <1>1, <1>3, <1>5, <1>6, <2>1, InsertedSound
<1>8. \A u \in Members(Append(list, t)) : u <= submittedTasks'
  <2>1. Members(Append(list, t)) = Members(list) \cup {t}
    BY <1>2, <1>3, Appended
  <2>2. t <= t
    BY <1>3
  <2> QED  BY <1>1, <1>2, <1>3, <2>1, <2>2
<1>9. submittedTasks' \in 0..MaxTasks /\ out'.tasks \in Seq(Tasks)
  BY <1>1, <1>3
<1> QED  BY <1>4, <1>7, <1>8, <1>9, QueueInvHolds DEF list, t

(* A method that takes out t: the queue is without it.                       *)
LEMMA WithoutSound ==
  ASSUME NEW prio \in [Tasks -> Nat], NEW s, NEW list, Sound(prio, s, list),
         NEW t \in Tasks
  PROVE  LET r == IF Contains(s, t) THEN Removed(prio, s, t) ELSE s
             rest == Promise!Without(list, t)
         IN  Sound(prio, r, rest) /\ Members(rest) \subseteq Members(list)
<1>1. CASE t \in Members(list)
  <2>1. PICK m \in 1..Len(list) : t = list[m]
    BY <1>1 DEF Members
  <2>2. /\ Contains(s, t) /\ Ascending(list)
        /\ Sound(prio, Removed(prio, s, t), Dropped(list, m))
    BY <1>1, <2>1, ContainsListed, RemovedSound, SoundFacts
  <2>3. /\ Promise!Without(list, t) = Dropped(list, m)
        /\ Members(Dropped(list, m)) \subseteq Members(list)
    BY <2>1, <2>2, WithoutDrops, DroppedMembers
  <2> QED  BY <2>2, <2>3
<1>2. CASE t \notin Members(list)
  BY <1>2, ContainsListed, WithoutStranger
<1> QED  BY <1>1, <1>2

LEMMA RemoveKeeps ==
  ASSUME QueueInv, NEW t \in Tasks, Remove(t)
  PROVE  QueueInv' /\ Listed(q') = Promise!Without(Listed(q), t)
<1> DEFINE list == Listed(q)
           rest == Promise!Without(list, t)
<1>1. /\ submittedTasks' = submittedTasks /\ priority' = priority
      /\ q' = IF Contains(q, t) THEN Removed(priority, q, t) ELSE q
      /\ out'.tasks = <<t>> \/ out'.tasks = <<>>
  BY DEF Remove, Took
<1>2. /\ TypeOK /\ Sound(priority, q, list) /\ priority \in [Tasks -> Nat]
      /\ \A u \in Members(list) : u <= submittedTasks
  BY PrioritiesAreNumbers DEF QueueInv
<1>3. Sound(priority', q', rest) /\ Members(rest) \subseteq Members(list)
  BY <1>1, <1>2, WithoutSound
<1>4. /\ submittedTasks' \in 0..MaxTasks /\ out'.tasks \in Seq(Tasks)
      /\ priority' \in [Tasks -> Priorities \cup {0}]
  <2>1. <<t>> \in Seq(Tasks) /\ <<>> \in Seq(Tasks)
    OBVIOUS
  <2>2. out'.tasks \in Seq(Tasks)
    BY <1>1, <2>1
  <2> QED  BY <1>1, <1>2, <2>2 DEF TypeOK
<1> HIDE DEF rest, list
<1>5. \A u \in Members(rest) : u <= submittedTasks'
  BY <1>1, <1>2, <1>3
<1> QED  BY <1>3, <1>4, <1>5, QueueInvHolds DEF rest, list

LEMMA ShiftKeeps ==
  ASSUME QueueInv, Shift
  PROVE  /\ QueueInv'
         /\ \/ /\ Listed(q) = <<>> /\ Listed(q') = <<>>
               /\ out' = Took(<<"shift">>, <<>>)
            \/ \E t \in Promise!Firsts(Listed(q), priority) :
                 /\ Listed(q') = Promise!Without(Listed(q), t)
                 /\ out' = Took(<<"shift">>, <<t>>)
<1> DEFINE list == Listed(q)
           first == IF q.heapMode THEN q.items[1] ELSE q.oldest
           rest == Promise!Without(list, first)
<1>1. /\ submittedTasks' = submittedTasks /\ priority' = priority
      /\ first = Null => out' = Took(<<"shift">>, <<>>) /\ q' = q
      /\ first # Null =>
           /\ out' = Took(<<"shift">>, <<first>>)
           /\ q' = IF Contains(q, first) THEN Removed(priority, q, first) ELSE q
  BY DEF Shift
<1>2. /\ TypeOK /\ Sound(priority, q, list) /\ priority \in [Tasks -> Nat]
      /\ \A u \in Members(list) : u <= submittedTasks
      /\ Members(list) \subseteq Tasks
  BY PrioritiesAreNumbers, SoundFacts DEF QueueInv
<1>3. CASE list = <<>>
  <2>1. first = Null
    <3>1. ~q.heapMode /\ q.oldest = Null
      BY <1>2, <1>3 DEF Sound, Linked, Nth
    <3> QED  BY <3>1
  <2>2. q' = q /\ out' = Took(<<"shift">>, <<>>)
    BY <1>1, <2>1
  <2>3. Sound(priority', q', list)
    BY <1>1, <1>2, <2>2
  <2>4. /\ submittedTasks' \in 0..MaxTasks /\ out'.tasks \in Seq(Tasks)
        /\ priority' \in [Tasks -> Priorities \cup {0}]
    BY <1>1, <1>2, <2>2 DEF TypeOK, Took
  <2>5. \A u \in Members(list) : u <= submittedTasks'
    BY <1>1, <1>2
  <2>6. QueueInv' /\ Listed(q') = list
    BY <2>3, <2>4, <2>5, QueueInvHolds
  <2> QED  BY <1>3, <2>2, <2>6
<1>4. CASE list # <<>>
  <2>1. first \in Members(list) /\ first \in Promise!Firsts(list, priority)
    BY <1>2, <1>4, TakesFirst
  <2> HIDE DEF first, list
  <2>2. first \in Tasks /\ first # Null
    BY <1>2, <2>1, NullIsNoTask
  <2>3. /\ q' = IF Contains(q, first) THEN Removed(priority, q, first) ELSE q
        /\ out' = Took(<<"shift">>, <<first>>)
    BY <1>1, <2>2
  <2>4. Sound(priority', q', rest) /\ Members(rest) \subseteq Members(list)
    BY <1>1, <1>2, <2>2, <2>3, WithoutSound
  <2>5. /\ submittedTasks' \in 0..MaxTasks /\ out'.tasks \in Seq(Tasks)
        /\ priority' \in [Tasks -> Priorities \cup {0}]
    BY <1>1, <1>2, <2>2, <2>3 DEF TypeOK, Took
  <2> HIDE DEF rest
  <2>6. \A u \in Members(rest) : u <= submittedTasks'
    BY <1>1, <1>2, <2>4
  <2>7. QueueInv' /\ Listed(q') = rest
    BY <2>4, <2>5, <2>6, QueueInvHolds
  <2> QED  BY <2>1, <2>3, <2>7 DEF rest, list
<1> QED  BY <1>3, <1>4

LEMMA DrainKeeps ==
  ASSUME QueueInv, Drain
  PROVE  QueueInv' /\ Listed(q') = <<>>
<1> DEFINE list == Listed(q)
<1>1. /\ submittedTasks' = submittedTasks /\ priority' = priority
      /\ q' = Drained(q) /\ out'.tasks = list
  BY DEF Drain, Took
<1>2. TypeOK /\ Sound(priority, q, list) /\ list \in Seq(Tasks)
  BY SoundFacts DEF QueueInv
<1>3. Sound(priority', q', <<>>)
  BY <1>1, <1>2, DrainedSound
<1>4. /\ submittedTasks' \in 0..MaxTasks /\ out'.tasks \in Seq(Tasks)
      /\ priority' \in [Tasks -> Priorities \cup {0}]
  BY <1>1, <1>2 DEF TypeOK
<1>5. \A u \in Members(<<>>) : u <= submittedTasks'
  BY DEF Members
<1> QED  BY <1>3, <1>4, <1>5, QueueInvHolds

(* enforceLimit() evicts and keeps the tasks PriorityQueue says it does.     *)
LEMMA EvictsAsPromised ==
  ASSUME NEW list, Ascending(list), NEW submitted \in Tasks, NEW limit \in Nat,
         NEW policy \in Policies, NEW m \in 0..Len(list),
         GoesFirst(list, submitted, policy, m)
  PROVE  LET j == IF Len(list) <= limit THEN 0 ELSE Len(list) - limit
         IN  /\ SubSeq(Victims(list, m), 1, j)
                  = Promise!Evicted(list, submitted, limit, policy)
             /\ Remaining(list, m, j)
                  = Promise!Kept(list, submitted, limit, policy)
<1> DEFINE n == Len(list)
           j == IF n <= limit THEN 0 ELSE n - limit
           newestFirst == policy = "reject" /\ submitted \in Members(list)
<1>1. /\ list \in Seq(Tasks) /\ n \in Nat /\ m \in 0..n
      /\ \A i \in 1..n : list[i] \in Tasks
  BY AscendingFacts
<1>2. Promise!Elems(list) = Members(list)
  BY DEF Promise!Elems, Members
<1>3. newestFirst <=> m > 0
  <2>1. m \in 1..n => list[m] \in Members(list)
    BY DEF Members
  <2> QED  BY <1>1, <2>1 DEF GoesFirst
<1>4. CASE n <= limit
  <2>1. /\ Promise!Evicted(list, submitted, limit, policy) = <<>>
        /\ Promise!Kept(list, submitted, limit, policy) = list
    BY <1>4 DEF Promise!Evicted, Promise!Kept
  <2>2. Victims(list, m) \in Seq(Tasks)
    BY <1>1, VictimsFacts
  <2>3. SubSeq(Victims(list, m), 1, 0) = <<>>
    BY <2>2
  <2>4. Remaining(list, m, 0) = list
    <3>1. m = 0 => Remaining(list, m, 0) = SubSeq(list, 1, n)
      BY DEF Remaining
    <3>2. m # 0 => Remaining(list, m, 0) = list
      BY DEF Remaining
    <3> QED  BY <1>1, <3>1, <3>2, WholeSubSeq
  <2> QED  BY <1>4, <2>1, <2>3, <2>4
<1>5. CASE n > limit /\ m = 0
  <2>1. j = n - limit /\ ~ (n <= limit)
    BY <1>1, <1>5
  <2>2. /\ Promise!Evicted(list, submitted, limit, policy)
             = SubSeq(list, 1, n - limit)
        /\ Promise!Kept(list, submitted, limit, policy)
             = SubSeq(list, n - limit + 1, n)
    <3>1. ~ (policy = "reject" /\ submitted \in Promise!Elems(list))
      BY <1>2, <1>3, <1>5
    <3> QED  BY <1>5, <2>1, <3>1 DEF Promise!Evicted, Promise!Kept
  <2>3. /\ SubSeq(Victims(list, m), 1, j) = SubSeq(list, 1, n - limit)
        /\ Remaining(list, m, j) = SubSeq(list, n - limit + 1, n)
    BY <1>5, <2>1 DEF Victims, Remaining
  <2> QED  BY <2>2, <2>3
<1>6. CASE n > limit /\ m # 0
  <2>1. /\ j = n - limit /\ ~ (n <= limit) /\ j \in 1..n /\ m \in 1..n
        /\ submitted = list[m] /\ newestFirst
    BY <1>1, <1>3, <1>6 DEF GoesFirst
  <2> DEFINE d == Dropped(list, m)
  <2>2. /\ Promise!Without(list, submitted) = d
        /\ d \in Seq(Tasks) /\ Len(d) = n - 1
    BY <1>1, <2>1, WithoutDrops, DroppedFacts
  <2>3. /\ Promise!Evicted(list, submitted, limit, policy)
             = <<submitted>> \o SubSeq(d, 1, (n - limit) - 1)
        /\ Promise!Kept(list, submitted, limit, policy)
             = SubSeq(d, n - limit, n - 1)
    BY <1>2, <1>6, <2>1, <2>2 DEF Promise!Evicted, Promise!Kept
  <2>4. Remaining(list, m, j) = SubSeq(d, j, n - 1)
    <3>1. j # 0 /\ m # 0
      <4> HIDE DEF j, n
      <4> QED  BY <1>6, <2>1
    <3>2. \A k : k # 0 => Remaining(list, m, k) = SubSeq(d, k, n - 1)
      BY <3>1 DEF Remaining
    <3> QED  BY <3>1, <3>2
  <2> DEFINE a == SubSeq(Victims(list, m), 1, j)
             b == <<submitted>> \o SubSeq(d, 1, j - 1)
  <2>5. a = b
    <3>1. /\ Victims(list, m) \in Seq(Tasks) /\ Len(Victims(list, m)) = n
          /\ Victims(list, m)[1] = submitted
          /\ \A i \in 1..(n - 1) : Victims(list, m)[i + 1] = d[i]
      BY <1>1, <2>1, VictimsFacts
    <3> HIDE DEF d, j, n
    <3>2. /\ a \in Seq(Tasks) /\ Len(a) = j
          /\ \A i \in 1..j : a[i] = Victims(list, m)[i]
      BY <1>1, <2>1, <3>1
    <3>3. /\ SubSeq(d, 1, j - 1) \in Seq(Tasks) /\ Len(SubSeq(d, 1, j - 1)) = j - 1
          /\ \A i \in 1..(j - 1) : SubSeq(d, 1, j - 1)[i] = d[i]
      BY <1>1, <2>1, <2>2
    <3>4. /\ b \in Seq(Tasks) /\ Len(b) = j /\ b[1] = submitted
          /\ \A i \in 1..(j - 1) : b[i + 1] = SubSeq(d, 1, j - 1)[i]
      <4> DEFINE e == SubSeq(d, 1, j - 1)
      <4>1. e \in Seq(Tasks) /\ Len(e) = j - 1 /\ j \in Nat
        BY <1>1, <2>1, <3>3
      <4> HIDE DEF e
      <4>2. /\ <<submitted>> \o e \in Seq(Tasks)
            /\ Len(<<submitted>> \o e) = 1 + (j - 1)
            /\ (<<submitted>> \o e)[1] = submitted
        BY <4>1
      <4>3. \A i \in 1..(j - 1) : (<<submitted>> \o e)[i + 1] = e[i]
        BY <4>1
      <4> QED  BY <4>1, <4>2, <4>3 DEF e
    <3> HIDE DEF a, b
    <3>5. ASSUME NEW i \in 1..j
          PROVE  a[i] = b[i]
      <4>1. CASE i = 1
        BY <3>1, <3>2, <3>4, <4>1
      <4>2. CASE i # 1
        <5>1. i - 1 \in 1..(j - 1) /\ i - 1 \in 1..(n - 1) /\ (i - 1) + 1 = i
          BY <1>1, <2>1, <4>2
        <5>2. b[i] = d[i - 1]
          BY <3>3, <3>4, <5>1
        <5>3. Victims(list, m)[i] = d[i - 1]
          BY <3>1, <5>1
        <5> QED  BY <3>2, <5>2, <5>3
      <4> QED  BY <4>1, <4>2
    <3> QED  BY <3>2, <3>4, <3>5, SeqEqual
  <2> QED  BY <2>1, <2>3, <2>4, <2>5
<1> QED  BY <1>1, <1>4, <1>5, <1>6

LEMMA RemainingMembers ==
  ASSUME NEW list \in Seq(Tasks), Ascending(list), NEW m \in 0..Len(list),
         NEW j \in 0..Len(list)
  PROVE  Members(Remaining(list, m, j)) \subseteq Members(list)
<1> DEFINE n == Len(list)
<1>1. n \in Nat
  OBVIOUS
<1>2. CASE m = 0
  <2>1. j + 1 \in 1..(n + 1)
    BY <1>1
  <2> QED  BY <1>2, <2>1, SubSeqMembers DEF Remaining
<1>3. CASE m # 0 /\ j = 0
  BY <1>3 DEF Remaining
<1>4. CASE m # 0 /\ j # 0
  <2> DEFINE d == Dropped(list, m)
  <2>1. m \in 1..n
    BY <1>1, <1>4
  <2>2. /\ d \in Seq(Tasks) /\ Len(d) = n - 1
        /\ Members(d) \subseteq Members(list)
    <3>1. d \in Seq(Tasks) /\ Len(d) = n - 1
      BY <2>1, DroppedFacts
    <3>2. Members(d) \subseteq Members(list)
      BY <2>1, DroppedMembers
    <3> QED  BY <3>1, <3>2
  <2>3. j \in 1..(Len(d) + 1)
    BY <1>1, <1>4, <2>2
  <2> HIDE DEF d
  <2>4. Members(SubSeq(d, j, Len(d))) \subseteq Members(d)
    BY <2>2, <2>3, SubSeqMembers
  <2>5. Remaining(list, m, j) = SubSeq(d, j, Len(d))
    BY <1>4, <2>2 DEF Remaining, d
  <2> QED  BY <2>2, <2>4, <2>5
<1> QED  BY <1>2, <1>3, <1>4

LEMMA SomeGoesFirst ==
  ASSUME NEW list, Ascending(list), NEW t \in Tasks, NEW policy \in Policies
  PROVE  \E m \in 0..Len(list) : GoesFirst(list, t, policy, m)
<1>1. Len(list) \in Nat
  BY AscendingFacts
<1>2. CASE policy = "drop-oldest" \/ t \notin Members(list)
  <2>1. 0 \in 0..Len(list) /\ GoesFirst(list, t, policy, 0)
    BY <1>1, <1>2 DEF GoesFirst
  <2> QED  BY <2>1
<1>3. CASE policy # "drop-oldest" /\ t \in Members(list)
  <2>1. PICK m \in 1..Len(list) : t = list[m]
    BY <1>3 DEF Members
  <2>2. policy = "reject" /\ m \in 0..Len(list)
    BY <1>1, <1>3 DEF Policies
  <2> QED  BY <2>1, <2>2 DEF GoesFirst
<1> QED  BY <1>2, <1>3

LEMMA EnforceKeeps ==
  ASSUME QueueInv, NEW t \in Tasks, NEW limit \in Limits, NEW policy \in Policies,
         EnforceLimit(t, limit, policy)
  PROVE  /\ QueueInv'
         /\ Listed(q') = Promise!Kept(Listed(q), t, limit, policy)
         /\ out' = Took(<<"enforceLimit", t, limit, policy>>,
                        Promise!Evicted(Listed(q), t, limit, policy))
<1> DEFINE list == Listed(q)
           end == Limited(priority, q, t, limit, policy)
           j == IF Len(list) <= limit THEN 0 ELSE Len(list) - limit
<1>1. /\ submittedTasks' = submittedTasks /\ priority' = priority
      /\ q' = end.q
      /\ out' = Took(<<"enforceLimit", t, limit, policy>>, end.gone)
  BY DEF EnforceLimit
<1>2. /\ TypeOK /\ Sound(priority, q, list) /\ priority \in [Tasks -> Nat]
      /\ \A u \in Members(list) : u <= submittedTasks
      /\ Ascending(list) /\ list \in Seq(Tasks) /\ limit \in Nat
  BY PrioritiesAreNumbers, SoundFacts, QueueAssumption DEF QueueInv
<1>3. PICK m \in 0..Len(list) : GoesFirst(list, t, policy, m)
  BY <1>2, SomeGoesFirst
<1>4. /\ j \in 0..Len(list) /\ end.gone = SubSeq(Victims(list, m), 1, j)
      /\ end.gone \in Seq(Tasks)
      /\ Sound(priority, end.q, Remaining(list, m, j))
  <2> HIDE DEF list
  <2> QED  BY <1>2, <1>3, LimitedSound, SMTT(20)
<1>5. /\ SubSeq(Victims(list, m), 1, j)
           = Promise!Evicted(list, t, limit, policy)
      /\ Remaining(list, m, j) = Promise!Kept(list, t, limit, policy)
  <2> HIDE DEF list
  <2> QED  BY <1>2, <1>3, EvictsAsPromised
<1>6. Members(Remaining(list, m, j)) \subseteq Members(list)
  <2> HIDE DEF list, j
  <2> QED  BY <1>2, <1>4, RemainingMembers
<1> HIDE DEF end, j, list
<1>7. /\ submittedTasks' \in 0..MaxTasks
      /\ priority' \in [Tasks -> Priorities \cup {0}]
  BY <1>1, <1>2 DEF TypeOK
<1>8. out'.tasks \in Seq(Tasks)
  BY <1>1, <1>4 DEF Took
<1>9. \A u \in Members(Remaining(list, m, j)) : u <= submittedTasks'
  BY <1>1, <1>2, <1>6
<1>10. QueueInv' /\ Listed(q') = Remaining(list, m, j)
  <2>1. Sound(priority', q', Remaining(list, m, j))
    BY <1>1, <1>4
  <2> QED  BY <1>7, <1>8, <1>9, <2>1, QueueInvHolds
<1> QED  BY <1>1, <1>4, <1>5, <1>10 DEF list

-----------------------------------------------------------------------------
(* The theorems.                                                             *)

(* Whatever calls are made, the queue holds the tasks of one ascending list, *)
(* all of them inserted before: the inductive invariant.                     *)
THEOREM QueueInvariance == Spec => []QueueInv
<1>1. Init => QueueInv
  BY QueueStart
<1>2. QueueInv /\ [Next]_vars => QueueInv'
  <2> SUFFICES ASSUME QueueInv, [Next]_vars
               PROVE  QueueInv'
    OBVIOUS
  <2>1. ASSUME NEW p \in Priorities, Insert(p)
        PROVE  QueueInv'
    BY <2>1, InsertKeeps
  <2>2. ASSUME Shift
        PROVE  QueueInv'
    BY <2>2, ShiftKeeps
  <2>3. ASSUME Drain
        PROVE  QueueInv'
    BY <2>3, DrainKeeps
  <2>4. ASSUME NEW t \in Tasks, Remove(t)
        PROVE  QueueInv'
    BY <2>4, RemoveKeeps
  <2>5. ASSUME NEW t \in Tasks, NEW limit \in Limits, NEW policy \in Policies,
               EnforceLimit(t, limit, policy)
        PROVE  QueueInv'
    BY <2>5, EnforceKeeps
  <2>6. CASE UNCHANGED vars
    BY <2>6 DEF vars, QueueInv, TypeOK
  <2> QED  BY <2>1, <2>2, <2>3, <2>4, <2>5, <2>6 DEF Next
<1> QED  BY <1>1, <1>2, PTL DEF Spec

(* A sound queue reads the same in both directions and contains() answers by *)
(* its list.                                                                 *)
LEMMA SoundList ==
  ASSUME QueueInv
  PROVE  ListSound
<1> DEFINE list == Listed(q)
           n == Len(list)
           back == Walk(q.previous, q.newest)
<1>1. /\ Sound(priority, q, list) /\ Linked(q, list) /\ q \in QueueType
      /\ n = q.size /\ n \in Nat
  BY SoundFacts DEF QueueInv
<1>2. back = Reversed(list)
  BY <1>1, LinkedReads
<1>3. \A t \in Tasks : Contains(q, t) <=> t \in Members(list)
  BY <1>1, ContainsListed
<1> HIDE DEF list, back
<1>4. Len(back) = n /\ \A i \in 1..n : back[i] = list[n + 1 - i]
  BY <1>1, <1>2 DEF Reversed
<1> QED  BY <1>1, <1>3, <1>4 DEF ListSound, list, back

(* In heap mode the array of a sound queue is a heap of the listed tasks.    *)
LEMMA SoundHeap ==
  ASSUME QueueInv
  PROVE  HeapSound
<1> DEFINE list == Listed(q)
           n == Len(q.items)
<1>1. Sound(priority, q, list) /\ q.size = Len(list) /\ q \in QueueType
  BY SoundFacts DEF QueueInv
<1>2. CASE q.heapMode
  <2>1. /\ n = q.size /\ HeapOrder(priority, q.items, 0)
        /\ AllInPlace(q.items, q.queueIndex, Members(list))
    BY <1>1, <1>2 DEF Sound, Heaped
  <2> HIDE DEF list
  <2>2. n \in Nat
    BY <2>1 DEF AllInPlace
  <2>3. Members(q.items) = Members(list)
    <3>1. ASSUME NEW i \in 1..n
          PROVE  q.items[i] \in Members(list)
      <4>1. i - 1 \in 0..(n - 1) /\ (i - 1) + 1 = i
        BY <2>2
      <4>2. q.items[(i - 1) + 1] \in Members(list)
        BY <2>1, <4>1 DEF AllInPlace
      <4> QED  BY <4>1, <4>2
    <3>2. ASSUME NEW u \in Members(list)
          PROVE  \E i \in 1..n : q.items[i] = u
      <4>1. /\ q.queueIndex[u] \in 0..(n - 1)
            /\ q.items[q.queueIndex[u] + 1] = u
        BY <2>1 DEF AllInPlace
      <4>2. q.queueIndex[u] + 1 \in 1..n
        BY <2>2, <4>1
      <4> QED  BY <4>1, <4>2
    <3>3. Members(q.items) = {q.items[i] : i \in 1..n}
      BY DEF Members
    <3> HIDE DEF n
    <3> QED  BY <3>1, <3>2, <3>3
  <2>4. ASSUME NEW i \in 0..(n - 1)
        PROVE  /\ q.queueIndex[q.items[i + 1]] = i
               /\ i > 0 => ~Before(priority, q.items[i + 1],
                                   q.items[Parent(i) + 1])
    <3>1. q.queueIndex[q.items[i + 1]] = i
      BY <2>1 DEF AllInPlace
    <3>2. ASSUME i > 0
          PROVE  ~Before(priority, q.items[i + 1], q.items[Parent(i) + 1])
      <4>1. i \in Nat \ {0} /\ i \in 1..(n - 1)
        BY <2>2, <3>2
      <4>2. Parent(i) \in 0..(i - 1)
        BY <4>1, ParentOf
      <4>3. Parent(i) >= 0
        BY <4>1, <4>2
      <4> QED  BY <2>1, <4>1, <4>3 DEF HeapOrder
    <3> QED  BY <3>1, <3>2
  <2> QED  BY <1>2, <2>1, <2>3, <2>4 DEF HeapSound, list
<1>3. CASE ~q.heapMode
  BY <1>1, <1>3 DEF Sound, HeapSound
<1> QED  BY <1>2, <1>3

(* Over any sequence of calls, for any number of tasks and any priorities,   *)
(* the linked list and the heap of the queue are sound and hold the same     *)
(* tasks.                                                                    *)
THEOREM QueueRepresentationsAgree == Spec => []RepresentationsAgree
<1>1. QueueInv => RepresentationsAgree
  BY SoundList, SoundHeap DEF RepresentationsAgree, QueueInv
<1> QED  BY <1>1, QueueInvariance, PTL

LEMMA PromiseStarts ==
  ASSUME Init
  PROVE  Promise!AbstractInit
<1>1. Listed(q) = <<>>
  BY QueueStart
<1> QED  BY <1>1 DEF Init, Took, Promise!AbstractInit, Promise!Taken,
                     Promise!Tasks, Tasks

LEMMA PromiseSteps ==
  ASSUME QueueInv, [Next]_vars
  PROVE  [Promise!AbstractNext]_(Promise!abstractVars)
<1>1. ASSUME NEW p \in Priorities, Insert(p)
      PROVE  Promise!AbstractInsert(p)
  <2>1. Listed(q') = Append(Listed(q), submittedTasks + 1)
    BY <1>1, InsertKeeps
  <2> QED  BY <1>1, <2>1 DEF Insert, Took, Promise!AbstractInsert, Promise!Taken
<1>2. ASSUME Shift
      PROVE  Promise!AbstractShift
  <2>1. UNCHANGED <<submittedTasks, priority>>
    BY <1>2 DEF Shift
  <2> QED  BY <1>2, <2>1, ShiftKeeps DEF Took, Promise!AbstractShift, Promise!Taken
<1>3. ASSUME Drain
      PROVE  Promise!AbstractDrain
  <2>1. Listed(q') = <<>>
    BY <1>3, DrainKeeps
  <2> QED  BY <1>3, <2>1 DEF Drain, Took, Promise!AbstractDrain, Promise!Taken
<1>4. ASSUME NEW t \in Tasks, Remove(t)
      PROVE  Promise!AbstractRemove(t)
  <2>1. Listed(q') = Promise!Without(Listed(q), t)
    BY <1>4, RemoveKeeps
  <2>2. Contains(q, t) <=> t \in Promise!Elems(Listed(q))
    <3>1. Promise!Elems(Listed(q)) = Members(Listed(q))
      BY DEF Promise!Elems, Members
    <3> QED  BY <3>1, ContainsListed DEF QueueInv
  <2> QED  BY <1>4, <2>1, <2>2 DEF Remove, Took, Promise!AbstractRemove,
                                   Promise!Taken
<1>5. ASSUME NEW t \in Tasks, NEW limit \in Limits, NEW policy \in Policies,
             EnforceLimit(t, limit, policy)
      PROVE  Promise!AbstractEnforce(t, limit, policy)
  <2>1. /\ Listed(q') = Promise!Kept(Listed(q), t, limit, policy)
        /\ out' = Took(<<"enforceLimit", t, limit, policy>>,
                       Promise!Evicted(Listed(q), t, limit, policy))
    BY <1>5, EnforceKeeps
  <2>2. t <= submittedTasks /\ UNCHANGED <<submittedTasks, priority>>
    BY <1>5 DEF EnforceLimit
  <2> QED  BY <2>1, <2>2 DEF Took, Promise!AbstractEnforce, Promise!Taken
<1>6. CASE UNCHANGED vars
  BY <1>6 DEF vars, Promise!abstractVars
<1>7. Promise!Tasks = Tasks /\ Promise!Policies = Policies
  BY DEF Promise!Tasks, Tasks, Promise!Policies, Policies
<1> QED  BY <1>1, <1>2, <1>3, <1>4, <1>5, <1>6, <1>7
            DEF Next, Promise!AbstractNext

(* The queue of the code does what the pool relies on: every method is the   *)
(* method of the same name of a plain sequence in order of submission, taken *)
(* from by priority and cut back by the policy.                              *)
THEOREM QueueImplementsPromise == Spec => ImplementsPromise
<1>1. Init => Promise!AbstractInit
  BY PromiseStarts
<1>2. QueueInv /\ [Next]_vars => [Promise!AbstractNext]_(Promise!abstractVars)
  BY PromiseSteps
<1> QED  BY <1>1, <1>2, QueueInvariance, PTL
            DEF Spec, ImplementsPromise, Promise!AbstractSpec

-----------------------------------------------------------------------------
(* The array of workers.                                                     *)

(* What an iteration of terminateAll() read is still worth something: its    *)
(* worker can be detached, or the array has become shorter by it.            *)
HeldSound ==
  held # <<>> =>
    /\ held \in Reading /\ phase = "closing" /\ Len(workers) <= held.before
    /\ held.worker \in managed \/ Len(workers) < held.before

ArrayInv ==
  /\ ArrayAssumption
  /\ created \in 0..MaxWorkers /\ managed \subseteq 1..created
  /\ poolIndex \in [Workers -> Int]
  /\ IndexExact /\ HeldSound

(* A managed worker is found where its index says.                           *)
LEMMA PlaceKept ==
  ASSUME ArrayInv, NEW w \in managed, NEW force \in BOOLEAN
  PROVE  /\ w \in Workers /\ Len(workers) \in Nat /\ Len(workers) > 0
         /\ PlaceOf(w, force) = poolIndex[w]
         /\ poolIndex[w] \in 0..(Len(workers) - 1)
         /\ workers[poolIndex[w] + 1] = w
<1>1. PICK i \in 1..Len(workers) : workers[i] = w
  BY DEF ArrayInv, IndexExact, Attached
<1>2. /\ Len(workers) \in Nat /\ workers \in Seq(Workers)
      /\ poolIndex[w] = i - 1
  BY <1>1 DEF ArrayInv, IndexExact
<1>3. poolIndex[w] \in 0..(Len(workers) - 1) /\ poolIndex[w] + 1 = i
  BY <1>1, <1>2
<1> QED  BY <1>1, <1>2, <1>3 DEF PlaceOf

(* The last worker takes the place of the one that leaves.                   *)
LEMMA LeftExact ==
  ASSUME ArrayInv, NEW w \in managed
  PROVE  LET left == Left(w, poolIndex[w])
         IN  /\ left.workers \in Seq(Workers)
             /\ Len(left.workers) = Len(workers) - 1
             /\ left.poolIndex \in [Workers -> Int]
             /\ {left.workers[i] : i \in 1..Len(left.workers)} = managed \ {w}
             /\ \A i \in 1..Len(left.workers) :
                  left.poolIndex[left.workers[i]] = i - 1
             /\ \A v \in Workers \ (managed \ {w}) : left.poolIndex[v] = -1
<1> DEFINE n == Len(workers)
           k == poolIndex[w]
           last == workers[n]
           popped == SubSeq(workers, 1, n - 1)
           rest == IF last = w THEN popped ELSE [popped EXCEPT ![k + 1] = last]
           index == [v \in Workers |-> IF v = w THEN -1
                                       ELSE IF v = last THEN k ELSE poolIndex[v]]
<1>1. /\ n \in Nat /\ n > 0 /\ k \in 0..(n - 1) /\ workers[k + 1] = w
      /\ w \in Workers
  BY PlaceKept
<1>2. /\ workers \in Seq(Workers) /\ managed = {workers[i] : i \in 1..n}
      /\ \A i \in 1..n : workers[i] \in Workers /\ poolIndex[workers[i]] = i - 1
      /\ \A v \in Workers \ managed : poolIndex[v] = -1
      /\ poolIndex \in [Workers -> Int]
  BY DEF ArrayInv, IndexExact, Attached
<1>3. Left(w, k) = [workers |-> rest, poolIndex |-> index]
  BY DEF Left
<1>4. /\ popped \in Seq(Workers) /\ Len(popped) = n - 1
      /\ \A i \in 1..(n - 1) : popped[i] = workers[i]
  <2>1. workers \in Seq(Workers) /\ n - 1 \in 0..n
    BY <1>1, <1>2
  <2>2. \A i \in 1..(n - 1) : workers[i] \in Workers
    BY <1>1, <1>2
  <2>3. 1 \in Int /\ n - 1 \in Int /\ (n - 1) - 1 + 1 = n - 1
        /\ \A i \in 1..(n - 1) : 1 + i - 1 = i
    BY <1>1
  <2> DEFINE m == n - 1
  <2>4. /\ SubSeq(workers, 1, m) \in Seq(Workers)
        /\ Len(SubSeq(workers, 1, m)) = IF 1 <= m THEN m - 1 + 1 ELSE 0
        /\ \A i \in 1..(m - 1 + 1) :
             SubSeq(workers, 1, m)[i] = workers[1 + i - 1]
    <3>1. 1 \in Int /\ m \in Int /\ \A i \in 1..m : workers[i] \in Workers
      BY <2>2, <2>3
    <3> HIDE DEF m
    <3> QED  BY <3>1, SubSeqProperties
  <2> HIDE DEF n
  <2>5. Len(SubSeq(workers, 1, m)) = m
    BY <1>1, <2>4
  <2> QED  BY <2>3, <2>4, <2>5
<1>5. last \in Workers /\ poolIndex[last] = n - 1
  BY <1>1, <1>2
<1>6. last = w <=> k = n - 1
  BY <1>1, <1>2, <1>5
<1> HIDE DEF popped, last, n, k
<1>7. /\ rest \in Seq(Workers) /\ Len(rest) = n - 1
      /\ \A i \in 1..(n - 1) :
           rest[i] = IF i = k + 1 THEN last ELSE workers[i]
  <2>1. CASE last = w
    <3>1. \A i \in 1..(n - 1) : i # k + 1
      BY <1>1, <1>6, <2>1
    <3> QED  BY <1>4, <2>1, <3>1
  <2>2. CASE last # w
    <3>1. k + 1 \in 1..(n - 1)
      BY <1>1, <1>6, <2>2
    <3>2. rest = [popped EXCEPT ![k + 1] = last]
      BY <2>2
    <3> QED  BY <1>4, <1>5, <3>1, <3>2
  <2> QED  BY <2>1, <2>2
<1>8. index \in [Workers -> Int]
  BY <1>1, <1>2
<1> HIDE DEF rest
<1>9. ASSUME NEW i \in 1..(n - 1)
      PROVE  rest[i] \in managed \ {w} /\ index[rest[i]] = i - 1
  <2>1. CASE i = k + 1
    <3>1. rest[i] = last /\ last # w
      BY <1>1, <1>6, <1>7, <2>1
    <3>2. last \in managed
      BY <1>1, <1>2 DEF last
    <3> QED  BY <1>1, <1>5, <2>1, <3>1, <3>2
  <2>2. CASE i # k + 1
    <3>1. rest[i] = workers[i] /\ i \in 1..n
      BY <1>1, <1>7, <2>2
    <3>2. poolIndex[workers[i]] = i - 1 /\ workers[i] \in managed
      BY <1>2, <3>1
    <3>3. workers[i] # w /\ workers[i] # last
      BY <1>1, <1>5, <2>2, <3>2 DEF k
    <3> QED  BY <1>2, <3>1, <3>2, <3>3
  <2> QED  BY <2>1, <2>2
<1>10. ASSUME NEW v \in managed \ {w}
       PROVE  \E i \in 1..(n - 1) : rest[i] = v
  <2>1. PICK i \in 1..n : workers[i] = v
    BY <1>2
  <2>2. i # k + 1
    BY <1>1, <2>1
  <2>3. CASE i = n
    <3>1. k + 1 \in 1..(n - 1)
      BY <1>1, <2>2, <2>3
    <3>2. v = last
      BY <2>1, <2>3 DEF last
    <3> QED  BY <1>7, <3>1, <3>2
  <2>4. CASE i # n
    <3>1. i \in 1..(n - 1)
      BY <1>1, <2>4
    <3> QED  BY <1>7, <2>1, <2>2, <3>1
  <2> QED  BY <2>3, <2>4
<1>11. ASSUME NEW v \in Workers \ (managed \ {w})
       PROVE  index[v] = -1
  <2>1. CASE v = w
    BY <2>1
  <2>2. CASE v # w
    <3>1. v # last
      BY <1>1, <1>2, <2>2 DEF last
    <3> QED  BY <1>2, <2>2, <3>1
  <2> QED  BY <2>1, <2>2
<1> HIDE DEF index
<1>12. {rest[i] : i \in 1..Len(rest)} = managed \ {w}
  BY <1>7, <1>9, <1>10
<1> QED
  BY <1>3, <1>7, <1>8, <1>9, <1>11, <1>12 DEF n, k

(* A removal that takes place leaves everything exact.                       *)
LEMMA LeaveKeeps ==
  ASSUME ArrayInv, NEW w \in managed, NEW force \in BOOLEAN, Leave(w, force)
  PROVE  /\ Len(workers') = Len(workers) - 1 /\ managed' = managed \ {w}
         /\ Attached' = managed \ {w} /\ IndexExact'
         /\ poolIndex' \in [Workers -> Int]
<1> DEFINE left == Left(w, poolIndex[w])
<1>1. PlaceOf(w, force) = poolIndex[w] /\ Len(workers) \in Nat
  BY PlaceKept
<1>2. workers' = left.workers /\ poolIndex' = left.poolIndex
      /\ managed' = managed \ {w}
  BY <1>1 DEF Leave
<1>3. /\ left.workers \in Seq(Workers)
      /\ Len(left.workers) = Len(workers) - 1
      /\ left.poolIndex \in [Workers -> Int]
      /\ {left.workers[i] : i \in 1..Len(left.workers)} = managed \ {w}
      /\ \A i \in 1..Len(left.workers) :
           left.poolIndex[left.workers[i]] = i - 1
      /\ \A v \in Workers \ (managed \ {w}) : left.poolIndex[v] = -1
  BY LeftExact
<1> HIDE DEF left
<1>4. Attached' = managed \ {w}
  BY <1>2, <1>3 DEF Attached
<1>5. Len(workers') <= Size /\ Len(workers') = Len(workers) - 1
  <2>1. Len(workers) <= Size /\ Size \in Nat
    BY DEF ArrayAssumption, ArrayInv, IndexExact
  <2> QED  BY <1>1, <1>2, <1>3, <2>1
<1> QED  BY <1>2, <1>3, <1>4, <1>5 DEF IndexExact

(* Every step keeps the invariant and takes out what it is asked to.         *)
ArrayStepSound == ArrayInv' /\ TakesOutAsked

LEMMA AddSound ==
  ASSUME ArrayInv, AddWorker
  PROVE  ArrayStepSound
<1> DEFINE w == created + 1
           n == Len(workers)
<1>1. /\ created < MaxWorkers /\ n < Size /\ phase # "closing"
      /\ created' = w /\ poolIndex' = [poolIndex EXCEPT ![w] = n]
      /\ workers' = Append(workers, w) /\ managed' = managed \cup {w}
      /\ asked' = <<"add", w>> /\ UNCHANGED <<phase, held>>
  BY DEF AddWorker
<1>2. /\ created \in 0..MaxWorkers /\ managed \subseteq 1..created
      /\ poolIndex \in [Workers -> Int] /\ IndexExact /\ HeldSound
      /\ workers \in Seq(Workers) /\ managed = {workers[i] : i \in 1..n}
      /\ \A i \in 1..n : workers[i] \in Workers /\ poolIndex[workers[i]] = i - 1
      /\ \A v \in Workers \ managed : poolIndex[v] = -1
      /\ MaxWorkers \in Nat /\ Size \in Nat /\ n \in Nat
  BY DEF ArrayAssumption, ArrayInv, IndexExact, Attached
<1>3. /\ w \in Workers /\ w \notin managed /\ w \in Nat
      /\ created' \in 0..MaxWorkers /\ managed' \subseteq 1..created'
  <2> HIDE DEF n
  <2>1. w \in 1..MaxWorkers /\ w \in Nat /\ w \notin 1..created
    BY <1>1, <1>2
  <2>2. 1..created \subseteq 1..w
    BY <1>2
  <2> HIDE DEF w
  <2>3. /\ created' = w /\ managed' = managed \cup {w}
        /\ managed \subseteq 1..created
    BY <1>1, <1>2
  <2>4. w \in Workers /\ w \notin managed /\ created' \in 0..MaxWorkers
    BY <2>1, <2>3 DEF Workers
  <2>5. managed' \subseteq 1..created'
    BY <2>1, <2>2, <2>3
  <2> QED  BY <2>1, <2>4, <2>5
<1>4. /\ workers' \in Seq(Workers) /\ Len(workers') = n + 1
      /\ \A i \in 1..n : workers'[i] = workers[i]
      /\ workers'[n + 1] = w
  BY <1>1, <1>2, <1>3
<1> HIDE DEF w, n
<1>5. poolIndex' \in [Workers -> Int]
  BY <1>1, <1>2, <1>3
<1>6. \A i : i \in 1..(n + 1) <=> i \in 1..n \/ i = n + 1
  BY <1>2
<1>7. Attached' = managed'
  <2>1. {workers'[i] : i \in 1..(n + 1)} = {workers[i] : i \in 1..n} \cup {w}
    BY <1>4, <1>6
  <2> QED  BY <1>1, <1>2, <1>4, <2>1 DEF Attached
<1>8. ASSUME NEW i \in 1..(n + 1)
      PROVE  poolIndex'[workers'[i]] = i - 1
  <2>1. CASE i \in 1..n
    <3>1. workers[i] \in managed /\ workers[i] # w
      BY <1>2, <1>3, <2>1
    <3> QED  BY <1>1, <1>2, <1>4, <2>1, <3>1
  <2>2. CASE i = n + 1
    BY <1>1, <1>2, <1>3, <1>4, <2>2
  <2> QED  BY <1>6, <2>1, <2>2
<1>9. ASSUME NEW v \in Workers \ managed'
      PROVE  poolIndex'[v] = -1
  BY <1>1, <1>2, <1>9
<1>10. IndexExact'
  <2>1. n + 1 <= Size
    BY <1>1, <1>2
  <2> QED  BY <1>4, <1>7, <1>8, <1>9, <2>1 DEF IndexExact
<1>11. HeldSound'
  <2>1. held = <<>>
    BY <1>1, <1>2 DEF HeldSound
  <2> QED  BY <1>1, <2>1 DEF HeldSound
<1>12. TakesOutAsked
  BY <1>1 DEF TakesOutAsked
<1> QED  BY <1>3, <1>5, <1>10, <1>11, <1>12 DEF ArrayStepSound, ArrayInv, ArrayAssumption

(* When a worker leaves, what the loop of terminateAll() holds stays sound.  *)
LEMMA LeaveKeepsHeld ==
  ASSUME ArrayInv, NEW w \in managed, NEW force \in BOOLEAN, Leave(w, force),
         held' \in {held, <<>>}, phase' = phase, created' = created
  PROVE  ArrayInv' /\ Attached' = Attached \ {w} /\ managed' = managed \ {w}
<1>1. /\ Len(workers') = Len(workers) - 1 /\ managed' = managed \ {w}
      /\ Attached' = managed \ {w} /\ IndexExact'
      /\ poolIndex' \in [Workers -> Int]
  BY LeaveKeeps
<1>2. /\ created \in 0..MaxWorkers /\ managed \subseteq 1..created
      /\ HeldSound /\ managed = Attached /\ Len(workers) \in Nat
  BY DEF ArrayInv, IndexExact
<1>3. HeldSound'
  <2> SUFFICES ASSUME held' # <<>>
               PROVE  /\ held \in Reading /\ phase = "closing"
                      /\ Len(workers') <= held.before
                      /\ \/ held.worker \in managed'
                         \/ Len(workers') < held.before
    BY DEF HeldSound
  <2>1. /\ held \in Reading /\ phase = "closing"
        /\ Len(workers) <= held.before
    BY <1>2 DEF HeldSound
  <2>2. held.before \in Nat
    BY <2>1 DEF Reading
  <2> QED  BY <1>1, <1>2, <2>1, <2>2
<1> QED  BY <1>1, <1>2, <1>3 DEF ArrayInv, ArrayAssumption

LEMMA RemoveWorkerSound ==
  ASSUME ArrayInv, NEW w \in Workers, NEW force \in BOOLEAN,
         NEW active \in BOOLEAN, RemoveWorker(w, force, active)
  PROVE  ArrayStepSound
<1>1. /\ asked' = <<"remove", w, force, active>>
      /\ UNCHANGED <<created, phase, held>>
  BY DEF RemoveWorker
<1>2. managed = Attached
  BY DEF ArrayInv, IndexExact
<1>3. CASE w \in managed /\ (force \/ ~active)
  <2>1. PlaceOf(w, force) >= 0
    <3>1. /\ PlaceOf(w, force) = poolIndex[w] /\ Len(workers) \in Nat
          /\ poolIndex[w] \in 0..(Len(workers) - 1)
      BY <1>3, PlaceKept
    <3> QED  BY <3>1
  <2>2. Leave(w, force)
    BY <1>3, <2>1 DEF RemoveWorker, Removable
  <2>3. ArrayInv' /\ Attached' = Attached \ {w} /\ managed' = managed \ {w}
    BY <1>1, <1>3, <2>2, LeaveKeepsHeld
  <2>4. ASSUME NEW v \in Workers
        PROVE  /\ asked' \in {<<"remove", v, TRUE, yes>> : yes \in BOOLEAN}
                                \cup {<<"remove", v, FALSE, FALSE>>,
                                      <<"detach", v>>}
                    => v = w
               /\ asked' # <<"remove", v, FALSE, TRUE>>
    BY <1>1, <1>3
  <2>5. TakesOutAsked
    BY <2>3, <2>4 DEF TakesOutAsked
  <2> QED  BY <2>3, <2>5 DEF ArrayStepSound
<1>4. CASE ~ (w \in managed /\ (force \/ ~active))
  <2>1. UNCHANGED <<workers, poolIndex, managed>>
    BY <1>4 DEF RemoveWorker, Removable
  <2>2. ArrayInv' /\ Attached' = Attached
    BY <1>1, <2>1 DEF ArrayInv, ArrayAssumption, IndexExact, HeldSound, Attached
  <2>3. ASSUME NEW v \in Workers,
               asked' \in {<<"remove", v, TRUE, yes>> : yes \in BOOLEAN}
                             \cup {<<"remove", v, FALSE, FALSE>>, <<"detach", v>>}
        PROVE  v \notin managed
    BY <1>1, <1>4, <2>3
  <2>4. TakesOutAsked
    BY <1>2, <2>1, <2>2, <2>3 DEF TakesOutAsked
  <2> QED  BY <2>2, <2>4 DEF ArrayStepSound
<1> QED  BY <1>3, <1>4

LEMMA DetachSound ==
  ASSUME ArrayInv, Detach
  PROVE  ArrayStepSound
<1> DEFINE w == held.worker
<1>1. /\ held # <<>> /\ held' = <<>> /\ asked' = <<"detach", w>>
      /\ UNCHANGED <<created, phase>>
  BY DEF Detach
<1>2. /\ managed = Attached /\ held \in Reading /\ w \in Workers
      /\ Len(workers) \in Nat
      /\ w \in managed \/ Len(workers) < held.before
      /\ held.before \in Nat
  BY <1>1 DEF ArrayInv, IndexExact, HeldSound, Reading
<1>3. Attached' = Attached \ {w} /\ managed' = managed \ {w} /\ ArrayInv'
  <2>1. CASE w \in managed
    <3>1. PlaceOf(w, TRUE) >= 0
      <4> HIDE DEF w
      <4>1. /\ PlaceOf(w, TRUE) = poolIndex[w] /\ Len(workers) \in Nat
            /\ poolIndex[w] \in 0..(Len(workers) - 1)
        BY <2>1, PlaceKept
      <4>2. poolIndex[w] >= 0
        BY <4>1
      <4> QED  BY <4>1, <4>2
    <3>2. Leave(w, TRUE)
      BY <2>1, <3>1 DEF Detach, Removable
    <3> HIDE DEF w
    <3> QED  BY <1>1, <2>1, <3>2, LeaveKeepsHeld
  <2>2. CASE w \notin managed
    <3>1. ~Stuck(held.before)
      BY <1>2, <2>2 DEF Stuck
    <3>2. UNCHANGED <<workers, poolIndex, managed>>
      BY <2>2, <3>1 DEF Detach, Removable
    <3>3. ArrayInv' /\ Attached' = Attached
      BY <1>1, <3>2 DEF ArrayInv, ArrayAssumption, IndexExact, HeldSound, Attached
    <3> QED  BY <1>2, <2>2, <3>2, <3>3
  <2> QED  BY <2>1, <2>2
<1> HIDE DEF w
<1>4. ASSUME NEW v \in Workers
      PROVE  /\ asked' \in {<<"remove", v, TRUE, yes>> : yes \in BOOLEAN}
                              \cup {<<"remove", v, FALSE, FALSE>>,
                                    <<"detach", v>>}
                  => v = w
             /\ asked' # <<"remove", v, FALSE, TRUE>>
  BY <1>1
<1>5. TakesOutAsked
  BY <1>3, <1>4 DEF TakesOutAsked
<1> QED  BY <1>3, <1>5 DEF ArrayStepSound

LEMMA LoopSound ==
  ASSUME ArrayInv, TerminateAll \/ ReadLast \/ Emptied
  PROVE  ArrayStepSound
<1>1. UNCHANGED <<created, workers, poolIndex, managed>>
  BY DEF TerminateAll, ReadLast, Emptied
<1>2. Attached' = Attached /\ IndexExact'
  BY <1>1 DEF ArrayInv, IndexExact, Attached
<1>3. TakesOutAsked
  <2>1. asked' \in {<<"terminateAll">>, <<"read">>, <<"closed">>}
    BY DEF TerminateAll, ReadLast, Emptied
  <2>2. ASSUME NEW v \in Workers
        PROVE  /\ asked' # <<"detach", v>>
               /\ \A force, active \in BOOLEAN :
                    asked' # <<"remove", v, force, active>>
    BY <2>1
  <2> QED  BY <2>2 DEF TakesOutAsked
<1>4. HeldSound'
  <2>1. CASE TerminateAll \/ Emptied
    <3>1. held' = <<>>
      BY <2>1 DEF TerminateAll, Emptied, ArrayInv, HeldSound
    <3> QED  BY <3>1 DEF HeldSound
  <2>2. CASE ReadLast
    <3> DEFINE n == Len(workers)
    <3>1. /\ workers \in Seq(Workers) /\ n \in Nat /\ n > 0
          /\ managed = {workers[i] : i \in 1..n}
      BY <2>2 DEF ReadLast, ArrayInv, IndexExact, Attached
    <3>2. workers[n] \in Workers /\ workers[n] \in managed
      BY <3>1
    <3>3. /\ held' = [worker |-> workers[n], before |-> n]
          /\ phase' = "closing" /\ workers' = workers /\ managed' = managed
      BY <2>2 DEF ReadLast
    <3>4. /\ held' \in Reading /\ held'.worker = workers[n] /\ held'.before = n
      BY <3>1, <3>2, <3>3 DEF Reading
    <3> QED  BY <3>1, <3>2, <3>3, <3>4 DEF HeldSound
  <2> QED  BY <2>1, <2>2
<1> QED  BY <1>1, <1>2, <1>3, <1>4 DEF ArrayStepSound, ArrayInv, ArrayAssumption

LEMMA ArrayStarts ==
  ASSUME ArrayAssumption, ArrayInit
  PROVE  ArrayInv
<1>1. /\ created = 0 /\ workers = <<>> /\ managed = {} /\ held = <<>>
      /\ poolIndex = [w \in Workers |-> -1]
  BY DEF ArrayInit
<1>2. -1 \in Int /\ MaxWorkers \in Nat /\ Size \in Nat /\ Len(<<>>) = 0
  BY DEF ArrayAssumption
<1>3. Attached = {}
  BY <1>1, <1>2 DEF Attached
<1> QED  BY <1>1, <1>2, <1>3 DEF ArrayInv, IndexExact, HeldSound

LEMMA ArraySteps ==
  ASSUME ArrayInv, [ArrayNext]_arrayVars
  PROVE  ArrayInv' /\ [TakesOutAsked]_arrayVars
<1>1. CASE UNCHANGED arrayVars
  BY <1>1 DEF arrayVars, ArrayInv, ArrayAssumption, IndexExact, HeldSound,
                  Attached
<1>2. ASSUME NEW w \in Workers, NEW force \in BOOLEAN, NEW active \in BOOLEAN,
             RemoveWorker(w, force, active)
      PROVE  ArrayStepSound
  BY <1>2, RemoveWorkerSound
<1>3. CASE ArrayNext
  <2>1. ArrayStepSound
    BY <1>2, <1>3, AddSound, DetachSound, LoopSound DEF ArrayNext
  <2> QED  BY <2>1 DEF ArrayStepSound
<1> QED  BY <1>1, <1>3

(* After any sequence of additions, removals from the middle and iterations  *)
(* of terminateAll(), exactly the managed workers are in the array, each at  *)
(* the index it keeps: the set of workers that WorkerPool has in its place.  *)
THEOREM WorkersKeepTheirPlace ==
  ASSUME ArrayAssumption
  PROVE  ArraySpec => []IndexExact
<1>1. ArrayInit => ArrayInv
  BY ArrayStarts
<1>2. ArrayInv /\ [ArrayNext]_arrayVars => ArrayInv'
  BY ArraySteps
<1>3. ArrayInv => IndexExact
  BY DEF ArrayInv
<1> QED  BY <1>1, <1>2, <1>3, PTL DEF ArraySpec

(* A removal takes out the worker it is asked for and no other, and the loop *)
(* of terminateAll() never drops a worker it has not detached, whatever the  *)
(* observers remove between its reading and its removal.                     *)
THEOREM TheOneAskedLeaves ==
  ASSUME ArrayAssumption
  PROVE  ArraySpec => RemovesTheOneAsked
<1>1. ArrayInit => ArrayInv
  BY ArrayStarts
<1>2. ArrayInv /\ [ArrayNext]_arrayVars => ArrayInv' /\ [TakesOutAsked]_arrayVars
  BY ArraySteps
<1> QED  BY <1>1, <1>2, PTL DEF ArraySpec, RemovesTheOneAsked
==============================================================================
