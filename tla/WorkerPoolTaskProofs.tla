------------------------ MODULE WorkerPoolTaskProofs ------------------------
(* Proofs about the tasks of the pool: where a task can be, that the queue   *)
(* is sound, that dispatches follow the priorities and deadlines, and that   *)
(* the pool implements CallerPromise. The proofs follow the call stack of    *)
(* the pool, on which an action of WorkerPool ends the top frame and opens   *)
(* others.                                                                   *)
(* The invariant that makes this work is TaskInv. The properties about the   *)
(* queue and the settlements speak of tasks, but what a later step does to a *)
(* task is decided by the frames on the stack that name it, which callbacks  *)
(* may bury under other calls; so the invariant says of every such frame     *)
(* what it may assume about its tasks when it runs again.                    *)
EXTENDS WorkerPoolProofs

-----------------------------------------------------------------------------
(* The call stack: what Proceed, UserCall and EventLoop leave in each place. *)

(* A step of the running method replaces the top frame by the frames it goes *)
(* on with; the frames below it stay (the callers on the JavaScript stack).  *)
LEMMA ProceedAny ==
  ASSUME stack \in Seq(Frames), stack # <<>>, NEW T, NEW fs \in Seq(T),
         Proceed(fs)
  PROVE  /\ Len(stack) \in Nat \ {0} /\ Len(fs) \in Nat
         /\ Len(stack') = Len(stack) - 1 + Len(fs)
         /\ \A i \in 1..(Len(stack) - 1) : stack'[i] = stack[i]
         /\ \A i \in 1..Len(fs) : stack'[Len(stack) - 1 + i] = fs[i]
<1>1. /\ Below \in Seq(Frames) /\ Len(Below) = Len(stack) - 1
      /\ \A i \in 1..(Len(stack) - 1) : Below[i] = stack[i]
  BY FrontOfSeq DEF Below
<1>2. Below \in Seq(Frames \cup T) /\ fs \in Seq(Frames \cup T)
  <2>1. Frames \subseteq Frames \cup T /\ T \subseteq Frames \cup T
    OBVIOUS
  <2> HIDE DEF Below
  <2> QED  BY <1>1, <2>1, SeqMonotonic
<1>3. stack' = Below \o fs
  BY DEF Proceed
<1>4. /\ Len(stack') = Len(Below) + Len(fs)
      /\ \A i \in 1..Len(Below) : stack'[i] = Below[i]
      /\ \A i \in 1..Len(fs) : stack'[Len(Below) + i] = fs[i]
  BY <1>2, <1>3, ConcatSplit
<1>5. Len(stack) \in Nat \ {0} /\ Len(fs) \in Nat
  OBVIOUS
<1> QED  BY <1>1, <1>4, <1>5

(* Tuples of up to four elements are sequences over their set.               *)
LEMMA TupleSeqs ==
  ASSUME NEW S, NEW a \in S, NEW b \in S, NEW c \in S, NEW d \in S
  PROVE  /\ <<>> \in Seq(S)
         /\ <<a>> \in Seq(S) /\ <<a, b>> \in Seq(S)
         /\ <<a, b, c>> \in Seq(S)
         /\ <<a, b, c, d>> \in Seq(S)
OBVIOUS

(* Concatenations of short tuples, written out.                              *)
LEMMA Joins ==
  ASSUME NEW a, NEW b, NEW c
  PROVE  /\ <<a, b>> \o <<>> = <<a, b>>
         /\ <<a>> \o <<b, c>> = <<a, b, c>>
         /\ <<a, b>> \o <<c>> = <<a, b, c>>
<1> DEFINE S == {a, b, c}
<1>1. /\ <<>> \in Seq(S) /\ <<a>> \in Seq(S) /\ <<c>> \in Seq(S)
      /\ <<a, b>> \in Seq(S) /\ <<b, c>> \in Seq(S) /\ <<a, b, c>> \in Seq(S)
  BY TupleSeqs
<1> HIDE DEF S
<1>2. <<a, b>> \o <<>> = <<a, b>>
  BY <1>1, ConcatEmptySeq
<1>3. <<a>> \o <<b, c>> = <<a, b, c>>
  <2> DEFINE s == <<a>> \o <<b, c>>
             t == <<a, b, c>>
  <2>1. /\ s \in Seq(S) /\ Len(s) = 3
        /\ \A i \in 1..3 : s[i] = IF i <= 1 THEN <<a>>[i] ELSE <<b, c>>[i - 1]
    BY <1>1, ConcatProperties
  <2>2. t \in Seq(S) /\ Len(t) = 3 /\ t[1] = a /\ t[2] = b /\ t[3] = c
    BY <1>1
  <2> HIDE DEF s, t
  <2>3. s[1] = a /\ s[2] = b /\ s[3] = c
    BY <2>1
  <2>4. \A i \in 1..Len(s) : s[i] = t[i]
    BY <2>1, <2>2, <2>3
  <2>5. s = t
    BY <2>1, <2>2, <2>4, SeqEqual
  <2> QED  BY <2>5 DEF s, t
<1>4. <<a, b>> \o <<c>> = <<a, b, c>>
  <2> DEFINE s == <<a, b>> \o <<c>>
             t == <<a, b, c>>
  <2>1. /\ s \in Seq(S) /\ Len(s) = 3
        /\ \A i \in 1..3 : s[i] = IF i <= 2 THEN <<a, b>>[i] ELSE <<c>>[i - 2]
    BY <1>1, ConcatProperties
  <2>2. t \in Seq(S) /\ Len(t) = 3 /\ t[1] = a /\ t[2] = b /\ t[3] = c
    BY <1>1
  <2> HIDE DEF s, t
  <2>3. s[1] = a /\ s[2] = b /\ s[3] = c
    BY <2>1
  <2>4. \A i \in 1..Len(s) : s[i] = t[i]
    BY <2>1, <2>2, <2>3
  <2>5. s = t
    BY <2>1, <2>2, <2>4, SeqEqual
  <2> QED  BY <2>5 DEF s, t
<1> QED  BY <1>2, <1>3, <1>4

(* ProceedAny for a method that returns.                                     *)
LEMMA Goes0 ==
  ASSUME stack \in Seq(Frames), stack # <<>>, Proceed(<<>>)
  PROVE  /\ Len(stack) \in Nat \ {0} /\ Len(stack') = Len(stack) - 1
         /\ \A i \in 1..(Len(stack) - 1) : stack'[i] = stack[i]
<1> DEFINE fs == <<>>
<1>1. fs \in Seq({}) /\ Len(fs) = 0
  OBVIOUS
<1> HIDE DEF fs
<1>2. Proceed(fs)
  BY DEF fs
<1>3. /\ Len(stack) \in Nat \ {0} /\ Len(stack') = Len(stack) - 1 + Len(fs)
      /\ \A i \in 1..(Len(stack) - 1) : stack'[i] = stack[i]
  BY <1>1, <1>2, ProceedAny
<1> QED  BY <1>1, <1>3

(* ... for one that goes on with a single frame, in the place of its own.    *)
LEMMA Goes1 ==
  ASSUME stack \in Seq(Frames), stack # <<>>, NEW f, Proceed(<<f>>)
  PROVE  /\ Len(stack) \in Nat \ {0} /\ Len(stack') = Len(stack)
         /\ \A i \in 1..(Len(stack) - 1) : stack'[i] = stack[i]
         /\ stack'[Len(stack)] = f
<1> DEFINE fs == <<f>>
<1>1. fs \in Seq({f}) /\ Len(fs) = 1 /\ fs[1] = f
  OBVIOUS
<1> HIDE DEF fs
<1>2. Proceed(fs)
  BY DEF fs
<1>3. 1 \in 1..Len(fs) /\ \A n \in Nat : n - 1 + 1 = n
  BY <1>1
<1>4. /\ Len(stack) \in Nat \ {0} /\ Len(stack') = Len(stack) - 1 + Len(fs)
      /\ \A i \in 1..(Len(stack) - 1) : stack'[i] = stack[i]
      /\ \A i \in 1..Len(fs) : stack'[Len(stack) - 1 + i] = fs[i]
  BY <1>1, <1>2, ProceedAny
<1> QED  BY <1>1, <1>3, <1>4

(* ... with two frames: the second runs first.                               *)
LEMMA Goes2 ==
  ASSUME stack \in Seq(Frames), stack # <<>>, NEW f, NEW g,
         Proceed(<<f, g>>)
  PROVE  /\ Len(stack) \in Nat \ {0} /\ Len(stack') = Len(stack) + 1
         /\ \A i \in 1..(Len(stack) - 1) : stack'[i] = stack[i]
         /\ stack'[Len(stack)] = f /\ stack'[Len(stack) + 1] = g
<1> DEFINE fs == <<f, g>>
<1>1. fs \in Seq({f, g}) /\ Len(fs) = 2 /\ fs[1] = f /\ fs[2] = g
  OBVIOUS
<1> HIDE DEF fs
<1>2. Proceed(fs)
  BY DEF fs
<1>3. /\ 1 \in 1..Len(fs) /\ 2 \in 1..Len(fs)
      /\ \A n \in Nat : n - 1 + 1 = n /\ n - 1 + 2 = n + 1
  BY <1>1
<1>4. /\ Len(stack) \in Nat \ {0} /\ Len(stack') = Len(stack) - 1 + Len(fs)
      /\ \A i \in 1..(Len(stack) - 1) : stack'[i] = stack[i]
      /\ \A i \in 1..Len(fs) : stack'[Len(stack) - 1 + i] = fs[i]
  BY <1>1, <1>2, ProceedAny
<1> QED  BY <1>1, <1>3, <1>4

(* ... with three.                                                           *)
LEMMA Goes3 ==
  ASSUME stack \in Seq(Frames), stack # <<>>, NEW f, NEW g, NEW h,
         Proceed(<<f, g, h>>)
  PROVE  /\ Len(stack) \in Nat \ {0} /\ Len(stack') = Len(stack) + 2
         /\ \A i \in 1..(Len(stack) - 1) : stack'[i] = stack[i]
         /\ stack'[Len(stack)] = f /\ stack'[Len(stack) + 1] = g
         /\ stack'[Len(stack) + 2] = h
<1> DEFINE fs == <<f, g, h>>
<1>1. /\ fs \in Seq({f, g, h}) /\ Len(fs) = 3
      /\ fs[1] = f /\ fs[2] = g /\ fs[3] = h
  OBVIOUS
<1> HIDE DEF fs
<1>2. Proceed(fs)
  BY DEF fs
<1>3. /\ 1 \in 1..Len(fs) /\ 2 \in 1..Len(fs) /\ 3 \in 1..Len(fs)
      /\ \A n \in Nat : n - 1 + 1 = n /\ n - 1 + 2 = n + 1 /\ n - 1 + 3 = n + 2
                        /\ n - 1 + 3 = n + 2
  BY <1>1
<1>4. /\ Len(stack) \in Nat \ {0} /\ Len(stack') = Len(stack) - 1 + Len(fs)
      /\ \A i \in 1..(Len(stack) - 1) : stack'[i] = stack[i]
      /\ \A i \in 1..Len(fs) : stack'[Len(stack) - 1 + i] = fs[i]
  BY <1>1, <1>2, ProceedAny
<1> QED  BY <1>1, <1>3, <1>4

(* ... with four.                                                            *)
LEMMA Goes4 ==
  ASSUME stack \in Seq(Frames), stack # <<>>, NEW f, NEW g, NEW h, NEW k,
         Proceed(<<f, g, h, k>>)
  PROVE  /\ Len(stack) \in Nat \ {0} /\ Len(stack') = Len(stack) + 3
         /\ \A i \in 1..(Len(stack) - 1) : stack'[i] = stack[i]
         /\ stack'[Len(stack)] = f /\ stack'[Len(stack) + 1] = g
         /\ stack'[Len(stack) + 2] = h /\ stack'[Len(stack) + 3] = k
<1> DEFINE fs == <<f, g, h, k>>
<1>1. /\ fs \in Seq({f, g, h, k}) /\ Len(fs) = 4
      /\ fs[1] = f /\ fs[2] = g /\ fs[3] = h /\ fs[4] = k
  OBVIOUS
<1> HIDE DEF fs
<1>2. Proceed(fs)
  BY DEF fs
<1>3. /\ 1 \in 1..Len(fs) /\ 2 \in 1..Len(fs)
      /\ 3 \in 1..Len(fs) /\ 4 \in 1..Len(fs)
      /\ \A n \in Nat : /\ n - 1 + 1 = n /\ n - 1 + 2 = n + 1
                        /\ n - 1 + 3 = n + 2 /\ n - 1 + 4 = n + 3
  BY <1>1
<1>4. /\ Len(stack) \in Nat \ {0} /\ Len(stack') = Len(stack) - 1 + Len(fs)
      /\ \A i \in 1..(Len(stack) - 1) : stack'[i] = stack[i]
      /\ \A i \in 1..Len(fs) : stack'[Len(stack) - 1 + i] = fs[i]
  BY <1>1, <1>2, ProceedAny
<1> QED  BY <1>1, <1>3, <1>4

(* A call of the user, from outside or from within a callback, puts its      *)
(* frames above those that are there.                                        *)
LEMMA CallAny ==
  ASSUME stack \in Seq(Frames), NEW T, NEW fs \in Seq(T), UserCall(fs)
  PROVE  /\ Len(stack) \in Nat /\ Len(stack') = Len(stack) + Len(fs)
         /\ \A i \in 1..Len(stack) : stack'[i] = stack[i]
         /\ \A i \in 1..Len(fs) : stack'[Len(stack) + i] = fs[i]
<1> DEFINE S == Frames \cup T
<1>1. stack \in Seq(S) /\ fs \in Seq(S)
  <2>1. Frames \subseteq S /\ T \subseteq S
    OBVIOUS
  <2> HIDE DEF S
  <2> QED  BY <2>1, SeqMonotonic
<1>2. stack' = stack \o fs
  BY DEF UserCall
<1> HIDE DEF S
<1>3. stack \o fs \in Seq(S) /\ Len(stack \o fs) = Len(stack) + Len(fs)
  BY <1>1, ConcatSplit
<1>4. \A i \in 1..Len(stack) : (stack \o fs)[i] = stack[i]
  BY <1>1, ConcatSplit
<1>5. \A i \in 1..Len(fs) : (stack \o fs)[Len(stack) + i] = fs[i]
  BY <1>1, ConcatSplit
<1> QED  BY <1>2, <1>3, <1>4, <1>5

(* CallAny with one frame.                                                   *)
LEMMA Calls1 ==
  ASSUME stack \in Seq(Frames), NEW f, UserCall(<<f>>)
  PROVE  /\ Len(stack) \in Nat /\ Len(stack') = Len(stack) + 1
         /\ \A i \in 1..Len(stack) : stack'[i] = stack[i]
         /\ stack'[Len(stack) + 1] = f
         /\ stack = <<>> \/ Top.cb \in Reenters
<1> DEFINE fs == <<f>>
<1>1. fs \in Seq({f}) /\ Len(fs) = 1 /\ fs[1] = f
  OBVIOUS
<1> HIDE DEF fs
<1>2. UserCall(fs)
  BY DEF fs
<1>3. 1 \in 1..Len(fs)
  BY <1>1
<1>4. /\ Len(stack) \in Nat /\ Len(stack') = Len(stack) + Len(fs)
      /\ \A i \in 1..Len(stack) : stack'[i] = stack[i]
      /\ \A i \in 1..Len(fs) : stack'[Len(stack) + i] = fs[i]
  BY <1>1, <1>2, CallAny
<1> QED  BY <1>1, <1>3, <1>4 DEF UserCall, InCallback

(* CallAny with two.                                                         *)
LEMMA Calls2 ==
  ASSUME stack \in Seq(Frames), NEW f, NEW g, UserCall(<<f, g>>)
  PROVE  /\ Len(stack) \in Nat /\ Len(stack') = Len(stack) + 2
         /\ \A i \in 1..Len(stack) : stack'[i] = stack[i]
         /\ stack'[Len(stack) + 1] = f /\ stack'[Len(stack) + 2] = g
         /\ stack = <<>> \/ Top.cb \in Reenters
<1> DEFINE fs == <<f, g>>
<1>1. fs \in Seq({f, g}) /\ Len(fs) = 2 /\ fs[1] = f /\ fs[2] = g
  OBVIOUS
<1> HIDE DEF fs
<1>2. UserCall(fs)
  BY DEF fs
<1>3. 1 \in 1..Len(fs) /\ 2 \in 1..Len(fs)
  BY <1>1
<1>4. /\ Len(stack) \in Nat /\ Len(stack') = Len(stack) + Len(fs)
      /\ \A i \in 1..Len(stack) : stack'[i] = stack[i]
      /\ \A i \in 1..Len(fs) : stack'[Len(stack) + i] = fs[i]
  BY <1>1, <1>2, CallAny
<1> QED  BY <1>1, <1>3, <1>4 DEF UserCall, InCallback

(* The event loop starts a handler only when no code is running.             *)
LEMMA Events ==
  ASSUME NEW fs, EventLoop(fs)
  PROVE  stack = <<>> /\ Len(stack) = 0 /\ stack' = fs
BY DEF EventLoop

-----------------------------------------------------------------------------
(* Which frames a step ends and which it opens, action by action.            *)

(* The frames below the running one stay.                                    *)
LowerStay ==
  \A i \in 1..(Len(stack) - 1) :
    i \in 1..Len(stack') /\ stack'[i] = stack[i]

(* A step may end the running frame if its label is of L; the others stay,   *)
(* and every frame the step adds has a label of S.                           *)
Moves(L, S) ==
  /\ LowerStay
  /\ \A i \in 1..Len(stack) :
       stack[i].at \notin L => i \in 1..Len(stack') /\ stack'[i] = stack[i]
  /\ \A i \in 1..Len(stack') : \/ i \in 1..Len(stack) /\ stack'[i] = stack[i]
                             \/ stack'[i].at \in S

(* No frame that the step adds has a label of S.                             *)
Avoids(S) ==
  \A i \in 1..Len(stack') :
    \/ i \in 1..Len(stack) /\ stack'[i] = stack[i]
    \/ stack'[i].at \notin S

(* Every frame with a label of S stays.                                      *)
Keeps(S) ==
  \A i \in 1..Len(stack) :
    stack[i].at \in S => i \in 1..Len(stack') /\ stack'[i] = stack[i]

(* The running method is the top frame; the step leaves those below it.      *)
LEMMA RunningMoves ==
  ASSUME TypeOK, NEW l, Running(l), NEW S,
         \A i \in 1..(Len(stack) - 1) :
           i \in 1..Len(stack') /\ stack'[i] = stack[i],
         \A i \in 1..Len(stack') : \/ i \in 1..(Len(stack) - 1)
                                   \/ stack'[i].at \in S
  PROVE  Moves({l}, S)
<1>1. /\ Len(stack) \in Nat \ {0} /\ Top = stack[Len(stack)] /\ Top.at = l
  BY RunningFrame, TopIsFrame
<1>2. \A i \in 1..Len(stack) : i \in 1..(Len(stack) - 1) \/ i = Len(stack)
  BY <1>1
<1>3. \A i \in 1..(Len(stack) - 1) : i \in 1..Len(stack)
  BY <1>1
<1> QED  BY <1>1, <1>2, <1>3 DEF Moves, LowerStay

(* The running method returns.                                               *)
LEMMA Moves0 ==
  ASSUME TypeOK, NEW l, Running(l), Proceed(<<>>), NEW S
  PROVE  Moves({l}, S)
<1>1. /\ stack # <<>> /\ stack \in Seq(Frames)
  BY RunningFrame
<1>2. /\ Len(stack) \in Nat \ {0} /\ Len(stack') = Len(stack) - 1
      /\ \A i \in 1..(Len(stack) - 1) : stack'[i] = stack[i]
  BY <1>1, Goes0
<1> QED  BY <1>2, RunningMoves

(* The running method goes on with one to four frames.                       *)
LEMMA Moves1 ==
  ASSUME TypeOK, NEW l, Running(l), NEW f, Proceed(<<f>>), NEW S, f.at \in S
  PROVE  Moves({l}, S)
<1>1. /\ stack # <<>> /\ stack \in Seq(Frames)
  BY RunningFrame
<1>2. /\ Len(stack) \in Nat \ {0} /\ Len(stack') = Len(stack)
      /\ \A i \in 1..(Len(stack) - 1) : stack'[i] = stack[i]
      /\ stack'[Len(stack)] = f
  BY <1>1, Goes1
<1>3. \A i \in 1..Len(stack') : i \in 1..(Len(stack) - 1) \/ i = Len(stack)
  BY <1>2
<1> QED  BY <1>2, <1>3, RunningMoves

(* Two frames.                                                               *)
LEMMA Moves2 ==
  ASSUME TypeOK, NEW l, Running(l), NEW f, NEW g, Proceed(<<f, g>>),
         NEW S, f.at \in S, g.at \in S
  PROVE  Moves({l}, S)
<1>1. /\ stack # <<>> /\ stack \in Seq(Frames)
  BY RunningFrame
<1>2. /\ Len(stack) \in Nat \ {0} /\ Len(stack') = Len(stack) + 1
      /\ \A i \in 1..(Len(stack) - 1) : stack'[i] = stack[i]
      /\ stack'[Len(stack)] = f /\ stack'[Len(stack) + 1] = g
  BY <1>1, Goes2
<1>3. \A i \in 1..Len(stack') : \/ i \in 1..(Len(stack) - 1)
                                \/ i = Len(stack) \/ i = Len(stack) + 1
  BY <1>2
<1> QED  BY <1>2, <1>3, RunningMoves

(* Three frames.                                                             *)
LEMMA Moves3 ==
  ASSUME TypeOK, NEW l, Running(l), NEW f, NEW g, NEW h,
         Proceed(<<f, g, h>>), NEW S, f.at \in S, g.at \in S, h.at \in S
  PROVE  Moves({l}, S)
<1>1. /\ stack # <<>> /\ stack \in Seq(Frames)
  BY RunningFrame
<1>2. /\ Len(stack) \in Nat \ {0} /\ Len(stack') = Len(stack) + 2
      /\ \A i \in 1..(Len(stack) - 1) : stack'[i] = stack[i]
      /\ stack'[Len(stack)] = f /\ stack'[Len(stack) + 1] = g
      /\ stack'[Len(stack) + 2] = h
  BY <1>1, Goes3
<1>3. \A i \in 1..Len(stack') :
        \/ i \in 1..(Len(stack) - 1)
        \/ i = Len(stack) \/ i = Len(stack) + 1 \/ i = Len(stack) + 2
  BY <1>2
<1> QED  BY <1>2, <1>3, RunningMoves

(* Four frames.                                                              *)
LEMMA Moves4 ==
  ASSUME TypeOK, NEW l, Running(l), NEW f, NEW g, NEW h, NEW k,
         Proceed(<<f, g, h, k>>),
         NEW S, f.at \in S, g.at \in S, h.at \in S, k.at \in S
  PROVE  Moves({l}, S)
<1>1. /\ stack # <<>> /\ stack \in Seq(Frames)
  BY RunningFrame
<1>2. /\ Len(stack) \in Nat \ {0} /\ Len(stack') = Len(stack) + 3
      /\ \A i \in 1..(Len(stack) - 1) : stack'[i] = stack[i]
      /\ stack'[Len(stack)] = f /\ stack'[Len(stack) + 1] = g
      /\ stack'[Len(stack) + 2] = h /\ stack'[Len(stack) + 3] = k
  BY <1>1, Goes4
<1>3. \A i \in 1..Len(stack') :
        \/ i \in 1..(Len(stack) - 1) \/ i = Len(stack)
        \/ i = Len(stack) + 1 \/ i = Len(stack) + 2 \/ i = Len(stack) + 3
  BY <1>2
<1> QED  BY <1>2, <1>3, RunningMoves

(* The typed stack is a sequence of frames.                                  *)
LEMMA TypeStack ==
  ASSUME TypeOK
  PROVE  stack \in Seq(Frames)
BY DEF TypeOK

(* User code calls the pool: its frames go on top.                           *)
LEMMA MovesCall1 ==
  ASSUME TypeOK, NEW f, UserCall(<<f>>), NEW S, f.at \in S
  PROVE  Moves({}, S)
<1>1. /\ Len(stack) \in Nat /\ Len(stack') = Len(stack) + 1
      /\ \A i \in 1..Len(stack) : stack'[i] = stack[i]
      /\ stack'[Len(stack) + 1] = f
  BY TypeStack, Calls1
<1>2. \A i \in 1..Len(stack') : i \in 1..Len(stack) \/ i = Len(stack) + 1
  BY <1>1
<1>3. \A i \in 1..Len(stack) : i \in 1..Len(stack')
  BY <1>1
<1> QED  BY <1>1, <1>2, <1>3 DEF Moves, LowerStay

(* The same with two frames.                                                 *)
LEMMA MovesCall2 ==
  ASSUME TypeOK, NEW f, NEW g, UserCall(<<f, g>>),
         NEW S, f.at \in S, g.at \in S
  PROVE  Moves({}, S)
<1>1. /\ Len(stack) \in Nat /\ Len(stack') = Len(stack) + 2
      /\ \A i \in 1..Len(stack) : stack'[i] = stack[i]
      /\ stack'[Len(stack) + 1] = f /\ stack'[Len(stack) + 2] = g
  BY TypeStack, Calls2
<1>2. \A i \in 1..Len(stack') :
        i \in 1..Len(stack) \/ i = Len(stack) + 1 \/ i = Len(stack) + 2
  BY <1>1
<1>3. \A i \in 1..Len(stack) : i \in 1..Len(stack')
  BY <1>1
<1> QED  BY <1>1, <1>2, <1>3 DEF Moves, LowerStay

(* The event loop starts a handler on the empty stack.                       *)
LEMMA MovesEvent ==
  ASSUME NEW fs, EventLoop(fs), NEW S, \A i \in 1..Len(fs) : fs[i].at \in S
  PROVE  Moves({}, S)
<1>1. Len(stack) = 0 /\ stack' = fs
  BY Events
<1> QED  BY <1>1 DEF Moves, LowerStay

(* The labels of the frames that the steps build.                            *)
LEMMA LabelsOf ==
  ASSUME NEW l, NEW w, NEW t, NEW ts, NEW why, NEW cb
  PROVE  /\ At(l).at = l /\ On(l, w).at = l /\ For(l, t).at = l
         /\ SettleEach(ts, why).at = "settle"
         /\ Complete(t, why).at = "complete" /\ Fail(w, ts).at = "fail"
         /\ Remove(w, why).at = "remove"
         /\ Yield(cb, At(l)).at = l /\ Yield(cb, On(l, w)).at = l
         /\ Yield(cb, For(l, t)).at = l
         /\ Yield(cb, SettleEach(ts, why)).at = "settle"
BY DEF At, On, For, SettleEach, Complete, Fail, Remove, Yield, Frames

(* MovesEvent for handlers of no frame to three.                             *)
LEMMA MovesEvent0 ==
  ASSUME EventLoop(<<>>), NEW S
  PROVE  Moves({}, S)
BY MovesEvent

(* One frame.                                                                *)
LEMMA MovesEvent1 ==
  ASSUME NEW f, EventLoop(<<f>>), NEW S, f.at \in S
  PROVE  Moves({}, S)
<1> DEFINE fs == <<f>>
<1>1. Len(fs) = 1 /\ fs[1] = f
  OBVIOUS
<1>2. EventLoop(fs)
  OBVIOUS
<1> HIDE DEF fs
<1> QED  BY <1>1, <1>2, MovesEvent

(* Two frames.                                                               *)
LEMMA MovesEvent2 ==
  ASSUME NEW f, NEW g, EventLoop(<<f, g>>), NEW S, f.at \in S, g.at \in S
  PROVE  Moves({}, S)
<1> DEFINE fs == <<f, g>>
<1>1. Len(fs) = 2 /\ fs[1] = f /\ fs[2] = g
  OBVIOUS
<1>2. EventLoop(fs)
  OBVIOUS
<1> HIDE DEF fs
<1>3. \A i \in 1..Len(fs) : i = 1 \/ i = 2
  BY <1>1
<1> QED  BY <1>1, <1>2, <1>3, MovesEvent

(* Three frames.                                                             *)
LEMMA MovesEvent3 ==
  ASSUME NEW f, NEW g, NEW h, EventLoop(<<f, g, h>>),
         NEW S, f.at \in S, g.at \in S, h.at \in S
  PROVE  Moves({}, S)
<1> DEFINE fs == <<f, g, h>>
<1>1. Len(fs) = 3 /\ fs[1] = f /\ fs[2] = g /\ fs[3] = h
  OBVIOUS
<1>2. EventLoop(fs)
  OBVIOUS
<1> HIDE DEF fs
<1>3. ASSUME NEW i \in 1..Len(fs) PROVE fs[i].at \in S
  <2>1. i = 1 \/ i = 2 \/ i = 3
    BY <1>1
  <2> QED  BY <1>1, <2>1
<1> QED  BY <1>2, <1>3, MovesEvent

(* A step of time leaves the stack alone.                                    *)
LEMMA SameMoves ==
  ASSUME TypeOK, stack' = stack, NEW S
  PROVE  Moves({}, S)
<1>1. Len(stack) \in Nat
  BY TypeStack
<1> QED  BY <1>1 DEF Moves, LowerStay

(* The frames each step of a submission ends and opens: run(), the           *)
(* insertion, arming the queue timer, the queue limit, aborts and queue      *)
(* timeouts.                                                                 *)
LEMMA SubmissionMoves ==
  ASSUME TypeOK
  PROVE  /\ SettleNext => Moves({"settle"}, {"settle"})
         /\ SettleDone => Moves({"settle"}, {})
         /\ \A p, timed : Run(p, timed) => Moves({}, {"insert"})
         /\ Insert => Moves({"insert"}, {"arm"})
         /\ SignalThrows => Moves({"insert"}, {"stats"})
         /\ Arm => Moves({"arm"}, {"enforce", "next"})
         /\ ArmLate => Moves({"arm"}, {"enforce", "next", "stats"})
         /\ EnforceQueueLimit => Moves({"enforce"}, {"stats", "settle"})
         /\ \A t \in Tasks : Abort(t) => Moves({}, {"stats"})
         /\ \A t \in Tasks : QueueTimer(t) => Moves({}, {"stats"})
<1>1. ASSUME SettleNext
      PROVE  Moves({"settle"}, {"settle"})
  <2> DEFINE f == Yield(Announce(Head(Top.ts)),
                   SettleEach(Tail(Top.ts), Top.why))
  <2>1. f.at = "settle"
    BY LabelsOf
  <2>2. Running("settle") /\ Proceed(<<f>>)
    BY <1>1 DEF SettleNext
  <2> HIDE DEF f
  <2> QED  BY <2>1, <2>2, Moves1
<1>2. ASSUME SettleDone
      PROVE  Moves({"settle"}, {})
  BY <1>2, Moves0 DEF SettleDone
<1>3. ASSUME NEW p, NEW timed, Run(p, timed)
      PROVE  Moves({}, {"insert"})
  BY <1>3, MovesCall1, LabelsOf DEF Run
<1>4. ASSUME Insert
      PROVE  Moves({"insert"}, {"arm"})
  <2>0. Running("insert")
    BY <1>4 DEF Insert
  <2>1. CASE Pending(Top.ts[1])
    <3> DEFINE f == Yield("event", For("arm", Top.ts[1]))
    <3>1. f.at = "arm"
      BY LabelsOf
    <3>2. Proceed(<<f>>)
      BY <1>4, <2>1 DEF Insert
    <3> HIDE DEF f
    <3> QED  BY <2>0, <3>1, <3>2, Moves1
  <2>2. CASE ~Pending(Top.ts[1])
    <3>1. Proceed(<<>>)
      BY <1>4, <2>2 DEF Insert
    <3> QED  BY <2>0, <3>1, Moves0
  <2> QED  BY <2>1, <2>2
<1>5. ASSUME SignalThrows
      PROVE  Moves({"insert"}, {"stats"})
  BY SMTT(20), <1>5, Moves1, LabelsOf DEF SignalThrows
<1>6. ASSUME Arm
      PROVE  Moves({"arm"}, {"enforce", "next"})
  <2> DEFINE f == For("enforce", Top.ts[1])
             g == At("next")
  <2>1. f.at = "enforce" /\ g.at = "next"
    BY LabelsOf
  <2>2. Proceed(<<f, g>>)
    BY <1>6 DEF Arm, ScheduleThenEnforce
  <2> HIDE DEF f, g
  <2>3. Running("arm")
    BY <1>6 DEF Arm
  <2> QED  BY <2>1, <2>2, <2>3, Moves2
<1>7. ASSUME ArmLate
      PROVE  Moves({"arm"}, {"enforce", "next", "stats"})
  <2> DEFINE f == For("enforce", Top.ts[1])
             g == At("next")
             h == Yield("event", At("stats"))
  <2>1. f.at = "enforce" /\ g.at = "next" /\ h.at = "stats"
    BY LabelsOf
  <2>2. Proceed(<<f, g, h>>)
    BY <1>7, Joins DEF ArmLate, ScheduleThenEnforce
  <2> HIDE DEF f, g, h
  <2>3. Running("arm")
    BY <1>7 DEF ArmLate
  <2> QED  BY <2>1, <2>2, <2>3, Moves3
<1>8. ASSUME EnforceQueueLimit
      PROVE  Moves({"enforce"}, {"stats", "settle"})
  BY SMTT(20), <1>8, Moves2, LabelsOf DEF EnforceQueueLimit
<1>9. ASSUME NEW t \in Tasks, Abort(t)
      PROVE  Moves({}, {"stats"})
  BY SMTT(20), <1>9, MovesCall1, LabelsOf DEF Abort
<1>10. ASSUME NEW t \in Tasks, QueueTimer(t)
      PROVE  Moves({}, {"stats"})
  BY <1>10, MovesEvent1, LabelsOf DEF QueueTimer
<1> QED  BY <1>1, <1>2, <1>3, <1>4, <1>5, <1>6, <1>7, <1>8, <1>9, <1>10

(* The same for the scheduling loop of _next().                              *)
LEMMA SchedulingMoves ==
  ASSUME TypeOK
  PROVE  /\ NextSkipped => Moves({"next"}, {})
         /\ NextStarts => Moves({"next"}, {"loop"})
         /\ Loop => Moves({"loop"}, {"endpass", "pick"})
         /\ EndPass => Moves({"endpass"}, {"passend"})
         /\ RejectQueue => Moves({"endpass"}, {"passend", "settle"})
         /\ NextPass => Moves({"passend"}, {"loop"})
         /\ NextReturns => Moves({"passend"}, {})
         /\ RejectBacklog => Moves({"broken"}, {"endpass", "settle"})
         /\ \A w \in Workers : PickIdle(w) => Moves({"pick"}, {"got"})
         /\ \A w \in Workers : PickExpired(w) => Moves({"pick"}, {"pick",
              "remove"})
         /\ PickNew => Moves({"pick"}, {"construct"})
         /\ PickLoaded => Moves({"pick"}, {"got", "endpass"})
<1>1. ASSUME NextSkipped
      PROVE  Moves({"next"}, {})
  BY <1>1, Moves0 DEF NextSkipped
<1>2. ASSUME NextStarts
      PROVE  Moves({"next"}, {"loop"})
  BY <1>2, Moves1, LabelsOf DEF NextStarts
<1>3. ASSUME Loop
      PROVE  Moves({"loop"}, {"endpass", "pick"})
  <2> DEFINE f == At(IF queue = <<>> \/ terminationStarted
                  THEN "endpass" ELSE "pick")
  <2>1. f.at \in {"endpass", "pick"}
    BY LabelsOf
  <2>2. Running("loop") /\ Proceed(<<f>>)
    BY <1>3 DEF Loop
  <2> HIDE DEF f
  <2> QED  BY <2>1, <2>2, Moves1
<1>4. ASSUME EndPass
      PROVE  Moves({"endpass"}, {"passend"})
  BY <1>4, Moves1, LabelsOf DEF EndPass
<1>5. ASSUME RejectQueue
      PROVE  Moves({"endpass"}, {"passend", "settle"})
  <2> DEFINE f == At("passend")
             g == SettleEach(queue, "rejected")
  <2>1. f.at = "passend" /\ g.at = "settle"
    BY LabelsOf
  <2>2. Running("endpass") /\ Proceed(<<f, g>>)
    BY <1>5 DEF RejectQueue
  <2> HIDE DEF f, g
  <2> QED  BY <2>1, <2>2, Moves2
<1>6. ASSUME NextPass
      PROVE  Moves({"passend"}, {"loop"})
  BY <1>6, Moves1, LabelsOf DEF NextPass
<1>7. ASSUME NextReturns
      PROVE  Moves({"passend"}, {})
  BY <1>7, Moves0 DEF NextReturns
<1>8. ASSUME RejectBacklog
      PROVE  Moves({"broken"}, {"endpass", "settle"})
  <2> DEFINE f == At("endpass")
             g == SettleEach(queue, "rejected")
  <2>1. f.at = "endpass" /\ g.at = "settle"
    BY LabelsOf
  <2>2. Running("broken") /\ Proceed(<<f, g>>)
    BY <1>8 DEF RejectBacklog
  <2> HIDE DEF f, g
  <2> QED  BY <2>1, <2>2, Moves2
<1>9. ASSUME NEW w \in Workers, PickIdle(w)
      PROVE  Moves({"pick"}, {"got"})
  <2> DEFINE f == On("got", w)
  <2>1. f.at = "got"
    BY LabelsOf
  <2>2. Running("pick") /\ Proceed(<<f>>)
    BY <1>9 DEF PickIdle
  <2> HIDE DEF f
  <2> QED  BY <2>1, <2>2, Moves1
<1>10. ASSUME NEW w \in Workers, PickExpired(w)
      PROVE  Moves({"pick"}, {"pick", "remove"})
  BY <1>10, Moves2, LabelsOf DEF PickExpired
<1>11. ASSUME PickNew
      PROVE  Moves({"pick"}, {"construct"})
  BY <1>11, Moves1, LabelsOf DEF PickNew
<1>12. ASSUME PickLoaded
      PROVE  Moves({"pick"}, {"got", "endpass"})
  <2>0. Running("pick")
    BY <1>12 DEF PickLoaded
  <2>1. ASSUME NEW w, Proceed(<<On("got", w)>>)
        PROVE  Moves({"pick"}, {"got", "endpass"})
    BY <2>0, <2>1, Moves1, LabelsOf
  <2>2. ASSUME Proceed(<<At("endpass")>>)
        PROVE  Moves({"pick"}, {"got", "endpass"})
    BY <2>0, <2>2, Moves1, LabelsOf
  <2> QED  BY <1>12, <2>1, <2>2 DEF PickLoaded
<1> QED  BY <1>1, <1>2, <1>3, <1>4, <1>5, <1>6, <1>7, <1>8, <1>9, <1>10,
     <1>11, <1>12

(* The same for the creation of a worker and the dispatch of a task.         *)
LEMMA CreationMoves ==
  ASSUME TypeOK
  PROVE  /\ \A w \in Workers : ConstructOk(w) => Moves({"construct"},
              {"created"})
         /\ \A w \in Workers : ConstructPartial(w) => Moves({"construct"},
              {"discard"})
         /\ ConstructThrows => Moves({"construct"}, {"uncreated"})
         /\ Discard => Moves({"discard"}, {"uncreated", "attempt"})
         /\ Uncreated => Moves({"uncreated"}, {"finally"})
         /\ CreatedReady => Moves({"created"}, {"finally"})
         /\ CreatedExpired => Moves({"created"}, {"finally", "stats", "next",
              "remove"})
         /\ CreatedTooLate => Moves({"created"}, {"finally", "remove"})
         /\ Finally => Moves({"finally"}, {"got", "broken", "endpass",
              "stats"})
         /\ GotNothing => Moves({"got"}, {"endpass"})
         /\ GotExpired => Moves({"got"}, {"loop"})
         /\ \A late : Dispatch(late) => Moves({"got"}, {"loop", "fail"})
<1>1. ASSUME NEW w \in Workers, ConstructOk(w)
      PROVE  Moves({"construct"}, {"created"})
  <2> DEFINE f == Yield("event", On("created", w))
  <2>1. f.at = "created"
    BY LabelsOf
  <2>2. Running("construct") /\ Proceed(<<f>>)
    BY <1>1 DEF ConstructOk
  <2> HIDE DEF f
  <2> QED  BY <2>1, <2>2, Moves1
<1>2. ASSUME NEW w \in Workers, ConstructPartial(w)
      PROVE  Moves({"construct"}, {"discard"})
  <2> DEFINE f == Yield("cleanup", On("discard", w))
  <2>1. f.at = "discard"
    BY LabelsOf
  <2>2. Running("construct") /\ Proceed(<<f>>)
    BY <1>2 DEF ConstructPartial
  <2> HIDE DEF f
  <2> QED  BY <2>1, <2>2, Moves1
<1>3. ASSUME ConstructThrows
      PROVE  Moves({"construct"}, {"uncreated"})
  BY <1>3, Moves1, LabelsOf DEF ConstructThrows
<1>4. ASSUME Discard
      PROVE  Moves({"discard"}, {"uncreated", "attempt"})
  <2> DEFINE f == At("uncreated")
             g == On("attempt", Top.w)
  <2>1. f.at = "uncreated" /\ g.at = "attempt"
    BY LabelsOf
  <2>2. Running("discard") /\ Proceed(<<f, g>>)
    BY <1>4 DEF Discard
  <2> HIDE DEF f, g
  <2> QED  BY <2>1, <2>2, Moves2
<1>5. ASSUME Uncreated
      PROVE  Moves({"uncreated"}, {"finally"})
  <2>0. Running("uncreated")
    BY <1>5 DEF Uncreated
  <2>1. ASSUME NEW w, Proceed(<<On("finally", w)>>)
        PROVE  Moves({"uncreated"}, {"finally"})
    BY <2>0, <2>1, Moves1, LabelsOf
  <2>2. ASSUME Proceed(<<[At("finally") EXCEPT !.why = "broken"]>>)
        PROVE  Moves({"uncreated"}, {"finally"})
    <3> DEFINE f == [At("finally") EXCEPT !.why = "broken"]
    <3>1. f.at = "finally"
      BY DEF At
    <3>2. Proceed(<<f>>)
      BY <2>2
    <3> HIDE DEF f
    <3> QED  BY <2>0, <3>1, <3>2, Moves1
  <2> QED  BY <1>5, <2>1, <2>2 DEF Uncreated
<1>6. ASSUME CreatedReady
      PROVE  Moves({"created"}, {"finally"})
  BY <1>6, Moves1, LabelsOf DEF CreatedReady
<1>7. ASSUME CreatedExpired
      PROVE  Moves({"created"}, {"finally", "stats", "next", "remove"})
  <2> DEFINE f == At("finally")
             g == At("stats")
             h == At("next")
             k == Remove(Top.w, "soft")
  <2>1. f.at = "finally" /\ g.at = "stats" /\ h.at = "next" /\ k.at = "remove"
    BY LabelsOf
  <2>2. Running("created") /\ Proceed(<<f, g, h, k>>)
    BY <1>7 DEF CreatedExpired
  <2> HIDE DEF f, g, h, k
  <2> QED  BY <2>1, <2>2, Moves4
<1>8. ASSUME CreatedTooLate
      PROVE  Moves({"created"}, {"finally", "remove"})
  BY <1>8, Moves2, LabelsOf DEF CreatedTooLate
<1>9. ASSUME Finally
      PROVE  Moves({"finally"}, {"got", "broken", "endpass", "stats"})
  <2>0. Running("finally")
    BY <1>9 DEF Finally
  <2> DEFINE S == {"got", "broken", "endpass", "stats"}
             f == IF Top.w # NoWorker THEN On("got", Top.w)
                  ELSE At(IF Top.why = "broken" THEN "broken" ELSE "endpass")
             g == At("stats")
  <2>1. f.at \in S /\ g.at \in S
    BY LabelsOf
  <2>2. Proceed(<<f>>) \/ Proceed(<<f, g>>)
    BY <1>9 DEF Finally
  <2> HIDE DEF f, g
  <2> QED  BY <2>0, <2>1, <2>2, Moves1, Moves2
<1>10. ASSUME GotNothing
      PROVE  Moves({"got"}, {"endpass"})
  <2> DEFINE f == At("endpass")
  <2>1. f.at = "endpass"
    BY LabelsOf
  <2>2. Running("got") /\ Proceed(<<f>>)
    BY <1>10 DEF GotNothing
  <2> HIDE DEF f
  <2> QED  BY <2>1, <2>2, Moves1
<1>11. ASSUME GotExpired
      PROVE  Moves({"got"}, {"loop"})
  <2> DEFINE f == Yield("event", At("loop"))
  <2>1. f.at = "loop"
    BY LabelsOf
  <2>2. Running("got") /\ Proceed(<<f>>)
    BY <1>11 DEF GotExpired
  <2> HIDE DEF f
  <2> QED  BY <2>1, <2>2, Moves1
<1>12. ASSUME NEW late, Dispatch(late)
      PROVE  Moves({"got"}, {"loop", "fail"})
  <2>0. Running("got")
    BY <1>12 DEF Dispatch
  <2>1. ASSUME NEW t,
               Proceed(<<Yield("event", At("loop")), Fail(Top.w, <<t>>)>>)
        PROVE  Moves({"got"}, {"loop", "fail"})
    BY <2>0, <2>1, Moves2, LabelsOf
  <2>2. ASSUME Proceed(<<Yield("event", At("loop"))>>)
        PROVE  Moves({"got"}, {"loop", "fail"})
    BY <2>0, <2>2, Moves1, LabelsOf
  <2>3. \E t : \/ Proceed(<<Yield("event", At("loop")), Fail(Top.w, <<t>>)>>)
              \/ Proceed(<<Yield("event", At("loop"))>>)
    BY <1>12 DEF Dispatch
  <2> QED  BY <2>1, <2>2, <2>3
<1> QED  BY <1>1, <1>2, <1>3, <1>4, <1>5, <1>6, <1>7, <1>8, <1>9, <1>10,
     <1>11, <1>12

(* The same for the calls of the proxies and the failures of workers.        *)
LEMMA CallsMoves ==
  ASSUME TypeOK
  PROVE  /\ \A t \in Tasks : Microtask(t) => Moves({}, {"lookup", "fail"})
         /\ CallMethod => Moves({"lookup"}, {"applied", "fail"})
         /\ MethodCalled => Moves({"applied"}, {"fail"})
         /\ MethodThrows => Moves({"lookup", "applied"}, {"complete"})
         /\ \A t \in Tasks : \A why :
              Answer(t, why) => Moves({}, {"complete"})
         /\ CompleteIgnored => Moves({"complete"}, {"fail"})
         /\ CompleteTask => Moves({"complete"}, {"completed"})
         /\ Completed => Moves({"completed"}, {"stats", "next", "remove"})
         /\ \A t \in Tasks : TaskTimer(t) => Moves({}, {"fail"})
         /\ \A w \in Workers : WorkerError(w) => Moves({}, {"fail"})
         /\ FailureStarts => Moves({"fail"}, {"failing"})
         /\ \A t \in Tasks : FailTask(t) => Moves({"failing"}, {"failing"})
         /\ FailureEnds => Moves({"failing"}, {"stats", "next", "remove"})
<1>1. ASSUME NEW t \in Tasks, Microtask(t)
      PROVE  Moves({}, {"lookup", "fail"})
  BY <1>1, MovesEvent0, MovesEvent1, LabelsOf DEF Microtask, ExpireTask
<1>2. ASSUME CallMethod
      PROVE  Moves({"lookup"}, {"applied", "fail"})
  <2>0. Running("lookup")
    BY <1>2 DEF CallMethod
  <2> DEFINE f == Yield("proxy", For("applied", Top.ts[1]))
             g == Fail(CHOOSE w \in Hosts(Top.ts[1]) : TRUE, <<Top.ts[1]>>)
  <2>1. f.at = "applied" /\ g.at = "fail"
    BY LabelsOf
  <2>2. Proceed(<<f>>) \/ Proceed(<<g>>) \/ Proceed(<<>>)
    BY <1>2 DEF CallMethod, ExpireTask
  <2> HIDE DEF f, g
  <2> QED  BY <2>0, <2>1, <2>2, Moves0, Moves1
<1>3. ASSUME MethodCalled
      PROVE  Moves({"applied"}, {"fail"})
  <2>0. Running("applied")
    BY <1>3 DEF MethodCalled
  <2> DEFINE g == Fail(CHOOSE w \in Hosts(Top.ts[1]) : TRUE, <<Top.ts[1]>>)
  <2>1. g.at = "fail"
    BY LabelsOf
  <2>2. Proceed(<<g>>) \/ Proceed(<<>>)
    BY <1>3 DEF MethodCalled, ExpireTask
  <2> HIDE DEF g
  <2> QED  BY <2>0, <2>1, <2>2, Moves0, Moves1
<1>4. ASSUME MethodThrows
      PROVE  Moves({"lookup", "applied"}, {"complete"})
  <2> DEFINE f == Complete(Top.ts[1], "rejected")
  <2>1. f.at = "complete"
    BY LabelsOf
  <2>2. Proceed(<<f>>)
    BY <1>4 DEF MethodThrows
  <2> HIDE DEF f
  <2>3. Running("lookup") \/ Running("applied")
    BY <1>4 DEF MethodThrows
  <2>4. \/ Moves({"lookup"}, {"complete"})
        \/ Moves({"applied"}, {"complete"})
    BY <2>1, <2>2, <2>3, Moves1
  <2> QED  BY <2>4 DEF Moves
<1>5. ASSUME NEW t \in Tasks, NEW why, Answer(t, why)
      PROVE  Moves({}, {"complete"})
  <2> DEFINE f == Complete(t, why)
  <2>1. f.at = "complete"
    BY LabelsOf
  <2>2. EventLoop(<<f>>)
    BY <1>5 DEF Answer
  <2> HIDE DEF f
  <2> QED  BY <2>1, <2>2, MovesEvent1
<1>6. ASSUME CompleteIgnored
      PROVE  Moves({"complete"}, {"fail"})
  <2>0. Running("complete")
    BY <1>6 DEF CompleteIgnored
  <2> DEFINE g == Fail(CHOOSE w \in Hosts(Top.ts[1]) : TRUE, <<Top.ts[1]>>)
  <2>1. g.at = "fail"
    BY LabelsOf
  <2>2. Proceed(<<g>>) \/ Proceed(<<>>)
    BY <1>6 DEF CompleteIgnored, ExpireTask
  <2> HIDE DEF g
  <2> QED  BY <2>0, <2>1, <2>2, Moves0, Moves1
<1>7. ASSUME CompleteTask
      PROVE  Moves({"complete"}, {"completed"})
  <2>1. PICK w : Proceed(<<Yield(Announce(Top.ts[1]), On("completed", w))>>)
    BY <1>7 DEF CompleteTask
  <2> DEFINE f == Yield(Announce(Top.ts[1]), On("completed", w))
  <2>2. f.at = "completed"
    BY LabelsOf
  <2>3. Running("complete") /\ Proceed(<<f>>)
    BY <1>7, <2>1 DEF CompleteTask
  <2> HIDE DEF f
  <2> QED  BY <2>2, <2>3, Moves1
<1>8. ASSUME Completed
      PROVE  Moves({"completed"}, {"stats", "next", "remove"})
  <2>0. Running("completed")
    BY <1>8 DEF Completed
  <2> DEFINE S == {"stats", "next", "remove"}
             f == At("stats")
             g == At("next")
             h == Remove(Top.w, "soft")
  <2>1. f.at \in S /\ g.at \in S /\ h.at \in S
    BY LabelsOf
  <2>2. Proceed(<<>>) \/ Proceed(<<f, g>>) \/ Proceed(<<f, g, h>>)
    BY <1>8, Joins DEF Completed
  <2> HIDE DEF f, g, h
  <2> QED  BY <2>0, <2>1, <2>2, Moves0, Moves2, Moves3
<1>9. ASSUME NEW t \in Tasks, TaskTimer(t)
      PROVE  Moves({}, {"fail"})
  BY <1>9, MovesEvent0, MovesEvent1, LabelsOf DEF TaskTimer, ExpireTask
<1>10. ASSUME NEW w \in Workers, WorkerError(w)
      PROVE  Moves({}, {"fail"})
  BY <1>10, MovesCall1, LabelsOf DEF WorkerError
<1>11. ASSUME FailureStarts
      PROVE  Moves({"fail"}, {"failing"})
  <2>0. Running("fail")
    BY <1>11 DEF FailureStarts
  <2> DEFINE f == [Top EXCEPT !.at = "failing"]
  <2>1. f.at = "failing"
    BY <1>11, RunningFrame DEF FailureStarts, Frames
  <2>2. Proceed(<<f>>) \/ Proceed(<<>>)
    BY <1>11 DEF FailureStarts
  <2> HIDE DEF f
  <2> QED  BY <2>0, <2>1, <2>2, Moves0, Moves1
<1>12. ASSUME NEW t \in Tasks, FailTask(t)
      PROVE  Moves({"failing"}, {"failing"})
  <2>0. Running("failing")
    BY <1>12 DEF FailTask
  <2> DEFINE f == Yield(Announce(t), Top)
  <2>1. f.at = "failing"
    BY <1>12, RunningFrame DEF FailTask, Yield, Frames
  <2>2. Proceed(<<f>>)
    BY <1>12 DEF FailTask
  <2> HIDE DEF f
  <2> QED  BY <2>0, <2>1, <2>2, Moves1
<1>13. ASSUME FailureEnds
      PROVE  Moves({"failing"}, {"stats", "next", "remove"})
  <2> DEFINE f == At("stats")
             g == At("next")
             h == Remove(Top.w, "force")
  <2>1. f.at = "stats" /\ g.at = "next" /\ h.at = "remove"
    BY LabelsOf
  <2>2. Running("failing") /\ Proceed(<<f, g, h>>)
    BY <1>13 DEF FailureEnds
  <2> HIDE DEF f, g, h
  <2> QED  BY <2>1, <2>2, Moves3
<1> QED  BY <1>1, <1>2, <1>3, <1>4, <1>5, <1>6, <1>7, <1>8, <1>9, <1>10,
     <1>11, <1>12, <1>13

(* The same for the removal of workers and their termination attempts.       *)
LEMMA TerminationMoves ==
  ASSUME TypeOK
  PROVE  /\ RemoveWorker => Moves({"remove"}, {"attempt"})
         /\ RemoveSkipped => Moves({"remove"}, {})
         /\ Attempt => Moves({"attempt"}, {"attempted"})
         /\ TerminatorReturns => Moves({"attempted"}, {"stats", "next"})
         /\ TerminatorThrows => Moves({"attempted"}, {"stats", "next"})
         /\ TerminatorPromises => Moves({"attempted"}, {})
         /\ \A w \in Workers : PromiseConfirms(w) => Moves({}, {"stats",
              "next"})
         /\ \A w \in Workers : PromiseConfirmsPastDeadline(w) => Moves({},
              {"confirmed", "stats", "next"})
         /\ ConfirmedPastDeadline => Moves({"confirmed"}, {"stats", "next"})
         /\ \A w \in Workers : PromiseRejects(w) => Moves({}, {"stats",
              "next"})
         /\ \A w \in Workers : AttemptTimer(w) => Moves({}, {"stats", "next"})
         /\ \A w \in Workers : LateConfirm(w) => Moves({}, {"stats", "next"})
         /\ \A w \in Workers : RetryTimer(w) => Moves({}, {"attempt"})
         /\ \A w \in Workers : LifetimeTimer(w) => Moves({}, {"stats", "next",
              "remove"})
         /\ \A w \in Workers : IdleTimer(w) => Moves({}, {"stats", "next",
              "remove"})
<1>1. ASSUME RemoveWorker
      PROVE  Moves({"remove"}, {"attempt"})
  BY SMTT(20), <1>1, Moves1, LabelsOf DEF RemoveWorker
<1>2. ASSUME RemoveSkipped
      PROVE  Moves({"remove"}, {})
  BY <1>2, Moves0 DEF RemoveSkipped
<1>3. ASSUME Attempt
      PROVE  Moves({"attempt"}, {"attempted"})
  <2>1. Running("attempt")
    BY <1>3 DEF Attempt
  <2> QED  BY <1>3, <2>1, Moves1, LabelsOf DEF Attempt
<1>4. ASSUME TerminatorReturns
      PROVE  Moves({"attempted"}, {"stats", "next"})
  <2> DEFINE f == At("stats")
             g == At("next")
  <2>1. f.at = "stats" /\ g.at = "next"
    BY LabelsOf
  <2>2. Proceed(<<f, g>>)
    BY <1>4 DEF TerminatorReturns, StateChange
  <2> HIDE DEF f, g
  <2>3. Running("attempted")
    BY <1>4 DEF TerminatorReturns
  <2> QED  BY <2>1, <2>2, <2>3, Moves2
<1>5. ASSUME TerminatorThrows
      PROVE  Moves({"attempted"}, {"stats", "next"})
  <2> DEFINE f == At("stats")
             g == Yield("event", At("next"))
  <2>1. f.at = "stats" /\ g.at = "next"
    BY LabelsOf
  <2>2. Proceed(<<f, g>>)
    BY <1>5 DEF TerminatorThrows, FailureReported
  <2> HIDE DEF f, g
  <2>3. Running("attempted")
    BY <1>5 DEF TerminatorThrows
  <2> QED  BY <2>1, <2>2, <2>3, Moves2
<1>6. ASSUME TerminatorPromises
      PROVE  Moves({"attempted"}, {})
  BY <1>6, Moves0 DEF TerminatorPromises
<1>7. ASSUME NEW w \in Workers, PromiseConfirms(w)
      PROVE  Moves({}, {"stats", "next"})
  BY <1>7, MovesEvent2, LabelsOf DEF PromiseConfirms, StateChange
<1>8. ASSUME NEW w \in Workers, PromiseConfirmsPastDeadline(w)
      PROVE  Moves({}, {"confirmed", "stats", "next"})
  <2> DEFINE f == On("confirmed", w)
             g == At("stats")
             h == Yield("event", At("next"))
  <2>1. f.at = "confirmed" /\ g.at = "stats" /\ h.at = "next"
    BY LabelsOf
  <2>2. EventLoop(<<f, g, h>>)
    BY <1>8, Joins DEF PromiseConfirmsPastDeadline, FailureReported
  <2> HIDE DEF f, g, h
  <2> QED  BY <2>1, <2>2, MovesEvent3
<1>9. ASSUME ConfirmedPastDeadline
      PROVE  Moves({"confirmed"}, {"stats", "next"})
  <2> DEFINE f == At("stats")
             g == At("next")
  <2>1. f.at = "stats" /\ g.at = "next"
    BY LabelsOf
  <2>2. Proceed(<<f, g>>)
    BY <1>9 DEF ConfirmedPastDeadline, StateChange
  <2> HIDE DEF f, g
  <2>3. Running("confirmed")
    BY <1>9 DEF ConfirmedPastDeadline
  <2> QED  BY <2>1, <2>2, <2>3, Moves2
<1>10. ASSUME NEW w \in Workers, PromiseRejects(w)
      PROVE  Moves({}, {"stats", "next"})
  BY <1>10, MovesEvent2, LabelsOf DEF PromiseRejects, FailureReported
<1>11. ASSUME NEW w \in Workers, AttemptTimer(w)
      PROVE  Moves({}, {"stats", "next"})
  BY <1>11, MovesEvent2, LabelsOf DEF AttemptTimer, FailureReported
<1>12. ASSUME NEW w \in Workers, LateConfirm(w)
      PROVE  Moves({}, {"stats", "next"})
  BY <1>12, MovesEvent2, LabelsOf DEF LateConfirm, StateChange
<1>13. ASSUME NEW w \in Workers, RetryTimer(w)
      PROVE  Moves({}, {"attempt"})
  BY <1>13, MovesEvent1, LabelsOf DEF RetryTimer
<1>14. ASSUME NEW w \in Workers, LifetimeTimer(w)
      PROVE  Moves({}, {"stats", "next", "remove"})
  <2> DEFINE S == {"stats", "next", "remove"}
             f == At("stats")
             g == At("next")
             h == Remove(w, "soft")
  <2>1. f.at \in S /\ g.at \in S /\ h.at \in S
    BY LabelsOf
  <2>2. EventLoop(<<f, g>>) \/ EventLoop(<<f, g, h>>)
    BY <1>14, Joins DEF LifetimeTimer, StateChange
  <2> HIDE DEF f, g, h
  <2> QED  BY <2>1, <2>2, MovesEvent2, MovesEvent3
<1>15. ASSUME NEW w \in Workers, IdleTimer(w)
      PROVE  Moves({}, {"stats", "next", "remove"})
  <2> DEFINE f == At("stats")
             g == At("next")
             h == Remove(w, "soft")
  <2>1. f.at = "stats" /\ g.at = "next" /\ h.at = "remove"
    BY LabelsOf
  <2>2. EventLoop(<<f, g, h>>)
    BY <1>15, Joins DEF IdleTimer, StateChange
  <2> HIDE DEF f, g, h
  <2> QED  BY <2>1, <2>2, MovesEvent3
<1> QED  BY <1>1, <1>2, <1>3, <1>4, <1>5, <1>6, <1>7, <1>8, <1>9, <1>10,
     <1>11, <1>12, <1>13, <1>14, <1>15

(* The same for close(), drain(), terminateAll() and the passing of time.    *)
LEMMA ShutdownMoves ==
  ASSUME TypeOK
  PROVE  /\ Close => Moves({}, {"terminate"})
         /\ Drain => Moves({}, {"drained", "next"})
         /\ Drained => Moves({"drained"}, {"stats", "terminate"})
         /\ TerminateAll => Moves({"terminate"}, {"termworkers", "settle"})
         /\ TerminateWorkers => Moves({"termworkers"}, {"termworkers",
              "termtasks", "stats"})
         /\ \A t \in Tasks : TerminateTask(t) => Moves({"termtasks"},
              {"termtasks"})
         /\ TerminateWorker => Moves({"termtasks"}, {"remove"})
         /\ StatsFinishDrain => Moves({"stats"}, {"terminate"})
         /\ UpdateStats => Moves({"stats"}, {"return"})
         /\ Return => Moves({"return"}, {})
         /\ Time => Moves({}, {})
<1>1. ASSUME Close
      PROVE  Moves({}, {"terminate"})
  BY <1>1, MovesCall1, LabelsOf DEF Close
<1>2. ASSUME Drain
      PROVE  Moves({}, {"drained", "next"})
  <2> DEFINE f == At("drained")
             g == At("next")
  <2>1. f.at = "drained" /\ g.at = "next"
    BY LabelsOf
  <2>2. UserCall(<<f, g>>)
    BY <1>2 DEF Drain
  <2> HIDE DEF f, g
  <2> QED  BY <2>1, <2>2, MovesCall2
<1>3. ASSUME Drained
      PROVE  Moves({"drained"}, {"stats", "terminate"})
  <2> DEFINE f == At("stats")
             g == At("terminate")
  <2>1. f.at = "stats" /\ g.at = "terminate"
    BY LabelsOf
  <2>2. /\ Running("drained")
        /\ Proceed(<<f>>) \/ Proceed(<<g>>) \/ Proceed(<<>>)
    BY <1>3 DEF Drained
  <2> HIDE DEF f, g
  <2> QED  BY <2>1, <2>2, Moves0, Moves1
<1>4. ASSUME TerminateAll
      PROVE  Moves({"terminate"}, {"termworkers", "settle"})
  <2> DEFINE f == At("termworkers")
             g == SettleEach(queue, "pool-closed")
  <2>1. f.at = "termworkers" /\ g.at = "settle"
    BY LabelsOf
  <2>2. Running("terminate") /\ Proceed(<<f, g>>)
    BY <1>4 DEF TerminateAll
  <2> HIDE DEF f, g
  <2> QED  BY <2>1, <2>2, Moves2
<1>5. ASSUME TerminateWorkers
      PROVE  Moves({"termworkers"}, {"termworkers", "termtasks", "stats"})
  <2>0. Running("termworkers")
    BY <1>5 DEF TerminateWorkers
  <2> DEFINE S == {"termworkers", "termtasks", "stats"}
  <2>1. ASSUME NEW w, Proceed(<<At("termworkers"), On("termtasks", w)>>)
        PROVE  Moves({"termworkers"}, S)
    BY <2>0, <2>1, Moves2, LabelsOf
  <2>2. ASSUME Proceed(<<At("stats")>>)
        PROVE  Moves({"termworkers"}, S)
    BY <2>0, <2>2, Moves1, LabelsOf
  <2> QED  BY <1>5, <2>1, <2>2 DEF TerminateWorkers
<1>6. ASSUME NEW t \in Tasks, TerminateTask(t)
      PROVE  Moves({"termtasks"}, {"termtasks"})
  <2>0. Running("termtasks")
    BY <1>6 DEF TerminateTask
  <2> DEFINE f == Yield(Announce(t), Top)
  <2>1. f.at = "termtasks"
    BY <1>6, RunningFrame DEF TerminateTask, Yield, Frames
  <2>2. Proceed(<<f>>)
    BY <1>6 DEF TerminateTask
  <2> HIDE DEF f
  <2> QED  BY <2>0, <2>1, <2>2, Moves1
<1>7. ASSUME TerminateWorker
      PROVE  Moves({"termtasks"}, {"remove"})
  BY <1>7, Moves1, LabelsOf DEF TerminateWorker
<1>8. ASSUME StatsFinishDrain
      PROVE  Moves({"stats"}, {"terminate"})
  BY <1>8, Moves1, LabelsOf DEF StatsFinishDrain
<1>9. ASSUME UpdateStats
      PROVE  Moves({"stats"}, {"return"})
  BY <1>9, Moves1, LabelsOf DEF UpdateStats
<1>10. ASSUME Return
      PROVE  Moves({"return"}, {})
  BY <1>10, Moves0 DEF Return
<1>11. ASSUME Time
      PROVE  Moves({}, {})
  BY <1>11, SameMoves DEF Time, QueueDeadline, TaskDeadline,
     LifetimePasses, ClockMoves
<1> QED  BY <1>1, <1>2, <1>3, <1>4, <1>5, <1>6, <1>7, <1>8, <1>9, <1>10, <1>11

-----------------------------------------------------------------------------
(* The steps that leave the tasks alone.                                     *)

(* The frames that hold tasks taken from the caller or from the queue and    *)
(* not handed on yet ...                                                     *)
HeldLabels == {"insert", "settle"}
(* ... and the frames of the call of a task's method.                        *)
CallLabels == {"lookup", "applied", "complete", "completed"}

(* A step that changes nothing of a task and opens no such frame.            *)
TaskQuiet ==
  /\ UNCHANGED <<submittedTasks, outcome, phase, queue, activeTasks, accepting,
                 drainRequested, terminationStarted>>
  /\ Avoids(HeldLabels \cup CallLabels)

(* The quiet steps among those of a submission.                              *)
LEMMA SubmissionQuiet ==
  ASSUME TypeOK
  PROVE  /\ SettleDone => TaskQuiet
         /\ Arm => TaskQuiet
<1>1. ASSUME SettleDone
      PROVE  TaskQuiet
  BY <1>1, SubmissionMoves DEF TaskQuiet, SettleDone, data, poolVars,
     taskVars, settleVars, workerVars, schedVars, termVars, Moves, Avoids,
     HeldLabels, CallLabels
<1>2. ASSUME Arm
      PROVE  TaskQuiet
  BY <1>2, SubmissionMoves DEF TaskQuiet, Arm, poolVars, taskVars, workerVars,
     schedVars, termVars, Moves, Avoids, HeldLabels, CallLabels
<1> QED  BY <1>1, <1>2

(* The quiet steps of the scheduling loop: all but those that cut the queue. *)
LEMMA SchedulingQuiet ==
  ASSUME TypeOK
  PROVE  /\ NextSkipped => TaskQuiet
         /\ NextStarts => TaskQuiet
         /\ Loop => TaskQuiet
         /\ EndPass => TaskQuiet
         /\ NextPass => TaskQuiet
         /\ NextReturns => TaskQuiet
         /\ \A w \in Workers : PickIdle(w) => TaskQuiet
         /\ \A w \in Workers : PickExpired(w) => TaskQuiet
         /\ PickNew => TaskQuiet
         /\ PickLoaded => TaskQuiet
<1>1. ASSUME NextSkipped
      PROVE  TaskQuiet
  BY <1>1, SchedulingMoves DEF TaskQuiet, NextSkipped, poolVars, taskVars,
     settleVars, workerVars, termVars, Moves, Avoids, HeldLabels, CallLabels
<1>2. ASSUME NextStarts
      PROVE  TaskQuiet
  BY <1>2, SchedulingMoves DEF TaskQuiet, NextStarts, poolVars, taskVars,
     settleVars, workerVars, termVars, Moves, Avoids, HeldLabels, CallLabels
<1>3. ASSUME Loop
      PROVE  TaskQuiet
  BY <1>3, SchedulingMoves DEF TaskQuiet, Loop, data, poolVars, taskVars,
     settleVars, workerVars, schedVars, termVars, Moves, Avoids, HeldLabels,
     CallLabels
<1>4. ASSUME EndPass
      PROVE  TaskQuiet
  BY <1>4, SchedulingMoves DEF TaskQuiet, EndPass, data, poolVars, taskVars,
     settleVars, workerVars, schedVars, termVars, Moves, Avoids, HeldLabels,
     CallLabels
<1>5. ASSUME NextPass
      PROVE  TaskQuiet
  BY <1>5, SchedulingMoves DEF TaskQuiet, NextPass, poolVars, taskVars,
     settleVars, workerVars, termVars, Moves, Avoids, HeldLabels, CallLabels
<1>6. ASSUME NextReturns
      PROVE  TaskQuiet
  BY <1>6, SchedulingMoves DEF TaskQuiet, NextReturns, poolVars, taskVars,
     settleVars, workerVars, termVars, Moves, Avoids, HeldLabels, CallLabels
<1>7. ASSUME NEW w \in Workers, PickIdle(w)
      PROVE  TaskQuiet
  BY <1>7, SchedulingMoves DEF TaskQuiet, PickIdle, poolVars, taskVars,
     settleVars, schedVars, termVars, Moves, Avoids, HeldLabels, CallLabels
<1>8. ASSUME NEW w \in Workers, PickExpired(w)
      PROVE  TaskQuiet
  BY <1>8, SchedulingMoves DEF TaskQuiet, PickExpired, poolVars, taskVars,
     settleVars, schedVars, termVars, Moves, Avoids, HeldLabels, CallLabels
<1>9. ASSUME PickNew
      PROVE  TaskQuiet
  BY <1>9, SchedulingMoves DEF TaskQuiet, PickNew, poolVars, taskVars,
     settleVars, termVars, Moves, Avoids, HeldLabels, CallLabels
<1>10. ASSUME PickLoaded
      PROVE  TaskQuiet
  BY <1>10, SchedulingMoves DEF TaskQuiet, PickLoaded, poolVars, taskVars,
     settleVars, schedVars, termVars, Moves, Avoids, HeldLabels, CallLabels
<1> QED  BY <1>1, <1>2, <1>3, <1>4, <1>5, <1>6, <1>7, <1>8, <1>9, <1>10

(* The quiet steps of the creation of workers: all but the dispatch.         *)
LEMMA CreationQuiet ==
  ASSUME TypeOK
  PROVE  /\ \A w \in Workers : ConstructOk(w) => TaskQuiet
         /\ \A w \in Workers : ConstructPartial(w) => TaskQuiet
         /\ ConstructThrows => TaskQuiet
         /\ Discard => TaskQuiet
         /\ Uncreated => TaskQuiet
         /\ CreatedReady => TaskQuiet
         /\ CreatedExpired => TaskQuiet
         /\ CreatedTooLate => TaskQuiet
         /\ Finally => TaskQuiet
         /\ GotNothing => TaskQuiet
<1>1. ASSUME NEW w \in Workers, ConstructOk(w)
      PROVE  TaskQuiet
  BY <1>1, CreationMoves DEF TaskQuiet, ConstructOk, poolVars, taskVars,
     settleVars, schedVars, termVars, Moves, Avoids, HeldLabels, CallLabels
<1>2. ASSUME NEW w \in Workers, ConstructPartial(w)
      PROVE  TaskQuiet
  BY <1>2, CreationMoves DEF TaskQuiet, ConstructPartial, poolVars, taskVars,
     settleVars, schedVars, termVars, Moves, Avoids, HeldLabels, CallLabels
<1>3. ASSUME ConstructThrows
      PROVE  TaskQuiet
  BY <1>3, CreationMoves DEF TaskQuiet, ConstructThrows, data, poolVars,
     taskVars, settleVars, workerVars, schedVars, termVars, Moves, Avoids,
     HeldLabels, CallLabels
<1>4. ASSUME Discard
      PROVE  TaskQuiet
  BY <1>4, CreationMoves DEF TaskQuiet, Discard, poolVars, taskVars,
     settleVars, workerVars, schedVars, Moves, Avoids, HeldLabels, CallLabels
<1>5. ASSUME Uncreated
      PROVE  TaskQuiet
  BY <1>5, CreationMoves DEF TaskQuiet, Uncreated, poolVars, taskVars,
     settleVars, schedVars, termVars, Moves, Avoids, HeldLabels, CallLabels
<1>6. ASSUME CreatedReady
      PROVE  TaskQuiet
  BY <1>6, CreationMoves DEF TaskQuiet, CreatedReady, poolVars, taskVars,
     settleVars, schedVars, termVars, Moves, Avoids, HeldLabels, CallLabels
<1>7. ASSUME CreatedExpired
      PROVE  TaskQuiet
  BY <1>7, CreationMoves DEF TaskQuiet, CreatedExpired, poolVars, taskVars,
     settleVars, schedVars, termVars, Moves, Avoids, HeldLabels, CallLabels
<1>8. ASSUME CreatedTooLate
      PROVE  TaskQuiet
  BY <1>8, CreationMoves DEF TaskQuiet, CreatedTooLate, data, poolVars,
     taskVars, settleVars, workerVars, schedVars, termVars, Moves, Avoids,
     HeldLabels, CallLabels
<1>9. ASSUME Finally
      PROVE  TaskQuiet
  BY <1>9, CreationMoves DEF TaskQuiet, Finally, poolVars, taskVars,
     settleVars, workerVars, termVars, Moves, Avoids, HeldLabels, CallLabels
<1>10. ASSUME GotNothing
      PROVE  TaskQuiet
  BY <1>10, CreationMoves DEF TaskQuiet, GotNothing, data, poolVars, taskVars,
     settleVars, workerVars, schedVars, termVars, Moves, Avoids, HeldLabels,
     CallLabels
<1> QED  BY <1>1, <1>2, <1>3, <1>4, <1>5, <1>6, <1>7, <1>8, <1>9, <1>10

(* The quiet steps around the calls: those that fail a whole worker.         *)
LEMMA CallsQuiet ==
  ASSUME TypeOK
  PROVE  /\ CompleteIgnored => TaskQuiet
         /\ Completed => TaskQuiet
         /\ \A t \in Tasks : TaskTimer(t) => TaskQuiet
         /\ \A w \in Workers : WorkerError(w) => TaskQuiet
         /\ FailureStarts => TaskQuiet
         /\ FailureEnds => TaskQuiet
<1>1. ASSUME CompleteIgnored
      PROVE  TaskQuiet
  BY <1>1, CallsMoves DEF TaskQuiet, CompleteIgnored, data, poolVars,
     taskVars, settleVars, workerVars, schedVars, termVars, Moves, Avoids,
     HeldLabels, CallLabels
<1>2. ASSUME Completed
      PROVE  TaskQuiet
  BY <1>2, CallsMoves DEF TaskQuiet, Completed, poolVars, taskVars,
     settleVars, schedVars, termVars, Moves, Avoids, HeldLabels, CallLabels
<1>3. ASSUME NEW t \in Tasks, TaskTimer(t)
      PROVE  TaskQuiet
  BY <1>3, CallsMoves DEF TaskQuiet, TaskTimer, data, poolVars, taskVars,
     settleVars, workerVars, schedVars, termVars, Moves, Avoids, HeldLabels,
     CallLabels
<1>4. ASSUME NEW w \in Workers, WorkerError(w)
      PROVE  TaskQuiet
  BY <1>4, CallsMoves DEF TaskQuiet, WorkerError, data, poolVars, taskVars,
     settleVars, workerVars, schedVars, termVars, Moves, Avoids, HeldLabels,
     CallLabels
<1>5. ASSUME FailureStarts
      PROVE  TaskQuiet
  BY <1>5, CallsMoves DEF TaskQuiet, FailureStarts, poolVars, taskVars,
     settleVars, schedVars, termVars, Moves, Avoids, HeldLabels, CallLabels
<1>6. ASSUME FailureEnds
      PROVE  TaskQuiet
  BY <1>6, CallsMoves DEF TaskQuiet, FailureEnds, data, poolVars, taskVars,
     settleVars, workerVars, schedVars, termVars, Moves, Avoids, HeldLabels,
     CallLabels
<1> QED  BY <1>1, <1>2, <1>3, <1>4, <1>5, <1>6

(* Removing and terminating workers touches no task.                         *)
LEMMA TerminationQuiet ==
  ASSUME TypeOK
  PROVE  /\ RemoveWorker => TaskQuiet
         /\ RemoveSkipped => TaskQuiet
         /\ Attempt => TaskQuiet
         /\ TerminatorReturns => TaskQuiet
         /\ TerminatorThrows => TaskQuiet
         /\ TerminatorPromises => TaskQuiet
         /\ \A w \in Workers : PromiseConfirms(w) => TaskQuiet
         /\ \A w \in Workers : PromiseConfirmsPastDeadline(w) => TaskQuiet
         /\ ConfirmedPastDeadline => TaskQuiet
         /\ \A w \in Workers : PromiseRejects(w) => TaskQuiet
         /\ \A w \in Workers : AttemptTimer(w) => TaskQuiet
         /\ \A w \in Workers : LateConfirm(w) => TaskQuiet
         /\ \A w \in Workers : RetryTimer(w) => TaskQuiet
         /\ \A w \in Workers : LifetimeTimer(w) => TaskQuiet
         /\ \A w \in Workers : IdleTimer(w) => TaskQuiet
<1>1. ASSUME RemoveWorker
      PROVE  TaskQuiet
  BY <1>1, TerminationMoves DEF TaskQuiet, RemoveWorker, poolVars, taskVars,
     settleVars, schedVars, Moves, Avoids, HeldLabels, CallLabels
<1>2. ASSUME RemoveSkipped
      PROVE  TaskQuiet
  BY <1>2, TerminationMoves DEF TaskQuiet, RemoveSkipped, data, poolVars,
     taskVars, settleVars, workerVars, schedVars, termVars, Moves, Avoids,
     HeldLabels, CallLabels
<1>3. ASSUME Attempt
      PROVE  TaskQuiet
  BY <1>3, TerminationMoves DEF TaskQuiet, Attempt, poolVars, taskVars,
     settleVars, workerVars, schedVars, Moves, Avoids, HeldLabels, CallLabels
<1>4. ASSUME TerminatorReturns
      PROVE  TaskQuiet
  BY <1>4, TerminationMoves DEF TaskQuiet, TerminatorReturns, poolVars,
     taskVars, settleVars, workerVars, schedVars, Moves, Avoids, HeldLabels,
     CallLabels
<1>5. ASSUME TerminatorThrows
      PROVE  TaskQuiet
  BY <1>5, TerminationMoves DEF TaskQuiet, TerminatorThrows, poolVars,
     taskVars, settleVars, workerVars, schedVars, Moves, Avoids, HeldLabels,
     CallLabels
<1>6. ASSUME TerminatorPromises
      PROVE  TaskQuiet
  BY <1>6, TerminationMoves DEF TaskQuiet, TerminatorPromises, poolVars,
     taskVars, settleVars, workerVars, schedVars, Moves, Avoids, HeldLabels,
     CallLabels
<1>7. ASSUME NEW w \in Workers, PromiseConfirms(w)
      PROVE  TaskQuiet
  BY <1>7, TerminationMoves DEF TaskQuiet, PromiseConfirms, poolVars,
     taskVars, settleVars, workerVars, schedVars, Moves, Avoids, HeldLabels,
     CallLabels
<1>8. ASSUME NEW w \in Workers, PromiseConfirmsPastDeadline(w)
      PROVE  TaskQuiet
  BY <1>8, TerminationMoves DEF TaskQuiet, PromiseConfirmsPastDeadline,
     poolVars, taskVars, settleVars, workerVars, schedVars, Moves, Avoids,
     HeldLabels, CallLabels
<1>9. ASSUME ConfirmedPastDeadline
      PROVE  TaskQuiet
  BY <1>9, TerminationMoves DEF TaskQuiet, ConfirmedPastDeadline, poolVars,
     taskVars, settleVars, workerVars, schedVars, Moves, Avoids, HeldLabels,
     CallLabels
<1>10. ASSUME NEW w \in Workers, PromiseRejects(w)
      PROVE  TaskQuiet
  BY <1>10, TerminationMoves DEF TaskQuiet, PromiseRejects, poolVars,
     taskVars, settleVars, workerVars, schedVars, Moves, Avoids, HeldLabels,
     CallLabels
<1>11. ASSUME NEW w \in Workers, AttemptTimer(w)
      PROVE  TaskQuiet
  BY <1>11, TerminationMoves DEF TaskQuiet, AttemptTimer, poolVars, taskVars,
     settleVars, workerVars, schedVars, Moves, Avoids, HeldLabels, CallLabels
<1>12. ASSUME NEW w \in Workers, LateConfirm(w)
      PROVE  TaskQuiet
  BY <1>12, TerminationMoves DEF TaskQuiet, LateConfirm, poolVars, taskVars,
     settleVars, workerVars, schedVars, Moves, Avoids, HeldLabels, CallLabels
<1>13. ASSUME NEW w \in Workers, RetryTimer(w)
      PROVE  TaskQuiet
  BY <1>13, TerminationMoves DEF TaskQuiet, RetryTimer, poolVars, taskVars,
     settleVars, workerVars, schedVars, Moves, Avoids, HeldLabels, CallLabels
<1>14. ASSUME NEW w \in Workers, LifetimeTimer(w)
      PROVE  TaskQuiet
  BY <1>14, TerminationMoves DEF TaskQuiet, LifetimeTimer, poolVars, taskVars,
     settleVars, schedVars, termVars, Moves, Avoids, HeldLabels, CallLabels
<1>15. ASSUME NEW w \in Workers, IdleTimer(w)
      PROVE  TaskQuiet
  BY <1>15, TerminationMoves DEF TaskQuiet, IdleTimer, data, poolVars,
     taskVars, settleVars, workerVars, schedVars, termVars, Moves, Avoids,
     HeldLabels, CallLabels
<1> QED  BY <1>1, <1>2, <1>3, <1>4, <1>5, <1>6, <1>7, <1>8, <1>9, <1>10,
     <1>11, <1>12, <1>13, <1>14, <1>15

(* The quiet steps of the shutdown.                                          *)
LEMMA ShutdownQuiet ==
  ASSUME TypeOK
  PROVE  /\ Close => TaskQuiet
         /\ Drained => TaskQuiet
         /\ TerminateWorkers => TaskQuiet
         /\ TerminateWorker => TaskQuiet
         /\ StatsFinishDrain => TaskQuiet
         /\ UpdateStats => TaskQuiet
         /\ Return => TaskQuiet
<1>1. ASSUME Close
      PROVE  TaskQuiet
  BY <1>1, ShutdownMoves DEF TaskQuiet, Close, taskVars, settleVars,
     workerVars, schedVars, termVars, Moves, Avoids, HeldLabels, CallLabels
<1>2. ASSUME Drained
      PROVE  TaskQuiet
  BY <1>2, ShutdownMoves DEF TaskQuiet, Drained, data, poolVars, taskVars,
     settleVars, workerVars, schedVars, termVars, Moves, Avoids, HeldLabels,
     CallLabels
<1>3. ASSUME TerminateWorkers
      PROVE  TaskQuiet
  BY <1>3, ShutdownMoves DEF TaskQuiet, TerminateWorkers, data, poolVars,
     taskVars, settleVars, workerVars, schedVars, termVars, Moves, Avoids,
     HeldLabels, CallLabels
<1>4. ASSUME TerminateWorker
      PROVE  TaskQuiet
  BY <1>4, ShutdownMoves DEF TaskQuiet, TerminateWorker, data, poolVars,
     taskVars, settleVars, workerVars, schedVars, termVars, Moves, Avoids,
     HeldLabels, CallLabels
<1>5. ASSUME StatsFinishDrain
      PROVE  TaskQuiet
  BY <1>5, ShutdownMoves DEF TaskQuiet, StatsFinishDrain, data, poolVars,
     taskVars, settleVars, workerVars, schedVars, termVars, Moves, Avoids,
     HeldLabels, CallLabels
<1>6. ASSUME UpdateStats
      PROVE  TaskQuiet
  BY <1>6, ShutdownMoves DEF TaskQuiet, UpdateStats, taskVars, settleVars,
     workerVars, schedVars, termVars, Moves, Avoids, HeldLabels, CallLabels
<1>7. ASSUME Return
      PROVE  TaskQuiet
  BY <1>7, ShutdownMoves DEF TaskQuiet, Return, data, poolVars, taskVars,
     settleVars, workerVars, schedVars, termVars, Moves, Avoids, HeldLabels,
     CallLabels
<1> QED  BY <1>1, <1>2, <1>3, <1>4, <1>5, <1>6, <1>7

-----------------------------------------------------------------------------
(* The queue as a set without repetitions, under each operation on it.       *)

(* No task is queued twice.                                                  *)
Distinct(q) == \A i, j \in 1..Len(q) : q[i] = q[j] => i = j

(* A queue without repetitions has as many tasks as it is long.              *)
LEMMA SoundCardinality ==
  ASSUME NEW q \in Seq(Tasks), Distinct(q)
  PROVE  Cardinality(Elems(q)) = Len(q)
<1> DEFINE I == 1..Len(q)
           f == [i \in I |-> q[i]]
<1>1. Len(q) \in Nat /\ IsFiniteSet(I) /\ Cardinality(I) = Len(q)
  <2>1. Len(q) \in Nat /\ Len(q) \in Int /\ 1 \in Int
    OBVIOUS
  <2> QED  BY <2>1, FS_Interval
<1>2. f \in Bijection(I, Elems(q))
  BY DEF Bijection, Injection, Surjection, IsInjective, Distinct, Elems
<1>3. ExistsBijection(I, Elems(q))
  BY <1>2 DEF ExistsBijection
<1> HIDE DEF I, f
<1> QED  BY <1>1, <1>3, FS_Bijection

(* Inserting a task that is not queued.                                      *)
LEMMA AppendSound ==
  ASSUME NEW q \in Seq(Tasks), NEW t \in Tasks
  PROVE  /\ Elems(Append(q, t)) = Elems(q) \cup {t}
         /\ Distinct(q) /\ t \notin Elems(q) => Distinct(Append(q, t))
<1>1. /\ Len(q) \in Nat /\ Len(Append(q, t)) = Len(q) + 1
      /\ \A i \in 1..Len(q) : Append(q, t)[i] = q[i]
      /\ Append(q, t)[Len(q) + 1] = t
  OBVIOUS
<1>2. \A i \in 1..(Len(q) + 1) : i \in 1..Len(q) \/ i = Len(q) + 1
  BY <1>1
<1>3. 1..Len(q) \subseteq 1..(Len(q) + 1) /\ Len(q) + 1 \in 1..(Len(q) + 1)
  BY <1>1
<1> DEFINE r == Append(q, t)
<1> HIDE DEF r
<1>4. Elems(r) = Elems(q) \cup {t}
  BY <1>1, <1>2, <1>3 DEF Elems, r
<1>5. Distinct(q) /\ t \notin Elems(q) => Distinct(r)
  BY <1>1, <1>2, <1>3 DEF Elems, Distinct, r
<1> QED  BY <1>4, <1>5 DEF r

(* The first task of a sequence, and the others.                             *)
LEMMA TailElems ==
  ASSUME NEW q \in Seq(Tasks), q # <<>>
  PROVE  /\ Head(q) \in Elems(q) /\ Head(q) \in Tasks
         /\ Tail(q) \in Seq(Tasks)
         /\ Elems(Tail(q)) \subseteq Elems(q)
         /\ Elems(q) \subseteq Elems(Tail(q)) \cup {Head(q)}
<1>1. /\ Len(q) \in Nat \ {0} /\ Len(Tail(q)) = Len(q) - 1
      /\ Head(q) = q[1] /\ q[1] \in Tasks /\ Tail(q) \in Seq(Tasks)
      /\ \A i \in 1..(Len(q) - 1) : Tail(q)[i] = q[i + 1]
  BY HeadTailProperties
<1>2. /\ 1 \in 1..Len(q)
      /\ \A i \in 1..(Len(q) - 1) : i + 1 \in 1..Len(q)
      /\ \A i \in 1..Len(q) : i = 1 \/ i - 1 \in 1..(Len(q) - 1)
      /\ \A i \in 1..Len(q) : i = (i - 1) + 1
  BY <1>1
<1>3. Elems(q) \subseteq Elems(Tail(q)) \cup {q[1]}
  <2> SUFFICES ASSUME NEW i \in 1..Len(q), i - 1 \in 1..(Len(q) - 1)
               PROVE  q[i] \in Elems(Tail(q))
    BY <1>1, <1>2 DEF Elems
  <2>1. Tail(q)[i - 1] = q[i]
    BY <1>1
  <2> QED  BY <1>1, <2>1 DEF Elems
<1>4. Head(q) \in Elems(q)
  BY <1>1, <1>2 DEF Elems
<1>5. Elems(Tail(q)) \subseteq Elems(q)
  <2> SUFFICES ASSUME NEW i \in 1..(Len(q) - 1)
               PROVE  Tail(q)[i] \in Elems(q)
    BY <1>1 DEF Elems
  <2>1. i + 1 \in 1..Len(q) /\ Tail(q)[i] = q[i + 1]
    BY <1>1, <1>2
  <2> QED  BY <2>1 DEF Elems
<1> QED  BY <1>1, <1>3, <1>4, <1>5

(* A sequence of one task.                                                   *)
LEMMA OneElem ==
  ASSUME NEW t
  PROVE  Len(<<t>>) = 1 /\ <<t>>[1] = t /\ Elems(<<t>>) = {t}
BY DEF Elems

(* The empty queue.                                                          *)
LEMMA NoElems == Elems(<<>>) = {} /\ Distinct(<<>>)
BY DEF Elems, Distinct

(* A segment of the queue has the tasks between its bounds.                  *)
LEMMA SubSeqSound ==
  ASSUME NEW q \in Seq(Tasks), NEW a \in Int, NEW b \in Int,
         a >= 1, b <= Len(q)
  PROVE  /\ Elems(SubSeq(q, a, b)) = {q[i] : i \in a..b}
         /\ Distinct(q) => Distinct(SubSeq(q, a, b))
<1>1. Len(q) \in Nat /\ \A j \in 1..Len(q) : q[j] \in Tasks
  BY ElementOfSeq
<1> DEFINE s == SubSeq(q, a, b)
<1>2. /\ Len(s) = IF a <= b THEN b - a + 1 ELSE 0
      /\ \A i \in 1..(b - a + 1) : s[i] = q[a + i - 1]
  BY <1>1, SubSeqProperties
<1> HIDE DEF s
<1>3. /\ \A i \in 1..Len(s) : /\ a + i - 1 \in a..b /\ s[i] = q[a + i - 1]
                              /\ a + i - 1 \in 1..Len(q)
      /\ \A i, j \in 1..Len(s) : a + i - 1 = a + j - 1 => i = j
  BY <1>1, <1>2
<1>4. \A k \in a..b : /\ k - a + 1 \in 1..Len(s) /\ a + (k - a + 1) - 1 = k
                      /\ s[k - a + 1] = q[k]
  <2> TAKE k \in a..b
  <2>1. /\ k - a + 1 \in 1..Len(s) /\ k - a + 1 \in 1..(b - a + 1)
        /\ a + (k - a + 1) - 1 = k
    BY <1>1, <1>2
  <2> DEFINE m == k - a + 1
  <2>2. m \in 1..(b - a + 1) /\ a + m - 1 = k
    BY <2>1
  <2> HIDE DEF m
  <2>3. s[m] = q[a + m - 1]
    BY <1>2, <2>2
  <2> QED  BY <2>1, <2>2, <2>3 DEF m
<1>5. Elems(s) = {q[i] : i \in a..b}
  <2>1. Elems(s) \subseteq {q[i] : i \in a..b}
    BY <1>3 DEF Elems
  <2>2. {q[i] : i \in a..b} \subseteq Elems(s)
    BY ZenonT(40), <1>4 DEF Elems
  <2> QED  BY <2>1, <2>2
<1>6. Distinct(q) => Distinct(s)
  BY <1>3 DEF Distinct
<1> QED  BY <1>5, <1>6 DEF s

(* Two disjoint parts put together.                                          *)
LEMMA ConcatSound ==
  ASSUME NEW p \in Seq(Tasks), NEW q \in Seq(Tasks)
  PROVE  /\ Elems(p \o q) = Elems(p) \cup Elems(q)
         /\ Distinct(p) /\ Distinct(q) /\ Elems(p) \cap Elems(q) = {} =>
              Distinct(p \o q)
<1> DEFINE r == p \o q
<1>1. /\ Len(p) \in Nat /\ Len(q) \in Nat /\ Len(r) = Len(p) + Len(q)
      /\ \A i \in 1..Len(p) : r[i] = p[i]
      /\ \A i \in 1..Len(q) : r[Len(p) + i] = q[i]
  BY ConcatSplit
<1> HIDE DEF r
<1>2. /\ \A i \in 1..Len(p) : i \in 1..Len(r)
      /\ \A i \in 1..Len(q) : Len(p) + i \in 1..Len(r)
  BY <1>1
<1>3. \A i \in 1..Len(r) :
        i \in 1..Len(p) \/ \E j \in 1..Len(q) : i = Len(p) + j
  <2> TAKE i \in 1..Len(r)
  <2>1. \/ i \in 1..Len(p)
        \/ i - Len(p) \in 1..Len(q) /\ i = Len(p) + (i - Len(p))
    BY <1>1
  <2> QED  BY <2>1
<1>4. Elems(r) = Elems(p) \cup Elems(q)
  <2>1. ASSUME NEW i \in 1..Len(r)
        PROVE  r[i] \in Elems(p) \cup Elems(q)
    <3>1. CASE i \in 1..Len(p)
      BY <1>1, <3>1 DEF Elems
    <3>2. ASSUME NEW j \in 1..Len(q), i = Len(p) + j
          PROVE  r[i] \in Elems(q)
      BY <1>1, <3>2 DEF Elems
    <3> QED  BY <1>3, <3>1, <3>2
  <2>2. Elems(p) \cup Elems(q) \subseteq Elems(r)
    BY <1>1, <1>2 DEF Elems
  <2>3. Elems(r) \subseteq Elems(p) \cup Elems(q)
    BY <2>1 DEF Elems
  <2> QED  BY <2>2, <2>3
<1>5. ASSUME Distinct(p), Distinct(q), Elems(p) \cap Elems(q) = {}
      PROVE  Distinct(r)
  <2> SUFFICES ASSUME NEW i \in 1..Len(r), NEW j \in 1..Len(r), r[i] = r[j]
               PROVE  i = j
    BY DEF Distinct
  <2>1. CASE i \in 1..Len(p) /\ j \in 1..Len(p)
    BY <1>1, <1>5, <2>1 DEF Distinct
  <2>2. CASE i \in 1..Len(p) /\ \E k \in 1..Len(q) : j = Len(p) + k
    BY ZenonT(40), <1>1, <1>5, <2>2 DEF Elems
  <2>3. CASE j \in 1..Len(p) /\ \E k \in 1..Len(q) : i = Len(p) + k
    BY ZenonT(40), <1>1, <1>5, <2>3 DEF Elems
  <2>4. ASSUME NEW k \in 1..Len(q), NEW m \in 1..Len(q),
               i = Len(p) + k, j = Len(p) + m
        PROVE  i = j
    <3>1. q[k] = q[m]
      BY <1>1, <2>4
    <3> QED  BY <1>5, <2>4, <3>1 DEF Distinct
  <2> QED  BY <1>3, <2>1, <2>2, <2>3, <2>4
<1> QED  BY <1>4, <1>5 DEF r

(* Removing a task (removeQueuedTask) leaves the others, each once.          *)
LEMMA WithoutSound ==
  ASSUME NEW q \in Seq(Tasks), NEW t \in Tasks, Distinct(q)
  PROVE  /\ Elems(Without(q, t)) = Elems(q) \ {t}
         /\ Distinct(Without(q, t))
<1>1. CASE t \notin Elems(q)
  BY <1>1 DEF Without
<1>2. CASE t \in Elems(q)
  <2> DEFINE i == IndexOf(q, t)
             a == SubSeq(q, 1, i - 1)
             b == SubSeq(q, i + 1, Len(q))
  <2>1. i \in 1..Len(q) /\ Len(q) \in Nat /\ q[i] = t
    BY <1>2 DEF Elems, IndexOf
  <2> HIDE DEF i
  <2>2. /\ a \in Seq(Tasks) /\ b \in Seq(Tasks)
        /\ Elems(a) = {q[k] : k \in 1..(i - 1)} /\ Distinct(a)
        /\ Elems(b) = {q[k] : k \in (i + 1)..Len(q)} /\ Distinct(b)
    BY <2>1, SubSeqType, SubSeqSound
  <2> HIDE DEF a, b
  <2>3. /\ \A k \in 1..(i - 1) : k \in 1..Len(q) /\ k # i
        /\ \A k \in (i + 1)..Len(q) : k \in 1..Len(q) /\ k # i
        /\ \A k \in 1..Len(q) :
             k = i \/ k \in 1..(i - 1) \/ k \in (i + 1)..Len(q)
        /\ \A k \in 1..(i - 1), m \in (i + 1)..Len(q) : k # m
    BY <2>1
  <2>4. Elems(a) \cap Elems(b) = {}
    BY <2>2, <2>3 DEF Distinct
  <2>5. Elems(a) \cup Elems(b) = Elems(q) \ {t}
    <3>1. \A k \in 1..Len(q) : k # i => q[k] # t
      BY <2>1 DEF Distinct
    <3>2. Elems(a) \cup Elems(b) \subseteq Elems(q) \ {t}
      BY <2>2, <2>3, <3>1 DEF Elems
    <3>3. Elems(q) \ {t} \subseteq Elems(a) \cup Elems(b)
      BY <2>1, <2>2, <2>3 DEF Elems
    <3> QED  BY <3>2, <3>3
  <2>6. Without(q, t) = a \o b
    BY <1>2 DEF Without, a, b, i
  <2> QED  BY <2>2, <2>4, <2>5, <2>6, ConcatSound
<1> QED  BY <1>1, <1>2

(* Cutting the queue in two.                                                 *)
LEMMA CutSound ==
  ASSUME NEW q \in Seq(Tasks), NEW n \in 0..Len(q), Distinct(q)
  PROVE  LET a == SubSeq(q, 1, n)
             b == SubSeq(q, n + 1, Len(q))
         IN /\ a \in Seq(Tasks) /\ b \in Seq(Tasks)
            /\ Elems(a) \cup Elems(b) = Elems(q)
            /\ Elems(a) \cap Elems(b) = {} /\ Distinct(a) /\ Distinct(b)
<1> DEFINE a == SubSeq(q, 1, n)
           b == SubSeq(q, n + 1, Len(q))
<1>1. Len(q) \in Nat
  OBVIOUS
<1>2. /\ a \in Seq(Tasks) /\ b \in Seq(Tasks)
      /\ Elems(a) = {q[k] : k \in 1..n} /\ Distinct(a)
      /\ Elems(b) = {q[k] : k \in (n + 1)..Len(q)} /\ Distinct(b)
  BY <1>1, SubSeqType, SubSeqSound
<1> HIDE DEF a, b
<1>3. /\ \A k \in 1..n : k \in 1..Len(q)
      /\ \A k \in (n + 1)..Len(q) : k \in 1..Len(q)
      /\ \A k \in 1..Len(q) : k \in 1..n \/ k \in (n + 1)..Len(q)
      /\ \A k \in 1..n, m \in (n + 1)..Len(q) : k # m
  BY <1>1
<1>4. Elems(a) \cap Elems(b) = {}
  BY <1>2, <1>3 DEF Distinct
<1>5. Elems(a) \cup Elems(b) = Elems(q)
  BY <1>2, <1>3 DEF Elems
<1> QED  BY <1>2, <1>4, <1>5 DEF a, b

(* The queue limit splits the queue: each task is either kept or evicted,    *)
(* and none is both.                                                         *)
LEMMA LimitSound ==
  ASSUME NEW q \in Seq(Tasks), NEW t \in Tasks, Distinct(q)
  PROVE  LET kept == Kept(q, t, MaxQueueSize, OverflowPolicy)
             evicted == Evicted(q, t, MaxQueueSize, OverflowPolicy)
         IN /\ Distinct(kept)
            /\ Elems(kept) \cup Elems(evicted) = Elems(q)
            /\ Elems(kept) \cap Elems(evicted) = {}
<1> DEFINE kept == Kept(q, t, MaxQueueSize, OverflowPolicy)
           evicted == Evicted(q, t, MaxQueueSize, OverflowPolicy)
           excess == Len(q) - MaxQueueSize
           rest == Without(q, t)
           newest == OverflowPolicy = "reject" /\ t \in Elems(q)
<1>1. MaxQueueSize \in Nat /\ Len(q) \in Nat /\ excess \in Int
  BY PoolAssumption
<1>2. CASE Len(q) <= MaxQueueSize
  <2>1. kept = q /\ evicted = <<>>
    BY <1>1, <1>2 DEF Kept, Evicted
  <2> HIDE DEF kept, evicted
  <2> QED  BY <2>1, NoElems DEF kept, evicted
<1>3. CASE Len(q) > MaxQueueSize /\ newest
  <2>1. ~(Len(q) <= MaxQueueSize)
    BY <1>1, <1>3
  <2>2. /\ kept = SubSeq(rest, excess, Len(q) - 1)
        /\ evicted = <<t>> \o SubSeq(rest, 1, excess - 1)
    BY <1>3, <2>1 DEF Kept, Evicted
  <2>3. /\ rest \in Seq(Tasks) /\ Len(rest) = Len(q) - 1
        /\ Distinct(rest) /\ Elems(rest) = Elems(q) \ {t}
    BY <1>3, WithoutType, WithoutLength, WithoutSound
  <2> HIDE DEF kept, evicted, rest
  <2> DEFINE n == excess - 1
             a == SubSeq(rest, 1, n)
             b == SubSeq(rest, n + 1, Len(rest))
  <2>4. n \in 0..Len(rest) /\ n + 1 = excess
    BY <1>1, <1>3, <2>3
  <2>5. kept = b /\ evicted = <<t>> \o a
    BY <2>2, <2>3, <2>4
  <2> HIDE DEF n, excess
  <2>6. /\ a \in Seq(Tasks) /\ b \in Seq(Tasks)
        /\ Elems(a) \cup Elems(b) = Elems(rest)
        /\ Elems(a) \cap Elems(b) = {} /\ Distinct(a) /\ Distinct(b)
    BY <2>3, <2>4, CutSound
  <2> HIDE DEF a, b
  <2>7. Elems(<<t>> \o a) = {t} \cup Elems(a)
    <3>1. <<t>> \in Seq(Tasks)
      OBVIOUS
    <3> QED  BY <2>6, <3>1, ConcatSound, OneElem
  <2> QED  BY <1>3, <2>3, <2>5, <2>6, <2>7 DEF kept, evicted
<1>4. CASE Len(q) > MaxQueueSize /\ ~newest
  <2>1. ~(Len(q) <= MaxQueueSize)
    BY <1>1, <1>4
  <2>2. /\ kept = SubSeq(q, excess + 1, Len(q))
        /\ evicted = SubSeq(q, 1, excess)
    BY <1>4, <2>1 DEF Kept, Evicted
  <2> HIDE DEF kept, evicted
  <2>3. excess \in 0..Len(q)
    BY <1>1, <1>4
  <2> HIDE DEF excess
  <2> QED  BY <2>2, <2>3, CutSound DEF kept, evicted
<1>5. Len(q) <= MaxQueueSize \/ Len(q) > MaxQueueSize
  BY <1>1
<1> QED  BY <1>2, <1>3, <1>4, <1>5

-----------------------------------------------------------------------------
(* The invariant of the tasks.                                               *)

(* The fields of the frames that the steps build.                            *)
LEMMA FieldsOf ==
  ASSUME NEW l, NEW w, NEW t, NEW ts, NEW why, NEW cb
  PROVE  /\ At(l).w = NoWorker /\ At(l).ts = <<>> /\ At(l).why = "none"
         /\ At(l).cb = "none"
         /\ On(l, w).w = w /\ On(l, w).ts = <<>> /\ On(l, w).why = "none"
         /\ On(l, w).cb = "none"
         /\ For(l, t).ts = <<t>> /\ For(l, t).why = "none"
         /\ For(l, t).cb = "none"
         /\ SettleEach(ts, why).ts = ts /\ SettleEach(ts, why).why = why
         /\ Complete(t, why).ts = <<t>> /\ Complete(t, why).why = why
         /\ Fail(w, ts).w = w /\ Fail(w, ts).ts = ts /\ Fail(w, ts).cb = "none"
         /\ Remove(w, why).w = w /\ Remove(w, why).why = why
         /\ Remove(w, why).cb = "none"
         /\ Yield(cb, On(l, w)).w = w
         /\ Yield(cb, For(l, t)).ts = <<t>> /\ Yield(cb, For(l, t)).cb = cb
         /\ Yield(cb, SettleEach(ts, why)).ts = ts
         /\ Yield(cb, SettleEach(ts, why)).why = why
BY DEF At, On, For, SettleEach, Complete, Fail, Remove, Yield

(* A task exists once run() has counted it, and only then has a phase.       *)
Births ==
  \A t \in Tasks : /\ outcome[t] = "unborn" <=> t > submittedTasks
                   /\ phase[t] # "none" => t <= submittedTasks
(* A queued task is queued once, is unsettled and was never dispatched.      *)
QueuedOnce ==
  /\ Distinct(queue)
  /\ \A t \in Elems(queue) : Pending(t) /\ phase[t] = "none"
(* A task in the slot of a worker was dispatched, has at most been aborted   *)
(* by its caller, and is in the slot of no other worker.                     *)
Slots ==
  \A w \in Workers : \A t \in activeTasks[w] :
    /\ phase[t] # "none" /\ outcome[t] \in {"pending", "aborted"}
    /\ \A v \in Workers : t \in activeTasks[v] => v = w
(* What holds of the tasks wherever the code is.                             *)
TaskData == Births /\ QueuedOnce /\ Slots

(* Tasks that a frame holds were submitted, are not queued, and were never   *)
(* dispatched: the settling loops reject no task that runs.                  *)
HeldSound ==
  \A i \in 1..Len(stack) : stack[i].at \in HeldLabels =>
    \A t \in Elems(stack[i].ts) :
      phase[t] = "none" /\ outcome[t] # "unborn" /\ t \notin Elems(queue)
(* run() holds a single task before it inserts it, and no other frame holds  *)
(* that task: it is not inserted twice.                                      *)
InsertAlone ==
  \A i \in 1..Len(stack) : stack[i].at = "insert" =>
    /\ Len(stack[i].ts) = 1
    /\ \A j \in 1..Len(stack) :
         stack[j].at \in HeldLabels /\ stack[i].ts[1] \in Elems(stack[j].ts) =>
           j = i
(* A settling loop rejects tasks of the queue; it says that the pool is      *)
(* closed only when it is.                                                   *)
Reasons ==
  \A i \in 1..Len(stack) : stack[i].at = "settle" =>
    /\ stack[i].why \in {"rejected", "dropped", "queue-rejected",
                         "pool-closed"}
    /\ stack[i].why = "pool-closed" => terminationStarted
(* The call of a method is the bottom frame, and the phase of its task is    *)
(* the one its frame stands for: a callback on top of it cannot call it      *)
(* again.                                                                    *)
CallsFirst ==
  \A i \in 1..Len(stack) : stack[i].at \in CallLabels =>
    /\ i = 1
    /\ stack[i].at = "lookup" => phase[stack[i].ts[1]] = "scheduled"
    /\ stack[i].at = "applied" => phase[stack[i].ts[1]] = "invoked"
    /\ stack[i].at = "complete" =>
         /\ phase[stack[i].ts[1]] = "done"
         /\ stack[i].why \in {"fulfilled", "rejected"}
(* A closed pool accepts nothing, and a drain is not a shutdown.             *)
Doors ==
  /\ accepting => ~terminationStarted
  /\ drainRequested => ~accepting /\ ~terminationStarted

(* The inductive invariant of the tasks.                                     *)
TaskInv ==
  TaskData /\ HeldSound /\ InsertAlone /\ Reasons /\ CallsFirst /\ Doors

(* What most steps do to the tasks in the hands of the running code.         *)
FramesQuiet ==
  /\ Avoids(HeldLabels \cup CallLabels)
  /\ phase' = phase /\ terminationStarted' = terminationStarted
  /\ \A t \in Tasks : outcome[t] # "unborn" => outcome'[t] # "unborn"
  /\ Elems(queue') \subseteq Elems(queue)

(* The tasks that a frame names are tasks.                                   *)
LEMMA FrameTasks ==
  ASSUME TypeOK, NEW i \in 1..Len(stack)
  PROVE  /\ stack[i] \in Frames /\ Elems(stack[i].ts) \subseteq Tasks
         /\ stack[i].at \in TaskLabels => stack[i].ts[1] \in Elems(stack[i].ts)
<1>1. stack[i] \in Frames
  BY ElementOfSeq DEF TypeOK
<1>2. stack[i].ts \in Seq(Tasks)
  BY <1>1 DEF Frames
<1>3. Elems(stack[i].ts) \subseteq Tasks
  BY <1>2, ElementOfSeq DEF Elems
<1>4. ASSUME stack[i].at \in TaskLabels
      PROVE  1 \in 1..Len(stack[i].ts)
  <2>1. stack[i].ts # <<>>
    BY <1>1, <1>4 DEF Frames
  <2> QED  BY <1>2, <2>1
<1> QED  BY <1>1, <1>3, <1>4 DEF Elems

(* A step that is quiet about the frames keeps the parts about them.         *)
LEMMA QuietFrames ==
  ASSUME TypeOK, HeldSound, InsertAlone, Reasons, CallsFirst, FramesQuiet
  PROVE  HeldSound' /\ InsertAlone' /\ Reasons' /\ CallsFirst'
<1>1. \A i \in 1..Len(stack') : stack'[i].at \in HeldLabels \cup CallLabels =>
         i \in 1..Len(stack) /\ stack'[i] = stack[i]
  BY DEF FramesQuiet, Avoids
<1>2. HeldSound'
  BY <1>1, FrameTasks DEF HeldSound, FramesQuiet
<1>3. InsertAlone'
  BY <1>1 DEF InsertAlone, HeldLabels
<1>4. Reasons'
  BY <1>1 DEF Reasons, FramesQuiet, HeldLabels
<1>5. CallsFirst'
  BY <1>1 DEF CallsFirst, FramesQuiet
<1> QED  BY <1>2, <1>3, <1>4, <1>5

(* A quiet step keeps the invariant.                                         *)
LEMMA QuietTask ==
  ASSUME TypeOK, TaskInv, TaskQuiet
  PROVE  TaskInv'
<1>1. FramesQuiet
  BY DEF TaskQuiet, FramesQuiet
<1>2. TaskData'
  BY DEF TaskQuiet, TaskInv, TaskData, Births, QueuedOnce, Slots, Pending
<1>3. Doors'
  BY DEF TaskQuiet, TaskInv, Doors
<1> QED  BY <1>1, <1>2, <1>3, QuietFrames DEF TaskInv

(* Settling one task that leaves the queue.                                  *)
LEMMA SettleData ==
  ASSUME TypeOK, TaskData, NEW t \in Tasks, NEW why \in Settlements,
         Settle(t, why), outcome[t] # "unborn",
         UNCHANGED <<submittedTasks, phase>>,
         Distinct(queue'), Elems(queue') \subseteq Elems(queue) \ {t},
         Elems(queue) \subseteq Tasks,
         \A w \in Workers : /\ activeTasks'[w] \subseteq activeTasks[w]
                            /\ t \in activeTasks'[w] => why = "aborted"
  PROVE  /\ TaskData'
         /\ \A u \in Tasks : outcome[u] # "unborn" => outcome'[u] # "unborn"
<1>1. /\ outcome'[t] \in {outcome[t], why}
      /\ \A u \in Tasks \ {t} : outcome'[u] = outcome[u]
  BY DEF Settle, TypeOK
<1>2. why # "unborn"
  BY DEF Settlements
<1>3. Births'
  BY <1>1, <1>2 DEF TaskData, Births
<1>4. QueuedOnce'
  BY <1>1 DEF TaskData, QueuedOnce, Pending
<1>5. Slots'
  <2> SUFFICES ASSUME NEW w \in Workers, NEW u \in activeTasks'[w]
               PROVE  /\ phase[u] # "none"
                      /\ outcome'[u] \in {"pending", "aborted"}
                      /\ \A v \in Workers : u \in activeTasks'[v] => v = w
    BY DEF Slots
  <2>1. u \in activeTasks[w] /\ u \in Tasks
    BY DEF TypeOK
  <2>2. /\ phase[u] # "none" /\ outcome[u] \in {"pending", "aborted"}
        /\ \A v \in Workers : u \in activeTasks[v] => v = w
    BY <2>1 DEF TaskData, Slots
  <2>3. u = t => why = "aborted"
    OBVIOUS
  <2>4. outcome'[u] \in {"pending", "aborted"}
    BY <1>1, <2>1, <2>2, <2>3
  <2> QED  BY <2>2, <2>4
<1> QED  BY <1>1, <1>2, <1>3, <1>4, <1>5 DEF TaskData

(* The queue holds tasks.                                                    *)
LEMMA QueueTasks ==
  ASSUME TypeOK
  PROVE  Elems(queue) \subseteq Tasks
BY ElementOfSeq DEF TypeOK, Elems

-----------------------------------------------------------------------------
(* Steps that settle one task.                                               *)

(* The same for the whole invariant: one task is settled, is not queued      *)
(* afterwards, and keeps its slot only when its caller aborted it.           *)
LEMMA SettleTask ==
  ASSUME TypeOK, TaskInv, NEW t \in Tasks, NEW why \in Settlements,
         Settle(t, why), outcome[t] # "unborn",
         UNCHANGED <<submittedTasks, phase, accepting, drainRequested,
                     terminationStarted>>,
         Distinct(queue'), Elems(queue') \subseteq Elems(queue) \ {t},
         \A w \in Workers : /\ activeTasks'[w] \subseteq activeTasks[w]
                            /\ t \in activeTasks'[w] => why = "aborted",
         Avoids(HeldLabels \cup CallLabels)
  PROVE  TaskInv'
<1>1. /\ TaskData'
      /\ \A u \in Tasks : outcome[u] # "unborn" => outcome'[u] # "unborn"
  BY QueueTasks, SettleData DEF TaskInv
<1>2. FramesQuiet
  BY <1>1 DEF FramesQuiet
<1>3. Doors'
  BY DEF TaskInv, Doors
<1> QED  BY <1>1, <1>2, <1>3, QuietFrames DEF TaskInv

(* Settling a queued task that leaves the queue.                             *)
LEMMA SettleQueued ==
  ASSUME TypeOK, TaskInv, NEW t \in Tasks, NEW why \in Settlements,
         Settle(t, why), outcome[t] # "unborn",
         UNCHANGED <<submittedTasks, phase, activeTasks, accepting,
                     drainRequested, terminationStarted>>,
         queue' = Without(queue, t),
         t \in Elems(queue) \/ why = "aborted",
         Avoids(HeldLabels \cup CallLabels)
  PROVE  TaskInv'
<1>1. Distinct(queue') /\ Elems(queue') = Elems(queue) \ {t}
  BY WithoutSound DEF TypeOK, TaskInv, TaskData, QueuedOnce
<1>2. \A w \in Workers : t \in activeTasks[w] => why = "aborted"
  BY DEF TaskInv, TaskData, QueuedOnce, Slots
<1> QED  BY <1>1, <1>2, SettleTask

(* The handlers that settle one task: a throwing signal, a deadline that     *)
(* passed while the task was inserted or chosen, an abort, a queue timeout,  *)
(* a failed worker, terminateAll().                                          *)
LEMMA SettlersKeepTask ==
  ASSUME TypeOK, TaskInv
  PROVE  /\ SignalThrows => TaskInv'
         /\ ArmLate => TaskInv'
         /\ \A t \in Tasks : Abort(t) => TaskInv'
         /\ \A t \in Tasks : QueueTimer(t) => TaskInv'
         /\ GotExpired => TaskInv'
         /\ \A t \in Tasks : FailTask(t) => TaskInv'
         /\ \A t \in Tasks : TerminateTask(t) => TaskInv'
<1> USE DEF poolVars, taskVars, settleVars, workerVars, schedVars, termVars
<1>1. CASE SignalThrows
  <2> DEFINE t == Top.ts[1]
  <2>1. /\ t \in Tasks /\ stack # <<>> /\ Top.at = "insert"
        /\ Len(stack) \in 1..Len(stack) /\ Top = stack[Len(stack)]
    BY <1>1, RunningFrame, TopIsFrame DEF SignalThrows, TaskLabels
  <2>2. t \in Elems(Top.ts)
    BY <2>1, FrameTasks DEF TaskLabels
  <2>3. /\ phase[t] = "none" /\ outcome[t] # "unborn" /\ t \notin Elems(queue)
        /\ Distinct(queue)
    BY <2>1, <2>2 DEF TaskInv, HeldSound, HeldLabels, TaskData, QueuedOnce
  <2>4. \A w \in Workers : t \notin activeTasks[w]
    BY <2>3 DEF TaskInv, TaskData, Slots
  <2>5. Avoids(HeldLabels \cup CallLabels)
    BY <1>1, SubmissionMoves DEF Moves, Avoids, HeldLabels, CallLabels
  <2>6. Settle(t, "rejected") /\ "rejected" \in Settlements
    BY <1>1 DEF SignalThrows, Settlements
  <2> HIDE DEF t
  <2> QED  BY <1>1, <2>1, <2>3, <2>4, <2>5, <2>6, SettleTask DEF SignalThrows
<1>2. CASE ArmLate
  <2> DEFINE t == Top.ts[1]
  <2>1. /\ t \in Tasks /\ t \in Elems(queue) /\ queue' = Without(queue, t)
        /\ Settle(t, "queue-timeout") /\ "queue-timeout" \in Settlements
    BY <1>2, RunningFrame DEF ArmLate, TaskLabels, Settlements
  <2>2. Avoids(HeldLabels \cup CallLabels)
    BY <1>2, SubmissionMoves DEF Moves, Avoids, HeldLabels, CallLabels
  <2>3. outcome[t] # "unborn"
    BY <2>1 DEF TaskInv, TaskData, QueuedOnce, Pending
  <2> HIDE DEF t
  <2> QED  BY <1>2, <2>1, <2>2, <2>3, SettleQueued DEF ArmLate
<1>3. ASSUME NEW t \in Tasks, Abort(t)
      PROVE  TaskInv'
  <2>1. Avoids(HeldLabels \cup CallLabels)
    BY <1>3, SubmissionMoves DEF Moves, Avoids, HeldLabels, CallLabels
  <2> QED
    BY <1>3, <2>1, SettleQueued DEF Abort, Pending, Settlements
<1>4. ASSUME NEW t \in Tasks, QueueTimer(t)
      PROVE  TaskInv'
  <2>1. Avoids(HeldLabels \cup CallLabels)
    BY <1>4, SubmissionMoves DEF Moves, Avoids, HeldLabels, CallLabels
  <2>2. outcome[t] # "unborn"
    BY <1>4 DEF QueueTimer, TaskInv, TaskData, QueuedOnce, Pending
  <2> QED
    BY <1>4, <2>1, <2>2, SettleQueued DEF QueueTimer, Settlements
<1>5. CASE GotExpired
  <2>1. PICK t \in Elems(queue) : /\ queue' = Without(queue, t)
                                  /\ Settle(t, "queue-timeout")
    BY <1>5 DEF GotExpired, Firsts
  <2>2. Avoids(HeldLabels \cup CallLabels)
    BY <1>5, CreationMoves DEF Moves, Avoids, HeldLabels, CallLabels
  <2>3. outcome[t] # "unborn" /\ t \in Tasks /\ "queue-timeout" \in Settlements
    BY QueueTasks DEF TaskInv, TaskData, QueuedOnce, Pending, Settlements
  <2> QED  BY <1>5, <2>1, <2>2, <2>3, SettleQueued DEF GotExpired
<1>6. ASSUME NEW t \in Tasks, FailTask(t)
      PROVE  TaskInv'
  <2> DEFINE w == Top.w
             why == IF <<t>> = Top.ts THEN "task-timeout" ELSE "worker-failure"
  <2>1. /\ w \in Workers /\ t \in activeTasks[w] /\ Settle(t, why)
        /\ activeTasks' = [activeTasks EXCEPT ![w] = @ \ {t}]
        /\ why \in Settlements
    BY <1>6, RunningFrame DEF FailTask, WorkerLabels, Settlements
  <2> HIDE DEF w, why
  <2>2. /\ outcome[t] # "unborn" /\ t \notin Elems(queue) /\ Distinct(queue)
        /\ \A v \in Workers : t \in activeTasks[v] => v = w
    BY <2>1 DEF TaskInv, TaskData, Slots, QueuedOnce
  <2>3. Avoids(HeldLabels \cup CallLabels)
    BY <1>6, CallsMoves DEF Moves, Avoids, HeldLabels, CallLabels
  <2>4. \A v \in Workers : /\ activeTasks'[v] \subseteq activeTasks[v]
                           /\ t \notin activeTasks'[v]
    BY <2>1, <2>2 DEF TypeOK
  <2> QED  BY <1>6, <2>1, <2>2, <2>3, <2>4, SettleTask DEF FailTask
<1>7. ASSUME NEW t \in Tasks, TerminateTask(t)
      PROVE  TaskInv'
  <2> DEFINE w == Top.w
  <2>1. /\ w \in Workers /\ t \in activeTasks[w] /\ Settle(t, "pool-closed")
        /\ activeTasks' = [activeTasks EXCEPT ![w] = @ \ {t}]
        /\ "pool-closed" \in Settlements
    BY <1>7, RunningFrame DEF TerminateTask, WorkerLabels, Settlements
  <2> HIDE DEF w
  <2>2. /\ outcome[t] # "unborn" /\ t \notin Elems(queue) /\ Distinct(queue)
        /\ \A v \in Workers : t \in activeTasks[v] => v = w
    BY <2>1 DEF TaskInv, TaskData, Slots, QueuedOnce
  <2>3. Avoids(HeldLabels \cup CallLabels)
    BY <1>7, ShutdownMoves DEF Moves, Avoids, HeldLabels, CallLabels
  <2>4. \A v \in Workers : /\ activeTasks'[v] \subseteq activeTasks[v]
                           /\ t \notin activeTasks'[v]
    BY <2>1, <2>2 DEF TypeOK
  <2> QED  BY <1>7, <2>1, <2>2, <2>3, <2>4, SettleTask DEF TerminateTask
<1> QED  BY <1>1, <1>2, <1>3, <1>4, <1>5, <1>6, <1>7

-----------------------------------------------------------------------------
(* Steps that hand queued tasks to a loop that settles them.                 *)

(* Tasks that leave the queue together are settled by a loop of their own.   *)
LEMMA QueueToLoop ==
  ASSUME TypeOK, TaskInv, NEW l, Running(l), NEW f,
         f.at \notin HeldLabels \cup CallLabels,
         NEW ts, NEW why \in {"rejected", "dropped", "queue-rejected",
                              "pool-closed"},
         Proceed(<<f, SettleEach(ts, why)>>),
         Elems(ts) \subseteq Elems(queue),
         Elems(queue') \subseteq Elems(queue),
         Elems(ts) \cap Elems(queue') = {}, Distinct(queue'),
         UNCHANGED <<submittedTasks, outcome, phase, activeTasks>>,
         terminationStarted => terminationStarted',
         why = "pool-closed" => terminationStarted', Doors'
  PROVE  TaskInv'
<1> DEFINE n == Len(stack)
           g == SettleEach(ts, why)
<1>1. g.at = "settle" /\ g.ts = ts /\ g.why = why
  BY LabelsOf, FieldsOf
<1> HIDE DEF g
<1>2. stack # <<>> /\ stack \in Seq(Frames)
  BY RunningFrame
<1>3. /\ n \in Nat \ {0} /\ Len(stack') = n + 1
      /\ \A i \in 1..(n - 1) : stack'[i] = stack[i]
      /\ stack'[n] = f /\ stack'[n + 1] = g
  BY <1>2, Goes2 DEF g
<1> HIDE DEF n
<1>4. \A i \in 1..Len(stack') : stack'[i].at \in HeldLabels \cup CallLabels =>
         \/ i \in 1..n /\ stack'[i] = stack[i]
         \/ i = n + 1 /\ stack'[i] = g
  <2> TAKE i \in 1..Len(stack')
  <2>1. (i \in 1..(n - 1) /\ i \in 1..n) \/ i = n \/ i = n + 1
    BY <1>3
  <2> QED  BY <1>3, <2>1
<1>5. TaskData'
  BY DEF TaskInv, TaskData, Births, QueuedOnce, Slots, Pending
<1>6. \A u \in Elems(queue) : phase[u] = "none" /\ outcome[u] # "unborn"
  BY DEF TaskInv, TaskData, QueuedOnce, Pending
<1>7. HeldSound'
  <2> SUFFICES ASSUME NEW i \in 1..Len(stack'), stack'[i].at \in HeldLabels,
                      NEW u \in Elems(stack'[i].ts)
               PROVE  /\ phase[u] = "none" /\ outcome[u] # "unborn"
                      /\ u \notin Elems(queue')
    BY DEF HeldSound
  <2>1. CASE i \in 1..n /\ stack'[i] = stack[i]
    BY <2>1 DEF TaskInv, HeldSound, n
  <2>2. CASE i = n + 1 /\ stack'[i] = g
    BY <1>1, <1>6, <2>2
  <2> QED  BY <1>4, <2>1, <2>2
<1>8. InsertAlone'
  <2> SUFFICES ASSUME NEW i \in 1..Len(stack'), stack'[i].at = "insert"
               PROVE  /\ Len(stack'[i].ts) = 1
                      /\ \A j \in 1..Len(stack') :
                           /\ stack'[j].at \in HeldLabels
                           /\ stack'[i].ts[1] \in Elems(stack'[j].ts)
                           => j = i
    BY DEF InsertAlone
  <2>1. i \in 1..n /\ stack'[i] = stack[i]
    BY <1>1, <1>4 DEF HeldLabels
  <2>2. /\ Len(stack[i].ts) = 1 /\ stack[i].ts[1] \in Elems(stack[i].ts)
        /\ stack[i].ts[1] \notin Elems(queue)
    BY <2>1, FrameTasks DEF TaskInv, InsertAlone, HeldSound, HeldLabels,
       TaskLabels, n
  <2>3. ASSUME NEW j \in 1..Len(stack'), stack'[j].at \in HeldLabels,
               stack'[i].ts[1] \in Elems(stack'[j].ts)
        PROVE  j = i
    <3>1. stack'[j] # g
      BY <1>1, <2>1, <2>2, <2>3
    <3>2. j \in 1..n /\ stack'[j] = stack[j]
      BY <1>4, <2>3, <3>1
    <3> QED  BY <2>1, <2>3, <3>2 DEF TaskInv, InsertAlone, n
  <2> QED  BY <2>1, <2>2, <2>3
<1>9. Reasons'
  <2> SUFFICES ASSUME NEW i \in 1..Len(stack'), stack'[i].at = "settle"
               PROVE  /\ stack'[i].why \in {"rejected", "dropped",
                                            "queue-rejected", "pool-closed"}
                      /\ stack'[i].why = "pool-closed" => terminationStarted'
    BY DEF Reasons
  <2>1. \/ i \in 1..n /\ stack'[i] = stack[i]
        \/ stack'[i] = g
    BY <1>4 DEF HeldLabels
  <2> QED  BY <1>1, <2>1 DEF TaskInv, Reasons, n
<1>10. CallsFirst'
  BY <1>1, <1>4 DEF TaskInv, CallsFirst, CallLabels, n
<1> QED  BY <1>5, <1>7, <1>8, <1>9, <1>10 DEF TaskInv

(* The four places where the code empties or cuts the queue.                 *)
LEMMA BacklogsKeepTask ==
  ASSUME TypeOK, TaskInv
  PROVE  /\ EnforceQueueLimit => TaskInv'
         /\ RejectQueue => TaskInv'
         /\ RejectBacklog => TaskInv'
         /\ TerminateAll => TaskInv'
<1> USE DEF poolVars, taskVars, settleVars, workerVars, schedVars, termVars
<1>0. ASSUME NEW l \in {"stats", "passend", "endpass", "termworkers"}
      PROVE  At(l).at \notin HeldLabels \cup CallLabels
  BY LabelsOf DEF HeldLabels, CallLabels
<1>1. CASE EnforceQueueLimit
  <2> DEFINE t == Top.ts[1]
             why == IF OverflowPolicy = "drop-oldest" THEN "dropped"
                    ELSE "queue-rejected"
             ts == Evicted(queue, t, MaxQueueSize, OverflowPolicy)
             f == At("stats")
  <2>1. t \in Tasks
    BY <1>1, RunningFrame DEF EnforceQueueLimit, TaskLabels
  <2>2. /\ queue' = Kept(queue, t, MaxQueueSize, OverflowPolicy)
        /\ Proceed(<<f, SettleEach(ts, why)>>)
        /\ Running("enforce")
    BY <1>1 DEF EnforceQueueLimit
  <2>3. Doors'
    BY <1>1 DEF EnforceQueueLimit, TaskInv, Doors
  <2>4. why \in {"rejected", "dropped", "queue-rejected", "pool-closed"}
        /\ why # "pool-closed"
    OBVIOUS
  <2>5. f.at \notin HeldLabels \cup CallLabels
    BY <1>0
  <2>6. UNCHANGED <<submittedTasks, outcome, phase, activeTasks,
                    terminationStarted>>
    BY <1>1 DEF EnforceQueueLimit
  <2> HIDE DEF t, why, f
  <2>7. /\ Distinct(queue') /\ Elems(ts) \subseteq Elems(queue)
        /\ Elems(queue') \subseteq Elems(queue)
        /\ Elems(ts) \cap Elems(queue') = {}
    BY <2>1, <2>2, LimitSound DEF TypeOK, TaskInv, TaskData, QueuedOnce
  <2> HIDE DEF ts
  <2> QED  BY <2>2, <2>3, <2>4, <2>5, <2>6, <2>7, QueueToLoop
<1>2. CASE RejectQueue
  <2> DEFINE f == At("passend")
  <2>1. /\ Proceed(<<f, SettleEach(queue, "rejected")>>) /\ Running("endpass")
        /\ queue' = <<>>
    BY <1>2 DEF RejectQueue
  <2>2. f.at \notin HeldLabels \cup CallLabels
    BY <1>0
  <2>3. Doors' /\ UNCHANGED <<submittedTasks, outcome, phase, activeTasks,
                              terminationStarted>>
    BY <1>2 DEF RejectQueue, TaskInv, Doors
  <2> HIDE DEF f
  <2> QED  BY <2>1, <2>2, <2>3, NoElems, QueueToLoop
<1>3. CASE RejectBacklog
  <2> DEFINE f == At("endpass")
  <2>1. /\ Proceed(<<f, SettleEach(queue, "rejected")>>) /\ Running("broken")
        /\ queue' = <<>>
    BY <1>3 DEF RejectBacklog
  <2>2. f.at \notin HeldLabels \cup CallLabels
    BY <1>0
  <2>3. Doors' /\ UNCHANGED <<submittedTasks, outcome, phase, activeTasks,
                              terminationStarted>>
    BY <1>3 DEF RejectBacklog, TaskInv, Doors
  <2> HIDE DEF f
  <2> QED  BY <2>1, <2>2, <2>3, NoElems, QueueToLoop
<1>4. CASE TerminateAll
  <2> DEFINE f == At("termworkers")
  <2>1. /\ Proceed(<<f, SettleEach(queue, "pool-closed")>>)
        /\ Running("terminate") /\ queue' = <<>> /\ terminationStarted'
    BY <1>4 DEF TerminateAll
  <2>2. f.at \notin HeldLabels \cup CallLabels
    BY <1>0
  <2>3. Doors' /\ UNCHANGED <<submittedTasks, outcome, phase, activeTasks>>
    BY <1>4 DEF TerminateAll, Doors
  <2> HIDE DEF f
  <2> QED  BY <2>1, <2>2, <2>3, NoElems, QueueToLoop
<1> QED  BY <1>1, <1>2, <1>3, <1>4

-----------------------------------------------------------------------------
(* Steps of a submission: run(), the insertion, the settling loop.           *)

(* run() and the insertion, and each round of a settling loop.               *)
LEMMA SubmissionKeepsTask ==
  ASSUME TypeOK, TaskInv
  PROVE  /\ SettleNext => TaskInv'
         /\ \A p, timed : Run(p, timed) => TaskInv'
         /\ Insert => TaskInv'
<1> USE DEF poolVars, taskVars, settleVars, workerVars, schedVars, termVars
<1>1. CASE SettleNext
  <2> DEFINE n == Len(stack)
             t == Head(Top.ts)
             g == Yield(Announce(t), SettleEach(Tail(Top.ts), Top.why))
  <2>1. /\ stack # <<>> /\ stack \in Seq(Frames) /\ Top = stack[n]
        /\ Top.at = "settle" /\ Top.ts # <<>> /\ Top.ts \in Seq(Tasks)
        /\ Top.why \in Settlements
    BY <1>1, RunningFrame DEF SettleNext, Top
  <2>2. /\ g.at = "settle" /\ g.ts = Tail(Top.ts) /\ g.why = Top.why
    BY LabelsOf, FieldsOf
  <2>3. /\ t \in Elems(Top.ts) /\ t \in Tasks
        /\ Elems(Tail(Top.ts)) \subseteq Elems(Top.ts)
    BY <2>1, TailElems
  <2>4. Settle(t, Top.why) /\ Proceed(<<g>>)
    BY <1>1 DEF SettleNext
  <2> HIDE DEF t, g
  <2>5. /\ n \in Nat \ {0} /\ Len(stack') = n
        /\ \A i \in 1..(n - 1) : stack'[i] = stack[i]
        /\ stack'[n] = g
    BY <2>1, <2>4, Goes1
  <2>6. n \in 1..n /\ \A i \in 1..n : i \in 1..(n - 1) \/ i = n
    BY <2>5
  <2>7. /\ phase[t] = "none" /\ outcome[t] # "unborn" /\ t \notin Elems(queue)
        /\ Distinct(queue)
    BY <2>1, <2>3, <2>6 DEF TaskInv, HeldSound, HeldLabels, TaskData,
       QueuedOnce
  <2>8. UNCHANGED <<submittedTasks, phase, queue, activeTasks, accepting,
                    drainRequested, terminationStarted>>
    BY <1>1 DEF SettleNext
  <2>9. \A w \in Workers : t \notin activeTasks[w]
    BY <2>7 DEF TaskInv, TaskData, Slots
  <2>10. /\ TaskData'
         /\ \A u \in Tasks : outcome[u] # "unborn" => outcome'[u] # "unborn"
    BY <2>1, <2>3, <2>4, <2>7, <2>8, <2>9, QueueTasks, SettleData DEF TaskInv
  <2> HIDE DEF n
  <2>11. \A i \in 1..n : \/ stack'[i] = stack[i]
                         \/ /\ i = n /\ stack[i].at = "settle"
                            /\ stack'[i].at = "settle"
                            /\ Elems(stack'[i].ts) \subseteq Elems(stack[i].ts)
                            /\ stack'[i].why = stack[i].why
    BY <2>1, <2>2, <2>3, <2>5, <2>6
  <2>12. HeldSound'
    <3> SUFFICES ASSUME NEW i \in 1..n, stack'[i].at \in HeldLabels,
                        NEW u \in Elems(stack'[i].ts)
                 PROVE  /\ phase[u] = "none" /\ outcome'[u] # "unborn"
                        /\ u \notin Elems(queue)
      BY <2>5, <2>8 DEF HeldSound
    <3>1. stack[i].at \in HeldLabels /\ u \in Elems(stack[i].ts)
      BY <2>11 DEF HeldLabels
    <3>2. u \in Tasks
      BY <3>1, FrameTasks DEF n
    <3> QED  BY <2>10, <3>1, <3>2 DEF TaskInv, HeldSound, n
  <2>13. InsertAlone'
    <3> SUFFICES ASSUME NEW i \in 1..n, stack'[i].at = "insert"
                 PROVE  /\ Len(stack'[i].ts) = 1
                        /\ \A j \in 1..n : /\ stack'[j].at \in HeldLabels
                                           /\ stack'[i].ts[1]
                                                \in Elems(stack'[j].ts)
                                           => j = i
      BY <2>5 DEF InsertAlone
    <3>1. stack'[i] = stack[i]
      BY <2>11
    <3>2. \A j \in 1..n : stack'[j].at \in HeldLabels =>
            /\ stack[j].at \in HeldLabels
            /\ Elems(stack'[j].ts) \subseteq Elems(stack[j].ts)
      BY <2>11 DEF HeldLabels
    <3> QED  BY <3>1, <3>2 DEF TaskInv, InsertAlone, n
  <2>14. Reasons'
    BY <2>5, <2>8, <2>11 DEF TaskInv, Reasons, n
  <2>15. CallsFirst'
    BY <2>5, <2>8, <2>11 DEF TaskInv, CallsFirst, CallLabels, n
  <2>16. Doors'
    BY <2>8 DEF TaskInv, Doors
  <2> QED  BY <2>10, <2>12, <2>13, <2>14, <2>15, <2>16 DEF TaskInv
<1>2. ASSUME NEW p, NEW timed, Run(p, timed)
      PROVE  TaskInv'
  <2> DEFINE n == Len(stack)
             t == submittedTasks + 1
             g == Yield("signal", For("insert", t))
  <2>1. /\ t \in Tasks /\ submittedTasks' = t /\ accepting
        /\ outcome' = [outcome EXCEPT ![t] = "pending"] /\ UserCall(<<g>>)
        /\ UNCHANGED <<phase, queue, activeTasks, accepting, drainRequested,
                       terminationStarted>>
    BY <1>2, PoolAssumption DEF Run, Tasks, TypeOK
  <2>2. g.at = "insert" /\ g.ts = <<t>>
    BY LabelsOf, FieldsOf
  <2>3. submittedTasks \in Nat /\ t = submittedTasks + 1
    BY PoolAssumption DEF TypeOK
  <2> HIDE DEF t, g
  <2>4. /\ n \in Nat /\ Len(stack') = n + 1
        /\ \A i \in 1..n : stack'[i] = stack[i]
        /\ stack'[n + 1] = g
    BY <2>1, TypeStack, Calls1
  <2>5. \A i \in 1..(n + 1) : i \in 1..n \/ i = n + 1
    BY <2>4
  <2>6. outcome[t] = "unborn" /\ phase[t] = "none"
    BY <2>1, <2>3 DEF TaskInv, TaskData, Births, Tasks
  <2>7. /\ t \notin Elems(queue) /\ \A w \in Workers : t \notin activeTasks[w]
        /\ \A i \in 1..n :
             stack[i].at \in HeldLabels => t \notin Elems(stack[i].ts)
    BY <2>6 DEF TaskInv, TaskData, QueuedOnce, Pending, Slots, HeldSound
  <2>8. Births'
    BY <2>1, <2>3, <2>6 DEF TaskInv, TaskData, Births, TypeOK, Tasks
  <2>9. \A u \in Tasks \ {t} : outcome'[u] = outcome[u]
    BY <2>1
  <2>10. QueuedOnce'
    BY <2>1, <2>7, <2>9, QueueTasks DEF TaskInv, TaskData, QueuedOnce, Pending
  <2>11. Slots'
    <3> SUFFICES ASSUME NEW w \in Workers, NEW u \in activeTasks[w]
                 PROVE  /\ phase[u] # "none"
                        /\ outcome'[u] \in {"pending", "aborted"}
                        /\ \A v \in Workers : u \in activeTasks[v] => v = w
      BY <2>1 DEF Slots
    <3>1. u \in Tasks \ {t}
      BY <2>7 DEF TypeOK
    <3> QED  BY <2>9, <3>1 DEF TaskInv, TaskData, Slots
  <2>12. HeldSound'
    <3> SUFFICES ASSUME NEW i \in 1..(n + 1), stack'[i].at \in HeldLabels,
                        NEW u \in Elems(stack'[i].ts)
                 PROVE  /\ phase[u] = "none" /\ outcome'[u] # "unborn"
                        /\ u \notin Elems(queue)
      BY <2>1, <2>4 DEF HeldSound
    <3>1. CASE i \in 1..n
      <4>1. u \in Tasks \ {t} /\ stack'[i] = stack[i]
        BY <2>4, <2>7, <3>1, FrameTasks
      <4> QED  BY <2>9, <3>1, <4>1 DEF TaskInv, HeldSound
    <3>2. CASE i = n + 1
      <4>1. u = t
        BY <2>2, <2>4, <3>2, OneElem
      <4> QED  BY <2>1, <2>6, <2>7, <4>1 DEF TypeOK
    <3> QED  BY <2>5, <3>1, <3>2
  <2>13. InsertAlone'
    <3> SUFFICES ASSUME NEW i \in 1..(n + 1), stack'[i].at = "insert"
                 PROVE  /\ Len(stack'[i].ts) = 1
                        /\ \A j \in 1..(n + 1) :
                             /\ stack'[j].at \in HeldLabels
                             /\ stack'[i].ts[1] \in Elems(stack'[j].ts)
                             => j = i
      BY <2>4 DEF InsertAlone
    <3>1. CASE i \in 1..n
      <4>1. /\ stack'[i] = stack[i] /\ Len(stack[i].ts) = 1
            /\ stack[i].ts[1] \in Elems(stack[i].ts)
        BY <2>4, <3>1, FrameTasks DEF TaskInv, InsertAlone, TaskLabels
      <4>2. stack[i].ts[1] # t
        BY <2>7, <3>1, <4>1 DEF HeldLabels
      <4>3. \A j \in 1..n : /\ stack'[j].at \in HeldLabels
                            /\ stack'[i].ts[1] \in Elems(stack'[j].ts)
                            => j = i
        BY <2>4, <3>1, <4>1 DEF TaskInv, InsertAlone
      <4>4. stack'[i].ts[1] \notin Elems(stack'[n + 1].ts)
        BY <2>2, <2>4, <4>1, <4>2, OneElem
      <4> QED  BY <2>5, <4>1, <4>3, <4>4
    <3>2. CASE i = n + 1
      <4>1. Len(stack'[i].ts) = 1 /\ stack'[i].ts[1] = t
        BY <2>2, <2>4, <3>2, OneElem
      <4> QED  BY <2>4, <2>5, <2>7, <3>2, <4>1
    <3> QED  BY <2>5, <3>1, <3>2
  <2>14. Reasons'
    BY <2>1, <2>2, <2>4, <2>5 DEF TaskInv, Reasons
  <2>15. CallsFirst'
    BY <2>1, <2>2, <2>4, <2>5 DEF TaskInv, CallsFirst, CallLabels
  <2>16. Doors'
    BY <2>1 DEF TaskInv, Doors
  <2> QED
    BY <2>8, <2>10, <2>11, <2>12, <2>13, <2>14, <2>15, <2>16
       DEF TaskInv, TaskData
<1>3. CASE Insert
  <2> DEFINE n == Len(stack)
             t == Top.ts[1]
  <2>1. /\ stack # <<>> /\ stack \in Seq(Frames) /\ Top = stack[n]
        /\ Top.at = "insert" /\ t \in Tasks /\ n \in 1..n /\ n \in Nat
    BY <1>3, RunningFrame, TopIsFrame DEF Insert, TaskLabels
  <2>2. t \in Elems(Top.ts)
    BY <2>1, FrameTasks DEF TaskLabels
  <2>3. /\ phase[t] = "none" /\ outcome[t] # "unborn" /\ t \notin Elems(queue)
    BY <2>1, <2>2 DEF TaskInv, HeldSound, HeldLabels
  <2>4. \A j \in 1..n : stack[j].at \in HeldLabels /\ j # n =>
          t \notin Elems(stack[j].ts)
    BY <2>1 DEF TaskInv, InsertAlone
  <2>5. Avoids(HeldLabels \cup CallLabels)
    BY <1>3, SubmissionMoves DEF Moves, Avoids, HeldLabels, CallLabels
  <2>6. UNCHANGED <<submittedTasks, outcome, phase, activeTasks, accepting,
                    drainRequested, terminationStarted>>
    BY <1>3 DEF Insert
  <2>7. CASE ~Pending(t)
    <3>1. TaskQuiet
      BY <1>3, <2>5, <2>7 DEF Insert, TaskQuiet
    <3> QED  BY <3>1, QuietTask
  <2>8. CASE Pending(t)
    <3> DEFINE g == Yield("event", For("arm", t))
    <3>1. queue' = Append(queue, t) /\ Proceed(<<g>>)
      BY <1>3, <2>8 DEF Insert
    <3>2. g.at = "arm"
      BY LabelsOf
    <3> HIDE DEF t, g
    <3>3. Elems(queue') = Elems(queue) \cup {t} /\ Distinct(queue')
      BY <2>1, <2>3, <3>1, AppendSound DEF TypeOK, TaskInv, TaskData,
         QueuedOnce
    <3>4. TaskData'
      BY <2>3, <2>6, <2>8, <3>3 DEF TaskInv, TaskData, Births, QueuedOnce,
         Slots, Pending
    <3>5. Len(stack') = n /\ stack'[n] = g
      BY <2>1, <3>1, Goes1
    <3> HIDE DEF n
    <3>6. \A i \in 1..n : stack'[i].at \in HeldLabels \cup CallLabels =>
             i # n /\ stack'[i] = stack[i]
      BY <2>5, <3>2, <3>5 DEF Avoids, HeldLabels, CallLabels
    <3>7. HeldSound'
      BY <2>4, <2>6, <3>3, <3>5, <3>6 DEF TaskInv, HeldSound, n
    <3>8. InsertAlone'
      BY <3>5, <3>6 DEF TaskInv, InsertAlone, HeldLabels, n
    <3>9. Reasons'
      BY <2>6, <3>5, <3>6 DEF TaskInv, Reasons, HeldLabels, n
    <3>10. CallsFirst'
      BY <2>6, <3>5, <3>6 DEF TaskInv, CallsFirst, n
    <3>11. Doors'
      BY <2>6 DEF TaskInv, Doors
    <3> QED  BY <3>4, <3>7, <3>8, <3>9, <3>10, <3>11 DEF TaskInv
  <2> QED  BY <2>7, <2>8
<1> QED  BY <1>1, <1>2, <1>3

-----------------------------------------------------------------------------
(* Steps of a call: the microtask, the proxy, the answer, the dispatch.      *)

(* A step of one call that changes the phase of its task only.               *)
LEMMA CallStep ==
  ASSUME TypeOK, TaskInv, NEW t \in Tasks, phase[t] # "none",
         phase'[t] # "none", \A u \in Tasks \ {t} : phase'[u] = phase[u],
         UNCHANGED <<submittedTasks, outcome, queue, activeTasks, accepting,
                     drainRequested, terminationStarted>>,
         Len(stack') \in {0, 1},
         \A i \in 1..Len(stack') :
           /\ stack'[i].at \notin HeldLabels
           /\ stack'[i].at = "lookup" => phase'[stack'[i].ts[1]] = "scheduled"
           /\ stack'[i].at = "applied" => phase'[stack'[i].ts[1]] = "invoked"
           /\ stack'[i].at = "complete" =>
                /\ phase'[stack'[i].ts[1]] = "done"
                /\ stack'[i].why \in {"fulfilled", "rejected"}
  PROVE  TaskInv'
<1>1. Births' /\ Slots'
  BY DEF TaskInv, TaskData, Births, Slots, TypeOK
<1>2. t \notin Elems(queue)
  BY DEF TaskInv, TaskData, QueuedOnce
<1>3. QueuedOnce'
  BY <1>2, QueueTasks DEF TaskInv, TaskData, QueuedOnce, Pending
<1>4. HeldSound' /\ InsertAlone' /\ Reasons'
  BY DEF HeldSound, InsertAlone, Reasons, HeldLabels
<1>5. \A i \in 1..Len(stack') : i = 1
  OBVIOUS
<1>6. CallsFirst'
  BY <1>5 DEF CallsFirst
<1>7. Doors'
  BY DEF TaskInv, Doors
<1> QED  BY <1>1, <1>3, <1>4, <1>6, <1>7 DEF TaskInv, TaskData

(* The running frame of a call is the only one.                              *)
LEMMA CallAlone ==
  ASSUME TypeOK, TaskInv, NEW l \in CallLabels, Running(l)
  PROVE  /\ stack # <<>> /\ stack \in Seq(Frames)
         /\ Len(stack) = 1 /\ Top = stack[1]
         /\ l # "completed" => Top.ts[1] \in Tasks
         /\ l = "lookup" => phase[Top.ts[1]] = "scheduled"
         /\ l = "applied" => phase[Top.ts[1]] = "invoked"
         /\ l = "complete" => /\ phase[Top.ts[1]] = "done"
                              /\ Top.why \in {"fulfilled", "rejected"}
<1>1. /\ stack # <<>> /\ stack \in Seq(Frames) /\ Len(stack) \in 1..Len(stack)
      /\ Top = stack[Len(stack)] /\ Top.at = l
      /\ l # "completed" => Top.ts[1] \in Tasks
  BY RunningFrame, TopIsFrame DEF TaskLabels, CallLabels
<1>2. Len(stack) = 1
  BY <1>1 DEF TaskInv, CallsFirst
<1> QED  BY <1>1, <1>2 DEF TaskInv, CallsFirst

(* _expireTaskIfNeeded() at most starts the failure of a worker.             *)
LEMMA ExpireOpens ==
  ASSUME NEW t
  PROVE  \/ ExpireTask(t) = <<>>
         \/ \E w : ExpireTask(t) = <<Fail(w, <<t>>)>>
BY DEF ExpireTask

(* When the call is the only frame, the failure that replaces it is too.     *)
LEMMA ExpiresAlone ==
  ASSUME stack \in Seq(Frames), Len(stack) = 1, NEW t, Proceed(ExpireTask(t))
  PROVE  /\ Len(stack') \in {0, 1}
         /\ \A i \in 1..Len(stack') : stack'[i].at = "fail"
<1>1. stack # <<>>
  BY EmptySeq
<1>2. CASE Proceed(<<>>)
  <2>1. Len(stack') = 0
    BY <1>1, <1>2, Goes0
  <2> QED  BY <2>1
<1>3. ASSUME NEW w, Proceed(<<Fail(w, <<t>>)>>)
      PROVE  /\ Len(stack') \in {0, 1}
             /\ \A i \in 1..Len(stack') : stack'[i].at = "fail"
  <2> DEFINE f == Fail(w, <<t>>)
  <2>1. f.at = "fail"
    BY LabelsOf
  <2>2. Proceed(<<f>>)
    BY <1>3
  <2> HIDE DEF f
  <2>3. Len(stack') = 1 /\ stack'[1] = f
    BY <1>1, <2>2, Goes1
  <2> QED  BY <2>1, <2>3
<1> QED  BY <1>2, <1>3, ExpireOpens

(* The steps of a call keep the invariant.                                   *)
LEMMA CallsKeepTask ==
  ASSUME TypeOK, TaskInv
  PROVE  /\ \A t \in Tasks : Microtask(t) => TaskInv'
         /\ CallMethod => TaskInv'
         /\ MethodCalled => TaskInv'
         /\ MethodThrows => TaskInv'
         /\ \A t \in Tasks, why \in {"fulfilled", "rejected"} :
              Answer(t, why) => TaskInv'
<1> USE DEF poolVars, taskVars, settleVars, workerVars, schedVars, termVars
<1>1. ASSUME NEW t \in Tasks, Microtask(t)
      PROVE  TaskInv'
  <2>1. /\ phase[t] = "scheduled"
        /\ phase' = IF MayCall(t) THEN phase ELSE [phase EXCEPT ![t] = "done"]
        /\ stack' = IF MayCall(t) THEN <<Yield("proxy", For("lookup", t))>>
                    ELSE ExpireTask(t)
        /\ UNCHANGED <<submittedTasks, outcome, queue, activeTasks, accepting,
                       drainRequested, terminationStarted>>
    BY <1>1 DEF Microtask, EventLoop
  <2>2. phase'[t] # "none" /\ \A u \in Tasks \ {t} : phase'[u] = phase[u]
    BY <2>1 DEF TypeOK
  <2>3. CASE MayCall(t)
    <3> DEFINE f == Yield("proxy", For("lookup", t))
    <3>1. f.at = "lookup" /\ f.ts[1] = t
      BY LabelsOf, FieldsOf, OneElem
    <3>2. stack' = <<f>>
      BY <2>1, <2>3
    <3> HIDE DEF f
    <3>3. Len(stack') = 1 /\ stack'[1] = f
      BY <3>2
    <3> QED  BY <2>1, <2>2, <2>3, <3>1, <3>3, CallStep DEF HeldLabels
  <2>4. CASE ~MayCall(t)
    <3>1. stack' = <<>> \/ \E w : stack' = <<Fail(w, <<t>>)>>
      BY <2>1, <2>4, ExpireOpens
    <3>2. /\ Len(stack') \in {0, 1}
          /\ \A i \in 1..Len(stack') : stack'[i].at = "fail"
      BY <3>1, LabelsOf
    <3> QED  BY <2>1, <2>2, <3>2, CallStep DEF HeldLabels
  <2> QED  BY <2>3, <2>4
<1>2. CASE CallMethod
  <2> DEFINE t == Top.ts[1]
  <2>1. /\ stack # <<>> /\ stack \in Seq(Frames) /\ Len(stack) = 1
        /\ t \in Tasks /\ phase[t] = "scheduled"
    BY <1>2, CallAlone DEF CallMethod, CallLabels
  <2>2. /\ phase' = [phase EXCEPT ![t] = IF MayCall(t) THEN "invoked"
                                         ELSE "done"]
        /\ UNCHANGED <<submittedTasks, outcome, queue, activeTasks, accepting,
                       drainRequested, terminationStarted>>
    BY <1>2 DEF CallMethod
  <2>3. phase'[t] # "none" /\ \A u \in Tasks \ {t} : phase'[u] = phase[u]
    BY <2>1, <2>2 DEF TypeOK
  <2>4. CASE MayCall(t)
    <3> DEFINE f == Yield("proxy", For("applied", t))
    <3>1. f.at = "applied" /\ f.ts[1] = t
      BY LabelsOf, FieldsOf, OneElem
    <3>2. Proceed(<<f>>)
      BY <1>2, <2>4 DEF CallMethod
    <3>3. phase'[t] = "invoked"
      BY <2>1, <2>2, <2>4 DEF TypeOK
    <3> HIDE DEF f, t
    <3>4. Len(stack') = 1 /\ stack'[1] = f
      BY <2>1, <3>2, Goes1
    <3> QED  BY <2>1, <2>2, <2>3, <3>1, <3>3, <3>4, CallStep DEF HeldLabels
  <2>5. CASE ~MayCall(t)
    <3>1. Proceed(ExpireTask(t))
      BY <1>2, <2>5 DEF CallMethod
    <3> HIDE DEF t
    <3>3. /\ Len(stack') \in {0, 1}
          /\ \A i \in 1..Len(stack') : stack'[i].at = "fail"
      BY <2>1, <3>1, ExpiresAlone
    <3> QED  BY <2>1, <2>2, <2>3, <3>3, CallStep DEF HeldLabels
  <2> QED  BY <2>4, <2>5
<1>3. CASE MethodCalled
  <2> DEFINE t == Top.ts[1]
  <2>1. /\ stack # <<>> /\ stack \in Seq(Frames) /\ Len(stack) = 1
        /\ t \in Tasks /\ phase[t] = "invoked"
    BY <1>3, CallAlone DEF MethodCalled, CallLabels
  <2>2. /\ phase' = IF MayCall(t) THEN phase ELSE [phase EXCEPT ![t] = "done"]
        /\ UNCHANGED <<submittedTasks, outcome, queue, activeTasks, accepting,
                       drainRequested, terminationStarted>>
        /\ Proceed(ExpireTask(t))
    BY <1>3 DEF MethodCalled
  <2>3. phase'[t] # "none" /\ \A u \in Tasks \ {t} : phase'[u] = phase[u]
    BY <2>1, <2>2 DEF TypeOK
  <2> HIDE DEF t
  <2>5. /\ Len(stack') \in {0, 1}
        /\ \A i \in 1..Len(stack') : stack'[i].at = "fail"
    BY <2>1, <2>2, ExpiresAlone
  <2> QED  BY <2>1, <2>2, <2>3, <2>5, CallStep DEF HeldLabels
<1>4. CASE MethodThrows
  <2> DEFINE t == Top.ts[1]
             f == Complete(t, "rejected")
  <2>1. /\ stack # <<>> /\ stack \in Seq(Frames) /\ Len(stack) = 1
        /\ t \in Tasks /\ phase[t] # "none"
    BY <1>4, CallAlone DEF MethodThrows, CallLabels
  <2>2. /\ phase' = [phase EXCEPT ![t] = "done"]
        /\ UNCHANGED <<submittedTasks, outcome, queue, activeTasks, accepting,
                       drainRequested, terminationStarted>>
        /\ Proceed(<<f>>)
    BY <1>4 DEF MethodThrows
  <2>3. phase'[t] = "done" /\ \A u \in Tasks \ {t} : phase'[u] = phase[u]
    BY <2>1, <2>2 DEF TypeOK
  <2>4. f.at = "complete" /\ f.ts[1] = t /\ f.why = "rejected"
    BY LabelsOf, FieldsOf, OneElem
  <2> HIDE DEF t, f
  <2>5. Len(stack') = 1 /\ stack'[1] = f
    BY <2>1, <2>2, Goes1
  <2> QED  BY <2>1, <2>2, <2>3, <2>4, <2>5, CallStep DEF HeldLabels
<1>5. ASSUME NEW t \in Tasks, NEW why \in {"fulfilled", "rejected"},
             Answer(t, why)
      PROVE  TaskInv'
  <2> DEFINE f == Complete(t, why)
  <2>1. /\ phase[t] = "invoked" /\ phase' = [phase EXCEPT ![t] = "done"]
        /\ UNCHANGED <<submittedTasks, outcome, queue, activeTasks, accepting,
                       drainRequested, terminationStarted>>
        /\ stack' = <<f>>
    BY <1>5 DEF Answer, EventLoop
  <2>2. phase'[t] = "done" /\ \A u \in Tasks \ {t} : phase'[u] = phase[u]
    BY <2>1 DEF TypeOK
  <2>3. f.at = "complete" /\ f.ts[1] = t /\ f.why = why
    BY LabelsOf, FieldsOf, OneElem
  <2> HIDE DEF f
  <2>4. Len(stack') = 1 /\ stack'[1] = f
    BY <2>1
  <2> QED  BY <2>1, <2>2, <2>3, <2>4, CallStep DEF HeldLabels
<1> QED  BY <1>1, <1>2, <1>3, <1>4, <1>5

(* The dispatch moves a task from the queue to a slot; its completion frees  *)
(* the slot and settles it; drain() stops accepting.                         *)
LEMMA WorkKeepsTask ==
  ASSUME TypeOK, TaskInv
  PROVE  /\ \A late \in BOOLEAN : Dispatch(late) => TaskInv'
         /\ CompleteTask => TaskInv'
         /\ Drain => TaskInv'
<1> USE DEF poolVars, taskVars, settleVars, workerVars, schedVars, termVars
<1>1. ASSUME NEW late \in BOOLEAN, Dispatch(late)
      PROVE  TaskInv'
  <2> DEFINE w == Top.w
  <2>1. w \in Workers
    BY <1>1, RunningFrame DEF Dispatch, WorkerLabels
  <2>2. PICK t \in Elems(queue) :
          /\ queue' = Without(queue, t)
          /\ phase' = [phase EXCEPT ![t] = "scheduled"]
          /\ activeTasks' = [activeTasks EXCEPT ![w] = @ \cup {t}]
    BY <1>1 DEF Dispatch, Firsts
  <2>3. UNCHANGED <<submittedTasks, outcome, accepting, drainRequested,
                    terminationStarted>>
    BY <1>1 DEF Dispatch
  <2> HIDE DEF w
  <2>4. /\ t \in Tasks /\ outcome[t] = "pending" /\ phase[t] = "none"
        /\ Distinct(queue')
        /\ Elems(queue') = Elems(queue) \ {t}
    BY <2>2, QueueTasks, WithoutSound DEF TaskInv, TaskData, QueuedOnce,
       Pending, TypeOK
  <2>5. /\ phase'[t] = "scheduled"
        /\ \A u \in Tasks \ {t} : phase'[u] = phase[u]
        /\ \A v \in Workers :
             /\ activeTasks'[v] \subseteq activeTasks[v] \cup {t}
             /\ t \in activeTasks'[v] => v = w \/ t \in activeTasks[v]
    BY <2>1, <2>2, <2>4 DEF TypeOK
  <2>6. \A v \in Workers : t \notin activeTasks[v]
    BY <2>4 DEF TaskInv, TaskData, Slots
  <2>7. Births'
    BY <2>3, <2>4, <2>5 DEF TaskInv, TaskData, Births, Tasks, TypeOK
  <2>8. QueuedOnce'
    BY <2>3, <2>4, <2>5, QueueTasks DEF TaskInv, TaskData, QueuedOnce, Pending
  <2>9. Slots'
    <3> SUFFICES ASSUME NEW v \in Workers, NEW u \in activeTasks'[v]
                 PROVE  /\ phase'[u] # "none"
                        /\ outcome[u] \in {"pending", "aborted"}
                        /\ \A x \in Workers : u \in activeTasks'[x] => x = v
      BY <2>3 DEF Slots
    <3>1. CASE u = t
      BY <2>4, <2>5, <2>6, <3>1
    <3>2. CASE u # t
      <4>1. u \in activeTasks[v] /\ u \in Tasks \ {t}
        BY <2>5, <3>2 DEF TypeOK
      <4> QED  BY <2>5, <3>2, <4>1 DEF TaskInv, TaskData, Slots
    <3> QED  BY <3>1, <3>2
  <2>10. Avoids(HeldLabels \cup CallLabels)
    BY <1>1, CreationMoves DEF Moves, Avoids, HeldLabels, CallLabels
  <2>11. \A i \in 1..Len(stack') :
           stack'[i].at \in HeldLabels \cup CallLabels =>
             i \in 1..Len(stack) /\ stack'[i] = stack[i]
    BY <2>10 DEF Avoids
  <2>12. HeldSound'
    <3> SUFFICES ASSUME NEW i \in 1..Len(stack), stack[i].at \in HeldLabels,
                        NEW u \in Elems(stack[i].ts)
                 PROVE  /\ phase'[u] = "none" /\ outcome[u] # "unborn"
                        /\ u \notin Elems(queue')
      BY <2>3, <2>11 DEF HeldSound
    <3>1. u \in Tasks /\ phase[u] = "none" /\ u \notin Elems(queue)
      BY FrameTasks DEF TaskInv, HeldSound
    <3>2. outcome[u] # "unborn"
      BY DEF TaskInv, HeldSound
    <3> QED  BY <2>2, <2>4, <2>5, <3>1, <3>2
  <2>13. InsertAlone' /\ Reasons'
    BY <2>3, <2>11 DEF TaskInv, InsertAlone, Reasons, HeldLabels
  <2>14. CallsFirst'
    <3> SUFFICES ASSUME NEW i \in 1..Len(stack), stack[i].at \in CallLabels
                 PROVE  /\ i = 1
                        /\ stack[i].at = "lookup" =>
                             phase'[stack[i].ts[1]] = "scheduled"
                        /\ stack[i].at = "applied" =>
                             phase'[stack[i].ts[1]] = "invoked"
                        /\ stack[i].at = "complete" =>
                             /\ phase'[stack[i].ts[1]] = "done"
                             /\ stack[i].why \in {"fulfilled", "rejected"}
      BY <2>11 DEF CallsFirst
    <3>1. stack[i].at # "completed" => stack[i].ts[1] \in Tasks
      BY FrameTasks DEF TaskLabels, CallLabels
    <3> QED  BY <2>4, <2>5, <3>1 DEF TaskInv, CallsFirst, CallLabels
  <2>15. Doors'
    BY <2>3 DEF TaskInv, Doors
  <2> QED
    BY <2>7, <2>8, <2>9, <2>12, <2>13, <2>14, <2>15 DEF TaskInv, TaskData
<1>2. CASE CompleteTask
  <2> DEFINE t == Top.ts[1]
             why == Top.why
  <2>1. /\ stack # <<>> /\ stack \in Seq(Frames) /\ Len(stack) = 1
        /\ t \in Tasks /\ phase[t] = "done" /\ why \in Settlements
    BY <1>2, CallAlone DEF CompleteTask, CallLabels, Settlements
  <2>2. PICK w \in Hosts(t) :
          /\ activeTasks' = [activeTasks EXCEPT ![w] = @ \ {t}]
          /\ Proceed(<<Yield(Announce(t), On("completed", w))>>)
    BY <1>2 DEF CompleteTask
  <2>3. /\ Settle(t, why)
        /\ UNCHANGED <<submittedTasks, phase, queue, accepting, drainRequested,
                       terminationStarted>>
    BY <1>2 DEF CompleteTask
  <2> HIDE DEF t, why
  <2>4. w \in Workers /\ t \in activeTasks[w]
    BY DEF Hosts, TypeOK
  <2>5. /\ outcome[t] # "unborn" /\ t \notin Elems(queue) /\ Distinct(queue)
        /\ \A v \in Workers : t \in activeTasks[v] => v = w
    BY <2>4 DEF TaskInv, TaskData, Slots, QueuedOnce
  <2>6. \A v \in Workers : /\ activeTasks'[v] \subseteq activeTasks[v]
                           /\ t \notin activeTasks'[v]
    BY <2>2, <2>4, <2>5 DEF TypeOK
  <2>7. TaskData'
    BY <2>1, <2>3, <2>5, <2>6, QueueTasks, SettleData DEF TaskInv
  <2>8. /\ Len(stack') = 1
        /\ stack'[1].at = "completed"
    BY <2>1, <2>2, Goes1, LabelsOf
  <2>9. \A i \in 1..Len(stack') : i = 1
    BY <2>8
  <2>10. HeldSound' /\ InsertAlone' /\ Reasons' /\ CallsFirst'
    BY <2>8, <2>9 DEF HeldSound, InsertAlone, Reasons, CallsFirst, HeldLabels
  <2>11. Doors'
    BY <2>3 DEF TaskInv, Doors
  <2> QED  BY <2>7, <2>10, <2>11 DEF TaskInv
<1>3. CASE Drain
  <2>1. Avoids(HeldLabels \cup CallLabels)
    BY <1>3, ShutdownMoves DEF Moves, Avoids, HeldLabels, CallLabels
  <2>2. FramesQuiet
    BY <1>3, <2>1 DEF Drain, FramesQuiet
  <2>3. TaskData'
    BY <1>3 DEF Drain, TaskInv, TaskData, Births, QueuedOnce, Slots, Pending
  <2>4. Doors'
    BY <1>3 DEF Drain, Doors
  <2> QED  BY <2>2, <2>3, <2>4, QuietFrames DEF TaskInv
<1> QED  BY <1>1, <1>2, <1>3

-----------------------------------------------------------------------------
(* The tasks are tracked, and the queue is sound.                            *)

(* A new pool has no task.                                                   *)
LEMMA InitTask == Init => TaskInv
<1> SUFFICES ASSUME Init
             PROVE  TaskInv
  OBVIOUS
<1>1. /\ \A t \in Tasks : outcome[t] = "unborn" /\ phase[t] = "none"
      /\ submittedTasks = 0 /\ \A t \in Tasks : t > 0
  BY DEF Init, Tasks
<1>2. queue = <<>> /\ stack = <<>> /\ \A w \in Workers : activeTasks[w] = {}
  BY DEF Init
<1>3. Len(stack) = 0
  BY <1>2
<1>4. TaskData
  BY <1>1, <1>2, NoElems DEF TaskData, Births, QueuedOnce, Slots
<1>5. HeldSound /\ InsertAlone /\ Reasons /\ CallsFirst
  BY <1>3 DEF HeldSound, InsertAlone, Reasons, CallsFirst
<1> QED  BY <1>4, <1>5 DEF TaskInv, Doors, Init

(* Time moves clocks only.                                                   *)
LEMMA TimeQuiet ==
  ASSUME TypeOK, Time
  PROVE  TaskQuiet
<1>1. Avoids(HeldLabels \cup CallLabels)
  BY ShutdownMoves DEF Moves, Avoids
<1> QED  BY <1>1 DEF Time, QueueDeadline, TaskDeadline, LifetimePasses,
  ClockMoves, TaskQuiet, poolVars, settleVars, schedVars, termVars

(* A stuttering step is quiet.                                               *)
LEMMA StillQuiet ==
  ASSUME TypeOK, UNCHANGED vars
  PROVE  TaskQuiet
BY DEF vars, data, poolVars, taskVars, settleVars, workerVars, schedVars,
       TaskQuiet, Avoids

(* The steps that concern the tasks.                                         *)
TaskStep ==
  \/ SettleNext \/ Insert \/ SignalThrows \/ ArmLate \/ EnforceQueueLimit
  \/ RejectQueue \/ RejectBacklog \/ GotExpired
  \/ CallMethod \/ MethodCalled \/ MethodThrows \/ CompleteTask
  \/ Drain \/ TerminateAll
  \/ \E p \in Priorities, timed \in QueueTimed : Run(p, timed)
  \/ \E late \in BOOLEAN : Dispatch(late)
  \/ \E t \in Tasks : \/ Abort(t) \/ QueueTimer(t) \/ Microtask(t)
                      \/ FailTask(t) \/ TerminateTask(t)
  \/ \E t \in Tasks, why \in {"fulfilled", "rejected"} : Answer(t, why)

(* Every other step leaves the tasks alone.                                  *)
LEMMA TaskSteps ==
  ASSUME TypeOK, [Next]_vars
  PROVE  TaskStep \/ TaskQuiet
<1>1. CASE UNCHANGED vars
  BY <1>1, StillQuiet
<1>2. ASSUME Code
      PROVE  TaskStep \/ TaskQuiet
  BY <1>2, SubmissionQuiet, SchedulingQuiet, CreationQuiet, CallsQuiet,
     TerminationQuiet, ShutdownQuiet DEF Code, TaskStep
<1>3. ASSUME Faults \/ User
      PROVE  TaskStep \/ TaskQuiet
  BY <1>3, CallsQuiet, ShutdownQuiet DEF Faults, User, TaskStep
<1>4. ASSUME World
      PROVE  TaskStep \/ TaskQuiet
  BY <1>4, TerminationQuiet DEF World, TaskStep
<1>5. ASSUME NEW t \in Tasks, TaskTimers(t)
      PROVE  TaskStep \/ TaskQuiet
  BY <1>5, CallsQuiet DEF TaskTimers, TaskStep
<1>6. ASSUME NEW w \in Workers, WorkerTimers(w)
      PROVE  TaskStep \/ TaskQuiet
  BY <1>6, TerminationQuiet DEF WorkerTimers
<1>7. CASE Finished
  BY <1>1, <1>7 DEF Finished
<1> QED
  BY <1>1, <1>2, <1>3, <1>4, <1>5, <1>6, <1>7, TimeQuiet DEF Next

(* Every step keeps the invariant of the tasks.                              *)
LEMMA NextTask ==
  ASSUME TypeOK, TaskInv, [Next]_vars
  PROVE  TaskInv'
<1>1. TaskStep => TaskInv'
  BY SettlersKeepTask, BacklogsKeepTask, SubmissionKeepsTask, CallsKeepTask,
     WorkKeepsTask DEF TaskStep
<1>2. TaskQuiet => TaskInv'
  BY QuietTask
<1> QED  BY <1>1, <1>2, TaskSteps

(* In every state each task is in one place: not yet submitted, held by one  *)
(* frame, queued once, or dispatched and in at most one slot; and what the   *)
(* running code holds of it agrees with that.                                *)
THEOREM TasksTracked == Spec => [](IInv /\ TaskInv)
<1>1. Init => TaskInv
  BY InitTask
<1>2. TypeOK /\ TaskInv /\ [Next]_vars => TaskInv'
  BY NextTask
<1>3. IInv => TypeOK
  BY DEF IInv
<1> QED  BY <1>1, <1>2, <1>3, Invariance, PTL DEF Spec

(* The queue never holds a task twice, nor one that is settled or was        *)
(* dispatched (removeQueuedTask on abort, timeout, eviction and dispatch).   *)
THEOREM QueueIsSound == Spec => []QueueSound
<1>1. TypeOK /\ TaskInv => QueueSound
  BY SoundCardinality DEF TypeOK, TaskInv, TaskData, QueuedOnce, QueueSound
<1>2. IInv => TypeOK
  BY DEF IInv
<1> QED  BY <1>1, <1>2, TasksTracked, PTL

-----------------------------------------------------------------------------
(* The steps that add no worker and end no removal.                          *)

(* Once terminateAll() has started, a worker that is still managed is about  *)
(* to be removed: by its loop, or because it was created too late.           *)
Closing ==
  terminationStarted => \A w \in workers : \E i \in 1..Len(stack) :
    \/ stack[i].at = "termworkers"
    \/ stack[i].at = "created" /\ stack[i].w = w
    \/ stack[i].at = "remove" /\ stack[i].why = "force" /\ stack[i].w = w
(* The loops of terminateAll() run only after it has started.                *)
EndFrames ==
  \A i \in 1..Len(stack) :
    stack[i].at \in {"termworkers", "termtasks"} => terminationStarted

(* The frames that remove the workers of a closing pool.                     *)
EndLabels == {"termworkers", "created", "remove"}
(* A step that adds no worker, starts no shutdown and ends no removal.       *)
ClosingQuiet ==
  /\ workers' \subseteq workers /\ UNCHANGED terminationStarted
  /\ Keeps(EndLabels) /\ Avoids({"termworkers", "termtasks"})

(* All steps of a submission are such steps ...                              *)
LEMMA SubmissionClosing ==
  ASSUME TypeOK
  PROVE  /\ SettleNext => ClosingQuiet
         /\ SettleDone => ClosingQuiet
         /\ \A p, timed : Run(p, timed) => ClosingQuiet
         /\ Insert => ClosingQuiet
         /\ SignalThrows => ClosingQuiet
         /\ Arm => ClosingQuiet
         /\ ArmLate => ClosingQuiet
         /\ EnforceQueueLimit => ClosingQuiet
         /\ \A t \in Tasks : Abort(t) => ClosingQuiet
         /\ \A t \in Tasks : QueueTimer(t) => ClosingQuiet
<1>1. ASSUME SettleNext
      PROVE  ClosingQuiet
  BY <1>1, SubmissionMoves DEF ClosingQuiet, SettleNext, poolVars, taskVars,
     workerVars, schedVars, termVars, Keeps, Avoids, EndLabels, Moves
<1>2. ASSUME SettleDone
      PROVE  ClosingQuiet
  BY <1>2, SubmissionMoves DEF ClosingQuiet, SettleDone, data, poolVars,
     taskVars, settleVars, workerVars, schedVars, termVars, Keeps, Avoids,
     EndLabels, Moves
<1>3. ASSUME NEW p, NEW timed, Run(p, timed)
      PROVE  ClosingQuiet
  BY <1>3, SubmissionMoves DEF ClosingQuiet, Run, poolVars, workerVars,
     schedVars, termVars, Keeps, Avoids, EndLabels, Moves
<1>4. ASSUME Insert
      PROVE  ClosingQuiet
  BY <1>4, SubmissionMoves DEF ClosingQuiet, Insert, poolVars, taskVars,
     settleVars, workerVars, schedVars, termVars, Keeps, Avoids, EndLabels,
     Moves
<1>5. ASSUME SignalThrows
      PROVE  ClosingQuiet
  BY <1>5, SubmissionMoves DEF ClosingQuiet, SignalThrows, poolVars, taskVars,
     workerVars, schedVars, termVars, Keeps, Avoids, EndLabels, Moves
<1>6. ASSUME Arm
      PROVE  ClosingQuiet
  BY <1>6, SubmissionMoves DEF ClosingQuiet, Arm, poolVars, taskVars,
     workerVars, schedVars, termVars, Keeps, Avoids, EndLabels, Moves
<1>7. ASSUME ArmLate
      PROVE  ClosingQuiet
  BY <1>7, SubmissionMoves DEF ClosingQuiet, ArmLate, poolVars, taskVars,
     workerVars, schedVars, termVars, Keeps, Avoids, EndLabels, Moves
<1>8. ASSUME EnforceQueueLimit
      PROVE  ClosingQuiet
  BY <1>8, SubmissionMoves DEF ClosingQuiet, EnforceQueueLimit, poolVars,
     taskVars, settleVars, workerVars, schedVars, termVars, Keeps, Avoids,
     EndLabels, Moves
<1>9. ASSUME NEW t \in Tasks, Abort(t)
      PROVE  ClosingQuiet
  BY <1>9, SubmissionMoves DEF ClosingQuiet, Abort, poolVars, taskVars,
     workerVars, schedVars, termVars, Keeps, Avoids, EndLabels, Moves
<1>10. ASSUME NEW t \in Tasks, QueueTimer(t)
      PROVE  ClosingQuiet
  BY <1>10, SubmissionMoves DEF ClosingQuiet, QueueTimer, poolVars, taskVars,
     workerVars, schedVars, termVars, Keeps, Avoids, EndLabels, Moves
<1> QED  BY <1>1, <1>2, <1>3, <1>4, <1>5, <1>6, <1>7, <1>8, <1>9, <1>10

(* ... all steps of the scheduling loop, ...                                 *)
LEMMA SchedulingClosing ==
  ASSUME TypeOK
  PROVE  /\ NextSkipped => ClosingQuiet
         /\ NextStarts => ClosingQuiet
         /\ Loop => ClosingQuiet
         /\ EndPass => ClosingQuiet
         /\ RejectQueue => ClosingQuiet
         /\ NextPass => ClosingQuiet
         /\ NextReturns => ClosingQuiet
         /\ RejectBacklog => ClosingQuiet
         /\ \A w \in Workers : PickIdle(w) => ClosingQuiet
         /\ \A w \in Workers : PickExpired(w) => ClosingQuiet
         /\ PickNew => ClosingQuiet
         /\ PickLoaded => ClosingQuiet
<1>1. ASSUME NextSkipped
      PROVE  ClosingQuiet
  BY <1>1, SchedulingMoves DEF ClosingQuiet, NextSkipped, poolVars, taskVars,
     settleVars, workerVars, termVars, Keeps, Avoids, EndLabels, Moves
<1>2. ASSUME NextStarts
      PROVE  ClosingQuiet
  BY <1>2, SchedulingMoves DEF ClosingQuiet, NextStarts, poolVars, taskVars,
     settleVars, workerVars, termVars, Keeps, Avoids, EndLabels, Moves
<1>3. ASSUME Loop
      PROVE  ClosingQuiet
  BY <1>3, SchedulingMoves DEF ClosingQuiet, Loop, data, poolVars, taskVars,
     settleVars, workerVars, schedVars, termVars, Keeps, Avoids, EndLabels,
     Moves
<1>4. ASSUME EndPass
      PROVE  ClosingQuiet
  BY <1>4, SchedulingMoves DEF ClosingQuiet, EndPass, data, poolVars,
     taskVars, settleVars, workerVars, schedVars, termVars, Keeps, Avoids,
     EndLabels, Moves
<1>5. ASSUME RejectQueue
      PROVE  ClosingQuiet
  BY <1>5, SchedulingMoves DEF ClosingQuiet, RejectQueue, poolVars, taskVars,
     settleVars, workerVars, schedVars, termVars, Keeps, Avoids, EndLabels,
     Moves
<1>6. ASSUME NextPass
      PROVE  ClosingQuiet
  BY <1>6, SchedulingMoves DEF ClosingQuiet, NextPass, poolVars, taskVars,
     settleVars, workerVars, termVars, Keeps, Avoids, EndLabels, Moves
<1>7. ASSUME NextReturns
      PROVE  ClosingQuiet
  BY <1>7, SchedulingMoves DEF ClosingQuiet, NextReturns, poolVars, taskVars,
     settleVars, workerVars, termVars, Keeps, Avoids, EndLabels, Moves
<1>8. ASSUME RejectBacklog
      PROVE  ClosingQuiet
  BY <1>8, SchedulingMoves DEF ClosingQuiet, RejectBacklog, poolVars,
     taskVars, settleVars, workerVars, schedVars, termVars, Keeps, Avoids,
     EndLabels, Moves
<1>9. ASSUME NEW w \in Workers, PickIdle(w)
      PROVE  ClosingQuiet
  BY <1>9, SchedulingMoves DEF ClosingQuiet, PickIdle, poolVars, taskVars,
     settleVars, schedVars, termVars, Keeps, Avoids, EndLabels, Moves
<1>10. ASSUME NEW w \in Workers, PickExpired(w)
      PROVE  ClosingQuiet
  BY <1>10, SchedulingMoves DEF ClosingQuiet, PickExpired, poolVars, taskVars,
     settleVars, schedVars, termVars, Keeps, Avoids, EndLabels, Moves
<1>11. ASSUME PickNew
      PROVE  ClosingQuiet
  BY <1>11, SchedulingMoves DEF ClosingQuiet, PickNew, poolVars, taskVars,
     settleVars, termVars, Keeps, Avoids, EndLabels, Moves
<1>12. ASSUME PickLoaded
      PROVE  ClosingQuiet
  BY <1>12, SchedulingMoves DEF ClosingQuiet, PickLoaded, poolVars, taskVars,
     settleVars, schedVars, termVars, Keeps, Avoids, EndLabels, Moves
<1> QED  BY <1>1, <1>2, <1>3, <1>4, <1>5, <1>6, <1>7, <1>8, <1>9, <1>10,
     <1>11, <1>12

(* ... those of a creation that adds no worker, ...                          *)
LEMMA CreationClosing ==
  ASSUME TypeOK
  PROVE  /\ \A w \in Workers : ConstructPartial(w) => ClosingQuiet
         /\ ConstructThrows => ClosingQuiet
         /\ Discard => ClosingQuiet
         /\ Uncreated => ClosingQuiet
         /\ Finally => ClosingQuiet
         /\ GotNothing => ClosingQuiet
         /\ GotExpired => ClosingQuiet
         /\ \A late : Dispatch(late) => ClosingQuiet
<1>1. ASSUME NEW w \in Workers, ConstructPartial(w)
      PROVE  ClosingQuiet
  BY <1>1, CreationMoves DEF ClosingQuiet, ConstructPartial, poolVars,
     taskVars, settleVars, schedVars, termVars, Keeps, Avoids, EndLabels,
     Moves
<1>2. ASSUME ConstructThrows
      PROVE  ClosingQuiet
  BY <1>2, CreationMoves DEF ClosingQuiet, ConstructThrows, data, poolVars,
     taskVars, settleVars, workerVars, schedVars, termVars, Keeps, Avoids,
     EndLabels, Moves
<1>3. ASSUME Discard
      PROVE  ClosingQuiet
  BY <1>3, CreationMoves DEF ClosingQuiet, Discard, poolVars, taskVars,
     settleVars, workerVars, schedVars, Keeps, Avoids, EndLabels, Moves
<1>4. ASSUME Uncreated
      PROVE  ClosingQuiet
  BY <1>4, CreationMoves DEF ClosingQuiet, Uncreated, poolVars, taskVars,
     settleVars, schedVars, termVars, Keeps, Avoids, EndLabels, Moves
<1>5. ASSUME Finally
      PROVE  ClosingQuiet
  BY <1>5, CreationMoves DEF ClosingQuiet, Finally, poolVars, taskVars,
     settleVars, workerVars, termVars, Keeps, Avoids, EndLabels, Moves
<1>6. ASSUME GotNothing
      PROVE  ClosingQuiet
  BY <1>6, CreationMoves DEF ClosingQuiet, GotNothing, data, poolVars,
     taskVars, settleVars, workerVars, schedVars, termVars, Keeps, Avoids,
     EndLabels, Moves
<1>7. ASSUME GotExpired
      PROVE  ClosingQuiet
  BY <1>7, CreationMoves DEF ClosingQuiet, GotExpired, poolVars, taskVars,
     workerVars, schedVars, termVars, Keeps, Avoids, EndLabels, Moves
<1>8. ASSUME NEW late, Dispatch(late)
      PROVE  ClosingQuiet
  BY <1>8, CreationMoves DEF ClosingQuiet, Dispatch, poolVars, termVars,
     Keeps, Avoids, EndLabels, Moves
<1> QED  BY <1>1, <1>2, <1>3, <1>4, <1>5, <1>6, <1>7, <1>8

(* ... the calls and their failures, ...                                     *)
LEMMA CallsClosing ==
  ASSUME TypeOK
  PROVE  /\ \A t \in Tasks : Microtask(t) => ClosingQuiet
         /\ CallMethod => ClosingQuiet
         /\ MethodCalled => ClosingQuiet
         /\ MethodThrows => ClosingQuiet
         /\ \A t \in Tasks : \A why : Answer(t, why) => ClosingQuiet
         /\ CompleteIgnored => ClosingQuiet
         /\ CompleteTask => ClosingQuiet
         /\ Completed => ClosingQuiet
         /\ \A t \in Tasks : TaskTimer(t) => ClosingQuiet
         /\ \A w \in Workers : WorkerError(w) => ClosingQuiet
         /\ FailureStarts => ClosingQuiet
         /\ \A t \in Tasks : FailTask(t) => ClosingQuiet
         /\ FailureEnds => ClosingQuiet
<1>1. ASSUME NEW t \in Tasks, Microtask(t)
      PROVE  ClosingQuiet
  BY <1>1, CallsMoves DEF ClosingQuiet, Microtask, poolVars, settleVars,
     workerVars, schedVars, termVars, Keeps, Avoids, EndLabels, Moves
<1>2. ASSUME CallMethod
      PROVE  ClosingQuiet
  BY <1>2, CallsMoves DEF ClosingQuiet, CallMethod, poolVars, settleVars,
     workerVars, schedVars, termVars, Keeps, Avoids, EndLabels, Moves
<1>3. ASSUME MethodCalled
      PROVE  ClosingQuiet
  BY <1>3, CallsMoves DEF ClosingQuiet, MethodCalled, poolVars, settleVars,
     workerVars, schedVars, termVars, Keeps, Avoids, EndLabels, Moves
<1>4. ASSUME MethodThrows
      PROVE  ClosingQuiet
  BY <1>4, CallsMoves DEF ClosingQuiet, MethodThrows, poolVars, settleVars,
     workerVars, schedVars, termVars, Keeps, Avoids, EndLabels, Moves
<1>5. ASSUME NEW t \in Tasks, NEW why, Answer(t, why)
      PROVE  ClosingQuiet
  BY <1>5, CallsMoves DEF ClosingQuiet, Answer, poolVars, settleVars,
     workerVars, schedVars, termVars, Keeps, Avoids, EndLabels, Moves
<1>6. ASSUME CompleteIgnored
      PROVE  ClosingQuiet
  BY <1>6, CallsMoves DEF ClosingQuiet, CompleteIgnored, data, poolVars,
     taskVars, settleVars, workerVars, schedVars, termVars, Keeps, Avoids,
     EndLabels, Moves
<1>7. ASSUME CompleteTask
      PROVE  ClosingQuiet
  BY <1>7, CallsMoves DEF ClosingQuiet, CompleteTask, poolVars, taskVars,
     schedVars, termVars, Keeps, Avoids, EndLabels, Moves
<1>8. ASSUME Completed
      PROVE  ClosingQuiet
  BY <1>8, CallsMoves DEF ClosingQuiet, Completed, poolVars, taskVars,
     settleVars, schedVars, termVars, Keeps, Avoids, EndLabels, Moves
<1>9. ASSUME NEW t \in Tasks, TaskTimer(t)
      PROVE  ClosingQuiet
  BY <1>9, CallsMoves DEF ClosingQuiet, TaskTimer, data, poolVars, taskVars,
     settleVars, workerVars, schedVars, termVars, Keeps, Avoids, EndLabels,
     Moves
<1>10. ASSUME NEW w \in Workers, WorkerError(w)
      PROVE  ClosingQuiet
  BY <1>10, CallsMoves DEF ClosingQuiet, WorkerError, data, poolVars,
     taskVars, settleVars, workerVars, schedVars, termVars, Keeps, Avoids,
     EndLabels, Moves
<1>11. ASSUME FailureStarts
      PROVE  ClosingQuiet
  BY <1>11, CallsMoves DEF ClosingQuiet, FailureStarts, poolVars, taskVars,
     settleVars, schedVars, termVars, Keeps, Avoids, EndLabels, Moves
<1>12. ASSUME NEW t \in Tasks, FailTask(t)
      PROVE  ClosingQuiet
  BY <1>12, CallsMoves DEF ClosingQuiet, FailTask, poolVars, taskVars,
     schedVars, termVars, Keeps, Avoids, EndLabels, Moves
<1>13. ASSUME FailureEnds
      PROVE  ClosingQuiet
  BY <1>13, CallsMoves DEF ClosingQuiet, FailureEnds, data, poolVars,
     taskVars, settleVars, workerVars, schedVars, termVars, Keeps, Avoids,
     EndLabels, Moves
<1> QED  BY <1>1, <1>2, <1>3, <1>4, <1>5, <1>6, <1>7, <1>8, <1>9, <1>10,
     <1>11, <1>12, <1>13

(* ... the termination attempts ...                                          *)
LEMMA TerminationClosing ==
  ASSUME TypeOK
  PROVE  /\ Attempt => ClosingQuiet
         /\ TerminatorReturns => ClosingQuiet
         /\ TerminatorThrows => ClosingQuiet
         /\ TerminatorPromises => ClosingQuiet
         /\ \A w \in Workers : PromiseConfirms(w) => ClosingQuiet
         /\ \A w \in Workers : PromiseConfirmsPastDeadline(w) => ClosingQuiet
         /\ ConfirmedPastDeadline => ClosingQuiet
         /\ \A w \in Workers : PromiseRejects(w) => ClosingQuiet
         /\ \A w \in Workers : AttemptTimer(w) => ClosingQuiet
         /\ \A w \in Workers : LateConfirm(w) => ClosingQuiet
         /\ \A w \in Workers : RetryTimer(w) => ClosingQuiet
         /\ \A w \in Workers : LifetimeTimer(w) => ClosingQuiet
         /\ \A w \in Workers : IdleTimer(w) => ClosingQuiet
<1>1. ASSUME Attempt
      PROVE  ClosingQuiet
  BY <1>1, TerminationMoves DEF ClosingQuiet, Attempt, poolVars, taskVars,
     settleVars, workerVars, schedVars, Keeps, Avoids, EndLabels, Moves
<1>2. ASSUME TerminatorReturns
      PROVE  ClosingQuiet
  BY <1>2, TerminationMoves DEF ClosingQuiet, TerminatorReturns, poolVars,
     taskVars, settleVars, workerVars, schedVars, Keeps, Avoids, EndLabels,
     Moves
<1>3. ASSUME TerminatorThrows
      PROVE  ClosingQuiet
  BY <1>3, TerminationMoves DEF ClosingQuiet, TerminatorThrows, poolVars,
     taskVars, settleVars, workerVars, schedVars, Keeps, Avoids, EndLabels,
     Moves
<1>4. ASSUME TerminatorPromises
      PROVE  ClosingQuiet
  BY <1>4, TerminationMoves DEF ClosingQuiet, TerminatorPromises, poolVars,
     taskVars, settleVars, workerVars, schedVars, Keeps, Avoids, EndLabels,
     Moves
<1>5. ASSUME NEW w \in Workers, PromiseConfirms(w)
      PROVE  ClosingQuiet
  BY <1>5, TerminationMoves DEF ClosingQuiet, PromiseConfirms, poolVars,
     taskVars, settleVars, workerVars, schedVars, Keeps, Avoids, EndLabels,
     Moves
<1>6. ASSUME NEW w \in Workers, PromiseConfirmsPastDeadline(w)
      PROVE  ClosingQuiet
  BY <1>6, TerminationMoves DEF ClosingQuiet, PromiseConfirmsPastDeadline,
     poolVars, taskVars, settleVars, workerVars, schedVars, Keeps, Avoids,
     EndLabels, Moves
<1>7. ASSUME ConfirmedPastDeadline
      PROVE  ClosingQuiet
  BY <1>7, TerminationMoves DEF ClosingQuiet, ConfirmedPastDeadline, poolVars,
     taskVars, settleVars, workerVars, schedVars, Keeps, Avoids, EndLabels,
     Moves
<1>8. ASSUME NEW w \in Workers, PromiseRejects(w)
      PROVE  ClosingQuiet
  BY <1>8, TerminationMoves DEF ClosingQuiet, PromiseRejects, poolVars,
     taskVars, settleVars, workerVars, schedVars, Keeps, Avoids, EndLabels,
     Moves
<1>9. ASSUME NEW w \in Workers, AttemptTimer(w)
      PROVE  ClosingQuiet
  BY <1>9, TerminationMoves DEF ClosingQuiet, AttemptTimer, poolVars,
     taskVars, settleVars, workerVars, schedVars, Keeps, Avoids, EndLabels,
     Moves
<1>10. ASSUME NEW w \in Workers, LateConfirm(w)
      PROVE  ClosingQuiet
  BY <1>10, TerminationMoves DEF ClosingQuiet, LateConfirm, poolVars,
     taskVars, settleVars, workerVars, schedVars, Keeps, Avoids, EndLabels,
     Moves
<1>11. ASSUME NEW w \in Workers, RetryTimer(w)
      PROVE  ClosingQuiet
  BY <1>11, TerminationMoves DEF ClosingQuiet, RetryTimer, poolVars, taskVars,
     settleVars, workerVars, schedVars, Keeps, Avoids, EndLabels, Moves
<1>12. ASSUME NEW w \in Workers, LifetimeTimer(w)
      PROVE  ClosingQuiet
  BY <1>12, TerminationMoves DEF ClosingQuiet, LifetimeTimer, poolVars,
     taskVars, settleVars, schedVars, termVars, Keeps, Avoids, EndLabels,
     Moves
<1>13. ASSUME NEW w \in Workers, IdleTimer(w)
      PROVE  ClosingQuiet
  BY <1>13, TerminationMoves DEF ClosingQuiet, IdleTimer, data, poolVars,
     taskVars, settleVars, workerVars, schedVars, termVars, Keeps, Avoids,
     EndLabels, Moves
<1> QED  BY <1>1, <1>2, <1>3, <1>4, <1>5, <1>6, <1>7, <1>8, <1>9, <1>10,
     <1>11, <1>12, <1>13

(* ... and the other steps of a shutdown.                                    *)
LEMMA ShutdownClosing ==
  ASSUME TypeOK
  PROVE  /\ Close => ClosingQuiet
         /\ Drain => ClosingQuiet
         /\ Drained => ClosingQuiet
         /\ TerminateWorker => ClosingQuiet
         /\ StatsFinishDrain => ClosingQuiet
         /\ UpdateStats => ClosingQuiet
         /\ Return => ClosingQuiet
<1>1. ASSUME Close
      PROVE  ClosingQuiet
  BY <1>1, ShutdownMoves DEF ClosingQuiet, Close, taskVars, settleVars,
     workerVars, schedVars, termVars, Keeps, Avoids, EndLabels, Moves
<1>2. ASSUME Drain
      PROVE  ClosingQuiet
  BY <1>2, ShutdownMoves DEF ClosingQuiet, Drain, taskVars, settleVars,
     workerVars, schedVars, termVars, Keeps, Avoids, EndLabels, Moves
<1>3. ASSUME Drained
      PROVE  ClosingQuiet
  BY <1>3, ShutdownMoves DEF ClosingQuiet, Drained, data, poolVars, taskVars,
     settleVars, workerVars, schedVars, termVars, Keeps, Avoids, EndLabels,
     Moves
<1>4. ASSUME TerminateWorker
      PROVE  ClosingQuiet
  BY <1>4, ShutdownMoves DEF ClosingQuiet, TerminateWorker, data, poolVars,
     taskVars, settleVars, workerVars, schedVars, termVars, Keeps, Avoids,
     EndLabels, Moves
<1>5. ASSUME StatsFinishDrain
      PROVE  ClosingQuiet
  BY <1>5, ShutdownMoves DEF ClosingQuiet, StatsFinishDrain, data, poolVars,
     taskVars, settleVars, workerVars, schedVars, termVars, Keeps, Avoids,
     EndLabels, Moves
<1>6. ASSUME UpdateStats
      PROVE  ClosingQuiet
  BY <1>6, ShutdownMoves DEF ClosingQuiet, UpdateStats, taskVars, settleVars,
     workerVars, schedVars, termVars, Keeps, Avoids, EndLabels, Moves
<1>7. ASSUME Return
      PROVE  ClosingQuiet
  BY <1>7, ShutdownMoves DEF ClosingQuiet, Return, data, poolVars, taskVars,
     settleVars, workerVars, schedVars, termVars, Keeps, Avoids, EndLabels,
     Moves
<1> QED  BY <1>1, <1>2, <1>3, <1>4, <1>5, <1>6, <1>7

-----------------------------------------------------------------------------
(* A closed pool sheds its workers.                                          *)

(* Such steps keep the promise to remove every worker.                       *)
LEMMA QuietClosing ==
  ASSUME Closing, EndFrames, ClosingQuiet
  PROVE  Closing' /\ EndFrames'
<1>1. EndFrames'
  BY DEF EndFrames, ClosingQuiet, Avoids
<1>2. Closing'
  <2> SUFFICES ASSUME terminationStarted', NEW w \in workers'
               PROVE  \E i \in 1..Len(stack') :
                        \/ stack'[i].at = "termworkers"
                        \/ stack'[i].at = "created" /\ stack'[i].w = w
                        \/ /\ stack'[i].at = "remove"
                           /\ stack'[i].why = "force" /\ stack'[i].w = w
    BY DEF Closing
  <2>1. PICK i \in 1..Len(stack) :
          \/ stack[i].at = "termworkers"
          \/ stack[i].at = "created" /\ stack[i].w = w
          \/ stack[i].at = "remove" /\ stack[i].why = "force" /\ stack[i].w = w
    BY DEF Closing, ClosingQuiet
  <2>2. i \in 1..Len(stack') /\ stack'[i] = stack[i]
    BY <2>1 DEF ClosingQuiet, Keeps, EndLabels
  <2> QED  BY <2>1, <2>2
<1> QED  BY <1>1, <1>2

(* Creating and removing workers of a closing pool.                          *)
LEMMA WorkersKeepClosing ==
  ASSUME TypeOK, Closing, EndFrames
  PROVE  /\ \A w \in Workers : ConstructOk(w) => Closing' /\ EndFrames'
         /\ CreatedReady => Closing' /\ EndFrames'
         /\ CreatedExpired => Closing' /\ EndFrames'
         /\ CreatedTooLate => Closing' /\ EndFrames'
         /\ RemoveWorker => Closing' /\ EndFrames'
         /\ RemoveSkipped => Closing' /\ EndFrames'
<1> USE DEF poolVars
<1>1. ASSUME NEW w \in Workers, ConstructOk(w)
      PROVE  Closing' /\ EndFrames'
  <2> DEFINE f == Yield("event", On("created", w))
  <2>1. Moves({"construct"}, {"created"})
    BY <1>1, CreationMoves
  <2>2. /\ workers' = workers \cup {w}
        /\ terminationStarted' = terminationStarted
        /\ Proceed(<<f>>)
    BY <1>1 DEF ConstructOk
  <2>3. f.at = "created" /\ f.w = w
    BY LabelsOf, FieldsOf
  <2> HIDE DEF f
  <2>4. stack # <<>> /\ stack \in Seq(Frames)
    BY <1>1, RunningFrame DEF ConstructOk
  <2>5. Len(stack) \in 1..Len(stack') /\ stack'[Len(stack)] = f
    BY <2>2, <2>4, Goes1
  <2>6. EndFrames'
    BY <2>1, <2>2 DEF EndFrames, Moves
  <2>7. \A i \in 1..Len(stack) : stack[i].at \in EndLabels =>
          i \in 1..Len(stack') /\ stack'[i] = stack[i]
    BY <2>1 DEF Moves, EndLabels
  <2>8. Closing'
    BY <2>2, <2>3, <2>5, <2>7 DEF Closing, EndLabels
  <2> QED  BY <2>6, <2>8
<1>2. ASSUME CreatedReady \/ CreatedExpired
      PROVE  Closing' /\ EndFrames'
  <2>1. Moves({"created"}, {"finally", "stats", "next", "remove"})
    BY <1>2, CreationMoves DEF Moves
  <2>2. ~terminationStarted /\ ~terminationStarted'
    BY <1>2 DEF CreatedReady, CreatedExpired
  <2> QED  BY <2>1, <2>2 DEF Closing, EndFrames, Moves
<1>3. ASSUME CreatedTooLate
      PROVE  Closing' /\ EndFrames'
  <2> DEFINE f == At("finally")
             g == Remove(Top.w, "force")
  <2>1. Moves({"created"}, {"finally", "remove"})
    BY <1>3, CreationMoves
  <2>2. /\ workers' = workers /\ terminationStarted' = terminationStarted
        /\ Proceed(<<f, g>>)
    BY <1>3 DEF CreatedTooLate, data, workerVars
  <2>3. g.at = "remove" /\ g.why = "force" /\ g.w = Top.w
    BY LabelsOf, FieldsOf
  <2> HIDE DEF f, g
  <2>4. /\ stack # <<>> /\ stack \in Seq(Frames)
        /\ Len(stack) \in Nat \ {0} /\ Top = stack[Len(stack)]
    BY <1>3, RunningFrame, TopIsFrame DEF CreatedTooLate
  <2>5. Len(stack) + 1 \in 1..Len(stack') /\ stack'[Len(stack) + 1] = g
    BY <2>2, <2>4, Goes2
  <2>6. EndFrames'
    BY <2>1, <2>2 DEF EndFrames, Moves
  <2>7. \A i \in 1..(Len(stack) - 1) :
          i \in 1..Len(stack') /\ stack'[i] = stack[i]
    BY <2>2, <2>4, Goes2
  <2>8. \A i \in 1..Len(stack) : i \in 1..(Len(stack) - 1) \/ i = Len(stack)
    BY <2>4
  <2>9. Top.at = "created"
    BY <1>3 DEF CreatedTooLate, Running
  <2>10. Closing'
    BY <2>2, <2>3, <2>4, <2>5, <2>7, <2>8, <2>9 DEF Closing
  <2> QED  BY <2>6, <2>10
<1>4. ASSUME RemoveWorker \/ RemoveSkipped
      PROVE  Closing' /\ EndFrames'
  <2>1. Moves({"remove"}, {"attempt"})
    BY <1>4, TerminationMoves DEF Moves
  <2>2. /\ stack # <<>> /\ stack \in Seq(Frames) /\ Top.at = "remove"
        /\ Len(stack) \in Nat \ {0} /\ Top = stack[Len(stack)]
    BY <1>4, RunningFrame, TopIsFrame DEF RemoveWorker, RemoveSkipped
  <2>3. /\ terminationStarted' = terminationStarted
        /\ workers' \subseteq workers
        /\ Top.why = "force" => Top.w \notin workers'
    BY <1>4 DEF RemoveWorker, RemoveSkipped, MayRemove, data, workerVars
  <2>4. EndFrames'
    BY <2>1, <2>3 DEF EndFrames, Moves
  <2>5. \A i \in 1..(Len(stack) - 1) :
          i \in 1..Len(stack') /\ stack'[i] = stack[i]
    <3>1. CASE RemoveSkipped
      BY <2>2, <3>1, Goes0 DEF RemoveSkipped
    <3>2. CASE RemoveWorker
      <4>1. PICK f : Proceed(<<f>>)
        BY <3>2 DEF RemoveWorker
      <4> QED  BY <2>2, <4>1, Goes1
    <3> QED  BY <1>4, <3>1, <3>2
  <2>6. \A i \in 1..Len(stack) : i \in 1..(Len(stack) - 1) \/ i = Len(stack)
    BY <2>2
  <2>7. Closing'
    BY <2>2, <2>3, <2>5, <2>6 DEF Closing
  <2> QED  BY <2>4, <2>7
<1> QED  BY <1>1, <1>2, <1>3, <1>4

(* terminateAll() itself.                                                    *)
LEMMA ShutdownKeepsClosing ==
  ASSUME TypeOK, Closing, EndFrames
  PROVE  /\ TerminateAll => Closing' /\ EndFrames'
         /\ TerminateWorkers => Closing' /\ EndFrames'
         /\ \A t \in Tasks : TerminateTask(t) => Closing' /\ EndFrames'
<1> USE DEF poolVars
<1>1. ASSUME TerminateAll
      PROVE  Closing' /\ EndFrames'
  <2> DEFINE f == At("termworkers")
             g == SettleEach(queue, "pool-closed")
  <2>1. f.at = "termworkers"
    BY LabelsOf
  <2>2. terminationStarted' /\ Proceed(<<f, g>>)
    BY <1>1 DEF TerminateAll
  <2> HIDE DEF f, g
  <2>3. stack # <<>> /\ stack \in Seq(Frames)
    BY <1>1, RunningFrame DEF TerminateAll
  <2>4. Len(stack) \in 1..Len(stack') /\ stack'[Len(stack)] = f
    BY <2>2, <2>3, Goes2
  <2> QED  BY <2>1, <2>2, <2>4 DEF Closing, EndFrames
<1>2. ASSUME TerminateWorkers
      PROVE  Closing' /\ EndFrames'
  <2> DEFINE f == At("termworkers")
  <2>1. f.at = "termworkers"
    BY LabelsOf
  <2>2. /\ terminationStarted' = terminationStarted /\ workers' = workers
        /\ \/ \E w \in workers : Proceed(<<f, On("termtasks", w)>>)
           \/ workers = {}
    BY <1>2 DEF TerminateWorkers, data, workerVars
  <2> HIDE DEF f
  <2>3. /\ stack # <<>> /\ stack \in Seq(Frames) /\ Top.at = "termworkers"
        /\ Len(stack) \in 1..Len(stack) /\ Top = stack[Len(stack)]
    BY <1>2, RunningFrame, TopIsFrame DEF TerminateWorkers
  <2>4. terminationStarted
    BY <2>3 DEF EndFrames
  <2>5. EndFrames'
    BY <2>2, <2>4 DEF EndFrames
  <2>6. ASSUME NEW g, Proceed(<<f, g>>)
        PROVE  Closing'
    <3>1. Len(stack) \in 1..Len(stack') /\ stack'[Len(stack)] = f
      BY <2>3, <2>6, Goes2
    <3> QED  BY <2>1, <3>1 DEF Closing
  <2>7. ASSUME workers = {}
        PROVE  Closing'
    <3>1. workers' = {}
      BY <2>2, <2>7
    <3> QED  BY <3>1 DEF Closing
  <2> QED  BY <2>2, <2>5, <2>6, <2>7
<1>3. ASSUME NEW t \in Tasks, TerminateTask(t)
      PROVE  Closing' /\ EndFrames'
  <2>1. Moves({"termtasks"}, {"termtasks"})
    BY <1>3, ShutdownMoves
  <2>2. Len(stack) \in 1..Len(stack) /\ stack[Len(stack)].at = "termtasks"
    BY <1>3, RunningFrame, TopIsFrame DEF TerminateTask
  <2>3. terminationStarted' = terminationStarted /\ workers' = workers
    BY <1>3 DEF TerminateTask
  <2>4. terminationStarted
    BY <2>2 DEF EndFrames
  <2>5. \A i \in 1..Len(stack) : stack[i].at \in EndLabels =>
          i \in 1..Len(stack') /\ stack'[i] = stack[i]
    BY <2>1 DEF Moves, EndLabels
  <2>6. Closing'
    BY <2>3, <2>5 DEF Closing, EndLabels
  <2> QED  BY <2>3, <2>4, <2>6 DEF EndFrames
<1> QED  BY <1>1, <1>2, <1>3

(* Time and stuttering too.                                                  *)
LEMMA StillClosing ==
  ASSUME TypeOK, Time \/ UNCHANGED vars
  PROVE  ClosingQuiet
<1>1. UNCHANGED <<workers, terminationStarted, stack>>
  BY DEF vars, data, poolVars, workerVars, Time, QueueDeadline, TaskDeadline,
         LifetimePasses, ClockMoves
<1> QED  BY <1>1 DEF ClosingQuiet, Keeps, Avoids

(* Every step keeps it.                                                      *)
LEMMA NextClosing ==
  ASSUME TypeOK, Closing, EndFrames, [Next]_vars
  PROVE  Closing' /\ EndFrames'
<1>1. ClosingQuiet => Closing' /\ EndFrames'
  BY QuietClosing
<1>2. ASSUME Code
      PROVE  Closing' /\ EndFrames'
  BY <1>1, <1>2, SubmissionClosing, SchedulingClosing, CreationClosing,
     CallsClosing, TerminationClosing, ShutdownClosing, WorkersKeepClosing,
     ShutdownKeepsClosing DEF Code
<1>3. ASSUME Faults \/ User
      PROVE  Closing' /\ EndFrames'
  BY <1>1, <1>3, SubmissionClosing, CallsClosing, ShutdownClosing
     DEF Faults, User
<1>4. ASSUME World
      PROVE  Closing' /\ EndFrames'
  BY <1>1, <1>4, CallsClosing, TerminationClosing DEF World
<1>5. ASSUME NEW t \in Tasks, TaskTimers(t)
      PROVE  Closing' /\ EndFrames'
  BY <1>1, <1>5, SubmissionClosing, CallsClosing DEF TaskTimers
<1>6. ASSUME NEW w \in Workers, WorkerTimers(w)
      PROVE  Closing' /\ EndFrames'
  BY <1>1, <1>6, TerminationClosing DEF WorkerTimers
<1>7. ASSUME Time \/ UNCHANGED vars \/ Finished
      PROVE  Closing' /\ EndFrames'
  BY <1>1, <1>7, StillClosing DEF Finished
<1> QED  BY <1>2, <1>3, <1>4, <1>5, <1>6, <1>7 DEF Next

(* A worker that is managed after terminateAll() has started is one that the *)
(* running code is about to remove: a worker that was under construction     *)
(* when the pool was closed is removed as soon as it exists.                 *)
THEOREM ClosedPoolSheds == Spec => [](Closing /\ EndFrames)
<1>1. Init => Closing /\ EndFrames
  <2>1. ASSUME Init
        PROVE  ~terminationStarted /\ Len(stack) = 0
    BY <2>1 DEF Init
  <2> QED  BY <2>1 DEF Closing, EndFrames
<1>2. TypeOK /\ Closing /\ EndFrames /\ [Next]_vars => Closing' /\ EndFrames'
  BY NextClosing
<1>3. IInv => TypeOK
  BY DEF IInv
<1> QED  BY <1>1, <1>2, <1>3, Invariance, PTL DEF Spec

-----------------------------------------------------------------------------
(* Every settlement has its reason.                                          *)

(* The reasons for which a step of the pool may settle t.                    *)
GoodReason(t, why) ==
  /\ why \in Settlements
  /\ outcome[t] # "unborn"
  /\ why \in {"queue-timeout", "dropped", "queue-rejected"} =>
       phase[t] = "none"
  /\ why = "fulfilled" =>
       phase[t] = "done" /\ ~terminationStarted /\ t \notin tLate
  /\ why = "rejected" => phase[t] # "invoked"
  /\ why = "pool-closed" => terminationStarted
(* A step that settles t as why and shows a caller nothing else.             *)
Settles(t, why) ==
  /\ Settle(t, why)
  /\ UNCHANGED <<submittedTasks, phase, accepting, drainRequested,
                 terminationStarted>>

(* A pool with a managed worker in which a call is running is not closed.    *)
LEMMA HostedIsOpen ==
  ASSUME TypeOK, TaskInv, Closing, NEW l \in CallLabels, Running(l),
         workers # {}
  PROVE  ~terminationStarted
<1>1. Len(stack) = 1 /\ stack[1].at = l
  BY CallAlone DEF Running
<1>2. \A i \in 1..Len(stack) : stack[i].at \in CallLabels
  BY <1>1
<1> QED  BY <1>2 DEF Closing, CallLabels

(* Each handler that settles a task has such a reason: in particular a task  *)
(* is fulfilled only by its answer in an open pool before its deadline, and  *)
(* the queue's errors reach only tasks that never started.                   *)
LEMMA SettlersHaveReasons ==
  ASSUME TypeOK, TaskInv, Closing, EndFrames
  PROVE  /\ SettleNext \/ SignalThrows \/ ArmLate \/ GotExpired \/ CompleteTask
              => \E t \in Tasks, why \in Settlements :
                   Settles(t, why) /\ GoodReason(t, why)
         /\ \A t \in Tasks :
              Abort(t) \/ QueueTimer(t) \/ FailTask(t) \/ TerminateTask(t)
              => \E why \in Settlements :
                   Settles(t, why) /\ GoodReason(t, why)
<1> USE DEF poolVars, taskVars, settleVars, workerVars, schedVars, termVars
<1>1. ASSUME SettleNext
      PROVE  \E t \in Tasks, why \in Settlements :
               Settles(t, why) /\ GoodReason(t, why)
  <2> DEFINE t == Head(Top.ts)
             why == Top.why
  <2>1. /\ Len(stack) \in 1..Len(stack) /\ Top = stack[Len(stack)]
        /\ Top.at = "settle" /\ Top.ts \in Seq(Tasks) /\ why \in Settlements
    BY <1>1, RunningFrame, TopIsFrame DEF SettleNext
  <2>2. Top.ts # <<>> /\ Settles(t, why)
    BY <1>1 DEF SettleNext, Settles
  <2>3. t \in Tasks /\ t \in Elems(Top.ts)
    BY <2>1, <2>2, TailElems
  <2>4. phase[t] = "none" /\ outcome[t] # "unborn"
    BY <2>1, <2>3 DEF TaskInv, HeldSound, HeldLabels
  <2>5. /\ why \in {"rejected", "dropped", "queue-rejected", "pool-closed"}
        /\ why = "pool-closed" => terminationStarted
    BY <2>1 DEF TaskInv, Reasons
  <2> HIDE DEF t, why
  <2>6. GoodReason(t, why)
    BY <2>1, <2>4, <2>5 DEF GoodReason
  <2> QED  BY <2>1, <2>2, <2>3, <2>6
<1>2. ASSUME SignalThrows
      PROVE  \E t \in Tasks, why \in Settlements :
               Settles(t, why) /\ GoodReason(t, why)
  <2> DEFINE t == Top.ts[1]
  <2>1. /\ Len(stack) \in 1..Len(stack) /\ Top = stack[Len(stack)]
        /\ Top.at = "insert"
    BY <1>2, RunningFrame, TopIsFrame DEF SignalThrows
  <2>2. Settles(t, "rejected")
    BY <1>2 DEF SignalThrows, Settles
  <2>3. t \in Tasks /\ t \in Elems(Top.ts)
    BY <2>1, FrameTasks DEF TaskLabels
  <2>4. phase[t] = "none" /\ outcome[t] # "unborn"
    BY <2>1, <2>3 DEF TaskInv, HeldSound, HeldLabels
  <2> HIDE DEF t
  <2>5. GoodReason(t, "rejected")
    BY <2>4 DEF GoodReason, Settlements
  <2> QED  BY <2>2, <2>3, <2>5 DEF Settlements
<1>3. ASSUME ArmLate \/ GotExpired
      PROVE  \E t \in Tasks, why \in Settlements :
               Settles(t, why) /\ GoodReason(t, why)
  <2>1. PICK t \in Elems(queue) : Settles(t, "queue-timeout")
    BY <1>3 DEF ArmLate, GotExpired, Firsts, Settles
  <2>2. t \in Tasks /\ phase[t] = "none" /\ outcome[t] # "unborn"
    BY QueueTasks DEF TaskInv, TaskData, QueuedOnce, Pending
  <2>3. GoodReason(t, "queue-timeout")
    BY <2>2 DEF GoodReason, Settlements
  <2> QED  BY <2>1, <2>2, <2>3 DEF Settlements
<1>4. ASSUME CompleteTask
      PROVE  \E t \in Tasks, why \in Settlements :
               Settles(t, why) /\ GoodReason(t, why)
  <2> DEFINE t == Top.ts[1]
             why == Top.why
  <2>1. /\ t \in Tasks /\ phase[t] = "done"
        /\ why \in {"fulfilled", "rejected"}
    BY <1>4, CallAlone DEF CompleteTask, CallLabels
  <2>2. Settles(t, why) /\ MayCall(t) /\ Running("complete")
    BY <1>4 DEF CompleteTask, Settles
  <2> HIDE DEF t, why
  <2>3. PICK w \in workers : t \in activeTasks[w]
    BY <2>2 DEF MayCall, Hosts
  <2>4. ~terminationStarted
    BY <2>2, <2>3, HostedIsOpen DEF CallLabels
  <2>5. outcome[t] # "unborn"
    BY <2>1, <2>3 DEF TaskInv, TaskData, Slots, TypeOK
  <2>6. GoodReason(t, why)
    BY <2>1, <2>2, <2>4, <2>5 DEF GoodReason, MayCall, Settlements
  <2> QED  BY <2>1, <2>2, <2>6 DEF Settlements
<1>5. ASSUME NEW t \in Tasks, Abort(t)
      PROVE  Settles(t, "aborted") /\ GoodReason(t, "aborted")
  BY <1>5 DEF Abort, Settles, GoodReason, Settlements, Pending
<1>6. ASSUME NEW t \in Tasks, QueueTimer(t)
      PROVE  Settles(t, "queue-timeout") /\ GoodReason(t, "queue-timeout")
  <2>1. t \in Elems(queue) /\ Settles(t, "queue-timeout")
    BY <1>6 DEF QueueTimer, Settles
  <2>2. phase[t] = "none" /\ outcome[t] # "unborn"
    BY <2>1 DEF TaskInv, TaskData, QueuedOnce, Pending
  <2> QED  BY <2>1, <2>2 DEF GoodReason, Settlements
<1>7. ASSUME NEW t \in Tasks, FailTask(t)
      PROVE  \E why \in Settlements : Settles(t, why) /\ GoodReason(t, why)
  <2> DEFINE why == IF <<t>> = Top.ts THEN "task-timeout" ELSE "worker-failure"
  <2>1. Top.w \in Workers /\ t \in activeTasks[Top.w] /\ Settles(t, why)
    BY <1>7, RunningFrame DEF FailTask, WorkerLabels, Settles
  <2>2. outcome[t] # "unborn"
    BY <2>1 DEF TaskInv, TaskData, Slots
  <2> QED  BY <2>1, <2>2 DEF GoodReason, Settlements
<1>8. ASSUME NEW t \in Tasks, TerminateTask(t)
      PROVE  Settles(t, "pool-closed") /\ GoodReason(t, "pool-closed")
  <2>1. /\ Len(stack) \in 1..Len(stack) /\ Top = stack[Len(stack)]
        /\ Top.at = "termtasks" /\ Top.w \in Workers
    BY <1>8, RunningFrame, TopIsFrame DEF TerminateTask, WorkerLabels
  <2>2. t \in activeTasks[Top.w] /\ Settles(t, "pool-closed")
    BY <1>8 DEF TerminateTask, Settles
  <2>3. outcome[t] # "unborn" /\ terminationStarted
    BY <2>1, <2>2 DEF TaskInv, TaskData, Slots, EndFrames
  <2> QED  BY <2>2, <2>3 DEF GoodReason, Settlements
<1> QED  BY <1>1, <1>2, <1>3, <1>4, <1>5, <1>6, <1>7, <1>8 DEF Settlements

(* Cutting the queue settles nobody yet.                                     *)
LEMMA CutsSettleNobody ==
  ASSUME Insert \/ EnforceQueueLimit \/ RejectQueue \/ RejectBacklog
  PROVE  UNCHANGED <<submittedTasks, outcome, phase, accepting, drainRequested,
                     terminationStarted>>
BY DEF Insert, EnforceQueueLimit, RejectQueue, RejectBacklog, poolVars,
       taskVars, settleVars

-----------------------------------------------------------------------------
(* The order of the dispatches and the deadlines.                            *)

(* What a caller can see of a step: nothing, or ...                          *)
Unseen ==
  UNCHANGED <<submittedTasks, outcome, phase, accepting, drainRequested,
              terminationStarted>>
(* ... the method of t is called, ...                                        *)
Begins(t) ==
  /\ phase[t] = "scheduled" /\ outcome[t] \in {"pending", "aborted"}
  /\ ~terminationStarted /\ t \notin tLate
  /\ phase' = [phase EXCEPT ![t] = "invoked"]
  /\ UNCHANGED <<submittedTasks, outcome, accepting, drainRequested,
                 terminationStarted>>
(* ... or its call is over.                                                  *)
Ends(t) ==
  /\ phase[t] \in {"scheduled", "invoked"} /\ outcome[t] # "unborn"
  /\ phase' = [phase EXCEPT ![t] = "done"]
  /\ UNCHANGED <<submittedTasks, outcome, accepting, drainRequested,
                 terminationStarted>>

(* What a caller can see of the steps of a call.                             *)
LEMMA CallsAreSeen ==
  ASSUME TypeOK, TaskInv, Closing
  PROVE  /\ CallMethod \/ MethodCalled \/ MethodThrows =>
              Unseen \/ \E t \in Tasks : Begins(t) \/ Ends(t)
         /\ \A t \in Tasks : Microtask(t) => Unseen \/ Ends(t)
         /\ \A t \in Tasks : \A why : Answer(t, why) => Ends(t)
<1> USE DEF poolVars, taskVars, settleVars, workerVars
<1>1. ASSUME CallMethod
      PROVE  \E t \in Tasks : Begins(t) \/ Ends(t)
  <2> DEFINE t == Top.ts[1]
  <2>1. t \in Tasks /\ phase[t] = "scheduled" /\ Running("lookup")
    BY <1>1, CallAlone DEF CallMethod, CallLabels
  <2>2. /\ phase' = [phase EXCEPT ![t] = IF MayCall(t) THEN "invoked"
                                         ELSE "done"]
        /\ UNCHANGED <<submittedTasks, outcome, accepting, drainRequested,
                       terminationStarted>>
    BY <1>1 DEF CallMethod
  <2> HIDE DEF t
  <2>3. outcome[t] # "unborn"
    BY <2>1 DEF TaskInv, TaskData, Births, TypeOK, Tasks
  <2>4. CASE ~MayCall(t)
    BY <2>1, <2>2, <2>3, <2>4 DEF Ends
  <2>5. CASE MayCall(t)
    <3>1. PICK w \in workers : t \in activeTasks[w]
      BY <2>5 DEF MayCall, Hosts
    <3>2. ~terminationStarted
      BY <2>1, <3>1, HostedIsOpen DEF CallLabels
    <3>3. outcome[t] \in {"pending", "aborted"} /\ t \notin tLate
      BY <2>1, <2>5, <3>1 DEF TaskInv, TaskData, Slots, TypeOK, MayCall
    <3>4. Begins(t)
      BY <2>1, <2>2, <2>5, <3>2, <3>3 DEF Begins
    <3> QED  BY <2>1, <3>4
  <2> QED  BY <2>4, <2>5
<1>2. ASSUME MethodCalled \/ MethodThrows
      PROVE  Unseen \/ \E t \in Tasks : Ends(t)
  <2> DEFINE t == Top.ts[1]
  <2>1. t \in Tasks /\ phase[t] \in {"scheduled", "invoked"}
    BY <1>2, CallAlone DEF MethodCalled, MethodThrows, CallLabels
  <2>2. /\ phase' = phase \/ phase' = [phase EXCEPT ![t] = "done"]
        /\ UNCHANGED <<submittedTasks, outcome, accepting, drainRequested,
                       terminationStarted>>
    BY <1>2 DEF MethodCalled, MethodThrows
  <2> HIDE DEF t
  <2>3. outcome[t] # "unborn"
    BY <2>1 DEF TaskInv, TaskData, Births, TypeOK, Tasks
  <2> QED  BY <2>1, <2>2, <2>3 DEF Ends, Unseen
<1>3. ASSUME NEW t \in Tasks, Microtask(t)
      PROVE  Unseen \/ Ends(t)
  <2>1. /\ phase[t] = "scheduled"
        /\ phase' = phase \/ phase' = [phase EXCEPT ![t] = "done"]
        /\ UNCHANGED <<submittedTasks, outcome, accepting, drainRequested,
                       terminationStarted>>
    BY <1>3 DEF Microtask
  <2>2. outcome[t] # "unborn"
    BY <2>1 DEF TaskInv, TaskData, Births, TypeOK, Tasks
  <2> QED  BY <2>1, <2>2 DEF Ends, Unseen
<1>4. ASSUME NEW t \in Tasks, NEW why, Answer(t, why)
      PROVE  Ends(t)
  <2>1. /\ phase[t] = "invoked" /\ phase' = [phase EXCEPT ![t] = "done"]
        /\ UNCHANGED <<submittedTasks, outcome, accepting, drainRequested,
                       terminationStarted>>
    BY <1>4 DEF Answer
  <2>2. outcome[t] # "unborn"
    BY <2>1 DEF TaskInv, TaskData, Births, TypeOK, Tasks
  <2> QED  BY <2>1, <2>2 DEF Ends
<1> QED  BY <1>1, <1>2, <1>3, <1>4

(* Every step is one of these, the settlement of one task, the submission or *)
(* the dispatch of one, or the beginning of a drain or of the shutdown.      *)
LEMMA CallerSteps ==
  ASSUME TypeOK, TaskInv, Closing, EndFrames, [Next]_vars
  PROVE  \/ Unseen
         \/ \E t \in Tasks : Begins(t) \/ Ends(t)
         \/ \E t \in Tasks, why \in Settlements :
              Settles(t, why) /\ GoodReason(t, why)
         \/ \E p \in Priorities, timed \in QueueTimed : Run(p, timed)
         \/ \E late \in BOOLEAN : Dispatch(late)
         \/ Drain \/ TerminateAll
<1>1. TaskQuiet => Unseen
  BY DEF TaskQuiet, Unseen
<1>2. Insert \/ EnforceQueueLimit \/ RejectQueue \/ RejectBacklog => Unseen
  BY CutsSettleNobody DEF Unseen
<1> QED
  BY <1>1, <1>2, TaskSteps, SettlersHaveReasons, CallsAreSeen DEF TaskStep

(* The invariant of the tasks and of a closing pool.                         *)
LEMMA TaskInvariance == Spec => [](TypeOK /\ TaskInv /\ Closing /\ EndFrames)
<1>1. IInv => TypeOK
  BY DEF IInv
<1> QED  BY <1>1, TasksTracked, ClosedPoolSheds, PTL

(* A dispatch takes a first task of the queue whose deadline has not passed. *)
LEMMA DispatchesFirst ==
  ASSUME TypeOK, TaskInv, NEW late \in BOOLEAN, Dispatch(late)
  PROVE  \E t \in Firsts(queue, priority) :
           /\ ~QueueDeadlinePassed(t)
           /\ t \in Tasks /\ phase[t] = "none"
           /\ phase' = [phase EXCEPT ![t] = "scheduled"]
           /\ Elems(queue') = Elems(queue) \ {t}
<1>1. PICK t \in Firsts(queue, priority) :
         /\ ~QueueDeadlinePassed(t) /\ queue' = Without(queue, t)
         /\ phase' = [phase EXCEPT ![t] = "scheduled"]
  BY DEF Dispatch
<1>2. t \in Elems(queue)
  BY DEF Firsts
<1>3. t \in Tasks /\ phase[t] = "none" /\ Elems(queue') = Elems(queue) \ {t}
  BY <1>1, <1>2, QueueTasks, WithoutSound DEF TaskInv, TaskData, QueuedOnce,
     TypeOK
<1> QED  BY <1>1, <1>3

(* Only _dispatch() dispatches, and no task whose queue deadline has passed. *)
LEMMA OnlyDispatch ==
  ASSUME TypeOK, TaskInv, Closing, EndFrames, [Next]_vars,
         NEW t \in Tasks, Dispatched(t)
  PROVE  ~QueueDeadlinePassed(t)
<1>1. phase[t] = "none" /\ phase'[t] = "scheduled"
  BY DEF Dispatched
<1>2. ~Unseen /\ ~(Drain \/ TerminateAll)
  BY <1>1 DEF Unseen, Drain, TerminateAll, taskVars
<1>3. \A u \in Tasks : ~Begins(u) /\ ~Ends(u)
  BY <1>1 DEF Begins, Ends, TypeOK
<1>4. \A u, why : ~Settles(u, why)
  BY <1>1 DEF Settles
<1>5. \A p, timed : ~Run(p, timed)
  BY <1>1 DEF Run
<1>6. PICK late \in BOOLEAN : Dispatch(late)
  BY <1>2, <1>3, <1>4, <1>5, CallerSteps
<1>7. PICK u \in Firsts(queue, priority) :
        /\ ~QueueDeadlinePassed(u) /\ u \in Tasks
        /\ phase' = [phase EXCEPT ![u] = "scheduled"]
  BY <1>6, DispatchesFirst
<1>8. u = t
  BY <1>1, <1>7 DEF TypeOK
<1> QED  BY <1>7, <1>8

(* A task whose queue deadline has passed is never dispatched; one whose     *)
(* task deadline has passed is never called, and never fulfilled.            *)
THEOREM DeadlinesRespected == Spec => DeadlineRespected
<1>1. ASSUME TypeOK, TaskInv, Closing, EndFrames, [Next]_vars
      PROVE  [\A t \in Tasks :
                /\ Dispatched(t) => ~QueueDeadlinePassed(t)
                /\ Starts(t) => t \notin tLate
                /\ SettledAs(t, "fulfilled") => t \notin tLate]_vars
  <2>1. \A t \in Tasks : Dispatched(t) => ~QueueDeadlinePassed(t)
    BY <1>1, OnlyDispatch
  <2>2. ASSUME NEW t \in Tasks, Starts(t)
        PROVE  t \notin tLate
    <3>1. phase[t] # "invoked" /\ phase'[t] = "invoked"
      BY <2>2 DEF Starts
    <3>2. ~Unseen /\ ~(Drain \/ TerminateAll)
      BY <3>1 DEF Unseen, Drain, TerminateAll, taskVars
    <3>3. \A u \in Tasks : ~Ends(u)
      BY <1>1, <3>1 DEF Ends, TypeOK
    <3>4. \A u, why : ~Settles(u, why)
      BY <3>1 DEF Settles
    <3>5. \A p, timed : ~Run(p, timed)
      BY <3>1 DEF Run
    <3>6. ASSUME NEW late \in BOOLEAN, Dispatch(late)
          PROVE  FALSE
      <4>1. PICK u \in Tasks : phase' = [phase EXCEPT ![u] = "scheduled"]
        BY <1>1, <3>6, DispatchesFirst
      <4> QED  BY <1>1, <3>1, <4>1 DEF TypeOK
    <3>7. PICK u \in Tasks : Begins(u)
      BY <1>1, <3>2, <3>3, <3>4, <3>5, <3>6, CallerSteps
    <3>8. u = t
      BY <1>1, <3>1, <3>7 DEF Begins, TypeOK
    <3> QED  BY <3>7, <3>8 DEF Begins
  <2>3. ASSUME NEW t \in Tasks, SettledAs(t, "fulfilled")
        PROVE  t \notin tLate
    <3>1. outcome[t] = "pending" /\ outcome'[t] = "fulfilled"
      BY <2>3 DEF SettledAs, Pending
    <3>2. ~Unseen /\ ~(Drain \/ TerminateAll)
      BY <3>1 DEF Unseen, Drain, TerminateAll, settleVars
    <3>3. \A u \in Tasks : ~Ends(u) /\ ~Begins(u)
      BY <3>1 DEF Ends, Begins
    <3>4. \A p, timed : ~Run(p, timed)
      BY <1>1, <3>1 DEF Run, TypeOK
    <3>5. \A late : ~Dispatch(late)
      BY <3>1 DEF Dispatch
    <3>6. PICK u \in Tasks, why \in Settlements :
            Settles(u, why) /\ GoodReason(u, why)
      BY <1>1, <3>2, <3>3, <3>4, <3>5, CallerSteps
    <3>7. u = t /\ why = "fulfilled"
      BY <1>1, <3>1, <3>6 DEF Settles, Settle, TypeOK
    <3> QED  BY <3>6, <3>7 DEF GoodReason
  <2> QED  BY <2>1, <2>2, <2>3
<1> QED  BY <1>1, TaskInvariance, PTL DEF Spec, DeadlineRespected

-----------------------------------------------------------------------------
(* The pool keeps the promise that a caller relies on.                       *)

(* The state of the promise that a state of the pool stands for.             *)
MethodOf(p) ==
  CASE p = "invoked" -> "running"
    [] p = "done" -> "over"
    [] OTHER -> "not called"
(* ... the state of the pool's doors ...                                     *)
DoorsOf ==
  IF terminationStarted THEN "closed"
  ELSE IF accepting THEN "open" ELSE "draining"
(* ... and of the methods.                                                   *)
MethodsOf == [t \in Tasks |-> MethodOf(phase[t])]
(* A step of the promise, or none.                                           *)
PromiseStep == [Promise!PromiseNext]_(Promise!promiseVars)

(* A step that a caller cannot see is a stuttering step.                     *)
LEMMA PromiseStill ==
  ASSUME UNCHANGED <<DoorsOf, submittedTasks, MethodsOf, outcome>>
  PROVE  PromiseStep
BY DEF PromiseStep, Promise!promiseVars, DoorsOf, MethodsOf, MethodOf

(* run() accepts a task.                                                     *)
LEMMA PromiseAccept ==
  ASSUME DoorsOf = "open", submittedTasks < MaxTasks,
         submittedTasks' = submittedTasks + 1,
         outcome' = [outcome EXCEPT ![submittedTasks + 1] = "pending"],
         UNCHANGED <<DoorsOf, MethodsOf>>
  PROVE  PromiseStep
<1>1. Promise!Accept
  BY DEF Promise!Accept, DoorsOf, MethodsOf, MethodOf
<1> QED  BY <1>1 DEF PromiseStep, Promise!PromiseNext

(* A method starts.                                                          *)
LEMMA PromiseStart ==
  ASSUME NEW t \in Tasks, MethodsOf[t] = "not called",
         outcome[t] \in {"pending", "aborted"}, DoorsOf # "closed",
         MethodsOf' = [MethodsOf EXCEPT ![t] = "running"],
         UNCHANGED <<DoorsOf, submittedTasks, outcome>>
  PROVE  PromiseStep
<1>1. Promise!Start(t)
  BY DEF Promise!Start, DoorsOf, MethodsOf, MethodOf
<1> QED  BY <1>1 DEF PromiseStep, Promise!PromiseNext, Promise!Calls, Tasks

(* A call is over.                                                           *)
LEMMA PromiseFinish ==
  ASSUME NEW t \in Tasks, MethodsOf[t] # "over", outcome[t] # "unborn",
         MethodsOf' = [MethodsOf EXCEPT ![t] = "over"],
         UNCHANGED <<DoorsOf, submittedTasks, outcome>>
  PROVE  PromiseStep
<1>1. Promise!Finish(t)
  BY DEF Promise!Finish, DoorsOf, MethodsOf, MethodOf
<1> QED  BY <1>1 DEF PromiseStep, Promise!PromiseNext, Promise!Calls, Tasks

(* A task is settled, for a reason.                                          *)
LEMMA PromiseSettle ==
  ASSUME NEW t \in Tasks, NEW why \in Settlements, outcome[t] = "pending",
         why \in {"queue-timeout", "dropped", "queue-rejected"} =>
           MethodsOf[t] = "not called",
         why = "fulfilled" => MethodsOf[t] = "over" /\ DoorsOf # "closed",
         why = "rejected" => MethodsOf[t] # "running",
         why = "pool-closed" => DoorsOf = "closed",
         outcome' = [outcome EXCEPT ![t] = why],
         UNCHANGED <<DoorsOf, submittedTasks, MethodsOf>>
  PROVE  PromiseStep
<1>1. Promise!SettleAs(t, why)
  BY DEF Promise!SettleAs, Promise!QueueOutcomes, DoorsOf, MethodsOf, MethodOf
<1> QED  BY <1>1 DEF PromiseStep, Promise!PromiseNext, Promise!Calls, Tasks

(* The pool stops accepting, or closes.                                      *)
LEMMA PromiseDoors ==
  ASSUME \/ DoorsOf = "open" /\ DoorsOf' = "draining"
         \/ DoorsOf # "closed" /\ DoorsOf' = "closed",
         UNCHANGED <<submittedTasks, MethodsOf, outcome>>
  PROVE  PromiseStep
<1>1. Promise!CloseDoors
  BY DEF Promise!CloseDoors, DoorsOf, MethodsOf, MethodOf
<1> QED  BY <1>1 DEF PromiseStep, Promise!PromiseNext

(* Every step of the pool is a step of the promise or changes nothing that a *)
(* caller sees.                                                              *)
LEMMA StepKeepsPromise ==
  ASSUME TypeOK, TaskInv, Closing, EndFrames, [Next]_vars
  PROVE  PromiseStep
<1>1. ASSUME UNCHANGED <<accepting, terminationStarted>>
      PROVE  DoorsOf' = DoorsOf
  BY <1>1 DEF DoorsOf
<1>2. ASSUME phase' = phase
      PROVE  MethodsOf' = MethodsOf
  BY <1>2 DEF MethodsOf
<1>3. CASE Unseen
  BY <1>1, <1>2, <1>3, PromiseStill DEF Unseen
<1>4. ASSUME NEW t \in Tasks, Begins(t)
      PROVE  PromiseStep
  <2>1. MethodsOf' = [MethodsOf EXCEPT ![t] = "running"]
    BY <1>4 DEF Begins, MethodsOf, MethodOf, TypeOK
  <2>2. MethodsOf[t] = "not called" /\ DoorsOf # "closed"
    BY <1>4 DEF Begins, MethodsOf, MethodOf, DoorsOf
  <2> QED  BY <1>1, <1>4, <2>1, <2>2, PromiseStart DEF Begins
<1>5. ASSUME NEW t \in Tasks, Ends(t)
      PROVE  PromiseStep
  <2>1. MethodsOf' = [MethodsOf EXCEPT ![t] = "over"]
    BY <1>5 DEF Ends, MethodsOf, MethodOf, TypeOK
  <2>2. MethodsOf[t] # "over"
    BY <1>5 DEF Ends, MethodsOf, MethodOf
  <2> QED  BY <1>1, <1>5, <2>1, <2>2, PromiseFinish DEF Ends
<1>6. ASSUME NEW t \in Tasks, NEW why \in Settlements,
             Settles(t, why), GoodReason(t, why)
      PROVE  PromiseStep
  <2>1. UNCHANGED <<DoorsOf, MethodsOf, submittedTasks>>
    BY <1>1, <1>2, <1>6 DEF Settles
  <2>2. CASE outcome[t] # "pending"
    BY <1>6, <2>1, <2>2, PromiseStill DEF Settles, Settle, Pending
  <2>3. CASE outcome[t] = "pending"
    <3>1. outcome' = [outcome EXCEPT ![t] = why]
      BY <1>6, <2>3 DEF Settles, Settle, Pending
    <3>2. /\ why \in {"queue-timeout", "dropped", "queue-rejected"} =>
               MethodsOf[t] = "not called"
          /\ why = "fulfilled" => MethodsOf[t] = "over" /\ DoorsOf # "closed"
          /\ why = "rejected" => MethodsOf[t] # "running"
          /\ why = "pool-closed" => DoorsOf = "closed"
      BY <1>6 DEF GoodReason, MethodsOf, MethodOf, DoorsOf
    <3> QED  BY <2>1, <2>3, <3>1, <3>2, PromiseSettle
  <2> QED  BY <2>2, <2>3
<1>7. ASSUME NEW p, NEW timed, Run(p, timed)
      PROVE  PromiseStep
  <2>1. /\ accepting /\ submittedTasks < MaxTasks
        /\ submittedTasks' = submittedTasks + 1 /\ phase' = phase
        /\ outcome' = [outcome EXCEPT ![submittedTasks + 1] = "pending"]
        /\ UNCHANGED <<accepting, terminationStarted>>
    BY <1>7 DEF Run, poolVars
  <2>2. DoorsOf = "open"
    BY <2>1 DEF DoorsOf, TaskInv, Doors
  <2> QED  BY <1>1, <1>2, <2>1, <2>2, PromiseAccept
<1>8. ASSUME NEW late \in BOOLEAN, Dispatch(late)
      PROVE  PromiseStep
  <2>1. PICK t \in Tasks : /\ phase[t] = "none"
                           /\ phase' = [phase EXCEPT ![t] = "scheduled"]
    BY <1>8, DispatchesFirst
  <2>2. MethodsOf' = MethodsOf
    BY <2>1 DEF MethodsOf, MethodOf, TypeOK
  <2>3. UNCHANGED <<submittedTasks, outcome, accepting, terminationStarted>>
    BY <1>8 DEF Dispatch, poolVars
  <2> QED  BY <1>1, <2>2, <2>3, PromiseStill
<1>9. CASE Drain
  <2>1. /\ ~terminationStarted /\ accepting' = FALSE
        /\ UNCHANGED <<terminationStarted, submittedTasks, phase, outcome>>
    BY <1>9 DEF Drain, taskVars, settleVars
  <2>2. DoorsOf' = "draining" /\ DoorsOf \in {"open", "draining"}
    BY <2>1 DEF DoorsOf
  <2> QED  BY <1>2, <2>1, <2>2, PromiseDoors, PromiseStill
<1>10. CASE TerminateAll
  <2>1. terminationStarted' /\ UNCHANGED <<submittedTasks, phase, outcome>>
    BY <1>10 DEF TerminateAll, taskVars, settleVars
  <2>2. DoorsOf' = "closed"
    BY <2>1 DEF DoorsOf
  <2> QED  BY <1>2, <2>1, <2>2, PromiseDoors, PromiseStill
<1> QED
  BY <1>3, <1>4, <1>5, <1>6, <1>7, <1>8, <1>9, <1>10, CallerSteps

(* The pool implements the promise of CallerPromise: a task is settled at    *)
(* most once, for a reason its life allows, its method is called at most     *)
(* once and never in a closed pool.                                          *)
THEOREM PoolKeepsPromise == Spec => ImplementsPromise
<1>1. Init => Promise!PromiseInit
  <2>1. ASSUME Init
        PROVE  Promise!PromiseInit
    <3>1. \A t \in Tasks : phase[t] = "none"
      BY <2>1 DEF Init
    <3> QED  BY <2>1, <3>1 DEF Init, Promise!PromiseInit, Promise!Calls, Tasks
  <2> QED  BY <2>1
<1>2. TypeOK /\ TaskInv /\ Closing /\ EndFrames /\ [Next]_vars
        => [Promise!PromiseNext]_(Promise!promiseVars)
  BY StepKeepsPromise DEF PromiseStep
<1> QED  BY <1>1, <1>2, TaskInvariance, PTL DEF Spec, ImplementsPromise,
            Promise!PromiseSpec
=============================================================================
