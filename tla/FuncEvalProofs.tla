--------------------------- MODULE FuncEvalProofs ---------------------------
(***************************************************************************)
(* Proofs about FuncEval, for any threads, any limit of the pool and loops *)
(* over any indices.                                                       *)
(*                                                                         *)
(* IInv says where the indices of a loop are.  Those not evaluated are     *)
(* shared out between the tasks still to be pushed, the tasks in the queue *)
(* and those that run: every task holds only such indices, no two tasks    *)
(* hold the same one, and each is held by some task.  With the counter     *)
(* exact a loop that returns then leaves neither a task nor an index.      *)
(***************************************************************************)
EXTENDS FuncEval, TLAPS, FiniteSetTheorems, SequenceTheorems

(* Index j of loop l is in task t.                                         *)
Has(t, l, j) == t.loop = l /\ j \in t.i .. t.f - 1

(* No index is in both tasks.                                              *)
Apart(t, u) == t.loop = u.loop => t.f <= u.i \/ u.f <= t.i

(* Task t has still to evaluate its indices, or has none left, when rng    *)
(* are the indices of the loops and dn those evaluated.                    *)
Pending(t, rng, dn) ==
  /\ t.i <= t.f
  /\ t.i .. t.f - 1 \subseteq rng[t.loop] \ dn[t.loop]

(* Where the caller is says what it has still to push.                     *)
PhaseInv == \A l \in Loops : phase[l] # "push" => left[l] = <<>>

OwnTasks == \A l \in Loops : \A k \in DOMAIN left[l] : left[l][k].loop = l

TasksPending ==
  /\ \A l \in Loops : \A k \in DOMAIN left[l] : Pending(left[l][k], range, done)
  /\ \A k \in DOMAIN queue : Pending(queue[k], range, done)
  /\ \A w \in Workers : task[w] # NoTask => Pending(task[w], range, done)

LeftApart ==
  \A l \in Loops : \A k \in DOMAIN left[l] :
    /\ \A m \in DOMAIN left[l] : k # m => Apart(left[l][k], left[l][m])
    /\ \A m \in DOMAIN queue : Apart(left[l][k], queue[m])
    /\ \A w \in Workers : task[w] # NoTask => Apart(left[l][k], task[w])

QueueApart ==
  \A k \in DOMAIN queue :
    /\ \A m \in DOMAIN queue : k # m => Apart(queue[k], queue[m])
    /\ \A w \in Workers : task[w] # NoTask => Apart(queue[k], task[w])

RunApart ==
  \A v, w \in Workers :
    v # w /\ task[v] # NoTask /\ task[w] # NoTask => Apart(task[v], task[w])

Held(l, j) ==
  \/ \E k \in DOMAIN left[l] : Has(left[l][k], l, j)
  \/ \E k \in DOMAIN queue : Has(queue[k], l, j)
  \/ \E w \in Workers : task[w] # NoTask /\ Has(task[w], l, j)

AllHeld == \A l \in Loops : \A j \in range[l] : j \notin done[l] => Held(l, j)

DoneInRange == \A l \in Loops : done[l] \subseteq range[l]

IInv ==
  /\ TypeOK
  /\ PhaseInv /\ OwnTasks
  /\ CtrlAlive
  /\ ActiveExact
  /\ TasksPending
  /\ LeftApart /\ QueueApart /\ RunApart
  /\ AllHeld
  /\ DoneInRange

-----------------------------------------------------------------------------
(* The tasks of a loop in a queue and in the pool, and their number        *)

OfLoop(q, l) == {k \in DOMAIN q : q[k].loop = l}

Running(l) == {w \in Busy : task[w].loop = l}

LEMMA OfLoopFinite ==
  ASSUME NEW q \in Seq(Task), NEW l
  PROVE  IsFiniteSet(OfLoop(q, l)) /\ Cardinality(OfLoop(q, l)) \in Nat
<1>1. DOMAIN q = 1..Len(q) /\ Len(q) \in Nat BY LenProperties
<1>2. IsFiniteSet(1..Len(q)) BY <1>1, FS_Interval
<1>3. OfLoop(q, l) \subseteq 1..Len(q) BY <1>1 DEF OfLoop
<1>. QED BY <1>2, <1>3, FS_Subset, FS_CardinalityType

LEMMA RunningFinite ==
  ASSUME NEW l
  PROVE  IsFiniteSet(Running(l)) /\ Cardinality(Running(l)) \in Nat
<1>1. Running(l) \subseteq Workers BY DEF Running, Busy
<1>. QED BY <1>1, ThreadsAssumption, FS_Subset, FS_CardinalityType

(* A task put at the end of the queue is one more of its loop ...          *)
LEMMA CountAppend ==
  ASSUME NEW q \in Seq(Task), NEW t \in Task, NEW l
  PROVE  Cardinality(OfLoop(Append(q, t), l))
         = Cardinality(OfLoop(q, l)) + (IF t.loop = l THEN 1 ELSE 0)
<1>. DEFINE n == Len(q) + 1
<1>1. /\ Len(q) \in Nat /\ DOMAIN q = 1..Len(q)
      /\ DOMAIN Append(q, t) = 1..n
      /\ \A k \in 1..Len(q) : Append(q, t)[k] = q[k]
      /\ Append(q, t)[n] = t
  BY AppendProperties, LenProperties
<1>2. CASE t.loop = l
  <2>1. OfLoop(Append(q, t), l) = OfLoop(q, l) \cup {n}
    BY <1>1, <1>2 DEF OfLoop
  <2>2. n \notin OfLoop(q, l) BY <1>1 DEF OfLoop
  <2>3. IsFiniteSet(OfLoop(q, l)) BY OfLoopFinite
  <2>4. Cardinality(OfLoop(q, l) \cup {n}) = Cardinality(OfLoop(q, l)) + 1
    BY ONLY <2>2, <2>3, FS_AddElement
  <2>. QED BY <1>2, <2>1, <2>4
<1>3. CASE t.loop # l
  <2>1. OfLoop(Append(q, t), l) = OfLoop(q, l)
    BY <1>1, <1>3 DEF OfLoop
  <2>. QED BY <1>3, <2>1, OfLoopFinite
<1>. QED BY <1>2, <1>3

(* ... and the one taken from its head is one less.                        *)
LEMMA CountTail ==
  ASSUME NEW q \in Seq(Task), q # <<>>, NEW l
  PROVE  Cardinality(OfLoop(Tail(q), l))
         = Cardinality(OfLoop(q, l)) - (IF Head(q).loop = l THEN 1 ELSE 0)
<1>. DEFINE rest == OfLoop(q, l) \ {1}
            f == [k \in OfLoop(Tail(q), l) |-> k + 1]
<1>1. /\ Len(q) \in Nat /\ Len(q) # 0 /\ DOMAIN q = 1..Len(q)
      /\ Head(q) = q[1]
      /\ Tail(q) \in Seq(Task)
      /\ Len(Tail(q)) = Len(q) - 1
      /\ DOMAIN Tail(q) = 1..Len(q) - 1
      /\ \A k \in 1..Len(q) - 1 : Tail(q)[k] = q[k + 1]
  BY HeadTailProperties, LenProperties, EmptySeq
<1>2. f \in Bijection(OfLoop(Tail(q), l), rest)
  <2>1. \A k \in OfLoop(Tail(q), l) : f[k] \in rest
    BY <1>1 DEF OfLoop
  <2>2. \A k, m \in OfLoop(Tail(q), l) : k # m => f[k] # f[m]
    BY <1>1 DEF OfLoop
  <2>3. \A k \in rest : k - 1 \in OfLoop(Tail(q), l) /\ f[k - 1] = k
    BY <1>1 DEF OfLoop
  <2>. QED BY <2>1, <2>2, <2>3 DEF Bijection, Injection, Surjection, IsInjective
<1>3. IsFiniteSet(OfLoop(Tail(q), l)) BY <1>1, OfLoopFinite
<1>4. Cardinality(OfLoop(Tail(q), l)) = Cardinality(rest)
  <2>. HIDE DEF f, rest
  <2>1. ExistsBijection(OfLoop(Tail(q), l), rest)
    BY <1>2 DEF ExistsBijection
  <2>. QED BY <1>3, <2>1, FS_Bijection
<1>5. CASE Head(q).loop = l
  <2>1. 1 \in OfLoop(q, l) BY <1>1, <1>5 DEF OfLoop
  <2>. QED BY <1>4, <1>5, <2>1, OfLoopFinite, FS_RemoveElement
<1>6. CASE Head(q).loop # l
  <2>1. rest = OfLoop(q, l) BY <1>1, <1>6 DEF OfLoop
  <2>2. Cardinality(OfLoop(q, l)) \in Nat BY OfLoopFinite
  <2>. HIDE DEF rest
  <2>. QED BY <1>4, <1>6, <2>1, <2>2
<1>. QED BY <1>5, <1>6

(* A loop of which nothing is counted has no task anywhere.                *)
LEMMA NothingCounted ==
  ASSUME TypeOK, ActiveExact, NEW l \in Loops, active[l] = 0
  PROVE  /\ left[l] = <<>>
         /\ \A k \in DOMAIN queue : queue[k].loop # l
         /\ \A w \in Workers : task[w] # NoTask => task[w].loop # l
<1>1. Len(left[l]) \in Nat BY LenProperties DEF TypeOK
<1>2. active[l] = Len(left[l]) + Cardinality(OfLoop(queue, l)) + Cardinality(Running(l))
  BY DEF ActiveExact, OfLoop, Running
<1>3. /\ IsFiniteSet(OfLoop(queue, l)) /\ Cardinality(OfLoop(queue, l)) \in Nat
      /\ IsFiniteSet(Running(l)) /\ Cardinality(Running(l)) \in Nat
  BY OfLoopFinite, RunningFinite DEF TypeOK
<1>4. /\ Len(left[l]) = 0
      /\ Cardinality(OfLoop(queue, l)) = 0
      /\ Cardinality(Running(l)) = 0
  BY <1>1, <1>2, <1>3
<1>5. OfLoop(queue, l) = {} /\ Running(l) = {}
  BY <1>3, <1>4, FS_EmptySet
<1>6. left[l] = <<>> BY <1>4, EmptySeq DEF TypeOK
<1>. QED BY <1>5, <1>6 DEF OfLoop, Running, Busy

-----------------------------------------------------------------------------
(* Both ways of cutting i .. f-1 give tasks that share its indices out     *)

Cuts(ts, l, i, f) ==
  /\ ts \in Seq(Task)
  /\ \A k \in DOMAIN ts :
       ts[k].loop = l /\ i <= ts[k].i /\ ts[k].i <= ts[k].f /\ ts[k].f <= f
  /\ \A k, m \in DOMAIN ts : k # m => Apart(ts[k], ts[m])
  /\ \A j \in i .. f - 1 : \E k \in DOMAIN ts : Has(ts[k], l, j)

(* One task per index.                                                     *)
LEMMA TasksFullCuts ==
  ASSUME NEW l \in Loops, NEW i \in 0..Last + 1, NEW f \in 0..Last + 1, i < f
  PROVE  Cuts(TasksFull(l, i, f), l, i, f)
<1>. DEFINE ts == TasksFull(l, i, f)
<1>1. /\ DOMAIN ts = 1..f - i /\ f - i \in Nat
      /\ \A k \in 1..f - i :
           /\ ts[k] = [loop |-> l, i |-> i + k - 1, f |-> i + k]
           /\ ts[k] \in Task
  BY LastAssumption DEF TasksFull, Task
<1>2. \A k \in 1..f - i : ts[k].loop = l /\ ts[k].i = i + k - 1 /\ ts[k].f = i + k
  BY <1>1
<1>3. ts \in Seq(Task)
  BY <1>1, IsASeq DEF TasksFull
<1>. HIDE DEF ts
<1>4. \A k \in DOMAIN ts :
       ts[k].loop = l /\ i <= ts[k].i /\ ts[k].i <= ts[k].f /\ ts[k].f <= f
  BY <1>1, <1>2
<1>5. \A k, m \in DOMAIN ts : k # m => Apart(ts[k], ts[m])
  BY <1>1, <1>2 DEF Apart
<1>6. ASSUME NEW j \in i .. f - 1
      PROVE  \E k \in DOMAIN ts : Has(ts[k], l, j)
  <2>1. j - i + 1 \in DOMAIN ts BY <1>1
  <2>2. Has(ts[j - i + 1], l, j) BY <1>1, <1>2, <2>1 DEF Has
  <2>. QED BY <2>1, <2>2
<1>. QED BY <1>3, <1>4, <1>5, <1>6 DEF Cuts, ts

LEMMA Mult ==
  ASSUME NEW d \in Nat, NEW k \in Int, NEW m \in Int, k <= m
  PROVE  k * d <= m * d /\ (m - k) * d = m * d - k * d
<1>1. (m - k) * d >= 0 OBVIOUS
<1>2. (m - k) * d = m * d - k * d OBVIOUS
<1>. QED BY <1>1, <1>2

LEMMA NextMult ==
  ASSUME NEW d \in Nat, NEW k \in Nat
  PROVE  k * d \in Nat /\ (k + 1) * d = k * d + d
OBVIOUS

(* C division of naturals.                                                 *)
LEMMA DivMod ==
  ASSUME NEW a \in Nat, NEW n \in Nat \ {0}
  PROVE  /\ a \div n \in Nat /\ a % n \in 0..n - 1
         /\ a = (a \div n) * n + (a % n)
         /\ a >= n => a \div n >= 1
<1>1. PICK q \in Int : q = a \div n OBVIOUS
<1>2. PICK r \in 0..n-1 : r = a % n OBVIOUS
<1>3. a = q * n + r BY <1>1, <1>2
<1>4. q >= 0
  <2>1. SUFFICES ASSUME q <= -1 PROVE FALSE OBVIOUS
  <2>2. q * n <= (-1) * n BY <2>1, Mult
  <2>. QED BY <1>3, <2>2
<1>5. ASSUME a >= n PROVE q >= 1
  <2>1. SUFFICES ASSUME q <= 0 PROVE FALSE OBVIOUS
  <2>2. q * n <= 0 * n BY <2>1, Mult
  <2>. QED BY <1>3, <1>5, <2>2
<1> QED BY <1>1, <1>2, <1>3, <1>4, <1>5

(* n tasks of delta indices, the first with the remainder.                 *)
LEMMA TasksNWCuts ==
  ASSUME NEW l \in Loops, NEW i \in 0..Last + 1, NEW f \in 0..Last + 1,
         NEW n \in Nat \ {0}, f - i > n
  PROVE  Cuts(TasksNW(l, i, f, n), l, i, f)
<1>. DEFINE ts == TasksNW(l, i, f, n)
            c(k) == IF k = 0 THEN i ELSE i + ((f - i) % n) + k * ((f - i) \div n)
<1>1. PICK d \in Nat, r \in 0..n - 1 :
        /\ d = (f - i) \div n /\ r = (f - i) % n
        /\ f - i = d * n + r /\ d >= 1
  <2>1. PICK a \in Nat : a = f - i /\ a >= n BY LastAssumption
  <2>2. /\ a \div n \in Nat /\ a % n \in 0..n - 1
        /\ a = (a \div n) * n + (a % n) /\ a \div n >= 1
    BY <2>1, DivMod
  <2>3. (a \div n) * n = n * (a \div n) BY <2>2
  <2>. QED BY <2>1, <2>2, <2>3
<1>. DEFINE b(k) == IF k = 0 THEN i ELSE i + r + k * d
<1>2. \A k \in 0..n : b(k) \in Int /\ b(k) = c(k)
  BY <1>1
<1>3. \A k, m \in 0..n : k <= m => b(k) <= b(m)
  <2>1. SUFFICES ASSUME NEW k \in 0..n, NEW m \in 0..n, k <= m
                 PROVE  b(k) <= b(m)
    OBVIOUS
  <2>2. k * d <= m * d /\ 0 * d <= m * d BY <2>1, Mult
  <2>. QED BY <2>1, <2>2, LastAssumption
<1>4. b(0) = i /\ b(n) = f
  BY <1>1, LastAssumption
<1>5. \A k \in 0..n : b(k) \in 0..Last + 1 /\ i <= b(k) /\ b(k) <= f
  BY <1>2, <1>3, <1>4, LastAssumption
<1>6. /\ DOMAIN ts = 1..n
      /\ \A k \in 1..n : ts[k] = [loop |-> l, i |-> b(k - 1), f |-> b(k)]
  <2>1. DOMAIN ts = 1..n BY DEF TasksNW
  <2>2. ASSUME NEW k \in 1..n
        PROVE  ts[k] = [loop |-> l, i |-> b(k - 1), f |-> b(k)]
    <3>1. ts[k] = [loop |-> l, i |-> c(k - 1), f |-> c(k)] BY DEF TasksNW
    <3>2. k \in 0..n /\ k - 1 \in 0..n OBVIOUS
    <3>3. c(k) = b(k) /\ c(k - 1) = b(k - 1) BY <1>2, <3>2
    <3>. HIDE DEF b, c, ts
    <3>. QED BY <3>1, <3>3
  <2>. QED BY <2>1, <2>2
<1>. HIDE DEF b, ts
<1>7. \A k \in 1..n : /\ ts[k].loop = l /\ ts[k].i = b(k - 1) /\ ts[k].f = b(k)
                      /\ ts[k] \in Task
  BY <1>5, <1>6 DEF Task
<1>8. ts \in Seq(Task)
  <2>1. ts = [k \in 1..n |-> ts[k]] BY <1>6 DEF ts, TasksNW
  <2>. QED BY <1>6, <1>7, <2>1, IsASeq
<1>9. \A k \in DOMAIN ts :
       ts[k].loop = l /\ i <= ts[k].i /\ ts[k].i <= ts[k].f /\ ts[k].f <= f
  BY <1>3, <1>5, <1>6, <1>7
<1>10. ASSUME NEW k \in 1..n, NEW m \in 1..n, k < m
       PROVE  Apart(ts[k], ts[m]) /\ Apart(ts[m], ts[k])
  <2>1. b(k) <= b(m - 1) BY <1>3, <1>10
  <2>. QED BY <1>7, <2>1 DEF Apart
<1>11. \A k, m \in DOMAIN ts : k # m => Apart(ts[k], ts[m])
  BY <1>6, <1>10
<1>12. ASSUME NEW j \in i .. f - 1
       PROVE  \E k \in DOMAIN ts : Has(ts[k], l, j)
  <2>1. CASE j < b(1)
    <3>1. 1 \in DOMAIN ts /\ ts[1].loop = l /\ ts[1].i = i /\ ts[1].f = b(1)
      BY <1>4, <1>6, <1>7
    <3>2. b(1) \in Int BY <1>5
    <3>. QED BY <2>1, <3>1, <3>2 DEF Has
  <2>2. CASE j >= b(1)
    <3>1. b(1) = i + r + d BY <1>1 DEF b
    <3>2. j - i - r \in Nat /\ j - i - r >= d /\ j - i - r < d * n
      BY <1>1, <2>2, <3>1, LastAssumption
    <3>3. PICK q \in Nat, s \in 0..d - 1 : j - i - r = q * d + s /\ q >= 1
      <4>1. PICK a \in Nat : a = j - i - r /\ a >= d BY <3>2
      <4>2. /\ a \div d \in Nat /\ a % d \in 0..d - 1
            /\ a = (a \div d) * d + (a % d) /\ a \div d >= 1
        <5>1. d \in Nat \ {0} BY <1>1
        <5>. QED BY <4>1, <5>1, DivMod
      <4>. QED BY <4>1, <4>2
    <3>4. q < n
      <4>1. SUFFICES ASSUME q >= n PROVE FALSE BY <3>3
      <4>2. n * d <= q * d BY <4>1, Mult
      <4>3. n * d = d * n OBVIOUS
      <4>. QED BY <3>2, <3>3, <4>2, <4>3
    <3>5. (q + 1) * d = q * d + d /\ q * d \in Nat BY NextMult
    <3>6. b(q) = i + r + q * d /\ b(q + 1) = i + r + q * d + d
      BY <3>3, <3>5 DEF b
    <3>7. b(q) <= j /\ j < b(q + 1)
      BY <3>3, <3>5, <3>6, LastAssumption
    <3>8. q + 1 \in DOMAIN ts /\ Has(ts[q + 1], l, j)
      BY <1>5, <1>6, <1>7, <3>4, <3>7 DEF Has
    <3>. QED BY <3>8
  <2>. QED BY <1>5, <2>1, <2>2
<1>. QED BY <1>8, <1>9, <1>11, <1>12 DEF Cuts, ts

-----------------------------------------------------------------------------
(* The steps                                                               *)

LEMMA TaskFields ==
  \A t \in Task : t.loop \in Loops /\ t.i \in 0..Last + 1 /\ t.f \in 0..Last + 1
BY DEF Task

LEMMA TasksTyped ==
  ASSUME TypeOK
  PROVE  /\ \A l \in Loops : \A k \in DOMAIN left[l] : left[l][k] \in Task
         /\ \A k \in DOMAIN queue : queue[k] \in Task
         /\ \A w \in Workers : task[w] # NoTask => task[w] \in Task
<1>1. \A s \in Seq(Task) : \A k \in DOMAIN s : s[k] \in Task
  BY ElementOfSeq, LenProperties
<1>. QED BY <1>1 DEF TypeOK

LEMMA TailFacts ==
  ASSUME NEW q \in Seq(Task), q # <<>>
  PROVE  \E n \in Nat :
           /\ n = Len(q) - 1
           /\ DOMAIN q = 1..n + 1
           /\ Tail(q) \in Seq(Task) /\ Len(Tail(q)) = n /\ DOMAIN Tail(q) = 1..n
           /\ \A k \in 1..n : Tail(q)[k] = q[k + 1]
           /\ Head(q) = q[1] /\ Head(q) \in Task
<1>1. /\ Len(q) \in Nat /\ Len(q) # 0 /\ DOMAIN q = 1..Len(q)
      /\ Head(q) = q[1] /\ Head(q) \in Task
      /\ Tail(q) \in Seq(Task)
      /\ Len(Tail(q)) = Len(q) - 1
      /\ DOMAIN Tail(q) = 1..Len(q) - 1
      /\ \A k \in 1..Len(q) - 1 : Tail(q)[k] = q[k + 1]
  BY HeadTailProperties, LenProperties, EmptySeq
<1>2. Len(q) \in Nat /\ Len(q) # 0 BY <1>1
<1>3. PICK n \in Nat : n = Len(q) - 1 BY ONLY <1>2
<1>4. Len(q) = n + 1 BY <1>2, <1>3
<1>. WITNESS n \in Nat
<1>. QED BY <1>1, <1>3, <1>4

(* A loop is called: it has nothing outstanding, and its tasks are new.    *)
LEMMA CallStep ==
  ASSUME IInv, NEW l \in Loops,
         NEW i \in 0..Last + 1, NEW f \in 0..Last + 1, i < f,
         NEW ts, Cuts(ts, l, i, f), Call(l, i, f, ts)
  PROVE  IInv'
<1>1. /\ ts \in Seq(Task) /\ Len(ts) \in Nat
      /\ i .. f - 1 \subseteq 0..Last
  BY LenProperties, LastAssumption DEF Cuts
<1>2. /\ left'[l] = ts /\ \A x \in Loops : x # l => left'[x] = left[x]
      /\ range'[l] = i .. f - 1 /\ \A x \in Loops : x # l => range'[x] = range[x]
      /\ done'[l] = {} /\ \A x \in Loops : x # l => done'[x] = done[x]
      /\ active'[l] = Len(ts) /\ \A x \in Loops : x # l => active'[x] = active[x]
      /\ phase'[l] = "push" /\ \A x \in Loops : x # l => phase'[x] = phase[x]
      /\ queue' = queue /\ task' = task
  BY DEF Call, IInv, TypeOK
<1>3. /\ left[l] = <<>>
      /\ \A k \in DOMAIN queue : queue[k].loop # l
      /\ \A w \in Workers : task[w] # NoTask => task[w].loop # l
  BY DEF Call, IInv, PhaseInv, CtrlAlive, Busy
<1>4. /\ \A x \in Loops : \A k \in DOMAIN left[x] : left[x][k] \in Task
      /\ \A k \in DOMAIN queue : queue[k] \in Task
      /\ \A w \in Workers : task[w] # NoTask => task[w] \in Task
      /\ \A t \in Task : t.loop \in Loops
  BY TasksTyped, TaskFields DEF IInv
<1>5. TypeOK'
  BY <1>1 DEF Call, IInv, TypeOK
<1>6. PhaseInv' /\ OwnTasks'
  BY <1>2 DEF IInv, PhaseInv, OwnTasks, Cuts
<1>7. CtrlAlive'
  BY <1>2, <1>3, <1>4 DEF IInv, CtrlAlive, Busy
<1>8. ActiveExact'
  <2>1. OfLoop(queue, l) = {} /\ Running(l) = {}
    BY <1>3 DEF OfLoop, Running, Busy
  <2>2. active'[l] = Len(left'[l]) + Cardinality(OfLoop(queue, l)) + Cardinality(Running(l))
    BY <1>1, <1>2, <2>1, FS_EmptySet
  <2>3. \A x \in Loops :
          active[x] = Len(left[x]) + Cardinality(OfLoop(queue, x)) + Cardinality(Running(x))
    BY DEF IInv, ActiveExact, OfLoop, Running
  <2>4. \A x \in Loops :
          active'[x] = Len(left'[x]) + Cardinality(OfLoop(queue, x)) + Cardinality(Running(x))
    BY <1>2, <2>2, <2>3
  <2>. QED BY <1>2, <2>4 DEF ActiveExact, OfLoop, Running, Busy
<1>9. TasksPending'
  <2>1. ASSUME NEW k \in DOMAIN ts
        PROVE  Pending(ts[k], range', done')
    <3>1. ts[k] \in Task
      BY <1>1, ElementOfSeq, LenProperties
    <3>2. /\ ts[k].loop = l /\ i <= ts[k].i /\ ts[k].i <= ts[k].f /\ ts[k].f <= f
          /\ ts[k].i \in Int /\ ts[k].f \in Int
      BY <3>1, TaskFields, LastAssumption DEF Cuts
    <3>3. ts[k].i .. ts[k].f - 1 \subseteq i .. f - 1
      BY <3>2, LastAssumption
    <3>. QED BY <1>2, <3>2, <3>3 DEF Pending
  <2>2. ASSUME NEW t \in Task, Pending(t, range, done), t.loop # l
        PROVE  Pending(t, range', done')
    BY <1>2, <2>2 DEF Pending, Task
  <2>3. \A x \in Loops : \A k \in DOMAIN left'[x] : Pending(left'[x][k], range', done')
    BY <1>2, <1>4, <2>1, <2>2 DEF IInv, TasksPending, OwnTasks
  <2>4. \A k \in DOMAIN queue' : Pending(queue'[k], range', done')
    BY <1>2, <1>3, <1>4, <2>2 DEF IInv, TasksPending
  <2>5. \A w \in Workers : task'[w] # NoTask => Pending(task'[w], range', done')
    BY <1>2, <1>3, <1>4, <2>2 DEF IInv, TasksPending
  <2>. QED BY <2>3, <2>4, <2>5 DEF TasksPending
<1>10. LeftApart'
  <2>1. \A k \in DOMAIN ts :
          /\ \A m \in DOMAIN ts : k # m => Apart(ts[k], ts[m])
          /\ \A m \in DOMAIN queue : Apart(ts[k], queue[m])
          /\ \A w \in Workers : task[w] # NoTask => Apart(ts[k], task[w])
    BY <1>3 DEF Cuts, Apart
  <2>. QED BY <1>2, <2>1 DEF IInv, LeftApart
<1>11. QueueApart' /\ RunApart'
  BY <1>2 DEF IInv, QueueApart, RunApart
<1>12. AllHeld'
  <2>1. \A j \in range'[l] : \E k \in DOMAIN ts : Has(ts[k], l, j)
    BY <1>2 DEF Cuts
  <2>2. \A j \in range'[l] : Held(l, j)'
    BY <1>2, <2>1 DEF Held
  <2>3. ASSUME NEW x \in Loops, x # l, NEW j \in range[x], j \notin done[x]
        PROVE  Held(x, j)'
    BY <1>2, <2>3 DEF IInv, AllHeld, Held
  <2>. QED BY <1>2, <2>2, <2>3 DEF AllHeld
<1>13. DoneInRange'
  BY <1>2 DEF IInv, DoneInRange
<1>. QED BY <1>5, <1>6, <1>7, <1>8, <1>9, <1>10, <1>11, <1>12, <1>13 DEF IInv

(* A task goes from the caller to the end of the queue.                    *)
LEMMA PushTask ==
  ASSUME IInv, NEW l \in Loops, Push(l), left[l] # <<>>
  PROVE  IInv'
<1>1. /\ left[l] \in Seq(Task) /\ queue \in Seq(Task)
      /\ phase[l] = "push"
      /\ queue' = Append(queue, Head(left[l]))
      /\ left'[l] = Tail(left[l])
  BY DEF IInv, TypeOK, Push
<1>2. /\ \A x \in Loops : x # l => left'[x] = left[x]
      /\ UNCHANGED <<maxThreads, task, phase, active, range, done, evals, subDone>>
  BY DEF IInv, TypeOK, Push
<1>3. PICK n \in Nat :
        /\ n = Len(left[l]) - 1
        /\ DOMAIN left[l] = 1..n + 1
        /\ left'[l] \in Seq(Task) /\ Len(left'[l]) = n /\ DOMAIN left'[l] = 1..n
        /\ \A k \in 1..n : left'[l][k] = left[l][k + 1]
        /\ Head(left[l]) = left[l][1] /\ Head(left[l]) \in Task
  <2>1. PICK q \in Seq(Task) : q = left[l] /\ q # <<>> /\ left'[l] = Tail(q)
    BY <1>1
  <2>. QED BY <2>1, TailFacts
<1>4. PICK t \in Task : t = left[l][1] /\ t = Head(left[l])
  BY <1>3
<1>5. PICK m \in Nat :
        /\ DOMAIN queue = 1..m
        /\ queue' \in Seq(Task)
        /\ DOMAIN queue' = 1..m + 1
        /\ \A k \in 1..m : queue'[k] = queue[k]
        /\ queue'[m + 1] = t
  BY <1>1, <1>4, AppendProperties, LenProperties
<1>6. t.loop = l /\ Pending(t, range, done)
  BY <1>3, <1>4 DEF IInv, OwnTasks, TasksPending
<1>7. TypeOK'
  <2>1. TypeOK BY DEF IInv
  <2>2. left' \in [Loops -> Seq(Task)]
    BY <1>1, <1>3, <2>1 DEF TypeOK, Push
  <2>. QED BY <1>2, <1>5, <2>1, <2>2 DEF TypeOK
<1>8. PhaseInv' /\ OwnTasks'
  <2>1. PhaseInv' BY <1>1, <1>2 DEF IInv, PhaseInv
  <2>2. \A k \in DOMAIN left'[l] : left'[l][k].loop = l
    <3>1. SUFFICES ASSUME NEW k \in DOMAIN left'[l]
                   PROVE  left'[l][k].loop = l
      OBVIOUS
    <3>2. k + 1 \in DOMAIN left[l] /\ left'[l][k] = left[l][k + 1] BY <1>3
    <3>. QED BY <3>2 DEF IInv, OwnTasks
  <2>3. \A x \in Loops : \A k \in DOMAIN left'[x] : left'[x][k].loop = x
    BY <1>2, <2>2 DEF IInv, OwnTasks
  <2>. QED BY <2>1, <2>3 DEF OwnTasks
<1>9. CtrlAlive'
  BY <1>1, <1>2, <1>5, <1>6 DEF IInv, CtrlAlive, Busy
<1>10. ActiveExact'
  <2>1. ASSUME NEW x \in Loops
        PROVE  active'[x] = Len(left'[x]) + Cardinality(OfLoop(queue', x))
                            + Cardinality(Running(x))
    <3>1. active[x] = Len(left[x]) + Cardinality(OfLoop(queue, x)) + Cardinality(Running(x))
      BY DEF IInv, ActiveExact, OfLoop, Running
    <3>2. /\ Len(left[x]) \in Nat
          /\ Cardinality(OfLoop(queue, x)) \in Nat
          /\ Cardinality(Running(x)) \in Nat
      BY <1>1, OfLoopFinite, RunningFinite, LenProperties DEF IInv, TypeOK
    <3>3. Cardinality(OfLoop(queue', x))
          = Cardinality(OfLoop(queue, x)) + (IF t.loop = x THEN 1 ELSE 0)
      BY <1>1, <1>4, CountAppend
    <3>4. active'[x] = active[x] BY <1>2
    <3>5. CASE x = l
      <4>1. Cardinality(OfLoop(queue', x)) = Cardinality(OfLoop(queue, x)) + 1
        BY <1>6, <3>3, <3>5
      <4>2. Len(left'[x]) = n /\ n = Len(left[x]) - 1 BY <1>3, <3>5
      <4>. QED BY <3>1, <3>2, <3>4, <4>1, <4>2
    <3>6. CASE x # l
      <4>1. Cardinality(OfLoop(queue', x)) = Cardinality(OfLoop(queue, x))
        BY <1>6, <3>2, <3>3, <3>6
      <4>2. left'[x] = left[x] BY <1>2, <3>6
      <4>. QED BY <3>1, <3>4, <4>1, <4>2
    <3>. QED BY <3>5, <3>6
  <2>. QED BY <1>2, <2>1 DEF ActiveExact, OfLoop, Running, Busy
<1>11. TasksPending'
  <2>1. \A x \in Loops : \A k \in DOMAIN left'[x] : Pending(left'[x][k], range, done)
    <3>1. \A k \in DOMAIN left'[l] : Pending(left'[l][k], range, done)
      BY <1>3 DEF IInv, TasksPending
    <3>. QED BY <1>2, <3>1 DEF IInv, TasksPending
  <2>2. \A k \in DOMAIN queue' : Pending(queue'[k], range, done)
    BY <1>5, <1>6 DEF IInv, TasksPending
  <2>. QED BY <1>2, <2>1, <2>2 DEF IInv, TasksPending
<1>12. LeftApart'
  <2>1. ASSUME NEW x \in Loops, NEW k \in DOMAIN left'[x]
        PROVE  /\ \A h \in DOMAIN left'[x] : k # h => Apart(left'[x][k], left'[x][h])
               /\ \A h \in DOMAIN queue' : Apart(left'[x][k], queue'[h])
               /\ \A w \in Workers : task[w] # NoTask => Apart(left'[x][k], task[w])
    <3>1. CASE x = l
      <4>1. k \in 1..n /\ k + 1 \in DOMAIN left[l] /\ left'[x][k] = left[l][k + 1]
        <5>1. k \in 1..n BY <1>3, <3>1
        <5>2. k + 1 \in 1..n + 1 BY <5>1
        <5>. QED BY <1>3, <3>1, <5>1, <5>2
      <4>2. \A h \in DOMAIN left'[x] : k # h => Apart(left'[x][k], left'[x][h])
        <5>1. ASSUME NEW h \in DOMAIN left'[x], k # h
              PROVE  Apart(left'[x][k], left'[x][h])
          <6>1. h \in 1..n /\ h + 1 \in DOMAIN left[l] /\ left'[x][h] = left[l][h + 1]
            <7>1. h \in 1..n BY <1>3, <3>1
            <7>2. h + 1 \in 1..n + 1 BY <7>1
            <7>. QED BY <1>3, <3>1, <7>1, <7>2
          <6>2. k + 1 # h + 1 BY <4>1, <5>1, <6>1
          <6>. QED BY <4>1, <6>1, <6>2 DEF IInv, LeftApart
        <5>. QED BY <5>1
      <4>3. Apart(left'[x][k], t)
        BY <1>3, <1>4, <4>1 DEF IInv, LeftApart
      <4>4. \A h \in DOMAIN queue' : Apart(left'[x][k], queue'[h])
        BY <1>5, <4>1, <4>3 DEF IInv, LeftApart
      <4>. QED BY <4>1, <4>2, <4>4 DEF IInv, LeftApart
    <3>2. CASE x # l
      <4>1. left'[x] = left[x] BY <1>2, <3>2
      <4>2. Apart(left[x][k], t)
        BY <1>6, <3>2, <4>1 DEF IInv, OwnTasks, Apart
      <4>3. \A h \in DOMAIN queue' : Apart(left[x][k], queue'[h])
        BY <1>5, <4>1, <4>2 DEF IInv, LeftApart
      <4>. QED BY <4>1, <4>3 DEF IInv, LeftApart
    <3>. QED BY <3>1, <3>2
  <2>. QED BY <1>2, <2>1 DEF LeftApart
<1>13. QueueApart'
  <2>1. \A h \in DOMAIN queue : Apart(t, queue[h]) /\ Apart(queue[h], t)
    <3>1. \A h \in DOMAIN queue : Apart(t, queue[h])
      BY <1>3, <1>4 DEF IInv, LeftApart
    <3>. QED BY <3>1 DEF Apart
  <2>2. \A w \in Workers : task[w] # NoTask => Apart(t, task[w])
    BY <1>3, <1>4 DEF IInv, LeftApart
  <2>3. \A k, h \in DOMAIN queue' : k # h => Apart(queue'[k], queue'[h])
    BY <1>5, <2>1 DEF IInv, QueueApart
  <2>4. \A k \in DOMAIN queue' :
          \A w \in Workers : task[w] # NoTask => Apart(queue'[k], task[w])
    BY <1>5, <2>2 DEF IInv, QueueApart
  <2>. QED BY <1>2, <2>3, <2>4 DEF QueueApart
<1>14. AllHeld'
  <2>1. ASSUME NEW x \in Loops, NEW j, Held(x, j)
        PROVE  Held(x, j)'
    <3>1. ASSUME NEW k \in DOMAIN left[x], Has(left[x][k], x, j)
          PROVE  Held(x, j)'
      <4>1. CASE x = l /\ k = 1
        <5>1. m + 1 \in DOMAIN queue' /\ Has(queue'[m + 1], x, j)
          BY <1>4, <1>5, <3>1, <4>1
        <5>. QED BY <5>1 DEF Held
      <4>2. CASE x = l /\ k # 1
        <5>1. k - 1 \in DOMAIN left'[x] /\ left'[x][k - 1] = left[x][k]
          <6>1. k \in 1..n + 1 BY <1>3, <4>2
          <6>2. k - 1 \in 1..n /\ (k - 1) + 1 = k BY <4>2, <6>1
          <6>. QED BY <1>3, <4>2, <6>2
        <5>. QED BY <3>1, <5>1 DEF Held
      <4>3. CASE x # l
        BY <1>2, <3>1, <4>3 DEF Held
      <4>. QED BY <4>1, <4>2, <4>3
    <3>2. ASSUME NEW k \in DOMAIN queue, Has(queue[k], x, j)
          PROVE  Held(x, j)'
      <4>1. k \in DOMAIN queue' /\ queue'[k] = queue[k]
        BY <1>5
      <4>. QED BY <3>2, <4>1 DEF Held
    <3>3. ASSUME NEW w \in Workers, task[w] # NoTask, Has(task[w], x, j)
          PROVE  Held(x, j)'
      BY <1>2, <3>3 DEF Held
    <3>. QED BY <2>1, <3>1, <3>2, <3>3 DEF Held
  <2>. QED BY <1>2, <2>1 DEF IInv, AllHeld
<1>15. DoneInRange' /\ RunApart'
  BY <1>2 DEF IInv, DoneInRange, RunApart
<1>. QED BY <1>7, <1>8, <1>9, <1>10, <1>11, <1>12, <1>13, <1>14, <1>15 DEF IInv

(* A step of a caller that moves no task.                                  *)
LEMMA QuietStep ==
  ASSUME IInv, UNCHANGED <<queue, task, left, active, range, done>>,
         TypeOK', PhaseInv', CtrlAlive'
  PROVE  IInv'
<1>1. OwnTasks' /\ DoneInRange'
  BY DEF IInv, OwnTasks, DoneInRange
<1>2. ActiveExact'
  BY DEF IInv, ActiveExact, Busy
<1>3. TasksPending'
  BY DEF IInv, TasksPending
<1>4. LeftApart' /\ QueueApart' /\ RunApart'
  BY DEF IInv, LeftApart, QueueApart, RunApart
<1>5. AllHeld'
  BY DEF IInv, AllHeld, Held
<1>. QED BY <1>1, <1>2, <1>3, <1>4, <1>5 DEF IInv

LEMMA CallerStepKeeps ==
  ASSUME IInv, NEW l \in Loops, CallerStep(l)
  PROVE  IInv'
<1>1. TypeOK BY DEF IInv
<1>2. /\ \A k \in DOMAIN queue : queue[k].loop \in Loops
      /\ \A w \in Workers : task[w] # NoTask => task[w].loop \in Loops
  BY <1>1, TasksTyped, TaskFields
<1>3. CASE Push(l)
  <2>1. CASE left[l] # <<>>
    BY <1>3, <2>1, PushTask
  <2>2. CASE left[l] = <<>>
    <3>1. /\ UNCHANGED <<maxThreads, queue, task, left, active, range, done, evals, subDone>>
          /\ phase' = [phase EXCEPT ![l] = "wait"]
      BY <1>3, <2>2 DEF Push
    <3>2. TypeOK'
      BY <1>1, <3>1 DEF TypeOK
    <3>3. PhaseInv'
      BY <1>1, <2>2, <3>1 DEF IInv, PhaseInv, TypeOK
    <3>4. CtrlAlive'
      BY <1>1, <1>2, <3>1 DEF IInv, CtrlAlive, Busy, TypeOK
    <3>. QED BY <3>1, <3>2, <3>3, <3>4, QuietStep
  <2>. QED BY <2>1, <2>2
<1>4. CASE Sleep(l)
  <2>1. TypeOK'
    BY <1>1, <1>4 DEF TypeOK, Sleep
  <2>2. PhaseInv'
    BY <1>1, <1>4 DEF IInv, PhaseInv, TypeOK, Sleep
  <2>3. CtrlAlive'
    BY <1>1, <1>2, <1>4 DEF IInv, CtrlAlive, Busy, TypeOK, Sleep
  <2>. QED BY <1>4, <2>1, <2>2, <2>3, QuietStep DEF Sleep
<1>5. CASE Return(l)
  <2>1. TypeOK'
    BY <1>1, <1>5 DEF TypeOK, Return
  <2>2. PhaseInv'
    BY <1>1, <1>5 DEF IInv, PhaseInv, TypeOK, Return
  <2>3. /\ \A k \in DOMAIN queue : queue[k].loop # l
        /\ \A w \in Workers : task[w] # NoTask => task[w].loop # l
    BY <1>1, <1>5, NothingCounted DEF IInv, Return
  <2>4. CtrlAlive'
    BY <1>1, <1>2, <1>5, <2>3 DEF IInv, CtrlAlive, Busy, TypeOK, Return
  <2>. QED BY <1>5, <2>1, <2>2, <2>4, QuietStep DEF Return
<1>. QED BY <1>3, <1>4, <1>5 DEF CallerStep

(* The oldest task goes from the queue to a pool thread.                   *)
LEMMA TakeStep ==
  ASSUME IInv, NEW w \in Workers, Take(w)
  PROVE  IInv'
<1>1. /\ queue \in Seq(Task) /\ queue # <<>>
      /\ queue' = Tail(queue)
      /\ task[w] = NoTask
      /\ task'[w] = Head(queue)
  BY DEF IInv, TypeOK, Take
<1>2. /\ \A v \in Workers : v # w => task'[v] = task[v]
      /\ UNCHANGED <<maxThreads, phase, left, active, range, done, evals, subDone>>
  BY DEF IInv, TypeOK, Take
<1>3. PICK n \in Nat :
        /\ DOMAIN queue = 1..n + 1
        /\ queue' \in Seq(Task) /\ DOMAIN queue' = 1..n
        /\ \A k \in 1..n : queue'[k] = queue[k + 1]
        /\ Head(queue) = queue[1] /\ Head(queue) \in Task
  BY <1>1, TailFacts
<1>4. PICK t \in Task : t = queue[1] /\ t = Head(queue) /\ t = task'[w]
  BY <1>1, <1>3
<1>5. 1 \in DOMAIN queue /\ t # NoTask
  BY <1>3, NoTaskAssumption
<1>6. \A k \in DOMAIN queue' : k + 1 \in DOMAIN queue /\ k + 1 # 1 /\ queue'[k] = queue[k + 1]
  BY <1>3
<1>7. TypeOK'
  <2>1. TypeOK BY DEF IInv
  <2>2. task' \in [Workers -> Task \cup {NoTask}]
    BY <1>3, <2>1 DEF TypeOK, Take
  <2>. QED BY <1>2, <1>3, <2>1, <2>2 DEF TypeOK
<1>8. PhaseInv' /\ OwnTasks' /\ DoneInRange'
  BY <1>2 DEF IInv, PhaseInv, OwnTasks, DoneInRange
<1>9. CtrlAlive'
  <2>1. phase[t.loop] # "idle" BY <1>4, <1>5 DEF IInv, CtrlAlive
  <2>2. \A k \in DOMAIN queue' : phase[queue'[k].loop] # "idle"
    BY <1>6 DEF IInv, CtrlAlive
  <2>3. \A v \in Workers : task'[v] # NoTask => phase[task'[v].loop] # "idle"
    BY <1>2, <1>4, <2>1 DEF IInv, CtrlAlive, Busy
  <2>. QED BY <1>2, <2>2, <2>3 DEF CtrlAlive, Busy
<1>10. ActiveExact'
  <2>1. ASSUME NEW x \in Loops
        PROVE  active'[x] = Len(left'[x]) + Cardinality(OfLoop(queue', x))
                            + Cardinality(Running(x)')
    <3>1. active[x] = Len(left[x]) + Cardinality(OfLoop(queue, x)) + Cardinality(Running(x))
      BY DEF IInv, ActiveExact, OfLoop, Running
    <3>2. /\ Len(left[x]) \in Nat
          /\ Cardinality(OfLoop(queue, x)) \in Nat
          /\ IsFiniteSet(Running(x)) /\ Cardinality(Running(x)) \in Nat
      BY <1>1, OfLoopFinite, RunningFinite, LenProperties DEF IInv, TypeOK
    <3>3. Cardinality(OfLoop(queue', x))
          = Cardinality(OfLoop(queue, x)) - (IF t.loop = x THEN 1 ELSE 0)
      BY <1>1, <1>4, CountTail
    <3>4. active'[x] = active[x] /\ left'[x] = left[x] BY <1>2
    <3>5. CASE t.loop = x
      <4>1. Cardinality(OfLoop(queue', x)) = Cardinality(OfLoop(queue, x)) - 1
        BY <3>3, <3>5
      <4>2. Running(x)' = Running(x) \cup {w} /\ w \notin Running(x)
        BY <1>1, <1>2, <1>4, <1>5, <3>5 DEF Running, Busy
      <4>3. Cardinality(Running(x)') = Cardinality(Running(x)) + 1
        BY <3>2, <4>2, FS_AddElement
      <4>. DEFINE q == Cardinality(OfLoop(queue, x))
                  q2 == Cardinality(OfLoop(queue', x))
                  r == Cardinality(Running(x))
                  r2 == Cardinality(Running(x)')
                  len == Len(left[x])
      <4>4. /\ len \in Nat /\ q \in Nat /\ r \in Nat
            /\ active'[x] = len + q + r /\ q2 = q - 1 /\ r2 = r + 1
        BY <3>1, <3>2, <3>4, <4>1, <4>3
      <4>5. Len(left'[x]) = len BY <3>4
      <4>. HIDE DEF q, q2, r, r2, len
      <4>6. active'[x] = len + q2 + r2 BY <4>4
      <4>. QED BY <4>5, <4>6 DEF q2, r2
    <3>6. CASE t.loop # x
      <4>1. Cardinality(OfLoop(queue', x)) = Cardinality(OfLoop(queue, x))
        BY <3>2, <3>3, <3>6
      <4>2. Running(x)' = Running(x)
        BY <1>1, <1>2, <1>4, <3>6 DEF Running, Busy
      <4>. QED BY <3>1, <3>4, <4>1, <4>2
    <3>. QED BY <3>5, <3>6
  <2>. QED BY <2>1 DEF ActiveExact, OfLoop, Running, Busy
<1>11. TasksPending'
  <2>1. \A k \in DOMAIN queue' : Pending(queue'[k], range, done)
    BY <1>6 DEF IInv, TasksPending
  <2>2. \A v \in Workers : task'[v] # NoTask => Pending(task'[v], range, done)
    BY <1>2, <1>4, <1>5 DEF IInv, TasksPending
  <2>. QED BY <1>2, <2>1, <2>2 DEF IInv, TasksPending
<1>12. LeftApart'
  <2>1. ASSUME NEW x \in Loops, NEW k \in DOMAIN left[x]
        PROVE  /\ \A h \in DOMAIN queue' : Apart(left[x][k], queue'[h])
               /\ \A v \in Workers : task'[v] # NoTask => Apart(left[x][k], task'[v])
    <3>1. \A h \in DOMAIN queue' : Apart(left[x][k], queue'[h])
      BY <1>6 DEF IInv, LeftApart
    <3>2. Apart(left[x][k], task'[w])
      BY <1>4, <1>5 DEF IInv, LeftApart
    <3>3. \A v \in Workers : task'[v] # NoTask => Apart(left[x][k], task'[v])
      BY <1>2, <3>2 DEF IInv, LeftApart
    <3>. QED BY <3>1, <3>3
  <2>. QED BY <1>2, <2>1 DEF IInv, LeftApart
<1>13. QueueApart'
  <2>1. ASSUME NEW k \in DOMAIN queue'
        PROVE  /\ \A h \in DOMAIN queue' : k # h => Apart(queue'[k], queue'[h])
               /\ \A v \in Workers : task'[v] # NoTask => Apart(queue'[k], task'[v])
    <3>1. \A h \in DOMAIN queue' : k # h => k + 1 # h + 1
      BY <1>3
    <3>2. \A h \in DOMAIN queue' : k # h => Apart(queue'[k], queue'[h])
      BY <1>6, <3>1 DEF IInv, QueueApart
    <3>3. Apart(queue'[k], task'[w])
      BY <1>4, <1>5, <1>6 DEF IInv, QueueApart
    <3>4. \A v \in Workers : task'[v] # NoTask => Apart(queue'[k], task'[v])
      BY <1>2, <1>6, <3>3 DEF IInv, QueueApart
    <3>. QED BY <3>2, <3>4
  <2>. QED BY <2>1 DEF QueueApart
<1>14. RunApart'
  <2>1. \A v \in Workers : v # w /\ task[v] # NoTask => Apart(t, task[v]) /\ Apart(task[v], t)
    <3>1. \A v \in Workers : task[v] # NoTask => Apart(t, task[v])
      BY <1>4, <1>5 DEF IInv, QueueApart
    <3>. QED BY <3>1 DEF Apart
  <2>. QED BY <1>2, <1>4, <2>1 DEF IInv, RunApart
<1>15. AllHeld'
  <2>1. ASSUME NEW x \in Loops, NEW j, Held(x, j)
        PROVE  Held(x, j)'
    <3>1. ASSUME NEW k \in DOMAIN left[x], Has(left[x][k], x, j)
          PROVE  Held(x, j)'
      BY <1>2, <3>1 DEF Held
    <3>2. ASSUME NEW k \in DOMAIN queue, Has(queue[k], x, j)
          PROVE  Held(x, j)'
      <4>1. CASE k = 1
        BY <1>4, <1>5, <3>2, <4>1 DEF Held
      <4>2. CASE k # 1
        <5>1. k - 1 \in 1..n /\ (k - 1) + 1 = k BY <1>3, <4>2
        <5>2. k - 1 \in DOMAIN queue' /\ queue'[k - 1] = queue[k] BY <1>3, <5>1
        <5>. QED BY <3>2, <5>2 DEF Held
      <4>. QED BY <4>1, <4>2
    <3>3. ASSUME NEW v \in Workers, task[v] # NoTask, Has(task[v], x, j)
          PROVE  Held(x, j)'
      BY <1>1, <1>2, <3>3 DEF Held
    <3>. QED BY <2>1, <3>1, <3>2, <3>3 DEF Held
  <2>. QED BY <1>2, <2>1 DEF IInv, AllHeld
<1>. QED BY <1>7, <1>8, <1>9, <1>10, <1>11, <1>12, <1>13, <1>14, <1>15 DEF IInv

(* What Eval and Finish do to the task of a thread.                        *)
LEMMA TaskOf ==
  ASSUME IInv, NEW w \in Workers, task[w] # NoTask
  PROVE  /\ task[w] \in Task /\ task[w].loop \in Loops
         /\ task[w].i \in 0..Last + 1 /\ task[w].f \in 0..Last + 1
         /\ Pending(task[w], range, done)
BY TasksTyped, TaskFields DEF IInv, TasksPending

(* An index evaluated: no other task holds it, and its own no longer does. *)
LEMMA EvalStep ==
  ASSUME IInv, NEW w \in Workers, Eval(w)
  PROVE  IInv'
<1>1. PICK t \in Task, l \in Loops, i \in Nat, f \in Nat :
        /\ t = task[w] /\ t # NoTask
        /\ t.loop = l /\ t.i = i /\ t.f = f
        /\ i < f /\ f <= Last + 1 /\ i <= Last
        /\ Pending(t, range, done)
  <2>1. task[w] # NoTask /\ task[w].i < task[w].f BY DEF Eval
  <2>2. /\ task[w].i \in Nat /\ task[w].f \in Nat
        /\ task[w].f <= Last + 1 /\ task[w].i <= Last
    BY <2>1, TaskOf, LastAssumption
  <2>. QED BY <2>1, <2>2, TaskOf
<1>2. PICK u \in Task : /\ u = task'[w] /\ u # NoTask
                        /\ u.loop = l /\ u.i = i + 1 /\ u.f = f
  <2>1. task'[w] = [t EXCEPT !.i = @ + 1]
    BY <1>1 DEF IInv, TypeOK, Eval
  <2>2. t = [loop |-> l, i |-> i, f |-> f]
    BY <1>1 DEF Task
  <2>3. task'[w] = [loop |-> l, i |-> i + 1, f |-> f]
    BY <2>1, <2>2
  <2>4. task'[w] \in Task
    BY <1>1, <2>3, LastAssumption DEF Task
  <2>. QED BY <2>3, <2>4, NoTaskAssumption
<1>3. /\ \A v \in Workers : v # w => task'[v] = task[v]
      /\ done'[l] = done[l] \cup {i}
      /\ \A x \in Loops : x # l => done'[x] = done[x]
      /\ UNCHANGED <<maxThreads, queue, phase, left, active, range>>
  BY <1>1 DEF IInv, TypeOK, Eval
<1>4. i \in range[l] /\ i \notin done[l]
  BY <1>1 DEF Pending
<1>5. TypeOK'
  <2>1. TypeOK BY DEF IInv
  <2>2. task' \in [Workers -> Task \cup {NoTask}]
    BY <1>2, <2>1 DEF TypeOK, Eval
  <2>3. done' \in [Loops -> SUBSET (0..Last)]
    <3>1. done \in [Loops -> SUBSET (0..Last)] /\ l \in Loops /\ i \in 0..Last
      BY <1>1, <2>1, <1>4 DEF TypeOK
    <3>2. done' = [done EXCEPT ![l] = @ \cup {i}]
      BY <1>1 DEF Eval
    <3>. QED BY <3>1, <3>2
  <2>4. subDone' \in [Workers -> BOOLEAN]
    BY <2>1 DEF TypeOK, Eval
  <2>5. evals' \in [Loops -> Nat]
    <3>1. evals \in [Loops -> Nat] /\ l \in Loops
      BY <1>1, <2>1 DEF TypeOK
    <3>2. evals' = [evals EXCEPT ![l] = @ + 1]
      BY <1>1 DEF Eval
    <3>. QED BY <3>1, <3>2
  <2>. QED BY <1>3, <2>1, <2>2, <2>3, <2>4, <2>5 DEF TypeOK
<1>6. PhaseInv' /\ OwnTasks'
  BY <1>3 DEF IInv, PhaseInv, OwnTasks
<1>7. CtrlAlive'
  <2>1. \A v \in Workers : task'[v] # NoTask => phase[task'[v].loop] # "idle"
    BY <1>1, <1>2, <1>3 DEF IInv, CtrlAlive, Busy
  <2>. QED BY <1>3, <2>1 DEF IInv, CtrlAlive, Busy
<1>8. ActiveExact'
  <2>1. ASSUME NEW x \in Loops PROVE Running(x)' = Running(x)
    BY <1>1, <1>2, <1>3 DEF Running, Busy
  <2>2. \A x \in Loops :
          active[x] = Len(left[x]) + Cardinality(OfLoop(queue, x)) + Cardinality(Running(x))
    BY DEF IInv, ActiveExact, OfLoop, Running
  <2>3. \A x \in Loops :
          active'[x] = Len(left'[x]) + Cardinality(OfLoop(queue', x)) + Cardinality(Running(x)')
    BY <1>3, <2>1, <2>2
  <2>. QED BY <2>3 DEF ActiveExact, OfLoop, Running, Busy
<1>9. ASSUME NEW s \in Task, Apart(s, t), Pending(s, range, done)
      PROVE  Pending(s, range', done') /\ Apart(s, u) /\ Apart(u, s)
  <2>1. s.i \in Int /\ s.f \in Int /\ s.loop \in Loops
    BY TaskFields, LastAssumption
  <2>2. s.loop = l => i \notin s.i .. s.f - 1
    BY <1>1, <1>9, <2>1 DEF Apart
  <2>3. Pending(s, range', done')
    BY <1>3, <1>9, <2>1, <2>2 DEF Pending
  <2>4. Apart(s, u) /\ Apart(u, s)
    BY <1>1, <1>2, <1>9, <2>1 DEF Apart
  <2>. QED BY <2>3, <2>4
<1>10. Pending(u, range', done')
  BY <1>1, <1>2, <1>3 DEF Pending
<1>11. /\ \A x \in Loops : \A k \in DOMAIN left[x] :
             left[x][k] \in Task /\ Apart(left[x][k], t) /\ Pending(left[x][k], range, done)
       /\ \A k \in DOMAIN queue :
             queue[k] \in Task /\ Apart(queue[k], t) /\ Pending(queue[k], range, done)
       /\ \A v \in Workers : v # w /\ task[v] # NoTask =>
             task[v] \in Task /\ Apart(task[v], t) /\ Pending(task[v], range, done)
  BY <1>1, TasksTyped DEF IInv, LeftApart, QueueApart, RunApart, TasksPending
<1>12. TasksPending'
  <2>1. \A x \in Loops : \A k \in DOMAIN left[x] : Pending(left[x][k], range', done')
    BY <1>9, <1>11
  <2>2. \A k \in DOMAIN queue : Pending(queue[k], range', done')
    BY <1>9, <1>11
  <2>3. \A v \in Workers : task'[v] # NoTask => Pending(task'[v], range', done')
    BY <1>2, <1>3, <1>9, <1>10, <1>11
  <2>. QED BY <1>3, <2>1, <2>2, <2>3 DEF TasksPending
<1>13. LeftApart'
  <2>1. \A x \in Loops : \A k \in DOMAIN left[x] : \A v \in Workers :
          task'[v] # NoTask => Apart(left[x][k], task'[v])
    <3>1. \A x \in Loops : \A k \in DOMAIN left[x] : Apart(left[x][k], u)
      BY <1>9, <1>11
    <3>. QED BY <1>2, <1>3, <3>1 DEF IInv, LeftApart
  <2>. QED BY <1>3, <2>1 DEF IInv, LeftApart
<1>14. QueueApart'
  <2>1. \A k \in DOMAIN queue : \A v \in Workers :
          task'[v] # NoTask => Apart(queue[k], task'[v])
    <3>1. \A k \in DOMAIN queue : Apart(queue[k], u)
      BY <1>9, <1>11
    <3>. QED BY <1>2, <1>3, <3>1 DEF IInv, QueueApart
  <2>. QED BY <1>3, <2>1 DEF IInv, QueueApart
<1>15. RunApart'
  <2>1. \A v \in Workers : v # w /\ task[v] # NoTask => Apart(task[v], u) /\ Apart(u, task[v])
    BY <1>9, <1>11
  <2>. QED BY <1>2, <1>3, <2>1 DEF IInv, RunApart
<1>16. AllHeld'
  <2>1. ASSUME NEW x \in Loops, NEW j \in range[x], j \notin done'[x]
        PROVE  Held(x, j)'
    <3>1. j \notin done[x] /\ Held(x, j) BY <1>3, <2>1 DEF IInv, AllHeld
    <3>2. j \in 0..Last BY DEF IInv, TypeOK
    <3>3. ASSUME NEW v \in Workers, task[v] # NoTask, Has(task[v], x, j)
          PROVE  Held(x, j)'
      <4>1. CASE v = w
        <5>1. x = l /\ j \in i .. f - 1 /\ j # i
          BY <1>1, <1>3, <2>1, <3>3, <4>1 DEF Has
        <5>2. Has(u, x, j) BY <1>2, <3>2, <5>1 DEF Has
        <5>. QED BY <1>2, <5>2 DEF Held
      <4>2. CASE v # w
        BY <1>3, <3>3, <4>2 DEF Held
      <4>. QED BY <4>1, <4>2
    <3>. QED BY <1>3, <3>1, <3>3 DEF Held
  <2>. QED BY <1>3, <2>1 DEF AllHeld
<1>17. DoneInRange'
  BY <1>3, <1>4 DEF IInv, DoneInRange
<1>. QED BY <1>5, <1>6, <1>7, <1>8, <1>12, <1>13, <1>14, <1>15, <1>16, <1>17 DEF IInv

(* A task ends: it holds no index any more, and is no longer counted.      *)
LEMMA FinishStep ==
  ASSUME IInv, NEW w \in Workers, Finish(w)
  PROVE  IInv'
<1>1. PICK t \in Task, l \in Loops :
        /\ t = task[w] /\ t # NoTask
        /\ t.loop = l /\ t.i = t.f /\ t.i \in Nat
  <2>1. task[w] # NoTask /\ task[w].i = task[w].f BY DEF Finish
  <2>2. task[w].i \in Nat BY <2>1, TaskOf, LastAssumption
  <2>. QED BY <2>1, <2>2, TaskOf
<1>2. /\ task'[w] = NoTask
      /\ \A v \in Workers : v # w => task'[v] = task[v]
      /\ active'[l] = active[l] - 1
      /\ \A x \in Loops : x # l => active'[x] = active[x]
      /\ UNCHANGED <<maxThreads, queue, left, range, done, evals, subDone>>
  BY <1>1 DEF IInv, TypeOK, Finish
<1>3. \A x \in Loops :
        \/ phase'[x] = phase[x]
        \/ phase[x] = "asleep" /\ phase'[x] = "wait"
  BY <1>1 DEF IInv, TypeOK, Finish
<1>4. TypeOK'
  <2>1. TypeOK BY DEF IInv
  <2>2. task' \in [Workers -> Task \cup {NoTask}]
    BY <2>1 DEF TypeOK, Finish
  <2>3. active' \in [Loops -> Int]
    BY <1>1, <2>1 DEF TypeOK, Finish
  <2>4. phase' \in [Loops -> {"idle", "push", "wait", "asleep"}]
    BY <1>1, <2>1 DEF TypeOK, Finish
  <2>. QED BY <1>2, <2>1, <2>2, <2>3, <2>4 DEF TypeOK
<1>5. PhaseInv' /\ OwnTasks' /\ DoneInRange'
  BY <1>2, <1>3 DEF IInv, PhaseInv, OwnTasks, DoneInRange
<1>6. CtrlAlive'
  <2>1. /\ \A k \in DOMAIN queue : queue[k].loop \in Loops
        /\ \A v \in Workers : task[v] # NoTask => task[v].loop \in Loops
    BY TasksTyped, TaskFields DEF IInv
  <2>2. \A k \in DOMAIN queue : phase'[queue[k].loop] # "idle"
    BY <1>3, <2>1 DEF IInv, CtrlAlive
  <2>3. \A v \in Workers : task'[v] # NoTask => phase'[task'[v].loop] # "idle"
    BY <1>2, <1>3, <2>1 DEF IInv, CtrlAlive, Busy
  <2>. QED BY <1>2, <2>2, <2>3 DEF CtrlAlive, Busy
<1>7. ActiveExact'
  <2>1. ASSUME NEW x \in Loops
        PROVE  active'[x] = Len(left'[x]) + Cardinality(OfLoop(queue', x))
                            + Cardinality(Running(x)')
    <3>1. active[x] = Len(left[x]) + Cardinality(OfLoop(queue, x)) + Cardinality(Running(x))
      BY DEF IInv, ActiveExact, OfLoop, Running
    <3>2. /\ Len(left[x]) \in Nat
          /\ Cardinality(OfLoop(queue, x)) \in Nat
          /\ IsFiniteSet(Running(x)) /\ Cardinality(Running(x)) \in Nat
      BY OfLoopFinite, RunningFinite, LenProperties DEF IInv, TypeOK
    <3>3. CASE x = l
      <4>1. Running(x)' = Running(x) \ {w} /\ w \in Running(x)
        BY <1>1, <1>2, <3>3 DEF Running, Busy
      <4>2. Cardinality(Running(x)') = Cardinality(Running(x)) - 1
        BY <3>2, <4>1, FS_RemoveElement
      <4>3. active'[x] = active[x] - 1 /\ left' = left /\ queue' = queue
        BY <1>2, <3>3
      <4>. QED BY <3>1, <3>2, <4>2, <4>3
    <3>4. CASE x # l
      <4>1. Running(x)' = Running(x)
        BY <1>1, <1>2, <3>4 DEF Running, Busy
      <4>. QED BY <1>2, <3>1, <3>4, <4>1
    <3>. QED BY <3>3, <3>4
  <2>. QED BY <2>1 DEF ActiveExact, OfLoop, Running, Busy
<1>8. TasksPending'
  BY <1>2 DEF IInv, TasksPending
<1>9. LeftApart' /\ QueueApart' /\ RunApart'
  BY <1>2 DEF IInv, LeftApart, QueueApart, RunApart
<1>10. AllHeld'
  <2>1. \A x, j : ~ Has(t, x, j)
    BY <1>1 DEF Has
  <2>2. ASSUME NEW x \in Loops, NEW j, Held(x, j) PROVE Held(x, j)'
    BY <1>1, <1>2, <2>1, <2>2 DEF Held
  <2>. QED BY <1>2, <2>2 DEF IInv, AllHeld
<1>. QED BY <1>4, <1>5, <1>6, <1>7, <1>8, <1>9, <1>10 DEF IInv

-----------------------------------------------------------------------------
(* The invariant                                                           *)

LEMMA WorkersCount == Cardinality(Workers) \in Nat \ {0}
BY ThreadsAssumption, FS_CardinalityType, FS_EmptySet

LEMMA IInvInit == Init => IInv
<1>. SUFFICES ASSUME Init PROVE IInv
  OBVIOUS
<1>1. TypeOK
  BY WorkersCount, EmptySeq, NoTaskAssumption DEF Init, TypeOK
<1>2. DOMAIN queue = {} /\ \A l \in Loops : left[l] = <<>> /\ DOMAIN left[l] = {}
  BY DEF Init
<1>3. \A w \in Workers : task[w] = NoTask
  BY DEF Init
<1>4. ActiveExact
  <2>1. \A l \in Loops : OfLoop(queue, l) = {} /\ Running(l) = {}
    BY <1>2, <1>3 DEF OfLoop, Running, Busy
  <2>2. \A l \in Loops : active[l] = 0 /\ Len(left[l]) = 0
    BY EmptySeq DEF Init
  <2>3. \A l \in Loops :
          active[l] = Len(left[l]) + Cardinality(OfLoop(queue, l)) + Cardinality(Running(l))
    <3>1. SUFFICES ASSUME NEW l \in Loops
                   PROVE  active[l] = Len(left[l]) + Cardinality(OfLoop(queue, l))
                                      + Cardinality(Running(l))
      OBVIOUS
    <3>2. Cardinality(OfLoop(queue, l)) = 0 /\ Cardinality(Running(l)) = 0
      BY <2>1, FS_EmptySet
    <3>3. active[l] = 0 /\ Len(left[l]) = 0 BY <2>2
    <3>. QED BY ONLY <3>2, <3>3
  <2>. QED BY <2>3 DEF ActiveExact, OfLoop, Running
<1>5. CtrlAlive /\ PhaseInv /\ OwnTasks
  BY <1>2, <1>3 DEF CtrlAlive, Busy, PhaseInv, OwnTasks
<1>6. TasksPending /\ LeftApart /\ QueueApart /\ RunApart
  BY <1>2, <1>3 DEF TasksPending, LeftApart, QueueApart, RunApart
<1>7. AllHeld /\ DoneInRange
  BY DEF Init, AllHeld, DoneInRange
<1>. QED BY <1>1, <1>4, <1>5, <1>6, <1>7 DEF IInv

LEMMA LoopFullStep ==
  ASSUME IInv, NEW l \in Loops, LoopFull(l)
  PROVE  IInv'
<1>1. PICK i \in 0..Last + 1, f \in 0..Last + 1 : i < f /\ Call(l, i, f, TasksFull(l, i, f))
  BY DEF LoopFull
<1>. QED BY <1>1, TasksFullCuts, CallStep

LEMMA LoopNWStep ==
  ASSUME IInv, NEW l \in Loops, LoopNW(l)
  PROVE  IInv'
<1>1. PICK i \in 0..Last + 1, f \in 0..Last + 1, n \in 1..Last :
        f - i > n /\ Call(l, i, f, TasksNW(l, i, f, n))
  BY DEF LoopNW
<1>2. n \in Nat \ {0} /\ i < f
  BY <1>1, LastAssumption
<1>. QED BY <1>1, <1>2, TasksNWCuts, CallStep

LEMMA SetMaxThreadsStep ==
  ASSUME IInv, NEW mt \in Limits, SetMaxThreads(mt)
  PROVE  IInv'
<1>1. TypeOK'
  <2>1. maxThreads' \in Int /\ maxThreads' >= -1
    BY LimitsAssumption DEF SetMaxThreads
  <2>. QED BY <2>1 DEF IInv, TypeOK, SetMaxThreads
<1>2. PhaseInv' /\ CtrlAlive'
  BY DEF IInv, PhaseInv, CtrlAlive, Busy, SetMaxThreads
<1>. QED BY <1>1, <1>2, QuietStep DEF SetMaxThreads

LEMMA IInvNext == IInv /\ [Next]_vars => IInv'
<1>. SUFFICES ASSUME IInv, [Next]_vars PROVE IInv'
  OBVIOUS
<1>1. ASSUME NEW l \in Callers, LoopFull(l) \/ LoopNW(l) PROVE IInv'
  BY <1>1, LoopFullStep, LoopNWStep DEF Loops
<1>2. ASSUME NEW l \in Loops, CallerStep(l) PROVE IInv'
  BY <1>2, CallerStepKeeps
<1>3. ASSUME NEW w \in Workers, WorkerStep(w) PROVE IInv'
  <2>1. w \in Loops BY DEF Loops
  <2>2. NestedLoop(w) => LoopFull(w) BY DEF NestedLoop
  <2>. QED BY <1>3, <2>1, <2>2, TakeStep, EvalStep, FinishStep, LoopFullStep DEF WorkerStep
<1>4. ASSUME NEW mt \in Limits, SetMaxThreads(mt) PROVE IInv'
  BY <1>4, SetMaxThreadsStep
<1>5. CASE UNCHANGED vars
  <2>1. TypeOK' BY <1>5 DEF IInv, TypeOK, vars
  <2>2. PhaseInv' /\ CtrlAlive' BY <1>5 DEF IInv, PhaseInv, CtrlAlive, Busy, vars
  <2>. QED BY <1>5, <2>1, <2>2, QuietStep DEF vars
<1>. QED BY <1>1, <1>2, <1>3, <1>4, <1>5 DEF Next

LEMMA Invariance == Spec => []IInv
BY IInvInit, IInvNext, PTL DEF Spec

-----------------------------------------------------------------------------
(* The theorems                                                            *)

(* The state of the pool and of the loops is always well formed.           *)
THEOREM TypeCorrect == Spec => []TypeOK
<1>1. IInv => TypeOK BY DEF IInv
<1>. QED BY <1>1, Invariance, PTL

(* active_threads of a loop is at every moment the number of its tasks     *)
(* that are not finished, whatever other loops do: it never passes through *)
(* zero before the last one ends.                                          *)
THEOREM CounterExact == Spec => []ActiveExact
<1>1. IInv => ActiveExact BY DEF IInv
<1>. QED BY <1>1, Invariance, PTL

(* No task points to the counter of a call that has returned: the counter, *)
(* its mutex and its condition are on the stack of the caller.             *)
THEOREM CtrlOutlivesTasks == Spec => []CtrlAlive
<1>1. IInv => CtrlAlive BY DEF IInv
<1>. QED BY <1>1, Invariance, PTL

running == {l \in Loops : phase[l] # "idle"}

LEMMA PromiseInit == Init => Promise!Init
BY DEF Init, Promise!Init

LEMMA CallPromised ==
  ASSUME IInv, NEW l \in Loops,
         NEW i \in 0..Last + 1, NEW f \in 0..Last + 1, i < f,
         NEW ts, Call(l, i, f, ts)
  PROVE  Promise!Call(l)
<1>1. l \notin running BY DEF Call, running
<1>2. running' = running \cup {l} BY DEF IInv, TypeOK, Call, running
<1>3. /\ range' = [range EXCEPT ![l] = i..f - 1]
      /\ done' = [done EXCEPT ![l] = {}] /\ evals' = [evals EXCEPT ![l] = 0]
  BY DEF Call
<1>. QED BY <1>1, <1>2, <1>3 DEF Promise!Call, running

LEMMA CallerStepPromised ==
  ASSUME IInv, NEW l \in Loops, CallerStep(l)
  PROVE  Promise!Next \/ UNCHANGED <<running, range, done, evals>>
<1>1. CASE Push(l)
  BY <1>1 DEF IInv, TypeOK, Push, running
<1>2. CASE Sleep(l)
  BY <1>2 DEF IInv, TypeOK, Sleep, running
<1>3. CASE Return(l)
  <2>1. ~ \E j : Held(l, j)
    <3>1. /\ left[l] = <<>>
          /\ \A k \in DOMAIN queue : queue[k].loop # l
          /\ \A w \in Workers : task[w] # NoTask => task[w].loop # l
      BY <1>3, NothingCounted DEF IInv, Return
    <3>. QED BY <3>1 DEF Held, Has
  <2>2. done[l] = range[l]
    BY <2>1 DEF IInv, AllHeld, DoneInRange
  <2>3. l \in running /\ running' = running \ {l}
    BY <1>3 DEF IInv, TypeOK, Return, running
  <2>4. Promise!Return(l)
    BY <1>3, <2>2, <2>3 DEF Promise!Return, Return, running
  <2>. QED BY <2>4 DEF Promise!Next
<1>. QED BY <1>1, <1>2, <1>3 DEF CallerStep

LEMMA WorkerStepPromised ==
  ASSUME IInv, NEW w \in Workers, WorkerStep(w)
  PROVE  Promise!Next \/ UNCHANGED <<running, range, done, evals>>
<1>1. CASE Take(w)
  BY <1>1 DEF Take, running
<1>2. CASE Eval(w)
  <2>1. PICK l \in Loops : task[w].loop = l BY <1>2, TaskOf DEF Eval
  <2>2. task[w].i \in range[l] \ done[l]
    <3>1. task[w] # NoTask /\ task[w].i < task[w].f BY <1>2 DEF Eval
    <3>2. /\ task[w].i \in Int /\ task[w].f \in Int
          /\ Pending(task[w], range, done)
      BY <3>1, TaskOf, LastAssumption
    <3>. QED BY <2>1, <3>1, <3>2 DEF Pending
  <2>3. l \in running
    BY <1>2, <2>1 DEF IInv, CtrlAlive, Busy, Eval, running
  <2>4. /\ done' = [done EXCEPT ![l] = @ \cup {task[w].i}]
        /\ evals' = [evals EXCEPT ![l] = @ + 1]
        /\ running' = running /\ range' = range
    BY <1>2, <2>1 DEF Eval, running
  <2>5. Promise!Eval(l)
    BY <2>2, <2>3, <2>4 DEF Promise!Eval, running
  <2>. QED BY <2>5 DEF Promise!Next
<1>3. CASE Finish(w)
  <2>1. PICK l \in Loops : task[w].loop = l BY <1>3, TaskOf DEF Finish
  <2>2. \A x \in Loops : phase'[x] # "idle" <=> phase[x] # "idle"
    BY <1>3, <2>1 DEF IInv, TypeOK, Finish
  <2>. QED BY <1>3, <2>2 DEF Finish, running
<1>4. CASE NestedLoop(w)
  <2>1. PICK i \in 0..Last + 1, f \in 0..Last + 1 : i < f /\ Call(w, i, f, TasksFull(w, i, f))
    BY <1>4 DEF NestedLoop, LoopFull
  <2>2. w \in Loops BY DEF Loops
  <2>. QED BY <2>1, <2>2, CallPromised DEF Promise!Next
<1>. QED BY <1>1, <1>2, <1>3, <1>4 DEF WorkerStep

(* The threaded loop implements the simple one: a call evaluates each of   *)
(* its indices exactly once, every evaluation being of an index that had   *)
(* none, and returns when all of them have been.                           *)
THEOREM PromiseKept == Spec => KeepsPromise
<1>1. ASSUME IInv, [Next]_vars
      PROVE  Promise!Next \/ UNCHANGED <<running, range, done, evals>>
  <2>1. ASSUME NEW l \in Callers, LoopFull(l) PROVE Promise!Next
    <3>1. PICK i \in 0..Last + 1, f \in 0..Last + 1 : i < f /\ Call(l, i, f, TasksFull(l, i, f))
      BY <2>1 DEF LoopFull
    <3>2. l \in Loops BY DEF Loops
    <3>. QED BY <1>1, <3>1, <3>2, CallPromised DEF Promise!Next
  <2>2. ASSUME NEW l \in Callers, LoopNW(l) PROVE Promise!Next
    <3>1. PICK i \in 0..Last + 1, f \in 0..Last + 1 :
            i < f /\ \E n \in 1..Last : Call(l, i, f, TasksNW(l, i, f, n))
      BY <2>2, LastAssumption DEF LoopNW
    <3>3. i < f BY <3>1
    <3>4. l \in Loops BY DEF Loops
    <3>. QED BY <1>1, <3>1, <3>3, <3>4, CallPromised DEF Promise!Next
  <2>3. ASSUME NEW mt \in Limits, SetMaxThreads(mt)
        PROVE  UNCHANGED <<running, range, done, evals>>
    BY <2>3 DEF SetMaxThreads, running
  <2>4. CASE UNCHANGED vars
    BY <2>4 DEF vars, running
  <2>. QED BY <1>1, <2>1, <2>2, <2>3, <2>4, CallerStepPromised, WorkerStepPromised DEF Next
<1>2. IInv /\ [Next]_vars => [Promise!Next]_<<{l \in Loops : phase[l] # "idle"}, range, done, evals>>
  BY <1>1 DEF running
<1>. QED BY <1>2, PromiseInit, Invariance, PTL DEF Spec, KeepsPromise, Promise!Spec
=============================================================================
