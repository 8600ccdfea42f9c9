--------------------------- MODULE TaskTreeProofs ---------------------------
(***************************************************************************)
(* The accounting of jobs and the promise of Wait() for every number of    *)
(* threads, tasks and cells, if a cell is reused only when no thread looks *)
(* at it (Quiesced).                                                       *)
(***************************************************************************)
EXTENDS TaskTree, SequenceTheorems, FiniteSetTheorems, TLAPS

Places == {"loop", "body", "wait", "release", "climb"}
FrameType == [task : TaskIds \cup {None}, pc : Places, it : TaskIds \cup {None},
              fresh : TaskIds \cup {None}, kept : SUBSET TaskIds]

Typed ==
    /\ m_allocated \in [Threads -> 0 .. MaxTasks]
    /\ parent \in [Cells -> Created \cup {None}]
    /\ jobs \in [Cells -> Nat]
    /\ queued \subseteq Created
    /\ done \subseteq Created
    /\ under \subseteq Created \X Created
    /\ stack \in [Threads -> Seq(FrameType)]

\* A frame speaks about tasks that exist (C); only the last one of a thread holds
\* a fresh task or is on its way up, and the bottom one is never left.
FrameOK(C, f, bottom, last) ==
    /\ {f.task, f.it, f.fresh} \subseteq C \cup {None}
    /\ f.kept \subseteq C
    /\ f.pc \in {"release", "climb"} => last /\ f.it # None /\ f.task # None
    /\ f.pc = "wait" => f.it \in f.kept
    /\ f.fresh # None => last /\ f.pc = "body" /\ f.fresh # f.task
    /\ bottom => f.task = None

FramesOK ==
    \A t \in Threads :
        /\ stack[t] # <<>>
        /\ \A k \in DOMAIN stack[t] : FrameOK(Created, stack[t][k], k = 1, k = Len(stack[t]))

\* Frame f will come to the end of the body of x, or to its start.
Holds(f, x) == f.fresh = x \/ (f.task = x /\ f.pc \in {"body", "wait"})

\* No task is handed out twice.
OneHolder(x) ==
    \A t \in Threads : \A k \in DOMAIN stack[t] :
        Holds(stack[t][k], x) =>
            /\ x \notin queued
            /\ \A u \in Threads : \A m \in DOMAIN stack[u] :
                 Holds(stack[u][m], x) => u = t /\ m = k

HeldOnce == \A x \in Created : OneHolder(x)

DoneOrPending == \A x \in Created : x \in done \/ Pending(x)

\* Thread t is at p, with it = x.
At(t, p, x) == \E k \in DOMAIN stack[t] : stack[t][k].pc = p /\ stack[t][k].it = x

Climbed(x) == \E t \in Threads : At(t, "climb", x)
Unreported(x) == Latest(x) /\ (jobs[Cell(x)] > 0 \/ Climbed(x))

\* What a thread still has to do with a task is done before its cell is reused.
StillThere ==
    /\ \A x \in Created :
        Pending(x) \/ (\E t \in Threads : At(t, "release", x)) \/ Climbed(x) => Latest(x)
    /\ \A t \in Threads : \A k \in DOMAIN stack[t] :
        \A x \in stack[t][k].kept : Latest(x)
    /\ \A x, p \in Created : Unreported(x) /\ parent[Cell(x)] = p => Latest(p)

\* One thread goes on to the parent, after the last job.
OneClimber ==
    \A x \in Created, t \in Threads : At(t, "climb", x) =>
        /\ jobs[Cell(x)] = 0
        /\ \A u \in Threads : At(u, "climb", x) => u = t

\* Between a task and an unreported one created under it, there is an
\* unreported child.
ChildBetween ==
    \A d, a \in Created : <<d, a>> \in under /\ d # a /\ Unreported(d) =>
        \E y \in UnreportedChildren(a) : <<d, y>> \in under

IInv ==
    /\ Typed
    /\ FramesOK
    /\ HeldOnce
    /\ DoneOrPending
    /\ StillThere
    /\ OneClimber
    /\ JobsAccounted
    /\ ChildBetween

-----------------------------------------------------------------------------
(***************************************************************************)
(* Memory: two tasks of one thread less than a turn of the ring apart live *)
(* in different cells.                                                     *)
(***************************************************************************)

LEMMA SlotsApart ==
    ASSUME NEW p \in Nat, NEW q \in Nat, p < q, q < p + RingSize
    PROVE  p % RingSize # q % RingSize
<1> DEFINE a == p \div RingSize
           b == q \div RingSize
<1>1. /\ a \in Nat /\ b \in Nat
      /\ p = RingSize * a + (p % RingSize)
      /\ q = RingSize * b + (q % RingSize)
      /\ p % RingSize \in Nat /\ q % RingSize \in Nat
  BY RingAssumption
<1> HIDE DEF a, b
<1> SUFFICES ASSUME p % RingSize = q % RingSize PROVE FALSE
  OBVIOUS
<1>2. q - p = RingSize * b - RingSize * a
  BY <1>1, RingAssumption
<1>3. RingSize * b - RingSize * a = RingSize * (b - a)
  BY <1>1, RingAssumption
<1>4. CASE b - a <= 0
  <2>1. RingSize * (b - a) <= 0
    BY <1>1, <1>4, RingAssumption
  <2> QED
    BY <2>1, <1>2, <1>3
<1>5. CASE b - a >= 1
  <2>1. RingSize * (b - a) >= RingSize
    BY <1>1, <1>5, RingAssumption
  <2> QED
    BY <2>1, <1>2, <1>3, RingAssumption
<1> QED
  BY <1>1, <1>4, <1>5

LEMMA NextTurn ==
    ASSUME NEW p \in Nat
    PROVE  (p + RingSize) % RingSize = p % RingSize
<1> DEFINE a == p \div RingSize
           r == p % RingSize
<1>1. a \in Nat /\ r \in 0 .. RingSize - 1 /\ p = RingSize * a + r
  BY RingAssumption
<1>2. (p + RingSize) % RingSize \in 0 .. RingSize - 1
  BY RingAssumption
<1> DEFINE b == (p + RingSize) \div RingSize
           s == (p + RingSize) % RingSize
<1>3. b \in Nat /\ s \in 0 .. RingSize - 1 /\ p + RingSize = RingSize * b + s
  BY RingAssumption
<1> HIDE DEF a, b, r, s
<1>4. RingSize \in Nat /\ RingSize > 0
  BY RingAssumption
<1>5. s - r = RingSize * (a + 1 - b)
  <2>1. RingSize * (a + 1 - b) = RingSize * a + RingSize - RingSize * b
    BY <1>1, <1>3, <1>4
  <2> QED
    BY <2>1, <1>1, <1>3, <1>4
<1>6. CASE a + 1 - b >= 1
  <2>1. RingSize * (a + 1 - b) >= RingSize
    BY <1>1, <1>3, <1>4, <1>6
  <2> QED
    BY <2>1, <1>1, <1>3, <1>4, <1>5
<1>7. CASE a + 1 - b <= -1
  <2>1. RingSize * (a + 1 - b) <= -RingSize
    BY <1>1, <1>3, <1>4, <1>7
  <2> QED
    BY <2>1, <1>1, <1>3, <1>4, <1>5
<1>8. CASE a + 1 - b = 0
  BY <1>1, <1>3, <1>4, <1>5, <1>8 DEF r, s
<1> QED
  BY <1>1, <1>3, <1>6, <1>7, <1>8

LEMMA TaskFields ==
    ASSUME NEW x \in TaskIds
    PROVE  /\ x[1] \in Threads /\ x[2] \in 0 .. MaxTasks /\ x[2] \in Nat
           /\ x = <<x[1], x[2]>>
           /\ Cell(x) \in Cells
BY RingAssumption, MaxTasksAssumption DEF TaskIds, Cell, Cells

\* Among the tasks whose cell was not given away since, a cell has one.
LEMMA OneTaskPerCell ==
    ASSUME m_allocated \in [Threads -> 0 .. MaxTasks],
           NEW x \in Created, NEW y \in Created, Latest(x), Latest(y), Cell(x) = Cell(y)
    PROVE  x = y
<1> DEFINE n == m_allocated[x[1]]
<1>1. x \in TaskIds /\ y \in TaskIds
  BY DEF Created
<1>2. x[1] = y[1] /\ x[2] % RingSize = y[2] % RingSize
  BY DEF Cell
<1>3. /\ n \in Nat /\ RingSize \in Nat /\ x[2] \in Nat /\ y[2] \in Nat
      /\ x[2] < n /\ y[2] < n /\ n <= x[2] + RingSize /\ n <= y[2] + RingSize
  BY <1>1, <1>2, TaskFields, RingAssumption, MaxTasksAssumption DEF Created, Latest
<1> HIDE DEF n
<1>4. ~(x[2] < y[2]) /\ ~(y[2] < x[2])
  BY <1>2, <1>3, SlotsApart
<1> QED
  BY <1>1, <1>2, <1>3, <1>4, TaskFields

\* Allocating x takes its cell from the task that had it, and from nobody else.
LEMMA CellTaken ==
    ASSUME m_allocated \in [Threads -> 0 .. MaxTasks], NEW t \in Threads,
           m_allocated' = [m_allocated EXCEPT ![t] = @ + 1],
           NEW z \in Created
    PROVE  Latest(z)' <=> Latest(z) /\ Cell(z) # Cell(<<t, m_allocated[t]>>)
<1> DEFINE n == m_allocated[t]
<1>1. z \in TaskIds /\ n \in Nat /\ RingSize \in Nat \ {0}
  BY RingAssumption, MaxTasksAssumption DEF Created
<1>2. z[1] \in Threads /\ z[2] \in Nat /\ z = <<z[1], z[2]>> /\ z[2] < m_allocated[z[1]]
  BY <1>1, TaskFields DEF Created
<1>3. CASE z[1] # t
  BY <1>2, <1>3 DEF Latest, Cell
<1>4. CASE z[1] = t
  <2>1. Latest(z)' <=> z[2] + RingSize >= n + 1
    <3>1. m_allocated'[z[1]] = n + 1
      BY <1>4
    <3> QED
      BY <3>1 DEF Latest
  <2>2. Latest(z) <=> z[2] + RingSize >= n
    BY <1>4 DEF Latest
  <2>3. Cell(z) = Cell(<<t, n>>) <=> z[2] % RingSize = n % RingSize
    BY <1>4 DEF Cell
  <2>4. z[2] < n
    BY <1>2, <1>4
  <2> HIDE DEF n
  <2>5. CASE z[2] + RingSize = n
    <3>1. n % RingSize = z[2] % RingSize
      BY <2>5, <1>2, NextTurn
    <3>2. ~(z[2] + RingSize >= n + 1)
      BY <2>5, <1>1, <1>2
    <3> QED
      BY <3>1, <3>2, <2>1, <2>3 DEF n
  <2>6. CASE z[2] + RingSize > n
    <3>1. z[2] % RingSize # n % RingSize
      BY <2>4, <2>6, <1>1, <1>2, SlotsApart
    <3> QED
      <4>1. z[2] + RingSize >= n /\ z[2] + RingSize >= n + 1
        BY <2>6, <1>1, <1>2
      <4> QED
        BY <3>1, <4>1, <2>1, <2>2, <2>3 DEF n
  <2>7. CASE z[2] + RingSize < n
    <3>1. ~(z[2] + RingSize >= n) /\ ~(z[2] + RingSize >= n + 1)
      BY <2>7, <1>1, <1>2
    <3> QED
      BY <3>1, <2>1, <2>2
  <2> QED
    BY <2>5, <2>6, <2>7, <1>1, <1>2
<1> QED
  BY <1>3, <1>4

-----------------------------------------------------------------------------
(***************************************************************************)
(* Stacks: a step replaces the last frame of one thread, drops it, or      *)
(* pushes a frame on it.                                                   *)
(***************************************************************************)

LEMMA TopFrame ==
    ASSUME stack \in [Threads -> Seq(FrameType)], NEW t \in Threads, stack[t] # <<>>
    PROVE  /\ Len(stack[t]) \in DOMAIN stack[t] /\ DOMAIN stack[t] = 1 .. Len(stack[t])
           /\ Len(stack[t]) \in Nat \ {0}
           /\ Top(t) = stack[t][Len(stack[t])]
           /\ Top(t) \in FrameType
<1>1. stack[t] \in Seq(FrameType) /\ Len(stack[t]) \in Nat /\ Len(stack[t]) # 0
  OBVIOUS
<1>2. DOMAIN stack[t] = 1 .. Len(stack[t]) /\ Len(stack[t]) \in DOMAIN stack[t]
  BY <1>1
<1> QED
  BY <1>1, <1>2 DEF Top, Last

LEMMA TopReplaced ==
    ASSUME stack \in [Threads -> Seq(FrameType)], NEW t \in Threads, stack[t] # <<>>,
           NEW f \in FrameType, stack' = SetTop(t, f)
    PROVE  /\ stack' \in [Threads -> Seq(FrameType)]
           /\ \A u \in Threads : Len(stack'[u]) = Len(stack[u])
           /\ \A u \in Threads : DOMAIN stack'[u] = DOMAIN stack[u]
           /\ \A u \in Threads : u # t => stack'[u] = stack[u]
           /\ \A k \in DOMAIN stack[t] : k # Len(stack[t]) => stack'[t][k] = stack[t][k]
           /\ stack'[t][Len(stack[t])] = f
<1> DEFINE s == stack[t]
           r == [s EXCEPT ![Len(s)] = f]
<1>1. s \in Seq(FrameType) /\ Len(s) \in 1 .. Len(s) /\ DOMAIN s = 1 .. Len(s)
  BY TopFrame
<1>2. stack' = [stack EXCEPT ![t] = r]
  BY DEF SetTop
<1>3. r \in Seq(FrameType) /\ DOMAIN r = DOMAIN s /\ Len(r) = Len(s)
  BY <1>1
<1>4. r[Len(s)] = f /\ \A k \in DOMAIN s : k # Len(s) => r[k] = s[k]
  BY <1>1
<1> HIDE DEF r
<1>5. stack'[t] = r /\ \A u \in Threads : u # t => stack'[u] = stack[u]
  BY <1>2
<1> QED
  BY <1>2, <1>3, <1>4, <1>5

LEMMA TopDropped ==
    ASSUME stack \in [Threads -> Seq(FrameType)], NEW t \in Threads,
           Len(stack[t]) > 1, stack' = Return(t)
    PROVE  /\ stack' \in [Threads -> Seq(FrameType)]
           /\ \A u \in Threads : u # t => stack'[u] = stack[u]
           /\ Len(stack'[t]) = Len(stack[t]) - 1
           /\ DOMAIN stack'[t] = 1 .. Len(stack[t]) - 1
           /\ \A k \in 1 .. Len(stack[t]) - 1 : stack'[t][k] = stack[t][k]
<1> DEFINE s == stack[t]
           r == Front(s)
<1>1. s \in Seq(FrameType) /\ Len(s) \in Nat /\ DOMAIN s = 1 .. Len(s)
      /\ \A k \in 1 .. Len(s) : s[k] \in FrameType
  OBVIOUS
<1>2. /\ r \in Seq(FrameType) /\ Len(r) = Len(s) - 1
      /\ \A k \in 1 .. Len(s) - 1 : r[k] = s[k]
  <2>1. /\ r \in Seq(FrameType)
        /\ Len(r) = IF 1 <= Len(s) - 1 THEN Len(s) - 1 - 1 + 1 ELSE 0
        /\ \A k \in 1 .. Len(s) - 1 - 1 + 1 : r[k] = s[1 + k - 1]
    BY <1>1, SubSeqProperties DEF Front
  <2> QED
    BY <1>1, <2>1
<1> HIDE DEF r
<1>3. stack' = [stack EXCEPT ![t] = r]
  BY DEF Return, r
<1>4. stack'[t] = r /\ \A u \in Threads : u # t => stack'[u] = stack[u]
  BY <1>3
<1>5. stack' \in [Threads -> Seq(FrameType)]
  BY <1>2, <1>3
<1>6. DOMAIN r = 1 .. Len(s) - 1
  BY <1>2
<1> QED
  BY <1>1, <1>2, <1>4, <1>5, <1>6

LEMMA FramePushed ==
    ASSUME stack \in [Threads -> Seq(FrameType)], NEW t \in Threads, stack[t] # <<>>,
           NEW f \in FrameType, NEW g \in FrameType, stack' = Call(t, f, g)
    PROVE  /\ stack' \in [Threads -> Seq(FrameType)]
           /\ \A u \in Threads : u # t => stack'[u] = stack[u]
           /\ Len(stack'[t]) = Len(stack[t]) + 1
           /\ DOMAIN stack'[t] = 1 .. Len(stack[t]) + 1
           /\ \A k \in 1 .. Len(stack[t]) : k # Len(stack[t]) => stack'[t][k] = stack[t][k]
           /\ stack'[t][Len(stack[t])] = f
           /\ stack'[t][Len(stack[t]) + 1] = g
<1> DEFINE s == stack[t]
           r == [s EXCEPT ![Len(s)] = f]
           q == Append(r, g)
<1>1. s \in Seq(FrameType) /\ Len(s) \in 1 .. Len(s) /\ DOMAIN s = 1 .. Len(s)
      /\ Len(s) \in Nat
  BY TopFrame
<1>2. SetTop(t, f) = [stack EXCEPT ![t] = r]
  BY DEF SetTop
<1>3. r \in Seq(FrameType) /\ DOMAIN r = DOMAIN s /\ Len(r) = Len(s)
  BY <1>1
<1>4. r[Len(s)] = f /\ \A k \in DOMAIN s : k # Len(s) => r[k] = s[k]
  BY <1>1
<1> HIDE DEF r
<1>5. /\ q \in Seq(FrameType) /\ Len(q) = Len(s) + 1 /\ q[Len(s) + 1] = g
      /\ \A k \in 1 .. Len(s) : q[k] = r[k]
  BY <1>1, <1>3
<1>6. stack' = [stack EXCEPT ![t] = q]
  BY <1>2 DEF Call
<1> HIDE DEF q
<1>7. stack'[t] = q /\ \A u \in Threads : u # t => stack'[u] = stack[u]
  BY <1>6
<1>8. DOMAIN q = 1 .. Len(s) + 1
  BY <1>5
<1> QED
  BY <1>1, <1>3, <1>4, <1>5, <1>6, <1>7, <1>8

\* A new frame.
LEMMA NewFrame ==
    ASSUME NEW x \in TaskIds \cup {None}, NEW p \in Places
    PROVE  /\ Frame(x, p) \in FrameType
           /\ Frame(x, p).task = x /\ Frame(x, p).pc = p /\ Frame(x, p).it = x
           /\ Frame(x, p).fresh = None /\ Frame(x, p).kept = {}
BY DEF Frame, FrameType

-----------------------------------------------------------------------------
(***************************************************************************)
(* What the threads are doing, in terms of frames.                         *)
(***************************************************************************)

LEMMA PendingMeans ==
    ASSUME NEW x
    PROVE  /\ Pending(x) <=>
              x \in queued \/ \E t \in Threads : \E k \in DOMAIN stack[t] : Holds(stack[t][k], x)
           /\ Pending(x)' <=>
              x \in queued' \/ \E t \in Threads : \E k \in DOMAIN stack'[t] : Holds(stack'[t][k], x)
BY DEF Pending, Frames, ToSet, Holds

LEMMA UnreportedMeans ==
    ASSUME NEW x
    PROVE  /\ UnreportedChildren(x) = {y \in Created : parent[Cell(y)] = x /\ Unreported(y)}
           /\ UnreportedChildren(x)' =
              {y \in Created' : parent'[Cell(y)] = x /\ Unreported(y)'}
BY DEF UnreportedChildren, Unreported, Climbed, At, Frames, ToSet, Latest, Cell

LEMMA OwedMeans ==
    ASSUME NEW x
    PROVE  /\ Owed(x) = Cardinality({t \in Threads : At(t, "release", x)})
           /\ Owed(x)' = Cardinality({t \in Threads : At(t, "release", x)'})
BY DEF Owed, At

\* Only the running frame of a thread is on its way up.
LEMMA AtMeans ==
    ASSUME stack \in [Threads -> Seq(FrameType)], FramesOK, NEW t \in Threads,
           NEW p \in {"release", "climb"}, NEW x
    PROVE  At(t, p, x) <=> Top(t).pc = p /\ Top(t).it = x
BY TopFrame DEF FramesOK, FrameOK, At

LEMMA AtMeansAfter ==
    ASSUME (stack \in [Threads -> Seq(FrameType)])', FramesOK', NEW t \in Threads,
           NEW p \in {"release", "climb"}, NEW x
    PROVE  At(t, p, x)' <=> stack'[t][Len(stack'[t])].pc = p
                            /\ stack'[t][Len(stack'[t])].it = x
<1>1. stack'[t] # <<>> /\ stack'[t] \in Seq(FrameType)
  BY DEF FramesOK
<1>2. Len(stack'[t]) \in DOMAIN stack'[t]
  BY <1>1
<1> QED
  BY <1>2 DEF FramesOK, FrameOK, At

-----------------------------------------------------------------------------
(***************************************************************************)
(* The accounts.                                                           *)
(***************************************************************************)

LEMMA FiniteParts ==
    /\ \A S \in SUBSET Threads : IsFiniteSet(S) /\ Cardinality(S) \in Nat
    /\ \A S \in SUBSET TaskIds : IsFiniteSet(S) /\ Cardinality(S) \in Nat
<1>1. IsFiniteSet(Threads)
  BY ThreadsAssumption, FS_Singleton, FS_Union DEF Threads
<1>2. IsFiniteSet(0 .. MaxTasks)
  BY MaxTasksAssumption, FS_Interval
<1>3. IsFiniteSet(TaskIds)
  BY <1>1, <1>2, FS_Product DEF TaskIds
<1> QED
  BY <1>1, <1>3, FS_Subset, FS_CardinalityType

\* Whoever is owed a job has one.
LEMMA JobOwed ==
    ASSUME Typed, StillThere, JobsAccounted, NEW x \in Created
    PROVE  /\ Pending(x) => jobs[Cell(x)] > 0 /\ Unreported(x)
           /\ \A t \in Threads :
                At(t, "release", x) => jobs[Cell(x)] > 0 /\ Unreported(x)
           /\ Latest(x) /\ UnreportedChildren(x) # {} => jobs[Cell(x)] > 0 /\ Unreported(x)
<1> DEFINE R == {t \in Threads : At(t, "release", x)}
           U == UnreportedChildren(x)
<1>1. IsFiniteSet(R) /\ Cardinality(R) \in Nat
  BY FiniteParts
<1>2. U \subseteq TaskIds
  BY DEF UnreportedChildren, Created
<1>3. IsFiniteSet(U) /\ Cardinality(U) \in Nat
  BY <1>2, FiniteParts
<1>4. R # {} => Cardinality(R) > 0
  BY <1>1, FS_EmptySet
<1>5. U # {} => Cardinality(U) > 0
  BY <1>3, FS_EmptySet
<1>6. Owed(x) = Cardinality(R)
  BY OwedMeans
<1>7. Latest(x) => jobs[Cell(x)] = (IF Pending(x) THEN 1 ELSE 0) + Cardinality(R) + Cardinality(U)
  BY <1>6 DEF JobsAccounted
<1> HIDE DEF R, U
<1>8. Latest(x) /\ (Pending(x) \/ R # {} \/ U # {}) => jobs[Cell(x)] > 0
  BY <1>1, <1>3, <1>4, <1>5, <1>7
<1>9. Pending(x) => Latest(x)
  BY DEF StillThere
<1>10. R # {} => Latest(x)
  BY DEF StillThere, R
<1>11. ASSUME NEW t \in Threads, At(t, "release", x) PROVE R # {}
  BY <1>11 DEF R
<1> QED
  BY <1>8, <1>9, <1>10, <1>11 DEF Unreported, U

\* A step that moves no task from one account to another.
LEMMA QuietStep ==
    ASSUME Typed, DoneOrPending, StillThere, OneClimber, JobsAccounted, ChildBetween,
           UNCHANGED <<m_allocated, parent, jobs, done, under>>,
           \A x \in Created : Pending(x)' <=> Pending(x),
           \A t \in Threads, x \in Created :
               /\ At(t, "release", x)' <=> At(t, "release", x)
               /\ At(t, "climb", x)' <=> At(t, "climb", x),
           \A t \in Threads : \A k \in DOMAIN stack'[t] :
               \A x \in stack'[t][k].kept : Latest(x)
    PROVE  DoneOrPending' /\ StillThere' /\ OneClimber' /\ JobsAccounted' /\ ChildBetween'
<1>1. Created' = Created
  BY DEF Created
<1>2. \A x \in Created : /\ Latest(x)' <=> Latest(x)
                         /\ Climbed(x)' <=> Climbed(x)
                         /\ Unreported(x)' <=> Unreported(x)
  BY DEF Latest, Climbed, Unreported
<1>3. \A x \in Created : Owed(x)' = Owed(x)
  <2> SUFFICES ASSUME NEW x \in Created PROVE Owed(x)' = Owed(x)
    OBVIOUS
  <2>1. {t \in Threads : At(t, "release", x)'} = {t \in Threads : At(t, "release", x)}
    OBVIOUS
  <2> QED
    BY <2>1, OwedMeans
<1>4. \A x \in Created : UnreportedChildren(x)' = UnreportedChildren(x)
  BY <1>1, <1>2, UnreportedMeans
<1>5. DoneOrPending'
  BY <1>1 DEF DoneOrPending
<1>6. StillThere'
  <2>1. \A x \in Created :
          Pending(x)' \/ (\E t \in Threads : At(t, "release", x)') \/ Climbed(x)' => Latest(x)'
    BY <1>2 DEF StillThere
  <2>2. \A t \in Threads : \A k \in DOMAIN stack'[t] :
          \A x \in stack'[t][k].kept : Latest(x)'
    BY DEF Latest
  <2>3. \A x, p \in Created : Unreported(x)' /\ parent'[Cell(x)] = p => Latest(p)'
    BY <1>2 DEF StillThere
  <2> QED
    BY <1>1, <2>1, <2>2, <2>3, Zenon DEF StillThere, Cell
<1>7. OneClimber'
  BY <1>1 DEF OneClimber
<1>8. JobsAccounted'
  BY <1>1, <1>2, <1>3, <1>4 DEF JobsAccounted
<1>9. ChildBetween'
  <2> SUFFICES ASSUME NEW d \in Created, NEW a \in Created, <<d, a>> \in under, d # a,
                      Unreported(d)
               PROVE  \E y \in UnreportedChildren(a)' : <<d, y>> \in under
    BY <1>1, <1>2 DEF ChildBetween
  <2> QED
    BY <1>4 DEF ChildBetween
<1> QED
  BY <1>5, <1>6, <1>7, <1>8, <1>9

-----------------------------------------------------------------------------
(***************************************************************************)
(* What the three kinds of stack steps do to the invariant's parts.        *)
(***************************************************************************)

LEMMA TopReplacedFrames ==
    ASSUME stack \in [Threads -> Seq(FrameType)], FramesOK, NEW t \in Threads,
           NEW f \in FrameType, stack' = SetTop(t, f), Created \subseteq Created',
           FrameOK(Created', f, Len(stack[t]) = 1, TRUE)
    PROVE  /\ (stack \in [Threads -> Seq(FrameType)])'
           /\ FramesOK'
           /\ \A x : \A u \in Threads, p \in {"release", "climb"} :
                At(u, p, x)' <=> IF u = t THEN f.pc = p /\ f.it = x ELSE At(u, p, x)
<1>1. stack[t] # <<>>
  BY DEF FramesOK
<1>2. /\ (stack \in [Threads -> Seq(FrameType)])'
      /\ \A u \in Threads : Len(stack'[u]) = Len(stack[u])
      /\ \A u \in Threads : DOMAIN stack'[u] = DOMAIN stack[u]
      /\ \A u \in Threads : u # t => stack'[u] = stack[u]
      /\ \A k \in DOMAIN stack[t] : k # Len(stack[t]) => stack'[t][k] = stack[t][k]
      /\ stack'[t][Len(stack[t])] = f
  BY <1>1, TopReplaced
<1>3. FramesOK'
  <2>1. ASSUME NEW u \in Threads PROVE stack'[u] # <<>>
    <3>1. stack[u] # <<>> /\ stack[u] \in Seq(FrameType) /\ stack'[u] \in Seq(FrameType)
      BY <1>2 DEF FramesOK
    <3> QED
      BY <3>1, <1>2
  <2>2. ASSUME NEW u \in Threads, NEW k \in DOMAIN stack'[u]
        PROVE  FrameOK(Created', stack'[u][k], k = 1, k = Len(stack'[u]))
    <3>1. k \in DOMAIN stack[u] /\ Len(stack'[u]) = Len(stack[u])
      BY <1>2
    <3>2. CASE u = t /\ k = Len(stack[t])
      BY <1>2, <3>1, <3>2 DEF FrameOK
    <3>3. CASE ~(u = t /\ k = Len(stack[t]))
      <4>1. FrameOK(Created, stack[u][k], k = 1, k = Len(stack[u]))
        BY <3>1 DEF FramesOK
      <4>2. stack'[u][k] = stack[u][k]
        BY <1>2, <3>1, <3>3
      <4> QED
        BY <4>1, <4>2, <3>1 DEF FrameOK
    <3> QED
      BY <3>2, <3>3
  <2> QED
    BY <2>1, <2>2 DEF FramesOK
<1>4. ASSUME NEW u \in Threads, NEW p \in {"release", "climb"}, NEW x
      PROVE  At(u, p, x)' <=> IF u = t THEN f.pc = p /\ f.it = x ELSE At(u, p, x)
  <2>1. CASE u = t
    BY <1>2, <1>3, <2>1, AtMeansAfter
  <2>2. CASE u # t
    BY <1>2, <2>2 DEF At
  <2> QED
    BY <2>1, <2>2
<1> QED
  BY <1>2, <1>3, <1>4

LEMMA TopReplacedHolds ==
    ASSUME stack \in [Threads -> Seq(FrameType)], FramesOK, NEW t \in Threads,
           NEW f \in FrameType, stack' = SetTop(t, f),
           NEW x, OneHolder(x),
           Holds(f, x) => Holds(Top(t), x) /\ x \notin queued',
           x \in queued' => x \in queued \/ Holds(Top(t), x)
    PROVE  /\ OneHolder(x)'
           /\ Pending(x)' => Pending(x)
           /\ Pending(x) /\ (x \in queued \/ Holds(Top(t), x) => x \in queued' \/ Holds(f, x))
                => Pending(x)'
           /\ Pending(x)' /\ Holds(Top(t), x) => x \in queued' \/ Holds(f, x)
<1> DEFINE n == Len(stack[t])
<1>1. stack[t] # <<>>
  BY DEF FramesOK
<1>2. /\ \A u \in Threads : DOMAIN stack'[u] = DOMAIN stack[u]
      /\ \A u \in Threads : \A k \in DOMAIN stack[u] :
            ~(u = t /\ k = n) => stack'[u][k] = stack[u][k]
      /\ stack'[t][n] = f /\ n \in DOMAIN stack[t] /\ Top(t) = stack[t][n]
  BY <1>1, TopReplaced, TopFrame
<1> HIDE DEF n
<1>3. ASSUME NEW u \in Threads, NEW k \in DOMAIN stack'[u], Holds(stack'[u][k], x)
      PROVE  /\ k \in DOMAIN stack[u] /\ Holds(stack[u][k], x)
             /\ x \notin queued'
  <2>1. CASE u = t /\ k = n
    BY <1>2, <1>3, <2>1
  <2>2. CASE ~(u = t /\ k = n)
    BY <1>2, <1>3, <2>2 DEF OneHolder
  <2> QED
    BY <2>1, <2>2
<1>4. OneHolder(x)'
  BY <1>3 DEF OneHolder
<1>5. Pending(x)' => Pending(x)
  BY <1>2, <1>3, PendingMeans
<1>6. Pending(x) /\ (x \in queued \/ Holds(Top(t), x) => x \in queued' \/ Holds(f, x)) => Pending(x)'
  <2> SUFFICES ASSUME Pending(x), x \in queued \/ Holds(Top(t), x) => x \in queued' \/ Holds(f, x),
                      x \notin queued'
               PROVE  \E u \in Threads : \E k \in DOMAIN stack'[u] : Holds(stack'[u][k], x)
    BY PendingMeans
  <2>1. CASE x \in queued \/ Holds(Top(t), x)
    BY <2>1, <1>2
  <2>2. CASE ~(x \in queued \/ Holds(Top(t), x))
    <3>1. PICK u \in Threads : \E k \in DOMAIN stack[u] : Holds(stack[u][k], x)
      BY <2>2, PendingMeans
    <3>2. PICK k \in DOMAIN stack[u] : Holds(stack[u][k], x)
      BY <3>1
    <3>3. ~(u = t /\ k = n)
      BY <3>2, <2>2, <1>2
    <3> QED
      BY <3>2, <3>3, <1>2
  <2> QED
    BY <2>1, <2>2
<1>7. Pending(x)' /\ Holds(Top(t), x) => x \in queued' \/ Holds(f, x)
  <2> SUFFICES ASSUME Holds(Top(t), x),
                      NEW u \in Threads, NEW k \in DOMAIN stack'[u], Holds(stack'[u][k], x)
               PROVE  Holds(f, x)
    BY PendingMeans
  <2>1. u = t /\ k = n
    BY <1>2, <1>3 DEF OneHolder
  <2> QED
    BY <2>1, <1>2
<1> QED
  BY <1>4, <1>5, <1>6, <1>7

LEMMA TopDroppedFrames ==
    ASSUME stack \in [Threads -> Seq(FrameType)], FramesOK, NEW t \in Threads,
           Top(t).pc \in {"release", "climb"}, stack' = Return(t), Created' = Created
    PROVE  /\ (stack \in [Threads -> Seq(FrameType)])'
           /\ FramesOK'
           /\ \A x : \A u \in Threads, p \in {"release", "climb"} :
                At(u, p, x)' <=> u # t /\ At(u, p, x)
           /\ \A u \in Threads : \A k \in DOMAIN stack'[u] :
                k \in DOMAIN stack[u] /\ stack'[u][k] = stack[u][k]
<1> DEFINE n == Len(stack[t])
<1>1. /\ stack[t] # <<>> /\ n \in DOMAIN stack[t] /\ DOMAIN stack[t] = 1 .. n
      /\ n \in Nat \ {0} /\ Top(t) = stack[t][n]
  BY TopFrame DEF FramesOK
<1>2. n # 1
  BY <1>1 DEF FramesOK, FrameOK
<1> HIDE DEF n
<1>0. n > 1
  BY <1>1, <1>2
<1> USE DEF n
<1>3. /\ stack' \in [Threads -> Seq(FrameType)]
      /\ \A u \in Threads : u # t => stack'[u] = stack[u]
      /\ Len(stack'[t]) = n - 1
      /\ DOMAIN stack'[t] = 1 .. n - 1
      /\ \A k \in 1 .. n - 1 : stack'[t][k] = stack[t][k]
  BY <1>0, TopDropped
<1> HIDE DEF n
<1>4. ASSUME NEW u \in Threads, NEW k \in DOMAIN stack'[u]
      PROVE  k \in DOMAIN stack[u] /\ stack'[u][k] = stack[u][k]
  BY <1>1, <1>3
<1>5. ASSUME NEW k \in DOMAIN stack'[t] PROVE stack[t][k].pc \notin {"release", "climb"}
  <2>1. k \in DOMAIN stack[t] /\ k # n
    BY <1>1, <1>3
  <2> QED
    BY <2>1 DEF FramesOK, FrameOK, n
<1>6. FramesOK'
  <2>1. ASSUME NEW u \in Threads PROVE stack'[u] # <<>>
    <3>1. CASE u = t
      <4>1. 1 \in DOMAIN stack'[t]
        BY <1>1, <1>2, <1>3
      <4> QED
        BY <3>1, <4>1
    <3> QED
      BY <3>1, <1>3 DEF FramesOK
  <2>2. ASSUME NEW u \in Threads, NEW k \in DOMAIN stack'[u]
        PROVE  FrameOK(Created', stack'[u][k], k = 1, k = Len(stack'[u]))
    <3>1. FrameOK(Created, stack[u][k], k = 1, k = Len(stack[u])) /\ stack'[u][k] = stack[u][k]
      BY <1>4 DEF FramesOK
    <3>2. CASE u # t
      BY <3>1, <3>2, <1>3
    <3>3. CASE u = t
      <4>1. k # n /\ stack[t][k].pc \notin {"release", "climb"}
        BY <1>5, <1>1, <1>3, <3>3
      <4>2. stack[t][k].fresh = None
        BY <3>1, <3>3, <4>1 DEF FrameOK, n
      <4> QED
        BY <3>1, <3>3, <4>1, <4>2 DEF FrameOK
    <3> QED
      BY <3>2, <3>3
  <2> QED
    BY <2>1, <2>2 DEF FramesOK
<1>7. ASSUME NEW u \in Threads, NEW p \in {"release", "climb"}, NEW x
      PROVE  At(u, p, x)' <=> u # t /\ At(u, p, x)
  <2>1. CASE u = t
    BY <1>4, <1>5, <2>1 DEF At
  <2>2. CASE u # t
    BY <1>3, <2>2 DEF At
  <2> QED
    BY <2>1, <2>2
<1> QED
  BY <1>3, <1>4, <1>6, <1>7

LEMMA TopDroppedHolds ==
    ASSUME stack \in [Threads -> Seq(FrameType)], FramesOK, NEW t \in Threads,
           Top(t).pc \in {"release", "climb"}, stack' = Return(t), Created' = Created,
           queued' = queued, NEW x \in Created, OneHolder(x)
    PROVE  /\ OneHolder(x)'
           /\ Pending(x)' <=> Pending(x)
<1> DEFINE n == Len(stack[t])
<1>1. /\ stack[t] # <<>> /\ n \in DOMAIN stack[t] /\ DOMAIN stack[t] = 1 .. n
      /\ n \in Nat \ {0} /\ Top(t) = stack[t][n]
  BY TopFrame DEF FramesOK
<1>2. n # 1
  BY <1>1 DEF FramesOK, FrameOK
<1> HIDE DEF n
<1>0. n > 1
  BY <1>1, <1>2
<1> USE DEF n
<1>3. /\ \A u \in Threads : u # t => stack'[u] = stack[u]
      /\ DOMAIN stack'[t] = 1 .. n - 1
      /\ \A k \in 1 .. n - 1 : stack'[t][k] = stack[t][k]
  BY <1>0, TopDropped
<1>4. ~Holds(stack[t][n], x)
  <2>1. stack[t][n].fresh = None
    BY <1>1 DEF FramesOK, FrameOK
  <2>2. x # None
    BY NoneAssumption, MaxTasksAssumption DEF Created, TaskIds
  <2> QED
    BY <2>1, <2>2, <1>1 DEF Holds
<1> HIDE DEF n
<1>5. \A u \in Threads : \A k \in DOMAIN stack'[u] :
        k \in DOMAIN stack[u] /\ stack'[u][k] = stack[u][k]
  BY <1>1, <1>3
<1>6. \A u \in Threads : \A k \in DOMAIN stack[u] :
        Holds(stack[u][k], x) => k \in DOMAIN stack'[u]
  BY <1>1, <1>3, <1>4
<1>7. OneHolder(x)'
  BY <1>5 DEF OneHolder
<1>8. Pending(x)' <=> Pending(x)
  BY <1>5, <1>6, PendingMeans
<1> QED
  BY <1>7, <1>8

LEMMA FramePushedFrames ==
    ASSUME stack \in [Threads -> Seq(FrameType)], FramesOK, NEW t \in Threads,
           NEW f \in FrameType, NEW g \in FrameType, stack' = Call(t, f, g),
           Created' = Created, Top(t).pc \notin {"release", "climb"},
           f.pc \notin {"release", "climb"}, g.pc \notin {"release", "climb"},
           FrameOK(Created, f, Len(stack[t]) = 1, FALSE), FrameOK(Created, g, FALSE, TRUE)
    PROVE  /\ (stack \in [Threads -> Seq(FrameType)])'
           /\ FramesOK'
           /\ \A x : \A u \in Threads, p \in {"release", "climb"} :
                At(u, p, x)' <=> At(u, p, x)
<1> DEFINE n == Len(stack[t])
<1>1. /\ stack[t] # <<>> /\ n \in DOMAIN stack[t] /\ DOMAIN stack[t] = 1 .. n
      /\ n \in Nat \ {0} /\ Top(t) = stack[t][n]
  BY TopFrame DEF FramesOK
<1>2. /\ stack' \in [Threads -> Seq(FrameType)]
      /\ \A u \in Threads : u # t => stack'[u] = stack[u]
      /\ Len(stack'[t]) = n + 1
      /\ DOMAIN stack'[t] = 1 .. n + 1
      /\ \A k \in 1 .. n : k # n => stack'[t][k] = stack[t][k]
      /\ stack'[t][n] = f
      /\ stack'[t][n + 1] = g
  BY <1>1, FramePushed
<1> HIDE DEF n
<1>3. ASSUME NEW k \in DOMAIN stack'[t]
      PROVE  FrameOK(Created', stack'[t][k], k = 1, k = Len(stack'[t]))
  <2>1. CASE k = n + 1
    BY <1>1, <1>2, <2>1 DEF FrameOK
  <2>2. CASE k = n
    <3>1. ~(k = Len(stack'[t])) /\ stack'[t][k] = f
      BY <1>1, <1>2, <2>2
    <3>2. k = 1 <=> Len(stack[t]) = 1
      BY <2>2 DEF n
    <3> QED
      BY <3>1, <3>2 DEF FrameOK
  <2>3. CASE k \in 1 .. n /\ k # n
    <3>1. FrameOK(Created, stack[t][k], k = 1, FALSE) /\ stack'[t][k] = stack[t][k]
      <4>1. k \in DOMAIN stack[t] /\ (k = Len(stack[t]) <=> FALSE)
        BY <1>1, <2>3 DEF n
      <4> QED
        BY <4>1, <1>2, <2>3 DEF FramesOK, FrameOK
    <3> QED
      BY <3>1, <1>1, <1>2, <2>3 DEF FrameOK
  <2> QED
    BY <1>1, <1>2, <2>1, <2>2, <2>3
<1>4. FramesOK'
  <2>1. stack'[t] # <<>>
    <3>1. 1 \in DOMAIN stack'[t]
      BY <1>1, <1>2
    <3> QED
      BY <3>1
  <2>2. ASSUME NEW u \in Threads, u # t
        PROVE  /\ stack'[u] # <<>>
               /\ \A k \in DOMAIN stack'[u] :
                    FrameOK(Created', stack'[u][k], k = 1, k = Len(stack'[u]))
    BY <1>2, <2>2 DEF FramesOK, FrameOK
  <2> QED
    BY <1>3, <2>1, <2>2 DEF FramesOK
<1>5. ASSUME NEW u \in Threads, NEW p \in {"release", "climb"}, NEW x
      PROVE  At(u, p, x)' <=> At(u, p, x)
  <2>1. CASE u = t
    <3>1. ~At(t, p, x)
      BY AtMeans
    <3>2. ~At(t, p, x)'
      BY <1>2, <1>4, AtMeansAfter
    <3> QED
      BY <2>1, <3>1, <3>2
  <2>2. CASE u # t
    BY <1>2, <2>2 DEF At
  <2> QED
    BY <2>1, <2>2
<1> QED
  BY <1>2, <1>4, <1>5

LEMMA FramePushedHolds ==
    ASSUME stack \in [Threads -> Seq(FrameType)], FramesOK, NEW t \in Threads,
           NEW f \in FrameType, NEW g \in FrameType, stack' = Call(t, f, g),
           NEW x, OneHolder(x), queued' \subseteq queued,
           x \in queued => x \in queued' \/ Holds(g, x),
           Holds(Top(t), x) => Holds(f, x) \/ Holds(g, x),
           Holds(f, x) => Holds(Top(t), x) /\ ~Holds(g, x),
           Holds(g, x) => (x \in queued \/ Holds(Top(t), x)) /\ x \notin queued'
    PROVE  /\ OneHolder(x)'
           /\ Pending(x)' <=> Pending(x)
<1> DEFINE n == Len(stack[t])
<1>1. /\ stack[t] # <<>> /\ n \in DOMAIN stack[t] /\ DOMAIN stack[t] = 1 .. n
      /\ n \in Nat \ {0} /\ Top(t) = stack[t][n]
  BY TopFrame DEF FramesOK
<1>2. /\ \A u \in Threads : u # t => stack'[u] = stack[u]
      /\ DOMAIN stack'[t] = 1 .. n + 1
      /\ \A k \in 1 .. n : k # n => stack'[t][k] = stack[t][k]
      /\ stack'[t][n] = f
      /\ stack'[t][n + 1] = g
  BY <1>1, FramePushed
<1> HIDE DEF n
<1>3. \A u \in Threads : \A k \in DOMAIN stack'[u] :
        ~(u = t /\ k \in {n, n + 1}) => k \in DOMAIN stack[u] /\ stack'[u][k] = stack[u][k]
  BY <1>1, <1>2
<1>4. \A u \in Threads : \A k \in DOMAIN stack[u] :
        ~(u = t /\ k = n) => k \in DOMAIN stack'[u] /\ stack'[u][k] = stack[u][k]
                             /\ ~(u = t /\ k \in {n, n + 1})
  BY <1>1, <1>2
<1>5. n \in DOMAIN stack'[t] /\ n + 1 \in DOMAIN stack'[t] /\ n # n + 1
  BY <1>1, <1>2
<1>6. ASSUME NEW u \in Threads, NEW k \in DOMAIN stack'[u], Holds(stack'[u][k], x)
      PROVE  x \notin queued'
  BY <1>1, <1>2, <1>3, <1>6 DEF OneHolder
<1>7. ASSUME NEW u \in Threads, NEW k \in DOMAIN stack'[u], Holds(stack'[u][k], x),
             NEW v \in Threads, NEW m \in DOMAIN stack'[v], Holds(stack'[v][m], x)
      PROVE  u = v /\ k = m
  <2>1. CASE Holds(g, x)
    <3>1. ~Holds(f, x)
      BY <2>1
    <3>2. ASSUME NEW w \in Threads, NEW j \in DOMAIN stack'[w], Holds(stack'[w][j], x)
          PROVE  w = t /\ j = n + 1
      BY <1>1, <1>2, <1>3, <2>1, <3>1, <3>2 DEF OneHolder
    <3> QED
      BY <3>2, <1>7
  <2>2. CASE ~Holds(g, x)
    <3>1. ASSUME NEW w \in Threads, NEW j \in DOMAIN stack'[w], Holds(stack'[w][j], x)
          PROVE  j \in DOMAIN stack[w] /\ Holds(stack[w][j], x)
      BY <1>1, <1>2, <1>3, <2>2, <3>1
    <3> QED
      BY <3>1, <1>7 DEF OneHolder
  <2> QED
    BY <2>1, <2>2
<1>8. OneHolder(x)'
  BY <1>6, <1>7 DEF OneHolder
<1>9. Pending(x)' => Pending(x)
  <2> SUFFICES ASSUME NEW u \in Threads, NEW k \in DOMAIN stack'[u], Holds(stack'[u][k], x)
               PROVE  x \in queued \/ \E v \in Threads : \E m \in DOMAIN stack[v] :
                                        Holds(stack[v][m], x)
    BY PendingMeans
  <2> QED
    BY <1>1, <1>2, <1>3
<1>10. Pending(x) => Pending(x)'
  <2> SUFFICES ASSUME Pending(x)
               PROVE  x \in queued' \/ \E v \in Threads : \E m \in DOMAIN stack'[v] :
                                        Holds(stack'[v][m], x)
    BY PendingMeans
  <2>1. CASE Holds(f, x) \/ Holds(g, x)
    BY <1>2, <1>5, <2>1
  <2>2. CASE ~(Holds(f, x) \/ Holds(g, x))
    <3>1. CASE x \in queued
      BY <2>2, <3>1
    <3>2. CASE x \notin queued
      <4>1. PICK u \in Threads : \E k \in DOMAIN stack[u] : Holds(stack[u][k], x)
        BY <3>2, PendingMeans
      <4>2. PICK k \in DOMAIN stack[u] : Holds(stack[u][k], x)
        BY <4>1
      <4>3. ~(u = t /\ k = n)
        BY <4>2, <2>2, <1>1
      <4> QED
        BY <4>2, <4>3, <1>4
    <3> QED
      BY <3>1, <3>2
  <2> QED
    BY <2>1, <2>2
<1> QED
  BY <1>8, <1>9, <1>10

-----------------------------------------------------------------------------
(***************************************************************************)
(* The steps that leave every account as it is.                            *)
(***************************************************************************)

LEMMA RunningFrame ==
    ASSUME IInv, NEW t \in Threads
    PROVE  /\ stack \in [Threads -> Seq(FrameType)] /\ stack[t] # <<>>
           /\ Top(t) \in FrameType
           /\ FrameOK(Created, Top(t), Len(stack[t]) = 1, TRUE)
           /\ \A x \in Top(t).kept : Latest(x)
           /\ \A x \in Created : Holds(Top(t), x) => Pending(x) /\ Latest(x)
<1>1. /\ stack \in [Threads -> Seq(FrameType)] /\ stack[t] # <<>>
      /\ Len(stack[t]) \in DOMAIN stack[t] /\ Top(t) = stack[t][Len(stack[t])]
      /\ Top(t) \in FrameType
  BY TopFrame DEF IInv, Typed, FramesOK
<1>2. FrameOK(Created, Top(t), Len(stack[t]) = 1, Len(stack[t]) = Len(stack[t]))
  BY <1>1 DEF IInv, FramesOK
<1>3. FrameOK(Created, Top(t), Len(stack[t]) = 1, TRUE)
  BY <1>2 DEF FrameOK
<1>4. \A x \in Top(t).kept : Latest(x)
  BY <1>1 DEF IInv, StillThere
<1>5. \A x \in Created : Holds(Top(t), x) => Pending(x) /\ Latest(x)
  BY <1>1, PendingMeans DEF IInv, StillThere
<1> QED
  BY <1>1, <1>3, <1>4, <1>5

LEMMA NotATask == None \notin Created /\ Created \subseteq TaskIds
BY NoneAssumption, MaxTasksAssumption DEF Created, TaskIds

LEMMA HandedFrame ==
    ASSUME NEW g \in FrameType, NEW x \in TaskIds, NEW f \in Handed(g, x)
    PROVE  /\ f \in FrameType
           /\ f.task = g.task /\ f.pc = g.pc /\ f.it = g.it /\ f.fresh = None
           /\ g.kept \subseteq f.kept /\ f.kept \subseteq g.kept \cup {x}
<1>1. CASE f = [g EXCEPT !.fresh = None]
  BY <1>1 DEF FrameType
<1>2. CASE f = [g EXCEPT !.fresh = None, !.kept = @ \cup {x}]
  BY <1>2 DEF FrameType
<1> QED
  BY <1>1, <1>2 DEF Handed

\* The last frame is replaced by another that is not on its way up either.
LEMMA QuietReplacement ==
    ASSUME IInv, NEW t \in Threads, NEW f \in FrameType, stack' = SetTop(t, f),
           UNCHANGED <<m_allocated, parent, jobs, done, under>>,
           queued' \subseteq Created,
           FrameOK(Created, f, Len(stack[t]) = 1, TRUE),
           f.pc \notin {"release", "climb"}, Top(t).pc \notin {"release", "climb"},
           \A x \in f.kept : Latest(x),
           \A x \in Created :
              /\ Holds(f, x) => Holds(Top(t), x) /\ x \notin queued'
              /\ x \in queued' <=> x \in queued \/ (Holds(Top(t), x) /\ ~Holds(f, x))
    PROVE  IInv'
<1> USE DEF IInv
<1>1. Created' = Created
  BY DEF Created
<1>2. stack \in [Threads -> Seq(FrameType)] /\ stack[t] # <<>>
  BY RunningFrame
<1>3. /\ (stack \in [Threads -> Seq(FrameType)])'
      /\ FramesOK'
      /\ \A x : \A u \in Threads, p \in {"release", "climb"} :
            At(u, p, x)' <=> IF u = t THEN f.pc = p /\ f.it = x ELSE At(u, p, x)
  BY <1>1, <1>2, TopReplacedFrames
<1>4. Typed'
  BY <1>1, <1>3 DEF Typed
<1>5. ASSUME NEW x \in Created PROVE OneHolder(x)' /\ (Pending(x)' <=> Pending(x))
  BY <1>2, TopReplacedHolds DEF HeldOnce
<1>6. HeldOnce'
  BY <1>1, <1>5 DEF HeldOnce
<1>7. \A u \in Threads, x \in Created :
         /\ At(u, "release", x)' <=> At(u, "release", x)
         /\ At(u, "climb", x)' <=> At(u, "climb", x)
  BY <1>2, <1>3, AtMeans
<1>8. ASSUME NEW u \in Threads, NEW k \in DOMAIN stack'[u], NEW x \in stack'[u][k].kept
      PROVE  Latest(x)
  <2>1. CASE u = t /\ k = Len(stack[t])
    BY <1>2, <2>1, TopReplaced
  <2>2. CASE ~(u = t /\ k = Len(stack[t]))
    <3>1. k \in DOMAIN stack[u] /\ stack'[u][k] = stack[u][k]
      BY <1>2, <2>2, TopReplaced
    <3> QED
      BY <3>1 DEF StillThere
  <2> QED
    BY <2>1, <2>2
<1>9. DoneOrPending' /\ StillThere' /\ OneClimber' /\ JobsAccounted' /\ ChildBetween'
  BY <1>5, <1>7, <1>8, QuietStep
<1> QED
  BY <1>3, <1>4, <1>6, <1>9

LEMMA PushTaskKeeps ==
    ASSUME IInv, NEW t \in Threads, PushTask(t)
    PROVE  IInv'
<1> DEFINE x == Top(t).fresh
<1>1. /\ Top(t) \in FrameType /\ FrameOK(Created, Top(t), Len(stack[t]) = 1, TRUE)
      /\ \A z \in Top(t).kept : Latest(z)
      /\ \A z \in Created : Holds(Top(t), z) => Pending(z) /\ Latest(z)
  BY RunningFrame
<1>2. Top(t).pc = "body" /\ x # None /\ queued' = queued \cup {x}
  BY DEF PushTask
<1>3. x \in Created /\ x \in TaskIds /\ Holds(Top(t), x) /\ x # Top(t).task
  BY <1>1, <1>2, NotATask DEF FrameOK, Holds
<1>4. PICK f \in Handed(Top(t), x) : stack' = SetTop(t, f)
  BY DEF PushTask
<1>5. /\ f \in FrameType /\ f.task = Top(t).task /\ f.pc = "body" /\ f.it = Top(t).it
      /\ f.fresh = None /\ f.kept \subseteq Top(t).kept \cup {x}
  BY <1>1, <1>2, <1>3, HandedFrame
<1>6. FrameOK(Created, f, Len(stack[t]) = 1, TRUE)
  BY <1>1, <1>3, <1>5 DEF FrameOK
<1>7. \A z \in f.kept : Latest(z)
  BY <1>1, <1>3, <1>5
<1>8. stack[t] # <<>> /\ Len(stack[t]) \in DOMAIN stack[t] /\ Top(t) = stack[t][Len(stack[t])]
  BY RunningFrame, TopFrame
<1>9. ASSUME NEW z \in Created
      PROVE  /\ Holds(f, z) => Holds(Top(t), z) /\ z \notin queued'
             /\ z \in queued' <=> z \in queued \/ (Holds(Top(t), z) /\ ~Holds(f, z))
  <2>1. Holds(f, z) <=> z = Top(t).task
    BY <1>5, NotATask DEF Holds
  <2>2. Holds(Top(t), z) <=> z = x \/ z = Top(t).task
    BY <1>2 DEF Holds
  <2>3. Holds(Top(t), z) => z \notin queued
    BY <1>8 DEF IInv, HeldOnce, OneHolder
  <2> QED
    BY <1>2, <1>3, <2>1, <2>2, <2>3
<1>10. queued' \subseteq Created
  BY <1>2, <1>3 DEF IInv, Typed
<1> HIDE DEF x
<1>11. UNCHANGED <<m_allocated, parent, jobs, done, under>>
  BY DEF PushTask
<1> QED
  BY <1>2, <1>4, <1>5, <1>6, <1>7, <1>9, <1>10, <1>11, QuietReplacement

LEMMA WaitKeeps ==
    ASSUME IInv, NEW t \in Threads, Wait(t)
    PROVE  IInv'
<1>1. /\ Top(t) \in FrameType /\ FrameOK(Created, Top(t), Len(stack[t]) = 1, TRUE)
      /\ \A z \in Top(t).kept : Latest(z)
  BY RunningFrame
<1>2. Top(t).pc = "body" /\ Top(t).fresh = None
  BY DEF Wait
<1>3. PICK x \in Top(t).kept : stack' = SetTop(t, [Top(t) EXCEPT !.pc = "wait", !.it = x])
  BY DEF Wait
<1> DEFINE f == [Top(t) EXCEPT !.pc = "wait", !.it = x]
<1>4. x \in Created /\ x \in TaskIds
  BY <1>1, NotATask DEF FrameOK
<1>5. /\ f \in FrameType /\ f.task = Top(t).task /\ f.pc = "wait" /\ f.it = x
      /\ f.fresh = None /\ f.kept = Top(t).kept
  BY <1>1, <1>2, <1>4 DEF FrameType, Places
<1> HIDE DEF f
<1>6. FrameOK(Created, f, Len(stack[t]) = 1, TRUE)
  BY <1>1, <1>2, <1>4, <1>5 DEF FrameOK
<1>7. stack[t] # <<>> /\ Len(stack[t]) \in DOMAIN stack[t] /\ Top(t) = stack[t][Len(stack[t])]
  BY RunningFrame, TopFrame
<1>8. UNCHANGED <<m_allocated, parent, jobs, queued, done, under>>
  BY DEF Wait
<1>9. ASSUME NEW z \in Created
      PROVE  /\ Holds(f, z) => Holds(Top(t), z) /\ z \notin queued'
             /\ z \in queued' <=> z \in queued \/ (Holds(Top(t), z) /\ ~Holds(f, z))
  <2>1. Holds(f, z) <=> Holds(Top(t), z)
    BY <1>2, <1>5 DEF Holds
  <2>2. Holds(Top(t), z) => z \notin queued
    BY <1>7 DEF IInv, HeldOnce, OneHolder
  <2> QED
    BY <1>8, <2>1, <2>2
<1>10. queued' \subseteq Created
  BY <1>8 DEF IInv, Typed
<1>11. stack' = SetTop(t, f)
  BY <1>3 DEF f
<1> QED
  BY <1>1, <1>2, <1>5, <1>6, <1>8, <1>9, <1>10, <1>11, QuietReplacement

LEMMA WaitReturnKeeps ==
    ASSUME IInv, NEW t \in Threads, WaitReturn(t)
    PROVE  IInv'
<1>1. /\ Top(t) \in FrameType /\ FrameOK(Created, Top(t), Len(stack[t]) = 1, TRUE)
      /\ \A z \in Top(t).kept : Latest(z)
  BY RunningFrame
<1>2. Top(t).pc = "wait" /\ Top(t).fresh = None
  BY <1>1 DEF WaitReturn, FrameOK
<1> DEFINE f == [Top(t) EXCEPT !.pc = "body", !.it = Top(t).task,
                                      !.kept = @ \ {Top(t).it}]
<1>3. stack' = SetTop(t, f)
  BY DEF WaitReturn
<1>5. /\ f \in FrameType /\ f.task = Top(t).task /\ f.pc = "body" /\ f.it = Top(t).task
      /\ f.fresh = None /\ f.kept \subseteq Top(t).kept
  BY <1>1, <1>2 DEF FrameType, Places
<1> HIDE DEF f
<1>6. FrameOK(Created, f, Len(stack[t]) = 1, TRUE)
  BY <1>1, <1>2, <1>5 DEF FrameOK
<1>7. stack[t] # <<>> /\ Len(stack[t]) \in DOMAIN stack[t] /\ Top(t) = stack[t][Len(stack[t])]
  BY RunningFrame, TopFrame
<1>8. UNCHANGED <<m_allocated, parent, jobs, queued, done, under>>
  BY DEF WaitReturn
<1>9. ASSUME NEW z \in Created
      PROVE  /\ Holds(f, z) => Holds(Top(t), z) /\ z \notin queued'
             /\ z \in queued' <=> z \in queued \/ (Holds(Top(t), z) /\ ~Holds(f, z))
  <2>1. Holds(f, z) <=> Holds(Top(t), z)
    BY <1>2, <1>5 DEF Holds
  <2>2. Holds(Top(t), z) => z \notin queued
    BY <1>7 DEF IInv, HeldOnce, OneHolder
  <2> QED
    BY <1>8, <2>1, <2>2
<1>10. queued' \subseteq Created
  BY <1>8 DEF IInv, Typed
<1> QED
  BY <1>1, <1>2, <1>3, <1>5, <1>6, <1>8, <1>9, <1>10, QuietReplacement

\* The last frame calls a task: one it holds fresh, or one from the queue.
LEMMA QuietCall ==
    ASSUME IInv, NEW t \in Threads, NEW f \in FrameType, NEW x \in Created,
           stack' = Call(t, f, Frame(x, "body")),
           UNCHANGED <<m_allocated, parent, jobs, done, under>>,
           queued' = queued \ {x},
           FrameOK(Created, f, Len(stack[t]) = 1, FALSE), f.fresh = None,
           f.pc \notin {"release", "climb"}, Top(t).pc \notin {"release", "climb"},
           \A z \in f.kept : Latest(z),
           x \in queued \/ Holds(Top(t), x), ~Holds(f, x),
           \A z \in Created : z # x => (Holds(f, z) <=> Holds(Top(t), z))
    PROVE  IInv'
<1> USE DEF IInv
<1>1. Created' = Created
  BY DEF Created
<1>2. /\ stack \in [Threads -> Seq(FrameType)] /\ stack[t] # <<>>
      /\ Len(stack[t]) \in DOMAIN stack[t] /\ DOMAIN stack[t] = 1 .. Len(stack[t])
      /\ Top(t) = stack[t][Len(stack[t])]
      /\ Len(stack[t]) \in Nat \ {0}
  BY RunningFrame, TopFrame
<1>3. PICK g \in FrameType :
         /\ g = Frame(x, "body") /\ g.task = x /\ g.pc = "body" /\ g.it = x /\ g.fresh = None
         /\ g.kept = {}
  BY NewFrame, NotATask DEF Places
<1>4. FrameOK(Created, g, FALSE, TRUE)
  BY <1>3 DEF FrameOK
<1>5. stack' = Call(t, f, g)
  BY <1>3
<1>6. /\ (stack \in [Threads -> Seq(FrameType)])'
      /\ FramesOK'
      /\ \A z : \A u \in Threads, p \in {"release", "climb"} : At(u, p, z)' <=> At(u, p, z)
  BY <1>1, <1>2, <1>3, <1>4, <1>5, FramePushedFrames
<1>7. Typed'
  BY <1>1, <1>6 DEF Typed
<1>8. ASSUME NEW z \in Created PROVE OneHolder(z)' /\ (Pending(z)' <=> Pending(z))
  <2>1. Holds(g, z) <=> z = x
    BY <1>3, NotATask DEF Holds
  <2>2. Holds(Top(t), z) => z \notin queued
    BY <1>2 DEF HeldOnce, OneHolder
  <2>3. OneHolder(z)
    BY DEF HeldOnce
  <2> QED
    BY <1>2, <1>3, <1>5, <2>1, <2>2, <2>3, FramePushedHolds
<1>9. HeldOnce'
  BY <1>1, <1>8 DEF HeldOnce
<1>10. /\ \A u \in Threads : u # t => stack'[u] = stack[u]
       /\ DOMAIN stack'[t] = 1 .. Len(stack[t]) + 1
       /\ \A k \in 1 .. Len(stack[t]) : k # Len(stack[t]) => stack'[t][k] = stack[t][k]
       /\ stack'[t][Len(stack[t])] = f
       /\ stack'[t][Len(stack[t]) + 1] = g
  <2>1. stack \in [Threads -> Seq(FrameType)] /\ stack[t] # <<>> /\ g \in FrameType
    BY <1>2, <1>3
  <2> HIDE DEF IInv
  <2> QED
    BY <2>1, <1>5, FramePushed
<1>11. ASSUME NEW u \in Threads, NEW k \in DOMAIN stack'[u], NEW z \in stack'[u][k].kept
       PROVE  Latest(z)
  <2>1. CASE u = t
    <3> DEFINE n == Len(stack[t])
    <3>1. /\ DOMAIN stack'[t] = 1 .. n + 1
          /\ \A m \in 1 .. n : m # n => stack'[t][m] = stack[t][m]
          /\ stack'[t][n] = f
          /\ stack'[t][n + 1] = g
      BY <1>10
    <3>2. n \in Nat \ {0} /\ DOMAIN stack[t] = 1 .. n
      BY <1>2
    <3> HIDE DEF n
    <3>3. CASE k = n
      BY <2>1, <3>1, <3>3
    <3>4. CASE k = n + 1
      BY <2>1, <3>1, <3>4, <1>3
    <3>5. CASE k \in 1 .. n /\ k # n
      BY <2>1, <3>1, <3>2, <3>5 DEF StillThere
    <3> QED
      BY <2>1, <3>1, <3>2, <3>3, <3>4, <3>5
  <2>2. CASE u # t
    BY <1>10, <2>2 DEF StillThere
  <2> QED
    BY <2>1, <2>2
<1>12. DoneOrPending' /\ StillThere' /\ OneClimber' /\ JobsAccounted' /\ ChildBetween'
  BY <1>6, <1>8, <1>11, QuietStep
<1> QED
  BY <1>6, <1>7, <1>9, <1>12

LEMMA RunTaskKeeps ==
    ASSUME IInv, NEW t \in Threads, RunTask(t)
    PROVE  IInv'
<1> DEFINE x == Top(t).fresh
<1>1. /\ Top(t) \in FrameType /\ FrameOK(Created, Top(t), Len(stack[t]) = 1, TRUE)
      /\ \A z \in Top(t).kept : Latest(z)
      /\ \A z \in Created : Holds(Top(t), z) => Pending(z) /\ Latest(z)
  BY RunningFrame
<1>2. Top(t).pc = "body" /\ x # None
  BY DEF RunTask
<1>3. x \in Created /\ x \in TaskIds /\ Holds(Top(t), x) /\ x # Top(t).task
  BY <1>1, <1>2, NotATask DEF FrameOK, Holds
<1>4. PICK f \in Handed(Top(t), x) : stack' = Call(t, f, Frame(x, "body"))
  BY DEF RunTask
<1>5. /\ f \in FrameType /\ f.task = Top(t).task /\ f.pc = "body" /\ f.it = Top(t).it
      /\ f.fresh = None /\ f.kept \subseteq Top(t).kept \cup {x}
  BY <1>1, <1>2, <1>3, HandedFrame
<1>6. FrameOK(Created, f, Len(stack[t]) = 1, FALSE)
  BY <1>1, <1>3, <1>5 DEF FrameOK
<1>7. \A z \in f.kept : Latest(z)
  BY <1>1, <1>3, <1>5
<1>8. stack[t] # <<>> /\ Len(stack[t]) \in DOMAIN stack[t] /\ Top(t) = stack[t][Len(stack[t])]
  BY RunningFrame, TopFrame
<1>9. x \notin queued
  BY <1>3, <1>8 DEF IInv, HeldOnce, OneHolder
<1>10. /\ \A z \in Created : Holds(f, z) <=> z = Top(t).task
       /\ \A z \in Created : Holds(Top(t), z) <=> z = x \/ z = Top(t).task
  BY <1>2, <1>5, NotATask DEF Holds
<1>11. queued' = queued \ {x}
  BY <1>9 DEF RunTask
<1>12. UNCHANGED <<m_allocated, parent, jobs, done, under>>
  BY DEF RunTask
<1> HIDE DEF x
<1> QED
  BY <1>2, <1>3, <1>4, <1>5, <1>6, <1>7, <1>10, <1>11, <1>12, QuietCall

LEMMA ExecuteOneTaskKeeps ==
    ASSUME IInv, NEW t \in Threads, ExecuteOneTask(t)
    PROVE  IInv'
<1>1. /\ Top(t) \in FrameType /\ FrameOK(Created, Top(t), Len(stack[t]) = 1, TRUE)
      /\ \A z \in Top(t).kept : Latest(z)
  BY RunningFrame
<1>2. Top(t).pc \in {"loop", "wait"}
  BY DEF ExecuteOneTask
<1>3. PICK x \in queued : queued' = queued \ {x} /\ stack' = Call(t, Top(t), Frame(x, "body"))
  BY DEF ExecuteOneTask
<1>4. x \in Created
  BY DEF IInv, Typed
<1>5. Top(t).fresh = None /\ FrameOK(Created, Top(t), Len(stack[t]) = 1, FALSE)
  BY <1>1, <1>2 DEF FrameOK
<1>6. stack[t] # <<>> /\ Len(stack[t]) \in DOMAIN stack[t] /\ Top(t) = stack[t][Len(stack[t])]
  BY RunningFrame, TopFrame
<1>7. ~Holds(Top(t), x)
  BY <1>4, <1>6 DEF IInv, HeldOnce, OneHolder
<1>8. UNCHANGED <<m_allocated, parent, jobs, done, under>>
  BY DEF ExecuteOneTask
<1> QED
  BY <1>1, <1>2, <1>3, <1>4, <1>5, <1>7, <1>8, QuietCall

-----------------------------------------------------------------------------
(***************************************************************************)
(* The steps of Task::operator(), which move a job from the body to the    *)
(* release, take it off, and hand it to the parent.                        *)
(***************************************************************************)

LEMMA OwedSame ==
    ASSUME NEW x, \A u \in Threads : At(u, "release", x)' <=> At(u, "release", x)
    PROVE  Owed(x)' = Owed(x)
<1>1. {u \in Threads : At(u, "release", x)'} = {u \in Threads : At(u, "release", x)}
  OBVIOUS
<1> QED
  BY <1>1, OwedMeans

LEMMA OwedMore ==
    ASSUME NEW x, NEW t \in Threads, ~At(t, "release", x),
           \A u \in Threads : At(u, "release", x)' <=> At(u, "release", x) \/ u = t
    PROVE  Owed(x)' = Owed(x) + 1 /\ Owed(x) \in Nat
<1> DEFINE R == {u \in Threads : At(u, "release", x)}
           S == {u \in Threads : At(u, "release", x)'}
<1>1. S = R \cup {t} /\ t \notin R
  OBVIOUS
<1>2. IsFiniteSet(R) /\ Cardinality(R) \in Nat
  BY FiniteParts
<1>3. Owed(x)' = Cardinality(S) /\ Owed(x) = Cardinality(R)
  BY OwedMeans
<1> HIDE DEF R, S
<1> QED
  BY <1>1, <1>2, <1>3, FS_AddElement

LEMMA OwedLess ==
    ASSUME NEW x, NEW t \in Threads, At(t, "release", x),
           \A u \in Threads : At(u, "release", x)' <=> At(u, "release", x) /\ u # t
    PROVE  Owed(x)' = Owed(x) - 1 /\ Owed(x) \in Nat
<1> DEFINE R == {u \in Threads : At(u, "release", x)}
           S == {u \in Threads : At(u, "release", x)'}
<1>1. S = R \ {t} /\ t \in R
  OBVIOUS
<1>2. IsFiniteSet(R) /\ Cardinality(R) \in Nat
  BY FiniteParts
<1>3. Owed(x)' = Cardinality(S) /\ Owed(x) = Cardinality(R)
  BY OwedMeans
<1> HIDE DEF R, S
<1> QED
  BY <1>1, <1>2, <1>3, FS_RemoveElement

\* Nothing new is referred to, and nothing is handed out again.
LEMMA NothingNew ==
    ASSUME Typed, StillThere, UNCHANGED <<m_allocated, parent>>,
           \A x \in Created : Unreported(x)' => Unreported(x),
           \A x \in Created :
              Pending(x)' \/ (\E t \in Threads : At(t, "release", x)') \/ Climbed(x)'
                => Latest(x),
           \A t \in Threads : \A k \in DOMAIN stack'[t] :
              \A x \in stack'[t][k].kept : Latest(x)
    PROVE  StillThere'
<1>1. Created' = Created
  BY DEF Created
<1>2. \A x \in Created : Latest(x)' <=> Latest(x)
  BY DEF Latest
<1>3. \A x \in Created :
          Pending(x)' \/ (\E t \in Threads : At(t, "release", x)') \/ Climbed(x)' => Latest(x)'
  BY <1>2
<1>4. \A t \in Threads : \A k \in DOMAIN stack'[t] :
          \A x \in stack'[t][k].kept : Latest(x)'
  BY DEF Latest
<1>5. \A x, p \in Created : Unreported(x)' /\ parent'[Cell(x)] = p => Latest(p)'
  BY <1>2 DEF StillThere
<1> QED
  BY <1>1, <1>3, <1>4, <1>5, Zenon DEF StillThere, Cell

LEMMA SameChildren ==
    ASSUME Typed, ChildBetween, UNCHANGED <<m_allocated, parent, under>>,
           \A x \in Created : Unreported(x)' <=> Unreported(x)
    PROVE  /\ ChildBetween'
           /\ \A x : UnreportedChildren(x)' = UnreportedChildren(x)
<1>1. Created' = Created
  BY DEF Created
<1>2. \A x : UnreportedChildren(x)' = UnreportedChildren(x)
  BY <1>1, UnreportedMeans
<1>3. ChildBetween'
  <2> SUFFICES ASSUME NEW d \in Created, NEW a \in Created, <<d, a>> \in under, d # a,
                      Unreported(d)
               PROVE  \E y \in UnreportedChildren(a)' : <<d, y>> \in under
    BY <1>1 DEF ChildBetween
  <2> QED
    BY <1>2 DEF ChildBetween
<1> QED
  BY <1>2, <1>3

LEMMA FinishBodyKeeps ==
    ASSUME IInv, NEW t \in Threads, FinishBody(t)
    PROVE  IInv'
<1>1. /\ stack \in [Threads -> Seq(FrameType)] /\ stack[t] # <<>>
      /\ Top(t) \in FrameType /\ FrameOK(Created, Top(t), Len(stack[t]) = 1, TRUE)
      /\ \A z \in Created : Holds(Top(t), z) => Pending(z) /\ Latest(z)
  BY RunningFrame
<1>0. PICK x \in Created : x = Top(t).task
  BY <1>1 DEF FinishBody, FrameOK
<1>2. /\ Top(t).pc = "body" /\ x # None /\ Top(t).fresh = None
      /\ stack' = SetTop(t, Frame(x, "release")) /\ done' = done \cup {x}
      /\ UNCHANGED <<m_allocated, parent, jobs, queued, under>>
  BY <1>0 DEF FinishBody
<1>3. x \in Created /\ x \in TaskIds /\ Holds(Top(t), x)
  BY <1>0, <1>2, NotATask DEF Holds
<1>4. PICK f \in FrameType :
         /\ f = Frame(x, "release") /\ f.task = x /\ f.pc = "release" /\ f.it = x
         /\ f.fresh = None /\ f.kept = {}
  BY <1>3, NewFrame DEF Places
<1>5. Len(stack[t]) # 1
  BY <1>0, <1>1, <1>2 DEF FrameOK
<1>6. Created' = Created
  BY <1>2 DEF Created
<1>7. FrameOK(Created, f, Len(stack[t]) = 1, TRUE)
  BY <1>2, <1>3, <1>4, <1>5 DEF FrameOK
<1>8. /\ (stack \in [Threads -> Seq(FrameType)])'
      /\ FramesOK'
      /\ \A z : \A u \in Threads, p \in {"release", "climb"} :
            At(u, p, z)' <=> IF u = t THEN f.pc = p /\ f.it = z ELSE At(u, p, z)
  <2>1. /\ Created \subseteq Created' /\ FrameOK(Created', f, Len(stack[t]) = 1, TRUE)
        /\ FramesOK /\ stack \in [Threads -> Seq(FrameType)]
    BY <1>1, <1>6, <1>7 DEF IInv
  <2>2. f \in FrameType /\ stack' = SetTop(t, f)
    BY <1>2, <1>4
  <2> QED
    BY <2>1, <2>2, TopReplacedFrames
<1>9. Typed'
  BY <1>2, <1>3, <1>6, <1>8 DEF IInv, Typed
<1>10. Len(stack[t]) \in DOMAIN stack[t] /\ Top(t) = stack[t][Len(stack[t])]
  BY <1>1, TopFrame
<1>11. ASSUME NEW z \in Created
       PROVE  /\ OneHolder(z)'
              /\ z # x => (Pending(z)' <=> Pending(z))
              /\ z = x => Pending(z) /\ ~Pending(z)'
  <2>1. ~Holds(f, z) /\ (Holds(Top(t), z) <=> z = x)
    BY <1>0, <1>2, <1>4, NotATask DEF Holds
  <2>2. OneHolder(z) /\ OneHolder(x)
    BY <1>3 DEF IInv, HeldOnce
  <2>3. x \notin queued'
    BY <1>2, <1>3, <1>10, <2>2 DEF OneHolder
  <2>4. FramesOK
    BY DEF IInv
  <2>5. /\ OneHolder(z)'
        /\ Pending(z)' => Pending(z)
        /\ Pending(z) /\ (z \in queued \/ Holds(Top(t), z) => z \in queued' \/ Holds(f, z))
              => Pending(z)'
        /\ Pending(z)' /\ Holds(Top(t), z) => z \in queued' \/ Holds(f, z)
    BY <1>1, <1>2, <1>4, <2>1, <2>2, <2>4, TopReplacedHolds
  <2> QED
    BY <1>1, <1>2, <1>3, <2>1, <2>3, <2>5
<1>12. HeldOnce' /\ DoneOrPending'
  BY <1>2, <1>6, <1>11 DEF IInv, HeldOnce, DoneOrPending
<1>13. ASSUME NEW z
       PROVE  /\ \A u \in Threads : At(u, "climb", z)' <=> At(u, "climb", z)
              /\ z # x => \A u \in Threads : At(u, "release", z)' <=> At(u, "release", z)
              /\ ~At(t, "release", x)
              /\ \A u \in Threads : At(u, "release", x)' <=> At(u, "release", x) \/ u = t
  BY <1>1, <1>2, <1>4, <1>8, AtMeans DEF IInv
<1>14. \A z \in Created : Unreported(z)' <=> Unreported(z)
  BY <1>2, <1>13 DEF Unreported, Climbed, Latest
<1>15. ASSUME NEW u \in Threads, NEW k \in DOMAIN stack'[u], NEW z \in stack'[u][k].kept
       PROVE  Latest(z)
  <2>1. CASE u = t /\ k = Len(stack[t])
    BY <1>1, <1>2, <1>4, <2>1, TopReplaced
  <2>2. CASE ~(u = t /\ k = Len(stack[t]))
    <3>1. k \in DOMAIN stack[u] /\ stack'[u][k] = stack[u][k]
      BY <1>1, <1>2, <1>4, <2>2, TopReplaced
    <3> QED
      BY <3>1 DEF IInv, StillThere
  <2> QED
    BY <2>1, <2>2
<1>16. StillThere'
  <2>1. ASSUME NEW z \in Created,
               Pending(z)' \/ (\E u \in Threads : At(u, "release", z)') \/ Climbed(z)'
        PROVE  Latest(z)
    BY <1>1, <1>3, <1>11, <1>13, <2>1 DEF IInv, StillThere, Climbed
  <2> QED
    BY <1>2, <1>14, <1>15, <2>1, NothingNew DEF IInv
<1>17. ChildBetween' /\ \A z : UnreportedChildren(z)' = UnreportedChildren(z)
  BY <1>2, <1>14, SameChildren DEF IInv
<1>18. OneClimber'
  BY <1>2, <1>6, <1>13 DEF IInv, OneClimber
<1>19. ASSUME NEW z \in Created, Latest(z)
       PROVE  jobs[Cell(z)] = (IF Pending(z)' THEN 1 ELSE 0) + Owed(z)'
                              + Cardinality(UnreportedChildren(z)')
  <2>1. jobs[Cell(z)] = (IF Pending(z) THEN 1 ELSE 0) + Owed(z)
                        + Cardinality(UnreportedChildren(z))
    BY <1>19 DEF IInv, JobsAccounted
  <2>2. CASE z # x
    BY <1>11, <1>13, <1>17, <2>1, <2>2, OwedSame
  <2>3. CASE z = x
    <3>1. Owed(x)' = Owed(x) + 1 /\ Owed(x) \in Nat
      BY <1>13, OwedMore
    <3>2. Cardinality(UnreportedChildren(z)) \in Nat
      <4>1. UnreportedChildren(z) \in SUBSET TaskIds
        BY NotATask DEF UnreportedChildren
      <4> QED
        BY <4>1, FiniteParts
    <3> QED
      BY <1>11, <1>17, <2>1, <2>3, <3>1, <3>2
  <2> QED
    BY <2>2, <2>3
<1>20. JobsAccounted'
  BY <1>2, <1>6, <1>19 DEF JobsAccounted, Latest, Cell
<1> QED
  BY <1>8, <1>9, <1>12, <1>16, <1>17, <1>18, <1>20 DEF IInv

\* The last frame of t goes on to the place p with it = y, or returns.
GoesUp(t, up, p, y) ==
    IF up THEN SetTop(t, [Top(t) EXCEPT !.pc = p, !.it = y]) ELSE Return(t)

LEMMA WayUp ==
    ASSUME IInv, NEW t \in Threads, Top(t).pc \in {"release", "climb"},
           UNCHANGED <<m_allocated, queued, done>>,
           NEW y \in Created, NEW p \in {"release", "climb"}, NEW up \in BOOLEAN,
           stack' = GoesUp(t, up, p, y)
    PROVE  /\ (stack \in [Threads -> Seq(FrameType)])'
           /\ FramesOK' /\ HeldOnce' /\ DoneOrPending'
           /\ \A z \in Created : Pending(z)' <=> Pending(z)
           /\ \A z : \A u \in Threads, q \in {"release", "climb"} :
                At(u, q, z)' <=> IF u = t THEN up /\ p = q /\ y = z ELSE At(u, q, z)
           /\ \A u \in Threads : \A k \in DOMAIN stack'[u] :
                \A z \in stack'[u][k].kept : Latest(z)
<1>1. /\ stack \in [Threads -> Seq(FrameType)] /\ stack[t] # <<>> /\ FramesOK
      /\ Top(t) \in FrameType /\ FrameOK(Created, Top(t), Len(stack[t]) = 1, TRUE)
      /\ \A z \in Top(t).kept : Latest(z)
  BY RunningFrame DEF IInv
<1>2. Created' = Created
  BY DEF Created
<1>3. Top(t).fresh = None
  BY <1>1 DEF FrameOK
<1>4. CASE ~up
  <2>1. stack' = Return(t)
    BY <1>4 DEF GoesUp
  <2>2. /\ (stack \in [Threads -> Seq(FrameType)])'
        /\ FramesOK'
        /\ \A z : \A u \in Threads, q \in {"release", "climb"} :
             At(u, q, z)' <=> u # t /\ At(u, q, z)
        /\ \A u \in Threads : \A k \in DOMAIN stack'[u] :
             k \in DOMAIN stack[u] /\ stack'[u][k] = stack[u][k]
    BY <1>1, <1>2, <2>1, TopDroppedFrames
  <2>3. ASSUME NEW z \in Created PROVE OneHolder(z)' /\ (Pending(z)' <=> Pending(z))
    <3>1. OneHolder(z) /\ queued' = queued
      BY DEF IInv, HeldOnce
    <3> QED
      BY <1>1, <1>2, <2>1, <3>1, TopDroppedHolds
  <2>4. HeldOnce' /\ DoneOrPending'
    BY <1>2, <2>3 DEF IInv, HeldOnce, DoneOrPending
  <2>5. \A u \in Threads : \A k \in DOMAIN stack'[u] :
          \A z \in stack'[u][k].kept : Latest(z)
    BY <2>2 DEF IInv, StillThere
  <2> QED
    BY <1>4, <2>2, <2>3, <2>4, <2>5
<1>5. CASE up
  <2>1. PICK f \in FrameType :
          /\ f = [Top(t) EXCEPT !.pc = p, !.it = y]
          /\ f.task = Top(t).task /\ f.pc = p /\ f.it = y
          /\ f.fresh = None /\ f.kept = Top(t).kept
    <3>1. [Top(t) EXCEPT !.pc = p, !.it = y] \in FrameType
      BY <1>1, NotATask DEF FrameType, Places
    <3> QED
      BY <1>1, <1>3, <3>1 DEF FrameType
  <2>2. stack' = SetTop(t, f)
    BY <1>5, <2>1 DEF GoesUp
  <2>3. FrameOK(Created', f, Len(stack[t]) = 1, TRUE) /\ Created \subseteq Created'
    BY <1>1, <1>2, <2>1, NotATask DEF FrameOK
  <2>4. /\ (stack \in [Threads -> Seq(FrameType)])'
        /\ FramesOK'
        /\ \A z : \A u \in Threads, q \in {"release", "climb"} :
             At(u, q, z)' <=> IF u = t THEN f.pc = q /\ f.it = z ELSE At(u, q, z)
    BY <1>1, <2>2, <2>3, TopReplacedFrames
  <2>5. ASSUME NEW z \in Created PROVE OneHolder(z)' /\ (Pending(z)' <=> Pending(z))
    <3>1. ~Holds(f, z) /\ ~Holds(Top(t), z)
      BY <1>3, <2>1, NotATask DEF Holds
    <3>2. OneHolder(z) /\ queued' = queued
      BY DEF IInv, HeldOnce
    <3> QED
      BY <1>1, <2>2, <3>1, <3>2, TopReplacedHolds
  <2>6. HeldOnce' /\ DoneOrPending'
    BY <1>2, <2>5 DEF IInv, HeldOnce, DoneOrPending
  <2>7. ASSUME NEW u \in Threads, NEW k \in DOMAIN stack'[u], NEW z \in stack'[u][k].kept
        PROVE  Latest(z)
    <3>1. CASE u = t /\ k = Len(stack[t])
      BY <1>1, <2>1, <2>2, <3>1, TopReplaced
    <3>2. CASE ~(u = t /\ k = Len(stack[t]))
      <4>1. k \in DOMAIN stack[u] /\ stack'[u][k] = stack[u][k]
        BY <1>1, <2>2, <3>2, TopReplaced
      <4> QED
        BY <4>1 DEF IInv, StillThere
    <3> QED
      BY <3>1, <3>2
  <2> QED
    BY <1>5, <2>1, <2>4, <2>5, <2>6, <2>7
<1> QED
  BY <1>4, <1>5

LEMMA ReleaseJobKeeps ==
    ASSUME IInv, NEW t \in Threads, ReleaseJob(t)
    PROVE  IInv'
<1>1. /\ stack \in [Threads -> Seq(FrameType)] /\ stack[t] # <<>> /\ FramesOK
      /\ Top(t) \in FrameType /\ FrameOK(Created, Top(t), Len(stack[t]) = 1, TRUE)
  BY RunningFrame DEF IInv
<1>2. PICK x \in Created : x = Top(t).it
  BY <1>1 DEF ReleaseJob, FrameOK
<1>3. Top(t).pc = "release" /\ UNCHANGED <<m_allocated, parent, queued, done, under>>
  BY DEF ReleaseJob
<1>4. x \in TaskIds /\ Cell(x) \in Cells /\ jobs \in [Cells -> Nat]
  BY NotATask, TaskFields DEF IInv, Typed
<1>5. At(t, "release", x) /\ ~At(t, "climb", x)
  BY <1>1, <1>2, <1>3, AtMeans
<1>6. jobs[Cell(x)] > 0 /\ Unreported(x) /\ Latest(x)
  BY <1>5, JobOwed DEF IInv, Unreported
<1> DEFINE n == jobs[Cell(x)]
<1>7. jobs' = [jobs EXCEPT ![Cell(x)] = n - 1]
  BY <1>2 DEF ReleaseJob
<1>8. jobs' \in [Cells -> Nat] /\ jobs'[Cell(x)] = n - 1
  BY <1>4, <1>6, <1>7
<1>9. Created' = Created
  BY <1>3 DEF Created
<1>10. ASSUME NEW z \in Created, z # x, Latest(z) PROVE jobs'[Cell(z)] = jobs[Cell(z)]
  <2>1. Cell(z) # Cell(x)
    BY <1>6, <1>10, OneTaskPerCell DEF IInv, Typed
  <2> QED
    BY <2>1, <1>4, <1>7, NotATask, TaskFields
<1>11. PICK last \in BOOLEAN : last <=> n = 1
  OBVIOUS
<1>12. stack' = GoesUp(t, last, "climb", x)
  <2>1. [Top(t) EXCEPT !.pc = "climb", !.it = x] = [Top(t) EXCEPT !.pc = "climb"]
    BY <1>1, <1>2 DEF FrameType
  <2> QED
    BY <1>2, <1>11, <2>1 DEF ReleaseJob, GoesUp
<1> HIDE DEF n
<1>13. /\ (stack \in [Threads -> Seq(FrameType)])'
       /\ FramesOK' /\ HeldOnce' /\ DoneOrPending'
       /\ \A z \in Created : Pending(z)' <=> Pending(z)
       /\ \A z : \A u \in Threads, q \in {"release", "climb"} :
            At(u, q, z)' <=> IF u = t THEN last /\ "climb" = q /\ x = z ELSE At(u, q, z)
       /\ \A u \in Threads : \A k \in DOMAIN stack'[u] :
            \A z \in stack'[u][k].kept : Latest(z)
  <2>1. Top(t).pc \in {"release", "climb"} /\ UNCHANGED <<m_allocated, queued, done>>
    BY <1>3
  <2> QED
    BY <2>1, <1>12, WayUp
<1>14. Typed'
  BY <1>3, <1>8, <1>9, <1>13 DEF IInv, Typed
<1>15. ASSUME NEW z
       PROVE  /\ z # x => \A u \in Threads : /\ At(u, "release", z)' <=> At(u, "release", z)
                                             /\ At(u, "climb", z)' <=> At(u, "climb", z)
              /\ \A u \in Threads : At(u, "release", x)' <=> At(u, "release", x) /\ u # t
              /\ \A u \in Threads : At(u, "climb", x)' <=> u = t /\ last
  <2>1. \A u \in Threads : ~At(u, "climb", x)
    BY <1>4, <1>6 DEF IInv, OneClimber
  <2>2. z # x => ~At(t, "release", z) /\ ~At(t, "climb", z)
    BY <1>1, <1>2, <1>3, AtMeans
  <2> QED
    BY <1>13, <2>1, <2>2
<1>16. Unreported(x)'
  <2>1. Latest(x)'
    BY <1>3, <1>6 DEF Latest
  <2>2. CASE last
    BY <1>15, <2>1, <2>2 DEF Unreported, Climbed
  <2>3. CASE ~last
    <3>1. n - 1 > 0
      BY <1>4, <1>6, <1>11, <2>3 DEF n
    <3>2. jobs'[Cell(x)] > 0
      BY <1>8, <3>1
    <3>3. (jobs[Cell(x)] > 0)'
      BY <3>2 DEF Cell
    <3> QED
      BY <2>1, <3>3 DEF Unreported
  <2> QED
    BY <2>2, <2>3
<1>17. \A z \in Created : Unreported(z)' <=> Unreported(z)
  <2> SUFFICES ASSUME NEW z \in Created, z # x PROVE Unreported(z)' <=> Unreported(z)
    BY <1>6, <1>16
  <2>1. (Latest(z)' <=> Latest(z)) /\ (Climbed(z)' <=> Climbed(z))
    BY <1>3, <1>15 DEF Latest, Climbed
  <2>2. Latest(z) => jobs'[Cell(z)] = jobs[Cell(z)]
    BY <1>10
  <2> QED
    BY <2>1, <2>2 DEF Unreported, Cell
<1>18. StillThere'
  <2>1. ASSUME NEW z \in Created,
               Pending(z)' \/ (\E u \in Threads : At(u, "release", z)') \/ Climbed(z)'
        PROVE  Latest(z)
    BY <1>6, <1>13, <1>15, <2>1 DEF IInv, StillThere, Climbed
  <2> QED
    BY <1>3, <1>13, <1>17, <2>1, NothingNew DEF IInv
<1>19. ChildBetween' /\ \A z : UnreportedChildren(z)' = UnreportedChildren(z)
  BY <1>3, <1>17, SameChildren DEF IInv
<1>20. OneClimber'
  <2> SUFFICES ASSUME NEW z \in Created, NEW u \in Threads, At(u, "climb", z)'
               PROVE  /\ jobs'[Cell(z)] = 0
                      /\ \A v \in Threads : At(v, "climb", z)' => v = u
    BY <1>9 DEF OneClimber, Cell
  <2>1. CASE z = x
    <3>1. last /\ u = t /\ \A v \in Threads : At(v, "climb", z)' => v = u
      BY <1>15, <2>1
    <3>2. n - 1 = 0
      BY <1>11, <3>1
    <3> QED
      BY <1>8, <2>1, <3>1, <3>2
  <2>2. CASE z # x
    <3>1. \A v \in Threads : At(v, "climb", z)' <=> At(v, "climb", z)
      BY <1>15, <2>2
    <3>2. jobs[Cell(z)] = 0 /\ \A v \in Threads : At(v, "climb", z) => v = u
      BY <3>1 DEF IInv, OneClimber
    <3>3. Latest(z)
      BY <3>1 DEF IInv, StillThere, Climbed
    <3> QED
      BY <1>10, <2>2, <3>1, <3>2, <3>3
  <2> QED
    BY <2>1, <2>2
<1>21. ASSUME NEW z \in Created, Latest(z)
       PROVE  jobs'[Cell(z)] = (IF Pending(z)' THEN 1 ELSE 0) + Owed(z)'
                               + Cardinality(UnreportedChildren(z)')
  <2>1. jobs[Cell(z)] = (IF Pending(z) THEN 1 ELSE 0) + Owed(z)
                        + Cardinality(UnreportedChildren(z))
    BY <1>21 DEF IInv, JobsAccounted
  <2>2. CASE z # x
    <3>1. Owed(z)' = Owed(z)
      BY <1>15, <2>2, OwedSame
    <3> QED
      BY <1>10, <1>13, <1>19, <1>21, <2>1, <2>2, <3>1
  <2>3. CASE z = x
    <3>1. Owed(x)' = Owed(x) - 1 /\ Owed(x) \in Nat
      BY <1>5, <1>15, OwedLess
    <3>2. Cardinality(UnreportedChildren(z)) \in Nat
      <4>1. UnreportedChildren(z) \in SUBSET TaskIds
        BY NotATask DEF UnreportedChildren
      <4> QED
        BY <4>1, FiniteParts
    <3>3. Pending(z)' <=> Pending(z)
      BY <1>13
    <3> QED
      BY <1>8, <1>19, <2>1, <2>3, <3>1, <3>2, <3>3 DEF n
  <2> QED
    BY <2>2, <2>3
<1>22. JobsAccounted'
  BY <1>3, <1>9, <1>21 DEF JobsAccounted, Latest, Cell
<1> QED
  BY <1>13, <1>14, <1>18, <1>19, <1>20, <1>22 DEF IInv

LEMMA ReadParentKeeps ==
    ASSUME IInv, NEW t \in Threads, ReadParent(t)
    PROVE  IInv'
<1>1. /\ stack \in [Threads -> Seq(FrameType)] /\ stack[t] # <<>> /\ FramesOK
      /\ Top(t) \in FrameType /\ FrameOK(Created, Top(t), Len(stack[t]) = 1, TRUE)
  BY RunningFrame DEF IInv
<1>2. PICK y \in Created : y = Top(t).it
  BY <1>1 DEF ReadParent, FrameOK
<1>3. Top(t).pc = "climb" /\ UNCHANGED <<m_allocated, parent, jobs, queued, done, under>>
  BY DEF ReadParent
<1>4. Cell(y) \in Cells /\ parent[Cell(y)] \in Created \cup {None}
  BY NotATask, TaskFields DEF IInv, Typed
<1>5. At(t, "climb", y)
  BY <1>1, <1>2, <1>3, AtMeans
<1>6. /\ jobs[Cell(y)] = 0 /\ \A u \in Threads : At(u, "climb", y) => u = t
      /\ Unreported(y) /\ Latest(y)
  BY <1>5 DEF IInv, OneClimber, StillThere, Unreported, Climbed
<1>7. Created' = Created
  BY <1>3 DEF Created
<1>8. PICK up \in BOOLEAN : up <=> parent[Cell(y)] # None
  OBVIOUS
<1>9. PICK p \in Created : up => p = parent[Cell(y)]
  BY <1>4, <1>8
<1>10. stack' = GoesUp(t, up, "release", p)
  BY <1>2, <1>8, <1>9 DEF ReadParent, GoesUp
<1>11. up => Latest(p) /\ y \in UnreportedChildren(p)
  BY <1>6, <1>9, UnreportedMeans DEF IInv, StillThere
<1>12. /\ (stack \in [Threads -> Seq(FrameType)])'
       /\ FramesOK' /\ HeldOnce' /\ DoneOrPending'
       /\ \A z \in Created : Pending(z)' <=> Pending(z)
       /\ \A z : \A u \in Threads, q \in {"release", "climb"} :
            At(u, q, z)' <=> IF u = t THEN up /\ "release" = q /\ p = z ELSE At(u, q, z)
       /\ \A u \in Threads : \A k \in DOMAIN stack'[u] :
            \A z \in stack'[u][k].kept : Latest(z)
  <2>1. Top(t).pc \in {"release", "climb"} /\ UNCHANGED <<m_allocated, queued, done>>
    BY <1>3
  <2> QED
    BY <2>1, <1>10, WayUp
<1>13. Typed'
  BY <1>3, <1>7, <1>12 DEF IInv, Typed
<1>14. ASSUME NEW z
       PROVE  /\ \A u \in Threads : At(u, "climb", z)' <=> At(u, "climb", z) /\ u # t
              /\ z # y => \A u \in Threads : At(u, "climb", z)' <=> At(u, "climb", z)
              /\ ~At(t, "release", z)
              /\ \A u \in Threads :
                   At(u, "release", z)' <=> At(u, "release", z) \/ (u = t /\ up /\ z = p)
  <2>1. ~At(t, "release", z) /\ (At(t, "climb", z) <=> z = y)
    BY <1>1, <1>2, <1>3, AtMeans
  <2> QED
    BY <1>12, <2>1
<1>15. ~Unreported(y)'
  <2>1. ~Climbed(y)'
    BY <1>6, <1>14 DEF Climbed
  <2>2. ~(jobs'[Cell(y)] > 0)
    BY <1>3, <1>6
  <2> QED
    BY <2>1, <2>2 DEF Unreported, Cell
<1>16. \A z \in Created : Unreported(z)' <=> Unreported(z) /\ z # y
  <2> SUFFICES ASSUME NEW z \in Created, z # y PROVE Unreported(z)' <=> Unreported(z)
    BY <1>15
  <2> QED
    BY <1>3, <1>14 DEF Unreported, Latest, Climbed, Cell
<1>17. StillThere'
  <2>1. ASSUME NEW z \in Created,
               Pending(z)' \/ (\E u \in Threads : At(u, "release", z)') \/ Climbed(z)'
        PROVE  Latest(z)
    BY <1>11, <1>12, <1>14, <2>1 DEF IInv, StillThere, Climbed
  <2> QED
    BY <1>3, <1>12, <1>16, <2>1, NothingNew DEF IInv
<1>18. \A z \in Created :
         UnreportedChildren(z)' = UnreportedChildren(z) \ {y}
  BY <1>3, <1>7, <1>16, UnreportedMeans
<1>19. OneClimber'
  BY <1>3, <1>7, <1>14 DEF IInv, OneClimber
<1>20. ChildBetween'
  <2> SUFFICES ASSUME NEW d \in Created, NEW a \in Created, <<d, a>> \in under, d # a,
                      Unreported(d), d # y
               PROVE  \E c \in UnreportedChildren(a)' : <<d, c>> \in under
    BY <1>3, <1>7, <1>16 DEF ChildBetween
  <2>1. PICK c \in UnreportedChildren(a) : <<d, c>> \in under
    BY DEF IInv, ChildBetween
  <2>2. c # y
    <3> SUFFICES ASSUME c = y PROVE FALSE
      OBVIOUS
    <3>1. UnreportedChildren(y) # {}
      BY <2>1 DEF IInv, ChildBetween
    <3> QED
      BY <1>6, <3>1, JobOwed DEF IInv
  <2> QED
    BY <1>18, <2>1, <2>2
<1>21. ASSUME NEW z \in Created, Latest(z)
       PROVE  jobs[Cell(z)] = (IF Pending(z)' THEN 1 ELSE 0) + Owed(z)'
                              + Cardinality(UnreportedChildren(z)')
  <2> DEFINE U == UnreportedChildren(z)
  <2>1. jobs[Cell(z)] = (IF Pending(z) THEN 1 ELSE 0) + Owed(z) + Cardinality(U)
    BY <1>21 DEF IInv, JobsAccounted
  <2>2. IsFiniteSet(U) /\ Cardinality(U) \in Nat
    <3>1. U \in SUBSET TaskIds
      BY NotATask DEF UnreportedChildren
    <3> QED
      BY <3>1, FiniteParts
  <2>3. Pending(z)' <=> Pending(z)
    BY <1>12
  <2>4. CASE up /\ z = p
    <3>1. Owed(z)' = Owed(z) + 1 /\ Owed(z) \in Nat
      BY <1>14, <2>4, OwedMore
    <3>2. y \in U
      BY <1>11, <2>4
    <3> HIDE DEF U
    <3>3. Cardinality(U \ {y}) = Cardinality(U) - 1
      BY <2>2, <3>2, FS_RemoveElement
    <3>4. UnreportedChildren(z)' = U \ {y}
      BY <1>18 DEF U
    <3> QED
      BY <2>1, <2>2, <2>3, <3>1, <3>3, <3>4
  <2>5. CASE ~(up /\ z = p)
    <3>1. Owed(z)' = Owed(z)
      BY <1>14, <2>5, OwedSame
    <3>2. y \notin U
      BY <1>8, <1>9, <2>5, NotATask DEF UnreportedChildren
    <3>3. UnreportedChildren(z)' = U
      BY <1>18, <3>2
    <3> QED
      BY <2>1, <2>3, <3>1, <3>3
  <2> QED
    BY <2>4, <2>5
<1>22. JobsAccounted'
  BY <1>3, <1>7, <1>21 DEF JobsAccounted, Latest, Cell
<1> QED
  BY <1>12, <1>13, <1>17, <1>19, <1>20, <1>22 DEF IInv

-----------------------------------------------------------------------------
(***************************************************************************)
(* The creation of a task, which takes a cell from an older one.           *)
(***************************************************************************)

LEMMA RoomForATask ==
    ASSUME Typed, NEW t \in Threads, Cardinality(Created) < MaxTasks
    PROVE  m_allocated[t] \in Nat /\ m_allocated[t] + 1 \in 0 .. MaxTasks
<1> DEFINE m == m_allocated[t]
           S == {t} \X (0 .. m - 1)
<1>1. m \in 0 .. MaxTasks /\ m \in Nat /\ MaxTasks \in Nat
  BY MaxTasksAssumption DEF Typed
<1>2. S \subseteq Created
  BY <1>1 DEF Created, TaskIds
<1>3. IsFiniteSet(Created) /\ Cardinality(Created) \in Nat
  <2>1. Created \in SUBSET TaskIds
    BY NotATask
  <2> QED
    BY <2>1, FiniteParts
<1> HIDE DEF m
<1>4. IsFiniteSet(0 .. m - 1) /\ Cardinality(0 .. m - 1) = m
  BY <1>1, FS_Interval
<1>5. IsFiniteSet({t}) /\ Cardinality({t}) = 1
  BY FS_Singleton
<1>6. Cardinality(S) = 1 * m
  <2>1. \A A, B : IsFiniteSet(A) /\ IsFiniteSet(B)
           => Cardinality(A \X B) = Cardinality(A) * Cardinality(B)
    BY FS_Product
  <2>2. Cardinality({t} \X (0 .. m - 1)) = Cardinality({t}) * Cardinality(0 .. m - 1)
    BY <2>1, <1>4, <1>5, Zenon
  <2> QED
    BY <2>2, <1>4, <1>5
<1> HIDE DEF S
<1>7. Cardinality(S) <= Cardinality(Created)
  <2>1. \A C : IsFiniteSet(C) => \A D \in SUBSET C : Cardinality(D) <= Cardinality(C)
    BY FS_Subset
  <2>2. S \in SUBSET Created
    BY <1>2
  <2>3. IsFiniteSet(Created)
    BY <1>3
  <2> QED
    BY <2>1, <2>2, <2>3
<1>8. m < MaxTasks
  BY <1>1, <1>3, <1>6, <1>7
<1> QED
  BY <1>1, <1>8 DEF m

\* What the guards say of the task that loses its cell c.
LEMMA NobodyLooks ==
    ASSUME Quiesced, IInv, NEW c, MayReuse(c)
    PROVE  /\ \A z \in Created :
                Pending(z) \/ (\E u \in Threads : At(u, "release", z)) \/ Climbed(z)
                   \/ Unreported(z) \/ UnreportedChildren(z) # {} => Cell(z) # c
           /\ \A u \in Threads : \A k \in DOMAIN stack[u] :
                \A z \in stack[u][k].kept : Cell(z) # c
<1>1. jobs[c] = 0
  BY DEF MayReuse
<1>2. \A u \in Threads : \A k \in DOMAIN stack[u] :
        /\ stack[u][k].pc = "climb" => Cell(stack[u][k].it) # c
        /\ \A z \in stack[u][k].kept : Cell(z) # c
  BY DEF MayReuse, Frames, ToSet
<1>3. ASSUME NEW z \in Created, Climbed(z) PROVE Cell(z) # c
  BY <1>2, <1>3 DEF Climbed, At
<1>4. ASSUME NEW z \in Created, jobs[Cell(z)] > 0 PROVE Cell(z) # c
  BY <1>1, <1>4
<1>5. ASSUME NEW z \in Created, UnreportedChildren(z) # {} PROVE jobs[Cell(z)] > 0
  <2>1. PICK y \in Created : parent[Cell(y)] = z /\ Unreported(y)
    BY <1>5, UnreportedMeans
  <2>2. Latest(z)
    BY <2>1 DEF IInv, StillThere
  <2> QED
    BY <1>5, <2>2, JobOwed DEF IInv
<1>6. ASSUME NEW z \in Created, Pending(z) \/ \E u \in Threads : At(u, "release", z)
      PROVE  jobs[Cell(z)] > 0
  BY <1>6, JobOwed DEF IInv
<1>7. ASSUME NEW z \in Created, Unreported(z) PROVE Cell(z) # c
  BY <1>3, <1>4, <1>7 DEF Unreported
<1> QED
  BY <1>2, <1>3, <1>4, <1>5, <1>6, <1>7

LEMMA CreateTaskKeeps ==
    ASSUME Quiesced, IInv, NEW t \in Threads, CreateTask(t)
    PROVE  IInv'
<1>1. /\ stack \in [Threads -> Seq(FrameType)] /\ stack[t] # <<>> /\ FramesOK
      /\ Top(t) \in FrameType /\ FrameOK(Created, Top(t), Len(stack[t]) = 1, TRUE)
      /\ \A z \in Created : Holds(Top(t), z) => Pending(z) /\ Latest(z)
  BY RunningFrame DEF IInv
<1>2. m_allocated[t] \in Nat /\ m_allocated[t] + 1 \in 0 .. MaxTasks
  BY RoomForATask DEF CreateTask, IInv
<1>3. PICK x \in TaskIds : x = <<t, m_allocated[t]>>
  <2>1. m_allocated[t] \in 0 .. MaxTasks
    BY <1>2, MaxTasksAssumption
  <2>2. <<t, m_allocated[t]>> \in TaskIds
    BY <2>1 DEF TaskIds
  <2> QED
    BY <2>2
<1>4. PICK c \in Cells : c = Cell(x)
  BY TaskFields
<1>5. x \notin Created /\ x # None
  BY <1>2, <1>3, NoneAssumption DEF Created
<1>6. /\ Top(t).pc = "body" /\ Top(t).fresh = None /\ MayReuse(c)
      /\ UNCHANGED <<queued, done>>
      /\ m_allocated' = [m_allocated EXCEPT ![t] = @ + 1]
      /\ stack' = SetTop(t, [Top(t) EXCEPT !.fresh = x])
  BY <1>3, <1>4 DEF CreateTask
<1>7. PICK p \in {None, Top(t).task} :
        /\ parent' = [parent EXCEPT ![c] = p]
        /\ jobs' = CountJobs(c, p)
        /\ under' = under \cup {<<x, x>>} \cup {<<x, a[2]>> : a \in {b \in under : b[1] = p}}
  <2>1. PICK q \in {None, Top(t).task} :
           /\ parent' = [parent EXCEPT ![Cell(<<t, m_allocated[t]>>)] = q]
           /\ jobs' = CountJobs(Cell(<<t, m_allocated[t]>>), q)
           /\ under' = under \cup {<<<<t, m_allocated[t]>>, <<t, m_allocated[t]>>>>}
                    \cup {<<<<t, m_allocated[t]>>, a[2]>> : a \in {b \in under : b[1] = q}}
    BY DEF CreateTask
  <2>2. c = Cell(<<t, m_allocated[t]>>)
    BY <1>3, <1>4
  <2>3. parent' = [parent EXCEPT ![c] = q] /\ jobs' = CountJobs(c, q)
    BY <2>1, <2>2
  <2>4. under' = under \cup {<<x, x>>} \cup {<<x, a[2]>> : a \in {b \in under : b[1] = q}}
    BY <2>1, <1>3
  <2> QED
    BY <2>3, <2>4
<1>8. p \in Created \cup {None}
  BY <1>1, <1>7 DEF FrameOK
<1>9. Created' = Created \cup {x}
  <2>1. \A z \in TaskIds : z[2] < m_allocated'[z[1]] <=> z[2] < m_allocated[z[1]] \/ z = x
    <3> SUFFICES ASSUME NEW z \in TaskIds
                 PROVE  z[2] < m_allocated'[z[1]] <=> z[2] < m_allocated[z[1]] \/ z = x
      OBVIOUS
    <3>1. z[1] \in Threads /\ z[2] \in Nat /\ z = <<z[1], z[2]>>
      BY TaskFields
    <3>2. CASE z[1] # t
      BY <1>3, <1>6, <3>1, <3>2 DEF IInv, Typed
    <3>3. CASE z[1] = t
      <4>1. m_allocated'[z[1]] = m_allocated[t] + 1
        BY <1>6, <3>3 DEF IInv, Typed
      <4>2. z = x <=> z[2] = m_allocated[t]
        BY <1>3, <3>1, <3>3
      <4> QED
        BY <1>2, <3>1, <3>3, <4>1, <4>2
    <3> QED
      BY <3>2, <3>3
  <2> QED
    BY <2>1 DEF Created
<1>10. m_allocated' \in [Threads -> 0 .. MaxTasks] /\ m_allocated \in [Threads -> 0 .. MaxTasks]
  BY <1>2, <1>6 DEF IInv, Typed
<1>11. /\ \A z \in Created : Latest(z)' <=> Latest(z) /\ Cell(z) # c
       /\ Latest(x)'
  <2>1. \A z \in Created : Latest(z)' <=> Latest(z) /\ Cell(z) # c
    BY <1>3, <1>4, <1>6, <1>10, CellTaken
  <2>2. m_allocated'[t] = m_allocated[t] + 1 /\ x[1] = t /\ x[2] = m_allocated[t]
    BY <1>3, <1>6, <1>10
  <2>3. m_allocated[t] + RingSize >= m_allocated[t] + 1
    BY <1>2, RingAssumption
  <2> QED
    BY <2>1, <2>2, <2>3 DEF Latest
<1>12. /\ \A z \in Created :
            Pending(z) \/ (\E u \in Threads : At(u, "release", z)) \/ Climbed(z)
               \/ Unreported(z) \/ UnreportedChildren(z) # {} => Cell(z) # c
       /\ \A u \in Threads : \A k \in DOMAIN stack[u] :
            \A z \in stack[u][k].kept : Cell(z) # c
  BY <1>6, NobodyLooks
<1>13. p \in Created => /\ Pending(p) /\ Latest(p) /\ Unreported(p)
                        /\ jobs[Cell(p)] > 0 /\ Cell(p) # c
  <2> SUFFICES ASSUME p \in Created
               PROVE  /\ Pending(p) /\ Latest(p) /\ Unreported(p)
                      /\ jobs[Cell(p)] > 0 /\ Cell(p) # c
    OBVIOUS
  <2>1. p = Top(t).task
    BY <1>7, NotATask
  <2>2. Holds(Top(t), p)
    BY <1>6, <2>1 DEF Holds
  <2>3. Pending(p) /\ Latest(p)
    BY <1>1, <2>2
  <2> QED
    BY <1>12, <2>3, JobOwed DEF IInv

\* the stack
<1>14. PICK f \in FrameType :
         /\ f = [Top(t) EXCEPT !.fresh = x] /\ f.task = Top(t).task /\ f.pc = "body"
         /\ f.it = Top(t).it /\ f.fresh = x /\ f.kept = Top(t).kept
  <2>1. [Top(t) EXCEPT !.fresh = x] \in FrameType
    BY <1>1, <1>6 DEF FrameType
  <2> QED
    BY <1>1, <1>6, <2>1 DEF FrameType
<1>15. stack' = SetTop(t, f)
  BY <1>6, <1>14
<1>16. /\ (stack \in [Threads -> Seq(FrameType)])'
       /\ FramesOK'
       /\ \A z : \A u \in Threads, q \in {"release", "climb"} :
             At(u, q, z)' <=> IF u = t THEN f.pc = q /\ f.it = z ELSE At(u, q, z)
  <2>1. Created \subseteq Created' /\ FrameOK(Created', f, Len(stack[t]) = 1, TRUE)
    BY <1>1, <1>5, <1>9, <1>14 DEF FrameOK
  <2> QED
    BY <1>1, <1>15, <2>1, TopReplacedFrames
<1>17. ASSUME NEW z
       PROVE  /\ \A u \in Threads : /\ At(u, "release", z)' <=> At(u, "release", z)
                                    /\ At(u, "climb", z)' <=> At(u, "climb", z)
              /\ Climbed(z)' <=> Climbed(z)
  <2>1. ~At(t, "release", z) /\ ~At(t, "climb", z)
    BY <1>1, <1>6, AtMeans
  <2>2. \A u \in Threads : /\ At(u, "release", z)' <=> At(u, "release", z)
                           /\ At(u, "climb", z)' <=> At(u, "climb", z)
    BY <1>14, <1>16, <2>1
  <2> QED
    BY <2>2 DEF Climbed
<1>18. \A u \in Threads : ~At(u, "release", x) /\ ~At(u, "climb", x)
  BY <1>1, <1>5 DEF FramesOK, FrameOK, At
<1>19. /\ \A u \in Threads : DOMAIN stack'[u] = DOMAIN stack[u]
       /\ \A u \in Threads : \A k \in DOMAIN stack[u] :
             ~(u = t /\ k = Len(stack[t])) => stack'[u][k] = stack[u][k]
       /\ stack'[t][Len(stack[t])] = f
       /\ Len(stack[t]) \in DOMAIN stack[t]
  BY <1>1, <1>15, TopReplaced, TopFrame
<1>20. ASSUME NEW u \in Threads, NEW k \in DOMAIN stack[u]
       PROVE  ~Holds(stack[u][k], x)
  BY <1>1, <1>5 DEF FramesOK, FrameOK, Holds
<1>21. OneHolder(x)' /\ Pending(x)'
  <2>1. Holds(f, x) /\ x \notin queued'
    BY <1>5, <1>6, <1>14 DEF Holds, IInv, Typed
  <2>2. Pending(x)'
    BY <1>19, <2>1, PendingMeans
  <2>3. ASSUME NEW u \in Threads, NEW k \in DOMAIN stack'[u], Holds(stack'[u][k], x)
        PROVE  u = t /\ k = Len(stack[t])
    BY <1>19, <1>20, <2>3
  <2>4. OneHolder(x)'
    BY <2>1, <2>3 DEF OneHolder
  <2> QED
    BY <2>2, <2>4
<1>22. ASSUME NEW z \in Created PROVE OneHolder(z)' /\ (Pending(z)' <=> Pending(z))
  <2>1. Holds(f, z) <=> Holds(Top(t), z)
    BY <1>5, <1>6, <1>14, NotATask DEF Holds
  <2>2. OneHolder(z) /\ queued' = queued
    BY <1>6 DEF IInv, HeldOnce
  <2>3. Holds(Top(t), z) => z \notin queued
    BY <1>1, <1>19, <2>2, TopFrame DEF OneHolder
  <2> QED
    BY <1>1, <1>15, <2>1, <2>2, <2>3, TopReplacedHolds
<1>23. HeldOnce' /\ DoneOrPending'
  BY <1>6, <1>9, <1>21, <1>22 DEF IInv, HeldOnce, DoneOrPending

\* the counters
<1>24. jobs' \in [Cells -> Nat] /\ jobs'[c] = 1
  BY <1>7 DEF CountJobs, IInv, Typed
<1>25. ASSUME NEW z \in Created, Latest(z), Cell(z) # c
       PROVE  jobs'[Cell(z)] = IF z = p THEN jobs[Cell(z)] + 1 ELSE jobs[Cell(z)]
  <2>1. Cell(z) \in Cells
    BY NotATask, TaskFields
  <2>2. jobs'[Cell(z)] = IF p # None /\ Cell(z) = Cell(p) THEN jobs[Cell(z)] + 1
                         ELSE jobs[Cell(z)]
    BY <1>7, <1>25, <2>1 DEF CountJobs
  <2>3. p # None /\ Cell(z) = Cell(p) => z = p
    BY <1>8, <1>10, <1>13, <1>25, OneTaskPerCell
  <2>4. z = p => p # None
    BY NotATask
  <2> QED
    BY <2>2, <2>3, <2>4
<1>26. /\ \A z \in Created : Unreported(z)' <=> Unreported(z)
       /\ Unreported(x)'
  <2>1. ASSUME NEW z \in Created, Unreported(z)' PROVE Unreported(z)
    <3>1. Latest(z) /\ Cell(z) # c /\ (jobs'[Cell(z)] > 0 \/ Climbed(z))
      BY <1>11, <1>17, <2>1 DEF Unreported, Cell
    <3>2. z = p => Unreported(z)
      BY <1>13
    <3> QED
      BY <1>25, <3>1, <3>2 DEF Unreported
  <2>2. ASSUME NEW z \in Created, Unreported(z) PROVE Unreported(z)'
    <3>1. Latest(z) /\ Cell(z) # c /\ (jobs[Cell(z)] > 0 \/ Climbed(z))
      BY <1>12, <2>2 DEF Unreported
    <3>2. jobs[Cell(z)] > 0 => jobs'[Cell(z)] > 0
      <4>1. Cell(z) \in Cells /\ jobs[Cell(z)] \in Nat
        BY NotATask, TaskFields DEF IInv, Typed
      <4> QED
        BY <1>25, <3>1, <4>1
    <3> QED
      BY <1>11, <1>17, <3>1, <3>2 DEF Unreported, Cell
  <2>3. Unreported(x)'
    <3>1. jobs'[Cell(x)] > 0
      BY <1>4, <1>24
    <3> QED
      BY <1>11, <3>1 DEF Unreported, Cell
  <2> QED
    BY <2>1, <2>2, <2>3
<1>27. /\ parent' \in [Cells -> Created' \cup {None}] /\ parent'[c] = p
       /\ \A d \in Cells : d # c => parent'[d] = parent[d]
       /\ \A d \in Cells : parent[d] \in Created \cup {None}
  BY <1>7, <1>8, <1>9 DEF IInv, Typed
<1>28. /\ \A z \in Created : UnreportedChildren(z)' =
            IF z = p THEN UnreportedChildren(z) \cup {x} ELSE UnreportedChildren(z)
       /\ UnreportedChildren(x)' = {}
  <2>1. \A y \in Created : Unreported(y) => parent'[Cell(y)] = parent[Cell(y)]
    BY <1>12, <1>27, NotATask, TaskFields
  <2>2. parent'[Cell(x)] = p
    BY <1>4, <1>27
  <2>3. \A y \in Created : parent[Cell(y)] # x
    BY <1>5, <1>27, NotATask, TaskFields
  <2>4. p # x
    BY <1>5, <1>8
  <2>5. ASSUME NEW z
        PROVE  UnreportedChildren(z)' =
                 {y \in Created \cup {x} : parent'[Cell(y)] = z /\ Unreported(y)'}
    BY <1>9, UnreportedMeans
  <2>6. UnreportedChildren(x)' = {}
    BY <1>26, <2>1, <2>2, <2>3, <2>4, <2>5
  <2>7. ASSUME NEW z \in Created
        PROVE  UnreportedChildren(z)' =
                 IF z = p THEN UnreportedChildren(z) \cup {x} ELSE UnreportedChildren(z)
    <3>1. UnreportedChildren(z) = {y \in Created : parent[Cell(y)] = z /\ Unreported(y)}
      BY UnreportedMeans
    <3> QED
      BY <1>5, <1>26, <2>1, <2>2, <2>5, <3>1
  <2> QED
    BY <2>6, <2>7

\* the parts of the invariant
<1>29. Typed'
  <2>1. under' \subseteq Created' \X Created'
    BY <1>7, <1>9 DEF IInv, Typed
  <2> QED
    BY <1>6, <1>9, <1>10, <1>16, <1>24, <1>27, <2>1 DEF IInv, Typed
<1>30. StillThere'
  <2>1. ASSUME NEW z \in Created',
               Pending(z)' \/ (\E u \in Threads : At(u, "release", z)') \/ Climbed(z)'
        PROVE  Latest(z)'
    <3>1. CASE z = x
      BY <1>11, <3>1
    <3>2. CASE z \in Created
      <4>1. Pending(z) \/ (\E u \in Threads : At(u, "release", z)) \/ Climbed(z)
        BY <1>17, <1>22, <2>1, <3>2
      <4> QED
        BY <1>11, <1>12, <3>2, <4>1 DEF IInv, StillThere
    <3> QED
      BY <1>9, <3>1, <3>2
  <2>2. ASSUME NEW u \in Threads, NEW k \in DOMAIN stack'[u], NEW z \in stack'[u][k].kept
        PROVE  Latest(z)'
    <3>1. k \in DOMAIN stack[u] /\ stack'[u][k].kept = stack[u][k].kept
      BY <1>1, <1>14, <1>19, TopFrame
    <3>2. Latest(z) /\ Cell(z) # c /\ z \in Created
      BY <1>1, <1>12, <3>1 DEF IInv, StillThere, FramesOK, FrameOK
    <3> QED
      BY <1>11, <3>2
  <2>3. ASSUME NEW z \in Created', NEW q \in Created', Unreported(z)', parent'[Cell(z)] = q
        PROVE  Latest(q)'
    <3>1. CASE z = x
      <4>1. q = p /\ p \in Created
        BY <1>4, <1>5, <1>8, <1>9, <1>27, <2>3, <3>1, NotATask
      <4> QED
        BY <1>11, <1>13, <4>1
    <3>2. CASE z \in Created
      <4>1. Unreported(z) /\ Cell(z) # c /\ Cell(z) \in Cells
        BY <1>12, <1>26, <2>3, <3>2, NotATask, TaskFields
      <4>2. parent[Cell(z)] = q /\ q \in Created
        BY <1>5, <1>9, <1>27, <2>3, <4>1
      <4>3. Latest(q) /\ UnreportedChildren(q) # {}
        BY <3>2, <4>1, <4>2, UnreportedMeans DEF IInv, StillThere
      <4> QED
        BY <1>11, <1>12, <4>2, <4>3
    <3> QED
      BY <1>9, <3>1, <3>2
  <2> QED
    BY <2>1, <2>2, <2>3, Zenon DEF StillThere, Cell
<1>31. OneClimber'
  <2> SUFFICES ASSUME NEW z \in Created', NEW u \in Threads, At(u, "climb", z)'
               PROVE  /\ jobs'[Cell(z)] = 0
                      /\ \A v \in Threads : At(v, "climb", z)' => v = u
    BY DEF OneClimber, Cell
  <2>1. At(u, "climb", z) /\ z \in Created
    BY <1>9, <1>17, <1>18
  <2>2. Climbed(z) /\ jobs[Cell(z)] = 0 /\ \A v \in Threads : At(v, "climb", z) => v = u
    BY <2>1 DEF IInv, OneClimber, Climbed
  <2>3. Latest(z) /\ Cell(z) # c
    BY <1>12, <2>1, <2>2 DEF IInv, StillThere
  <2>4. z # p
    BY <1>13, <2>1, <2>2
  <2> QED
    BY <1>17, <1>25, <2>1, <2>2, <2>3, <2>4
<1>32. ASSUME NEW z \in Created, Latest(z)'
       PROVE  jobs'[Cell(z)] = (IF Pending(z)' THEN 1 ELSE 0) + Owed(z)'
                               + Cardinality(UnreportedChildren(z)')
  <2> DEFINE U == UnreportedChildren(z)
  <2>1. Latest(z) /\ Cell(z) # c
    BY <1>11, <1>32
  <2>2. jobs[Cell(z)] = (IF Pending(z) THEN 1 ELSE 0) + Owed(z) + Cardinality(U)
    BY <2>1 DEF IInv, JobsAccounted
  <2>3. IsFiniteSet(U) /\ Cardinality(U) \in Nat /\ x \notin U
    <3>1. U \in SUBSET TaskIds
      BY NotATask DEF UnreportedChildren
    <3>2. x \notin U
      BY <1>5 DEF UnreportedChildren
    <3> QED
      BY <3>1, <3>2, FiniteParts
  <2>4. Owed(z)' = Owed(z) /\ Owed(z) \in Nat
    <3>1. {u \in Threads : At(u, "release", z)} \in SUBSET Threads
      OBVIOUS
    <3> QED
      BY <1>17, <3>1, OwedSame, OwedMeans, FiniteParts
  <2>5. Pending(z)' <=> Pending(z)
    BY <1>22
  <2>6. CASE z = p
    <3>1. jobs'[Cell(z)] = jobs[Cell(z)] + 1
      BY <1>25, <2>1, <2>6
    <3>2. UnreportedChildren(z)' = U \cup {x}
      BY <1>28, <2>6
    <3> HIDE DEF U
    <3>3. Cardinality(U \cup {x}) = Cardinality(U) + 1
      BY <2>3, FS_AddElement
    <3> QED
      BY <2>2, <2>3, <2>4, <2>5, <3>1, <3>2, <3>3
  <2>7. CASE z # p
    <3>1. jobs'[Cell(z)] = jobs[Cell(z)]
      BY <1>25, <2>1, <2>7
    <3>2. UnreportedChildren(z)' = U
      BY <1>28, <2>7
    <3> QED
      BY <2>2, <2>4, <2>5, <3>1, <3>2
  <2> QED
    BY <2>6, <2>7
<1>33. jobs'[Cell(x)] = (IF Pending(x)' THEN 1 ELSE 0) + Owed(x)'
                        + Cardinality(UnreportedChildren(x)')
  <2>1. Owed(x)' = 0
    <3>1. {u \in Threads : At(u, "release", x)'} = {}
      BY <1>17, <1>18
    <3> QED
      BY <3>1, OwedMeans, FS_EmptySet
  <2>2. Cardinality(UnreportedChildren(x)') = 0
    BY <1>28, FS_EmptySet
  <2> QED
    BY <1>4, <1>21, <1>24, <2>1, <2>2
<1>34. JobsAccounted'
  BY <1>9, <1>32, <1>33 DEF JobsAccounted, Cell
<1>35. ChildBetween'
  <2> SUFFICES ASSUME NEW d \in Created', NEW a \in Created', <<d, a>> \in under', d # a,
                      Unreported(d)'
               PROVE  \E y \in UnreportedChildren(a)' : <<d, y>> \in under'
    BY DEF ChildBetween
  <2>1. CASE <<d, a>> \in under
    <3>1. d \in Created /\ a \in Created
      BY <2>1 DEF IInv, Typed
    <3>2. Unreported(d)
      BY <1>26, <3>1
    <3>3. PICK y \in UnreportedChildren(a) : <<d, y>> \in under
      BY <2>1, <3>1, <3>2 DEF IInv, ChildBetween
    <3>4. y \in UnreportedChildren(a)' /\ <<d, y>> \in under'
      BY <1>7, <1>28, <3>1, <3>3
    <3> QED
      BY <3>4
  <2>2. CASE <<d, a>> \notin under
    <3>1. PICK b \in under : b[1] = p /\ d = x /\ a = b[2]
      BY <1>7, <2>2
    <3>2. b[1] \in Created /\ b[2] \in Created /\ <<p, a>> \in under /\ p \in Created
      <4>1. b \in Created \X Created
        BY <3>1 DEF IInv, Typed
      <4>2. b = <<b[1], b[2]>> /\ b[1] \in Created /\ b[2] \in Created
        BY <4>1
      <4> QED
        BY <3>1, <4>2
    <3>3. CASE a = p
      <4>1. x \in UnreportedChildren(a)' /\ <<x, x>> \in under'
        BY <1>7, <1>28, <3>2, <3>3
      <4> QED
        BY <3>1, <4>1
    <3>4. CASE a # p
      <4>1. PICK y \in UnreportedChildren(a) : <<p, y>> \in under
        BY <1>13, <3>1, <3>2, <3>4 DEF IInv, ChildBetween
      <4>2. y \in UnreportedChildren(a)'
        BY <1>28, <3>1, <3>2, <4>1
      <4>3. <<x, y>> \in under'
        BY <1>7, <4>1
      <4> QED
        BY <3>1, <4>2, <4>3
    <3> QED
      BY <3>3, <3>4
  <2> QED
    BY <2>1, <2>2
<1> QED
  BY <1>16, <1>23, <1>29, <1>30, <1>31, <1>34, <1>35 DEF IInv

-----------------------------------------------------------------------------
(***************************************************************************)
(* The invariant.                                                          *)
(***************************************************************************)

LEMMA InitInv ==
    ASSUME Init
    PROVE  IInv
<1>1. Created = {}
  BY DEF Init, Created, TaskIds
<1>2. \A t \in Threads : /\ stack[t] = <<Frame(None, IF t = Main THEN "body" ELSE "loop")>>
                         /\ stack[t] \in Seq(FrameType) /\ stack[t] # <<>>
                         /\ DOMAIN stack[t] = {1} /\ Len(stack[t]) = 1
                         /\ stack[t][1].task = None /\ stack[t][1].it = None
                         /\ stack[t][1].fresh = None /\ stack[t][1].kept = {}
                         /\ stack[t][1].pc \in {"body", "loop"}
  <2> SUFFICES ASSUME NEW t \in Threads
               PROVE  /\ stack[t] = <<Frame(None, IF t = Main THEN "body" ELSE "loop")>>
                      /\ stack[t] \in Seq(FrameType) /\ stack[t] # <<>>
                      /\ DOMAIN stack[t] = {1} /\ Len(stack[t]) = 1
                      /\ stack[t][1].task = None /\ stack[t][1].it = None
                      /\ stack[t][1].fresh = None /\ stack[t][1].kept = {}
                      /\ stack[t][1].pc \in {"body", "loop"}
    OBVIOUS
  <2>1. PICK p \in {"body", "loop"} : stack[t] = <<Frame(None, p)>>
                                      /\ p = IF t = Main THEN "body" ELSE "loop"
    BY DEF Init
  <2>2. PICK f \in FrameType : /\ f = Frame(None, p) /\ f.task = None /\ f.pc = p
                               /\ f.it = None /\ f.fresh = None /\ f.kept = {}
    BY NewFrame DEF Places
  <2>3. stack[t] = <<f>> /\ f.pc \in {"body", "loop"}
    BY <2>1, <2>2
  <2>4. <<f>> \in Seq(FrameType) /\ <<f>> # <<>> /\ DOMAIN <<f>> = {1} /\ Len(<<f>>) = 1
        /\ <<f>>[1] = f
    OBVIOUS
  <2> QED
    BY <2>1, <2>2, <2>3, <2>4
<1>3. stack \in [Threads -> Seq(FrameType)]
  <2>1. stack = [t \in Threads |-> stack[t]]
    BY DEF Init
  <2> QED
    BY <1>2, <2>1
<1>4. Typed
  <2>1. /\ m_allocated = [t \in Threads |-> 0] /\ parent = [c \in Cells |-> None]
        /\ jobs = [c \in Cells |-> 0] /\ queued = {} /\ done = {} /\ under = {}
    BY DEF Init
  <2> QED
    BY <1>1, <1>3, <2>1, MaxTasksAssumption DEF Typed
<1>5. FramesOK
  BY <1>2 DEF FramesOK, FrameOK
<1>6. \A t \in Threads : \A k \in DOMAIN stack[t] : stack[t][k].kept = {}
  BY <1>2
<1>7. HeldOnce /\ DoneOrPending /\ StillThere /\ OneClimber /\ JobsAccounted /\ ChildBetween
  BY <1>1, <1>6 DEF HeldOnce, DoneOrPending, StillThere, OneClimber, JobsAccounted, ChildBetween
<1> QED
  BY <1>4, <1>5, <1>7 DEF IInv

LEMMA UnchangedKeeps ==
    ASSUME IInv, UNCHANGED vars
    PROVE  IInv'
<1>1. Created' = Created /\ UNCHANGED <<m_allocated, parent, jobs, done, under>>
  BY DEF vars, Created
<1>2. Typed'
  BY <1>1 DEF vars, IInv, Typed
<1>3. FramesOK'
  BY <1>1 DEF vars, IInv, FramesOK, FrameOK
<1>4. HeldOnce'
  BY <1>1 DEF vars, IInv, HeldOnce, OneHolder
<1>5. \A x \in Created : Pending(x)' <=> Pending(x)
  BY DEF vars, Pending, Frames
<1>6. \A t \in Threads, x \in Created :
        /\ At(t, "release", x)' <=> At(t, "release", x)
        /\ At(t, "climb", x)' <=> At(t, "climb", x)
  BY DEF vars, At
<1>7. \A t \in Threads : \A k \in DOMAIN stack'[t] :
        \A x \in stack'[t][k].kept : Latest(x)
  BY DEF vars, IInv, StillThere
<1>8. DoneOrPending' /\ StillThere' /\ OneClimber' /\ JobsAccounted' /\ ChildBetween'
  BY <1>1, <1>5, <1>6, <1>7, QuietStep DEF IInv
<1> QED
  BY <1>2, <1>3, <1>4, <1>8 DEF IInv

LEMMA InvHolds ==
    ASSUME Quiesced
    PROVE  Spec => []IInv
<1>1. Init => IInv
  BY InitInv
<1>2. IInv /\ [Next]_vars => IInv'
  <2> SUFFICES ASSUME IInv, [Next]_vars PROVE IInv'
    OBVIOUS
  <2>1. CASE UNCHANGED vars
    BY <2>1, UnchangedKeeps
  <2>2. ASSUME NEW t \in Threads, ThreadStep(t) PROVE IInv'
    <3>1. CASE CreateTask(t)
      BY <3>1, CreateTaskKeeps
    <3>2. CASE PushTask(t)
      BY <3>2, PushTaskKeeps
    <3>3. CASE RunTask(t)
      BY <3>3, RunTaskKeeps
    <3>4. CASE Wait(t)
      BY <3>4, WaitKeeps
    <3>5. CASE WaitReturn(t)
      BY <3>5, WaitReturnKeeps
    <3>6. CASE ExecuteOneTask(t)
      BY <3>6, ExecuteOneTaskKeeps
    <3>7. CASE FinishBody(t)
      BY <3>7, FinishBodyKeeps
    <3>8. CASE ReleaseJob(t)
      BY <3>8, ReleaseJobKeeps
    <3>9. CASE ReadParent(t)
      BY <3>9, ReadParentKeeps
    <3> QED
      BY <2>2, <3>1, <3>2, <3>3, <3>4, <3>5, <3>6, <3>7, <3>8, <3>9 DEF ThreadStep
  <2>3. CASE Finished
    BY <2>3, UnchangedKeeps DEF Finished
  <2> QED
    BY <2>1, <2>2, <2>3 DEF Next
<1> QED
  BY <1>1, <1>2, PTL DEF Spec

\* The counter of every task whose cell is still its own is what is owed to
\* it: one for its body until it has been released, one for each child that
\* has not reported, one for each thread about to take a job off.  It is
\* never decremented more often than incremented (VERIFY2 in
\* Task::operator()).
THEOREM TreeInvHolds ==
    ASSUME Quiesced
    PROVE  Spec => []TreeInv
<1>1. IInv => TreeInv
  <2> SUFFICES ASSUME IInv PROVE TreeInv
    OBVIOUS
  <2>1. ASSUME NEW g \in Frames
        PROVE  /\ g.task \in Created \cup {None}
               /\ g.it \in Created \cup {None}
               /\ g.pc \in {"loop", "body", "wait", "release", "climb"}
               /\ g.fresh \in Created \cup {None}
               /\ g.kept \subseteq Created
    <3>1. PICK t \in Threads : g \in ToSet(stack[t])
      BY DEF Frames
    <3>2. PICK k \in DOMAIN stack[t] : g = stack[t][k]
      BY <3>1 DEF ToSet
    <3>3. FrameOK(Created, g, k = 1, k = Len(stack[t]))
      BY <3>2 DEF IInv, FramesOK
    <3>4. g \in FrameType
      BY <3>2 DEF IInv, Typed
    <3> QED
      BY <3>3, <3>4 DEF FrameOK, FrameType, Places
  <2>2. TypeOK
    BY <2>1, NotATask DEF IInv, Typed, TypeOK
  <2>3. JobsNotNegative
    BY DEF IInv, Typed, JobsNotNegative
  <2> QED
    BY <2>2, <2>3 DEF TreeInv, IInv
<1> QED
  BY <1>1, InvHolds, PTL

\* Wait() returns when the body of the task and the bodies of all tasks that
\* were created under it, by whichever thread, have returned.
THEOREM WaitCoversSubtreeHolds ==
    ASSUME Quiesced
    PROVE  Spec => []WaitCoversSubtree
<1>1. IInv => WaitCoversSubtree
  <2> SUFFICES ASSUME IInv, NEW f \in Frames, f.pc = "wait", jobs[Cell(f.it)] = 0,
                      NEW b \in under, b[2] = f.it, b[1] \notin done
               PROVE  FALSE
    BY DEF WaitCoversSubtree
  <2> DEFINE a == b[2]
             d == b[1]
  <2>1. d \in Created /\ a \in Created /\ <<d, a>> \in under
    <3>1. b \in Created \X Created
      BY DEF IInv, Typed
    <3>2. b = <<b[1], b[2]>> /\ b[1] \in Created /\ b[2] \in Created
      BY <3>1
    <3> QED
      BY <3>2
  <2>2. Latest(a)
    <3>1. PICK t \in Threads : f \in ToSet(stack[t])
      BY DEF Frames
    <3>2. PICK k \in DOMAIN stack[t] : f = stack[t][k]
      BY <3>1 DEF ToSet
    <3> QED
      BY <3>2 DEF IInv, FramesOK, FrameOK, StillThere
  <2> HIDE DEF a, d
  <2>3. jobs[Cell(a)] = 0 /\ d \notin done
    BY DEF a, d
  <2>4. Pending(d) /\ jobs[Cell(d)] > 0 /\ Unreported(d)
    BY <2>1, <2>3, JobOwed DEF IInv, DoneOrPending
  <2>5. d # a
    BY <2>3, <2>4
  <2>6. UnreportedChildren(a) # {}
    BY <2>1, <2>4, <2>5 DEF IInv, ChildBetween
  <2> QED
    BY <2>1, <2>2, <2>3, <2>6, JobOwed DEF IInv
<1> QED
  BY <1>1, InvHolds, PTL

=============================================================================
