-------------------------- MODULE WorkerPoolProofs --------------------------
(***************************************************************************)
(* Whatever the number of workers and tasks, the count, the vector and the *)
(* lock of the pool agree with what the threads do; and as long as no body *)
(* waits while its thread is draining, nobody reads the vector of workers  *)
(* while a thread is erased from it.                                       *)
(***************************************************************************)
EXTENDS WorkerPool, SequenceFacts, FiniteSetTheorems

\* Bodies executed on the way out do not search, and while a thread is erased
\* whoever is counted has just started or is about to stop.
EraseAlone ==
    /\ \A t \in Threads : pc[t] = "scan" => Base(t) # "drain"
    /\ \A t, u \in Threads :
        pc[t] = "erase" /\ Counted(u) => pc[u] \in {"checkStop", "retire"}

-----------------------------------------------------------------------------
(***************************************************************************)
(* How a step moves one thread: Goto alone, Enter, or Leave.               *)
(***************************************************************************)
Elsewhere(t) ==
    \A u \in Threads \ {t} : pc'[u] = pc[u] /\ calls'[u] = calls[u]

\* Thread t goes to x, and below its bodies it is then at b.
Moves(t, x, b) ==
    /\ pc' \in [Threads -> PCs]
    /\ calls' \in [Threads -> Seq({"loop", "run", "drain", "exec"})]
    /\ CallsNest'
    /\ Elsewhere(t)
    /\ pc'[t] = x
    /\ Base(t)' = b

LEMMA GotoMoves ==
    ASSUME PoolInv, NEW t \in Threads, NEW x \in PCs \ {"scan", "exec"},
           pc[t] \notin {"scan", "exec"}, Goto(t, x), UNCHANGED calls
    PROVE  Base(t) = pc[t] /\ Moves(t, x, x)
<1>1. calls[t] = <<>> /\ pc' \in [Threads -> PCs]
  BY DEF PoolInv, TypeOK, CallsNest, Goto
<1>2. CallsNest'
  BY <1>1 DEF PoolInv, TypeOK, CallsNest, Goto
<1> QED
  BY <1>1, <1>2 DEF PoolInv, TypeOK, Goto, Moves, Elsewhere, Base

LEMMA EnterMoves ==
    ASSUME PoolInv, NEW t \in Threads, NEW x \in {"scan", "exec"},
           NEW c \in {"loop", "run", "drain"},
           pc[t] \notin {"scan", "exec"}, Goto(t, x), Enter(t, c)
    PROVE  Base(t) = pc[t] /\ Moves(t, x, c)
<1>1. calls[t] = <<>> /\ pc' \in [Threads -> PCs] /\ pc'[t] = x
  BY DEF PoolInv, TypeOK, CallsNest, Goto, PCs
<1>2. calls' = [calls EXCEPT ![t] = <<c>>]
  BY <1>1 DEF Enter, PoolInv, TypeOK
<1>3. calls' \in [Threads -> Seq({"loop", "run", "drain", "exec"})] /\ Elsewhere(t)
  BY <1>2 DEF PoolInv, TypeOK, Goto, Elsewhere
<1>4. calls'[t] = <<c>>
  BY <1>2 DEF PoolInv, TypeOK
<1>5. CallsNest'
  <2>1. \A k \in DOMAIN calls'[t] : k > 1 <=> calls'[t][k] = "exec"
    BY <1>4
  <2>2. calls'[t] # <<>>
    BY <1>4
  <2> QED
    BY <1>1, <1>3, <2>1, <2>2 DEF PoolInv, CallsNest, Elsewhere
<1>6. Base(t) = pc[t] /\ Base(t)' = c
  BY <1>1, <1>4 DEF Base
<1> QED
  BY <1>1, <1>3, <1>5, <1>6 DEF Moves

\* A body waits.
LEMMA NestMoves ==
    ASSUME PoolInv, NEW t \in Threads, pc[t] = "exec", Goto(t, "scan"), Enter(t, "exec")
    PROVE  Moves(t, "scan", Base(t))
<1>1. calls[t] # <<>> /\ pc' \in [Threads -> PCs] /\ pc'[t] = "scan"
  BY DEF PoolInv, TypeOK, CallsNest, Goto, PCs
<1> DEFINE s == calls[t]
           C == {"loop", "run", "drain", "exec"}
<1>2. s \in Seq(C) /\ Len(s) \in Nat /\ Len(s) > 0
  BY <1>1 DEF PoolInv, TypeOK
<1>3. calls' = [calls EXCEPT ![t] = Append(s, "exec")]
  BY DEF Enter
<1>4. Append(s, "exec") \in Seq(C) /\ calls'[t] = Append(s, "exec")
  BY <1>2, <1>3 DEF PoolInv, TypeOK
<1>5. calls' \in [Threads -> Seq(C)] /\ Elsewhere(t)
  BY <1>3, <1>4 DEF PoolInv, TypeOK, Goto, Elsewhere
<1>6. /\ calls'[t] # <<>> /\ calls'[t][1] = s[1]
      /\ DOMAIN calls'[t] = 1 .. Len(s) + 1
      /\ \A k \in 1 .. Len(s) : calls'[t][k] = s[k]
      /\ calls'[t][Len(s) + 1] = "exec"
  BY <1>2, <1>4
<1>7. \A k \in DOMAIN calls'[t] : k > 1 <=> calls'[t][k] = "exec"
  <2>1. \A k \in 1 .. Len(s) : k > 1 <=> s[k] = "exec"
    BY <1>2 DEF PoolInv, CallsNest
  <2> QED
    BY <2>1, <1>2, <1>6
<1>8. CallsNest'
  BY <1>1, <1>5, <1>6, <1>7 DEF PoolInv, CallsNest, Elsewhere
<1>9. Base(t)' = Base(t)
  BY <1>1, <1>6 DEF Base
<1> QED
  BY <1>1, <1>5, <1>8, <1>9 DEF Moves

LEMMA FrontOfSeq ==
    ASSUME NEW C, NEW s \in Seq(C), Len(s) > 1
    PROVE  /\ DOMAIN SubSeq(s, 1, Len(s) - 1) = 1 .. Len(s) - 1
           /\ \A k \in 1 .. Len(s) - 1 : SubSeq(s, 1, Len(s) - 1)[k] = s[k]
           /\ SubSeq(s, 1, Len(s) - 1) # <<>>
<1>1. Len(s) \in Nat /\ \A i \in 1 .. Len(s) - 1 : s[i] \in C
  OBVIOUS
<1> DEFINE n == Len(s)
           f == SubSeq(s, 1, n - 1)
<1>2. /\ f \in Seq(C)
      /\ Len(f) = IF 1 <= n - 1 THEN n - 1 - 1 + 1 ELSE 0
      /\ \A i \in 1 .. n - 1 - 1 + 1 : f[i] = s[1 + i - 1]
  <2> HIDE DEF n
  <2> QED
    BY <1>1, SubSeqProperties DEF n
<1> HIDE DEF f, n
<1>3. Len(f) = n - 1 /\ DOMAIN f = 1 .. n - 1 /\ f # <<>>
  BY <1>1, <1>2 DEF n
<1>4. \A k \in 1 .. n - 1 : f[k] = s[k]
  BY <1>1, <1>2 DEF n
<1> QED
  BY <1>3, <1>4 DEF f, n

\* A body returns, or a search finds nothing.
LEMMA LeaveMoves ==
    ASSUME PoolInv, NEW t \in Threads, NEW x \in PCs \ {"scan", "exec"},
           pc[t] \in {"scan", "exec"},
           Goto(t, IF Caller(t) = "loop" THEN x ELSE Caller(t)), Leave(t)
    PROVE  \/ Moves(t, "exec", Base(t))
           \/ Base(t) = "loop" /\ Moves(t, x, x)
           \/ Base(t) \in {"run", "drain"} /\ Moves(t, Base(t), Base(t))
<1> DEFINE s == calls[t]
           C == {"loop", "run", "drain", "exec"}
           n == Len(s)
<1>1. s \in Seq(C) /\ s # <<>> /\ n \in Nat /\ n > 0
  BY DEF PoolInv, TypeOK, CallsNest
<1>2. \A k \in 1 .. n : s[k] \in C /\ (k > 1 <=> s[k] = "exec")
  BY <1>1 DEF PoolInv, CallsNest
<1>3. calls' = [calls EXCEPT ![t] = SubSeq(s, 1, n - 1)]
  BY DEF Leave, Front
<1>4. SubSeq(s, 1, n - 1) \in Seq(C) /\ calls'[t] = SubSeq(s, 1, n - 1)
  BY <1>1, <1>3 DEF PoolInv, TypeOK
<1>5. calls' \in [Threads -> Seq(C)] /\ Elsewhere(t)
  BY <1>3, <1>4 DEF PoolInv, TypeOK, Goto, Elsewhere
<1>6. Base(t) = s[1] /\ Caller(t) = s[n]
  BY <1>1 DEF Base, Caller
<1>7. pc' \in [Threads -> PCs] /\ pc'[t] = IF s[n] = "loop" THEN x ELSE s[n]
  BY <1>1, <1>2, <1>6 DEF PoolInv, TypeOK, Goto, PCs
<1> HIDE DEF n, s
<1>8. CASE n = 1
  <2>1. calls'[t] = <<>>
    BY <1>1, <1>4, <1>8 DEF s, n
  <2>2. pc'[t] \notin {"scan", "exec"}
    BY <1>1, <1>2, <1>7, <1>8
  <2>3. CallsNest'
    BY <1>5, <2>1, <2>2 DEF PoolInv, CallsNest, Elsewhere
  <2>4. Base(t)' = pc'[t]
    BY <2>1 DEF Base
  <2> QED
    BY <1>1, <1>2, <1>5, <1>6, <1>7, <1>8, <2>3, <2>4 DEF Moves
<1>9. CASE n > 1
  <2>1. /\ DOMAIN calls'[t] = 1 .. n - 1
        /\ \A k \in 1 .. n - 1 : calls'[t][k] = s[k]
        /\ calls'[t] # <<>>
    BY <1>1, <1>4, <1>9, FrontOfSeq DEF s, n
  <2>2. pc'[t] = "exec"
    BY <1>1, <1>2, <1>7, <1>9
  <2>3. \A k \in DOMAIN calls'[t] : k > 1 <=> calls'[t][k] = "exec"
    <3> SUFFICES ASSUME NEW k \in 1 .. n - 1
                 PROVE  k > 1 <=> calls'[t][k] = "exec"
      BY <2>1
    <3>1. k \in 1 .. n
      BY <1>1
    <3> QED
      BY <1>2, <2>1, <3>1
  <2>4. CallsNest'
    <3>1. \A u \in Threads \ {t} :
            /\ calls'[u] = <<>> <=> pc'[u] \notin {"scan", "exec"}
            /\ \A k \in DOMAIN calls'[u] : k > 1 <=> calls'[u][k] = "exec"
      BY <1>5 DEF PoolInv, CallsNest, Elsewhere
    <3>2. calls'[t] = <<>> <=> pc'[t] \notin {"scan", "exec"}
      BY <2>1, <2>2
    <3> QED
      BY <2>3, <3>1, <3>2 DEF CallsNest
  <2>5. Base(t)' = Base(t)
    BY <1>1, <1>6, <1>9, <2>1 DEF Base
  <2> QED
    BY <1>5, <1>7, <2>2, <2>4, <2>5 DEF Moves
<1> QED
  BY <1>1, <1>8, <1>9

\* No thread moves.
LEMMA NobodyMoves ==
    ASSUME PoolInv, NEW t \in Threads, UNCHANGED <<pc, calls>>
    PROVE  Moves(t, pc[t], Base(t))
BY DEF PoolInv, TypeOK, CallsNest, Moves, Elsewhere, Base

\* A search finds a body.
LEMMA ScanMoves ==
    ASSUME PoolInv, NEW t \in Threads, pc[t] = "scan", Goto(t, "exec"), UNCHANGED calls
    PROVE  Moves(t, "exec", Base(t))
<1>1. pc' \in [Threads -> PCs] /\ calls[t] # <<>> /\ pc'[t] = "exec"
  BY DEF PoolInv, TypeOK, CallsNest, Goto, PCs
<1>2. CallsNest'
  BY <1>1 DEF PoolInv, TypeOK, CallsNest, Goto
<1> QED
  BY <1>1, <1>2 DEF PoolInv, TypeOK, Goto, Moves, Elsewhere, Base

-----------------------------------------------------------------------------
(***************************************************************************)
(* What a step has to say for itself to keep the invariant.                *)
(***************************************************************************)
LEMMA ThreadsFinite == IsFiniteSet(Threads) /\ IsFiniteSet(CountedThreads)
<1>1. IsFiniteSet(Workers \cup {Main})
  BY PoolAssumption, FS_AddElement
<1>2. Threads = Workers \cup {Main}
  BY DEF Threads
<1>3. CountedThreads \in SUBSET Threads
  BY DEF CountedThreads
<1> QED
  BY <1>1, <1>2, <1>3, FS_Subset

LEMMA OthersStay ==
    ASSUME NEW t \in Threads, Elsewhere(t), NEW u \in Threads \ {t}
    PROVE  /\ pc'[u] = pc[u]
           /\ Base(u)' = Base(u)
           /\ Counted(u)' <=> Counted(u)
           /\ Registered(u)' <=> Registered(u)
BY DEF Elsewhere, Base, Counted, Registered

\* Thread t may be at b while shouldStop has the value stop.
MayBe(t, b, stop) ==
    /\ t = Main => b \in Leaving \cup OwnerPlaces /\ (stop <=> b # "run")
    /\ t \in Workers => /\ b \notin OwnerPlaces
                        /\ b \in Leaving \cup {"retire", "exit"} => stop

LEMMA PlacesMove ==
    ASSUME PoolInv, NEW t \in Threads, NEW x, NEW b, Moves(t, x, b),
           UNCHANGED shouldStop, MayBe(t, b, shouldStop)
    PROVE  PlacesApart'
<1>1. \A u \in Threads \ {t} : Base(u)' = Base(u)
  BY OthersStay DEF Moves
<1>2. Base(t)' = b
  BY DEF Moves
<1> QED
  BY <1>1, <1>2 DEF PoolInv, PlacesApart, MayBe, Threads

LEMMA CountMove ==
    ASSUME PoolInv, NEW t \in Threads, NEW x, NEW b, Moves(t, x, b),
           activeWorkersCount' = activeWorkersCount
                + (IF b \in Searching THEN 1 ELSE 0)
                - (IF Base(t) \in Searching THEN 1 ELSE 0)
    PROVE  CountAgrees' /\ activeWorkersCount' \in Nat
<1>1. \A u \in Threads \ {t} : Counted(u)' <=> Counted(u)
  BY OthersStay DEF Moves
<1>2. Counted(t)' <=> b \in Searching
  BY DEF Moves, Counted
<1>3. /\ activeWorkersCount = Cardinality(CountedThreads)
      /\ t \in CountedThreads <=> Base(t) \in Searching
      /\ IsFiniteSet(CountedThreads) /\ Cardinality(CountedThreads) \in Nat
  BY ThreadsFinite, FS_CardinalityType DEF PoolInv, CountAgrees, CountedThreads, Counted
<1>4. CASE b \in Searching
  <2>1. CountedThreads' = CountedThreads \cup {t}
    BY <1>1, <1>2, <1>4 DEF CountedThreads
  <2>2. Cardinality(CountedThreads \cup {t}) =
            IF Base(t) \in Searching THEN Cardinality(CountedThreads)
                                      ELSE Cardinality(CountedThreads) + 1
    BY <1>3, FS_AddElement
  <2> QED
    BY <1>3, <1>4, <2>1, <2>2 DEF CountAgrees
<1>5. CASE b \notin Searching
  <2>1. CountedThreads' = CountedThreads \ {t}
    BY <1>1, <1>2, <1>5 DEF CountedThreads
  <2>2. /\ Cardinality(CountedThreads \ {t}) =
            Cardinality(CountedThreads) - (IF Base(t) \in Searching THEN 1 ELSE 0)
        /\ Cardinality(CountedThreads \ {t}) \in Nat
    BY <1>3, FS_RemoveElement, FS_CardinalityType
  <2> QED
    BY <1>3, <1>5, <2>1, <2>2 DEF CountAgrees
<1> QED
  BY <1>4, <1>5

\* What the invariant says of the flags and the queues is only their type.
DataTyped ==
    /\ shouldPause \in BOOLEAN /\ signaled \in BOOLEAN
    /\ queue \in [Threads -> Nat] /\ pushed \in Nat /\ toWake \in Nat

LEMMA DataKept ==
    ASSUME PoolInv, UNCHANGED <<shouldPause, signaled, queue, pushed, toWake>>
    PROVE  DataTyped'
BY DEF PoolInv, TypeOK, DataTyped

\* The move from pc[t] to x matters neither to the vector nor to the lock.
Alike(t, x) ==
    /\ x \in Away <=> pc[t] \in Away
    /\ x \in Unregistering <=> pc[t] \in Unregistering

LEMMA CountedMove ==
    ASSUME PoolInv, NEW t \in Threads, NEW x, NEW b, Moves(t, x, b), Alike(t, x),
           UNCHANGED <<workers, workersLock, shouldStop>>, DataTyped',
           MayBe(t, b, shouldStop),
           activeWorkersCount' = activeWorkersCount
                + (IF b \in Searching THEN 1 ELSE 0)
                - (IF Base(t) \in Searching THEN 1 ELSE 0)
    PROVE  PoolInv'
<1>1. PlacesApart'
  BY PlacesMove
<1>2. CountAgrees' /\ activeWorkersCount' \in Nat
  BY CountMove
<1>3. TypeOK'
  BY <1>2 DEF PoolInv, TypeOK, DataTyped, Moves
<1>4. CallsNest' /\ pc'[t] = x /\ \A u \in Threads \ {t} : pc'[u] = pc[u]
  BY DEF Moves, Elsewhere
<1>5. VectorAgrees'
  BY <1>4 DEF PoolInv, VectorAgrees, Registered, Alike
<1>6. LockAgrees'
  BY <1>4 DEF PoolInv, LockAgrees, Alike
<1> QED
  BY <1>1, <1>2, <1>3, <1>4, <1>5, <1>6 DEF PoolInv

LEMMA QuietMove ==
    ASSUME PoolInv, NEW t \in Threads, NEW x, NEW b, Moves(t, x, b), Alike(t, x),
           UNCHANGED <<workers, workersLock, activeWorkersCount, shouldStop>>,
           DataTyped', MayBe(t, b, shouldStop),
           b \in Searching <=> Base(t) \in Searching
    PROVE  PoolInv'
<1>1. activeWorkersCount \in Nat
  BY DEF PoolInv, TypeOK
<1>2. activeWorkersCount' = activeWorkersCount
        + (IF b \in Searching THEN 1 ELSE 0)
        - (IF Base(t) \in Searching THEN 1 ELSE 0)
  BY <1>1
<1> QED
  BY <1>2, CountedMove

LEMMA AlreadyThere ==
    ASSUME PoolInv, NEW t \in Threads
    PROVE  MayBe(t, Base(t), shouldStop)
BY DEF PoolInv, PlacesApart, MayBe, Threads

-----------------------------------------------------------------------------
(***************************************************************************)
(* Tasks.                                                                  *)
(***************************************************************************)
LEMMA PushTaskInv ==
    ASSUME PoolInv, NEW t \in Threads, PushTask(t)
    PROVE  PoolInv'
<1>1. Moves(t, pc[t], Base(t)) /\ MayBe(t, Base(t), shouldStop)
  BY NobodyMoves, AlreadyThere DEF PushTask
<1>2. DataTyped'
  BY DEF PushTask, PoolInv, TypeOK, DataTyped, flags
<1>3. Alike(t, pc[t])
  BY DEF Alike
<1> QED
  BY <1>1, <1>2, <1>3, QuietMove DEF PushTask, flags

LEMMA WaitInv ==
    ASSUME PoolInv, NEW t \in Threads, Wait(t)
    PROVE  PoolInv'
<1>1. MayBe(t, Base(t), shouldStop)
  BY AlreadyThere
<1>2. Moves(t, "scan", Base(t))
  <2>1. CASE pc[t] = "run"
    <3>1. Goto(t, "scan") /\ Enter(t, "run")
      BY <2>1 DEF Wait
    <3>2. Base(t) = "run" /\ Moves(t, "scan", "run")
      BY <2>1, <3>1, EnterMoves
    <3> QED
      BY <3>2
  <2>2. CASE pc[t] = "exec"
    <3>1. Goto(t, "scan") /\ Enter(t, "exec")
      BY <2>2 DEF Wait
    <3> QED
      BY <2>2, <3>1, NestMoves
  <2> QED
    BY <2>1, <2>2 DEF Wait
<1>3. DataTyped'
  BY DataKept DEF Wait, flags, tasks
<1>4. Alike(t, "scan")
  BY DEF Wait, Alike, Away, Unregistering
<1> QED
  BY <1>1, <1>2, <1>3, <1>4, QuietMove DEF Wait, flags

LEMMA ScanTakesInv ==
    ASSUME PoolInv, NEW t \in Threads, ScanTakes(t)
    PROVE  PoolInv'
<1>1. Moves(t, "exec", Base(t)) /\ MayBe(t, Base(t), shouldStop)
  BY ScanMoves, AlreadyThere DEF ScanTakes
<1>2. DataTyped'
  <2>1. \A u \in ToSet(workers) : u \in Threads
    BY DEF PoolInv, VectorAgrees
  <2>2. queue \in [Threads -> Nat] /\ signaled \in BOOLEAN
    BY DEF PoolInv, TypeOK
  <2>3. PICK u \in ToSet(workers) :
            /\ queue[u] > 0
            /\ queue' = [queue EXCEPT ![u] = @ - 1]
            /\ signaled' = signaled \/ signaled' = (signaled \/ queue[u] > 1)
    BY DEF ScanTakes
  <2>4. queue' \in [Threads -> Nat]
    BY <2>1, <2>2, <2>3
  <2>5. signaled' \in BOOLEAN
    BY <2>2, <2>3, Zenon
  <2> QED
    BY <2>4, <2>5 DEF ScanTakes, PoolInv, TypeOK, DataTyped, flags
<1>3. Alike(t, "exec")
  BY DEF ScanTakes, Alike, Away, Unregistering
<1> QED
  BY <1>1, <1>2, <1>3, QuietMove DEF ScanTakes, flags

\* A thread whose body or search ends is counted as before.
LEMMA ReturnInv ==
    ASSUME PoolInv, NEW t \in Threads, NEW x \in {"sleep", "checkStop"},
           pc[t] \in {"scan", "exec"},
           Goto(t, IF Caller(t) = "loop" THEN x ELSE Caller(t)), Leave(t),
           UNCHANGED <<workers, workersLock, flags, signaled, tasks, toWake>>
    PROVE  PoolInv'
<1> DEFINE kept == <<workers, workersLock, activeWorkersCount, shouldStop>>
<1>1. MayBe(t, Base(t), shouldStop) /\ UNCHANGED kept
  BY AlreadyThere DEF flags
<1>2. x \in PCs \ {"scan", "exec"}
  BY DEF PCs
<1>3. DataTyped'
  BY DataKept DEF flags, tasks
<1>4. \A y \in {"exec", "run", "drain", x} : Alike(t, y)
  BY DEF Alike, Away, Unregistering
<1>5. CASE Moves(t, "exec", Base(t))
  BY <1>1, <1>3, <1>4, <1>5, QuietMove
<1>6. CASE Base(t) = "loop" /\ Moves(t, x, x)
  <2>1. MayBe(t, x, shouldStop) /\ x \in Searching /\ Base(t) \in Searching
    BY <1>1, <1>6 DEF MayBe, Leaving, OwnerPlaces, Unregistering, Searching
  <2> QED
    BY <1>1, <1>3, <1>4, <1>6, <2>1, QuietMove
<1>7. CASE Base(t) \in {"run", "drain"} /\ Moves(t, Base(t), Base(t))
  BY <1>1, <1>3, <1>4, <1>7, QuietMove
<1> QED
  BY <1>2, <1>5, <1>6, <1>7, LeaveMoves

LEMMA ScanFailsInv ==
    ASSUME PoolInv, NEW t \in Threads, ScanFails(t)
    PROVE  PoolInv'
BY ReturnInv DEF ScanFails

LEMMA TaskDoneInv ==
    ASSUME PoolInv, NEW t \in Threads, TaskDone(t)
    PROVE  PoolInv'
BY ReturnInv DEF TaskDone

-----------------------------------------------------------------------------
(***************************************************************************)
(* The loop of a worker.                                                   *)
(***************************************************************************)
LEMMA RegisterInv ==
    ASSUME PoolInv, NEW t \in Threads, RegisterThisThreadAsWorker(t)
    PROVE  PoolInv'
<1>1. Base(t) = "register" /\ Moves(t, "activate", "activate")
  BY GotoMoves DEF RegisterThisThreadAsWorker, PCs
<1>2. PlacesApart'
  <2>1. MayBe(t, "activate", shouldStop)
    BY <1>1, AlreadyThere DEF MayBe, Leaving, Unregistering, OwnerPlaces
  <2> QED
    BY <1>1, <2>1, PlacesMove DEF RegisterThisThreadAsWorker, flags
<1>3. activeWorkersCount' = activeWorkersCount /\ activeWorkersCount \in Nat
  BY DEF RegisterThisThreadAsWorker, flags, PoolInv, TypeOK
<1>4. CountAgrees'
  <2>1. Base(t) \notin Searching /\ "activate" \notin Searching
    BY <1>1 DEF Searching
  <2> QED
    BY <1>1, <1>3, <2>1, CountMove
<1>5. TypeOK'
  BY <1>1 DEF RegisterThisThreadAsWorker, PoolInv, TypeOK, flags, tasks, Moves
<1>6. CallsNest' /\ pc'[t] = "activate" /\ \A u \in Threads \ {t} : pc'[u] = pc[u]
  BY <1>1 DEF Moves, Elsewhere
<1>7. VectorAgrees'
  <2>1. t \notin ToSet(workers)
    BY DEF RegisterThisThreadAsWorker, PoolInv, VectorAgrees, Registered, Away
  <2>2. ToSet(workers') = ToSet(workers) \cup {t} /\ IsInjective(workers')
    BY <2>1, AppendToSet DEF RegisterThisThreadAsWorker, PoolInv, TypeOK, VectorAgrees
  <2>3. {u \in Threads : Registered(u)}' = {u \in Threads : Registered(u)} \cup {t}
    BY <1>6 DEF Registered, Away
  <2> QED
    BY <2>2, <2>3 DEF PoolInv, VectorAgrees
<1>8. LockAgrees'
  BY <1>6 DEF RegisterThisThreadAsWorker, PoolInv, LockAgrees, Unregistering
<1> QED
  BY <1>2, <1>4, <1>5, <1>6, <1>7, <1>8 DEF PoolInv

LEMMA ActivateInv ==
    ASSUME PoolInv, NEW t \in Threads, Activate(t)
    PROVE  PoolInv'
<1> USE DEF Activate, SetThreadStatus
<1>1. Base(t) = "activate" /\ Moves(t, "checkStop", "checkStop")
  BY GotoMoves DEF PCs
<1>2. MayBe(t, "checkStop", shouldStop) /\ Alike(t, "checkStop")
  BY <1>1, AlreadyThere
      DEF MayBe, Leaving, OwnerPlaces, Alike, Away, Unregistering
<1>3. Base(t) \notin Searching /\ "checkStop" \in Searching
  BY <1>1 DEF Searching
<1>4. activeWorkersCount' = activeWorkersCount + 1 - 0 /\ DataTyped'
  BY DataKept DEF PoolInv, TypeOK, tasks
<1> QED
  BY <1>1, <1>2, <1>3, <1>4, CountedMove

LEMMA FallAsleepInv ==
    ASSUME PoolInv, NEW t \in Threads, FallAsleep(t)
    PROVE  PoolInv'
<1> USE DEF FallAsleep, SetThreadStatus
<1>1. Base(t) = "sleep" /\ Moves(t, "asleep", "asleep")
  BY GotoMoves DEF PCs
<1>2. MayBe(t, "asleep", shouldStop) /\ Alike(t, "asleep")
  BY <1>1, AlreadyThere
      DEF MayBe, Leaving, OwnerPlaces, Alike, Away, Unregistering
<1>3. Base(t) \in Searching /\ "asleep" \notin Searching
  BY <1>1 DEF Searching
<1>4. activeWorkersCount' = activeWorkersCount + 0 - 1 /\ DataTyped'
  BY DataKept DEF PoolInv, TypeOK, tasks
<1> QED
  BY <1>1, <1>2, <1>3, <1>4, CountedMove

LEMMA RetireInv ==
    ASSUME PoolInv, NEW t \in Threads, Retire(t)
    PROVE  PoolInv'
<1> USE DEF Retire, SetThreadStatus
<1>1. Base(t) = "retire" /\ Moves(t, "drain", "drain")
  BY GotoMoves DEF PCs
<1>2. MayBe(t, "drain", shouldStop) /\ Alike(t, "drain")
  BY <1>1, AlreadyThere
      DEF MayBe, Leaving, OwnerPlaces, Alike, Away, Unregistering
<1>3. Base(t) \in Searching /\ "drain" \notin Searching
  BY <1>1 DEF Searching
<1>4. activeWorkersCount' = activeWorkersCount + 0 - 1 /\ DataTyped'
  BY DataKept DEF PoolInv, TypeOK, tasks
<1> QED
  BY <1>1, <1>2, <1>3, <1>4, CountedMove

\* A thread between two bodies goes from one place to another, and is counted,
\* registered and in the lock as before.
LEMMA PlainMove ==
    ASSUME PoolInv, NEW t \in Threads, NEW x \in PCs \ {"scan", "exec"},
           pc[t] \notin {"scan", "exec"}, Goto(t, x), Alike(t, x),
           x \in Searching <=> pc[t] \in Searching, MayBe(t, x, shouldStop),
           UNCHANGED <<workers, workersLock, activeWorkersCount, shouldStop, calls>>,
           DataTyped'
    PROVE  PoolInv'
<1>1. Base(t) = pc[t] /\ Moves(t, x, x)
  BY GotoMoves
<1> QED
  BY <1>1, QuietMove

LEMMA CheckStopInv ==
    ASSUME PoolInv, NEW t \in Threads, CheckStop(t)
    PROVE  PoolInv'
<1>1. calls[t] = <<>> /\ Base(t) = "checkStop"
  BY DEF CheckStop, PoolInv, CallsNest, Base
<1>2. MayBe(t, "checkPause", shouldStop) /\ (shouldStop => MayBe(t, "retire", shouldStop))
  BY <1>1, AlreadyThere DEF MayBe, Leaving, OwnerPlaces, Unregistering
<1>3. DataTyped'
  BY DataKept DEF CheckStop, flags, tasks
<1>4. \A x \in {"checkPause", "retire"} :
        Alike(t, x) /\ x \in PCs \ {"scan", "exec"} /\ x \in Searching
  BY DEF CheckStop, Alike, Away, Unregistering, PCs, Searching
<1>5. pc[t] \in Searching /\ pc[t] \notin {"scan", "exec"}
  BY DEF CheckStop, Searching
<1>6. UNCHANGED <<workers, workersLock, activeWorkersCount, shouldStop, calls>>
  BY DEF CheckStop, flags
<1>7. CASE shouldStop
  <2>1. Goto(t, "retire")
    BY <1>7 DEF CheckStop
  <2> QED
    BY <1>2, <1>3, <1>4, <1>5, <1>6, <1>7, <2>1, PlainMove
<1>8. CASE ~shouldStop
  <2>1. Goto(t, "checkPause")
    BY <1>8 DEF CheckStop
  <2> QED
    BY <1>2, <1>3, <1>4, <1>5, <1>6, <2>1, PlainMove
<1> QED
  BY <1>7, <1>8

LEMMA CheckPauseInv ==
    ASSUME PoolInv, NEW t \in Threads, CheckPause(t)
    PROVE  PoolInv'
<1>1. calls[t] = <<>> /\ Base(t) = "checkPause"
  BY DEF CheckPause, PoolInv, CallsNest, Base
<1>2. MayBe(t, "sleep", shouldStop) /\ MayBe(t, "loop", shouldStop)
  BY <1>1, AlreadyThere DEF MayBe, Leaving, OwnerPlaces, Unregistering
<1>3. DataTyped'
  BY DataKept DEF CheckPause, flags, tasks
<1>4. \A x \in {"scan", "sleep"} : Alike(t, x)
  BY DEF CheckPause, Alike, Away, Unregistering
<1>5. {"checkPause", "sleep", "loop"} \subseteq Searching /\ pc[t] = "checkPause"
  BY DEF CheckPause, Searching
<1>6. UNCHANGED <<workers, workersLock, activeWorkersCount, shouldStop>>
  BY DEF CheckPause, flags
<1>7. CASE Goto(t, "scan") /\ Enter(t, "loop")
  <2>1. Moves(t, "scan", "loop")
    BY <1>5, <1>7, EnterMoves
  <2> QED
    BY <1>1, <1>2, <1>3, <1>4, <1>5, <1>6, <2>1, QuietMove
<1>8. CASE Goto(t, "sleep") /\ UNCHANGED calls
  <2>1. "sleep" \in PCs \ {"scan", "exec"}
    BY DEF PCs
  <2> QED
    BY <1>2, <1>3, <1>4, <1>5, <1>6, <1>8, <2>1, PlainMove
<1> QED
  BY <1>7, <1>8 DEF CheckPause

LEMMA WakeInv ==
    ASSUME PoolInv, NEW t \in Threads, Wake(t)
    PROVE  PoolInv'
<1>1. calls[t] = <<>> /\ Base(t) = "asleep"
  BY DEF Wake, PoolInv, CallsNest, Base
<1>2. MayBe(t, "awake", shouldStop)
  BY <1>1, AlreadyThere DEF MayBe, Leaving, OwnerPlaces, Unregistering
<1>3. DataTyped'
  BY DEF Wake, flags, tasks, PoolInv, TypeOK, DataTyped
<1>4. Alike(t, "awake")
  BY DEF Wake, Alike, Away, Unregistering
<1>5. "awake" \in PCs \ {"scan", "exec"} /\ "awake" \notin Searching
  BY DEF PCs, Searching
<1>6. pc[t] \notin Searching \cup {"scan", "exec"} /\ Goto(t, "awake")
  BY DEF Wake, Searching
<1>7. UNCHANGED <<workers, workersLock, activeWorkersCount, shouldStop, calls>>
  BY DEF Wake, flags
<1> QED
  BY <1>2, <1>3, <1>4, <1>5, <1>6, <1>7, PlainMove

LEMMA CheckWakeInv ==
    ASSUME PoolInv, NEW t \in Threads, CheckWake(t)
    PROVE  PoolInv'
<1>1. calls[t] = <<>> /\ Base(t) = "awake"
  BY DEF CheckWake, PoolInv, CallsNest, Base
<1>2. PICK x \in {"asleep", "activate"} : Goto(t, x)
  BY DEF CheckWake
<1>3. MayBe(t, x, shouldStop)
  BY <1>1, AlreadyThere DEF MayBe, Leaving, OwnerPlaces, Unregistering
<1>4. DataTyped'
  BY DataKept DEF CheckWake, flags, tasks
<1>5. Alike(t, x)
  BY DEF CheckWake, Alike, Away, Unregistering
<1>6. x \in PCs \ {"scan", "exec"} /\ x \notin Searching
  BY DEF PCs, Searching
<1>7. pc[t] \notin Searching \cup {"scan", "exec"}
  BY DEF CheckWake, Searching
<1>8. UNCHANGED <<workers, workersLock, activeWorkersCount, shouldStop, calls>>
  BY DEF CheckWake, flags
<1> QED
  BY <1>2, <1>3, <1>4, <1>5, <1>6, <1>7, <1>8, PlainMove

-----------------------------------------------------------------------------
(***************************************************************************)
(* Leaving.                                                                *)
(***************************************************************************)
LEMMA DrainTakesInv ==
    ASSUME PoolInv, NEW t \in Threads, DrainTakes(t)
    PROVE  PoolInv'
<1>1. Base(t) = "drain" /\ Moves(t, "exec", "drain") /\ MayBe(t, "drain", shouldStop)
  <2>1. Base(t) = pc[t] /\ pc[t] = "drain" /\ Moves(t, "exec", "drain")
    BY EnterMoves DEF DrainTakes
  <2> QED
    BY <2>1, AlreadyThere
<1>2. DataTyped'
  BY DEF DrainTakes, PoolInv, TypeOK, DataTyped, flags
<1>3. Alike(t, "exec")
  BY DEF DrainTakes, Alike, Away, Unregistering
<1> QED
  BY <1>1, <1>2, <1>3, QuietMove DEF DrainTakes, flags

LEMMA DrainEndsInv ==
    ASSUME PoolInv, NEW t \in Threads, DrainEnds(t)
    PROVE  PoolInv'
<1>1. calls[t] = <<>> /\ Base(t) = "drain"
  BY DEF DrainEnds, PoolInv, CallsNest, Base
<1>2. MayBe(t, "lock", shouldStop)
  BY <1>1, AlreadyThere DEF MayBe, Leaving, OwnerPlaces, Unregistering
<1>3. DataTyped'
  BY DataKept DEF DrainEnds, flags, tasks
<1>4. Alike(t, "lock")
  BY DEF DrainEnds, Alike, Away, Unregistering
<1>5. "lock" \in PCs \ {"scan", "exec"} /\ "lock" \notin Searching
  BY DEF PCs, Searching
<1>6. pc[t] \notin Searching \cup {"scan", "exec"} /\ Goto(t, "lock")
  BY DEF DrainEnds, Searching
<1>7. UNCHANGED <<workers, workersLock, activeWorkersCount, shouldStop, calls>>
  BY DEF DrainEnds, flags
<1> QED
  BY <1>2, <1>3, <1>4, <1>5, <1>6, <1>7, PlainMove

LEMMA SeeIdleInv ==
    ASSUME PoolInv, NEW t \in Threads, SeeIdle(t)
    PROVE  PoolInv'
<1>1. calls[t] = <<>> /\ Base(t) = "awaitIdle"
  BY DEF SeeIdle, PoolInv, CallsNest, Base
<1>2. MayBe(t, "erase", shouldStop)
  BY <1>1, AlreadyThere DEF MayBe, Leaving, OwnerPlaces, Unregistering
<1>3. DataTyped'
  BY DataKept DEF SeeIdle, flags, tasks
<1>4. Alike(t, "erase")
  BY DEF SeeIdle, Alike, Away, Unregistering
<1>5. "erase" \in PCs \ {"scan", "exec"} /\ "erase" \notin Searching
  BY DEF PCs, Searching
<1>6. pc[t] \notin Searching \cup {"scan", "exec"} /\ Goto(t, "erase")
  BY DEF SeeIdle, Searching
<1>7. UNCHANGED <<workers, workersLock, activeWorkersCount, shouldStop, calls>>
  BY DEF SeeIdle, flags
<1> QED
  BY <1>2, <1>3, <1>4, <1>5, <1>6, <1>7, PlainMove

\* The steps that change the vector or the lock keep the other parts.
LEMMA OtherParts ==
    ASSUME PoolInv, NEW t \in Threads, NEW x \in PCs \ {"scan", "exec"},
           pc[t] \notin {"scan", "exec"}, Goto(t, x),
           x \in Searching <=> pc[t] \in Searching, MayBe(t, x, shouldStop),
           UNCHANGED <<activeWorkersCount, shouldStop, calls>>, DataTyped',
           workers' \in Seq(Threads), workersLock' \in Threads \cup {None}
    PROVE  /\ TypeOK' /\ CallsNest' /\ PlacesApart' /\ CountAgrees'
           /\ pc'[t] = x /\ \A u \in Threads \ {t} : pc'[u] = pc[u]
<1>1. Base(t) = pc[t] /\ Moves(t, x, x)
  BY GotoMoves
<1>2. CallsNest' /\ pc'[t] = x /\ \A u \in Threads \ {t} : pc'[u] = pc[u]
  BY <1>1 DEF Moves, Elsewhere
<1>3. PlacesApart'
  BY <1>1, PlacesMove
<1>4. activeWorkersCount \in Nat
  BY DEF PoolInv, TypeOK
<1>5. activeWorkersCount' = activeWorkersCount
        + (IF x \in Searching THEN 1 ELSE 0)
        - (IF Base(t) \in Searching THEN 1 ELSE 0)
  BY <1>1, <1>4
<1>6. CountAgrees'
  BY <1>1, <1>5, CountMove
<1>7. TypeOK'
  BY <1>1, <1>4 DEF PoolInv, TypeOK, DataTyped, Moves
<1> QED
  BY <1>2, <1>3, <1>6, <1>7

LEMMA LockWorkersInv ==
    ASSUME PoolInv, NEW t \in Threads, LockWorkers(t)
    PROVE  PoolInv'
<1>1. calls[t] = <<>> /\ Base(t) = "lock"
  BY DEF LockWorkers, PoolInv, CallsNest, Base
<1>2. MayBe(t, "awaitIdle", shouldStop)
  BY <1>1, AlreadyThere DEF MayBe, Leaving, OwnerPlaces, Unregistering
<1>3. DataTyped' /\ workers' \in Seq(Threads) /\ workersLock' \in Threads \cup {None}
  BY DEF LockWorkers, tasks, PoolInv, TypeOK, DataTyped
<1>4. "awaitIdle" \in PCs \ {"scan", "exec"} /\ "awaitIdle" \notin Searching
  BY DEF PCs, Searching
<1>5. pc[t] \notin Searching \cup {"scan", "exec"} /\ Goto(t, "awaitIdle")
  BY DEF LockWorkers, Searching
<1>6. UNCHANGED <<activeWorkersCount, shouldStop, calls>>
  BY DEF LockWorkers
<1>7. /\ TypeOK' /\ CallsNest' /\ PlacesApart' /\ CountAgrees'
      /\ pc'[t] = "awaitIdle" /\ \A u \in Threads \ {t} : pc'[u] = pc[u]
  BY <1>2, <1>3, <1>4, <1>5, <1>6, OtherParts
<1>8. VectorAgrees'
  BY <1>7 DEF LockWorkers, PoolInv, VectorAgrees, Registered, Away
<1>9. LockAgrees'
  <2>1. \A u \in Threads : pc[u] \notin Unregistering
    BY PoolAssumption DEF LockWorkers, PoolInv, LockAgrees
  <2> QED
    BY <1>7, <2>1 DEF LockWorkers, LockAgrees, Unregistering
<1> QED
  BY <1>7, <1>8, <1>9 DEF PoolInv

LEMMA EraseWorkerInv ==
    ASSUME PoolInv, NEW t \in Threads, EraseWorker(t)
    PROVE  PoolInv'
<1>1. calls[t] = <<>> /\ Base(t) = "erase"
  BY DEF EraseWorker, PoolInv, CallsNest, Base
<1>2. MayBe(t, "unpause", shouldStop)
  BY <1>1, AlreadyThere DEF MayBe, Leaving, OwnerPlaces, Unregistering
<1>3. workers \in Seq(Threads) /\ IsInjective(workers) /\ t \in ToSet(workers)
  BY DEF EraseWorker, PoolInv, TypeOK, VectorAgrees, Registered, Away
<1>4. /\ workers' \in Seq(Threads) /\ IsInjective(workers')
      /\ ToSet(workers') = ToSet(workers) \ {t}
  <2>1. PICK k \in DOMAIN workers : workers[k] = t /\ workers' = RemoveAt(workers, k)
    BY <1>3 DEF EraseWorker
  <2> QED
    BY <1>3, <2>1, RemoveAtToSet
<1>5. DataTyped' /\ workersLock' \in Threads \cup {None}
  BY DEF EraseWorker, flags, tasks, PoolInv, TypeOK, DataTyped
<1>6. "unpause" \in PCs \ {"scan", "exec"} /\ "unpause" \notin Searching
  BY DEF PCs, Searching
<1>7. pc[t] \notin Searching \cup {"scan", "exec"} /\ Goto(t, "unpause")
  BY DEF EraseWorker, Searching
<1>8. UNCHANGED <<activeWorkersCount, shouldStop, calls>>
  BY DEF EraseWorker, flags
<1>9. /\ TypeOK' /\ CallsNest' /\ PlacesApart' /\ CountAgrees'
      /\ pc'[t] = "unpause" /\ \A u \in Threads \ {t} : pc'[u] = pc[u]
  BY <1>2, <1>4, <1>5, <1>6, <1>7, <1>8, OtherParts
<1>10. VectorAgrees'
  <2>1. {u \in Threads : Registered(u)}' = {u \in Threads : Registered(u)} \ {t}
    BY <1>9 DEF Registered, Away
  <2> QED
    BY <1>4, <2>1 DEF PoolInv, VectorAgrees
<1>11. LockAgrees'
  BY <1>9 DEF EraseWorker, PoolInv, LockAgrees, Unregistering
<1> QED
  BY <1>9, <1>10, <1>11 DEF PoolInv

LEMMA UnlockWorkersInv ==
    ASSUME PoolInv, NEW t \in Threads, UnlockWorkers(t)
    PROVE  PoolInv'
<1> DEFINE x == IF t = Main THEN "awaitEmpty" ELSE "exit"
<1>1. calls[t] = <<>> /\ Base(t) = "unpause"
  BY DEF UnlockWorkers, PoolInv, CallsNest, Base
<1>2. MayBe(t, x, shouldStop)
  BY <1>1, AlreadyThere, PoolAssumption DEF MayBe, Leaving, OwnerPlaces, Unregistering
<1>3. DataTyped' /\ workers' \in Seq(Threads) /\ workersLock' \in Threads \cup {None}
  BY DEF UnlockWorkers, tasks, PoolInv, TypeOK, DataTyped
<1>4. x \in PCs \ {"scan", "exec"} /\ x \notin Searching
  BY DEF PCs, Searching
<1>5. pc[t] \notin Searching \cup {"scan", "exec"} /\ Goto(t, x)
  BY DEF UnlockWorkers, Searching
<1>6. UNCHANGED <<activeWorkersCount, shouldStop, calls>>
  BY DEF UnlockWorkers
<1>7. x \in Away /\ x \notin Unregistering
  BY DEF Away, Unregistering
<1> HIDE DEF x
<1>8. /\ TypeOK' /\ CallsNest' /\ PlacesApart' /\ CountAgrees'
      /\ pc'[t] = x /\ \A u \in Threads \ {t} : pc'[u] = pc[u]
  BY <1>2, <1>3, <1>4, <1>5, <1>6, OtherParts
<1>9. VectorAgrees'
  BY <1>7, <1>8 DEF UnlockWorkers, PoolInv, VectorAgrees, Registered, Away
<1>10. LockAgrees'
  <2>1. workersLock = t
    BY DEF UnlockWorkers, PoolInv, LockAgrees, Unregistering
  <2> QED
    BY <1>7, <1>8, <2>1, PoolAssumption DEF UnlockWorkers, PoolInv, LockAgrees
<1> QED
  BY <1>8, <1>9, <1>10 DEF PoolInv

-----------------------------------------------------------------------------
(***************************************************************************)
(* The owner.                                                              *)
(***************************************************************************)
LEMMA PauseInv ==
    ASSUME PoolInv, NEW pause \in BOOLEAN, Pause(pause)
    PROVE  PoolInv'
<1>1. Main \in Threads
  BY DEF Threads
<1>2. Moves(Main, pc[Main], Base(Main)) /\ MayBe(Main, Base(Main), shouldStop)
  BY <1>1, NobodyMoves, AlreadyThere DEF Pause
<1>3. DataTyped' /\ Alike(Main, pc[Main])
  BY DEF Pause, tasks, PoolInv, TypeOK, DataTyped, Alike
<1> QED
  BY <1>1, <1>2, <1>3, QuietMove DEF Pause

LEMMA DestroyInv ==
    ASSUME PoolInv, Destroy
    PROVE  PoolInv'
<1> DEFINE t == Main
<1>1. t \in Threads /\ calls[t] = <<>>
  BY DEF Destroy, PoolInv, CallsNest, Threads
<1>2. Base(t) = pc[t] /\ Moves(t, "notify", "notify")
  <2>1. "notify" \in PCs \ {"scan", "exec"}
    BY DEF PCs
  <2> QED
    BY <1>1, <2>1, GotoMoves DEF Destroy
<1>3. CallsNest' /\ pc'[t] = "notify" /\ \A u \in Threads \ {t} : pc'[u] = pc[u]
  BY <1>2 DEF Moves, Elsewhere
<1>4. \A u \in Threads \ {t} : Base(u)' = Base(u)
  BY <1>1, <1>2, OthersStay DEF Moves
<1>5. activeWorkersCount' = activeWorkersCount /\ activeWorkersCount \in Nat
  BY DEF Destroy, PoolInv, TypeOK
<1>6. Base(t) \notin Searching /\ "notify" \notin Searching
  BY <1>2 DEF Destroy, Searching
<1>7. PlacesApart'
  <2>1. Base(Main)' = "notify"
    BY <1>2 DEF Moves
  <2> QED
    BY <1>4, <2>1, PoolAssumption
        DEF Destroy, PoolInv, PlacesApart, Threads, OwnerPlaces
<1>8. CountAgrees'
  BY <1>1, <1>2, <1>5, <1>6, CountMove
<1>9. TypeOK'
  <2>1. Cardinality(Workers) \in Nat
    BY PoolAssumption, FS_CardinalityType
  <2> QED
    BY <1>2, <2>1 DEF Destroy, PoolInv, TypeOK, tasks, Moves
<1>10. VectorAgrees'
  BY <1>3 DEF Destroy, PoolInv, VectorAgrees, Registered, Away
<1>11. LockAgrees'
  BY <1>3 DEF Destroy, PoolInv, LockAgrees, Unregistering
<1> QED
  BY <1>3, <1>7, <1>8, <1>9, <1>10, <1>11 DEF PoolInv

\* Notify, AwaitEmpty and Join: the owner stays or goes on.
LEMMA OwnerMove ==
    ASSUME PoolInv, NEW x \in {"drain", "join", "gone"},
           pc[Main] \in {"notify", "awaitEmpty", "join"},
           UNCHANGED pc \/ (Goto(Main, x) /\ (x = "drain" <=> pc[Main] = "notify")),
           UNCHANGED <<workers, workersLock, flags, tasks, calls>>,
           signaled' \in BOOLEAN, toWake' \in Nat
    PROVE  PoolInv'
<1>1. Main \in Threads /\ DataTyped'
  BY DEF Threads, PoolInv, TypeOK, DataTyped, flags, tasks
<1>2. UNCHANGED <<workers, workersLock, activeWorkersCount, shouldStop, calls>>
  BY DEF flags
<1>3. MayBe(Main, Base(Main), shouldStop)
  BY <1>1, AlreadyThere
<1>4. CASE UNCHANGED pc
  <2>1. Moves(Main, pc[Main], Base(Main)) /\ Alike(Main, pc[Main])
    BY <1>1, <1>2, <1>4, NobodyMoves DEF Alike
  <2> QED
    BY <1>1, <1>2, <1>3, <2>1, QuietMove
<1>5. CASE Goto(Main, x) /\ (x = "drain" <=> pc[Main] = "notify")
  <2>1. calls[Main] = <<>> /\ Base(Main) = pc[Main]
    BY <1>1 DEF PoolInv, CallsNest, Base
  <2>2. MayBe(Main, x, shouldStop)
    BY <1>3, <2>1, PoolAssumption DEF MayBe, Leaving, OwnerPlaces, Unregistering
  <2>3. Alike(Main, x)
    BY <1>5 DEF Alike, Away, Unregistering
  <2>4. x \in PCs \ {"scan", "exec"} /\ x \notin Searching
    BY DEF PCs, Searching
  <2>5. pc[Main] \notin Searching \cup {"scan", "exec"}
    BY DEF Searching
  <2> QED
    BY <1>1, <1>2, <1>5, <2>2, <2>3, <2>4, <2>5, PlainMove
<1> QED
  BY <1>4, <1>5

LEMMA OwnerStepInv ==
    ASSUME PoolInv, OwnerStep
    PROVE  PoolInv'
<1>1. signaled \in BOOLEAN /\ toWake \in Nat
  BY DEF PoolInv, TypeOK
<1>2. CASE Notify
  <2>1. signaled' \in BOOLEAN /\ toWake' \in Nat
    <3>1. CASE toWake > 0
      BY <1>1, <1>2, <3>1 DEF Notify
    <3>2. CASE ~(toWake > 0)
      BY <1>1, <1>2, <3>2, Zenon DEF Notify
    <3> QED
      BY <3>1, <3>2
  <2> QED
    BY <1>2, <2>1, OwnerMove DEF Notify
<1>3. CASE AwaitEmpty
  <2>1. signaled' \in BOOLEAN /\ toWake' \in Nat
    BY <1>1, <1>3 DEF AwaitEmpty
  <2> QED
    BY <1>3, <2>1, OwnerMove DEF AwaitEmpty
<1>4. CASE Join
  <2>1. signaled' \in BOOLEAN /\ toWake' \in Nat
    BY <1>1, <1>4 DEF Join
  <2> QED
    BY <1>4, <2>1, OwnerMove DEF Join
<1> QED
  BY <1>2, <1>3, <1>4 DEF OwnerStep

-----------------------------------------------------------------------------
(***************************************************************************)
(* The invariant.                                                          *)
(***************************************************************************)
LEMMA InitInv == Init => PoolInv
<1> SUFFICES ASSUME Init PROVE PoolInv
  OBVIOUS
<1>1. TypeOK
  <2>1. Main \in Threads
    BY DEF Threads
  <2>2. workers \in Seq(Threads)
    BY <2>1 DEF Init
  <2>3. pc \in [Threads -> PCs]
    BY DEF Init, PCs
  <2>4. calls \in [Threads -> Seq({"loop", "run", "drain", "exec"})]
    BY DEF Init
  <2> QED
    BY <2>2, <2>3, <2>4 DEF Init, TypeOK
<1>2. CallsNest
  BY DEF Init, CallsNest
<1>3. \A t \in Threads : Base(t) = pc[t] /\ pc[t] = IF t = Main THEN "run" ELSE "register"
  BY DEF Init, Base
<1>4. PlacesApart
  BY <1>3, PoolAssumption
      DEF Init, PlacesApart, Threads, Leaving, OwnerPlaces, Unregistering
<1>5. CountAgrees
  <2>1. CountedThreads = {}
    BY <1>3 DEF CountedThreads, Counted, Searching
  <2> QED
    BY <2>1, FS_EmptySet DEF Init, CountAgrees
<1>6. VectorAgrees
  <2>1. {t \in Threads : Registered(t)} = {Main}
    BY <1>3 DEF Registered, Away, Threads
  <2>2. DOMAIN workers = {1} /\ workers[1] = Main
    BY DEF Init
  <2>3. ToSet(workers) = {Main}
    BY <2>2 DEF ToSet
  <2>4. IsInjective(workers)
    BY <2>2 DEF IsInjective
  <2> QED
    BY <2>1, <2>3, <2>4 DEF VectorAgrees
<1>7. LockAgrees
  BY <1>3, PoolAssumption DEF Init, LockAgrees, Unregistering
<1> QED
  BY <1>1, <1>2, <1>4, <1>5, <1>6, <1>7 DEF PoolInv

LEMMA StutterInv == PoolInv /\ UNCHANGED vars => PoolInv'
<1> SUFFICES ASSUME PoolInv, UNCHANGED vars PROVE PoolInv'
  OBVIOUS
<1>1. Main \in Threads /\ MayBe(Main, Base(Main), shouldStop)
  BY AlreadyThere DEF Threads
<1>2. /\ UNCHANGED <<workers, workersLock, activeWorkersCount, shouldStop>>
      /\ UNCHANGED <<shouldPause, signaled, queue, pushed, toWake>>
      /\ UNCHANGED <<pc, calls>>
  BY DEF vars
<1>3. DataTyped'
  BY <1>2, DataKept
<1>4. Moves(Main, pc[Main], Base(Main)) /\ Alike(Main, pc[Main])
  BY <1>1, <1>2, NobodyMoves DEF Alike
<1> QED
  BY <1>1, <1>2, <1>3, <1>4, QuietMove

LEMMA StepInv == PoolInv /\ [Next]_vars => PoolInv'
<1> SUFFICES ASSUME PoolInv, [Next]_vars PROVE PoolInv'
  OBVIOUS
<1>1. ASSUME NEW t \in Threads, Body(t) \/ TaskDone(t) PROVE PoolInv'
  BY <1>1, PushTaskInv, WaitInv, TaskDoneInv DEF Body
<1>2. ASSUME NEW t \in Threads, ThreadStep(t) PROVE PoolInv'
  BY <1>2, ScanTakesInv, ScanFailsInv, RegisterInv, ActivateInv, CheckStopInv,
     CheckPauseInv, FallAsleepInv, WakeInv, CheckWakeInv, RetireInv, DrainTakesInv,
     DrainEndsInv, LockWorkersInv, SeeIdleInv, EraseWorkerInv, UnlockWorkersInv
     DEF ThreadStep
<1>3. CASE \E pause \in BOOLEAN : Pause(pause)
  BY <1>3, PauseInv
<1>4. CASE Destroy \/ OwnerStep
  BY <1>4, DestroyInv, OwnerStepInv
<1>5. CASE Gone \/ UNCHANGED vars
  BY <1>5, StutterInv DEF Gone
<1> QED
  BY <1>1, <1>2, <1>3, <1>4, <1>5 DEF Next

\* The count of active threads, the vector and the lock always agree with what
\* the threads are doing, for any number of workers and tasks, even if bodies
\* wait while their thread is draining.
THEOREM PoolIsConsistent == Spec => []PoolInv
<1> QED
  BY InitInv, StepInv, PTL DEF Spec

-----------------------------------------------------------------------------
(***************************************************************************)
(* The vector.                                                             *)
(***************************************************************************)
LEMMA NoScanWhileErasing == PoolInv /\ EraseAlone => VectorStable
<1> SUFFICES ASSUME PoolInv, EraseAlone PROVE VectorStable
  OBVIOUS
<1>1. ASSUME NEW t \in Threads, pc[t] = "erase", NEW u \in Scanning PROVE FALSE
  <2>1. u \in Threads /\ pc[u] = "scan" /\ calls[u] # <<>> /\ calls[t] = <<>>
    BY <1>1 DEF Scanning, PoolInv, CallsNest
  <2>2. calls[u] \in Seq({"loop", "run", "drain", "exec"}) /\ 1 \in DOMAIN calls[u]
    BY <2>1 DEF PoolInv, TypeOK
  <2>3. Base(u) \in {"loop", "run", "drain"} /\ Base(t) = "erase"
    BY <1>1, <2>1, <2>2 DEF PoolInv, CallsNest, Base
  <2>4. Base(u) # "drain"
    BY <2>1 DEF EraseAlone
  <2>5. Base(u) # "loop"
    BY <1>1, <2>1 DEF EraseAlone, Counted, Searching
  <2>6. Base(u) # "run"
    BY <2>1, <2>3, PoolAssumption
        DEF PoolInv, PlacesApart, Threads, Leaving, Unregistering, OwnerPlaces
  <2> QED
    BY <2>3, <2>4, <2>5, <2>6
<1>2. ASSUME NEW u \in Scanning PROVE workers # <<>>
  <2>1. u \in ToSet(workers)
    BY <1>2 DEF Scanning, PoolInv, VectorAgrees, Registered, Away
  <2> QED
    BY <2>1 DEF ToSet
<1> QED
  BY <1>1, <1>2 DEF VectorStable

\* A step that leaves every thread where it is, or takes one from a place where
\* it is counted or not to one where it is the same, keeps EraseAlone.
LEMMA EraseMove ==
    ASSUME PoolInv, EraseAlone, NEW t \in Threads, NEW x, NEW b, Moves(t, x, b),
           x = "scan" => b # "drain",
           x = "erase" => pc[t] = "erase" \/ activeWorkersCount = 0,
           b \in Searching /\ x \notin {"checkStop", "retire"} =>
                /\ Base(t) \in Searching
                /\ pc[t] \in {"checkStop", "retire"} => ~shouldStop
    PROVE  EraseAlone'
<1>1. /\ pc'[t] = x /\ Base(t)' = b
      /\ \A u \in Threads \ {t} : /\ pc'[u] = pc[u] /\ Base(u)' = Base(u)
                                  /\ Counted(u)' <=> Counted(u)
  BY OthersStay DEF Moves
<1>2. \A u \in Threads : pc'[u] = "scan" => Base(u)' # "drain"
  BY <1>1 DEF EraseAlone
<1>3. ASSUME NEW v \in Threads, NEW u \in Threads, pc'[v] = "erase", Counted(u)'
      PROVE  pc'[u] \in {"checkStop", "retire"}
  <2>1. CASE pc[v] # "erase"
    <3>1. v = t /\ CountedThreads = {}
      BY <1>1, <1>3, <2>1, ThreadsFinite, FS_EmptySet DEF PoolInv, CountAgrees
    <3>2. u = t
      BY <1>1, <1>3, <3>1 DEF CountedThreads
    <3>3. ~Counted(t)
      BY <3>1 DEF CountedThreads
    <3> QED
      BY <1>1, <1>3, <3>2, <3>3 DEF Counted
  <2>2. CASE pc[v] = "erase"
    <3>1. shouldStop
      <4>1. Base(v) = "erase"
        BY <2>2 DEF PoolInv, CallsNest, Base
      <4> QED
        BY <4>1 DEF PoolInv, PlacesApart, Threads, Leaving, Unregistering
    <3>2. CASE u # t
      BY <1>1, <1>3, <2>2, <3>2 DEF EraseAlone
    <3>3. CASE u = t
      BY <1>1, <1>3, <2>2, <3>1, <3>3 DEF EraseAlone, Counted
    <3> QED
      BY <3>2, <3>3
  <2> QED
    BY <2>1, <2>2
<1> QED
  BY <1>2, <1>3 DEF EraseAlone

LEMMA EraseGoto ==
    ASSUME PoolInv, EraseAlone, NEW t \in Threads, NEW x \in PCs \ {"scan", "exec"},
           pc[t] \notin {"scan", "exec"}, Goto(t, x), UNCHANGED calls,
           x = "erase" => activeWorkersCount = 0,
           \/ x \notin Searching \/ x \in {"checkStop", "retire"}
           \/ pc[t] = "checkStop" /\ ~shouldStop
           \/ pc[t] = "checkPause"
    PROVE  EraseAlone'
<1>1. Base(t) = pc[t] /\ Moves(t, x, x)
  BY GotoMoves
<1>2. {"checkStop", "checkPause"} \subseteq Searching
  BY DEF Searching
<1> QED
  BY <1>1, <1>2, EraseMove

LEMMA EraseStill ==
    ASSUME PoolInv, EraseAlone, UNCHANGED <<pc, calls>>
    PROVE  EraseAlone'
BY DEF EraseAlone, Counted, Base

\* A body returns, or a search finds nothing.
LEMMA ReturnErase ==
    ASSUME PoolInv, EraseAlone, NEW t \in Threads, NEW x \in PCs \ {"scan", "exec"},
           pc[t] \in {"scan", "exec"}, x # "erase",
           Goto(t, IF Caller(t) = "loop" THEN x ELSE Caller(t)), Leave(t)
    PROVE  EraseAlone'
<1>1. CASE Moves(t, "exec", Base(t))
  BY <1>1, EraseMove
<1>2. CASE Base(t) = "loop" /\ Moves(t, x, x)
  BY <1>2, EraseMove DEF Searching
<1>3. CASE Base(t) \in {"run", "drain"} /\ Moves(t, Base(t), Base(t))
  BY <1>3, EraseMove DEF Searching
<1> QED
  BY <1>1, <1>2, <1>3, LeaveMoves

\* The places between two bodies.
LEMMA ThreadStepErase ==
    ASSUME PoolInv, EraseAlone, NEW t \in Threads, ThreadStep(t)
    PROVE  EraseAlone'
<1> USE DEF PCs, Searching
<1>1. CASE ScanTakes(t)
  <2>1. Moves(t, "exec", Base(t)) /\ pc[t] = "scan"
    BY <1>1, ScanMoves DEF ScanTakes
  <2> QED
    BY <2>1, EraseMove
<1>2. CASE ScanFails(t)
  <2>1. /\ Goto(t, IF Caller(t) = "loop" THEN "sleep" ELSE Caller(t)) /\ Leave(t)
        /\ pc[t] = "scan" /\ "sleep" \in PCs \ {"scan", "exec"}
    BY <1>2 DEF ScanFails
  <2> QED
    BY <2>1, ReturnErase
<1>3. CASE RegisterThisThreadAsWorker(t)
  BY <1>3, EraseGoto DEF RegisterThisThreadAsWorker
<1>4. CASE Activate(t) \/ FallAsleep(t) \/ Retire(t)
  BY <1>4, EraseGoto DEF Activate, FallAsleep, Retire, SetThreadStatus
<1>5. CASE CheckStop(t)
  <2>1. CASE shouldStop
    BY <1>5, <2>1, EraseGoto DEF CheckStop
  <2>2. CASE ~shouldStop
    BY <1>5, <2>2, EraseGoto DEF CheckStop
  <2> QED
    BY <2>1, <2>2
<1>6. CASE CheckPause(t)
  <2>1. CASE Goto(t, "scan") /\ Enter(t, "loop")
    <3>1. Base(t) = "checkPause" /\ pc[t] = "checkPause" /\ Moves(t, "scan", "loop")
      BY <1>6, <2>1, EnterMoves DEF CheckPause
    <3> QED
      BY <3>1, EraseMove
  <2>2. CASE Goto(t, "sleep") /\ UNCHANGED calls
    BY <1>6, <2>2, EraseGoto DEF CheckPause
  <2> QED
    BY <1>6, <2>1, <2>2 DEF CheckPause
<1>7. CASE Wake(t)
  BY <1>7, EraseGoto DEF Wake
<1>8. CASE CheckWake(t)
  <2>1. PICK x \in {"asleep", "activate"} : Goto(t, x)
    BY <1>8 DEF CheckWake
  <2> QED
    BY <1>8, <2>1, EraseGoto DEF CheckWake
<1>9. CASE DrainTakes(t)
  <2>1. Base(t) = "drain" /\ Moves(t, "exec", "drain")
    BY <1>9, EnterMoves DEF DrainTakes
  <2> QED
    BY <2>1, EraseMove
<1>10. CASE DrainEnds(t)
  BY <1>10, EraseGoto DEF DrainEnds
<1>11. CASE LockWorkers(t)
  BY <1>11, EraseGoto DEF LockWorkers
<1>12. CASE SeeIdle(t)
  BY <1>12, EraseGoto DEF SeeIdle
<1>13. CASE EraseWorker(t)
  BY <1>13, EraseGoto DEF EraseWorker
<1>14. CASE UnlockWorkers(t)
  <2>1. PICK x \in {"awaitEmpty", "exit"} : Goto(t, x)
    BY <1>14 DEF UnlockWorkers
  <2> QED
    BY <1>14, <2>1, EraseGoto DEF UnlockWorkers
<1> QED
  BY <1>1, <1>2, <1>3, <1>4, <1>5, <1>6, <1>7, <1>8, <1>9, <1>10, <1>11, <1>12,
     <1>13, <1>14 DEF ThreadStep

\* Only here does it matter that bodies do not wait while draining.
LEMMA BodyErase ==
    ASSUME ~DrainedWait, PoolInv, EraseAlone, NEW t \in Threads,
           Body(t) \/ TaskDone(t)
    PROVE  EraseAlone'
<1>1. CASE PushTask(t)
  BY <1>1, EraseStill DEF PushTask
<1>2. CASE Wait(t)
  <2>1. CASE pc[t] = "run"
    <3>1. Goto(t, "scan") /\ Enter(t, "run")
      BY <1>2, <2>1 DEF Wait
    <3>2. Moves(t, "scan", "run")
      BY <2>1, <3>1, EnterMoves
    <3> QED
      BY <3>2, EraseMove DEF Searching
  <2>2. CASE pc[t] = "exec"
    <3>1. Goto(t, "scan") /\ Enter(t, "exec") /\ Base(t) # "drain"
      BY <1>2, <2>2 DEF Wait
    <3>2. Moves(t, "scan", Base(t))
      BY <2>2, <3>1, NestMoves
    <3> QED
      BY <2>2, <3>1, <3>2, EraseMove
  <2> QED
    BY <1>2, <2>1, <2>2 DEF Wait
<1>3. CASE TaskDone(t)
  <2>1. /\ Goto(t, IF Caller(t) = "loop" THEN "checkStop" ELSE Caller(t)) /\ Leave(t)
        /\ pc[t] = "exec" /\ "checkStop" \in PCs \ {"scan", "exec"}
    BY <1>3 DEF TaskDone, PCs
  <2> QED
    BY <2>1, ReturnErase
<1> QED
  BY <1>1, <1>2, <1>3 DEF Body

LEMMA OwnerErase ==
    ASSUME PoolInv, EraseAlone, Destroy \/ OwnerStep \/ \E p \in BOOLEAN : Pause(p)
    PROVE  EraseAlone'
<1> USE DEF PCs, Searching
<1>1. Main \in Threads
  BY DEF Threads
<1>2. CASE Destroy
  BY <1>1, <1>2, EraseGoto DEF Destroy
<1>3. CASE Notify
  <2>1. CASE UNCHANGED pc
    BY <1>3, <2>1, EraseStill DEF Notify
  <2>2. CASE Goto(Main, "drain")
    BY <1>1, <1>3, <2>2, EraseGoto DEF Notify
  <2> QED
    BY <1>3, <2>1, <2>2 DEF Notify
<1>4. CASE AwaitEmpty
  <2>1. CASE UNCHANGED pc
    BY <1>4, <2>1, EraseStill DEF AwaitEmpty
  <2>2. CASE Goto(Main, "join")
    BY <1>1, <1>4, <2>2, EraseGoto DEF AwaitEmpty
  <2> QED
    BY <1>4, <2>1, <2>2 DEF AwaitEmpty
<1>5. CASE Join
  BY <1>1, <1>5, EraseGoto DEF Join
<1>6. CASE \E p \in BOOLEAN : Pause(p)
  BY <1>6, EraseStill DEF Pause
<1> QED
  BY <1>2, <1>3, <1>4, <1>5, <1>6 DEF OwnerStep

\* Nobody reads the vector of workers while a thread is erased from it, for any
\* number of workers, tasks and nested waits, provided no body waits while its
\* thread finishes its tasks on the way out.
THEOREM VectorIsStable ==
    ASSUME ~DrainedWait
    PROVE  Spec => []VectorStable
<1> DEFINE VectorInv == PoolInv /\ EraseAlone
<1>1. Init => VectorInv
  BY InitInv DEF Init, EraseAlone, Counted, Base, Searching
<1>2. VectorInv /\ [Next]_vars => VectorInv'
  <2> SUFFICES ASSUME PoolInv, EraseAlone, [Next]_vars PROVE EraseAlone'
    BY StepInv
  <2>1. CASE UNCHANGED vars
    BY <2>1, EraseStill DEF vars
  <2>2. CASE Gone
    BY <2>2, EraseStill DEF Gone, vars
  <2> QED
    BY <2>1, <2>2, BodyErase, ThreadStepErase, OwnerErase DEF Next
<1>3. VectorInv => VectorStable
  BY NoScanWhileErasing
<1> QED
  BY <1>1, <1>2, <1>3, PTL DEF Spec

=============================================================================
