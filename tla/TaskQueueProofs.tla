-------------------------- MODULE TaskQueueProofs ---------------------------
(***************************************************************************)
(* With at least one spare slot the ring hands out every task exactly once *)
(* and in order, for any number of threads, any capacity and any number of *)
(* pushes.                                                                 *)
(***************************************************************************)
EXTENDS TaskQueue, TLAPS

-----------------------------------------------------------------------------
\* Two positions less than a turn of the ring apart have different slots.
LEMMA SlotsApart ==
    ASSUME NEW p \in Nat, NEW q \in Nat, p < q, q < p + Capacity
    PROVE  Slot(p) # Slot(q)
<1> DEFINE a == p \div Capacity
           b == q \div Capacity
<1>1. /\ a \in Nat /\ b \in Nat
      /\ p = Capacity * a + Slot(p)
      /\ q = Capacity * b + Slot(q)
  BY CapacityAssumption DEF Slot
<1>2. Slot(p) \in Nat /\ Slot(q) \in Nat
  BY CapacityAssumption DEF Slot
<1> HIDE DEF a, b
<1> SUFFICES ASSUME Slot(p) = Slot(q) PROVE FALSE
  OBVIOUS
<1>3. q - p = Capacity * b - Capacity * a
  BY <1>1, <1>2, CapacityAssumption
<1>4. Capacity * b - Capacity * a = Capacity * (b - a)
  BY <1>1, CapacityAssumption
<1>5. CASE b - a <= 0
  <2>1. Capacity * (b - a) <= 0
    BY <1>1, <1>5, CapacityAssumption
  <2> QED
    BY <2>1, <1>3, <1>4
<1>6. CASE b - a >= 1
  <2>1. Capacity * (b - a) >= Capacity
    BY <1>1, <1>6, CapacityAssumption
  <2> QED
    BY <2>1, <1>3, <1>4, CapacityAssumption
<1> QED
  BY <1>1, <1>5, <1>6

LEMMA SlotType ==
    \A p \in Nat : Slot(p) \in Slots
BY CapacityAssumption DEF Slot, Slots

-----------------------------------------------------------------------------
LEMMA InitInv == Init => QueueInv
<1> SUFFICES ASSUME Init PROVE QueueInv
  OBVIOUS
<1>1. Clearing = {} /\ Storing = {}
  BY DEF Init, Clearing, Storing, In
<1>2. TypeOK
  BY MaxPushAssumption DEF Init, TypeOK, PCs
<1>3. HandedOutInOrder
  BY DEF Init, HandedOutInOrder
<1>4. RingBound
  BY <1>1, CapacityAssumption, SpareAssumption DEF Init, RingBound
<1>5. SlotContents /\ PendingStored
  BY DEF Init, SlotContents, PendingStored
<1>6. PushersApart /\ PoppersApart
  BY DEF Init, PushersApart, PoppersApart, In
<1> QED
  BY <1>2, <1>3, <1>4, <1>5, <1>6 DEF QueueInv

USE CapacityAssumption, MaxPushAssumption, SpareAssumption, NullAssumption

LEMMA PushClaimInv ==
    ASSUME QueueInv, NEW t \in Threads, PushClaim(t)
    PROVE  QueueInv'
<1> USE DEF QueueInv
<1>1. pc[t] = "idle" /\ m_tail_pos' = m_tail_pos + 1 /\ m_tail_pos \in Nat
  BY DEF PushClaim, TypeOK
<1>2. Clearing' = Clearing
  BY DEF PushClaim, Clearing, In, TypeOK
<1>3. Storing' = Storing \cup {m_tail_pos}
  BY DEF PushClaim, Storing, In, TypeOK
<1>4. TypeOK'
  BY DEF PushClaim, TypeOK, PCs
<1>5. HandedOutInOrder'
  BY DEF PushClaim, HandedOutInOrder
<1>6. RingBound'
  <2>1. \A p \in {m_head_pos} \cup Clearing : p \in Nat
    BY DEF TypeOK, Clearing, In
  <2>2. \A p \in {m_head_pos} \cup Clearing : m_tail_pos + Spare < p + Capacity
    BY DEF PushClaim, MayPush, Clearing
  <2>3. m_head_pos <= m_tail_pos + 1
    BY <1>1 DEF RingBound, TypeOK
  <2> QED
    BY <1>1, <1>2, <2>1, <2>2, <2>3 DEF PushClaim, RingBound
<1>7. SlotContents'
  BY <1>2, <1>3 DEF PushClaim, SlotContents, TypeOK
<1>8. PendingStored'
  BY <1>3 DEF PushClaim, PendingStored, TypeOK
<1>9. PushersApart'
  BY DEF PushClaim, PushersApart, In, TypeOK, RingBound
<1>10. PoppersApart'
  BY DEF PushClaim, PoppersApart, In, TypeOK
<1> QED
  BY <1>4, <1>5, <1>6, <1>7, <1>8, <1>9, <1>10

LEMMA PushStoreInv ==
    ASSUME Spare > 0, QueueInv, NEW t \in Threads, PushStore(t)
    PROVE  QueueInv'
<1> USE DEF QueueInv
<1>1. pos[t] \in m_head_pos .. m_tail_pos - 1 /\ pos[t] \in Nat
  BY DEF PushStore, PushersApart, In, TypeOK
<1>2. Clearing' = Clearing
  BY DEF PushStore, Clearing, In, TypeOK
<1>3. Storing' = Storing \ {pos[t]}
  BY DEF PushStore, Storing, In, TypeOK, PushersApart
<1>4. \A p \in m_head_pos .. m_tail_pos - 1 : p # pos[t] => Slot(p) # Slot(pos[t])
  BY <1>1, SlotsApart DEF RingBound, TypeOK
<1>5. \A p \in Clearing : p \in Nat /\ p < m_head_pos /\ Slot(p) # Slot(pos[t])
  BY <1>1, SlotsApart DEF RingBound, TypeOK, Clearing, In, PoppersApart
<1>6. /\ Slot(pos[t]) \in Slots
      /\ m_storage' = [m_storage EXCEPT ![Slot(pos[t])] = pos[t]]
  BY <1>1, SlotType DEF PushStore
<1>7. TypeOK'
  BY <1>6 DEF PushStore, TypeOK, PCs
<1>8. HandedOutInOrder'
  BY DEF PushStore, HandedOutInOrder
<1>9. RingBound'
  BY <1>2 DEF PushStore, RingBound, TypeOK
<1>10. SlotContents'
  BY <1>1, <1>2, <1>3, <1>6 DEF PushStore, SlotContents, TypeOK
<1>11. PendingStored'
  BY <1>1, <1>3, <1>4, <1>6 DEF PushStore, PendingStored, TypeOK
<1>12. PushersApart'
  BY DEF PushStore, PushersApart, In, TypeOK
<1>13. PoppersApart'
  <2>1. pos[t] \in Storing
    BY DEF PushStore, Storing, In
  <2>2. \A u \in In("clear") : m_storage'[Slot(pos[u])] = pos[u]
    BY <1>5, <1>6 DEF PoppersApart, Clearing, TypeOK, In
  <2>3. m_storage[Slot(m_head_pos)] = m_head_pos /\ m_tail_pos > m_head_pos
          => m_storage'[Slot(m_head_pos)] = m_head_pos
    BY <1>1, <1>4, <1>6 DEF TypeOK
  <2>4. m_storage[Slot(m_head_pos)] = m_head_pos => m_tail_pos > m_head_pos
    BY <1>1 DEF TypeOK
  <2> QED
    BY <2>2, <2>3, <2>4 DEF PushStore, PoppersApart, In, TypeOK
<1> QED
  BY <1>7, <1>8, <1>9, <1>10, <1>11, <1>12, <1>13

LEMMA PopLoadHeadInv ==
    ASSUME QueueInv, NEW t \in Threads, PopLoadHead(t)
    PROVE  QueueInv'
<1> USE DEF QueueInv
<1>1. Clearing' = Clearing /\ Storing' = Storing
  BY DEF PopLoadHead, Clearing, Storing, In, TypeOK
<1>2. TypeOK'
  BY DEF PopLoadHead, TypeOK, PCs
<1>3. HandedOutInOrder' /\ RingBound'
  BY <1>1 DEF PopLoadHead, HandedOutInOrder, RingBound
<1>4. SlotContents' /\ PendingStored'
  BY <1>1 DEF PopLoadHead, SlotContents, PendingStored
<1>5. PushersApart' /\ PoppersApart'
  BY DEF PopLoadHead, PushersApart, PoppersApart, In, TypeOK
<1> QED
  BY <1>2, <1>3, <1>4, <1>5

LEMMA PopLoadSlotInv ==
    ASSUME Spare > 0, QueueInv, NEW t \in Threads, PopLoadSlot(t)
    PROVE  QueueInv'
<1> USE DEF QueueInv
<1> DEFINE v == m_storage[Slot(pos[t])]
<1>1. pos[t] \in Nat /\ pos[t] <= m_head_pos /\ Slot(pos[t]) \in Slots
  BY SlotType DEF PopLoadSlot, PoppersApart, In, TypeOK
<1>2. v \in Nat \cup {Null}
  BY <1>1 DEF TypeOK
<1>3. Clearing' = Clearing /\ Storing' = Storing
  BY DEF PopLoadSlot, Clearing, Storing, In, TypeOK
<1>4. ASSUME pos[t] = m_head_pos, v # Null
      PROVE  v = m_head_pos
  \* The slot of the head holds no task of an earlier or of a later turn.
  <2>1. /\ v \in Nat /\ v < m_tail_pos /\ Slot(v) = Slot(m_head_pos)
        /\ v >= m_head_pos \/ v \in Clearing
    BY <1>1, <1>2, <1>4 DEF SlotContents
  <2>2. m_tail_pos + Spare <= m_head_pos + Capacity
    BY DEF RingBound
  <2>3. CASE v >= m_head_pos
    BY <2>1, <2>2, <2>3, SlotsApart DEF TypeOK
  <2>4. CASE v \in Clearing
    <3>1. m_tail_pos + Spare <= v + Capacity /\ v < m_head_pos /\ m_head_pos <= m_tail_pos
      BY <2>4 DEF RingBound, Clearing, In, PoppersApart
    <3> QED
      BY <3>1, <2>1, SlotsApart DEF TypeOK
  <2> QED
    BY <2>1, <2>3, <2>4
<1>5. TypeOK'
  BY <1>2 DEF PopLoadSlot, TypeOK, PCs
<1>6. HandedOutInOrder' /\ RingBound'
  BY <1>3 DEF PopLoadSlot, HandedOutInOrder, RingBound
<1>7. SlotContents' /\ PendingStored'
  BY <1>3 DEF PopLoadSlot, SlotContents, PendingStored
<1>8. PushersApart'
  BY DEF PopLoadSlot, PushersApart, In, TypeOK
<1>9. PoppersApart'
  BY <1>1, <1>2, <1>4 DEF PopLoadSlot, PoppersApart, In, TypeOK
<1> QED
  BY <1>5, <1>6, <1>7, <1>8, <1>9

LEMMA PopCasOkInv ==
    ASSUME QueueInv, NEW t \in Threads, PopCasOk(t)
    PROVE  QueueInv'
<1> USE DEF QueueInv
<1>1. /\ pos[t] = m_head_pos /\ task[t] = m_head_pos
      /\ m_storage[Slot(m_head_pos)] = m_head_pos
      /\ m_head_pos \in Nat /\ m_tail_pos \in Nat /\ m_head_pos' = m_head_pos + 1
  BY DEF PopCasOk, PoppersApart, In, TypeOK
<1>2. m_head_pos < m_tail_pos /\ m_head_pos \notin Storing
  BY <1>1, SlotType DEF SlotContents
<1>3. Clearing' = Clearing \cup {m_head_pos} /\ Storing' = Storing
  BY <1>1 DEF PopCasOk, Clearing, Storing, In, TypeOK
<1>4. TypeOK'
  BY <1>1 DEF PopCasOk, TypeOK, PCs
<1>5. HandedOutInOrder'
  <2>1. taken \in Seq(Nat) /\ taken' = Append(taken, m_head_pos)
    BY <1>1 DEF PopCasOk, TypeOK
  <2>2. /\ Len(taken') = Len(taken) + 1
        /\ \A i \in 1 .. Len(taken) : taken'[i] = taken[i]
        /\ taken'[Len(taken) + 1] = m_head_pos
    BY <1>1, <2>1
  <2> QED
    BY <1>1, <2>2 DEF HandedOutInOrder
<1>6. RingBound'
  <2>1. \A p \in Clearing : p \in Nat
    BY DEF TypeOK, Clearing, In
  <2> QED
    BY <1>1, <1>2, <1>3, <2>1 DEF PopCasOk, RingBound
<1>7. SlotContents'
  BY <1>1, <1>3 DEF PopCasOk, SlotContents, TypeOK
<1>8. PendingStored'
  BY <1>1, <1>3 DEF PopCasOk, PendingStored
<1>9. PushersApart'
  BY <1>1, <1>2 DEF PopCasOk, PushersApart, Storing, In, TypeOK
<1>10. PoppersApart'
  BY <1>1 DEF PopCasOk, PoppersApart, In, TypeOK
<1> QED
  BY <1>4, <1>5, <1>6, <1>7, <1>8, <1>9, <1>10

LEMMA PopCasFailInv ==
    ASSUME QueueInv, NEW t \in Threads, PopCasFail(t)
    PROVE  QueueInv'
<1> USE DEF QueueInv
<1>1. Clearing' = Clearing /\ Storing' = Storing
  BY DEF PopCasFail, Clearing, Storing, In, TypeOK
<1>2. TypeOK'
  BY DEF PopCasFail, TypeOK, PCs
<1>3. HandedOutInOrder' /\ RingBound'
  BY <1>1 DEF PopCasFail, HandedOutInOrder, RingBound
<1>4. SlotContents' /\ PendingStored'
  BY <1>1 DEF PopCasFail, SlotContents, PendingStored
<1>5. PushersApart' /\ PoppersApart'
  BY DEF PopCasFail, PushersApart, PoppersApart, In, TypeOK
<1> QED
  BY <1>2, <1>3, <1>4, <1>5

LEMMA PopClearInv ==
    ASSUME Spare > 0, QueueInv, NEW t \in Threads, PopClear(t)
    PROVE  QueueInv'
<1> USE DEF QueueInv
<1>1. /\ pos[t] \in Nat /\ pos[t] < m_head_pos /\ pos[t] \in Clearing
      /\ m_storage[Slot(pos[t])] = pos[t] /\ Slot(pos[t]) \in Slots
  BY SlotType DEF PopClear, PoppersApart, Clearing, In, TypeOK
<1>2. \A p \in m_head_pos .. m_tail_pos - 1 : Slot(p) # Slot(pos[t])
  BY <1>1, SlotsApart DEF RingBound, TypeOK
<1>3. Clearing' = Clearing \ {pos[t]} /\ Storing' = Storing
  BY DEF PopClear, Clearing, Storing, In, TypeOK, PoppersApart
<1>4. m_storage' = [m_storage EXCEPT ![Slot(pos[t])] = Null]
  BY DEF PopClear
<1>5. TypeOK'
  BY DEF PopClear, TypeOK, PCs
<1>6. HandedOutInOrder' /\ RingBound'
  BY <1>3 DEF PopClear, HandedOutInOrder, RingBound
<1>7. SlotContents'
  BY <1>1, <1>3, <1>4 DEF PopClear, SlotContents, TypeOK
<1>8. PendingStored'
  <2> SUFFICES ASSUME NEW p \in m_head_pos .. m_tail_pos - 1, p \notin Storing
               PROVE  m_storage'[Slot(p)] = p
    BY <1>3 DEF PendingStored, PopClear
  <2>1. m_storage[Slot(p)] = p /\ Slot(p) # Slot(pos[t])
    BY <1>2 DEF PendingStored
  <2>2. Slot(p) \in Slots
    BY SlotType DEF TypeOK
  <2> QED
    BY <1>4, <2>1, <2>2 DEF TypeOK
<1>9. PushersApart'
  BY DEF PopClear, PushersApart, In, TypeOK
<1>10. PoppersApart'
  <2>1. m_storage[Slot(m_head_pos)] = m_head_pos
          => m_storage'[Slot(m_head_pos)] = m_head_pos
    <3>1. m_storage[Slot(m_head_pos)] = m_head_pos => m_head_pos < m_tail_pos
      BY SlotType DEF SlotContents, TypeOK
    <3> QED
      BY <3>1, <1>2, <1>4, SlotType DEF TypeOK
  <2>2. \A u \in In("clear") : u # t => m_storage'[Slot(pos[u])] = pos[u]
    <3>1. t \in In("clear")
      BY DEF PopClear, In
    <3>2. \A u \in In("clear") : /\ m_storage[Slot(pos[u])] = pos[u]
                                 /\ u # t => pos[u] # pos[t]
                                 /\ Slot(pos[u]) \in Slots
      BY <3>1, SlotType DEF PoppersApart, In, TypeOK
    <3> QED
      BY <3>2, <1>1, <1>4 DEF TypeOK
  <2> QED
    BY <2>1, <2>2 DEF PopClear, PoppersApart, In, TypeOK
<1> QED
  BY <1>5, <1>6, <1>7, <1>8, <1>9, <1>10

LEMMA NextInv ==
    ASSUME Spare > 0, QueueInv, [Next]_vars
    PROVE  QueueInv'
<1>1. ASSUME NEW t \in Threads, Push(t) PROVE QueueInv'
  BY <1>1, PushClaimInv, PushStoreInv DEF Push
<1>2. ASSUME NEW t \in Threads, Pop(t) PROVE QueueInv'
  BY <1>2, PopLoadHeadInv, PopLoadSlotInv, PopCasOkInv, PopCasFailInv, PopClearInv DEF Pop
<1>3. CASE UNCHANGED vars
  BY <1>3 DEF vars, QueueInv, TypeOK, HandedOutInOrder, RingBound, SlotContents,
       PendingStored, PushersApart, PoppersApart, Storing, Clearing, In
<1> QED
  BY <1>1, <1>2, <1>3 DEF Next

-----------------------------------------------------------------------------
\* The inductive invariant holds in every reachable state of the ring.
THEOREM QueueInvariance ==
    ASSUME Spare > 0
    PROVE  Spec => []QueueInv
<1>1. QueueInv /\ [Next]_vars => QueueInv'
  BY NextInv
<1> QED
  BY InitInv, <1>1, PTL DEF Spec

\* Type correctness of the ring and of the locals of push() and pop().
THEOREM TypeCorrect ==
    ASSUME Spare > 0
    PROVE  Spec => []TypeOK
BY QueueInvariance, PTL DEF QueueInv

\* No task is executed twice, however the threads interleave.
THEOREM TasksTakenOnce ==
    ASSUME Spare > 0
    PROVE  Spec => []TakenOnce
<1>1. QueueInv => TakenOnce
  <2> SUFFICES ASSUME QueueInv, NEW i \in DOMAIN taken, NEW j \in DOMAIN taken,
                      taken[i] = taken[j]
               PROVE  i = j
    BY DEF TakenOnce
  <2>1. DOMAIN taken = 1 .. m_head_pos /\ m_head_pos \in Nat
    BY DEF QueueInv, HandedOutInOrder, TypeOK
  <2>2. taken[i] = i - 1 /\ taken[j] = j - 1 /\ i \in Nat /\ j \in Nat
    BY <2>1 DEF QueueInv, HandedOutInOrder
  <2>3. i - 1 = j - 1
    BY <2>2, Zenon
  <2> QED
    BY <2>2, <2>3
<1> QED
  BY QueueInvariance, <1>1, PTL

\* No task is lost between push() and the exchange that wins it.
THEOREM NoTasksLost ==
    ASSUME Spare > 0
    PROVE  Spec => []NoTaskLost
<1>1. QueueInv => NoTaskLost
  <2> SUFFICES ASSUME QueueInv, NEW p \in 0 .. m_tail_pos - 1
               PROVE  \/ p \in Storing
                      \/ \E i \in DOMAIN taken : taken[i] = p
                      \/ m_storage[Slot(p)] = p
    BY DEF NoTaskLost
  <2>1. DOMAIN taken = 1 .. m_head_pos /\ m_head_pos \in Nat /\ m_tail_pos \in Nat
    BY DEF QueueInv, HandedOutInOrder, TypeOK
  <2>2. CASE p < m_head_pos
    <3>1. p + 1 \in DOMAIN taken /\ taken[p + 1] = p
      BY <2>1, <2>2 DEF QueueInv, HandedOutInOrder
    <3> QED
      BY <3>1
  <2>3. CASE p >= m_head_pos
    BY <2>1, <2>3 DEF QueueInv, PendingStored
  <2> QED
    BY <2>1, <2>2, <2>3
<1> QED
  BY QueueInvariance, <1>1, PTL

\* No store to a slot destroys a task that is still to be handed out.
THEOREM SlotsNotOverwritten ==
    ASSUME Spare > 0
    PROVE  Spec => NoOverwrite
<1> DEFINE Kept ==
      \A s \in Slots :
        m_storage'[s] # m_storage[s] =>
            \/ m_storage[s] = Null
            \/ /\ m_storage'[s] = Null
               /\ \E i \in DOMAIN taken : taken[i] = m_storage[s]
<1>1. ASSUME QueueInv, NEW t \in Threads, PushStore(t) PROVE Kept
  <2> USE <1>1 DEF QueueInv
  <2>1. pos[t] \in m_head_pos .. m_tail_pos - 1 /\ pos[t] \in Storing
    BY DEF PushStore, PushersApart, Storing, In
  <2>2. m_storage[Slot(pos[t])] = Null
    <3> SUFFICES ASSUME NEW v \in Nat, v = m_storage[Slot(pos[t])] PROVE FALSE
      BY <2>1, SlotType DEF TypeOK
    <3>1. /\ v < m_tail_pos /\ Slot(v) = Slot(pos[t]) /\ v \notin Storing
          /\ v >= m_head_pos \/ v \in Clearing
      BY <2>1, SlotType DEF SlotContents, TypeOK
    <3>2. m_tail_pos + Spare <= v + Capacity \/ v >= m_head_pos
      BY <3>1 DEF RingBound
    <3>3. v # pos[t]
      BY <2>1, <3>1
    <3>4. m_tail_pos + Spare <= m_head_pos + Capacity
      BY DEF RingBound
    <3> QED
      BY <2>1, <3>1, <3>2, <3>3, <3>4, SlotsApart DEF TypeOK
  <2>3. m_storage' = [m_storage EXCEPT ![Slot(pos[t])] = pos[t]]
    BY DEF PushStore
  <2> QED
    BY <2>2, <2>3 DEF TypeOK
<1>2. ASSUME QueueInv, NEW t \in Threads, PopClear(t) PROVE Kept
  <2> USE <1>2 DEF QueueInv
  <2>1. /\ pos[t] \in Nat /\ pos[t] < m_head_pos /\ m_storage[Slot(pos[t])] = pos[t]
        /\ m_head_pos \in Nat /\ m_storage' = [m_storage EXCEPT ![Slot(pos[t])] = Null]
    BY DEF PopClear, PoppersApart, In, TypeOK
  <2>2. pos[t] + 1 \in DOMAIN taken /\ taken[pos[t] + 1] = pos[t]
    BY <2>1 DEF HandedOutInOrder, TypeOK
  <2> QED
    BY <2>1, <2>2 DEF TypeOK
<1>3. QueueInv /\ [Next]_vars => [Kept]_vars
  BY <1>1, <1>2 DEF Next, Push, Pop, PushClaim, PopLoadHead, PopLoadSlot, PopCasOk,
     PopCasFail, vars
<1> QED
  BY QueueInvariance, <1>3, PTL DEF Spec, NoOverwrite

(***************************************************************************)
(* The ring implements the abstract queue.                                 *)
(***************************************************************************)
THEOREM RingImplementsFifo ==
    ASSUME Spare > 0
    PROVE  Spec => ImplementsFifo
<1>1. Init => Fifo!FifoInit
  BY DEF Init, Fifo!FifoInit
<1>2. ASSUME QueueInv, NEW t \in Threads, PushClaim(t) PROVE Fifo!Claim
  <2>1. Storing' = Storing \cup {m_tail_pos} /\ m_tail_pos \in Nat
    BY <1>2 DEF QueueInv, PushClaim, Storing, In, TypeOK
  <2>2. (0 .. m_tail_pos' - 1) \ Storing' = (0 .. m_tail_pos - 1) \ Storing
    BY <1>2, <2>1 DEF PushClaim
  <2> QED
    BY <1>2, <2>2 DEF PushClaim, Fifo!Claim
<1>3. ASSUME QueueInv, NEW t \in Threads, PushStore(t) PROVE Fifo!Store
  <2>1. pos[t] \in 0 .. m_tail_pos - 1 /\ pos[t] \in Storing
    BY <1>3 DEF QueueInv, PushStore, PushersApart, Storing, In, TypeOK
  <2>2. Storing' = Storing \ {pos[t]} /\ m_tail_pos' = m_tail_pos /\ taken' = taken
    BY <1>3 DEF QueueInv, PushStore, PushersApart, Storing, In, TypeOK
  <2> QED
    BY <2>1, <2>2 DEF Fifo!Store
<1>4. ASSUME QueueInv, NEW t \in Threads, PopCasOk(t) PROVE Fifo!Take
  <2>1. /\ task[t] = m_head_pos /\ m_head_pos \in Nat
        /\ m_storage[Slot(m_head_pos)] = m_head_pos
    BY <1>4 DEF QueueInv, PopCasOk, PoppersApart, In, TypeOK
  <2>2. m_head_pos \in (0 .. m_tail_pos - 1) \ Storing
    BY <2>1, <1>4, SlotType DEF QueueInv, SlotContents, TypeOK
  <2>3. Storing' = Storing /\ m_tail_pos' = m_tail_pos
    BY <1>4 DEF QueueInv, PopCasOk, Storing, In, TypeOK
  <2>4. taken' = Append(taken, Len(taken)) /\ Len(taken) = m_head_pos
    BY <1>4, <2>1 DEF QueueInv, PopCasOk, HandedOutInOrder
  <2> QED
    BY <2>2, <2>3, <2>4 DEF Fifo!Take
<1>5. ASSUME QueueInv, NEW t \in Threads,
             PopLoadHead(t) \/ PopLoadSlot(t) \/ PopCasFail(t) \/ PopClear(t)
      PROVE  UNCHANGED Fifo!fifoVars
  <2>1. CASE PopLoadHead(t)
    BY <1>5, <2>1 DEF QueueInv, PopLoadHead, Storing, In, TypeOK, Fifo!fifoVars
  <2>2. CASE PopLoadSlot(t)
    BY <1>5, <2>2 DEF QueueInv, PopLoadSlot, Storing, In, TypeOK, Fifo!fifoVars
  <2>3. CASE PopCasFail(t)
    BY <1>5, <2>3 DEF QueueInv, PopCasFail, Storing, In, TypeOK, Fifo!fifoVars
  <2>4. CASE PopClear(t)
    BY <1>5, <2>4 DEF QueueInv, PopClear, Storing, In, TypeOK, Fifo!fifoVars
  <2> QED
    BY <1>5, <2>1, <2>2, <2>3, <2>4
<1>6. UNCHANGED vars => UNCHANGED Fifo!fifoVars
  BY DEF vars, Fifo!fifoVars, Storing, In
<1>7. QueueInv /\ [Next]_vars => [Fifo!FifoNext]_(Fifo!fifoVars)
  BY <1>2, <1>3, <1>4, <1>5, <1>6 DEF Next, Push, Pop, Fifo!FifoNext
<1> QED
  BY QueueInvariance, <1>1, <1>7, PTL DEF Spec, ImplementsFifo, Fifo!FifoSpec
=============================================================================
