----------------------------- MODULE TaskQueue ------------------------------
(***************************************************************************)
(* class TaskQueue of xrCore/Threading/TaskManager.cpp: the lock-free ring *)
(* through which the workers hand tasks to each other.  The owner pushes,  *)
(* every worker pops (steal() is pop() on another worker's queue).         *)
(*                                                                         *)
(* Every access to shared memory is a step of its own: push() claims a     *)
(* position with fetch_add and stores the task later; pop() loads the head *)
(* position, loads the slot, tries to advance the head with                *)
(* compare_exchange_weak, and only then clears the slot.                   *)
(*                                                                         *)
(* A task is named by the number of the push that published it, so that    *)
(* "the same task" and "the same push" are the same thing.                 *)
(***************************************************************************)
EXTENDS Naturals, Sequences

CONSTANTS
    Threads,    \* the threads that push and pop
    Capacity,   \* TASK_STORAGE_SIZE
    MaxPush,    \* bound on the number of pushes
    Spare,      \* slots the callers always leave unused (see MayPush)
    Null        \* nullptr

ASSUME CapacityAssumption == Capacity \in Nat \ {0}
ASSUME MaxPushAssumption == MaxPush \in Nat
ASSUME SpareAssumption == Spare \in 0 .. Capacity
ASSUME NullAssumption == Null \notin Nat

VARIABLES
    m_head_pos,     \* next position to pop
    m_tail_pos,     \* next position to push
    m_storage,      \* the ring of task pointers
    pc,             \* where each thread is inside push() or pop()
    pos,            \* its local task_pos (push) or head_pos (pop)
    task,           \* its local task (pop)
    taken           \* history: the tasks pop() has won, in the order of the CAS

vars == <<m_head_pos, m_tail_pos, m_storage, pc, pos, task, taken>>

PCs == {"idle", "store", "load", "cas", "clear"}

Slots == 0 .. Capacity - 1

Slot(p) == p % Capacity

In(where) == {t \in Threads : pc[t] = where}

Init ==
    /\ m_head_pos = 0
    /\ m_tail_pos = 0
    /\ m_storage = [s \in Slots |-> Null]
    /\ pc = [t \in Threads |-> "idle"]
    /\ pos = [t \in Threads |-> 0]
    /\ task = [t \in Threads |-> Null]
    /\ taken = <<>>

-----------------------------------------------------------------------------
(***************************************************************************)
(* What the callers must guarantee before they push.  VERIFY2 in push()    *)
(* asserts it for the head; VERIFY in TaskAllocator::allocate() asserts it *)
(* for every position a thread has popped and not finished, because task   *)
(* memory is a ring of the same size.  Both assertions together are this   *)
(* operator with Spare = 0.                                                *)
(***************************************************************************)
MayPushHeadOnly == m_tail_pos + Spare < m_head_pos + Capacity   \* mutant
MayPushOneMore ==                                               \* mutant
    \A p \in {m_head_pos} \cup {pos[t] : t \in In("clear")} :
        m_tail_pos + Spare <= p + Capacity

MayPush ==
    \A p \in {m_head_pos} \cup {pos[t] : t \in In("clear")} :
        m_tail_pos + Spare < p + Capacity

\* push(): const auto task_pos = m_tail_pos.fetch_add(1)
PushClaim(t) ==
    /\ pc[t] = "idle"
    /\ m_tail_pos < MaxPush
    /\ MayPush
    /\ m_tail_pos' = m_tail_pos + 1
    /\ pos' = [pos EXCEPT ![t] = m_tail_pos]
    /\ pc' = [pc EXCEPT ![t] = "store"]
    /\ UNCHANGED <<m_head_pos, m_storage, task, taken>>

\* push(): m_storage[task_pos & MASK] = task
PushStore(t) ==
    /\ pc[t] = "store"
    /\ m_storage' = [m_storage EXCEPT ![Slot(pos[t])] = pos[t]]
    /\ pc' = [pc EXCEPT ![t] = "idle"]
    /\ UNCHANGED <<m_head_pos, m_tail_pos, pos, task, taken>>

\* pop(): size_t head_pos = m_head_pos.load()
PopLoadHead(t) ==
    /\ pc[t] = "idle"
    /\ pos' = [pos EXCEPT ![t] = m_head_pos]
    /\ pc' = [pc EXCEPT ![t] = "load"]
    /\ UNCHANGED <<m_head_pos, m_tail_pos, m_storage, task, taken>>

\* mutant: an empty slot is not recognised
PopLoadSlotUnchecked(t) ==
    /\ pc[t] = "load"
    /\ task' = [task EXCEPT ![t] = m_storage[Slot(pos[t])]]
    /\ pc' = [pc EXCEPT ![t] = "cas"]
    /\ UNCHANGED <<m_head_pos, m_tail_pos, m_storage, pos, taken>>

\* pop(): Task* task = m_storage[head_pos & MASK]; if (!task) return nullptr
PopLoadSlot(t) ==
    /\ pc[t] = "load"
    /\ task' = [task EXCEPT ![t] = m_storage[Slot(pos[t])]]
    /\ pc' = [pc EXCEPT ![t] =
                IF m_storage[Slot(pos[t])] = Null THEN "idle" ELSE "cas"]
    /\ UNCHANGED <<m_head_pos, m_tail_pos, m_storage, pos, taken>>

\* mutant: a plain store instead of the exchange
PopStoreHead(t) ==
    /\ pc[t] = "cas"
    /\ m_head_pos' = pos[t] + 1
    /\ taken' = Append(taken, task[t])
    /\ pc' = [pc EXCEPT ![t] = "clear"]
    /\ UNCHANGED <<m_tail_pos, m_storage, pos, task>>

\* pop(): compare_exchange_weak(head_pos, head_pos + 1) succeeds
PopCasOk(t) ==
    /\ pc[t] = "cas"
    /\ m_head_pos = pos[t]
    /\ m_head_pos' = pos[t] + 1
    /\ taken' = Append(taken, task[t])
    /\ pc' = [pc EXCEPT ![t] = "clear"]
    /\ UNCHANGED <<m_tail_pos, m_storage, pos, task>>

\* pop(): it fails, because the head moved or because a weak exchange may
PopCasFail(t) ==
    /\ pc[t] = "cas"
    /\ pc' = [pc EXCEPT ![t] = "idle"]
    /\ UNCHANGED <<m_head_pos, m_tail_pos, m_storage, pos, task, taken>>

\* mutant: clears the slot of the present head instead of the one it won
PopClearHead(t) ==
    /\ pc[t] = "clear"
    /\ m_storage' = [m_storage EXCEPT ![Slot(m_head_pos)] = Null]
    /\ pc' = [pc EXCEPT ![t] = "idle"]
    /\ UNCHANGED <<m_head_pos, m_tail_pos, pos, task, taken>>

\* pop(): m_storage[head_pos & MASK] = nullptr; return task
PopClear(t) ==
    /\ pc[t] = "clear"
    /\ m_storage' = [m_storage EXCEPT ![Slot(pos[t])] = Null]
    /\ pc' = [pc EXCEPT ![t] = "idle"]
    /\ UNCHANGED <<m_head_pos, m_tail_pos, pos, task, taken>>

Push(t) == PushClaim(t) \/ PushStore(t)

Pop(t) ==
    \/ PopLoadHead(t)
    \/ PopLoadSlot(t)
    \/ PopCasOk(t)
    \/ PopCasFail(t)
    \/ PopClear(t)

Next == \E t \in Threads : Push(t) \/ Pop(t)

Spec == Init /\ [][Next]_vars

-----------------------------------------------------------------------------
(***************************************************************************)
(* Properties.                                                             *)
(***************************************************************************)
TypeOK ==
    /\ m_head_pos \in Nat
    /\ m_tail_pos \in 0 .. MaxPush
    /\ m_storage \in [Slots -> Nat \cup {Null}]
    /\ pc \in [Threads -> PCs]
    /\ pos \in [Threads -> Nat]
    /\ task \in [Threads -> Nat \cup {Null}]
    /\ taken \in Seq(Nat)

\* No task is handed to two threads (VERIFY2 in Task::operator(): "The same
\* task was executed two times.").
TakenOnce == \A i, j \in DOMAIN taken : taken[i] = taken[j] => i = j

Storing == {pos[t] : t \in In("store")}
Clearing == {pos[t] : t \in In("clear")}

\* A pushed task that nobody has won yet is in its slot: neither a late
\* clear by a popper nor a push that came round the ring has destroyed it.
NoTaskLost ==
    \A p \in 0 .. m_tail_pos - 1 :
        \/ p \in Storing
        \/ \E i \in DOMAIN taken : taken[i] = p
        \/ m_storage[Slot(p)] = p

\* A store to a slot never destroys a task that is still to be handed out:
\* it fills an empty slot, or it empties the slot of a task already taken.
NoOverwrite ==
    [][\A s \in Slots :
        m_storage'[s] # m_storage[s] =>
            \/ m_storage[s] = Null
            \/ /\ m_storage'[s] = Null
               /\ \E i \in DOMAIN taken : taken[i] = m_storage[s]]_vars

(***************************************************************************)
(* The inductive invariant.  A slot holds a task of its own residue, and   *)
(* that task is either still to come or held by the thread that is about   *)
(* to clear the slot.  The spare slot is what keeps the head, which may    *)
(* catch up with the tail, from meeting such a half-taken task again one   *)
(* turn of the ring later.                                                 *)
(***************************************************************************)
HandedOutInOrder ==
    /\ Len(taken) = m_head_pos
    /\ \A i \in 1 .. m_head_pos : taken[i] = i - 1

RingBound ==
    /\ m_head_pos <= m_tail_pos
    /\ \A p \in {m_head_pos} \cup Clearing : m_tail_pos + Spare <= p + Capacity

SlotContents ==
    \A s \in Slots : m_storage[s] # Null =>
        /\ Slot(m_storage[s]) = s
        /\ m_storage[s] < m_tail_pos
        /\ m_storage[s] \notin Storing
        /\ m_storage[s] >= m_head_pos \/ m_storage[s] \in Clearing

PendingStored ==
    \A p \in m_head_pos .. m_tail_pos - 1 :
        p \in Storing \/ m_storage[Slot(p)] = p

PushersApart ==
    /\ \A t \in In("store") : pos[t] \in m_head_pos .. m_tail_pos - 1
    /\ \A t, u \in In("store") : pos[t] = pos[u] => t = u

PoppersApart ==
    /\ \A t \in In("load") : pos[t] <= m_head_pos
    /\ \A t \in In("cas") :
        /\ pos[t] <= m_head_pos
        /\ task[t] # Null
        /\ pos[t] = m_head_pos =>
            /\ task[t] = m_head_pos
            /\ m_storage[Slot(m_head_pos)] = m_head_pos
    /\ \A t \in In("clear") :
        /\ pos[t] < m_head_pos
        /\ m_storage[Slot(pos[t])] = pos[t]
    /\ \A t, u \in In("clear") : pos[t] = pos[u] => t = u

QueueInv ==
    /\ TypeOK
    /\ HandedOutInOrder
    /\ RingBound
    /\ SlotContents
    /\ PendingStored
    /\ PushersApart
    /\ PoppersApart

(***************************************************************************)
(* The ring implements the abstract queue: what is visible there is what   *)
(* has been claimed here and is no longer waiting for its store.           *)
(***************************************************************************)
Fifo == INSTANCE TaskFifo WITH
    claimed <- m_tail_pos,
    stored <- (0 .. m_tail_pos - 1) \ Storing,
    delivered <- taken

ImplementsFifo == Fifo!FifoSpec
=============================================================================
