-------------------------- MODULE ObjectListProofs --------------------------
(***************************************************************************)
(* The object list, for any number of objects and of threads that render   *)
(* them: the crows are collected without doubles although every worker     *)
(* has a list of its own, what has been made a crow is updated in time,    *)
(* and nothing that has been destroyed is left in a list.                  *)
(***************************************************************************)
EXTENDS EngineFrameProofs

ObjectRecords ==
    [list : {"none", "sleeping", "active"}, active : 0 .. MaxActive,
     parent : Objects \union {null}, bDestroy : BOOLEAN, crow : BOOLEAN,
     asCrow : BOOLEAN, updated : BOOLEAN, scheduled : BOOLEAN]
Renderings == [at : {"idle", "exchange", "push", "flag"}, obj : Objects \union {null}]

Typed ==
    /\ obj \in [Objects -> ObjectRecords]
    /\ m_primary_crows \in Seq(Objects) /\ workload \in Seq(Objects)
    /\ m_secondary_crows \in [Workers -> Seq(Objects)]
    /\ destroy_queue \in Seq(Objects)
    /\ phase \in {"events", "update", "destroy", "render"}
    /\ rendering \in [Workers -> Renderings]
    /\ events \in 0 .. MaxEvents
    /\ due \subseteq Objects /\ owed \subseteq Objects

\* What does not exist has no marks left, and no delegates.
Gone ==
    /\ \A o \in Objects : obj[o].list = "none" => obj[o] = NoObject
    /\ \A o \in Movers : obj[o].list = "none" => Untouched(path, o)

\* Attachment is one level deep, and nothing in it is marked for destruction.
Attached ==
    \A o \in Objects : obj[o].parent # null =>
       LET p == obj[o].parent
       IN  /\ p # o /\ obj[p].list # "none" /\ obj[p].parent = null
           /\ ~obj[o].bDestroy /\ ~obj[p].bDestroy

\* The destroy queue is the marked objects, and is emptied in its phase.
Destroyed ==
    /\ IsInjective(destroy_queue)
    /\ \A o \in Objects : o \in ToSet(destroy_queue) <=> obj[o].bDestroy
    /\ phase = "destroy" => destroy_queue # <<>>
    /\ phase = "render" => destroy_queue = <<>>

\* Worker w has won the exchange for o.
Won(w, o) == rendering[w].at \in {"push", "flag"} /\ rendering[w].obj = o

\* In MakeMeCrow(), one worker wins.
RendersAt(w) ==
    LET o == rendering[w].obj
    IN  /\ rendering[w].at = "idle" => o = null
        /\ rendering[w].at # "idle" =>
              phase = "render" /\ o \in Objects /\ obj[o].list # "none"
        /\ rendering[w].at = "exchange" => (obj[o].crow => obj[o].asCrow)
        /\ rendering[w].at \in {"push", "flag"} =>
              /\ obj[o].asCrow /\ ~obj[o].crow
              /\ \A v \in Workers : Won(v, o) => v = w
Renders == \A w \in Workers : RendersAt(w)

\* The lists of crows have no object in common.
Separate ==
    /\ IsInjective(m_primary_crows)
    /\ \A w \in Workers :
          /\ IsInjective(m_secondary_crows[w])
          /\ ToSet(m_primary_crows) \cap ToSet(m_secondary_crows[w]) = {}
          /\ \A v \in Workers \ {w} :
                ToSet(m_secondary_crows[v]) \cap ToSet(m_secondary_crows[w]) = {}

Crows == ToSet(m_primary_crows) \union UNION {ToSet(m_secondary_crows[w]) : w \in Workers}
Flagging(o) == \E w \in Workers : rendering[w].at = "flag" /\ rendering[w].obj = o

\* An object's flag says that it is in them, and its frame that it will be.
Flags ==
    \A o \in Objects :
       /\ o \in Crows <=> obj[o].crow \/ Flagging(o)
       /\ obj[o].asCrow => obj[o].crow \/ \E w \in Workers : Won(w, o)

\* What is due has its processing on and is a crow, or is about to be.
Dues ==
    \A o \in due :
       obj[o].active > 0 /\ (obj[o].crow \/ \E w \in Workers : rendering[w].obj = o)

\* What is owed is still ahead, and will not be skipped.
Work ==
    /\ phase = "update" <=> workload # <<>>
    /\ \A o \in ToSet(workload) : obj[o].list # "none"
    /\ phase # "update" => owed = {}
    /\ \A o \in owed : o \in ToSet(workload) /\ Updates(o)
    /\ phase = "events" => \A o \in Objects : ~obj[o].updated

ListInv ==
    /\ Typed /\ OnceInv
    /\ Gone /\ Attached /\ Destroyed
    /\ Renders /\ Separate /\ Flags
    /\ Dues /\ Work

-----------------------------------------------------------------------------
(* What Update() collects *)

LEMMA WorkersInOrder ==
    LET ws == SetToSeq(Workers)
        n == Cardinality(Workers)
    IN  /\ n \in Nat \ {0} /\ ws \in [1 .. n -> Workers] /\ IsInjective(ws)
        /\ \A w \in Workers : \E i \in 1 .. n : ws[i] = w
<1> DEFINE n == Cardinality(Workers)
           ws == SetToSeq(Workers)
<1>1. IsFiniteSet(Workers) /\ Workers # {}
  BY FrameAssumption
<1>2. n \in Nat /\ ExistsBijection(1 .. n, Workers)
  BY <1>1, FS_CardinalityType
<1>3. n # 0
  BY <1>1, FS_EmptySet
<1> HIDE DEF n
<1>4. ws = CHOOSE f \in [1 .. n -> Workers] : IsInjective(f)
  BY DEF SetToSeq, n
<1>5. PICK b : b \in Bijection(1 .. n, Workers)
  BY <1>2 DEF ExistsBijection
<1>6. b \in [1 .. n -> Workers] /\ IsInjective(b)
  BY <1>5 DEF Bijection, Injection
<1>7. ws \in [1 .. n -> Workers] /\ IsInjective(ws)
  <2> HIDE DEF ws
  <2> QED
    BY <1>4, <1>6
<1> HIDE DEF ws
<1>8. ws \in Injection(1 .. n, Workers)
  BY <1>7 DEF Injection
<1>9. IsFiniteSet(1 .. n) /\ Cardinality(1 .. n) = n
  BY <1>2, FS_Interval
<1>10. ws \in Surjection(1 .. n, Workers)
  BY <1>1, <1>8, <1>9, FS_Injection DEF n
<1> QED
  BY <1>2, <1>3, <1>7, <1>10 DEF Surjection, n, ws

\* Each crow is collected once.
LEMMA CollectedCrows ==
    ASSUME Typed, Separate
    PROVE  /\ Collected \in Seq(Objects) /\ IsInjective(Collected)
           /\ ToSet(Collected) = Crows
<1> DEFINE ws == SetToSeq(Workers)
           n == Cardinality(Workers)
           s == [i \in 1 .. n |-> m_secondary_crows[ws[i]]]
           c == FlattenSeq(s)
<1>1. /\ n \in Nat \ {0} /\ ws \in [1 .. n -> Workers] /\ IsInjective(ws)
      /\ \A w \in Workers : \E i \in 1 .. n : ws[i] = w
  BY WorkersInOrder
<1>2. Collected = m_primary_crows \o c
  <2>1. DOMAIN ws = 1 .. n
    BY <1>1
  <2> QED
    BY <2>1 DEF Collected
<1> HIDE DEF ws, n
<1>3. \A i, j \in 1 .. n : i # j => ws[i] # ws[j] /\ ws[i] \in Workers /\ ws[j] \in Workers
  BY <1>1 DEF IsInjective
<1>4. s \in [1 .. n -> Seq(Objects)]
  BY <1>1 DEF Typed
<1>5. \A i \in 1 .. n : IsInjective(s[i])
  BY <1>1 DEF Separate
<1>6. \A i, j \in 1 .. n : i # j => ToSet(s[i]) \cap ToSet(s[j]) = {}
  BY <1>3 DEF Separate
<1>7. UNION {ToSet(s[i]) : i \in 1 .. n} = UNION {ToSet(m_secondary_crows[w]) : w \in Workers}
  <2>1. \A i \in 1 .. n : ws[i] \in Workers /\ s[i] = m_secondary_crows[ws[i]]
    BY <1>1
  <2> HIDE DEF s
  <2> QED
    BY <1>1, <2>1
<1> HIDE DEF s
<1>8. /\ c \in Seq(Objects) /\ IsInjective(c)
      /\ ToSet(c) = UNION {ToSet(m_secondary_crows[w]) : w \in Workers}
  <2>1. n \in Nat \ {0}
    BY <1>1
  <2>2. /\ c \in Seq(Objects) /\ IsInjective(c)
        /\ ToSet(c) = UNION {ToSet(s[i]) : i \in 1 .. n}
    BY <2>1, <1>4, <1>5, <1>6, FlattenApart
  <2> QED
    BY <2>2, <1>7
<1> HIDE DEF c
<1>9. ToSet(m_primary_crows) \cap ToSet(c) = {}
  BY <1>8 DEF Separate
<1>10. m_primary_crows \in Seq(Objects) /\ IsInjective(m_primary_crows)
  BY DEF Typed, Separate
<1> QED
  BY <1>2, <1>8, <1>9, <1>10, ConcatApart DEF Crows

LEMMA CountedOnce ==
    ASSUME NEW s, IsInjective(s), NEW x
    PROVE  Occurrences(s, x) = IF x \in ToSet(s) THEN 1 ELSE 0
<1> DEFINE I == {i \in DOMAIN s : s[i] = x}
<1>1. \A i, j \in I : i = j
  BY DEF IsInjective
<1>2. CASE x \in ToSet(s)
  <2>1. PICK i \in I : TRUE
    BY <1>2 DEF ToSet
  <2>2. I = {i}
    BY <1>1
  <2> HIDE DEF I
  <2>3. Cardinality(I) = 1
    BY <2>2, FS_Singleton
  <2> QED
    BY <1>2, <2>3 DEF Occurrences, I
<1>3. CASE x \notin ToSet(s)
  <2>1. I = {}
    BY <1>3 DEF ToSet
  <2> HIDE DEF I
  <2>2. Cardinality(I) = 0
    BY <2>1, FS_EmptySet
  <2> QED
    BY <1>3, <2>2 DEF Occurrences, I
<1> QED
  BY <1>2, <1>3

-----------------------------------------------------------------------------
(***************************************************************************)
(* The main thread's handlers, while nobody renders.  A world fits when    *)
(* the flags of its objects say which are in its crows or another list.    *)
(***************************************************************************)
Worlds == [obj : [Objects -> ObjectRecords], crows : Seq(Objects), due : SUBSET Objects]

Others == ToSet(m_primary_crows)
             \union UNION {ToSet(m_secondary_crows[w]) : w \in Workers \ {Main}}

Fits(s) ==
    /\ s \in Worlds
    /\ IsInjective(s.crows) /\ ToSet(s.crows) \cap Others = {}
    /\ \A o \in Objects :
          /\ o \in ToSet(s.crows) \union Others <=> s.obj[o].crow
          /\ s.obj[o].asCrow => s.obj[o].crow
          /\ s.obj[o].list = "none" => s.obj[o] = NoObject
    /\ \A o \in s.due : s.obj[o].active > 0 /\ s.obj[o].crow

\* Of the objects a, only o changes, in what crows and processing are.
Changes(a, b, o) ==
    /\ \A u \in Objects \ {o} : b[u] = a[u]
    /\ b[o].parent = a[o].parent /\ b[o].bDestroy = a[o].bDestroy
    /\ b[o].updated = a[o].updated /\ b[o].scheduled = a[o].scheduled
    /\ b[o].list = "none" <=> a[o].list = "none"

LEMMA WorldFields ==
    ASSUME NEW s, s \in Worlds, NEW o \in Objects
    PROVE  /\ s.obj \in [Objects -> ObjectRecords] /\ s.crows \in Seq(Objects)
           /\ s.due \in SUBSET Objects /\ s.obj[o] \in ObjectRecords
           /\ s.obj[o].active \in Nat /\ s.obj[o].active \in Int
           /\ s.obj[o].active \in 0 .. MaxActive
           /\ s.obj[o].crow \in BOOLEAN /\ s.obj[o].asCrow \in BOOLEAN
<1>1. /\ s.obj \in [Objects -> ObjectRecords] /\ s.crows \in Seq(Objects)
      /\ s.due \in SUBSET Objects
  BY DEF Worlds
<1>2. s.obj[o] \in ObjectRecords
  BY <1>1
<1>3. /\ s.obj[o].active \in 0 .. MaxActive
      /\ s.obj[o].crow \in BOOLEAN /\ s.obj[o].asCrow \in BOOLEAN
  BY <1>2 DEF ObjectRecords
<1> QED
  BY <1>1, <1>2, <1>3, FrameAssumption

\* One object becomes r.
Put(s, o, r) == [s EXCEPT !.obj[o] = r]

MayPut(s, o, r) ==
    /\ r \in ObjectRecords
    /\ r.crow = s.obj[o].crow /\ r.asCrow = s.obj[o].asCrow
    /\ r.list = "none" => r = NoObject
    /\ o \in s.due => r.active > 0

LEMMA RecordFits ==
    ASSUME NEW s, Fits(s), NEW o \in Objects, NEW r, MayPut(s, o, r)
    PROVE  /\ Fits(Put(s, o, r)) /\ Put(s, o, r).due = s.due
           /\ Put(s, o, r).obj[o] = r
           /\ \A u \in Objects \ {o} : Put(s, o, r).obj[u] = s.obj[u]
<1> DEFINE t == Put(s, o, r)
           a == [s.obj EXCEPT ![o] = r]
<1>0. /\ r \in ObjectRecords
      /\ r.crow = s.obj[o].crow /\ r.asCrow = s.obj[o].asCrow
      /\ r.list = "none" => r = NoObject
      /\ o \in s.due => r.active > 0
  BY DEF MayPut
<1>1. s \in Worlds /\ s.obj \in [Objects -> ObjectRecords]
  BY WorldFields DEF Fits
<1>2. a \in [Objects -> ObjectRecords] /\ a[o] = r
      /\ \A u \in Objects \ {o} : a[u] = s.obj[u]
  BY <1>0, <1>1
<1>3. t = [s EXCEPT !.obj = a]
  BY <1>1 DEF Worlds, Put
<1> HIDE DEF a, t
<1>4. t \in Worlds /\ t.obj = a /\ t.crows = s.crows /\ t.due = s.due
  BY <1>1, <1>2, <1>3 DEF Worlds
<1>5. ASSUME NEW u \in Objects
      PROVE  /\ u \in ToSet(t.crows) \union Others <=> t.obj[u].crow
             /\ t.obj[u].asCrow => t.obj[u].crow
             /\ t.obj[u].list = "none" => t.obj[u] = NoObject
  <2>1. CASE u = o
    BY <1>0, <1>2, <1>4, <2>1 DEF Fits
  <2>2. CASE u # o
    BY <1>2, <1>4, <2>2 DEF Fits
  <2> QED
    BY <2>1, <2>2
<1>6. ASSUME NEW u \in t.due
      PROVE  t.obj[u].active > 0 /\ t.obj[u].crow
  <2>1. u \in Objects /\ u \in s.due /\ s.obj[u].active > 0 /\ s.obj[u].crow
    BY <1>1, <1>4 DEF Fits, Worlds
  <2>2. CASE u = o
    BY <1>0, <1>2, <1>4, <2>1, <2>2
  <2>3. CASE u # o
    BY <1>2, <1>4, <2>1, <2>3
  <2> QED
    BY <2>2, <2>3
<1>7. IsInjective(t.crows) /\ ToSet(t.crows) \cap Others = {}
  BY <1>4 DEF Fits
<1>8. Fits(t)
  BY <1>4, <1>5, <1>6, <1>7 DEF Fits
<1> QED
  BY <1>2, <1>4, <1>8 DEF a, t

\* What MakeMeCrow() does to an object that is no crow yet.
Marked(s, o) ==
    [s EXCEPT !.obj[o].crow = TRUE, !.obj[o].asCrow = TRUE, !.crows = Append(@, o)]
MarkedRecord(q) == [q EXCEPT !.crow = TRUE, !.asCrow = TRUE]

LEMMA MarkedCrow ==
    ASSUME NEW a \in [Objects -> ObjectRecords], NEW c, NEW d, NEW o \in Objects
    PROVE  Marked([obj |-> a, crows |-> c, due |-> d], o)
             = [obj |-> [a EXCEPT ![o] = MarkedRecord(a[o])],
                crows |-> Append(c, o), due |-> d]
<1> DEFINE w == [obj |-> a, crows |-> c, due |-> d]
           q == [a EXCEPT ![o] = [a[o] EXCEPT !.crow = TRUE]]
           r == [a EXCEPT ![o] = [a[o] EXCEPT !.crow = TRUE, !.asCrow = TRUE]]
<1>1. [q EXCEPT ![o].asCrow = TRUE] = r
  OBVIOUS
<1>2. [w EXCEPT !.obj = q] = [obj |-> q, crows |-> c, due |-> d]
  <2> HIDE DEF q
  <2> QED
    OBVIOUS
<1> DEFINE v == [obj |-> q, crows |-> c, due |-> d]
           u == [obj |-> r, crows |-> c, due |-> d]
<1>3. [v EXCEPT !.obj[o].asCrow = TRUE] = u
  <2> HIDE DEF r, q
  <2>1. [v EXCEPT !.obj = r] = u /\ v.obj = q
    OBVIOUS
  <2> HIDE DEF v, u
  <2> QED
    BY <1>1, <2>1
<1>4. [u EXCEPT !.crows = Append(@, o)] = [obj |-> r, crows |-> Append(c, o), due |-> d]
  <2> DEFINE k == Append(c, o)
  <2> HIDE DEF r, k
  <2>1. [u EXCEPT !.crows = k] = [obj |-> r, crows |-> k, due |-> d] /\ u.crows = c
    OBVIOUS
  <2> HIDE DEF u
  <2> QED
    BY <2>1 DEF k
<1>5. [w EXCEPT !.obj[o].crow = TRUE] = [obj |-> q, crows |-> c, due |-> d]
  BY <1>2
<1>6. [w EXCEPT !.obj[o].crow = TRUE, !.obj[o].asCrow = TRUE, !.crows = Append(@, o)]
        = [[[w EXCEPT !.obj[o].crow = TRUE] EXCEPT !.obj[o].asCrow = TRUE]
              EXCEPT !.crows = Append(@, o)]
  <2> HIDE DEF w
  <2> QED
    OBVIOUS
<1> HIDE DEF u, v
<1>7. [[[w EXCEPT !.obj[o].crow = TRUE] EXCEPT !.obj[o].asCrow = TRUE]
         EXCEPT !.crows = Append(@, o)] = [obj |-> r, crows |-> Append(c, o), due |-> d]
  <2> HIDE DEF w, r
  <2>1. [w EXCEPT !.obj[o].crow = TRUE] = v
    BY <1>5 DEF v
  <2> QED
    BY <1>3, <1>4, <2>1
<1> QED
  BY <1>6, <1>7 DEF Marked, MarkedRecord

LEMMA CrowRecord ==
    ASSUME NEW q \in ObjectRecords
    PROVE  LET r == MarkedRecord(q)
           IN  /\ r \in ObjectRecords /\ r.crow /\ r.asCrow /\ r.list = q.list
               /\ r.active = q.active /\ r.parent = q.parent
               /\ r.bDestroy = q.bDestroy /\ r.updated = q.updated
               /\ r.scheduled = q.scheduled
BY DEF ObjectRecords, MarkedRecord

\* An object that is made a crow is listed once.
LEMMA CrowFits ==
    ASSUME NEW s, Fits(s), NEW o \in Objects
    PROVE  LET t == MakeMeCrow(s, o)
           IN  /\ Fits(t) /\ Changes(s.obj, t.obj, o)
               /\ t.obj[o].active = s.obj[o].active
<1> DEFINE d == [s EXCEPT !.due = @ \union {o}]
           r == MarkedRecord(s.obj[o])
           a == [s.obj EXCEPT ![o] = r]
           c == Append(s.crows, o)
           e == s.due \union {o}
<1>1. /\ s \in Worlds /\ s.obj \in [Objects -> ObjectRecords] /\ s.crows \in Seq(Objects)
      /\ s.due \in SUBSET Objects /\ s.obj[o] \in ObjectRecords
      /\ s.obj[o].active \in Nat
  BY WorldFields DEF Fits
<1>2. CASE s.obj[o].active = 0
  BY <1>1, <1>2 DEF MakeMeCrow, Changes
<1>3. CASE s.obj[o].active # 0 /\ (s.obj[o].crow \/ s.obj[o].asCrow)
  <2>1. MakeMeCrow(s, o) = d
    BY <1>3 DEF MakeMeCrow
  <2>2. s.obj[o].crow /\ s.obj[o].active > 0
    BY <1>1, <1>3 DEF Fits
  <2>3. d \in Worlds /\ d.obj = s.obj /\ d.crows = s.crows /\ d.due = e
    BY <1>1 DEF Worlds
  <2> HIDE DEF d
  <2>4. Fits(d)
    BY <2>2, <2>3 DEF Fits
  <2> QED
    BY <2>1, <2>3, <2>4 DEF Changes
<1>4. CASE s.obj[o].active # 0 /\ ~s.obj[o].crow /\ ~s.obj[o].asCrow
  <2>1. MakeMeCrow(s, o) = Marked(d, o)
    BY <1>4 DEF MakeMeCrow, Marked
  <2>2. s = [obj |-> s.obj, crows |-> s.crows, due |-> s.due]
    BY <1>1 DEF Worlds
  <2>3. MakeMeCrow(s, o) = [obj |-> a, crows |-> c, due |-> e]
    <3>1. d = [obj |-> s.obj, crows |-> s.crows, due |-> e]
      BY <2>2
    <3> HIDE DEF d, e
    <3>2. Marked([obj |-> s.obj, crows |-> s.crows, due |-> e], o)
             = [obj |-> a, crows |-> c, due |-> e]
      BY <1>1, MarkedCrow, SMTT(30)
    <3> HIDE DEF a, c
    <3> QED
      BY <2>1, <3>1, <3>2
  <2>4. /\ r \in ObjectRecords /\ r.crow /\ r.asCrow /\ r.list = s.obj[o].list
        /\ r.active = s.obj[o].active /\ r.active > 0 /\ r.parent = s.obj[o].parent
        /\ r.bDestroy = s.obj[o].bDestroy /\ r.updated = s.obj[o].updated
        /\ r.scheduled = s.obj[o].scheduled
    <3>1. s.obj[o] \in ObjectRecords /\ s.obj[o].active > 0
      BY <1>1, <1>4
    <3> QED
      BY <3>1, CrowRecord
  <2> HIDE DEF r
  <2>5. /\ a \in [Objects -> ObjectRecords] /\ a[o] = r
        /\ \A u \in Objects \ {o} : a[u] = s.obj[u]
    BY <1>1, <2>4
  <2>6. o \notin ToSet(s.crows) /\ o \notin Others
    BY <1>4 DEF Fits
  <2>7. c \in Seq(Objects) /\ ToSet(c) = ToSet(s.crows) \union {o} /\ IsInjective(c)
    BY <1>1, <2>6, AppendToSet, AppendProperties DEF Fits
  <2>8. s.obj[o].list # "none"
    BY <1>4 DEF Fits, NoObject
  <2> HIDE DEF a, c
  <2> DEFINE t == [obj |-> a, crows |-> c, due |-> e]
  <2>9. t \in Worlds /\ t.obj = a /\ t.crows = c /\ t.due = e
    BY <1>1, <2>5, <2>7 DEF Worlds
  <2> HIDE DEF t
  <2>10. ASSUME NEW u \in Objects
         PROVE  /\ u \in ToSet(t.crows) \union Others <=> t.obj[u].crow
                /\ t.obj[u].asCrow => t.obj[u].crow
                /\ t.obj[u].list = "none" => t.obj[u] = NoObject
    <3>1. CASE u = o
      BY <2>4, <2>5, <2>7, <2>8, <2>9, <3>1
    <3>2. CASE u # o
      BY <2>5, <2>7, <2>9, <3>2 DEF Fits
    <3> QED
      BY <3>1, <3>2
  <2>11. ASSUME NEW u \in t.due
         PROVE  t.obj[u].active > 0 /\ t.obj[u].crow
    <3>1. CASE u = o
      BY <2>4, <2>5, <2>9, <3>1
    <3>2. CASE u # o
      BY <1>1, <2>5, <2>9, <3>2 DEF Fits
    <3> QED
      BY <3>1, <3>2
  <2>12. IsInjective(t.crows) /\ ToSet(t.crows) \cap Others = {}
    BY <2>6, <2>7, <2>9 DEF Fits
  <2>13. Fits(t)
    BY <2>9, <2>10, <2>11, <2>12 DEF Fits
  <2>14. Changes(s.obj, t.obj, o)
    BY <2>4, <2>5, <2>9 DEF Changes
  <2> QED
    BY <2>3, <2>4, <2>5, <2>9, <2>13, <2>14 DEF t
<1> QED
  BY <1>1, <1>2, <1>3, <1>4 DEF Fits, Worlds

LEMMA CountedRecord ==
    ASSUME NEW q \in ObjectRecords, NEW n \in 0 .. MaxActive
    PROVE  LET r == [q EXCEPT !.active = n]
           IN  /\ r \in ObjectRecords /\ r.active = n /\ r.list = q.list
               /\ r.crow = q.crow /\ r.asCrow = q.asCrow /\ r.parent = q.parent
               /\ r.bDestroy = q.bDestroy /\ r.updated = q.updated
               /\ r.scheduled = q.scheduled
BY DEF ObjectRecords

LEMMA NoObjectFields ==
    /\ NoObject \in ObjectRecords /\ NoObject.active = 0 /\ NoObject.parent = null
    /\ NoObject.list = "none" /\ NoObject.crow = FALSE /\ NoObject.asCrow = FALSE
    /\ NoObject.bDestroy = FALSE /\ NoObject.updated = FALSE
    /\ NoObject.scheduled = FALSE
<1>1. 0 \in 0 .. MaxActive
  BY FrameAssumption
<1> QED
  BY <1>1 DEF NoObject, ObjectRecords

LEMMA MovedRecord ==
    ASSUME NEW q \in ObjectRecords, NEW l \in {"sleeping", "active"}
    PROVE  LET r == [q EXCEPT !.list = l]
           IN  /\ r \in ObjectRecords /\ r.active = q.active /\ r.list = l
               /\ r.crow = q.crow /\ r.asCrow = q.asCrow /\ r.parent = q.parent
               /\ r.bDestroy = q.bDestroy /\ r.updated = q.updated
               /\ r.scheduled = q.scheduled
BY DEF ObjectRecords

LEMMA ChangesThrough ==
    ASSUME NEW a, NEW b, NEW c, NEW o \in Objects, Changes(a, b, o), Changes(b, c, o)
    PROVE  Changes(a, c, o)
BY DEF Changes

\* One more or less that keeps the processing on.
LEMMA CountFits ==
    ASSUME NEW s, Fits(s), NEW o \in Objects, s.obj[o].list # "none",
           NEW n \in 0 .. MaxActive, o \in s.due => n > 0
    PROVE  LET t == [s EXCEPT !.obj[o].active = n]
           IN  /\ Fits(t) /\ Changes(s.obj, t.obj, o) /\ t.due = s.due
               /\ t.obj[o].active = n /\ t.obj[o].list # "none"
<1> DEFINE q == s.obj[o]
           r == [q EXCEPT !.active = n]
           t == [s EXCEPT !.obj[o].active = n]
<1>1. q \in ObjectRecords
  BY WorldFields DEF Fits
<1>2. t = Put(s, o, r)
  BY DEF Put
<1>3. /\ r \in ObjectRecords /\ r.active = n /\ r.list = q.list
      /\ r.crow = q.crow /\ r.asCrow = q.asCrow /\ r.parent = q.parent
      /\ r.bDestroy = q.bDestroy /\ r.updated = q.updated /\ r.scheduled = q.scheduled
  BY <1>1, CountedRecord
<1> HIDE DEF r, t
<1>4. /\ Fits(Put(s, o, r)) /\ Put(s, o, r).due = s.due
      /\ Put(s, o, r).obj[o] = r
      /\ \A u \in Objects \ {o} : Put(s, o, r).obj[u] = s.obj[u]
  <2>1. MayPut(s, o, r)
    BY <1>3 DEF MayPut
  <2> QED
    BY <2>1, RecordFits
<1> QED
  BY <1>2, <1>3, <1>4 DEF Changes, t

\* o_activate() and o_sleep() move the object to a list.
LEMMA MoveFits ==
    ASSUME NEW s, Fits(s), NEW o \in Objects, s.obj[o].list # "none",
           NEW l \in {"sleeping", "active"}
    PROVE  LET t == [s EXCEPT !.obj[o].list = l]
           IN  /\ Fits(t) /\ Changes(s.obj, t.obj, o) /\ t.due = s.due
               /\ t.obj[o].active = s.obj[o].active /\ t.obj[o].list # "none"
<1> DEFINE q == s.obj[o]
           r == [q EXCEPT !.list = l]
           t == [s EXCEPT !.obj[o].list = l]
<1>1. q \in ObjectRecords /\ q.active \in 0 .. MaxActive /\ (o \in s.due => q.active > 0)
  BY WorldFields DEF Fits
<1>2. t = Put(s, o, r)
  BY DEF Put
<1>3. /\ r \in ObjectRecords /\ r.active = q.active /\ r.list = l
      /\ r.crow = q.crow /\ r.asCrow = q.asCrow /\ r.parent = q.parent
      /\ r.bDestroy = q.bDestroy /\ r.updated = q.updated /\ r.scheduled = q.scheduled
  BY <1>1, MovedRecord
<1> HIDE DEF r, t
<1>4. /\ Fits(Put(s, o, r)) /\ Put(s, o, r).due = s.due
      /\ Put(s, o, r).obj[o] = r
      /\ \A u \in Objects \ {o} : Put(s, o, r).obj[u] = s.obj[u]
  <2>1. MayPut(s, o, r)
    BY <1>1, <1>3 DEF MayPut
  <2> QED
    BY <2>1, RecordFits
<1> QED
  BY <1>2, <1>3, <1>4 DEF Changes, t

LEMMA ActivateFits ==
    ASSUME NEW s, Fits(s), NEW o \in Objects, s.obj[o].list # "none",
           s.obj[o].active < MaxActive
    PROVE  LET t == processing_activate(s, o) IN Fits(t) /\ Changes(s.obj, t.obj, o)
<1> DEFINE n == s.obj[o].active + 1
           t == [s EXCEPT !.obj[o].active = n]
           u == [t EXCEPT !.obj[o].list = "active"]
<1>1. n \in 0 .. MaxActive /\ n > 0
  BY WorldFields, FrameAssumption DEF Fits
<1>2. processing_activate(s, o) \in {t, MakeMeCrow(u, o)}
  BY DEF processing_activate
<1> HIDE DEF n
<1>3. Fits(t) /\ Changes(s.obj, t.obj, o) /\ t.obj[o].list # "none"
  BY <1>1, CountFits
<1> HIDE DEF t
<1>4. Fits(u) /\ Changes(t.obj, u.obj, o)
  BY <1>3, MoveFits
<1> HIDE DEF u
<1>5. Fits(MakeMeCrow(u, o)) /\ Changes(u.obj, MakeMeCrow(u, o).obj, o)
  BY <1>4, CrowFits
<1>6. Changes(s.obj, u.obj, o)
  BY <1>3, <1>4, ChangesThrough
<1>7. Changes(s.obj, MakeMeCrow(u, o).obj, o)
  BY <1>5, <1>6, ChangesThrough
<1> QED
  BY <1>2, <1>3, <1>5, <1>7

\* An object that sleeps is no longer due.
LEMMA DeactivateFits ==
    ASSUME NEW s, Fits(s), NEW o \in Objects, s.obj[o].active > 0
    PROVE  LET t == processing_deactivate(s, o) IN Fits(t) /\ Changes(s.obj, t.obj, o)
<1> DEFINE n == s.obj[o].active - 1
           p == [s EXCEPT !.due = @ \ {o}]
           t == [s EXCEPT !.obj[o].active = n]
           u == [[p EXCEPT !.obj[o].active = n] EXCEPT !.obj[o].list = "sleeping"]
<1>1. n \in 0 .. MaxActive /\ s.obj[o].active \in Nat /\ s \in Worlds
  BY WorldFields, FrameAssumption DEF Fits
<1>2. s.obj[o].list # "none"
  BY DEF Fits, NoObject
<1>3. CASE s.obj[o].active # 1
  <2>1. processing_deactivate(s, o) = t /\ n > 0
    BY <1>1, <1>3 DEF processing_deactivate
  <2> HIDE DEF n
  <2>2. Fits(t) /\ Changes(s.obj, t.obj, o)
    BY <1>1, <1>2, <2>1, CountFits
  <2> QED
    BY <2>1, <2>2
<1>4. CASE s.obj[o].active = 1
  <2>1. processing_deactivate(s, o) = u
    <3>1. processing_deactivate(s, o) = [t EXCEPT !.obj[o].list = "sleeping", !.due = @ \ {o}]
      BY <1>4 DEF processing_deactivate
    <3> HIDE DEF n
    <3>2. [[s EXCEPT !.obj[o].active = n] EXCEPT !.obj[o].list = "sleeping",
                                                 !.due = @ \ {o}]
            = [[[s EXCEPT !.due = @ \ {o}] EXCEPT !.obj[o].active = n]
                 EXCEPT !.obj[o].list = "sleeping"]
      BY <1>1 DEF Worlds
    <3> QED
      BY <3>1, <3>2
  <2>2. p \in Worlds /\ p.obj = s.obj /\ p.crows = s.crows /\ p.due = s.due \ {o}
    BY <1>1 DEF Worlds
  <2> HIDE DEF p
  <2>3. Fits(p) /\ o \notin p.due
    BY <2>2 DEF Fits
  <2> DEFINE v == [p EXCEPT !.obj[o].active = n]
  <2> HIDE DEF n
  <2>4. Fits(v) /\ Changes(p.obj, v.obj, o) /\ v.obj[o].list # "none"
    BY <1>1, <1>2, <2>2, <2>3, CountFits, SMTT(30)
  <2> HIDE DEF v
  <2>5. Fits([v EXCEPT !.obj[o].list = "sleeping"])
        /\ Changes(v.obj, [v EXCEPT !.obj[o].list = "sleeping"].obj, o)
    BY <2>4, MoveFits
  <2>6. u = [v EXCEPT !.obj[o].list = "sleeping"]
    BY DEF v
  <2> HIDE DEF u
  <2>7. Fits(u) /\ Changes(p.obj, u.obj, o)
    BY <2>4, <2>5, <2>6, ChangesThrough
  <2> QED
    BY <2>1, <2>2, <2>7
<1> QED
  BY <1>3, <1>4

-----------------------------------------------------------------------------
(* The invariant and the world of the main thread *)

NoRendering == \A w \in Workers : rendering[w] = Idle

LEMMA NobodyRenders ==
    ASSUME Typed, Renders, phase # "render"
    PROVE  NoRendering
<1> SUFFICES ASSUME NEW w \in Workers PROVE rendering[w] = Idle
  BY DEF NoRendering
<1>1. rendering[w] \in Renderings
  BY DEF Typed
<1>2. rendering[w].at = "idle" /\ rendering[w].obj = null
  BY DEF Renders, RendersAt
<1> QED
  BY <1>1, <1>2 DEF Renderings, Idle

LEMMA CrowsSplit ==
    Crows = ToSet(m_secondary_crows[Main]) \union Others
BY FrameAssumption DEF Crows, Others

LEMMA WorldFits ==
    ASSUME Typed, Gone, Separate, Flags, Dues, NoRendering
    PROVE  Fits(World) /\ World.obj = obj
<1>1. World \in Worlds /\ World.obj = obj /\ World.due = due
      /\ World.crows = m_secondary_crows[Main]
  BY FrameAssumption DEF World, Worlds, Typed
<1>2. IsInjective(World.crows) /\ ToSet(World.crows) \cap Others = {}
  <2>1. IsInjective(m_secondary_crows[Main])
    BY FrameAssumption DEF Separate
  <2>2. ToSet(m_secondary_crows[Main]) \cap ToSet(m_primary_crows) = {}
    BY FrameAssumption DEF Separate
  <2>3. \A w \in Workers \ {Main} :
           ToSet(m_secondary_crows[Main]) \cap ToSet(m_secondary_crows[w]) = {}
    BY FrameAssumption DEF Separate
  <2> QED
    BY <1>1, <2>1, <2>2, <2>3 DEF Others
<1>3. \A w \in Workers : rendering[w].at = "idle" /\ rendering[w].obj = null
  BY DEF NoRendering, Idle
<1>4. \A o \in Objects : ~Flagging(o) /\ ~ \E w \in Workers : Won(w, o)
  BY <1>3 DEF Flagging, Won
<1>5. \A o \in Objects :
         /\ o \in ToSet(World.crows) \union Others <=> obj[o].crow
         /\ obj[o].asCrow => obj[o].crow
         /\ obj[o].list = "none" => obj[o] = NoObject
  BY <1>1, <1>4, CrowsSplit DEF Flags, Gone
<1>6. \A o \in due : obj[o].active > 0 /\ obj[o].crow
  <2> SUFFICES ASSUME NEW o \in due PROVE obj[o].active > 0 /\ obj[o].crow
    OBVIOUS
  <2>1. o \in Objects /\ o # null
    BY FrameAssumption DEF Typed
  <2> QED
    BY <1>3, <2>1 DEF Dues
<1> QED
  BY <1>1, <1>2, <1>5, <1>6 DEF Fits

\* After an operation of the main thread, its world fits again.
LEMMA BecomesFits ==
    ASSUME Typed, Separate, NoRendering, NEW t, Fits(t), Becomes(t),
           UNCHANGED <<m_primary_crows, rendering>>
    PROVE  /\ obj' \in [Objects -> ObjectRecords]
           /\ m_secondary_crows' \in [Workers -> Seq(Objects)]
           /\ due' \in SUBSET Objects
           /\ Renders' /\ Separate' /\ Flags' /\ Dues'
           /\ \A o \in Objects : obj'[o].list = "none" => obj'[o] = NoObject
<1>1. /\ t.obj \in [Objects -> ObjectRecords] /\ t.crows \in Seq(Objects)
      /\ t.due \in SUBSET Objects
  BY DEF Fits, Worlds
<1>2. obj' = t.obj /\ due' = t.due
      /\ m_secondary_crows' = [m_secondary_crows EXCEPT ![Main] = t.crows]
  BY DEF Becomes
<1>3. /\ m_secondary_crows' \in [Workers -> Seq(Objects)]
      /\ m_secondary_crows'[Main] = t.crows
      /\ \A w \in Workers \ {Main} : m_secondary_crows'[w] = m_secondary_crows[w]
  BY <1>1, <1>2, FrameAssumption DEF Typed
<1>4. \A w \in Workers : rendering'[w].at = "idle" /\ rendering'[w].obj = null
  BY DEF NoRendering, Idle
<1>5. Renders'
  BY <1>4 DEF Renders, RendersAt
<1>6. Separate'
  <2>1. IsInjective(m_primary_crows')
    BY DEF Separate
  <2>2. /\ IsInjective(t.crows)
        /\ ToSet(t.crows) \cap ToSet(m_primary_crows) = {}
        /\ \A w \in Workers \ {Main} : ToSet(t.crows) \cap ToSet(m_secondary_crows[w]) = {}
    BY DEF Fits, Others
  <2>3. ASSUME NEW w \in Workers
        PROVE  /\ IsInjective(m_secondary_crows'[w])
               /\ ToSet(m_primary_crows') \cap ToSet(m_secondary_crows'[w]) = {}
               /\ \A v \in Workers \ {w} :
                     ToSet(m_secondary_crows'[v]) \cap ToSet(m_secondary_crows'[w]) = {}
    <3>1. CASE w = Main
      BY <1>3, <2>2, <3>1
    <3>2. CASE w # Main
      <4>1. /\ IsInjective(m_secondary_crows[w])
            /\ ToSet(m_primary_crows) \cap ToSet(m_secondary_crows[w]) = {}
            /\ \A v \in Workers \ {w} :
                  ToSet(m_secondary_crows[v]) \cap ToSet(m_secondary_crows[w]) = {}
        BY DEF Separate
      <4> QED
        BY <1>3, <2>2, <3>2, <4>1
    <3> QED
      BY <3>1, <3>2
  <2> QED
    BY <2>1, <2>3 DEF Separate
<1>7. Crows' = ToSet(t.crows) \union Others
  <2>1. Crows' = ToSet(m_primary_crows')
                   \union UNION {ToSet(m_secondary_crows'[w]) : w \in Workers}
    BY DEF Crows
  <2> QED
    BY <1>3, <2>1, FrameAssumption DEF Others
<1>8. \A o \in Objects : ~Flagging(o)'
  BY <1>4 DEF Flagging
<1>9. Flags' /\ Dues' /\ \A o \in Objects : obj'[o].list = "none" => obj'[o] = NoObject
  BY <1>2, <1>7, <1>8 DEF Fits, Flags, Dues
<1> QED
  BY <1>1, <1>2, <1>3, <1>5, <1>6, <1>9

-----------------------------------------------------------------------------
(* Events *)

LEMMA EventKeeps ==
    ASSUME ListInv, OnceInv', Event, NEW t, Fits(t), Becomes(t),
           destroy_queue' \in Seq(Objects),
           \A o \in Objects : ~obj'[o].updated,
           \A o \in Movers : obj'[o].list = "none" => Untouched(path', o),
           Attached', Destroyed'
    PROVE  ListInv'
<1>1. /\ Typed /\ Renders /\ Separate /\ Work
      /\ phase = "events" /\ phase' = "events" /\ events' = events - 1 /\ events > 0
      /\ UNCHANGED <<m_primary_crows, workload, rendering, owed>>
  BY DEF ListInv, Event
<1>2. NoRendering
  BY <1>1, NobodyRenders
<1>3. /\ obj' \in [Objects -> ObjectRecords]
      /\ m_secondary_crows' \in [Workers -> Seq(Objects)]
      /\ due' \in SUBSET Objects
      /\ Renders' /\ Separate' /\ Flags' /\ Dues'
      /\ \A o \in Objects : obj'[o].list = "none" => obj'[o] = NoObject
  BY <1>1, <1>2, BecomesFits
<1>4. events' \in 0 .. MaxEvents
  BY <1>1, FrameAssumption DEF Typed
<1>5. Typed'
  BY <1>1, <1>3, <1>4 DEF Typed
<1>6. Gone'
  <2>1. \A o : Untouched(path, o)' <=> Untouched(path', o)
    BY DEF Untouched, Queued
  <2> QED
    BY <1>3, <2>1 DEF Gone
<1>7. Work'
  <2>1. workload = <<>> /\ owed = {}
    BY <1>1 DEF Work
  <2>2. workload' = <<>> /\ owed' = {} /\ ToSet(workload') = {}
    BY <1>1, <2>1 DEF ToSet
  <2> QED
    BY <1>1, <2>2 DEF Work
<1> QED
  BY <1>3, <1>5, <1>6, <1>7 DEF ListInv

LEMMA EventWorld ==
    ASSUME ListInv, phase = "events"
    PROVE  /\ Fits(World) /\ World.obj = obj
           /\ obj \in [Objects -> ObjectRecords]
           /\ \A o \in Objects : obj[o] \in ObjectRecords /\ ~obj[o].updated
<1>1. NoRendering
  BY NobodyRenders DEF ListInv
<1> QED
  BY <1>1, WorldFits DEF ListInv, Typed, Work

\* What events that only concern processing leave alone.
SameTree(a, b) ==
    \A o \in Objects :
       /\ b[o].parent = a[o].parent /\ b[o].bDestroy = a[o].bDestroy
       /\ b[o].list = "none" <=> a[o].list = "none"

LEMMA AttachedKept ==
    ASSUME Attached, obj \in [Objects -> ObjectRecords], SameTree(obj, obj')
    PROVE  Attached'
<1> SUFFICES ASSUME NEW o \in Objects, obj'[o].parent # null
             PROVE  LET p == obj'[o].parent
                    IN  /\ p # o /\ obj'[p].list # "none" /\ obj'[p].parent = null
                        /\ ~obj'[o].bDestroy /\ ~obj'[p].bDestroy
  BY DEF Attached
<1>1. obj'[o].parent = obj[o].parent /\ obj'[o].bDestroy = obj[o].bDestroy
  BY DEF SameTree
<1> DEFINE p == obj[o].parent
<1>2. p # null /\ p \in Objects
  BY <1>1 DEF ObjectRecords
<1>3. p # o /\ obj[p].list # "none" /\ obj[p].parent = null
      /\ ~obj[o].bDestroy /\ ~obj[p].bDestroy
  BY <1>2 DEF Attached
<1>4. obj'[p].parent = obj[p].parent /\ obj'[p].bDestroy = obj[p].bDestroy
      /\ (obj'[p].list = "none" <=> obj[p].list = "none")
  BY <1>2 DEF SameTree
<1> QED
  BY <1>1, <1>3, <1>4

LEMMA TreeKept ==
    ASSUME Attached, Destroyed, obj \in [Objects -> ObjectRecords], SameTree(obj, obj'),
           destroy_queue' = destroy_queue, phase' = phase
    PROVE  Attached' /\ Destroyed'
<1>1. Destroyed'
  BY DEF Destroyed, SameTree
<1> QED
  BY <1>1, AttachedKept

LEMMA ChangesTree ==
    ASSUME NEW o \in Objects, NEW a, NEW b, Changes(a, b, o)
    PROVE  SameTree(a, b)
BY DEF Changes, SameTree

\* The path is left alone.
LEMMA PathLeft ==
    ASSUME ListInv, path' = path, SameTree(obj, obj')
    PROVE  \A o \in Movers : obj'[o].list = "none" => Untouched(path', o)
BY FrameAssumption DEF ListInv, Gone, SameTree

LEMMA ProcessingLists ==
    ASSUME ListInv, OnceInv', NEW o \in Objects, Activate(o) \/ Deactivate(o)
    PROVE  ListInv'
<1>1. /\ Event /\ phase = "events" /\ phase' = phase /\ destroy_queue' = destroy_queue
      /\ path' = path
  BY DEF Activate, Deactivate, Event
<1>2. /\ Fits(World) /\ World.obj = obj /\ obj \in [Objects -> ObjectRecords]
      /\ \A u \in Objects : ~obj[u].updated
  BY <1>1, EventWorld
<1>3. PICK t : Fits(t) /\ Changes(obj, t.obj, o) /\ Becomes(t)
  <2>1. CASE Activate(o)
    <3>1. /\ World.obj[o].list # "none" /\ World.obj[o].active < MaxActive
          /\ Becomes(processing_activate(World, o))
      BY <1>2, <2>1 DEF Activate, Exists
    <3> QED
      BY <1>2, <3>1, ActivateFits
  <2>2. CASE Deactivate(o)
    <3>1. World.obj[o].active > 0 /\ Becomes(processing_deactivate(World, o))
      BY <1>2, <2>2 DEF Deactivate
    <3> QED
      BY <1>2, <3>1, DeactivateFits
  <2> QED
    BY <2>1, <2>2
<1>4. SameTree(obj, obj')
  BY <1>3, ChangesTree DEF Becomes
<1>5. Attached' /\ Destroyed'
  BY <1>1, <1>2, <1>4, TreeKept DEF ListInv
<1>6. \A u \in Objects : ~obj'[u].updated
  BY <1>2, <1>3 DEF Changes, Becomes
<1>7. \A u \in Movers : obj'[u].list = "none" => Untouched(path', u)
  BY <1>1, <1>4, PathLeft
<1>8. destroy_queue' \in Seq(Objects)
  BY <1>1 DEF ListInv, Typed
<1> QED
  BY <1>1, <1>3, <1>5, <1>6, <1>7, <1>8, EventKeeps

\* The object that is spawned has no marks yet.
LEMMA SpawnLists ==
    ASSUME ListInv, OnceInv', NEW o \in Objects, Spawn(o)
    PROVE  ListInv'
<1> DEFINE r == [NoObject EXCEPT !.list = "sleeping"]
           w == Put(World, o, r)
           v == processing_activate(w, o)
           t == MakeMeCrow(v, o)
<1>1. /\ Event /\ phase = "events" /\ phase' = phase /\ destroy_queue' = destroy_queue
      /\ obj[o].list = "none"
  BY DEF Spawn, Event, Exists
<1>2. /\ Fits(World) /\ World.obj = obj /\ obj \in [Objects -> ObjectRecords]
      /\ \A u \in Objects : ~obj[u].updated
  BY <1>1, EventWorld
<1>3. obj[o] = NoObject
  BY <1>1 DEF ListInv, Gone
<1>4. /\ r \in ObjectRecords /\ r.crow = NoObject.crow /\ r.asCrow = NoObject.asCrow
      /\ r.list = "sleeping" /\ r.active = 0 /\ r.parent = null /\ ~r.bDestroy
      /\ ~r.updated
  <2>1. NoObject \in ObjectRecords /\ NoObject.active = 0 /\ NoObject.parent = null
        /\ ~NoObject.bDestroy /\ ~NoObject.updated
    BY NoObjectFields
  <2> QED
    BY <2>1, MovedRecord
<1>5. Becomes(t)
  BY DEF Spawn, Put
<1> HIDE DEF r
<1>6. MayPut(World, o, r)
  <2>1. o \notin World.due
    BY <1>2, <1>3 DEF Fits, NoObject
  <2> QED
    BY <1>2, <1>3, <1>4, <2>1 DEF MayPut
<1>7. /\ Fits(w) /\ w.obj[o] = r
      /\ \A u \in Objects \ {o} : w.obj[u] = obj[u]
  BY <1>2, <1>6, RecordFits
<1> HIDE DEF w
<1>8. Fits(v) /\ Changes(w.obj, v.obj, o)
  <2>1. w.obj[o].list # "none" /\ w.obj[o].active < MaxActive
    BY <1>4, <1>7, FrameAssumption
  <2> QED
    BY <1>7, <2>1, ActivateFits
<1> HIDE DEF v
<1>9. Fits(t) /\ Changes(v.obj, t.obj, o)
  BY <1>8, CrowFits
<1> HIDE DEF t
<1>10. Changes(w.obj, obj', o)
  BY <1>5, <1>8, <1>9, ChangesThrough DEF Becomes
<1>11. /\ obj'[o].parent = null /\ ~obj'[o].bDestroy /\ ~obj'[o].updated
       /\ obj'[o].list # "none"
       /\ \A u \in Objects \ {o} : obj'[u] = obj[u]
  BY <1>4, <1>7, <1>10 DEF Changes
<1>12. Attached'
  <2> SUFFICES ASSUME NEW u \in Objects, obj'[u].parent # null
               PROVE  LET p == obj'[u].parent
                      IN  /\ p # u /\ obj'[p].list # "none" /\ obj'[p].parent = null
                          /\ ~obj'[u].bDestroy /\ ~obj'[p].bDestroy
    BY DEF Attached
  <2>1. obj'[u] = obj[u] /\ obj[u] \in ObjectRecords
    BY <1>2, <1>11
  <2> DEFINE p == obj[u].parent
  <2>2. p # null /\ p \in Objects
    BY <2>1 DEF ObjectRecords
  <2>3. p # u /\ obj[p].list # "none" /\ obj[p].parent = null
        /\ ~obj[u].bDestroy /\ ~obj[p].bDestroy
    BY <2>2 DEF ListInv, Attached
  <2>4. obj'[p] = obj[p]
    BY <1>1, <1>11, <2>2, <2>3
  <2> QED
    BY <2>1, <2>3, <2>4
<1>13. Destroyed'
  <2>1. ~obj[o].bDestroy
    BY <1>3 DEF NoObject
  <2>2. \A u \in Objects : obj'[u].bDestroy <=> obj[u].bDestroy
    BY <1>11, <2>1
  <2> QED
    BY <1>1, <2>2 DEF ListInv, Destroyed
<1>14. \A u \in Objects : ~obj'[u].updated
  BY <1>2, <1>11
<1>15. \A u \in Movers : obj'[u].list = "none" => Untouched(path', u)
  <2>1. path'.seqParallel = path.seqParallel
    BY DEF Spawn, ListInv, OnceInv, Inv, GoodPath, Paths
  <2>2. \A u : Untouched(path', u) <=> Untouched(path, u)
    BY <2>1 DEF Untouched, Queued
  <2> QED
    BY <1>11, <2>2, FrameAssumption DEF ListInv, Gone
<1>16. destroy_queue' \in Seq(Objects)
  BY <1>1 DEF ListInv, Typed
<1> QED
  BY <1>1, <1>5, <1>9, <1>12, <1>13, <1>14, <1>15, <1>16, EventKeeps

LEMMA AttachLists ==
    ASSUME ListInv, OnceInv', NEW o \in Objects, NEW p \in Objects, SetParent(o, p)
    PROVE  ListInv'
<1>1. /\ Event /\ phase = "events" /\ phase' = phase /\ destroy_queue' = destroy_queue
      /\ path' = path
      /\ obj[o].list # "none" /\ obj[p].list # "none" /\ o # p
      /\ ~obj[o].bDestroy /\ ~obj[p].bDestroy /\ obj[p].parent = null
      /\ \A c \in Objects : obj[c].list # "none" => obj[c].parent # o
  BY DEF SetParent, Event, Exists, Alive
<1>2. /\ Fits(World) /\ World.obj = obj /\ obj \in [Objects -> ObjectRecords]
      /\ obj[o] \in ObjectRecords
      /\ \A u \in Objects : ~obj[u].updated
  BY <1>1, EventWorld
<1>3. PICK q \in {p, null} : Becomes(MakeMeCrow([World EXCEPT !.obj[o].parent = q], o))
  BY DEF SetParent
<1> DEFINE r == [obj[o] EXCEPT !.parent = q]
           w == Put(World, o, r)
           t == MakeMeCrow(w, o)
<1>4. /\ r \in ObjectRecords /\ r.crow = obj[o].crow /\ r.asCrow = obj[o].asCrow
      /\ r.list = obj[o].list /\ r.active = obj[o].active /\ r.parent = q
      /\ r.bDestroy = obj[o].bDestroy /\ r.updated = obj[o].updated
  BY <1>2 DEF ObjectRecords
<1>5. Becomes(t)
  BY <1>2, <1>3 DEF Put
<1> HIDE DEF r
<1>6. MayPut(World, o, r)
  BY <1>1, <1>2, <1>4 DEF MayPut, Fits
<1>7. /\ Fits(w) /\ w.obj[o] = r
      /\ \A u \in Objects \ {o} : w.obj[u] = obj[u]
  BY <1>2, <1>6, RecordFits
<1> HIDE DEF w
<1>8. Fits(t) /\ Changes(w.obj, t.obj, o)
  BY <1>7, CrowFits
<1> HIDE DEF t
<1>9. /\ obj'[o].parent = q /\ ~obj'[o].bDestroy /\ ~obj'[o].updated
      /\ obj'[o].list # "none"
      /\ \A u \in Objects \ {o} : obj'[u] = obj[u]
  BY <1>1, <1>2, <1>4, <1>5, <1>7, <1>8 DEF Changes, Becomes
<1>10. Attached'
  <2> SUFFICES ASSUME NEW u \in Objects, obj'[u].parent # null
               PROVE  LET b == obj'[u].parent
                      IN  /\ b # u /\ obj'[b].list # "none" /\ obj'[b].parent = null
                          /\ ~obj'[u].bDestroy /\ ~obj'[b].bDestroy
    BY DEF Attached
  <2>1. CASE u = o
    BY <1>1, <1>3, <1>9, <2>1
  <2>2. CASE u # o
    <3>1. obj'[u] = obj[u] /\ obj[u] \in ObjectRecords
      BY <1>2, <1>9, <2>2
    <3> DEFINE b == obj[u].parent
    <3>2. b # null /\ b \in Objects
      BY <3>1 DEF ObjectRecords
    <3>3. b # u /\ obj[b].list # "none" /\ obj[b].parent = null
          /\ ~obj[u].bDestroy /\ ~obj[b].bDestroy
      BY <3>2 DEF ListInv, Attached
    <3>4. obj[u].list # "none"
      BY <3>2 DEF ListInv, Gone, NoObject
    <3>5. b # o
      BY <1>1, <3>4
    <3>6. obj'[b] = obj[b]
      BY <1>9, <3>2, <3>5
    <3> QED
      BY <3>1, <3>3, <3>6
  <2> QED
    BY <2>1, <2>2
<1>11. Destroyed'
  <2>1. \A u \in Objects : obj'[u].bDestroy <=> obj[u].bDestroy
    BY <1>1, <1>9
  <2> QED
    BY <1>1, <2>1 DEF ListInv, Destroyed
<1>12. \A u \in Objects : ~obj'[u].updated
  BY <1>2, <1>9
<1>13. \A u \in Movers : obj'[u].list = "none" => Untouched(path', u)
  BY <1>1, <1>9, FrameAssumption DEF ListInv, Gone
<1>14. destroy_queue' \in Seq(Objects)
  BY <1>1 DEF ListInv, Typed
<1> QED
  BY <1>1, <1>5, <1>8, <1>10, <1>11, <1>12, <1>13, <1>14, EventKeeps

\* A mark is set on a record.
LEMMA MarkedForDestroy ==
    ASSUME NEW q \in ObjectRecords
    PROVE  LET r == [q EXCEPT !.bDestroy = TRUE]
           IN  /\ r \in ObjectRecords /\ r.bDestroy /\ r.list = q.list
               /\ r.active = q.active /\ r.parent = q.parent
               /\ r.crow = q.crow /\ r.asCrow = q.asCrow
               /\ r.updated = q.updated /\ r.scheduled = q.scheduled
BY DEF ObjectRecords

LEMMA MarkedScheduled ==
    ASSUME NEW q \in ObjectRecords
    PROVE  LET r == [q EXCEPT !.scheduled = TRUE]
           IN  /\ r \in ObjectRecords /\ r.scheduled /\ r.list = q.list
               /\ r.active = q.active /\ r.parent = q.parent
               /\ r.crow = q.crow /\ r.asCrow = q.asCrow
               /\ r.bDestroy = q.bDestroy /\ r.updated = q.updated
BY DEF ObjectRecords

LEMMA MarkedUpdated ==
    ASSUME NEW q \in ObjectRecords
    PROVE  LET r == [q EXCEPT !.updated = TRUE]
           IN  /\ r \in ObjectRecords /\ r.updated /\ r.list = q.list
               /\ r.active = q.active /\ r.parent = q.parent
               /\ r.crow = q.crow /\ r.asCrow = q.asCrow
               /\ r.bDestroy = q.bDestroy /\ r.scheduled = q.scheduled
BY DEF ObjectRecords

\* The object enters the destroy queue once, and nothing is attached to it.
LEMMA SetDestroyLists ==
    ASSUME ListInv, OnceInv', NEW o \in Objects, setDestroy(o)
    PROVE  ListInv'
<1> DEFINE r == [obj[o] EXCEPT !.bDestroy = TRUE]
           t == Put(World, o, r)
<1>1. /\ Event /\ phase = "events" /\ phase' = phase /\ path' = path
      /\ obj[o].list # "none" /\ ~obj[o].bDestroy /\ obj[o].parent = null
      /\ \A c \in Objects : obj[c].list # "none" => obj[c].parent # o
      /\ destroy_queue' = Append(destroy_queue, o)
  BY DEF setDestroy, Event, Exists, Alive
<1>2. /\ Fits(World) /\ World.obj = obj /\ obj \in [Objects -> ObjectRecords]
      /\ obj[o] \in ObjectRecords
      /\ \A u \in Objects : ~obj[u].updated
  BY <1>1, EventWorld
<1>3. /\ obj' = [obj EXCEPT ![o] = r] /\ due' = due
      /\ m_secondary_crows' = m_secondary_crows
  BY <1>2 DEF setDestroy
<1>4. /\ r \in ObjectRecords /\ r.crow = obj[o].crow /\ r.asCrow = obj[o].asCrow
      /\ r.list = obj[o].list /\ r.active = obj[o].active /\ r.parent = null
      /\ r.bDestroy /\ r.updated = obj[o].updated
  BY <1>1, <1>2, MarkedForDestroy
<1> HIDE DEF r
<1>5. MayPut(World, o, r)
  BY <1>1, <1>2, <1>4 DEF MayPut, Fits
<1>6. Fits(t)
  BY <1>2, <1>5, RecordFits
<1>7. Becomes(t)
  <2>1. t = [obj |-> [obj EXCEPT ![o] = r], crows |-> m_secondary_crows[Main], due |-> due]
    BY DEF Put, World
  <2> HIDE DEF t
  <2>2. m_secondary_crows \in [Workers -> Seq(Objects)]
    BY DEF ListInv, Typed
  <2> QED
    BY <1>3, <2>1, <2>2 DEF Becomes
<1> HIDE DEF t
<1>8. /\ obj'[o] = r /\ \A u \in Objects \ {o} : obj'[u] = obj[u]
  BY <1>2, <1>3
<1>9. Attached'
  <2> SUFFICES ASSUME NEW u \in Objects, obj'[u].parent # null
               PROVE  LET b == obj'[u].parent
                      IN  /\ b # u /\ obj'[b].list # "none" /\ obj'[b].parent = null
                          /\ ~obj'[u].bDestroy /\ ~obj'[b].bDestroy
    BY DEF Attached
  <2>1. u # o /\ obj'[u] = obj[u] /\ obj[u] \in ObjectRecords
    BY <1>2, <1>4, <1>8
  <2> DEFINE b == obj[u].parent
  <2>2. b # null /\ b \in Objects
    BY <2>1 DEF ObjectRecords
  <2>3. b # u /\ obj[b].list # "none" /\ obj[b].parent = null
        /\ ~obj[u].bDestroy /\ ~obj[b].bDestroy
    BY <2>2 DEF ListInv, Attached
  <2>4. obj[u].list # "none"
    BY <2>2, NoObjectFields DEF ListInv, Gone
  <2>5. obj'[b] = obj[b]
    BY <1>1, <1>8, <2>2, <2>4
  <2> QED
    BY <2>1, <2>3, <2>5
<1>10. destroy_queue' \in Seq(Objects) /\ Destroyed'
  <2>1. destroy_queue \in Seq(Objects) /\ IsInjective(destroy_queue)
        /\ o \notin ToSet(destroy_queue)
    BY <1>1 DEF ListInv, Typed, Destroyed
  <2>2. /\ ToSet(destroy_queue') = ToSet(destroy_queue) \union {o}
        /\ IsInjective(destroy_queue') /\ destroy_queue' \in Seq(Objects)
    BY <1>1, <2>1, AppendToSet, AppendProperties
  <2>3. ASSUME NEW u \in Objects
        PROVE  u \in ToSet(destroy_queue') <=> obj'[u].bDestroy
    <3>1. u \in ToSet(destroy_queue) <=> obj[u].bDestroy
      BY DEF ListInv, Destroyed
    <3> QED
      BY <1>4, <1>8, <2>2, <3>1
  <2> QED
    BY <1>1, <2>2, <2>3 DEF Destroyed
<1>11. \A u \in Objects : ~obj'[u].updated
  BY <1>2, <1>4, <1>8
<1>12. \A u \in Movers : obj'[u].list = "none" => Untouched(path', u)
  BY <1>1, <1>4, <1>8, FrameAssumption DEF ListInv, Gone
<1> QED
  BY <1>1, <1>6, <1>7, <1>9, <1>10, <1>11, <1>12, EventKeeps

\* The path of o alone changes, and o exists.
LEMMA PathElsewhere ==
    ASSUME ListInv, NEW o \in Objects, obj[o].list # "none",
           SameTree(obj, obj'), Elsewhere(path, path', o)
    PROVE  \A u \in Movers : obj'[u].list = "none" => Untouched(path', u)
<1> SUFFICES ASSUME NEW u \in Movers, obj'[u].list = "none"
             PROVE  Untouched(path', u)
  OBVIOUS
<1>1. u \in Objects /\ obj[u].list = "none" /\ u # o
  BY FrameAssumption DEF SameTree
<1>2. Untouched(path, u)
  BY <1>1 DEF ListInv, Gone
<1> QED
  BY <1>1, <1>2 DEF Elsewhere, Untouched, DelegateFns

LEMMA ScheduleLists ==
    ASSUME ListInv, OnceInv', NEW o \in Objects, shedule_Update(o)
    PROVE  ListInv'
<1> DEFINE r == [obj[o] EXCEPT !.scheduled = TRUE]
           w == Put(World, o, r)
           t == MakeMeCrow(w, o)
<1>1. /\ Event /\ phase = "events" /\ phase' = phase /\ destroy_queue' = destroy_queue
      /\ obj[o].list # "none" /\ ~obj[o].scheduled
      /\ Becomes(MakeMeCrow([World EXCEPT !.obj[o].scheduled = TRUE], o))
  BY DEF shedule_Update, Event, Exists
<1>2. /\ Fits(World) /\ World.obj = obj /\ obj \in [Objects -> ObjectRecords]
      /\ obj[o] \in ObjectRecords
      /\ \A u \in Objects : ~obj[u].updated
  BY <1>1, EventWorld
<1>3. /\ r \in ObjectRecords /\ r.crow = obj[o].crow /\ r.asCrow = obj[o].asCrow
      /\ r.list = obj[o].list /\ r.active = obj[o].active /\ r.parent = obj[o].parent
      /\ r.bDestroy = obj[o].bDestroy /\ r.updated = obj[o].updated
  BY <1>2, MarkedScheduled
<1>4. Becomes(t)
  BY <1>1, <1>2 DEF Put
<1> HIDE DEF r
<1>5. MayPut(World, o, r)
  BY <1>1, <1>2, <1>3 DEF MayPut, Fits
<1>6. /\ Fits(w) /\ w.obj[o] = r
      /\ \A u \in Objects \ {o} : w.obj[u] = obj[u]
  BY <1>2, <1>5, RecordFits
<1> HIDE DEF w
<1>7. Fits(t) /\ Changes(w.obj, t.obj, o)
  BY <1>6, CrowFits
<1> HIDE DEF t
<1>8. SameTree(obj, obj')
  BY <1>3, <1>4, <1>6, <1>7 DEF Changes, SameTree, Becomes
<1>9. Attached' /\ Destroyed'
  BY <1>1, <1>2, <1>8, TreeKept DEF ListInv
<1>10. \A u \in Objects : ~obj'[u].updated
  BY <1>2, <1>3, <1>4, <1>6, <1>7 DEF Changes, Becomes
<1>11. destroy_queue' \in Seq(Objects)
  BY <1>1 DEF ListInv, Typed
<1>12. \A u \in Movers : obj'[u].list = "none" => Untouched(path', u)
  <2>1. CASE o \in Movers
    <3>1. path' \in Thinks(o) /\ OncePath(path) /\ Untouched(path, o) /\ Inv
      BY <1>1, <2>1 DEF ListInv, OnceInv, shedule_Update, OncePath
    <3>2. Elsewhere(path, path', o)
      BY <2>1, <3>1, ThinksOnce
    <3> QED
      BY <1>1, <1>8, <3>2, PathElsewhere
  <2>2. CASE o \notin Movers
    <3>1. path' = path
      BY <2>2 DEF shedule_Update
    <3> QED
      BY <1>8, <3>1, PathLeft
  <2> QED
    BY <2>1, <2>2
<1> QED
  BY <1>1, <1>4, <1>7, <1>9, <1>10, <1>11, <1>12, EventKeeps

LEMMA RestrictionsLists ==
    ASSUME ListInv, OnceInv', NEW o \in Objects, RestrictionsChange(o)
    PROVE  ListInv'
<1>1. /\ Event /\ phase = "events" /\ phase' = phase /\ destroy_queue' = destroy_queue
      /\ o \in Movers /\ obj[o].list # "none" /\ obj' = obj /\ due' = due
      /\ m_secondary_crows' = m_secondary_crows
      /\ path' = on_restrictions_change(path, o)
  BY DEF RestrictionsChange, Event, Exists
<1>2. /\ Fits(World) /\ World.obj = obj /\ obj \in [Objects -> ObjectRecords]
      /\ \A u \in Objects : ~obj[u].updated
  BY <1>1, EventWorld
<1>3. Becomes(World)
  <2>1. m_secondary_crows \in [Workers -> Seq(Objects)]
    BY DEF ListInv, Typed
  <2> QED
    BY <1>1, <2>1 DEF Becomes, World
<1>4. SameTree(obj, obj')
  BY <1>1 DEF SameTree
<1>5. Attached' /\ Destroyed'
  BY <1>1, <1>2, <1>4, TreeKept DEF ListInv
<1>6. Elsewhere(path, path', o)
  <2> DEFINE l == remove(path, o, "level")
             r == remove(l, o, "detail")
  <2>1. GoodPath(path) /\ IsInjective(path.seqParallel)
    BY DEF ListInv, OnceInv, Inv
  <2>2. GoodPath(l) /\ GoodPath(r)
    BY <1>1, <2>1, RemoveGood
  <2>3. IsInjective(l.seqParallel) /\ Elsewhere(path, l, o)
    BY <1>1, <2>1, RemoveOnce DEF DelegateFns
  <2> HIDE DEF l
  <2>4. Elsewhere(l, r, o)
    BY <1>1, <2>2, <2>3, RemoveOnce DEF DelegateFns
  <2>5. path' = [r EXCEPT !.mm[o].actual = FALSE]
    BY <1>1 DEF on_restrictions_change, l
  <2> HIDE DEF r
  <2>6. path'.seqParallel = r.seqParallel /\ \A u \in Movers \ {o} : path'.mm[u] = r.mm[u]
    BY <1>1, <2>2, <2>5 DEF GoodPath, Paths
  <2>7. \A u, fn : Queued(path', u, fn) <=> Queued(r, u, fn)
    BY <2>6 DEF Queued
  <2> QED
    BY <2>3, <2>4, <2>6, <2>7 DEF Elsewhere
<1>7. \A u \in Movers : obj'[u].list = "none" => Untouched(path', u)
  BY <1>1, <1>4, <1>6, PathElsewhere
<1>8. \A u \in Objects : ~obj'[u].updated
  BY <1>1, <1>2
<1>9. destroy_queue' \in Seq(Objects)
  BY <1>1 DEF ListInv, Typed
<1> QED
  BY <1>1, <1>2, <1>3, <1>5, <1>7, <1>8, <1>9, EventKeeps

-----------------------------------------------------------------------------
(* Update() *)

LEMMA ContainsCollected ==
    ASSUME Typed, Separate, NEW o
    PROVE  Contains(Collected, o) <=> o \in Crows
<1>1. Collected \in Seq(Objects) /\ ToSet(Collected) = Crows
  BY CollectedCrows
<1> DEFINE c == Collected
<1> HIDE DEF c
<1>2. c \in Seq(Objects) => (Contains(c, o) <=> o \in ToSet(c))
  BY DEF Contains, ToSet
<1> QED
  BY <1>1, <1>2 DEF c

\* The secondary lists are empty, the primary one is c.
LEMMA EmptiedCrows ==
    ASSUME m_secondary_crows' = [w \in Workers |-> <<>>],
           NEW c, IsInjective(c), m_primary_crows' = c
    PROVE  Separate' /\ Crows' = ToSet(c)
<1>1. \A w \in Workers : m_secondary_crows'[w] = <<>> /\ ToSet(m_secondary_crows'[w]) = {}
                         /\ IsInjective(m_secondary_crows'[w])
  BY DEF ToSet, IsInjective
<1>2. Separate'
  BY <1>1 DEF Separate
<1>3. Crows' = ToSet(c)
  BY <1>1 DEF Crows
<1> QED
  BY <1>2, <1>3

LEMMA ClearedRecord ==
    ASSUME NEW q \in ObjectRecords
    PROVE  LET r == IAmNotACrowAnyMore(q)
           IN  /\ r \in ObjectRecords /\ ~r.crow /\ ~r.asCrow /\ r.list = q.list
               /\ r.active = q.active /\ r.parent = q.parent
               /\ r.bDestroy = q.bDestroy /\ r.updated = q.updated
               /\ r.scheduled = q.scheduled
BY DEF ObjectRecords, IAmNotACrowAnyMore

\* Paused, or no time has gone by: the crows stay crows.
LEMMA CollectPaused ==
    ASSUME ListInv, OnceInv', CollectCrows, m_primary_crows' = Collected,
           phase' = AfterUpdate, UNCHANGED <<obj, workload, due, owed>>
    PROVE  ListInv'
<1>1. /\ phase = "events" /\ phase' \in {"destroy", "render"}
      /\ phase' = "destroy" => destroy_queue # <<>>
      /\ phase' = "render" => destroy_queue = <<>>
      /\ m_secondary_crows' = [w \in Workers |-> <<>>]
      /\ UNCHANGED <<destroy_queue, path, rendering, events>>
  BY DEF CollectCrows, AfterUpdate
<1>2. Typed /\ Separate /\ NoRendering
  BY <1>1, NobodyRenders DEF ListInv
<1>3. /\ Collected \in Seq(Objects) /\ IsInjective(Collected)
      /\ ToSet(Collected) = Crows
  BY <1>2, CollectedCrows
<1>4. Separate' /\ Crows' = Crows
  BY <1>1, <1>3, EmptiedCrows
<1>5. Typed'
  <2>1. m_secondary_crows' \in [Workers -> Seq(Objects)]
    BY <1>1
  <2> QED
    BY <1>1, <1>2, <1>3, <2>1 DEF Typed
<1>6. Gone' /\ Attached' /\ Destroyed'
  <2>1. \A o : Untouched(path, o)' <=> Untouched(path, o)
    BY <1>1 DEF Untouched, Queued
  <2> QED
    BY <1>1, <2>1 DEF ListInv, Gone, Attached, Destroyed
<1>7. Renders' /\ \A o \in Objects : ~Flagging(o) /\ ~Flagging(o)'
                                     /\ \A w \in Workers : ~Won(w, o) /\ ~Won(w, o)'
  BY <1>1, <1>2 DEF NoRendering, Idle, Renders, RendersAt, Flagging, Won
<1>8. Flags' /\ Dues'
  <2>1. \A w \in Workers : rendering'[w].obj = rendering[w].obj
    BY <1>1
  <2>2. Flags'
    BY <1>4, <1>7 DEF ListInv, Flags
  <2>3. Dues'
    BY <2>1 DEF ListInv, Dues
  <2> QED
    BY <2>2, <2>3
<1>9. Work'
  BY <1>1 DEF ListInv, Work
<1> QED
  BY <1>4, <1>5, <1>6, <1>7, <1>8, <1>9 DEF ListInv

\* The crows are what Update() has ahead of it; what was due is owed.
LEMMA CollectRunning ==
    ASSUME ListInv, OnceInv', CollectCrows,
           m_primary_crows' = <<>>, workload' = Collected,
           obj' = [o \in Objects |->
                     IF Contains(Collected, o) THEN IAmNotACrowAnyMore(obj[o]) ELSE obj[o]],
           due' = {}, owed' = due,
           phase' = IF Collected = <<>> THEN AfterUpdate ELSE "update"
    PROVE  ListInv'
<1>1. /\ phase = "events"
      /\ m_secondary_crows' = [w \in Workers |-> <<>>]
      /\ UNCHANGED <<destroy_queue, path, rendering, events>>
  BY DEF CollectCrows
<1>2. Typed /\ Separate /\ NoRendering /\ obj \in [Objects -> ObjectRecords]
  BY <1>1, NobodyRenders DEF ListInv, Typed
<1>3. /\ Collected \in Seq(Objects) /\ ToSet(Collected) = Crows
  BY <1>2, CollectedCrows
<1>4. PICK c \in Seq(Objects) : c = Collected
  BY <1>3
<1>5. /\ phase' = "update" <=> c # <<>>
      /\ phase' \in {"update", "destroy", "render"}
      /\ phase' = "destroy" => destroy_queue # <<>>
      /\ phase' = "render" => destroy_queue = <<>>
  BY <1>4 DEF AfterUpdate
<1>6. Separate' /\ Crows' = {}
  <2>1. IsInjective(<<>>) /\ ToSet(<<>>) = {}
    BY DEF IsInjective, ToSet
  <2> QED
    BY <1>1, <2>1, EmptiedCrows
<1>7. \A o \in Objects : ~Flagging(o) /\ ~Flagging(o)'
                         /\ \A w \in Workers : ~Won(w, o) /\ ~Won(w, o)'
  BY <1>1, <1>2 DEF NoRendering, Idle, Flagging, Won
<1>8. ASSUME NEW o \in Objects
      PROVE  /\ obj'[o] \in ObjectRecords /\ ~obj'[o].crow /\ ~obj'[o].asCrow
             /\ obj'[o].list = obj[o].list /\ obj'[o].active = obj[o].active
             /\ obj'[o].parent = obj[o].parent /\ obj'[o].bDestroy = obj[o].bDestroy
             /\ obj'[o].updated = obj[o].updated
             /\ obj[o].list = "none" => obj'[o] = NoObject
  <2>1. obj[o] \in ObjectRecords /\ (obj[o].list = "none" => obj[o] = NoObject)
    BY <1>2 DEF ListInv, Gone
  <2>2. o \in Crows <=> obj[o].crow
    BY <1>7 DEF ListInv, Flags
  <2>3. obj[o].asCrow => obj[o].crow
    BY <1>7 DEF ListInv, Flags
  <2>4. CASE o \in Crows
    <3>1. obj'[o] = IAmNotACrowAnyMore(obj[o])
      BY <1>2, <2>4, ContainsCollected
    <3>2. obj[o].list # "none"
      BY <2>1, <2>2, <2>4, NoObjectFields
    <3> QED
      BY <2>1, <3>1, <3>2, ClearedRecord
  <2>5. CASE o \notin Crows
    <3>1. obj'[o] = obj[o] /\ obj[o].crow = FALSE /\ obj[o].asCrow = FALSE
      <4>1. obj'[o] = obj[o]
        BY <1>2, <2>5, ContainsCollected
      <4> QED
        BY <2>1, <2>2, <2>3, <2>5, <4>1 DEF ObjectRecords
    <3> QED
      BY <2>1, <3>1
  <2> QED
    BY <2>4, <2>5
<1>9. Typed'
  <2>1. m_secondary_crows' \in [Workers -> Seq(Objects)]
    BY <1>1
  <2>2. obj' \in [Objects -> ObjectRecords]
    BY <1>8
  <2>3. workload' \in Seq(Objects) /\ due' \subseteq Objects /\ owed' \subseteq Objects
        /\ m_primary_crows' \in Seq(Objects)
    BY <1>2, <1>3 DEF Typed
  <2> QED
    BY <1>1, <1>2, <1>5, <2>1, <2>2, <2>3 DEF Typed
<1>10. SameTree(obj, obj')
  BY <1>8 DEF SameTree
<1>11. Attached' /\ Destroyed'
  <2>1. Attached'
    BY <1>2, <1>8, <1>10, AttachedKept DEF ListInv
  <2>2. Destroyed'
    BY <1>1, <1>5, <1>8 DEF ListInv, Destroyed
  <2> QED
    BY <2>1, <2>2
<1>12. Gone'
  <2>1. \A o : Untouched(path, o)' <=> Untouched(path, o)
    BY <1>1 DEF Untouched, Queued
  <2> QED
    BY <1>8, <2>1, FrameAssumption DEF ListInv, Gone
<1>13. Renders' /\ Flags' /\ Dues'
  <2>1. Renders'
    BY <1>1, <1>2 DEF NoRendering, Idle, Renders, RendersAt
  <2>2. Flags'
    BY <1>6, <1>7, <1>8 DEF Flags
  <2> QED
    BY <2>1, <2>2 DEF Dues
<1>14. Work'
  <2>1. ASSUME NEW o \in ToSet(workload')
        PROVE  obj'[o].list # "none"
    <3>1. o \in Crows /\ o \in Objects
      <4>1. workload' = c /\ o \in ToSet(c) /\ ToSet(c) = Crows
        BY <1>3, <1>4
      <4>2. \A i \in DOMAIN c : c[i] \in Objects
        OBVIOUS
      <4> QED
        BY <4>1, <4>2 DEF ToSet
    <3>2. obj[o].crow
      BY <1>7, <3>1 DEF ListInv, Flags
    <3>3. obj[o].list # "none"
      BY <3>1, <3>2, NoObjectFields DEF ListInv, Gone
    <3> QED
      BY <1>8, <3>1, <3>3
  <2>2. ASSUME NEW o \in owed'
        PROVE  o \in ToSet(workload') /\ Updates(o)'
    <3>1. o \in due /\ o \in Objects /\ o # null
      BY <1>2, FrameAssumption DEF Typed
    <3>2. obj[o].active > 0 /\ obj[o].crow
      BY <1>2, <3>1 DEF ListInv, Dues, NoRendering, Idle
    <3>3. o \in Crows
      BY <3>1, <3>2 DEF ListInv, Flags
    <3>4. ~obj[o].updated
      BY <1>1, <3>1 DEF ListInv, Work
    <3> QED
      BY <1>3, <1>8, <3>1, <3>2, <3>3, <3>4 DEF Updates, processing_enabled
  <2>3. phase' # "update" => owed' = {}
    <3> SUFFICES ASSUME c = <<>> PROVE owed' = {}
      BY <1>5
    <3>1. ToSet(workload') = {}
      BY <1>4 DEF ToSet
    <3> QED
      BY <2>2, <3>1
  <2>4. phase' = "update" <=> workload' # <<>>
    BY <1>4, <1>5
  <2> QED
    BY <1>5, <2>1, <2>2, <2>3, <2>4 DEF Work
<1> QED
  BY <1>6, <1>9, <1>11, <1>12, <1>13, <1>14 DEF ListInv

\* UpdateCL() of o marks it, and it may make itself a crow or go to sleep.
LEMMA UpdateCLFits ==
    ASSUME ListInv, phase = "update", NEW o \in Objects, Updates(o), UpdateCL(o)
    PROVE  \E t : /\ Fits(t) /\ Becomes(t) /\ t.obj[o].updated
                  /\ \A u \in Objects \ {o} : t.obj[u] = obj[u]
                  /\ SameTree(obj, t.obj)
<1> DEFINE r == [obj[o] EXCEPT !.updated = TRUE]
           w == Put(World, o, r)
<1>1. NoRendering
  BY NobodyRenders DEF ListInv
<1>2. /\ Fits(World) /\ World.obj = obj /\ obj \in [Objects -> ObjectRecords]
      /\ obj[o] \in ObjectRecords /\ obj[o].active > 0
      /\ obj[o].list = "none" => obj[o] = NoObject
  BY <1>1, WorldFits DEF ListInv, Typed, Gone, Updates, processing_enabled
<1>3. PICK x \in {w, MakeMeCrow(w, o)} :
         Becomes(x) \/ Becomes(processing_deactivate(x, o))
  <2>1. w = [World EXCEPT !.obj[o].updated = TRUE]
    BY <1>2 DEF Put
  <2> QED
    BY <2>1 DEF UpdateCL
<1>4. /\ r \in ObjectRecords /\ r.updated /\ r.crow = obj[o].crow /\ r.asCrow = obj[o].asCrow
      /\ r.list = obj[o].list /\ r.active = obj[o].active /\ r.parent = obj[o].parent
      /\ r.bDestroy = obj[o].bDestroy
  BY <1>2, MarkedUpdated
<1> HIDE DEF r
<1>5. MayPut(World, o, r)
  <2>1. obj[o].list # "none"
    BY <1>2, NoObjectFields
  <2> QED
    BY <1>2, <1>4, <2>1 DEF MayPut, Fits
<1>6. /\ Fits(w) /\ w.obj[o] = r
      /\ \A u \in Objects \ {o} : w.obj[u] = obj[u]
  BY <1>2, <1>5, RecordFits
<1> HIDE DEF w
<1>7. Fits(x) /\ Changes(w.obj, x.obj, o) /\ x.obj[o].active > 0
  <2>1. Changes(w.obj, w.obj, o)
    BY DEF Changes
  <2>2. /\ Fits(MakeMeCrow(w, o)) /\ Changes(w.obj, MakeMeCrow(w, o).obj, o)
        /\ MakeMeCrow(w, o).obj[o].active = w.obj[o].active
    BY <1>6, CrowFits
  <2> QED
    BY <1>2, <1>3, <1>4, <1>6, <2>1, <2>2
<1>8. PICK t \in {x, processing_deactivate(x, o)} : Becomes(t)
  BY <1>3
<1>9. Fits(t) /\ Changes(w.obj, t.obj, o)
  <2>1. /\ Fits(processing_deactivate(x, o))
        /\ Changes(x.obj, processing_deactivate(x, o).obj, o)
    BY <1>7, DeactivateFits
  <2>2. Changes(w.obj, processing_deactivate(x, o).obj, o)
    BY <1>7, <2>1, ChangesThrough
  <2> QED
    BY <1>7, <1>8, <2>1, <2>2
<1>10. /\ t.obj[o].updated /\ \A u \in Objects \ {o} : t.obj[u] = obj[u]
       /\ SameTree(obj, t.obj)
  BY <1>4, <1>6, <1>9 DEF Changes, SameTree
<1> QED
  BY <1>8, <1>9, <1>10

\* Its path may order a delegate, and its sound player is queued.
LEMMA UpdateCLPath ==
    ASSUME OnceInv, phase = "update", NEW o \in Movers, ~obj[o].updated, UpdateCL(o)
    PROVE  Elsewhere(path, path', o)
<1>1. PICK p \in on_frame(path, o, obj[o].bDestroy) : path' = Queue(p, o, "sound")
  BY DEF UpdateCL
<1>2. GoodPath(p) /\ Orders(path, p, o)
  BY <1>1, OnFrameGood, OnFrameOrders DEF OnceInv, Inv
<1>3. ~Queued(path, o, "sound")
  BY DEF OnceInv
<1>4. OncePath(p) /\ Elsewhere(path, p, o) /\ ~Queued(p, o, "sound")
  BY <1>2, <1>3, OrdersOnce DEF OnceInv, Inv, OncePath
<1> DEFINE q == Queue(p, o, "sound")
<1>5. q.mm = p.mm /\ q.seqParallel = Append(p.seqParallel, Delegate(o, "sound"))
  BY <1>2 DEF Queue, GoodPath, Paths
<1> HIDE DEF q
<1> DEFINE fn == "sound"
<1>6. /\ GoodPath(p) /\ IsInjective(p.seqParallel) /\ fn \in DelegateFns
      /\ ~Queued(p, o, fn) /\ q.seqParallel = Append(p.seqParallel, Delegate(o, fn))
  BY <1>2, <1>4, <1>5 DEF OncePath, DelegateFns
<1> HIDE DEF fn
<1>7. \A u \in Movers, g \in DelegateFns :
         Queued(q, u, g) <=> Queued(p, u, g) \/ (u = o /\ g = fn)
  BY <1>6, QueueOnce
<1>8. Elsewhere(p, q, o)
  BY <1>5, <1>7 DEF Elsewhere
<1> QED
  BY <1>1, <1>4, <1>8 DEF Elsewhere, q

\* What comes after the next object has been looked at, updated or not.
LEMMA WorkGoesOn ==
    ASSUME ListInv, phase = "update", SameTree(obj, obj'),
           workload' \in Seq(Objects), ToSet(workload') \subseteq ToSet(workload),
           phase' = (IF workload' = <<>> THEN AfterUpdate ELSE "update"),
           UNCHANGED destroy_queue,
           \A o \in owed' : o \in ToSet(workload') /\ Updates(o)'
    PROVE  /\ phase' \in {"update", "destroy", "render"}
           /\ Attached' /\ Destroyed' /\ Work'
<1>1. /\ phase' = "update" <=> workload' # <<>>
      /\ phase' \in {"update", "destroy", "render"}
      /\ phase' = "destroy" => destroy_queue # <<>>
      /\ phase' = "render" => destroy_queue = <<>>
  BY DEF AfterUpdate
<1>2. Attached'
  BY AttachedKept DEF ListInv, Typed
<1>3. Destroyed'
  BY <1>1 DEF ListInv, Destroyed, SameTree
<1>4. \A o \in ToSet(workload') : obj'[o].list # "none"
  <2> SUFFICES ASSUME NEW o \in ToSet(workload') PROVE obj'[o].list # "none"
    OBVIOUS
  <2>1. obj[o].list # "none"
    BY DEF ListInv, Work
  <2>2. o \in Objects
    <3> DEFINE s == workload'
    <3>1. s \in Seq(Objects) /\ o \in ToSet(s)
      OBVIOUS
    <3> HIDE DEF s
    <3>2. \A i \in DOMAIN s : s[i] \in Objects
      BY <3>1
    <3> QED
      BY <3>1, <3>2 DEF ToSet
  <2> QED
    BY <2>1, <2>2 DEF SameTree
<1>5. phase' # "update" => owed' = {}
  <2> SUFFICES ASSUME workload' = <<>> PROVE owed' = {}
    BY <1>1
  <2>1. ToSet(workload') = {}
    BY DEF ToSet
  <2> QED
    BY <2>1
<1> QED
  BY <1>1, <1>2, <1>3, <1>4, <1>5 DEF Work

LEMMA SingleUpdateLists ==
    ASSUME ListInv, OnceInv', SingleUpdate
    PROVE  ListInv'
<1> DEFINE o == Head(workload)
           p == obj[o].parent
           next == IF Updates(o) /\ p # null /\ Updates(p) THEN p ELSE o
<1>1. /\ phase = "update"
      /\ workload' = (IF next = o THEN Tail(workload) ELSE workload)
      /\ phase' = (IF workload = <<next>> THEN AfterUpdate ELSE phase)
      /\ \/ Updates(next) /\ UpdateCL(next) /\ owed' = owed \ {next}
         \/ ~Updates(next) /\ UNCHANGED <<obj, m_secondary_crows, path, due, owed>>
      /\ UNCHANGED <<m_primary_crows, destroy_queue, rendering, events>>
  BY DEF SingleUpdate
<1>2. workload \in Seq(Objects) /\ workload # <<>>
  BY <1>1 DEF ListInv, Typed, Work
<1>3. /\ o \in Objects /\ Tail(workload) \in Seq(Objects)
      /\ ToSet(workload) = {o} \union ToSet(Tail(workload))
      /\ Tail(workload) = <<>> <=> workload = <<o>>
  BY <1>2, HeadTailToSet
<1>4. /\ next = o \/ (next = p /\ p # null /\ Updates(p))
      /\ next # o => workload # <<next>>
  OBVIOUS
<1>5. next \in Objects /\ obj[next].list # "none"
  <2>1. obj[o].list # "none"
    BY <1>3 DEF ListInv, Work
  <2>2. p \in Objects \union {null} /\ (p # null => obj[p].list # "none")
    <3>1. obj[o] \in ObjectRecords
      BY <1>3 DEF ListInv, Typed
    <3>2. p \in Objects \union {null}
      BY <3>1 DEF ObjectRecords
    <3> QED
      BY <1>3, <3>2 DEF ListInv, Attached
  <2> QED
    BY <1>3, <1>4, <2>1, <2>2
<1>6. PICK n \in Objects : n = next
  BY <1>5
<1>7. PICK h \in Objects : h = o
  BY <1>3
<1>8. /\ n # h => Updates(n)
      /\ workload' = (IF n = h THEN Tail(workload) ELSE workload)
      /\ phase' = (IF workload' = <<>> THEN AfterUpdate ELSE "update")
      /\ workload' \in Seq(Objects) /\ ToSet(workload') \subseteq ToSet(workload)
      /\ \A u \in ToSet(workload) : u # n => u \in ToSet(workload')
      /\ \/ Updates(n) /\ UpdateCL(n) /\ owed' = owed \ {n}
         \/ ~Updates(n) /\ UNCHANGED <<obj, m_secondary_crows, path, due, owed>>
  <2>1. n # h => Updates(n) /\ workload # <<n>>
    BY <1>4, <1>6, <1>7
  <2>2. /\ workload' = (IF n = h THEN Tail(workload) ELSE workload)
        /\ phase' = (IF workload = <<n>> THEN AfterUpdate ELSE "update")
        /\ \/ Updates(n) /\ UpdateCL(n) /\ owed' = owed \ {n}
           \/ ~Updates(n) /\ UNCHANGED <<obj, m_secondary_crows, path, due, owed>>
    BY <1>1, <1>6, <1>7
  <2>3. /\ Tail(workload) \in Seq(Objects)
        /\ ToSet(workload) = {h} \union ToSet(Tail(workload))
        /\ Tail(workload) = <<>> <=> workload = <<h>>
    BY <1>3, <1>7
  <2> HIDE DEF o, p, next
  <2> QED
    BY <1>2, <2>1, <2>2, <2>3
<1>9. obj[n].list # "none"
  BY <1>5, <1>6
<1> HIDE DEF o, p, next
<1>10. NoRendering
  BY <1>1, NobodyRenders DEF ListInv
<1>11. CASE Updates(n)
  <2>1. UpdateCL(n) /\ owed' = owed \ {n} /\ ~obj[n].updated
    BY <1>8, <1>11 DEF Updates
  <2>2. PICK t : /\ Fits(t) /\ Becomes(t) /\ t.obj[n].updated
                 /\ \A u \in Objects \ {n} : t.obj[u] = obj[u]
                 /\ SameTree(obj, t.obj)
    BY <1>1, <1>11, <2>1, UpdateCLFits
  <2>3. /\ obj' \in [Objects -> ObjectRecords]
        /\ m_secondary_crows' \in [Workers -> Seq(Objects)]
        /\ due' \in SUBSET Objects
        /\ Renders' /\ Separate' /\ Flags' /\ Dues'
        /\ \A u \in Objects : obj'[u].list = "none" => obj'[u] = NoObject
    BY <1>1, <1>10, <2>2, BecomesFits DEF ListInv
  <2>4. SameTree(obj, obj') /\ \A u \in Objects \ {n} : obj'[u] = obj[u]
    BY <2>2 DEF Becomes
  <2>5. \A u \in owed' : u \in ToSet(workload') /\ Updates(u)'
    <3> SUFFICES ASSUME NEW u \in owed' PROVE u \in ToSet(workload') /\ Updates(u)'
      OBVIOUS
    <3>1. u \in Objects \ {n} /\ u \in ToSet(workload) /\ Updates(u)
      BY <2>1 DEF ListInv, Typed, Work
    <3> QED
      BY <1>8, <2>4, <3>1 DEF Updates, processing_enabled
  <2>6. /\ phase' \in {"update", "destroy", "render"}
        /\ Attached' /\ Destroyed' /\ Work'
    BY <1>1, <1>8, <2>4, <2>5, WorkGoesOn
  <2>7. Typed'
    BY <1>1, <1>8, <2>1, <2>3, <2>6 DEF ListInv, Typed
  <2>8. Gone'
    <3>1. \A u \in Movers : obj'[u].list = "none" => Untouched(path', u)
      <4>1. CASE n \in Movers
        <5>1. Elsewhere(path, path', n)
          BY <1>1, <2>1, <4>1, UpdateCLPath DEF ListInv
        <5> QED
          BY <1>9, <2>4, <5>1, PathElsewhere
      <4>2. CASE n \notin Movers
        <5>1. path' = path
          BY <2>1, <4>2 DEF UpdateCL
        <5> QED
          BY <2>4, <5>1, PathLeft
      <4> QED
        BY <4>1, <4>2
    <3>2. \A u : Untouched(path, u)' <=> Untouched(path', u)
      BY DEF Untouched, Queued
    <3> QED
      BY <2>3, <3>1, <3>2 DEF Gone
  <2> QED
    BY <2>3, <2>6, <2>7, <2>8 DEF ListInv
<1>12. CASE ~Updates(n)
  <2>1. UNCHANGED <<obj, m_secondary_crows, path, due, owed>>
    BY <1>8, <1>12
  <2>2. SameTree(obj, obj')
    BY <2>1 DEF SameTree
  <2>3. \A u \in owed' : u \in ToSet(workload') /\ Updates(u)'
    <3> SUFFICES ASSUME NEW u \in owed' PROVE u \in ToSet(workload') /\ Updates(u)'
      OBVIOUS
    <3>1. u # n /\ u \in ToSet(workload) /\ Updates(u)
      BY <1>12, <2>1 DEF ListInv, Work
    <3> QED
      BY <1>8, <2>1, <3>1 DEF Updates, processing_enabled
  <2>4. /\ phase' \in {"update", "destroy", "render"}
        /\ Attached' /\ Destroyed' /\ Work'
    BY <1>1, <1>8, <2>2, <2>3, WorkGoesOn
  <2>5. Typed'
    BY <1>1, <1>8, <2>1, <2>4 DEF ListInv, Typed
  <2>6. Gone' /\ Separate' /\ Flags' /\ Dues'
    <3>1. \A u : Untouched(path, u)' <=> Untouched(path, u)
      BY <2>1 DEF Untouched, Queued
    <3>2. Gone' /\ Separate'
      BY <1>1, <2>1, <3>1 DEF ListInv, Gone, Separate
    <3>3. Flags'
      BY <1>1, <2>1 DEF ListInv, Flags, Crows, Flagging, Won
    <3>4. Dues'
      BY <1>1, <2>1 DEF ListInv, Dues
    <3> QED
      BY <3>2, <3>3, <3>4
  <2>7. Renders'
    BY <1>1, <1>10 DEF NoRendering, Idle, Renders, RendersAt
  <2> QED
    BY <2>4, <2>5, <2>6, <2>7 DEF ListInv
<1> QED
  BY <1>11, <1>12

-----------------------------------------------------------------------------
(* The destroy queue *)

\* net_Destroy() leaves no delegate of the object behind.
LEMMA ForgottenApart ==
    ASSUME OnceInv, NEW o \in Movers
    PROVE  /\ Untouched(Forgotten(o), o)
           /\ \A u \in Movers \ {o}, fn \in DelegateFns :
                 Queued(Forgotten(o), u, fn) <=> Queued(path, u, fn)
<1> DEFINE l == remove(path, o, "level")
           d == remove(l, o, "detail")
           s == RemoveFirst(d.seqParallel, Delegate(o, "sound"))
           q == Forgotten(o)
<1>1. GoodPath(path) /\ IsInjective(path.seqParallel)
  BY DEF OnceInv, Inv
<1>2. /\ GoodPath(l) /\ IsInjective(l.seqParallel) /\ Elsewhere(path, l, o)
      /\ \A g \in DelegateFns : Queued(l, o, g) <=> Queued(path, o, g) /\ g # "level"
  BY <1>1, RemoveGood, RemoveOnce DEF DelegateFns
<1> HIDE DEF l
<1>3. /\ GoodPath(d) /\ IsInjective(d.seqParallel) /\ Elsewhere(l, d, o)
      /\ \A g \in DelegateFns : Queued(d, o, g) <=> Queued(l, o, g) /\ g # "detail"
  BY <1>2, RemoveGood, RemoveOnce DEF DelegateFns
<1>4. q = [d EXCEPT !.seqParallel = s, !.mm[o] = NewManager(FALSE)]
  BY DEF Forgotten, l
<1> HIDE DEF d
<1>5. ToSet(s) = ToSet(d.seqParallel) \ {Delegate(o, "sound")}
  BY <1>3, RemoveFirstToSet DEF GoodPath, Paths
<1> HIDE DEF s, q
<1>6. q.seqParallel = s
  BY <1>3, <1>4 DEF GoodPath, Paths
<1>7. \A u, g : Delegate(u, g) = Delegate(o, "sound") <=> u = o /\ g = "sound"
  BY DEF Delegate
<1>8. \A u, g : Queued(q, u, g) <=> Queued(d, u, g) /\ ~(u = o /\ g = "sound")
  BY <1>5, <1>6, <1>7 DEF Queued
<1>9. Untouched(q, o)
  BY <1>2, <1>3, <1>8 DEF Untouched, DelegateFns
<1> QED
  BY <1>2, <1>3, <1>8, <1>9 DEF Elsewhere, q

\* An object is taken out of every list of crows.
LEMMA CrowRemoved ==
    ASSUME Typed, Separate, NEW o, RemoveCrow(o)
    PROVE  /\ m_primary_crows' \in Seq(Objects)
           /\ m_secondary_crows' \in [Workers -> Seq(Objects)]
           /\ Separate' /\ Crows' = Crows \ {o}
<1>1. /\ m_primary_crows \in Seq(Objects) /\ IsInjective(m_primary_crows)
      /\ m_primary_crows' = RemoveFirst(m_primary_crows, o)
  BY DEF Typed, Separate, RemoveCrow
<1>2. /\ m_primary_crows' \in Seq(Objects) /\ IsInjective(m_primary_crows')
      /\ ToSet(m_primary_crows') = ToSet(m_primary_crows) \ {o}
  BY <1>1, RemoveFirstSeq, RemoveFirstToSet
<1>3. ASSUME NEW w \in Workers
      PROVE  /\ m_secondary_crows'[w] \in Seq(Objects) /\ IsInjective(m_secondary_crows'[w])
             /\ ToSet(m_secondary_crows'[w]) = ToSet(m_secondary_crows[w]) \ {o}
  <2>1. /\ m_secondary_crows[w] \in Seq(Objects) /\ IsInjective(m_secondary_crows[w])
        /\ m_secondary_crows'[w] = RemoveFirst(m_secondary_crows[w], o)
    BY DEF Typed, Separate, RemoveCrow
  <2> QED
    BY <2>1, RemoveFirstSeq, RemoveFirstToSet
<1>4. m_secondary_crows' \in [Workers -> Seq(Objects)]
  <2>1. m_secondary_crows' = [w \in Workers |-> RemoveFirst(m_secondary_crows[w], o)]
    BY DEF RemoveCrow
  <2>2. \A w \in Workers : RemoveFirst(m_secondary_crows[w], o) \in Seq(Objects)
    BY <1>3, <2>1
  <2> QED
    BY <2>1, <2>2
<1>5. Separate'
  BY <1>2, <1>3 DEF Separate
<1>6. Crows' = Crows \ {o}
  <2>1. \A u : u \in Crows' <=> \/ u \in ToSet(m_primary_crows')
                                \/ \E w \in Workers : u \in ToSet(m_secondary_crows'[w])
    BY DEF Crows
  <2>2. \A u : u \in Crows <=> \/ u \in ToSet(m_primary_crows)
                               \/ \E w \in Workers : u \in ToSet(m_secondary_crows[w])
    BY DEF Crows
  <2>3. ASSUME NEW u PROVE u \in Crows' <=> u \in Crows /\ u # o
    <3>1. u \in ToSet(m_primary_crows') <=> u \in ToSet(m_primary_crows) /\ u # o
      BY <1>2
    <3>2. \A w \in Workers : u \in ToSet(m_secondary_crows'[w])
                                 <=> u \in ToSet(m_secondary_crows[w]) /\ u # o
      BY <1>3
    <3>3. u \in Crows' <=> \/ u \in ToSet(m_primary_crows')
                           \/ \E w \in Workers : u \in ToSet(m_secondary_crows'[w])
      BY <2>1
    <3>4. u \in Crows <=> \/ u \in ToSet(m_primary_crows)
                          \/ \E w \in Workers : u \in ToSet(m_secondary_crows[w])
      BY <2>2
    <3> QED
      BY <3>1, <3>2, <3>3, <3>4
  <2> QED
    BY <2>3
<1> QED
  BY <1>2, <1>4, <1>5, <1>6

LEMMA DestroyLists ==
    ASSUME ListInv, OnceInv', DestroyLast
    PROVE  ListInv'
<1>1. /\ phase = "destroy" /\ destroy_queue \in Seq(Objects)
      /\ IsInjective(destroy_queue) /\ destroy_queue # <<>>
      /\ workload = <<>> /\ owed = {}
      /\ UNCHANGED <<workload, rendering, events>>
  BY DEF ListInv, Typed, Destroyed, Work, DestroyLast
<1>2. NoRendering /\ obj \in [Objects -> ObjectRecords]
  BY <1>1, NobodyRenders DEF ListInv, Typed
<1>3. PICK o : o = Last(destroy_queue)
  OBVIOUS
<1>4. /\ o \in Objects /\ o \in ToSet(destroy_queue)
      /\ destroy_queue' \in Seq(Objects) /\ IsInjective(destroy_queue')
      /\ ToSet(destroy_queue') = ToSet(destroy_queue) \ {o}
      /\ phase' = IF destroy_queue' = <<>> THEN "render" ELSE "destroy"
  <2>1. /\ destroy_queue' = Front(destroy_queue)
        /\ phase' = IF Len(destroy_queue) = 1 THEN "render" ELSE "destroy"
    BY DEF DestroyLast
  <2>2. /\ o \in Objects /\ o \in ToSet(destroy_queue)
        /\ Front(destroy_queue) \in Seq(Objects) /\ IsInjective(Front(destroy_queue))
        /\ ToSet(Front(destroy_queue)) = ToSet(destroy_queue) \ {o}
        /\ Len(destroy_queue) = 1 <=> Front(destroy_queue) = <<>>
    BY <1>1, <1>3, FrontLastToSet
  <2> QED
    BY <2>1, <2>2
<1>5. /\ path' = IF o \in Movers THEN Forgotten(o) ELSE path
      /\ RemoveCrow(o) /\ obj' = [obj EXCEPT ![o] = NoObject]
      /\ due' = due \ {o} /\ owed' = owed \ {o}
  BY <1>3 DEF DestroyLast
<1>6. /\ m_primary_crows' \in Seq(Objects)
      /\ m_secondary_crows' \in [Workers -> Seq(Objects)]
      /\ Separate' /\ Crows' = Crows \ {o}
  BY <1>5, CrowRemoved DEF ListInv
<1>7. /\ obj' \in [Objects -> ObjectRecords] /\ obj'[o] = NoObject
      /\ \A u \in Objects \ {o} : obj'[u] = obj[u]
  BY <1>2, <1>4, <1>5, NoObjectFields
<1>8. obj[o].bDestroy
  BY <1>4 DEF ListInv, Destroyed
<1>9. Typed'
  <2>1. due' \subseteq Objects /\ owed' \subseteq Objects
    BY <1>5 DEF ListInv, Typed
  <2> QED
    BY <1>1, <1>4, <1>6, <1>7, <2>1 DEF ListInv, Typed
<1>10. Gone'
  <2>1. \A u \in Objects : obj'[u].list = "none" => obj'[u] = NoObject
    BY <1>7 DEF ListInv, Gone
  <2>2. ASSUME NEW u \in Movers, obj'[u].list = "none"
        PROVE  Untouched(path', u)
    <3>1. CASE u = o
      BY <1>5, <2>2, <3>1, ForgottenApart DEF ListInv
    <3>2. CASE u # o
      <4>1. Untouched(path, u)
        BY <1>7, <2>2, <3>2, FrameAssumption DEF ListInv, Gone
      <4>2. CASE o \in Movers
        <5>1. \A fn \in DelegateFns : Queued(path', u, fn) <=> Queued(path, u, fn)
          BY <1>5, <3>2, <4>2, ForgottenApart DEF ListInv
        <5> QED
          BY <4>1, <5>1 DEF Untouched, DelegateFns
      <4>3. CASE o \notin Movers
        BY <1>5, <4>1, <4>3
      <4> QED
        BY <4>2, <4>3
    <3> QED
      BY <3>1, <3>2
  <2>3. \A u : Untouched(path, u)' <=> Untouched(path', u)
    BY DEF Untouched, Queued
  <2> QED
    BY <2>1, <2>2, <2>3 DEF Gone
<1>11. Attached'
  <2> SUFFICES ASSUME NEW u \in Objects, obj'[u].parent # null
               PROVE  LET b == obj'[u].parent
                      IN  /\ b # u /\ obj'[b].list # "none" /\ obj'[b].parent = null
                          /\ ~obj'[u].bDestroy /\ ~obj'[b].bDestroy
    BY DEF Attached
  <2>1. u # o /\ obj'[u] = obj[u] /\ obj[u] \in ObjectRecords
    BY <1>2, <1>7, NoObjectFields
  <2> DEFINE b == obj[u].parent
  <2>2. b # null /\ b \in Objects
    BY <2>1 DEF ObjectRecords
  <2>3. b # u /\ obj[b].list # "none" /\ obj[b].parent = null
        /\ ~obj[u].bDestroy /\ ~obj[b].bDestroy
    BY <2>2 DEF ListInv, Attached
  <2>4. obj'[b] = obj[b]
    BY <1>7, <1>8, <2>2, <2>3
  <2> QED
    BY <2>1, <2>3, <2>4
<1>12. Destroyed'
  <2>1. ASSUME NEW u \in Objects
        PROVE  u \in ToSet(destroy_queue') <=> obj'[u].bDestroy
    <3>1. u \in ToSet(destroy_queue) <=> obj[u].bDestroy
      BY DEF ListInv, Destroyed
    <3> QED
      BY <1>4, <1>7, <3>1, NoObjectFields
  <2> QED
    BY <1>4, <2>1 DEF Destroyed
<1>13. Renders' /\ \A u \in Objects : ~Flagging(u) /\ ~Flagging(u)'
                                      /\ \A w \in Workers : ~Won(w, u)
  BY <1>1, <1>2 DEF NoRendering, Idle, Renders, RendersAt, Flagging, Won
<1>14. Flags'
  <2> SUFFICES ASSUME NEW u \in Objects
               PROVE  /\ u \in Crows' <=> obj'[u].crow \/ Flagging(u)'
                      /\ obj'[u].asCrow => obj'[u].crow \/ \E w \in Workers : Won(w, u)'
    BY DEF Flags
  <2>1. CASE u = o
    BY <1>6, <1>7, <1>13, <2>1, NoObjectFields
  <2>2. CASE u # o
    <3>1. /\ u \in Crows <=> obj[u].crow
          /\ obj[u].asCrow => obj[u].crow
      BY <1>13 DEF ListInv, Flags
    <3> QED
      BY <1>6, <1>7, <1>13, <2>2, <3>1
  <2> QED
    BY <2>1, <2>2
<1>15. Dues'
  <2> SUFFICES ASSUME NEW u \in due'
               PROVE  obj'[u].active > 0
                      /\ (obj'[u].crow \/ \E w \in Workers : rendering'[w].obj = u)
    BY DEF Dues
  <2>1. u \in due /\ u \in Objects \ {o}
    BY <1>5 DEF ListInv, Typed
  <2> QED
    BY <1>1, <1>7, <2>1 DEF ListInv, Dues
<1>16. Work'
  <2>1. workload' = <<>> /\ owed' = {} /\ ToSet(workload') = {}
    BY <1>1, <1>5 DEF ToSet
  <2> QED
    BY <1>4, <2>1 DEF Work
<1> QED
  BY <1>6, <1>9, <1>10, <1>11, <1>12, <1>13, <1>14, <1>15, <1>16 DEF ListInv

-----------------------------------------------------------------------------
(* Rendering *)

LEMMA WonRecord ==
    ASSUME NEW q \in ObjectRecords
    PROVE  LET r == [q EXCEPT !.asCrow = TRUE]
           IN  /\ r \in ObjectRecords /\ r.asCrow /\ r.crow = q.crow /\ r.list = q.list
               /\ r.active = q.active /\ r.parent = q.parent
               /\ r.bDestroy = q.bDestroy
BY DEF ObjectRecords

LEMMA FlaggedRecord ==
    ASSUME NEW q \in ObjectRecords
    PROVE  LET r == [q EXCEPT !.crow = TRUE]
           IN  /\ r \in ObjectRecords /\ r.crow /\ r.asCrow = q.asCrow /\ r.list = q.list
               /\ r.active = q.active /\ r.parent = q.parent
               /\ r.bDestroy = q.bDestroy
BY DEF ObjectRecords

\* The worker w goes on to `at', of o.
LEMMA RenderingMoves ==
    ASSUME Typed, NEW w \in Workers, NEW at \in {"idle", "exchange", "push", "flag"},
           NEW o \in Objects \union {null}, Rendering(w, at, o)
    PROVE  /\ rendering' \in [Workers -> Renderings]
           /\ rendering'[w].at = at /\ rendering'[w].obj = o
           /\ \A v \in Workers \ {w} : rendering'[v] = rendering[v]
<1>1. [at |-> at, obj |-> o] \in Renderings
  BY DEF Renderings
<1> QED
  BY <1>1 DEF Typed, Rendering

\* What rendering leaves alone.
LEMMA RenderingKeeps ==
    ASSUME ListInv, NEW w \in Workers, NEW at \in {"idle", "exchange", "push", "flag"},
           NEW o \in Objects \union {null}, Rendering(w, at, o),
           obj' \in [Objects -> ObjectRecords],
           m_secondary_crows' \in [Workers -> Seq(Objects)], due' \subseteq Objects,
           \A u \in Objects : obj'[u].list = "none" => obj'[u] = NoObject,
           SameTree(obj, obj')
    PROVE  Typed' /\ Gone' /\ Attached' /\ Destroyed' /\ Work'
<1>1. /\ phase = "render" /\ phase' = phase
      /\ UNCHANGED <<m_primary_crows, workload, destroy_queue, path, events, owed>>
  BY DEF Rendering
<1>2. rendering' \in [Workers -> Renderings]
  BY RenderingMoves DEF ListInv
<1>3. Typed'
  BY <1>1, <1>2 DEF ListInv, Typed
<1>4. Gone'
  <2>1. \A u \in Movers : obj'[u].list = "none" => Untouched(path', u)
    BY <1>1, PathLeft
  <2>2. \A u : Untouched(path, u)' <=> Untouched(path', u)
    BY DEF Untouched, Queued
  <2> QED
    BY <2>1, <2>2 DEF Gone
<1>5. Attached' /\ Destroyed'
  BY <1>1, TreeKept DEF ListInv, Typed
<1>6. Work'
  <2>1. workload = <<>> /\ owed = {}
    BY <1>1 DEF ListInv, Work
  <2>2. workload' = <<>> /\ owed' = {} /\ ToSet(workload') = {}
    BY <1>1, <2>1 DEF ToSet
  <2> QED
    BY <1>1, <2>2 DEF Work
<1> QED
  BY <1>3, <1>4, <1>5, <1>6

LEMMA RenderLists ==
    ASSUME ListInv, OnceInv', NEW w \in Workers, NEW o \in Objects, Render(w, o)
    PROVE  ListInv'
<1>1. /\ phase = "render" /\ phase' = phase /\ rendering[w] = Idle
      /\ obj[o].list # "none" /\ obj[o].active > 0 /\ ~obj[o].crow /\ ~obj[o].asCrow
      /\ due' = due \union {o} /\ Rendering(w, "exchange", o)
      /\ UNCHANGED <<obj, m_secondary_crows, m_primary_crows>>
  BY DEF Render, Rendering, Exists, processing_enabled
<1>2. /\ rendering'[w].at = "exchange" /\ rendering'[w].obj = o
      /\ \A v \in Workers \ {w} : rendering'[v] = rendering[v]
  BY <1>1, RenderingMoves DEF ListInv
<1>3. rendering[w].at = "idle" /\ rendering[w].obj = null
  BY <1>1 DEF Idle
<1>4. Typed' /\ Gone' /\ Attached' /\ Destroyed' /\ Work'
  <2>1. SameTree(obj, obj') /\ due' \subseteq Objects
    BY <1>1 DEF SameTree, ListInv, Typed
  <2> QED
    BY <1>1, <2>1, RenderingKeeps DEF ListInv, Typed, Gone
<1>5. \A u, v : v \in Workers => (Won(v, u)' <=> Won(v, u))
  BY <1>2, <1>3 DEF Won
<1>6. \A u : Flagging(u)' <=> Flagging(u)
  BY <1>2, <1>3 DEF Flagging
<1>7. Renders'
  <2> SUFFICES ASSUME NEW v \in Workers PROVE RendersAt(v)'
    BY DEF Renders
  <2>1. CASE v = w
    BY <1>1, <1>2, <2>1 DEF RendersAt
  <2>2. CASE v # w
    BY <1>1, <1>2, <1>5, <2>2 DEF ListInv, Renders, RendersAt
  <2> QED
    BY <2>1, <2>2
<1>8. Separate' /\ Crows' = Crows
  BY <1>1 DEF ListInv, Separate, Crows
<1>9. Flags'
  BY <1>1, <1>5, <1>6, <1>8 DEF ListInv, Flags
<1>10. Dues'
  <2> SUFFICES ASSUME NEW u \in due'
               PROVE  obj'[u].active > 0
                      /\ (obj'[u].crow \/ \E v \in Workers : rendering'[v].obj = u)
    BY DEF Dues
  <2>1. CASE u = o
    BY <1>1, <1>2, <2>1
  <2>2. CASE u # o
    <3>1. u \in due /\ u \in Objects /\ u # null
      BY <1>1, <2>2, FrameAssumption DEF ListInv, Typed
    <3>2. obj[u].active > 0 /\ (obj[u].crow \/ \E v \in Workers : rendering[v].obj = u)
      BY <3>1 DEF ListInv, Dues
    <3>3. \A v \in Workers : rendering[v].obj = u => v # w
      BY <1>3, <3>1
    <3> QED
      BY <1>1, <1>2, <3>2, <3>3
  <2> QED
    BY <2>1, <2>2
<1> QED
  BY <1>4, <1>7, <1>8, <1>9, <1>10 DEF ListInv

\* Where the worker w is, and of which object, when it has been rendering.
LEMMA RenderedObject ==
    ASSUME ListInv, NEW w \in Workers, rendering[w].at # "idle"
    PROVE  /\ phase = "render" /\ rendering[w].obj \in Objects
           /\ rendering[w].obj # null
           /\ obj[rendering[w].obj] \in ObjectRecords
           /\ obj[rendering[w].obj].list # "none"
BY FrameAssumption DEF ListInv, Renders, RendersAt, Typed

\* Another worker has got on with the same object.
LEMMA LostLists ==
    ASSUME ListInv, OnceInv', NEW w \in Workers, Exchange(w),
           obj[rendering[w].obj].asCrow
    PROVE  ListInv'
<1>1. PICK o \in Objects : o = rendering[w].obj /\ o # null
  BY RenderedObject DEF Exchange
<1>2. /\ rendering[w].at = "exchange" /\ phase = "render" /\ phase' = phase
      /\ Rendering(w, "idle", null) /\ obj[o].asCrow
      /\ UNCHANGED <<obj, m_secondary_crows, due, m_primary_crows>>
  BY <1>1 DEF Exchange, Rendering
<1>3. /\ rendering'[w].at = "idle" /\ rendering'[w].obj = null
      /\ \A v \in Workers \ {w} : rendering'[v] = rendering[v]
  BY <1>2, RenderingMoves DEF ListInv
<1>4. Typed' /\ Gone' /\ Attached' /\ Destroyed' /\ Work'
  <2>1. SameTree(obj, obj')
    BY <1>2 DEF SameTree
  <2> QED
    BY <1>2, <2>1, RenderingKeeps DEF ListInv, Typed, Gone
<1>5. \A u, v : v \in Workers => (Won(v, u)' <=> Won(v, u))
  BY <1>2, <1>3 DEF Won
<1>6. \A u : Flagging(u)' <=> Flagging(u)
  BY <1>2, <1>3 DEF Flagging
<1>7. Renders'
  <2> SUFFICES ASSUME NEW v \in Workers PROVE RendersAt(v)'
    BY DEF Renders
  <2>1. CASE v = w
    BY <1>2, <1>3, <2>1 DEF RendersAt
  <2>2. CASE v # w
    BY <1>2, <1>3, <1>5, <2>2 DEF ListInv, Renders, RendersAt
  <2> QED
    BY <2>1, <2>2
<1>8. Separate' /\ Crows' = Crows
  BY <1>2 DEF ListInv, Separate, Crows
<1>9. Flags'
  BY <1>2, <1>5, <1>6, <1>8 DEF ListInv, Flags
<1>10. Dues'
  <2> SUFFICES ASSUME NEW u \in due'
               PROVE  obj'[u].active > 0
                      /\ (obj'[u].crow \/ \E v \in Workers : rendering'[v].obj = u)
    BY DEF Dues
  <2>1. obj[u].active > 0 /\ (obj[u].crow \/ \E v \in Workers : rendering[v].obj = u)
    BY <1>2 DEF ListInv, Dues
  <2>2. CASE u = o
    <3>1. obj[o].crow \/ \E v \in Workers : Won(v, o)
      BY <1>2 DEF ListInv, Flags
    <3>2. \A v \in Workers : Won(v, o) => v # w /\ rendering[v].obj = o
      BY <1>2 DEF Won
    <3> QED
      BY <1>2, <1>3, <2>1, <2>2, <3>1, <3>2
  <2>3. CASE u # o
    BY <1>1, <1>2, <1>3, <2>1, <2>3
  <2> QED
    BY <2>2, <2>3
<1> QED
  BY <1>4, <1>7, <1>8, <1>9, <1>10 DEF ListInv

\* The worker gets on, and is the only one to.
LEMMA WonLists ==
    ASSUME ListInv, OnceInv', NEW w \in Workers, Exchange(w),
           ~obj[rendering[w].obj].asCrow
    PROVE  ListInv'
<1>1. PICK o \in Objects : o = rendering[w].obj /\ o # null
  BY RenderedObject DEF Exchange
<1> DEFINE r == [obj[o] EXCEPT !.asCrow = TRUE]
<1>2. /\ rendering[w].at = "exchange" /\ phase = "render" /\ phase' = phase
      /\ Rendering(w, "push", o) /\ ~obj[o].asCrow /\ obj' = [obj EXCEPT ![o] = r]
      /\ obj[o] \in ObjectRecords /\ obj[o].list # "none"
      /\ UNCHANGED <<m_secondary_crows, due, m_primary_crows>>
  BY <1>1, RenderedObject DEF Exchange, Rendering
<1>3. /\ r \in ObjectRecords /\ r.asCrow /\ r.crow = obj[o].crow /\ r.list = obj[o].list
      /\ r.active = obj[o].active /\ r.parent = obj[o].parent
      /\ r.bDestroy = obj[o].bDestroy
  BY <1>2, WonRecord
<1> HIDE DEF r
<1>4. /\ obj' \in [Objects -> ObjectRecords] /\ obj'[o] = r
      /\ \A u \in Objects \ {o} : obj'[u] = obj[u]
  BY <1>2, <1>3 DEF ListInv, Typed
<1>5. /\ rendering'[w].at = "push" /\ rendering'[w].obj = o
      /\ \A v \in Workers \ {w} : rendering'[v] = rendering[v]
  BY <1>2, RenderingMoves DEF ListInv
<1>6. Typed' /\ Gone' /\ Attached' /\ Destroyed' /\ Work'
  <2>1. SameTree(obj, obj')
    BY <1>3, <1>4 DEF SameTree
  <2>2. \A u \in Objects : obj'[u].list = "none" => obj'[u] = NoObject
    BY <1>2, <1>3, <1>4 DEF ListInv, Gone
  <2> QED
    BY <1>2, <1>4, <2>1, <2>2, RenderingKeeps DEF ListInv, Typed
<1>7. \A v \in Workers : ~Won(v, o)
  BY <1>2 DEF ListInv, Renders, RendersAt, Won
<1>8. \A u : Flagging(u)' <=> Flagging(u)
  BY <1>2, <1>5 DEF Flagging
<1>9. \A u, v : v \in Workers => (Won(v, u)' <=> Won(v, u) \/ (v = w /\ u = o))
  BY <1>2, <1>5 DEF Won
<1>10. ~obj[o].crow
  BY <1>1, <1>2 DEF ListInv, Renders, RendersAt
<1>11. Renders'
  <2> SUFFICES ASSUME NEW v \in Workers PROVE RendersAt(v)'
    BY DEF Renders
  <2>1. CASE v = w
    BY <1>2, <1>3, <1>4, <1>5, <1>7, <1>9, <1>10, <2>1 DEF RendersAt
  <2>2. CASE v # w
    <3> DEFINE u == rendering[v].obj
    <3>1. /\ rendering[v].at = "idle" => u = null
          /\ rendering[v].at # "idle" => u \in Objects /\ obj[u].list # "none"
          /\ rendering[v].at = "exchange" => (obj[u].crow => obj[u].asCrow)
          /\ rendering[v].at \in {"push", "flag"} =>
                /\ obj[u].asCrow /\ ~obj[u].crow
                /\ \A x \in Workers : Won(x, u) => x = v
      BY DEF ListInv, Renders, RendersAt
    <3>2. rendering[v].at \in {"push", "flag"} => u # o
      BY <1>7 DEF Won
    <3>3. rendering'[v] = rendering[v]
      BY <1>5, <2>2
    <3>4. u \in Objects => obj'[u].list = obj[u].list /\ obj'[u].crow = obj[u].crow
                           /\ (obj[u].asCrow => obj'[u].asCrow)
      BY <1>2, <1>3, <1>4
    <3>5. rendering[v].at \in {"push", "flag"} => rendering[v].at # "idle"
      OBVIOUS
    <3>6. rendering[v].at \in {"push", "flag"} => \A x \in Workers : Won(x, u)' => x = v
      <4> SUFFICES ASSUME rendering[v].at \in {"push", "flag"},
                          NEW x \in Workers, Won(x, u)'
                   PROVE  x = v
        OBVIOUS
      <4>1. rendering'[x].at \in {"push", "flag"} /\ rendering'[x].obj = u
        BY <3>3 DEF Won
      <4>2. x # w
        BY <1>5, <3>2, <4>1
      <4>3. Won(x, u)
        BY <1>5, <4>1, <4>2 DEF Won
      <4> QED
        BY <3>1, <4>3
    <3> QED
      BY <1>2, <3>1, <3>3, <3>4, <3>5, <3>6 DEF RendersAt
  <2> QED
    BY <2>1, <2>2
<1>12. Separate' /\ Crows' = Crows
  BY <1>2 DEF ListInv, Separate, Crows
<1>13. Flags'
  <2> SUFFICES ASSUME NEW u \in Objects
               PROVE  /\ u \in Crows' <=> obj'[u].crow \/ Flagging(u)'
                      /\ obj'[u].asCrow => obj'[u].crow \/ \E v \in Workers : Won(v, u)'
    BY DEF Flags
  <2>1. /\ u \in Crows <=> obj[u].crow \/ Flagging(u)
        /\ obj[u].asCrow => obj[u].crow \/ \E v \in Workers : Won(v, u)
    BY DEF ListInv, Flags
  <2>2. CASE u = o
    BY <1>3, <1>4, <1>8, <1>9, <1>12, <2>1, <2>2
  <2>3. CASE u # o
    BY <1>4, <1>8, <1>9, <1>12, <2>1, <2>3
  <2> QED
    BY <2>2, <2>3
<1>14. Dues'
  <2> SUFFICES ASSUME NEW u \in due'
               PROVE  obj'[u].active > 0
                      /\ (obj'[u].crow \/ \E v \in Workers : rendering'[v].obj = u)
    BY DEF Dues
  <2>1. /\ u \in Objects /\ obj[u].active > 0
        /\ obj[u].crow \/ \E v \in Workers : rendering[v].obj = u
    BY <1>2 DEF ListInv, Dues, Typed
  <2>2. \A v \in Workers : rendering'[v].obj = rendering[v].obj
    BY <1>1, <1>5
  <2>3. obj'[u].active = obj[u].active /\ obj'[u].crow = obj[u].crow
    BY <1>3, <1>4, <2>1
  <2> QED
    BY <2>1, <2>2, <2>3
<1> QED
  BY <1>6, <1>11, <1>12, <1>13, <1>14 DEF ListInv

\* The object goes into the worker's own list, and is in no other.
LEMMA PushLists ==
    ASSUME ListInv, OnceInv', NEW w \in Workers, Push(w)
    PROVE  ListInv'
<1>1. PICK o \in Objects : o = rendering[w].obj /\ o # null
  BY RenderedObject DEF Push
<1>2. /\ rendering[w].at = "push" /\ phase = "render" /\ phase' = phase
      /\ Rendering(w, "flag", o)
      /\ m_secondary_crows' = [m_secondary_crows EXCEPT ![w] = Append(@, o)]
      /\ UNCHANGED <<obj, due, m_primary_crows>>
  BY <1>1 DEF Push, Rendering
<1>3. /\ rendering'[w].at = "flag" /\ rendering'[w].obj = o
      /\ \A v \in Workers \ {w} : rendering'[v] = rendering[v]
  BY <1>2, RenderingMoves DEF ListInv
<1>4. /\ obj[o].asCrow /\ ~obj[o].crow /\ \A v \in Workers : Won(v, o) => v = w
  BY <1>1, <1>2 DEF ListInv, Renders, RendersAt
<1>5. o \notin Crows
  <2>1. ~Flagging(o)
    BY <1>2, <1>4 DEF Flagging, Won
  <2> QED
    BY <1>4, <2>1 DEF ListInv, Flags
<1>6. o \notin ToSet(m_primary_crows) /\ \A v \in Workers : o \notin ToSet(m_secondary_crows[v])
  BY <1>5 DEF Crows
<1>7. /\ m_secondary_crows' \in [Workers -> Seq(Objects)]
      /\ IsInjective(m_secondary_crows'[w])
      /\ ToSet(m_secondary_crows'[w]) = ToSet(m_secondary_crows[w]) \union {o}
      /\ \A v \in Workers \ {w} : m_secondary_crows'[v] = m_secondary_crows[v]
  <2> DEFINE s == m_secondary_crows[w]
             t == Append(s, o)
  <2>1. s \in Seq(Objects) /\ IsInjective(s) /\ o \notin ToSet(s)
    BY <1>6 DEF ListInv, Typed, Separate
  <2>2. t \in Seq(Objects) /\ IsInjective(t) /\ ToSet(t) = ToSet(s) \union {o}
    BY <2>1, AppendToSet, AppendProperties
  <2>3. m_secondary_crows' = [m_secondary_crows EXCEPT ![w] = t]
    BY <1>2
  <2> HIDE DEF t
  <2> QED
    BY <2>2, <2>3 DEF ListInv, Typed
<1>8. Typed' /\ Gone' /\ Attached' /\ Destroyed' /\ Work'
  <2>1. SameTree(obj, obj')
    BY <1>2 DEF SameTree
  <2> QED
    BY <1>2, <1>7, <2>1, RenderingKeeps DEF ListInv, Typed, Gone
<1>9. \A u, v : v \in Workers => (Won(v, u)' <=> Won(v, u))
  BY <1>1, <1>2, <1>3 DEF Won
<1>10. \A u : Flagging(u)' <=> Flagging(u) \/ u = o
  BY <1>2, <1>3 DEF Flagging
<1>11. Renders'
  <2> SUFFICES ASSUME NEW v \in Workers PROVE RendersAt(v)'
    BY DEF Renders
  <2>1. RendersAt(v)
    BY DEF ListInv, Renders
  <2>2. CASE v = w
    BY <1>1, <1>2, <1>3, <1>4, <1>9, <2>1, <2>2 DEF RendersAt
  <2>3. CASE v # w
    BY <1>2, <1>3, <1>9, <2>1, <2>3 DEF RendersAt
  <2> QED
    BY <2>2, <2>3
<1>12. Separate'
  <2>1. IsInjective(m_primary_crows')
    BY <1>2 DEF ListInv, Separate
  <2>2. ASSUME NEW v \in Workers
        PROVE  /\ IsInjective(m_secondary_crows'[v])
               /\ ToSet(m_primary_crows') \cap ToSet(m_secondary_crows'[v]) = {}
               /\ \A x \in Workers \ {v} :
                     ToSet(m_secondary_crows'[x]) \cap ToSet(m_secondary_crows'[v]) = {}
    <3>1. /\ IsInjective(m_secondary_crows[v])
          /\ ToSet(m_primary_crows) \cap ToSet(m_secondary_crows[v]) = {}
          /\ \A x \in Workers \ {v} :
                ToSet(m_secondary_crows[x]) \cap ToSet(m_secondary_crows[v]) = {}
      BY DEF ListInv, Separate
    <3>2. m_primary_crows' = m_primary_crows
      BY <1>2
    <3>3. CASE v = w
      BY <1>6, <1>7, <3>1, <3>2, <3>3
    <3>4. CASE v # w
      BY <1>6, <1>7, <3>1, <3>2, <3>4
    <3> QED
      BY <3>3, <3>4
  <2> QED
    BY <2>1, <2>2 DEF Separate
<1>13. ASSUME NEW u PROVE u \in Crows' <=> u \in Crows \/ u = o
  <2>1. u \in Crows <=> \/ u \in ToSet(m_primary_crows)
                        \/ \E v \in Workers : u \in ToSet(m_secondary_crows[v])
    BY DEF Crows
  <2>2. u \in Crows' <=> \/ u \in ToSet(m_primary_crows')
                         \/ \E v \in Workers : u \in ToSet(m_secondary_crows'[v])
    BY DEF Crows
  <2>3. \A v \in Workers : u \in ToSet(m_secondary_crows'[v])
                             <=> u \in ToSet(m_secondary_crows[v]) \/ (u = o /\ v = w)
    BY <1>7
  <2>4. m_primary_crows' = m_primary_crows
    BY <1>2
  <2> QED
    BY <2>1, <2>2, <2>3, <2>4
<1>14. Flags'
  BY <1>2, <1>9, <1>10, <1>13 DEF ListInv, Flags
<1>15. Dues'
  <2>1. \A v \in Workers : rendering'[v].obj = rendering[v].obj
    BY <1>1, <1>3
  <2> QED
    BY <1>2, <2>1 DEF ListInv, Dues
<1> QED
  BY <1>8, <1>11, <1>12, <1>14, <1>15 DEF ListInv

\* The flag is set behind the list.
LEMMA FlagLists ==
    ASSUME ListInv, OnceInv', NEW w \in Workers, Flag(w)
    PROVE  ListInv'
<1>1. PICK o \in Objects : o = rendering[w].obj /\ o # null
  BY RenderedObject DEF Flag
<1> DEFINE r == [obj[o] EXCEPT !.crow = TRUE]
<1>2. /\ rendering[w].at = "flag" /\ phase = "render" /\ phase' = phase
      /\ Rendering(w, "idle", null) /\ obj' = [obj EXCEPT ![o] = r]
      /\ obj[o] \in ObjectRecords /\ obj[o].list # "none"
      /\ UNCHANGED <<m_secondary_crows, due, m_primary_crows>>
  BY <1>1, RenderedObject DEF Flag, Rendering
<1>3. /\ r \in ObjectRecords /\ r.crow /\ r.asCrow = obj[o].asCrow /\ r.list = obj[o].list
      /\ r.active = obj[o].active /\ r.parent = obj[o].parent
      /\ r.bDestroy = obj[o].bDestroy
  BY <1>2, FlaggedRecord
<1> HIDE DEF r
<1>4. /\ obj' \in [Objects -> ObjectRecords] /\ obj'[o] = r
      /\ \A u \in Objects \ {o} : obj'[u] = obj[u]
  BY <1>2, <1>3 DEF ListInv, Typed
<1>5. /\ rendering'[w].at = "idle" /\ rendering'[w].obj = null
      /\ \A v \in Workers \ {w} : rendering'[v] = rendering[v]
  BY <1>2, RenderingMoves DEF ListInv
<1>6. Typed' /\ Gone' /\ Attached' /\ Destroyed' /\ Work'
  <2>1. SameTree(obj, obj')
    BY <1>3, <1>4 DEF SameTree
  <2>2. \A u \in Objects : obj'[u].list = "none" => obj'[u] = NoObject
    BY <1>2, <1>3, <1>4 DEF ListInv, Gone
  <2> QED
    BY <1>2, <1>4, <2>1, <2>2, RenderingKeeps DEF ListInv, Typed
<1>7. /\ obj[o].asCrow /\ \A v \in Workers : Won(v, o) => v = w
  BY <1>1, <1>2 DEF ListInv, Renders, RendersAt
<1>8. Flagging(o) /\ \A u : u # o => (Flagging(u)' <=> Flagging(u))
  BY <1>1, <1>2, <1>5 DEF Flagging
<1>9. \A u, v : v \in Workers => (Won(v, u)' <=> Won(v, u) /\ v # w)
  BY <1>5 DEF Won
<1>10. \A u : u # o => ~Won(w, u)
  BY <1>1 DEF Won
<1>11. Renders'
  <2> SUFFICES ASSUME NEW v \in Workers PROVE RendersAt(v)'
    BY DEF Renders
  <2>1. CASE v = w
    BY <1>5, <2>1 DEF RendersAt
  <2>2. CASE v # w
    <3> DEFINE u == rendering[v].obj
    <3>1. /\ rendering[v].at = "idle" => u = null
          /\ rendering[v].at # "idle" => u \in Objects /\ obj[u].list # "none"
          /\ rendering[v].at = "exchange" => (obj[u].crow => obj[u].asCrow)
          /\ rendering[v].at \in {"push", "flag"} =>
                /\ obj[u].asCrow /\ ~obj[u].crow
                /\ \A x \in Workers : Won(x, u) => x = v
      BY DEF ListInv, Renders, RendersAt
    <3>2. rendering[v].at \in {"push", "flag"} => u # o
      BY <1>7, <2>2 DEF Won
    <3>3. rendering'[v] = rendering[v]
      BY <1>5, <2>2
    <3>4. u \in Objects => /\ obj'[u].list = obj[u].list /\ obj'[u].asCrow = obj[u].asCrow
                           /\ u # o => obj'[u].crow = obj[u].crow
      BY <1>3, <1>4
    <3>5. rendering[v].at = "exchange" => (obj'[u].crow => obj'[u].asCrow)
      BY <1>3, <1>4, <1>7, <3>1, <3>4
    <3>6. rendering[v].at \in {"push", "flag"} => \A x \in Workers : Won(x, u)' => x = v
      <4> SUFFICES ASSUME rendering[v].at \in {"push", "flag"},
                          NEW x \in Workers, Won(x, u)'
                   PROVE  x = v
        OBVIOUS
      <4>1. rendering'[x].at \in {"push", "flag"} /\ rendering'[x].obj = u
        BY <3>3 DEF Won
      <4>2. Won(x, u)
        BY <1>5, <4>1 DEF Won
      <4> QED
        BY <3>1, <4>2
    <3>7. rendering[v].at \in {"push", "flag"} => rendering[v].at # "idle"
      OBVIOUS
    <3> QED
      BY <1>2, <3>1, <3>2, <3>3, <3>4, <3>5, <3>6, <3>7 DEF RendersAt
  <2> QED
    BY <2>1, <2>2
<1>12. Separate' /\ Crows' = Crows
  BY <1>2 DEF ListInv, Separate, Crows
<1>13. Flags'
  <2> SUFFICES ASSUME NEW u \in Objects
               PROVE  /\ u \in Crows' <=> obj'[u].crow \/ Flagging(u)'
                      /\ obj'[u].asCrow => obj'[u].crow \/ \E v \in Workers : Won(v, u)'
    BY DEF Flags
  <2>1. /\ u \in Crows <=> obj[u].crow \/ Flagging(u)
        /\ obj[u].asCrow => obj[u].crow \/ \E v \in Workers : Won(v, u)
    BY DEF ListInv, Flags
  <2>2. CASE u = o
    BY <1>3, <1>4, <1>8, <1>12, <2>1, <2>2
  <2>3. CASE u # o
    BY <1>4, <1>8, <1>9, <1>10, <1>12, <2>1, <2>3
  <2> QED
    BY <2>2, <2>3
<1>14. Dues'
  <2> SUFFICES ASSUME NEW u \in due'
               PROVE  obj'[u].active > 0
                      /\ (obj'[u].crow \/ \E v \in Workers : rendering'[v].obj = u)
    BY DEF Dues
  <2>1. /\ u \in Objects /\ obj[u].active > 0
        /\ obj[u].crow \/ \E v \in Workers : rendering[v].obj = u
    BY <1>2 DEF ListInv, Dues, Typed
  <2>2. CASE u = o
    BY <1>3, <1>4, <2>1, <2>2
  <2>3. CASE u # o
    BY <1>1, <1>4, <1>5, <2>1, <2>3
  <2> QED
    BY <2>2, <2>3
<1> QED
  BY <1>6, <1>11, <1>12, <1>13, <1>14 DEF ListInv

\* A delegate has run, beside the renderers.
LEMMA ParallelLists ==
    ASSUME ListInv, OnceInv', RunParallel
    PROVE  ListInv'
<1> DEFINE d == Head(path.seqParallel)
           p == [path EXCEPT !.seqParallel = Tail(@)]
<1>1. /\ path.seqParallel \in Seq(Delegates) /\ path.seqParallel # <<>> /\ GoodPath(path)
      /\ UNCHANGED <<obj, lists, workload, destroy_queue, phase, rendering, events, due, owed>>
  BY DEF RunParallel, ListInv, OnceInv, Inv, GoodPath, Paths
<1>2. /\ d \in Delegates /\ Tail(path.seqParallel) \in Seq(Delegates)
      /\ ToSet(Tail(path.seqParallel)) \subseteq ToSet(path.seqParallel)
  BY <1>1, HeadTailToSet
<1>3. GoodPath(p) /\ p.seqParallel = Tail(path.seqParallel)
  BY <1>1, <1>2, SeqGood DEF GoodPath, Paths
<1>4. d.obj \in Movers /\ d.fn \in {"level", "detail", "sound"}
  BY <1>2 DEF Delegates
<1>5. path' \in CASE d.fn = "level" -> level_process(p, d.obj)
                  [] d.fn = "detail" -> detail_process(p, d.obj)
                  [] d.fn = "sound" -> {p}
  BY DEF RunParallel
<1> HIDE DEF d, p
<1>6. path'.seqParallel = p.seqParallel
  <2>1. CASE d.fn = "level"
    BY <1>3, <1>4, <1>5, <2>1, LevelProcessQuiet DEF Quiet
  <2>2. CASE d.fn = "detail"
    BY <1>3, <1>4, <1>5, <2>2, DetailProcessQuiet DEF Quiet
  <2>3. CASE d.fn = "sound"
    BY <1>5, <2>3
  <2> QED
    BY <1>4, <2>1, <2>2, <2>3
<1>7. \A u : Untouched(path, u) => Untouched(path, u)'
  BY <1>2, <1>3, <1>6 DEF Untouched, Queued
<1>8. Gone'
  BY <1>1, <1>7 DEF ListInv, Gone
<1>9. Typed' /\ Attached' /\ Destroyed' /\ Dues' /\ Work'
  BY <1>1 DEF ListInv, Typed, Attached, Destroyed, Dues, Work, Updates,
              processing_enabled, lists
<1>10. Separate' /\ Crows' = Crows
  BY <1>1 DEF ListInv, Separate, Crows, lists
<1>11. \A u, v : Won(v, u)' <=> Won(v, u)
  BY <1>1 DEF Won
<1>12. \A u : Flagging(u)' <=> Flagging(u)
  BY <1>1 DEF Flagging
<1>13. Renders' /\ Flags'
  <2>1. \A v \in Workers : RendersAt(v)'
    BY <1>1, <1>11 DEF ListInv, Renders, RendersAt
  <2> QED
    BY <1>1, <1>10, <1>11, <1>12, <2>1 DEF ListInv, Renders, Flags
<1> QED
  BY <1>8, <1>9, <1>10, <1>13 DEF ListInv

\* A frame later.
Fresh(q) == [q EXCEPT !.asCrow = FALSE, !.updated = FALSE, !.scheduled = FALSE]

LEMMA LostRecord ==
    ASSUME NEW q \in ObjectRecords
    PROVE  LET r == [q EXCEPT !.asCrow = FALSE]
           IN  /\ r \in ObjectRecords /\ ~r.asCrow /\ r.crow = q.crow /\ r.list = q.list
               /\ r.active = q.active /\ r.parent = q.parent
               /\ r.bDestroy = q.bDestroy /\ r.updated = q.updated
               /\ r.scheduled = q.scheduled
               /\ q.asCrow = FALSE => r = q
BY DEF ObjectRecords

LEMMA UntouchedRecord ==
    ASSUME NEW q \in ObjectRecords
    PROVE  LET r == [q EXCEPT !.updated = FALSE]
           IN  /\ r \in ObjectRecords /\ ~r.updated /\ r.crow = q.crow /\ r.list = q.list
               /\ r.active = q.active /\ r.parent = q.parent
               /\ r.bDestroy = q.bDestroy /\ r.asCrow = q.asCrow
               /\ r.scheduled = q.scheduled
               /\ q.updated = FALSE => r = q
BY DEF ObjectRecords

LEMMA LaterRecord ==
    ASSUME NEW q \in ObjectRecords
    PROVE  LET r == [q EXCEPT !.scheduled = FALSE]
           IN  /\ r \in ObjectRecords /\ r.crow = q.crow /\ r.list = q.list
               /\ r.active = q.active /\ r.parent = q.parent
               /\ r.bDestroy = q.bDestroy /\ r.asCrow = q.asCrow
               /\ r.updated = q.updated
               /\ q.scheduled = FALSE => r = q
BY DEF ObjectRecords

LEMMA FreshRecord ==
    ASSUME NEW q \in ObjectRecords
    PROVE  /\ Fresh(q) \in ObjectRecords /\ ~Fresh(q).asCrow /\ ~Fresh(q).updated
           /\ Fresh(q).crow = q.crow /\ Fresh(q).list = q.list
           /\ Fresh(q).active = q.active /\ Fresh(q).parent = q.parent
           /\ Fresh(q).bDestroy = q.bDestroy
           /\ q = NoObject => Fresh(q) = NoObject
<1> DEFINE a == [q EXCEPT !.asCrow = FALSE]
           b == [a EXCEPT !.updated = FALSE]
           c == [b EXCEPT !.scheduled = FALSE]
<1>1. Fresh(q) = c
  BY DEF Fresh
<1>2. /\ a \in ObjectRecords /\ ~a.asCrow /\ a.crow = q.crow /\ a.list = q.list
      /\ a.active = q.active /\ a.parent = q.parent /\ a.bDestroy = q.bDestroy
      /\ q.asCrow = FALSE => a = q
  BY LostRecord
<1> HIDE DEF a
<1>3. /\ b \in ObjectRecords /\ ~b.updated /\ b.asCrow = a.asCrow /\ b.crow = a.crow
      /\ b.list = a.list /\ b.active = a.active /\ b.parent = a.parent
      /\ b.bDestroy = a.bDestroy
      /\ a.updated = FALSE => b = a
  BY <1>2, UntouchedRecord
<1> HIDE DEF b
<1>4. /\ c \in ObjectRecords /\ c.updated = b.updated /\ c.asCrow = b.asCrow
      /\ c.crow = b.crow /\ c.list = b.list /\ c.active = b.active
      /\ c.parent = b.parent /\ c.bDestroy = b.bDestroy
      /\ b.scheduled = FALSE => c = b
  BY <1>3, LaterRecord
<1> HIDE DEF c
<1> QED
  BY <1>1, <1>2, <1>3, <1>4, NoObjectFields

LEMMA NextFrameLists ==
    ASSUME ListInv, OnceInv', NextFrame
    PROVE  ListInv'
<1>1. /\ phase = "render" /\ phase' = "events" /\ path.seqParallel = <<>> /\ NoRendering
      /\ events' = MaxEvents
      /\ obj' = [o \in Objects |-> Fresh(obj[o])]
      /\ UNCHANGED <<m_primary_crows, m_secondary_crows, workload, destroy_queue,
                     rendering, due, owed>>
  BY DEF NextFrame, NoRendering, lists, Fresh
<1>2. ASSUME NEW o \in Objects
      PROVE  /\ obj'[o] \in ObjectRecords /\ ~obj'[o].asCrow /\ ~obj'[o].updated
             /\ obj'[o].crow = obj[o].crow /\ obj'[o].list = obj[o].list
             /\ obj'[o].active = obj[o].active /\ obj'[o].parent = obj[o].parent
             /\ obj'[o].bDestroy = obj[o].bDestroy
             /\ obj[o] = NoObject => obj'[o] = NoObject
  <2>1. obj[o] \in ObjectRecords
    BY DEF ListInv, Typed
  <2>2. obj'[o] = Fresh(obj[o])
    BY <1>1
  <2> QED
    BY <2>1, <2>2, FreshRecord
<1>3. Typed'
  <2>1. obj' \in [Objects -> ObjectRecords]
    BY <1>1, <1>2
  <2>2. events' \in 0 .. MaxEvents
    BY <1>1, FrameAssumption
  <2> QED
    BY <1>1, <2>1, <2>2 DEF ListInv, Typed
<1>4. SameTree(obj, obj')
  BY <1>2 DEF SameTree
<1>5. Attached'
  BY <1>4, AttachedKept DEF ListInv, Typed
<1>6. Destroyed'
  BY <1>1, <1>2 DEF ListInv, Destroyed
<1>7. Gone'
  <2>1. path'.seqParallel = <<>>
    <3>1. path'.seqParallel = path.seqParallel
      BY DEF NextFrame, ListInv, OnceInv, Inv, GoodPath, Paths
    <3> QED
      BY <1>1, <3>1
  <2>2. \A u : Untouched(path, u)'
    BY <2>1 DEF Untouched, Queued, ToSet
  <2> QED
    BY <1>2, <2>2 DEF ListInv, Gone
<1>8. Renders' /\ \A u \in Objects : ~Flagging(u) /\ ~Flagging(u)'
                                     /\ \A w \in Workers : ~Won(w, u)
  BY <1>1 DEF NoRendering, Idle, Renders, RendersAt, Flagging, Won
<1>9. Separate' /\ Crows' = Crows
  BY <1>1 DEF ListInv, Separate, Crows
<1>10. Flags'
  BY <1>2, <1>8, <1>9 DEF ListInv, Flags
<1>11. Dues'
  BY <1>1, <1>2 DEF ListInv, Dues, Typed
<1>12. Work'
  <2>1. workload' = <<>> /\ owed' = {} /\ ToSet(workload') = {}
    BY <1>1 DEF ListInv, Work, ToSet
  <2> QED
    BY <1>1, <1>2, <2>1 DEF Work
<1> QED
  BY <1>3, <1>5, <1>6, <1>7, <1>8, <1>9, <1>10, <1>11, <1>12 DEF ListInv

-----------------------------------------------------------------------------
(* The invariant is inductive, and says what was promised *)

LEMMA ListInit == Init => ListInv
<1> SUFFICES ASSUME Init PROVE ListInv
  OBVIOUS
<1>1. OnceInv
  BY OnceInit
<1>2. /\ obj = [o \in Objects |-> NoObject]
      /\ m_primary_crows = <<>> /\ m_secondary_crows = [w \in Workers |-> <<>>]
      /\ workload = <<>> /\ destroy_queue = <<>>
      /\ phase = "events" /\ rendering = [w \in Workers |-> Idle]
      /\ events = MaxEvents /\ due = {} /\ owed = {}
      /\ path.seqParallel = <<>>
  BY DEF Init
<1>3. \A o \in Objects : obj[o] = NoObject
  BY <1>2
<1>4. ToSet(<<>>) = {} /\ IsInjective(<<>>)
  BY DEF ToSet, IsInjective
<1>5. \A w \in Workers : rendering[w].at = "idle" /\ rendering[w].obj = null
  BY <1>2 DEF Idle
<1>6. Typed
  <2>1. Idle \in Renderings /\ MaxEvents \in 0 .. MaxEvents
    BY FrameAssumption DEF Idle, Renderings
  <2>2. obj \in [Objects -> ObjectRecords]
    BY <1>2, NoObjectFields
  <2> QED
    BY <1>2, <2>1, <2>2 DEF Typed
<1>7. Gone
  BY <1>2, <1>3, <1>4 DEF Gone, Untouched, Queued
<1>8. Attached
  BY <1>3, NoObjectFields DEF Attached
<1>9. Destroyed
  BY <1>2, <1>3, <1>4, NoObjectFields DEF Destroyed
<1>10. Renders
  BY <1>5 DEF Renders, RendersAt
<1>11. Separate /\ Crows = {}
  BY <1>2, <1>4 DEF Separate, Crows
<1>12. Flags
  BY <1>3, <1>5, <1>11, NoObjectFields DEF Flags, Flagging
<1>13. Dues /\ Work
  BY <1>2, <1>3, <1>4, NoObjectFields DEF Dues, Work
<1> QED
  BY <1>1, <1>6, <1>7, <1>8, <1>9, <1>10, <1>11, <1>12, <1>13 DEF ListInv

LEMMA StutterLists ==
    ASSUME ListInv, OnceInv', UNCHANGED vars
    PROVE  ListInv'
<1>1. UNCHANGED <<obj, m_primary_crows, m_secondary_crows, workload, destroy_queue, path,
                  phase, rendering, events, due, owed>>
  BY DEF vars, lists
<1>2. Typed' /\ Attached' /\ Destroyed' /\ Dues' /\ Work'
  BY <1>1 DEF ListInv, Typed, Attached, Destroyed, Dues, Work, Updates, processing_enabled
<1>3. Gone'
  BY <1>1 DEF ListInv, Gone, Untouched, Queued
<1>4. Separate' /\ Crows' = Crows
  BY <1>1 DEF ListInv, Separate, Crows
<1>5. \A u, v : Won(v, u)' <=> Won(v, u)
  BY <1>1 DEF Won
<1>6. \A u : Flagging(u)' <=> Flagging(u)
  BY <1>1 DEF Flagging
<1>7. Renders' /\ Flags'
  <2>1. \A v \in Workers : RendersAt(v)'
    BY <1>1, <1>5 DEF ListInv, Renders, RendersAt
  <2> QED
    BY <1>1, <1>4, <1>5, <1>6, <2>1 DEF ListInv, Renders, Flags
<1> QED
  BY <1>2, <1>3, <1>4, <1>7 DEF ListInv

LEMMA ListNext == ListInv /\ [Next]_vars => ListInv'
<1> SUFFICES ASSUME ListInv, [Next]_vars PROVE ListInv'
  OBVIOUS
<1>1. OnceInv'
  BY OnceNext DEF ListInv
<1>2. CASE ObjectEvent
  <2>1. PICK o \in Objects :
           \/ Spawn(o) \/ Activate(o) \/ Deactivate(o)
           \/ setDestroy(o) \/ shedule_Update(o) \/ RestrictionsChange(o)
           \/ \E p \in Objects : SetParent(o, p)
    BY <1>2 DEF ObjectEvent
  <2> QED
    BY <1>1, <2>1, SpawnLists, ProcessingLists, SetDestroyLists, ScheduleLists,
       RestrictionsLists, AttachLists
<1>3. ASSUME NEW w \in Workers, NEW o \in Objects, Render(w, o)
      PROVE  ListInv'
  BY <1>1, <1>3, RenderLists
<1>4. ASSUME NEW w \in Workers, Exchange(w) \/ Push(w) \/ Flag(w)
      PROVE  ListInv'
  BY <1>1, <1>4, LostLists, WonLists, PushLists, FlagLists
<1>5. CASE CollectCrows
  <2>1. \/ /\ m_primary_crows' = Collected /\ phase' = AfterUpdate
           /\ UNCHANGED <<obj, workload, due, owed>>
        \/ /\ m_primary_crows' = <<>> /\ workload' = Collected
           /\ obj' = [o \in Objects |->
                        IF Contains(Collected, o) THEN IAmNotACrowAnyMore(obj[o]) ELSE obj[o]]
           /\ due' = {} /\ owed' = due
           /\ phase' = IF Collected = <<>> THEN AfterUpdate ELSE "update"
    BY <1>5 DEF CollectCrows
  <2> QED
    BY <1>1, <1>5, <2>1, CollectPaused, CollectRunning
<1>6. CASE SingleUpdate \/ DestroyLast
  BY <1>1, <1>6, SingleUpdateLists, DestroyLists
<1>7. CASE RunParallel \/ NextFrame
  BY <1>1, <1>7, ParallelLists, NextFrameLists
<1>8. CASE UNCHANGED vars
  BY <1>1, <1>8, StutterLists
<1> QED
  BY <1>2, <1>3, <1>4, <1>5, <1>6, <1>7, <1>8 DEF Next, FrameStep

LEMMA ListTyped ==
    ASSUME ListInv
    PROVE  TypeOK
<1>1. Typed /\ path.mm \in [Movers -> Managers] /\ path.seqParallel \in Seq(Delegates)
  BY DEF ListInv, OnceInv, Inv, GoodPath, Paths
<1> QED
  BY <1>1 DEF TypeOK, Typed, ObjectRecords, Renderings

LEMMA ListExact ==
    ASSUME ListInv
    PROVE  CrowExact
<1> SUFFICES ASSUME NEW o \in Objects
             PROVE  Occurrences(Collected, o) =
                       IF \/ obj[o].crow
                          \/ \E w \in Workers : rendering[w] = [at |-> "flag", obj |-> o]
                       THEN 1 ELSE 0
  BY DEF CrowExact
<1>1. IsInjective(Collected) /\ ToSet(Collected) = Crows
  BY CollectedCrows DEF ListInv
<1>2. Occurrences(Collected, o) = IF o \in Crows THEN 1 ELSE 0
  BY <1>1, CountedOnce
<1>3. o \in Crows <=> obj[o].crow \/ Flagging(o)
  BY DEF ListInv, Flags
<1>4. Flagging(o) <=> \E w \in Workers : rendering[w] = [at |-> "flag", obj |-> o]
  <2>1. \A w \in Workers : rendering[w] \in Renderings
    BY DEF ListInv, Typed
  <2>2. \A r \in Renderings : r.at = "flag" /\ r.obj = o <=> r = [at |-> "flag", obj |-> o]
    BY DEF Renderings
  <2> QED
    BY <2>1, <2>2 DEF Flagging
<1> QED
  BY <1>2, <1>3, <1>4

LEMMA ListsExist ==
    ASSUME ListInv
    PROVE  NoneDangling
<1>1. \A o \in Objects : Exists(o) <=> obj[o].list # "none"
  BY DEF Exists
<1>2. ASSUME NEW s \in Seq(Objects), NEW o \in Range(s)
      PROVE  o \in ToSet(s) /\ o \in Objects
  <2>1. \A i \in DOMAIN s : s[i] \in Objects
    OBVIOUS
  <2> QED
    BY <2>1 DEF Range, ToSet
<1>3. ASSUME NEW o \in Range(Collected)
      PROVE  Exists(o)
  <2>1. Collected \in Seq(Objects) /\ ToSet(Collected) = Crows
    BY CollectedCrows DEF ListInv
  <2>2. o \in Objects /\ o \in Crows
    BY <1>2, <2>1
  <2>3. obj[o].list # "none"
    BY <2>2, NoObjectFields DEF ListInv, Flags, Gone, Renders, RendersAt, Flagging
  <2> QED
    BY <1>1, <2>2, <2>3
<1>4. ASSUME NEW o \in Range(workload)
      PROVE  Exists(o)
  <2>1. o \in Objects /\ o \in ToSet(workload)
    BY <1>2 DEF ListInv, Typed
  <2> QED
    BY <1>1, <2>1 DEF ListInv, Work
<1>5. ASSUME NEW o \in Range(destroy_queue)
      PROVE  Exists(o)
  <2>1. o \in Objects /\ o \in ToSet(destroy_queue)
    BY <1>2 DEF ListInv, Typed
  <2>2. obj[o].list # "none"
    BY <2>1, NoObjectFields DEF ListInv, Destroyed, Gone
  <2> QED
    BY <1>1, <2>1, <2>2
<1>6. ASSUME NEW d \in Range(path.seqParallel)
      PROVE  Exists(d.obj)
  <2>1. path.seqParallel \in Seq(Delegates)
    BY DEF ListInv, OnceInv, Inv, GoodPath, Paths
  <2>2. d \in Delegates /\ d \in ToSet(path.seqParallel)
    BY <2>1 DEF Range, ToSet
  <2>3. d.obj \in Movers /\ d.fn \in {"level", "detail", "sound"} /\ d = Delegate(d.obj, d.fn)
    BY <2>2 DEF Delegates, Delegate
  <2>4. Queued(path, d.obj, d.fn)
    BY <2>2, <2>3 DEF Queued
  <2>5. obj[d.obj].list # "none"
    BY <2>3, <2>4 DEF ListInv, Gone, Untouched
  <2> QED
    BY <1>1, <2>3, <2>5, FrameAssumption
<1>7. ASSUME NEW o \in Alive, obj[o].parent # null
      PROVE  Exists(obj[o].parent)
  <2>1. o \in Objects /\ obj[o] \in ObjectRecords
    BY DEF Alive, ListInv, Typed
  <2>2. obj[o].parent \in Objects /\ obj[obj[o].parent].list # "none"
    BY <1>7, <2>1 DEF ObjectRecords, ListInv, Attached
  <2> QED
    BY <2>2 DEF Exists
<1> QED
  BY <1>3, <1>4, <1>5, <1>6, <1>7 DEF NoneDangling

-----------------------------------------------------------------------------
\* The objects, the lists of crows and the phases of the frame keep their types.
THEOREM TypeOKHolds == Spec => []TypeOK
BY ListInit, ListNext, ListTyped, PTL DEF Spec

\* VERIFY(unique) of Update() and o_crow(), for any number of threads that render
\* the same objects at once, and however many paused frames have only collected: the
\* crows hold an object once if its flag is set, and else not at all.
THEOREM CrowExactHolds == Spec => []CrowExact
BY ListInit, ListNext, ListExact, PTL DEF Spec

\* Whatever is destroyed, and in whichever order objects are attached, made crows
\* and marked, no list of CObjectList, no queued delegate and no attached object
\* leads to an object that is no more.
THEOREM NoneDanglingHolds == Spec => []NoneDangling
BY ListInit, ListNext, ListsExist, PTL DEF Spec

\* What has been made a crow, by the main thread or by a renderer, is updated by the
\* end of the next Update() that is not paused, unless its processing is turned off
\* or it is destroyed.
THEOREM UpdatedInTimeHolds == Spec => []UpdatedInTime
<1>1. ListInv => UpdatedInTime
  BY DEF ListInv, Work, UpdatedInTime
<1> QED
  BY <1>1, ListInit, ListNext, PTL DEF Spec

=============================================================================
