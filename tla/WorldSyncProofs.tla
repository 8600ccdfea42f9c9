-------------------------- MODULE WorldSyncProofs ---------------------------
(***************************************************************************)
(* The world, for any number of ids, blocks, entities and requests.        *)
(*                                                                         *)
(* The server: its tree is consistent, and the ids of the generator are    *)
(* those of no entity, whatever is taken, rejected, spawned, destroyed,    *)
(* created and released, and whatever goes online or offline.              *)
(*                                                                         *)
(* The client: whatever it still has to be told, it ends up with the       *)
(* server's tree; each message finds the objects it is about, no object is *)
(* left behind or held by a dying one, and no new entity gets an id that   *)
(* the client or a message still uses.                                     *)
(***************************************************************************)
EXTENDS WorldSync, SequenceFacts, FiniteSetTheorems

EntityRecords == [on : {"no", "online", "offline"}, kind : Kinds,
                  parent : Ids \union {NoID}, children : Seq(Ids)]
GenRecords == [free : SUBSET Ids, age : [Blocks -> 0 .. MaxAge], available : Int]

\* Servers, with a count that may be wrong.
ServerRecords == [ent : [Ids -> EntityRecords], gen : GenRecords, out : Seq(Messages)]

-----------------------------------------------------------------------------
(* Every handler, and every step of one, leads from a record to a record *)

LEMMA IdFacts == NoID \notin Ids /\ Zero \in Ids
BY NoIdAssumption, ClientAssumption

LEMMA BlockOf ==
    ASSUME NEW x \in Ids
    PROVE  /\ Block(x) \in Blocks /\ x \in Block(x)
           /\ \A b \in Blocks : x \in b => b = Block(x)
<1>1. \E b \in Blocks : x \in b
  BY DEF Ids
<1>2. Block(x) \in Blocks /\ x \in Block(x)
  BY <1>1 DEF Block
<1>3. \A b \in Blocks : x \in b => b = Block(x)
  BY <1>2, BlocksAssumption
<1> QED
  BY <1>2, <1>3

LEMMA GenTyped ==
    ASSUME NEW g \in GenRecords, NEW x \in Ids
    PROVE  /\ TakeId(g, x) \in GenRecords
           /\ \A age \in 0 .. MaxAge : FreeId(g, x, age) \in GenRecords
           /\ Older(g) \in GenRecords
<1> DEFINE a == IF FreeIn(g, Block(x)) = {x} THEN g.available - 1 ELSE g.available
           d == IF FreeIn(g, Block(x)) = {} THEN g.available + 1 ELSE g.available
<1>0. a \in Int /\ d \in Int
  BY DEF GenRecords
<1>1. TakeId(g, x) \in GenRecords
  <2>1. TakeId(g, x) = [g EXCEPT !.free = @ \ {x}, !.available = a]
    BY DEF TakeId
  <2> HIDE DEF a
  <2> QED
    BY <1>0, <2>1 DEF GenRecords
<1>2. ASSUME NEW age \in 0 .. MaxAge PROVE FreeId(g, x, age) \in GenRecords
  <2>1. FreeId(g, x, age) = [g EXCEPT !.free = @ \union {x}, !.age[Block(x)] = age,
                                      !.available = d]
    BY DEF FreeId
  <2>2. [g.age EXCEPT ![Block(x)] = age] \in [Blocks -> 0 .. MaxAge]
    BY BlockOf DEF GenRecords
  <2> HIDE DEF d
  <2>3. FreeId(g, x, age) = [free |-> g.free \union {x},
                             age |-> [g.age EXCEPT ![Block(x)] = age], available |-> d]
    BY <2>1 DEF GenRecords
  <2>4. g.free \union {x} \in SUBSET Ids
    BY DEF GenRecords
  <2> QED
    BY <1>0, <2>2, <2>3, <2>4 DEF GenRecords
<1>3. Older(g) \in GenRecords
  <2>1. [b \in Blocks |-> IF g.age[b] < MaxAge THEN g.age[b] + 1 ELSE g.age[b]]
          \in [Blocks -> 0 .. MaxAge]
    BY AgeAssumption DEF GenRecords
  <2> QED
    BY <2>1 DEF Older, GenRecords
<1> QED
  BY <1>1, <1>2, <1>3

LEMMA SendTyped ==
    ASSUME NEW s \in ServerRecords, NEW m \in Messages
    PROVE  /\ SendBroadcast(s, m) \in ServerRecords
           /\ SendBroadcast(s, m).ent = s.ent /\ SendBroadcast(s, m).gen = s.gen
<1>1. Append(s.out, m) \in Seq(Messages)
  BY DEF ServerRecords
<1> QED
  BY <1>1 DEF SendBroadcast, ServerRecords

LEMMA MessageTyped ==
    ASSUME NEW x \in Ids
    PROVE  /\ Destroy(x) \in Messages
           /\ \A p \in Ids \union {NoID} :
                 Spawned(p, x) \in Messages /\ Take(p, x) \in Messages /\ Reject(p, x) \in Messages
BY DEF Destroy, Spawned, Take, Reject, Messages

\* One field of one entity.
SetParent(s, x, p) == [s EXCEPT !.ent[x].parent = p]
SetChildren(s, p, c) == [s EXCEPT !.ent[p].children = c]

LEMMA SetParentTyped ==
    ASSUME NEW s \in ServerRecords, NEW x \in Ids, NEW p \in Ids \union {NoID}
    PROVE  /\ SetParent(s, x, p) \in ServerRecords
           /\ SetParent(s, x, p).gen = s.gen /\ SetParent(s, x, p).out = s.out
           /\ SetParent(s, x, p).ent = [s.ent EXCEPT ![x].parent = p]
<1>1. [s.ent EXCEPT ![x].parent = p] \in [Ids -> EntityRecords]
  BY DEF ServerRecords, EntityRecords
<1> QED
  BY <1>1 DEF SetParent, ServerRecords

LEMMA SetChildrenTyped ==
    ASSUME NEW s \in ServerRecords, NEW p \in Ids, NEW c \in Seq(Ids)
    PROVE  /\ SetChildren(s, p, c) \in ServerRecords
           /\ SetChildren(s, p, c).gen = s.gen /\ SetChildren(s, p, c).out = s.out
           /\ SetChildren(s, p, c).ent = [s.ent EXCEPT ![p].children = c]
<1>1. [s.ent EXCEPT ![p].children = c] \in [Ids -> EntityRecords]
  BY DEF ServerRecords, EntityRecords
<1> QED
  BY <1>1 DEF SetChildren, ServerRecords

LEMMA AddTyped ==
    ASSUME NEW s \in ServerRecords, NEW p \in Ids, NEW x \in Ids
    PROVE  AddChild(s, p, x) \in ServerRecords
<1> DEFINE t == SetParent(s, x, p)
<1>1. t \in ServerRecords
  BY SetParentTyped
<1>2. AddChild(s, p, x) = SetChildren(t, p, Append(t.ent[p].children, x))
  BY DEF AddChild, SetParent, SetChildren
<1> HIDE DEF t
<1> DEFINE c == Append(t.ent[p].children, x)
<1>3. c \in Seq(Ids)
  BY <1>1 DEF ServerRecords, EntityRecords
<1> HIDE DEF c
<1>4. SetChildren(t, p, c) \in ServerRecords
  BY <1>1, <1>3, SetChildrenTyped
<1> QED
  BY <1>2, <1>4 DEF c

LEMMA RemoveTyped ==
    ASSUME NEW s \in ServerRecords, NEW p \in Ids, NEW x \in Ids
    PROVE  RemoveChild(s, p, x) \in ServerRecords
<1> DEFINE t == SetParent(s, x, NoID)
<1>1. t \in ServerRecords
  BY SetParentTyped
<1>2. RemoveChild(s, p, x) = SetChildren(t, p, RemoveFirst(t.ent[p].children, x))
  BY DEF RemoveChild, SetParent, SetChildren
<1> HIDE DEF t
<1> DEFINE c == RemoveFirst(t.ent[p].children, x)
<1>3. c \in Seq(Ids)
  BY <1>1, RemoveFirstSeq DEF ServerRecords, EntityRecords
<1> HIDE DEF c
<1>4. SetChildren(t, p, c) \in ServerRecords
  BY <1>1, <1>3, SetChildrenTyped
<1> QED
  BY <1>2, <1>4 DEF c

LEMMA NoEntityTyped == NoEntity \in EntityRecords
BY EmptySeq DEF NoEntity, Entity, EntityRecords, Kinds

LEMMA ForgetTyped ==
    ASSUME NEW s \in ServerRecords, NEW x \in Ids
    PROVE  Forget(s, x) \in ServerRecords /\ entity_Destroy(s, x) \in ServerRecords
<1>1. 0 \in 0 .. MaxAge
  BY AgeAssumption
<1>2. FreeId(s.gen, x, 0) \in GenRecords
  BY <1>1, GenTyped DEF ServerRecords
<1>3. Forget(s, x) \in ServerRecords
  BY <1>2, NoEntityTyped DEF Forget, ServerRecords
<1>4. entity_Destroy(s, x) \in ServerRecords
  BY <1>2, NoEntityTyped DEF entity_Destroy, ServerRecords, EntityRecords
<1> QED
  BY <1>3, <1>4

LEMMA TakeTyped ==
    ASSUME NEW s \in ServerRecords, NEW x \in Ids
    PROVE  [s EXCEPT !.gen = TakeId(@, x)] \in ServerRecords
BY GenTyped DEF ServerRecords

LEMMA RespawnTyped ==
    ASSUME NEW s \in ServerRecords, NEW x \in Ids
    PROVE  Respawn(s, x) \in ServerRecords
<1> DEFINE t == [s EXCEPT !.gen = TakeId(@, x), !.ent[x].on = "online"]
<1>1. t \in ServerRecords
  BY GenTyped DEF ServerRecords, EntityRecords
<1>2. Spawned(s.ent[x].parent, x) \in Messages
  BY MessageTyped DEF ServerRecords, EntityRecords
<1> HIDE DEF t
<1>3. SendBroadcast(t, Spawned(s.ent[x].parent, x)) \in ServerRecords
  BY <1>1, <1>2, SendTyped
<1> QED
  BY <1>3 DEF Respawn, t

LEMMA RejectTyped ==
    ASSUME NEW s \in ServerRecords, NEW p, NEW x, NEW b \in BOOLEAN
    PROVE  Process_event_reject(s, p, x, b) \in ServerRecords
<1> CASE p \in Ids /\ x \in Ids
  <2>1. RemoveChild(s, p, x) \in ServerRecords
    BY RemoveTyped
  <2>2. Reject(p, x) \in Messages
    BY MessageTyped
  <2>3. SendBroadcast(RemoveChild(s, p, x), Reject(p, x)) \in ServerRecords
    BY <2>1, <2>2, SendTyped
  <2> QED
    BY <2>1, <2>3 DEF Process_event_reject
<1> CASE ~(p \in Ids /\ x \in Ids)
  BY DEF Process_event_reject, Online
<1> QED
  OBVIOUS

\* The steps of the folds of Perform_destroy(), add_online() and remove_online().
GoesOffline(x, t, c) == DestroyRoot(Process_event_reject(t, x, c, TRUE), c)
GoesOnline(t, y) == Respawn(entity_Destroy(t, y), y)
IsAttached(s, x, t, c) ==
    IF s.ent[c].kind = "temp" THEN t ELSE AddChild([t EXCEPT !.gen = TakeId(@, c)], x, c)

LEMMA DestroyLeafTyped ==
    ASSUME NEW s \in ServerRecords, NEW x \in Ids
    PROVE  DestroyLeaf(s, x) \in ServerRecords
<1> DEFINE p == s.ent[x].parent
           t == Process_event_reject(s, p, x, FALSE)
           u == IF t # s THEN SendBroadcast(t, Reject(p, x)) ELSE t
           v == SendBroadcast(u, Destroy(x))
<1>1. p \in Ids \union {NoID}
  BY DEF ServerRecords, EntityRecords
<1>2. t \in ServerRecords
  BY RejectTyped
<1>3. DestroyLeaf(s, x) = Forget(v, x)
  BY DEF DestroyLeaf
<1> HIDE DEF t, p
<1>4. u \in ServerRecords
  BY <1>1, <1>2, SendTyped, MessageTyped
<1> HIDE DEF u
<1>5. v \in ServerRecords
  BY <1>4, SendTyped, MessageTyped
<1> HIDE DEF v
<1> QED
  BY <1>3, <1>5, ForgetTyped

LEMMA ReleaseLeafTyped ==
    ASSUME NEW s \in ServerRecords, NEW x \in Ids
    PROVE  ReleaseLeaf(s, x) \in ServerRecords
<1> DEFINE t == IF Root(s, x) THEN s ELSE RemoveChild(s, s.ent[x].parent, x)
<1>1. t \in ServerRecords
  <2>1. ~Root(s, x) => s.ent[x].parent \in Ids
    BY DEF Root, ServerRecords, EntityRecords
  <2> QED
    BY <2>1, RemoveTyped
<1> HIDE DEF t
<1>2. Forget(t, x) \in ServerRecords
  BY <1>1, ForgetTyped
<1> QED
  BY <1>2 DEF ReleaseLeaf, t

LEMMA DestroyRootTyped ==
    ASSUME NEW s \in ServerRecords, NEW x \in Ids
    PROVE  DestroyRoot(s, x) \in ServerRecords
<1>1. entity_Destroy(s, x) \in ServerRecords /\ Destroy(x) \in Messages
  BY ForgetTyped, MessageTyped
<1> QED
  BY <1>1, SendTyped DEF DestroyRoot

LEMMA GoesOfflineTyped ==
    ASSUME NEW x \in Ids, NEW s \in ServerRecords, NEW c \in Ids
    PROVE  GoesOffline(x, s, c) \in ServerRecords
<1>1. Process_event_reject(s, x, c, TRUE) \in ServerRecords
  BY RejectTyped
<1> QED
  BY <1>1, DestroyRootTyped DEF GoesOffline

LEMMA GoesOnlineTyped ==
    ASSUME NEW s \in ServerRecords, NEW x \in Ids
    PROVE  GoesOnline(s, x) \in ServerRecords
<1>1. entity_Destroy(s, x) \in ServerRecords
  BY ForgetTyped
<1> QED
  BY <1>1, RespawnTyped DEF GoesOnline

LEMMA IsAttachedTyped ==
    ASSUME NEW r, NEW x \in Ids, NEW s \in ServerRecords, NEW c \in Ids
    PROVE  IsAttached(r, x, s, c) \in ServerRecords
<1> DEFINE t == [s EXCEPT !.gen = TakeId(@, c)]
<1>1. t \in ServerRecords
  BY TakeTyped
<1> HIDE DEF t
<1>2. AddChild(t, x, c) \in ServerRecords
  BY <1>1, AddTyped
<1> QED
  BY <1>2 DEF IsAttached, t

-----------------------------------------------------------------------------
(* What the folds do: one step after the other *)

LEMMA DestroyLeafFolds ==
    ASSUME NEW s \in ServerRecords, NEW q \in Seq(Ids)
    PROVE  \E g : /\ g[0] = s /\ g[Len(q)] = FoldLeft(DestroyLeaf, s, q)
                 /\ \A i \in 1 .. Len(q) : g[i] = DestroyLeaf(g[i - 1], q[i])
<1> DEFINE n == Len(q)
           F == [v \in ServerRecords \X Ids |-> DestroyLeaf(v[1], v[2])]
           Solves(h) == h = [u \in SUBSET (1 .. n) |->
                               IF u = {} THEN s ELSE DestroyLeaf(h[u \ {Max(u)}], q[Max(u)])]
           c == CHOOSE h : Solves(h)
<1>1. /\ n \in Nat /\ q \in [1 .. n -> Ids] /\ DOMAIN q = 1 .. n
      /\ F \in [ServerRecords \X Ids -> ServerRecords]
  BY DestroyLeafTyped
<1>2. PICK f \in [SUBSET (1 .. n) -> ServerRecords] :
         \A u \in SUBSET (1 .. n) : FoldsOn(f, F, s, q, u)
  <2> HIDE DEF F, n, c, Solves
  <2>1. FoldInput(ServerRecords, Ids, F, s, n, q)
    BY <1>1 DEF FoldInput
  <2>2. FoldExists(ServerRecords, F, s, n, q)
    BY <2>1, FoldSolved
  <2> QED
    BY <2>2 DEF FoldExists
<1>3. Solves(f)
  <2> SUFFICES ASSUME NEW u \in SUBSET (1 .. n)
               PROVE  f[u] = IF u = {} THEN s ELSE DestroyLeaf(f[u \ {Max(u)}], q[Max(u)])
    BY <1>2
  <2>1. u # {} => f[u \ {Max(u)}] \in ServerRecords /\ q[Max(u)] \in Ids
    <3>1. u # {} => Max(u) \in u
      BY <1>1, MaxIn
    <3> QED
      BY <1>1, <1>2, <3>1
  <2>2. u # {} => F[<<f[u \ {Max(u)}], q[Max(u)]>>] = DestroyLeaf(f[u \ {Max(u)}], q[Max(u)])
    BY <2>1
  <2> HIDE DEF F
  <2> QED
    BY <1>2, <2>2 DEF FoldsOn
<1>4. Solves(c)
  <2> HIDE DEF Solves
  <2> QED
    BY <1>3
<1>5. FoldLeft(DestroyLeaf, s, q) = c[1 .. n]
  BY <1>1 DEF FoldLeft, MapThenFoldSet
<1> HIDE DEF c
<1> DEFINE g == [i \in 0 .. n |-> c[1 .. i]]
<1>6. g[0] = s
  <2>1. 1 .. 0 = {} /\ 0 \in 0 .. n
    BY <1>1
  <2> QED
    BY <1>4, <2>1
<1>7. ASSUME NEW i \in 1 .. n
      PROVE  g[i] = DestroyLeaf(g[i - 1], q[i])
  <2>1. /\ i \in Nat \ {0} /\ i \in 0 .. n /\ i - 1 \in 0 .. n
        /\ 1 .. i \in SUBSET (1 .. n)
    BY <1>1
  <2>2. Max(1 .. i) = i /\ (1 .. i) \ {i} = 1 .. i - 1 /\ 1 .. i # {}
    BY <2>1, MaxUpTo
  <2>3. c[1 .. i] = DestroyLeaf(c[1 .. i - 1], q[i])
    BY <1>4, <2>1, <2>2
  <2> QED
    BY <2>1, <2>3
<1>8. n \in 0 .. n /\ g[n] = c[1 .. n]
  BY <1>1
<1> HIDE DEF g, F
<1> QED
  BY <1>5, <1>6, <1>7, <1>8

LEMMA ReleaseLeafFolds ==
    ASSUME NEW s \in ServerRecords, NEW q \in Seq(Ids)
    PROVE  \E g : /\ g[0] = s /\ g[Len(q)] = FoldLeft(ReleaseLeaf, s, q)
                 /\ \A i \in 1 .. Len(q) : g[i] = ReleaseLeaf(g[i - 1], q[i])
<1> DEFINE n == Len(q)
           F == [v \in ServerRecords \X Ids |-> ReleaseLeaf(v[1], v[2])]
           Solves(h) == h = [u \in SUBSET (1 .. n) |->
                               IF u = {} THEN s ELSE ReleaseLeaf(h[u \ {Max(u)}], q[Max(u)])]
           c == CHOOSE h : Solves(h)
<1>1. /\ n \in Nat /\ q \in [1 .. n -> Ids] /\ DOMAIN q = 1 .. n
      /\ F \in [ServerRecords \X Ids -> ServerRecords]
  BY ReleaseLeafTyped
<1>2. PICK f \in [SUBSET (1 .. n) -> ServerRecords] :
         \A u \in SUBSET (1 .. n) : FoldsOn(f, F, s, q, u)
  <2> HIDE DEF F, n, c, Solves
  <2>1. FoldInput(ServerRecords, Ids, F, s, n, q)
    BY <1>1 DEF FoldInput
  <2>2. FoldExists(ServerRecords, F, s, n, q)
    BY <2>1, FoldSolved
  <2> QED
    BY <2>2 DEF FoldExists
<1>3. Solves(f)
  <2> SUFFICES ASSUME NEW u \in SUBSET (1 .. n)
               PROVE  f[u] = IF u = {} THEN s ELSE ReleaseLeaf(f[u \ {Max(u)}], q[Max(u)])
    BY <1>2
  <2>1. u # {} => f[u \ {Max(u)}] \in ServerRecords /\ q[Max(u)] \in Ids
    <3>1. u # {} => Max(u) \in u
      BY <1>1, MaxIn
    <3> QED
      BY <1>1, <1>2, <3>1
  <2>2. u # {} => F[<<f[u \ {Max(u)}], q[Max(u)]>>] = ReleaseLeaf(f[u \ {Max(u)}], q[Max(u)])
    BY <2>1
  <2> HIDE DEF F
  <2> QED
    BY <1>2, <2>2 DEF FoldsOn
<1>4. Solves(c)
  <2> HIDE DEF Solves
  <2> QED
    BY <1>3
<1>5. FoldLeft(ReleaseLeaf, s, q) = c[1 .. n]
  BY <1>1 DEF FoldLeft, MapThenFoldSet
<1> HIDE DEF c
<1> DEFINE g == [i \in 0 .. n |-> c[1 .. i]]
<1>6. g[0] = s
  <2>1. 1 .. 0 = {} /\ 0 \in 0 .. n
    BY <1>1
  <2> QED
    BY <1>4, <2>1
<1>7. ASSUME NEW i \in 1 .. n
      PROVE  g[i] = ReleaseLeaf(g[i - 1], q[i])
  <2>1. /\ i \in Nat \ {0} /\ i \in 0 .. n /\ i - 1 \in 0 .. n
        /\ 1 .. i \in SUBSET (1 .. n)
    BY <1>1
  <2>2. Max(1 .. i) = i /\ (1 .. i) \ {i} = 1 .. i - 1 /\ 1 .. i # {}
    BY <2>1, MaxUpTo
  <2>3. c[1 .. i] = ReleaseLeaf(c[1 .. i - 1], q[i])
    BY <1>4, <2>1, <2>2
  <2> QED
    BY <2>1, <2>3
<1>8. n \in 0 .. n /\ g[n] = c[1 .. n]
  BY <1>1
<1> HIDE DEF g, F
<1> QED
  BY <1>5, <1>6, <1>7, <1>8

LEMMA GoesOfflineFolds ==
    ASSUME NEW s \in ServerRecords, NEW q \in Seq(Ids), NEW x \in Ids
    PROVE  \E g : /\ g[0] = s /\ g[Len(q)] = FoldLeft(LAMBDA t, y : GoesOffline(x, t, y), s, q)
                 /\ \A i \in 1 .. Len(q) : g[i] = GoesOffline(x, g[i - 1], q[i])
<1> DEFINE n == Len(q)
           F == [v \in ServerRecords \X Ids |-> GoesOffline(x, v[1], v[2])]
           Solves(h) == h = [u \in SUBSET (1 .. n) |->
                               IF u = {} THEN s ELSE GoesOffline(x, h[u \ {Max(u)}], q[Max(u)])]
           c == CHOOSE h : Solves(h)
<1>1. /\ n \in Nat /\ q \in [1 .. n -> Ids] /\ DOMAIN q = 1 .. n
      /\ F \in [ServerRecords \X Ids -> ServerRecords]
  BY GoesOfflineTyped
<1>2. PICK f \in [SUBSET (1 .. n) -> ServerRecords] :
         \A u \in SUBSET (1 .. n) : FoldsOn(f, F, s, q, u)
  <2> HIDE DEF F, n, c, Solves
  <2>1. FoldInput(ServerRecords, Ids, F, s, n, q)
    BY <1>1 DEF FoldInput
  <2>2. FoldExists(ServerRecords, F, s, n, q)
    BY <2>1, FoldSolved
  <2> QED
    BY <2>2 DEF FoldExists
<1>3. Solves(f)
  <2> SUFFICES ASSUME NEW u \in SUBSET (1 .. n)
               PROVE  f[u] = IF u = {} THEN s ELSE GoesOffline(x, f[u \ {Max(u)}], q[Max(u)])
    BY <1>2
  <2>1. u # {} => f[u \ {Max(u)}] \in ServerRecords /\ q[Max(u)] \in Ids
    <3>1. u # {} => Max(u) \in u
      BY <1>1, MaxIn
    <3> QED
      BY <1>1, <1>2, <3>1
  <2>2. u # {} => F[<<f[u \ {Max(u)}], q[Max(u)]>>] = GoesOffline(x, f[u \ {Max(u)}], q[Max(u)])
    BY <2>1
  <2> HIDE DEF F
  <2> QED
    BY <1>2, <2>2 DEF FoldsOn
<1>4. Solves(c)
  <2> HIDE DEF Solves
  <2> QED
    BY <1>3
<1>5. FoldLeft(LAMBDA t, y : GoesOffline(x, t, y), s, q) = c[1 .. n]
  BY <1>1 DEF FoldLeft, MapThenFoldSet
<1> HIDE DEF c
<1> DEFINE g == [i \in 0 .. n |-> c[1 .. i]]
<1>6. g[0] = s
  <2>1. 1 .. 0 = {} /\ 0 \in 0 .. n
    BY <1>1
  <2> QED
    BY <1>4, <2>1
<1>7. ASSUME NEW i \in 1 .. n
      PROVE  g[i] = GoesOffline(x, g[i - 1], q[i])
  <2>1. /\ i \in Nat \ {0} /\ i \in 0 .. n /\ i - 1 \in 0 .. n
        /\ 1 .. i \in SUBSET (1 .. n)
    BY <1>1
  <2>2. Max(1 .. i) = i /\ (1 .. i) \ {i} = 1 .. i - 1 /\ 1 .. i # {}
    BY <2>1, MaxUpTo
  <2>3. c[1 .. i] = GoesOffline(x, c[1 .. i - 1], q[i])
    BY <1>4, <2>1, <2>2
  <2> QED
    BY <2>1, <2>3
<1>8. n \in 0 .. n /\ g[n] = c[1 .. n]
  BY <1>1
<1> HIDE DEF g, F
<1> QED
  BY <1>5, <1>6, <1>7, <1>8

LEMMA GoesOnlineFolds ==
    ASSUME NEW s \in ServerRecords, NEW q \in Seq(Ids)
    PROVE  \E g : /\ g[0] = s /\ g[Len(q)] = FoldLeft(GoesOnline, s, q)
                 /\ \A i \in 1 .. Len(q) : g[i] = GoesOnline(g[i - 1], q[i])
<1> DEFINE n == Len(q)
           F == [v \in ServerRecords \X Ids |-> GoesOnline(v[1], v[2])]
           Solves(h) == h = [u \in SUBSET (1 .. n) |->
                               IF u = {} THEN s ELSE GoesOnline(h[u \ {Max(u)}], q[Max(u)])]
           c == CHOOSE h : Solves(h)
<1>1. /\ n \in Nat /\ q \in [1 .. n -> Ids] /\ DOMAIN q = 1 .. n
      /\ F \in [ServerRecords \X Ids -> ServerRecords]
  BY GoesOnlineTyped
<1>2. PICK f \in [SUBSET (1 .. n) -> ServerRecords] :
         \A u \in SUBSET (1 .. n) : FoldsOn(f, F, s, q, u)
  <2> HIDE DEF F, n, c, Solves
  <2>1. FoldInput(ServerRecords, Ids, F, s, n, q)
    BY <1>1 DEF FoldInput
  <2>2. FoldExists(ServerRecords, F, s, n, q)
    BY <2>1, FoldSolved
  <2> QED
    BY <2>2 DEF FoldExists
<1>3. Solves(f)
  <2> SUFFICES ASSUME NEW u \in SUBSET (1 .. n)
               PROVE  f[u] = IF u = {} THEN s ELSE GoesOnline(f[u \ {Max(u)}], q[Max(u)])
    BY <1>2
  <2>1. u # {} => f[u \ {Max(u)}] \in ServerRecords /\ q[Max(u)] \in Ids
    <3>1. u # {} => Max(u) \in u
      BY <1>1, MaxIn
    <3> QED
      BY <1>1, <1>2, <3>1
  <2>2. u # {} => F[<<f[u \ {Max(u)}], q[Max(u)]>>] = GoesOnline(f[u \ {Max(u)}], q[Max(u)])
    BY <2>1
  <2> HIDE DEF F
  <2> QED
    BY <1>2, <2>2 DEF FoldsOn
<1>4. Solves(c)
  <2> HIDE DEF Solves
  <2> QED
    BY <1>3
<1>5. FoldLeft(GoesOnline, s, q) = c[1 .. n]
  BY <1>1 DEF FoldLeft, MapThenFoldSet
<1> HIDE DEF c
<1> DEFINE g == [i \in 0 .. n |-> c[1 .. i]]
<1>6. g[0] = s
  <2>1. 1 .. 0 = {} /\ 0 \in 0 .. n
    BY <1>1
  <2> QED
    BY <1>4, <2>1
<1>7. ASSUME NEW i \in 1 .. n
      PROVE  g[i] = GoesOnline(g[i - 1], q[i])
  <2>1. /\ i \in Nat \ {0} /\ i \in 0 .. n /\ i - 1 \in 0 .. n
        /\ 1 .. i \in SUBSET (1 .. n)
    BY <1>1
  <2>2. Max(1 .. i) = i /\ (1 .. i) \ {i} = 1 .. i - 1 /\ 1 .. i # {}
    BY <2>1, MaxUpTo
  <2>3. c[1 .. i] = GoesOnline(c[1 .. i - 1], q[i])
    BY <1>4, <2>1, <2>2
  <2> QED
    BY <2>1, <2>3
<1>8. n \in 0 .. n /\ g[n] = c[1 .. n]
  BY <1>1
<1> HIDE DEF g, F
<1> QED
  BY <1>5, <1>6, <1>7, <1>8

AttachAll(r, x, s, q) == FoldLeft(LAMBDA t, y : IsAttached(r, x, t, y), s, q)

LEMMA IsAttachedFolds ==
    ASSUME NEW s \in ServerRecords, NEW q \in Seq(Ids), NEW r, NEW x \in Ids
    PROVE  \E g : /\ g[0] = s /\ g[Len(q)] = AttachAll(r, x, s, q)
                 /\ \A i \in 1 .. Len(q) : g[i] = IsAttached(r, x, g[i - 1], q[i])
<1> DEFINE n == Len(q)
           F == [v \in ServerRecords \X Ids |-> IsAttached(r, x, v[1], v[2])]
           Solves(h) == h = [u \in SUBSET (1 .. n) |->
                               IF u = {} THEN s ELSE IsAttached(r, x, h[u \ {Max(u)}], q[Max(u)])]
           c == CHOOSE h : Solves(h)
<1>1. /\ n \in Nat /\ q \in [1 .. n -> Ids] /\ DOMAIN q = 1 .. n
      /\ F \in [ServerRecords \X Ids -> ServerRecords]
  BY IsAttachedTyped
<1>2. PICK f \in [SUBSET (1 .. n) -> ServerRecords] :
         \A u \in SUBSET (1 .. n) : FoldsOn(f, F, s, q, u)
  <2> HIDE DEF F, n, c, Solves
  <2>1. FoldInput(ServerRecords, Ids, F, s, n, q)
    BY <1>1 DEF FoldInput
  <2>2. FoldExists(ServerRecords, F, s, n, q)
    BY <2>1, FoldSolved
  <2> QED
    BY <2>2 DEF FoldExists
<1>3. Solves(f)
  <2> SUFFICES ASSUME NEW u \in SUBSET (1 .. n)
               PROVE  f[u] = IF u = {} THEN s ELSE IsAttached(r, x, f[u \ {Max(u)}], q[Max(u)])
    BY <1>2
  <2>1. u # {} => f[u \ {Max(u)}] \in ServerRecords /\ q[Max(u)] \in Ids
    <3>1. u # {} => Max(u) \in u
      BY <1>1, MaxIn
    <3> QED
      BY <1>1, <1>2, <3>1
  <2>2. u # {} => F[<<f[u \ {Max(u)}], q[Max(u)]>>] = IsAttached(r, x, f[u \ {Max(u)}], q[Max(u)])
    BY <2>1
  <2> HIDE DEF F
  <2> QED
    BY <1>2, <2>2 DEF FoldsOn
<1>4. Solves(c)
  <2> HIDE DEF Solves
  <2> QED
    BY <1>3
<1>5. AttachAll(r, x, s, q) = c[1 .. n]
  BY <1>1 DEF AttachAll, FoldLeft, MapThenFoldSet
<1> HIDE DEF c
<1> DEFINE g == [i \in 0 .. n |-> c[1 .. i]]
<1>6. g[0] = s
  <2>1. 1 .. 0 = {} /\ 0 \in 0 .. n
    BY <1>1
  <2> QED
    BY <1>4, <2>1
<1>7. ASSUME NEW i \in 1 .. n
      PROVE  g[i] = IsAttached(r, x, g[i - 1], q[i])
  <2>1. /\ i \in Nat \ {0} /\ i \in 0 .. n /\ i - 1 \in 0 .. n
        /\ 1 .. i \in SUBSET (1 .. n)
    BY <1>1
  <2>2. Max(1 .. i) = i /\ (1 .. i) \ {i} = 1 .. i - 1 /\ 1 .. i # {}
    BY <2>1, MaxUpTo
  <2>3. c[1 .. i] = IsAttached(r, x, c[1 .. i - 1], q[i])
    BY <1>4, <2>1, <2>2
  <2> QED
    BY <2>1, <2>3
<1>8. n \in 0 .. n /\ g[n] = c[1 .. n]
  BY <1>1
<1> HIDE DEF g, F
<1> QED
  BY <1>5, <1>6, <1>7, <1>8

-----------------------------------------------------------------------------
(* The generator's count of blocks that are not empty *)

FullBlocks(g) == {b \in Blocks : FreeIn(g, b) # {}}
Counted(g) == g.available = Cardinality(FullBlocks(g))

LEMMA FullFinite ==
    ASSUME NEW g
    PROVE  IsFiniteSet(FullBlocks(g)) /\ Cardinality(FullBlocks(g)) \in Nat
<1>1. FullBlocks(g) \subseteq Blocks /\ IsFiniteSet(Blocks)
  BY BlocksAssumption DEF FullBlocks
<1> QED
  BY <1>1, FS_Subset, FS_CardinalityType

\* tfGetFromBlock() of a free id.
LEMMA TakeCounted ==
    ASSUME NEW g \in GenRecords, Counted(g), NEW x \in g.free
    PROVE  Counted(TakeId(g, x)) /\ TakeId(g, x).free = g.free \ {x}
<1> DEFINE h == TakeId(g, x)
           k == Block(x)
<1>1. /\ h.free = g.free \ {x}
      /\ h.available = IF FreeIn(g, k) = {x} THEN g.available - 1 ELSE g.available
  BY DEF TakeId, GenRecords
<1>2. x \in Ids
  BY DEF GenRecords
<1>3. k \in Blocks /\ x \in k /\ \A b \in Blocks : x \in b => b = k
  BY <1>2, BlockOf
<1>4. \A b \in Blocks \ {k} : FreeIn(h, b) = FreeIn(g, b)
  BY <1>1, <1>3 DEF FreeIn
<1>5. FreeIn(h, k) = FreeIn(g, k) \ {x} /\ x \in FreeIn(g, k)
  BY <1>1, <1>3 DEF FreeIn
<1> HIDE DEF h, k
<1>6. CASE FreeIn(g, k) = {x}
  <2>1. FullBlocks(h) = FullBlocks(g) \ {k} /\ k \in FullBlocks(g)
    BY <1>3, <1>4, <1>5, <1>6 DEF FullBlocks
  <2>2. Cardinality(FullBlocks(h)) = Cardinality(FullBlocks(g)) - 1
    BY <2>1, FullFinite, FS_RemoveElement
  <2> QED
    BY <1>1, <1>6, <2>2 DEF Counted, h
<1>7. CASE FreeIn(g, k) # {x}
  <2>1. FullBlocks(h) = FullBlocks(g)
    BY <1>3, <1>4, <1>5, <1>7 DEF FullBlocks
  <2> QED
    BY <1>1, <1>7, <2>1 DEF Counted, h
<1> QED
  BY <1>1, <1>6, <1>7 DEF h

\* vfFreeID() of an id that is not free.
LEMMA FreeCounted ==
    ASSUME NEW g \in GenRecords, Counted(g), NEW x \in Ids \ g.free, NEW age
    PROVE  Counted(FreeId(g, x, age)) /\ FreeId(g, x, age).free = g.free \union {x}
<1> DEFINE h == FreeId(g, x, age)
           k == Block(x)
<1>1. /\ h.free = g.free \union {x}
      /\ h.available = IF FreeIn(g, k) = {} THEN g.available + 1 ELSE g.available
  BY DEF FreeId, GenRecords
<1>3. k \in Blocks /\ x \in k /\ \A b \in Blocks : x \in b => b = k
  BY BlockOf
<1>4. \A b \in Blocks \ {k} : FreeIn(h, b) = FreeIn(g, b)
  BY <1>1, <1>3 DEF FreeIn
<1>5. FreeIn(h, k) = FreeIn(g, k) \union {x}
  BY <1>1, <1>3 DEF FreeIn
<1> HIDE DEF h, k
<1>6. CASE FreeIn(g, k) = {}
  <2>1. FullBlocks(h) = FullBlocks(g) \union {k} /\ k \notin FullBlocks(g)
    BY <1>3, <1>4, <1>5, <1>6 DEF FullBlocks
  <2>2. Cardinality(FullBlocks(h)) = Cardinality(FullBlocks(g)) + 1
    BY <2>1, FullFinite, FS_AddElement
  <2> QED
    BY <1>1, <1>6, <2>2 DEF Counted, h
<1>7. CASE FreeIn(g, k) # {}
  <2>1. FullBlocks(h) = FullBlocks(g)
    BY <1>3, <1>4, <1>5, <1>7 DEF FullBlocks
  <2> QED
    BY <1>1, <1>7, <2>1 DEF Counted, h
<1> QED
  BY <1>1, <1>6, <1>7 DEF h

-----------------------------------------------------------------------------
(* The tree.  Owners hold items, which hold nothing; those in a tree are all  *)
(* online or all offline.                                                     *)

LinkedAt(s, x) ==
    LET e == s.ent[x]
    IN  /\ e.on = "no" => e = NoEntity
        /\ e.on = "offline" => e.kind # "temp"
        /\ e.kind # "owner" => e.children = <<>>
        /\ IsInjective(e.children)
        /\ e.parent # NoID =>
              /\ e.kind # "owner" /\ s.ent[e.parent].kind = "owner"
              /\ s.ent[e.parent].on = e.on
              /\ x \in ToSet(s.ent[e.parent].children)
        /\ \A c \in ToSet(e.children) : s.ent[c].parent = x

Linked(s) == \A x \in Ids : LinkedAt(s, x)

\* The free ids are those of no entity, and of the ones in C that have gone
\* offline and have not claimed theirs again.
Unclaimed(s, C) ==
    s.gen.free = {x \in Ids : s.ent[x].on = "no" \/ (x \in C /\ s.ent[x].on = "offline")}

Conserved(s, C) == Unclaimed(s, C) /\ Counted(s.gen)

ServerGood(s) == s \in ServerRecords /\ Linked(s) /\ Conserved(s, {})

\* What AddChild() and RemoveChild() do to each entity.
Moves(s, t, p, x, q, c) ==
    /\ t \in ServerRecords /\ t.gen = s.gen /\ t.out = s.out
    /\ \A y \in Ids : t.ent[y].on = s.ent[y].on /\ t.ent[y].kind = s.ent[y].kind
    /\ \A y \in Ids \ {x, p} : t.ent[y] = s.ent[y]
    /\ t.ent[x].parent = q /\ t.ent[x].children = s.ent[x].children
    /\ t.ent[p].parent = s.ent[p].parent /\ t.ent[p].children = c

LEMMA SetMoves ==
    ASSUME NEW s \in ServerRecords, NEW p \in Ids, NEW x \in Ids, p # x,
           NEW q \in Ids \union {NoID}, NEW c \in Seq(Ids)
    PROVE  Moves(s, SetChildren(SetParent(s, x, q), p, c), p, x, q, c)
<1> DEFINE r == SetParent(s, x, q)
           t == SetChildren(r, p, c)
<1>1. /\ r \in ServerRecords /\ r.gen = s.gen /\ r.out = s.out
      /\ r.ent = [s.ent EXCEPT ![x].parent = q]
  BY SetParentTyped
<1> HIDE DEF r
<1>2. /\ t \in ServerRecords /\ t.gen = r.gen /\ t.out = r.out
      /\ t.ent = [r.ent EXCEPT ![p].children = c]
  BY <1>1, SetChildrenTyped
<1> HIDE DEF t
<1>3. s.ent \in [Ids -> EntityRecords] /\ r.ent \in [Ids -> EntityRecords]
  BY <1>1 DEF ServerRecords
<1>4. /\ \A y \in Ids \ {x} : r.ent[y] = s.ent[y]
      /\ r.ent[x] = [s.ent[x] EXCEPT !.parent = q]
  BY <1>1, <1>3
<1>5. /\ \A y \in Ids \ {p} : t.ent[y] = r.ent[y]
      /\ t.ent[p] = [r.ent[p] EXCEPT !.children = c]
  BY <1>2, <1>3
<1>6. /\ t.ent[x] = [s.ent[x] EXCEPT !.parent = q]
      /\ t.ent[p] = [s.ent[p] EXCEPT !.children = c]
      /\ \A y \in Ids \ {x, p} : t.ent[y] = s.ent[y]
      /\ s.ent[x] \in EntityRecords /\ s.ent[p] \in EntityRecords
  BY <1>3, <1>4, <1>5
<1>7. /\ t.ent[x].parent = q /\ t.ent[x].children = s.ent[x].children
      /\ t.ent[x].on = s.ent[x].on /\ t.ent[x].kind = s.ent[x].kind
      /\ t.ent[p].parent = s.ent[p].parent /\ t.ent[p].children = c
      /\ t.ent[p].on = s.ent[p].on /\ t.ent[p].kind = s.ent[p].kind
  BY <1>6 DEF EntityRecords
<1>8. \A y \in Ids : t.ent[y].on = s.ent[y].on /\ t.ent[y].kind = s.ent[y].kind
  BY <1>6, <1>7
<1>9. Moves(s, t, p, x, q, c)
  BY <1>1, <1>2, <1>6, <1>7, <1>8 DEF Moves
<1> QED
  BY <1>9 DEF t, r

LEMMA AddMoves ==
    ASSUME NEW s \in ServerRecords, NEW p \in Ids, NEW x \in Ids, p # x
    PROVE  Moves(s, AddChild(s, p, x), p, x, p, Append(s.ent[p].children, x))
<1> DEFINE r == SetParent(s, x, p)
           c == Append(s.ent[p].children, x)
<1>1. r.ent = [s.ent EXCEPT ![x].parent = p]
  BY SetParentTyped
<1>2. r.ent[p] = s.ent[p]
  BY <1>1 DEF ServerRecords
<1>3. AddChild(s, p, x) = SetChildren(r, p, Append(r.ent[p].children, x))
  BY DEF AddChild, SetParent, SetChildren
<1>4. c \in Seq(Ids)
  BY DEF ServerRecords, EntityRecords
<1>5. AddChild(s, p, x) = SetChildren(r, p, c)
  BY <1>2, <1>3
<1> HIDE DEF c
<1>6. Moves(s, SetChildren(SetParent(s, x, p), p, c), p, x, p, c)
  BY <1>4, SetMoves
<1> QED
  BY <1>5, <1>6 DEF c

LEMMA RemoveMoves ==
    ASSUME NEW s \in ServerRecords, NEW p \in Ids, NEW x \in Ids, p # x
    PROVE  Moves(s, RemoveChild(s, p, x), p, x, NoID, RemoveFirst(s.ent[p].children, x))
<1> DEFINE r == SetParent(s, x, NoID)
           c == RemoveFirst(s.ent[p].children, x)
<1>1. r.ent = [s.ent EXCEPT ![x].parent = NoID]
  BY SetParentTyped
<1>2. r.ent[p] = s.ent[p]
  BY <1>1 DEF ServerRecords
<1>3. RemoveChild(s, p, x) = SetChildren(r, p, RemoveFirst(r.ent[p].children, x))
  BY DEF RemoveChild, SetParent, SetChildren
<1>4. c \in Seq(Ids)
  BY RemoveFirstSeq DEF ServerRecords, EntityRecords
<1>5. RemoveChild(s, p, x) = SetChildren(r, p, c)
  BY <1>2, <1>3
<1> HIDE DEF c
<1>6. Moves(s, SetChildren(SetParent(s, x, NoID), p, c), p, x, NoID, c)
  BY <1>4, SetMoves
<1> QED
  BY <1>5, <1>6 DEF c

\* Entities with parents, and with children, exist.
LEMMA LinkedFacts ==
    ASSUME NEW s \in ServerRecords, Linked(s), NEW x \in Ids
    PROVE  /\ s.ent[x] \in EntityRecords
           /\ s.ent[x].on = "no" => s.ent[x] = NoEntity
           /\ s.ent[x].parent # NoID =>
                /\ s.ent[x].parent \in Ids \ {x} /\ s.ent[x].on # "no"
                /\ s.ent[x].kind # "owner" /\ s.ent[x].children = <<>>
                /\ s.ent[s.ent[x].parent].kind = "owner"
                /\ s.ent[s.ent[x].parent].parent = NoID
                /\ s.ent[s.ent[x].parent].on = s.ent[x].on
                /\ x \in ToSet(s.ent[s.ent[x].parent].children)
           /\ \A c \in ToSet(s.ent[x].children) :
                /\ c \in Ids \ {x} /\ s.ent[c].parent = x /\ s.ent[c].on = s.ent[x].on
                /\ s.ent[x].on # "no" /\ s.ent[x].kind = "owner"
                /\ s.ent[c].kind # "owner" /\ s.ent[c].children = <<>>
<1>1. LinkedAt(s, x) /\ s.ent[x] \in EntityRecords
  BY DEF Linked, ServerRecords
<1>2. NoEntity.parent = NoID /\ NoEntity.kind = "item" /\ NoEntity.children = <<>>
  BY DEF NoEntity, Entity
<1>3. ASSUME s.ent[x].parent # NoID
      PROVE  /\ s.ent[x].parent \in Ids \ {x} /\ s.ent[x].on # "no"
             /\ s.ent[x].kind # "owner" /\ s.ent[x].children = <<>>
             /\ s.ent[s.ent[x].parent].kind = "owner"
             /\ s.ent[s.ent[x].parent].parent = NoID
             /\ s.ent[s.ent[x].parent].on = s.ent[x].on
             /\ x \in ToSet(s.ent[s.ent[x].parent].children)
  <2> DEFINE p == s.ent[x].parent
  <2>1. p \in Ids
    BY <1>1, <1>3 DEF EntityRecords
  <2>2. LinkedAt(s, p)
    BY <2>1 DEF Linked
  <2> QED
    BY <1>1, <1>2, <1>3, <2>1, <2>2 DEF LinkedAt
<1>4. ASSUME NEW c \in ToSet(s.ent[x].children)
      PROVE  /\ c \in Ids \ {x} /\ s.ent[c].parent = x /\ s.ent[c].on = s.ent[x].on
             /\ s.ent[x].on # "no" /\ s.ent[x].kind = "owner"
             /\ s.ent[c].kind # "owner" /\ s.ent[c].children = <<>>
  <2>1. c \in Ids
    BY <1>1 DEF ToSet, EntityRecords
  <2>2. LinkedAt(s, c) /\ s.ent[c].parent = x /\ x # NoID
    BY <1>1, <2>1, IdFacts DEF Linked, LinkedAt
  <2>3. /\ s.ent[x].kind = "owner" /\ s.ent[c].kind # "owner"
        /\ s.ent[x].on = s.ent[c].on /\ s.ent[c].children = <<>>
    BY <2>2 DEF LinkedAt
  <2>4. s.ent[x].on # "no"
    BY <1>1, <1>2, <2>3 DEF LinkedAt
  <2> QED
    BY <2>1, <2>2, <2>3, <2>4
<1>5. s.ent[x].on = "no" => s.ent[x] = NoEntity
  BY <1>1 DEF LinkedAt
<1> QED
  BY <1>1, <1>3, <1>4, <1>5

LEMMA AddLinked ==
    ASSUME NEW s \in ServerRecords, Linked(s), NEW p \in Ids, NEW x \in Ids,
           s.ent[p].kind = "owner", s.ent[x].kind # "owner", s.ent[x].parent = NoID,
           s.ent[p].on = s.ent[x].on, s.ent[x].on # "no"
    PROVE  /\ Linked(AddChild(s, p, x))
           /\ Moves(s, AddChild(s, p, x), p, x, p, Append(s.ent[p].children, x))
<1> DEFINE t == AddChild(s, p, x)
           c == Append(s.ent[p].children, x)
<1>1. p # x
  OBVIOUS
<1>2. Moves(s, t, p, x, p, c)
  BY <1>1, AddMoves
<1>3. x \notin ToSet(s.ent[p].children)
  BY LinkedFacts, IdFacts
<1>4. s.ent[p].children \in Seq(Ids) /\ IsInjective(s.ent[p].children)
  BY DEF Linked, LinkedAt, ServerRecords, EntityRecords
<1>5. ToSet(c) = ToSet(s.ent[p].children) \union {x} /\ IsInjective(c)
  BY <1>3, <1>4, AppendToSet
<1> HIDE DEF t, c
<1>6. \A y \in Ids \ {x} : t.ent[y].parent = s.ent[y].parent
  BY <1>2 DEF Moves
<1>7. \A y \in Ids \ {p} : t.ent[y].children = s.ent[y].children
  BY <1>2 DEF Moves
<1>8. LinkedAt(t, x)
  <2>1. LinkedAt(s, x)
    BY DEF Linked
  <2>2. /\ t.ent[x].on = s.ent[x].on /\ t.ent[x].kind = s.ent[x].kind
        /\ t.ent[x].children = <<>> /\ t.ent[x].parent = p
        /\ t.ent[p].kind = "owner" /\ t.ent[p].on = s.ent[x].on /\ t.ent[p].children = c
    BY <1>2, <2>1 DEF Moves, LinkedAt
  <2>3. IsInjective(t.ent[x].children) /\ ToSet(t.ent[x].children) = {}
    BY <2>2 DEF IsInjective, ToSet
  <2> QED
    BY <1>5, <2>1, <2>2, <2>3 DEF LinkedAt
<1>9. LinkedAt(t, p)
  <2>1. LinkedAt(s, p) /\ s.ent[p].parent = NoID
    BY LinkedFacts DEF Linked
  <2>2. /\ t.ent[p].on = s.ent[p].on /\ t.ent[p].kind = "owner"
        /\ t.ent[p].children = c /\ t.ent[p].parent = NoID
    BY <1>2, <2>1 DEF Moves
  <2>3. \A y \in ToSet(c) : t.ent[y].parent = p
    <3>1. \A y \in ToSet(s.ent[p].children) : y \in Ids /\ s.ent[y].parent = p
      BY LinkedFacts
    <3> QED
      BY <1>2, <1>3, <1>5, <1>6, <3>1 DEF Moves
  <2> QED
    BY <1>5, <2>1, <2>2, <2>3 DEF LinkedAt
<1>10. ASSUME NEW y \in Ids \ {x, p} PROVE LinkedAt(t, y)
  <2>1. t.ent[y] = s.ent[y] /\ LinkedAt(s, y)
    BY <1>2 DEF Moves, Linked
  <2>2. \A z \in ToSet(s.ent[y].children) : z # x /\ t.ent[z].parent = y
    <3>1. \A z \in ToSet(s.ent[y].children) : z \in Ids /\ s.ent[z].parent = y
      BY LinkedFacts
    <3> QED
      BY <1>6, <3>1, IdFacts
  <2>3. ASSUME s.ent[y].parent # NoID
        PROVE  LET r == s.ent[y].parent
               IN  /\ t.ent[r].kind = s.ent[r].kind /\ t.ent[r].on = s.ent[r].on
                   /\ ToSet(s.ent[r].children) \subseteq ToSet(t.ent[r].children)
    <3>1. s.ent[y].parent \in Ids
      BY <2>3, LinkedFacts
    <3> QED
      BY <1>2, <1>5, <1>7, <3>1 DEF Moves
  <2> QED
    BY <2>1, <2>2, <2>3 DEF LinkedAt
<1>11. Linked(t)
  BY <1>8, <1>9, <1>10 DEF Linked
<1> QED
  BY <1>2, <1>11 DEF t, c

LEMMA RemoveLinked ==
    ASSUME NEW s \in ServerRecords, Linked(s), NEW x \in Ids, NEW p \in Ids,
           s.ent[x].parent = p
    PROVE  /\ Linked(RemoveChild(s, p, x))
           /\ Moves(s, RemoveChild(s, p, x), p, x, NoID, RemoveFirst(s.ent[p].children, x))
           /\ ToSet(RemoveFirst(s.ent[p].children, x)) = ToSet(s.ent[p].children) \ {x}
<1> DEFINE t == RemoveChild(s, p, x)
           c == RemoveFirst(s.ent[p].children, x)
<1>1. p # x /\ p # NoID
  BY LinkedFacts, IdFacts
<1>2. Moves(s, t, p, x, NoID, c)
  BY <1>1, RemoveMoves
<1>4. s.ent[p].children \in Seq(Ids) /\ IsInjective(s.ent[p].children)
  BY DEF Linked, LinkedAt, ServerRecords, EntityRecords
<1>5. ToSet(c) = ToSet(s.ent[p].children) \ {x} /\ IsInjective(c)
  BY <1>4, RemoveFirstToSet
<1> HIDE DEF t, c
<1>6. \A y \in Ids \ {x} : t.ent[y].parent = s.ent[y].parent
  BY <1>2 DEF Moves
<1>7. \A y \in Ids \ {p} : t.ent[y].children = s.ent[y].children
  BY <1>2 DEF Moves
<1>8. LinkedAt(t, x)
  <2>1. /\ LinkedAt(s, x) /\ s.ent[x].on # "no" /\ s.ent[x].kind # "owner"
        /\ s.ent[x].children = <<>>
    BY <1>1, LinkedFacts DEF Linked
  <2>2. /\ t.ent[x].on = s.ent[x].on /\ t.ent[x].kind = s.ent[x].kind
        /\ t.ent[x].children = <<>> /\ t.ent[x].parent = NoID
    BY <1>2, <2>1 DEF Moves
  <2>3. IsInjective(t.ent[x].children) /\ ToSet(t.ent[x].children) = {}
    BY <2>2 DEF IsInjective, ToSet
  <2> QED
    BY <2>1, <2>2, <2>3 DEF LinkedAt
<1>9. LinkedAt(t, p)
  <2>1. /\ LinkedAt(s, p) /\ s.ent[p].parent = NoID /\ s.ent[p].kind = "owner"
        /\ s.ent[p].on # "no"
    BY <1>1, LinkedFacts DEF Linked
  <2>2. /\ t.ent[p].on = s.ent[p].on /\ t.ent[p].kind = "owner"
        /\ t.ent[p].children = c /\ t.ent[p].parent = NoID
    BY <1>2, <2>1 DEF Moves
  <2>3. \A y \in ToSet(c) : t.ent[y].parent = p
    <3>1. \A y \in ToSet(s.ent[p].children) : y \in Ids /\ s.ent[y].parent = p
      BY LinkedFacts
    <3> QED
      BY <1>5, <1>6, <3>1
  <2> QED
    BY <1>5, <2>1, <2>2, <2>3 DEF LinkedAt
<1>10. ASSUME NEW y \in Ids \ {x, p} PROVE LinkedAt(t, y)
  <2>1. t.ent[y] = s.ent[y] /\ LinkedAt(s, y)
    BY <1>2 DEF Moves, Linked
  <2>2. \A z \in ToSet(s.ent[y].children) : t.ent[z].parent = y
    <3>1. \A z \in ToSet(s.ent[y].children) : z \in Ids /\ s.ent[z].parent = y
      BY LinkedFacts
    <3> QED
      BY <1>6, <3>1
  <2>3. ASSUME s.ent[y].parent # NoID
        PROVE  LET r == s.ent[y].parent
               IN  /\ t.ent[r].kind = s.ent[r].kind /\ t.ent[r].on = s.ent[r].on
                   /\ y \in ToSet(s.ent[r].children) => y \in ToSet(t.ent[r].children)
    <3>1. s.ent[y].parent \in Ids
      BY <2>3, LinkedFacts
    <3> QED
      BY <1>2, <1>5, <1>7, <3>1 DEF Moves
  <2> QED
    BY <2>1, <2>2, <2>3 DEF LinkedAt
<1>11. Linked(t)
  BY <1>8, <1>9, <1>10 DEF Linked
<1> QED
  BY <1>2, <1>5, <1>11 DEF t, c

-----------------------------------------------------------------------------
(* An entity on its own leaves, or changes sides *)

\* Entity x becomes e; nobody else's changes.
Becomes(s, t, x, e) ==
    /\ t \in ServerRecords /\ t.ent[x] = e
    /\ \A y \in Ids \ {x} : t.ent[y] = s.ent[y]

\* Nobody's child, and nobody's parent.
Alone(s, x) == s.ent[x].parent = NoID /\ s.ent[x].children = <<>>

LEMMA BecomesLinked ==
    ASSUME NEW s \in ServerRecords, Linked(s), NEW x \in Ids, Alone(s, x),
           NEW e, NEW t, Becomes(s, t, x, e),
           e.parent = NoID, e.children = <<>>,
           e.on = "no" => e = NoEntity, e.on = "offline" => e.kind # "temp"
    PROVE  Linked(t)
<1>1. LinkedAt(t, x)
  <2>1. t.ent[x] = e
    BY DEF Becomes
  <2>2. IsInjective(e.children) /\ ToSet(e.children) = {}
    BY DEF IsInjective, ToSet
  <2> QED
    BY <2>1, <2>2 DEF LinkedAt
<1>2. ASSUME NEW y \in Ids \ {x} PROVE LinkedAt(t, y)
  <2>1. LinkedAt(s, y) /\ t.ent[y] = s.ent[y]
    BY DEF Linked, Becomes
  <2>2. s.ent[y].parent # NoID => s.ent[y].parent \in Ids \ {x}
    <3>1. ToSet(s.ent[x].children) = {}
      BY DEF Alone, ToSet
    <3> QED
      BY <3>1, LinkedFacts
  <2>3. \A c \in ToSet(s.ent[y].children) : c \in Ids \ {x}
    BY LinkedFacts, IdFacts DEF Alone
  <2> QED
    BY <2>1, <2>2, <2>3 DEF LinkedAt, Becomes
<1> QED
  BY <1>1, <1>2 DEF Linked

LEMMA ForgetGood ==
    ASSUME NEW s \in ServerRecords, Linked(s), NEW C, Conserved(s, C),
           NEW x \in Ids, Alone(s, x), x \notin s.gen.free
    PROVE  /\ Becomes(s, Forget(s, x), x, NoEntity)
           /\ Linked(Forget(s, x)) /\ Conserved(Forget(s, x), C)
<1> DEFINE t == Forget(s, x)
<1>1. t \in ServerRecords
  BY ForgetTyped
<1>2. t.ent = [s.ent EXCEPT ![x] = NoEntity] /\ t.gen = FreeId(s.gen, x, 0)
  BY DEF Forget, ServerRecords
<1>3. Becomes(s, t, x, NoEntity)
  BY <1>1, <1>2 DEF Becomes, ServerRecords
<1>4. Counted(t.gen) /\ t.gen.free = s.gen.free \union {x}
  BY <1>2, FreeCounted DEF Conserved, ServerRecords
<1> HIDE DEF t
<1>5. NoEntity.on = "no" /\ NoEntity.parent = NoID /\ NoEntity.children = <<>>
  BY DEF NoEntity, Entity
<1>6. Linked(t)
  BY <1>3, <1>5, BecomesLinked
<1>7. Unclaimed(t, C)
  BY <1>3, <1>4, <1>5 DEF Conserved, Unclaimed, Becomes
<1> QED
  BY <1>3, <1>4, <1>6, <1>7 DEF t, Conserved

\* What entity_Destroy() leaves: ALife keeps all but temporary things.
Left(e) == IF e.kind = "temp" THEN NoEntity ELSE [e EXCEPT !.on = "offline"]

LEMMA LeftFacts ==
    ASSUME NEW e \in EntityRecords
    PROVE  /\ e.kind = "temp" => Left(e) = NoEntity /\ Left(e).on = "no"
           /\ e.kind # "temp" => /\ Left(e).on = "offline" /\ Left(e).kind = e.kind
                                 /\ Left(e).parent = e.parent
                                 /\ Left(e).children = e.children
BY DEF Left, EntityRecords, NoEntity, Entity

LEMMA EntityDestroyed ==
    ASSUME NEW s \in ServerRecords, NEW x \in Ids, Counted(s.gen), x \notin s.gen.free
    PROVE  LET t == entity_Destroy(s, x)
           IN  /\ Becomes(s, t, x, Left(s.ent[x])) /\ t.out = s.out
               /\ Counted(t.gen) /\ t.gen.free = s.gen.free \union {x}
<1> DEFINE t == entity_Destroy(s, x)
<1>1. t \in ServerRecords
  BY ForgetTyped
<1>2. /\ t.ent = [s.ent EXCEPT ![x] = Left(s.ent[x])] /\ t.gen = FreeId(s.gen, x, 0)
      /\ t.out = s.out
  BY DEF entity_Destroy, ServerRecords, Left
<1>3. Becomes(s, t, x, Left(s.ent[x]))
  BY <1>1, <1>2 DEF Becomes, ServerRecords
<1>4. Counted(t.gen) /\ t.gen.free = s.gen.free \union {x}
  BY <1>2, FreeCounted DEF ServerRecords
<1> QED
  BY <1>2, <1>3, <1>4

\* One object of Perform_destroy(), once it has been rejected.
LEMMA DestroyRootGood ==
    ASSUME NEW s \in ServerRecords, Linked(s), NEW C, Conserved(s, C),
           NEW x \in Ids, Alone(s, x), s.ent[x].on = "online", x \in C
    PROVE  LET t == DestroyRoot(s, x)
           IN  /\ Becomes(s, t, x, Left(s.ent[x]))
               /\ Linked(t) /\ Conserved(t, C)
<1> DEFINE r == entity_Destroy(s, x)
           t == DestroyRoot(s, x)
           e == Left(s.ent[x])
<1>1. x \notin s.gen.free
  BY DEF Conserved, Unclaimed
<1>2. /\ Becomes(s, r, x, e) /\ Counted(r.gen) /\ r.gen.free = s.gen.free \union {x}
  BY <1>1, EntityDestroyed DEF Conserved
<1> HIDE DEF r
<1>3. t \in ServerRecords /\ t.ent = r.ent /\ t.gen = r.gen
  <2>1. r \in ServerRecords /\ Destroy(x) \in Messages
    BY <1>2, MessageTyped DEF Becomes
  <2> QED
    BY <2>1, SendTyped DEF DestroyRoot, r
<1> HIDE DEF t
<1>4. Becomes(s, t, x, e)
  BY <1>2, <1>3 DEF Becomes
<1>5. s.ent[x] \in EntityRecords
  BY DEF ServerRecords
<1>6. NoEntity.on = "no" /\ NoEntity.parent = NoID /\ NoEntity.children = <<>>
  BY DEF NoEntity, Entity
<1>7. /\ e.parent = NoID /\ e.children = <<>> /\ e.on \in {"no", "offline"}
      /\ e.on = "no" => e = NoEntity
      /\ e.on = "offline" => e.kind # "temp"
  BY <1>5, <1>6, LeftFacts DEF Alone
<1> HIDE DEF e
<1>8. Linked(t)
  BY <1>4, <1>7, BecomesLinked
<1>9. Unclaimed(t, C)
  BY <1>2, <1>3, <1>4, <1>7 DEF Conserved, Unclaimed, Becomes
<1> QED
  BY <1>2, <1>3, <1>4, <1>8, <1>9 DEF t, e, Conserved

-----------------------------------------------------------------------------
(* Handlers without a loop *)

LEMMA SendGood ==
    ASSUME NEW s \in ServerRecords, NEW m \in Messages
    PROVE  /\ SendBroadcast(s, m) \in ServerRecords
           /\ Linked(s) => Linked(SendBroadcast(s, m))
           /\ \A C : Conserved(s, C) => Conserved(SendBroadcast(s, m), C)
           /\ SendBroadcast(s, m).ent = s.ent
<1> DEFINE t == SendBroadcast(s, m)
<1>1. t \in ServerRecords /\ t.ent = s.ent /\ t.gen = s.gen
  BY SendTyped
<1> HIDE DEF t
<1>2. Linked(s) => Linked(t)
  BY <1>1 DEF Linked, LinkedAt
<1>3. \A C : Conserved(s, C) => Conserved(t, C)
  BY <1>1 DEF Conserved, Unclaimed
<1> QED
  BY <1>1, <1>2, <1>3 DEF t

\* A step that moves no entity to the other side and no id.
LEMMA MovesConserved ==
    ASSUME NEW s, NEW t, NEW p, NEW x, NEW q, NEW c, Moves(s, t, p, x, q, c),
           NEW C, Conserved(s, C)
    PROVE  Conserved(t, C)
BY DEF Moves, Conserved, Unclaimed

LEMMA OwnershipGood ==
    ASSUME NEW s, ServerGood(s), NEW p, NEW x, NEW valid,
           s.ent[p].kind = "owner", Online(s, x) => s.ent[x].kind # "owner"
    PROVE  ServerGood(Process_event_ownership(s, p, x, valid))
<1> SUFFICES ASSUME Online(s, p), Online(s, x), Root(s, x)
             PROVE  ServerGood(SendBroadcast(AddChild(s, p, x), Take(p, x)))
  BY DEF Process_event_ownership
<1> DEFINE t == AddChild(s, p, x)
<1>1. p \in Ids /\ x \in Ids /\ s \in ServerRecords /\ Linked(s) /\ Conserved(s, {})
  BY DEF Online, ServerGood
<1>2. Linked(t) /\ Moves(s, t, p, x, p, Append(s.ent[p].children, x))
  BY <1>1, AddLinked DEF Online, Root
<1> HIDE DEF t
<1>3. t \in ServerRecords /\ Conserved(t, {})
  BY <1>1, <1>2, MovesConserved DEF Moves
<1>4. Take(p, x) \in Messages
  BY <1>1, MessageTyped
<1> QED
  BY <1>2, <1>3, <1>4, SendGood DEF ServerGood, t

\* A reject detaches x, or does nothing.
LEMMA RejectMoves ==
    ASSUME NEW s \in ServerRecords, Linked(s), NEW p, NEW x, NEW b \in BOOLEAN
    PROVE  LET t == Process_event_reject(s, p, x, b)
           IN  /\ t \in ServerRecords /\ Linked(t) /\ \A C : Conserved(s, C) => Conserved(t, C)
               /\ \/ t = s /\ ~(Online(s, x) /\ x \in Ids /\ p \in Ids /\ s.ent[x].parent = p)
                  \/ /\ x \in Ids /\ p \in Ids /\ s.ent[x].parent = p
                     /\ t.ent = RemoveChild(s, p, x).ent
<1> DEFINE r == RemoveChild(s, p, x)
           t == Process_event_reject(s, p, x, b)
<1>1. CASE Online(s, p) /\ Online(s, x) /\ Contains(s.ent[p].children, x) /\ ~Root(s, x)
  <2>1. p \in Ids /\ x \in Ids /\ x \in ToSet(s.ent[p].children)
    <3>1. s.ent[p].children \in Seq(Ids) /\ p \in Ids /\ x \in Ids
      BY <1>1 DEF Online, ServerRecords, EntityRecords
    <3> QED
      BY <1>1, <3>1 DEF Contains, ToSet
  <2>2. s.ent[x].parent = p
    BY <2>1, LinkedFacts
  <2>3. Linked(r) /\ Moves(s, r, p, x, NoID, RemoveFirst(s.ent[p].children, x))
    BY <2>1, <2>2, RemoveLinked
  <2>4. t = IF b THEN SendBroadcast(r, Reject(p, x)) ELSE r
    BY <1>1 DEF Process_event_reject
  <2> HIDE DEF r, t
  <2>5. r \in ServerRecords /\ Reject(p, x) \in Messages
        /\ \A C : Conserved(s, C) => Conserved(r, C)
    BY <2>1, <2>3, MovesConserved, MessageTyped DEF Moves
  <2>6. t \in ServerRecords /\ Linked(t) /\ t.ent = r.ent
        /\ \A C : Conserved(s, C) => Conserved(t, C)
    BY <2>3, <2>4, <2>5, SendGood
  <2> QED
    BY <2>1, <2>2, <2>6 DEF r, t
<1>2. CASE ~(Online(s, p) /\ Online(s, x) /\ Contains(s.ent[p].children, x) /\ ~Root(s, x))
  <2>1. t = s
    BY <1>2 DEF Process_event_reject
  <2>2. ~(Online(s, x) /\ x \in Ids /\ p \in Ids /\ s.ent[x].parent = p)
    <3> SUFFICES ASSUME Online(s, x), x \in Ids, p \in Ids, s.ent[x].parent = p
                 PROVE  FALSE
      OBVIOUS
    <3>1. p # NoID
      BY IdFacts
    <3>2. Online(s, p) /\ ~Root(s, x) /\ x \in ToSet(s.ent[p].children)
      BY <3>1, LinkedFacts DEF Online, Root
    <3>3. Contains(s.ent[p].children, x)
      <4>1. s.ent[p].children \in Seq(Ids)
        BY DEF ServerRecords, EntityRecords
      <4> QED
        BY <3>2, <4>1 DEF Contains, ToSet
    <3> QED
      BY <1>2, <3>2, <3>3
  <2> HIDE DEF t
  <2> QED
    BY <2>1, <2>2 DEF t
<1> QED
  BY <1>1, <1>2

LEMMA RejectGood ==
    ASSUME NEW s, ServerGood(s), NEW p, NEW x, NEW b \in BOOLEAN
    PROVE  ServerGood(Process_event_reject(s, p, x, b))
<1>1. s \in ServerRecords /\ Linked(s) /\ Conserved(s, {})
  BY DEF ServerGood
<1> QED
  BY <1>1, RejectMoves DEF ServerGood
-----------------------------------------------------------------------------
(* What the client is shown.  A tree says of each id who holds it: an owner,  *)
(* nobody (NoID), or that there is no such object (Gone).  The messages on    *)
(* their way lead from the client's tree to the server's, each of them legal  *)
(* where it arrives.                                                          *)

Gone == CHOOSE g : g \notin Ids \union {NoID}
Trees == [Ids -> Ids \union {NoID, Gone}]

\* The tree once m is handled.
Becoming(m) ==
    IF m.type = "destroy" THEN Gone ELSE IF m.type = "reject" THEN NoID ELSE m.dest
After(V, m) == [V EXCEPT ![m.id] = Becoming(m)]

\* A refused item is held by nobody when its reject arrives.
Legal(V, m) ==
    /\ m.type = "spawn" => V[m.id] = Gone /\ (m.dest # NoID => V[m.dest] # Gone)
    /\ m.type = "take" => V[m.id] = NoID /\ m.dest # NoID /\ V[m.dest] # Gone
    /\ m.type = "reject" => V[m.id] = NoID \/ V[m.id] = m.dest
    /\ m.type = "destroy" => V[m.id] = NoID /\ \A y \in Ids : V[y] # m.id

\* The trees on the way, g[0] the first and g[Len(d)] the last.
Leads(g, d) ==
    /\ g \in [0 .. Len(d) -> Trees]
    /\ \A i \in 1 .. Len(d) : Legal(g[i - 1], d[i]) /\ g[i] = After(g[i - 1], d[i])
Path(V, d, U) == \E g : Leads(g, d) /\ g[0] = V /\ g[Len(d)] = U

LEMMA GoneFact == Gone \notin Ids /\ Gone # NoID
<1>1. Gone \notin Ids \union {NoID}
  BY NoSetContainsEverything DEF Gone
<1> QED
  BY <1>1

LEMMA MessageFacts ==
    ASSUME NEW m \in Messages
    PROVE  /\ m.id \in Ids /\ m.dest \in Ids \union {NoID}
           /\ m.type \in {"spawn", "take", "reject", "destroy"}
           /\ Becoming(m) \in Ids \union {NoID, Gone}
<1>1. /\ m.id \in Ids /\ m.dest \in Ids \union {NoID}
      /\ m.type \in {"spawn", "take", "reject", "destroy"}
  BY DEF Messages
<1> QED
  BY <1>1 DEF Becoming

LEMMA AfterTyped ==
    ASSUME NEW V \in Trees, NEW m \in Messages
    PROVE  /\ After(V, m) \in Trees /\ After(V, m)[m.id] = Becoming(m)
           /\ \A y \in Ids : y # m.id => After(V, m)[y] = V[y]
BY MessageFacts DEF After, Trees

\* One more message.
LEMMA PathAppend ==
    ASSUME NEW V, NEW d \in Seq(Messages), NEW U, Path(V, d, U),
           NEW m \in Messages, Legal(U, m)
    PROVE  Path(V, Append(d, m), After(U, m))
<1> DEFINE n == Len(d)
           e == Append(d, m)
<1>1. PICK g : Leads(g, d) /\ g[0] = V /\ g[n] = U
  BY DEF Path
<1>2. /\ n \in Nat /\ Len(e) = n + 1 /\ e[n + 1] = m
      /\ \A i \in 1 .. n : e[i] = d[i]
  OBVIOUS
<1>3. U \in Trees /\ g \in [0 .. n -> Trees]
  BY <1>1, <1>2 DEF Leads
<1>4. After(U, m) \in Trees
  BY <1>3, AfterTyped
<1> DEFINE h == [i \in 0 .. n + 1 |-> IF i = n + 1 THEN After(U, m) ELSE g[i]]
<1>5. /\ h \in [0 .. n + 1 -> Trees] /\ h[n + 1] = After(U, m)
      /\ \A i \in 0 .. n : h[i] = g[i]
  BY <1>2, <1>3, <1>4
<1> HIDE DEF h, n, e
<1>6. ASSUME NEW i \in 1 .. n + 1
      PROVE  Legal(h[i - 1], e[i]) /\ h[i] = After(h[i - 1], e[i])
  <2>1. CASE i = n + 1
    <3>1. i - 1 = n /\ n \in 0 .. n
      BY <1>2, <2>1
    <3>2. h[i - 1] = U /\ e[i] = m
      BY <1>1, <1>2, <1>5, <2>1, <3>1
    <3> QED
      BY <1>5, <2>1, <3>2
  <2>2. CASE i # n + 1
    <3>1. i \in 1 .. n /\ i - 1 \in 0 .. n /\ i \in 0 .. n
      BY <1>2, <2>2
    <3>2. Legal(g[i - 1], d[i]) /\ g[i] = After(g[i - 1], d[i])
      BY <1>1, <3>1 DEF Leads, n
    <3> QED
      BY <1>2, <1>5, <3>1, <3>2
  <2> QED
    BY <2>1, <2>2
<1>7. Leads(h, e)
  BY <1>2, <1>5, <1>6 DEF Leads
<1>8. h[0] = V /\ h[Len(e)] = After(U, m)
  BY <1>1, <1>2, <1>5
<1> QED
  BY <1>7, <1>8 DEF Path, e

\* The first message is handled.
LEMMA PathTail ==
    ASSUME NEW V, NEW d \in Seq(Messages), NEW U, Path(V, d, U), d # <<>>
    PROVE  /\ Head(d) \in Messages /\ Legal(V, Head(d))
           /\ V \in Trees /\ Path(After(V, Head(d)), Tail(d), U)
<1> DEFINE n == Len(d)
           e == Tail(d)
<1>1. PICK g : Leads(g, d) /\ g[0] = V /\ g[n] = U
  BY DEF Path
<1>2. /\ n \in Nat \ {0} /\ Len(e) = n - 1 /\ Head(d) = d[1] /\ d[1] \in Messages
      /\ \A i \in 1 .. n - 1 : e[i] = d[i + 1]
  BY EmptySeq
<1>3. g \in [0 .. n -> Trees] /\ Legal(V, d[1]) /\ g[1] = After(V, d[1]) /\ V \in Trees
  BY <1>1, <1>2 DEF Leads
<1> DEFINE h == [i \in 0 .. n - 1 |-> g[i + 1]]
<1>4. h \in [0 .. n - 1 -> Trees] /\ \A i \in 0 .. n - 1 : h[i] = g[i + 1]
  BY <1>2, <1>3
<1> HIDE DEF h, n, e
<1>5. ASSUME NEW i \in 1 .. n - 1
      PROVE  Legal(h[i - 1], e[i]) /\ h[i] = After(h[i - 1], e[i])
  <2>1. i \in 0 .. n - 1 /\ i - 1 \in 0 .. n - 1 /\ i + 1 \in 1 .. n /\ (i + 1) - 1 = i
        /\ (i - 1) + 1 = i
    BY <1>2
  <2>2. Legal(g[i], d[i + 1]) /\ g[i + 1] = After(g[i], d[i + 1])
    BY <1>1, <2>1 DEF Leads, n
  <2> QED
    BY <1>2, <1>4, <2>1, <2>2
<1>6. Leads(h, e)
  BY <1>2, <1>4, <1>5 DEF Leads
<1>7. h[0] = After(V, d[1]) /\ h[Len(e)] = U
  <2>1. 0 \in 0 .. n - 1 /\ n - 1 \in 0 .. n - 1 /\ (n - 1) + 1 = n
    BY <1>2
  <2> QED
    BY <1>1, <1>2, <1>3, <1>4, <2>1
<1> QED
  BY <1>2, <1>3, <1>6, <1>7 DEF Path, e

LEMMA PathNil ==
    ASSUME NEW V \in Trees
    PROVE  Path(V, <<>>, V)
<1> DEFINE g == [i \in 0 .. 0 |-> V]
<1>1. g[0] = V /\ g \in [0 .. 0 -> Trees] /\ Len(<<>>) = 0
  OBVIOUS
<1> HIDE DEF g
<1>2. Leads(g, <<>>)
  BY <1>1 DEF Leads
<1> QED
  BY <1>1, <1>2 DEF Path

LEMMA PathTyped ==
    ASSUME NEW V, NEW d \in Seq(Messages), NEW U, Path(V, d, U)
    PROVE  V \in Trees /\ U \in Trees /\ (d = <<>> => U = V)
<1>1. PICK g : Leads(g, d) /\ g[0] = V /\ g[Len(d)] = U
  BY DEF Path
<1>2. Len(d) \in Nat /\ (d = <<>> => Len(d) = 0)
  OBVIOUS
<1> QED
  BY <1>1, <1>2 DEF Leads

\* The ids that messages mention, spawn, give to an owner and destroy.
Mentions(d) == {d[i].id : i \in DOMAIN d}
Spawns(d) == {d[i].id : i \in {j \in DOMAIN d : d[j].type = "spawn"}}
Given(d) == {d[i].id : i \in {j \in DOMAIN d : d[j].type = "take"}}
Destroys(d) == {d[i].id : i \in {j \in DOMAIN d : d[j].type = "destroy"}}
\* Nothing that has been destroyed is spawned again.
Fresh(d) ==
    \A i, j \in DOMAIN d :
       i < j /\ d[i].type = "destroy" /\ d[j].type = "spawn" => d[i].id # d[j].id

\* An object that is there and will not be is destroyed on the way.
LEMMA PathGone ==
    ASSUME NEW V, NEW d \in Seq(Messages), NEW U, Path(V, d, U),
           NEW x \in Ids, V[x] # Gone, U[x] = Gone
    PROVE  x \in Destroys(d)
<1> SUFFICES ASSUME x \notin Destroys(d) PROVE FALSE
  OBVIOUS
<1> DEFINE n == Len(d)
<1>1. PICK g : Leads(g, d) /\ g[0] = V /\ g[n] = U
  BY DEF Path
<1>2. n \in Nat /\ DOMAIN d = 1 .. n /\ \A i \in 1 .. n : d[i] \in Messages
  OBVIOUS
<1> HIDE DEF n
<1> DEFINE Q == {i \in 0 .. n : g[i][x] # Gone}
<1>3. 0 \in Q
  BY <1>1, <1>2
<1>4. ASSUME NEW i \in 1 .. n, i - 1 \in Q PROVE i \in Q
  <2> DEFINE r == g[i - 1]
             m == d[i]
  <2>1. /\ r \in Trees /\ g[i] = After(r, m) /\ m \in Messages /\ r[x] # Gone
        /\ i \in 0 .. n
    <3>1. i - 1 \in 0 .. n
      BY <1>2
    <3> QED
      BY <1>1, <1>2, <1>4, <3>1 DEF Leads, n
  <2>2. m.type = "destroy" => m.id # x
    BY <1>2 DEF Destroys
  <2> HIDE DEF r, m
  <2>3. g[i][x] # Gone
    <3>1. CASE m.id = x
      <4>1. Becoming(m) # Gone
        BY <2>1, <2>2, <3>1, MessageFacts, GoneFact DEF Becoming
      <4> QED
        BY <2>1, <3>1, <4>1, AfterTyped
    <3>2. CASE m.id # x
      BY <2>1, <3>2, AfterTyped
    <3> QED
      BY <3>1, <3>2
  <2> QED
    BY <2>1, <2>3
<1>5. n \in Q
  <2> HIDE DEF Q
  <2> QED
    BY <1>2, <1>3, <1>4, StepByStep
<1> QED
  BY <1>1, <1>5

\* x is held by nobody.
Dropped(V, x) == [V EXCEPT ![x] = NoID]

\* The client refuses an item that its owner's message gives it.  Either a later
\* message takes the item away from that owner, and the trees meet again, or the
\* item is all they differ in.
LEMMA PathRefused ==
    ASSUME NEW V, NEW d \in Seq(Messages), NEW U, Path(V, d, U),
           NEW x \in Ids, NEW p \in Ids, V[x] = p
    PROVE  \/ Path(Dropped(V, x), d, U)
           \/ U[x] = p /\ Path(Dropped(V, x), d, Dropped(U, x))
<1> DEFINE n == Len(d)
           R == [V EXCEPT ![x] = NoID]
           W == [U EXCEPT ![x] = NoID]
<1>1. PICK g : Leads(g, d) /\ g[0] = V /\ g[n] = U
  BY DEF Path
<1>2. /\ n \in Nat /\ \A i \in 1 .. n : d[i] \in Messages
      /\ 0 \in 0 .. n /\ n \in 0 .. n
  OBVIOUS
<1>3. /\ g \in [0 .. n -> Trees] /\ p # NoID /\ p # Gone
      /\ \A i \in 1 .. n : Legal(g[i - 1], d[i]) /\ g[i] = After(g[i - 1], d[i])
  BY <1>1, IdFacts, GoneFact DEF Leads
<1> DEFINE Held(i) == \A j \in 0 .. i : g[j][x] = p
           h == [i \in 0 .. n |-> IF Held(i) THEN [g[i] EXCEPT ![x] = NoID] ELSE g[i]]
<1>4. \A i \in 0 .. n : h[i] = IF Held(i) THEN [g[i] EXCEPT ![x] = NoID] ELSE g[i]
  OBVIOUS
<1>5. h \in [0 .. n -> Trees]
  <2>1. \A i \in 0 .. n : g[i] \in Trees /\ [g[i] EXCEPT ![x] = NoID] \in Trees
    BY <1>3 DEF Trees
  <2> HIDE DEF Held
  <2> QED
    BY <2>1
<1> HIDE DEF h, n
<1>6. ASSUME NEW i \in 1 .. n
      PROVE  Legal(h[i - 1], d[i]) /\ h[i] = After(h[i - 1], d[i])
  <2> DEFINE r == g[i - 1]
             m == d[i]
  <2>1. /\ r \in Trees /\ m \in Messages /\ Legal(r, m) /\ g[i] = After(r, m)
        /\ i - 1 \in 0 .. n /\ i \in 0 .. n
    BY <1>2, <1>3
  <2>2. Held(i) <=> Held(i - 1) /\ g[i][x] = p
    <3>1. \A j : j \in 0 .. i <=> j \in 0 .. i - 1 \/ j = i
      BY <2>1
    <3> QED
      BY <3>1
  <2>3. Held(i - 1) => r[x] = p
    BY <1>2, <2>1
  <2> HIDE DEF Held
  <2>4. CASE ~Held(i - 1)
    BY <1>4, <2>1, <2>2, <2>4
  <2>5. CASE Held(i - 1) /\ m.id = x
    <3>1. m.type = "reject" /\ g[i][x] = NoID
      <4>1. m.type = "reject"
        BY <1>3, <2>1, <2>3, <2>5, MessageFacts DEF Legal
      <4>2. Becoming(m) = NoID
        BY <4>1 DEF Becoming
      <4> QED
        BY <2>1, <2>5, <4>1, <4>2, AfterTyped
    <3>2. ~Held(i) /\ h[i] = After(r, m) /\ h[i - 1] = [r EXCEPT ![x] = NoID]
      BY <1>3, <1>4, <2>1, <2>2, <2>5, <3>1
    <3>3. Legal(h[i - 1], m)
      BY <2>1, <2>5, <3>1, <3>2 DEF Legal, Trees
    <3>4. After(h[i - 1], m) = After(r, m)
      BY <2>1, <2>5, <3>2 DEF After, Trees
    <3> QED
      BY <3>2, <3>3, <3>4
  <2>6. CASE Held(i - 1) /\ m.id # x
    <3>0. m.id \in Ids /\ r \in Trees /\ m \in Messages /\ g[i] = After(r, m) /\ r[x] = p
          /\ x # m.id
      BY <2>1, <2>3, <2>6, MessageFacts
    <3> HIDE DEF r, m
    <3>9. g[i][x] = p
      BY <3>0, AfterTyped
    <3> USE DEF r, m
    <3>1. Held(i) /\ m.id \in Ids
      BY <2>2, <2>6, <3>0, <3>9
    <3>2. h[i] = [After(r, m) EXCEPT ![x] = NoID] /\ h[i - 1] = [r EXCEPT ![x] = NoID]
      BY <1>4, <2>1, <2>6, <3>1
    <3>3. \A y \in Ids : y # x => h[i - 1][y] = r[y]
      BY <2>1, <3>2 DEF Trees
    <3>4. h[i - 1][x] = NoID /\ r[x] = p
      BY <2>1, <2>3, <2>6, <3>2 DEF Trees
    <3>5. Legal(h[i - 1], m)
      <4>1. /\ h[i - 1][m.id] = r[m.id]
            /\ m.dest # NoID => (r[m.dest] # Gone => h[i - 1][m.dest] # Gone)
            /\ \A y \in Ids : r[y] # m.id => h[i - 1][y] # m.id
        BY <2>1, <2>6, <3>1, <3>3, <3>4, IdFacts, GoneFact, MessageFacts
      <4> QED
        BY <2>1, <4>1 DEF Legal
    <3>6. h[i] = After(h[i - 1], m)
      <4> DEFINE b == Becoming(m)
      <4>1. [[r EXCEPT ![m.id] = b] EXCEPT ![x] = NoID] = [[r EXCEPT ![x] = NoID] EXCEPT ![m.id] = b]
        <5> HIDE DEF b
        <5> QED
          BY <2>1, <2>6, <3>1 DEF Trees
      <4> QED
        BY <3>2, <4>1 DEF After
    <3> QED
      BY <3>5, <3>6
  <2> QED
    BY <2>4, <2>5, <2>6
<1>7. Leads(h, d)
  BY <1>5, <1>6 DEF Leads, n
<1>8. h[0] = R
  <2>1. 0 .. 0 = {0}
    OBVIOUS
  <2>2. Held(0)
    BY <1>1, <2>1
  <2> HIDE DEF Held
  <2> QED
    BY <1>1, <1>2, <1>4, <2>2
<1>9. h[n] = U \/ (U[x] = p /\ h[n] = W)
  <2>1. Held(n) => g[n][x] = p
    BY <1>2
  <2> HIDE DEF Held
  <2> QED
    BY <1>1, <1>2, <1>4, <2>1
<1> QED
  BY <1>7, <1>8, <1>9 DEF Path, Dropped, n

-----------------------------------------------------------------------------
(* Replay() of a tree's view *)

ViewOf(V) ==
    [x \in Ids |-> IF V[x] = Gone THEN "gone" ELSE IF V[x] = NoID THEN "root" ELSE V[x]]

\* What the view of m's object becomes.
Viewed(m) ==
    IF m.type = "destroy" THEN "gone"
    ELSE IF m.type = "reject" \/ m.dest = NoID THEN "root" ELSE m.dest

LEMMA ReplayOne ==
    ASSUME NEW v, NEW m \in Messages
    PROVE  Mirror!Replay(v, m) = [v EXCEPT ![m.id] = Viewed(m)]
BY MessageFacts DEF Mirror!Replay, Viewed

LEMMA ViewedAfter ==
    ASSUME NEW V \in Trees, NEW m \in Messages
    PROVE  /\ ViewOf(After(V, m))[m.id] = Viewed(m)
           /\ \A y \in Ids : y # m.id => ViewOf(After(V, m))[y] = ViewOf(V)[y]
BY MessageFacts, AfterTyped, GoneFact DEF ViewOf, Becoming, Viewed

LEMMA ReplayAfter ==
    ASSUME NEW V \in Trees, NEW m \in Messages
    PROVE  Mirror!Replay(ViewOf(V), m) = ViewOf(After(V, m))
<1> DEFINE v == ViewOf(V)
           w == ViewOf(After(V, m))
<1>1. Mirror!Replay(v, m) = [v EXCEPT ![m.id] = Viewed(m)]
  BY ReplayOne
<1>2. w[m.id] = Viewed(m) /\ \A y \in Ids : y # m.id => w[y] = v[y]
  BY ViewedAfter
<1>3. DOMAIN v = Ids /\ m.id \in Ids /\ w = [y \in Ids |-> w[y]] /\ v = [y \in Ids |-> v[y]]
  BY MessageFacts DEF ViewOf
<1> HIDE DEF v, w
<1>4. [v EXCEPT ![m.id] = Viewed(m)] = w
  BY <1>2, <1>3
<1> QED
  BY <1>1, <1>4 DEF v, w

\* Those of the ids T are shown as in the tree V, all others as in the view w.
Partly(V, T, w) == [y \in Ids |-> IF y \in T THEN ViewOf(V)[y] ELSE w[y]]

LEMMA PartlyReplayed ==
    ASSUME NEW V \in Trees, NEW m \in Messages, NEW T, NEW w
    PROVE  Mirror!Replay(Partly(V, T, w), m) = Partly(After(V, m), T \union {m.id}, w)
<1> DEFINE a == Partly(V, T, w)
           b == Partly(After(V, m), T \union {m.id}, w)
<1>1. Mirror!Replay(a, m) = [a EXCEPT ![m.id] = Viewed(m)]
  BY ReplayOne
<1>2. m.id \in Ids /\ DOMAIN a = Ids /\ DOMAIN b = Ids /\ a = [y \in Ids |-> a[y]]
      /\ b = [y \in Ids |-> b[y]]
  BY MessageFacts DEF Partly
<1>3. b[m.id] = Viewed(m)
  BY <1>2, ViewedAfter DEF Partly
<1>4. \A y \in Ids : y # m.id => b[y] = a[y]
  BY ViewedAfter DEF Partly
<1> HIDE DEF a, b
<1>5. [a EXCEPT ![m.id] = Viewed(m)] = b
  BY <1>2, <1>3, <1>4
<1> QED
  BY <1>1, <1>5 DEF a, b

\* Views that follow from one another solve the recursion of Replayed().
LEMMA ReplayedIs ==
    ASSUME NEW v, NEW d \in Seq(Messages), NEW f, f = [i \in 0 .. Len(d) |-> f[i]], f[0] = v,
           \A i \in 1 .. Len(d) : f[i] = Mirror!Replay(f[i - 1], d[i])
    PROVE  Mirror!Replayed(v, d) = f[Len(d)]
<1> DEFINE n == Len(d)
           Solves(h) == h = [i \in 0 .. n |-> IF i = 0 THEN v ELSE Mirror!Replay(h[i - 1], d[i])]
           c == CHOOSE h : Solves(h)
<1>2. /\ n \in Nat /\ \A i \in 1 .. n : i \in 0 .. n /\ i - 1 \in 0 .. n
      /\ 0 \in 0 .. n /\ n \in 0 .. n
  OBVIOUS
<1>5. Solves(f)
  <2> DEFINE e == [i \in 0 .. n |-> IF i = 0 THEN v ELSE Mirror!Replay(f[i - 1], d[i])]
  <2>1. \A i \in 0 .. n : e[i] = f[i]
    <3> SUFFICES ASSUME NEW i \in 0 .. n PROVE e[i] = f[i]
      OBVIOUS
    <3>1. CASE i = 0
      BY <3>1
    <3>2. CASE i # 0
      <4>1. i \in 1 .. n
        BY <1>2, <3>2
      <4> QED
        BY <3>2, <4>1
    <3> QED
      BY <3>1, <3>2
  <2>2. e = f
    BY <2>1
  <2> QED
    BY <2>2
<1>6. Solves(c)
  <2> HIDE DEF Solves
  <2> QED
    BY <1>5
<1>7. Mirror!Replayed(v, d) = c[n]
  BY DEF Mirror!Replayed
<1>8. c[0] = v /\ \A i \in 1 .. n : c[i] = Mirror!Replay(c[i - 1], d[i])
  <2> HIDE DEF c, n
  <2> QED
    BY <1>2, <1>6
<1> HIDE DEF c, Solves
<1> DEFINE Q == {i \in 0 .. n : c[i] = f[i]}
<1>9. 0 \in Q
  BY <1>2, <1>8
<1>10. ASSUME NEW i \in 1 .. n, i - 1 \in Q PROVE i \in Q
  BY <1>2, <1>8, <1>10
<1>11. n \in Q
  <2> HIDE DEF Q
  <2> QED
    BY <1>2, <1>9, <1>10, StepByStep
<1> QED
  BY <1>7, <1>11

\* The messages on a path turn the view of its first tree into that of its last.
LEMMA PathReplays ==
    ASSUME NEW V, NEW d \in Seq(Messages), NEW U, Path(V, d, U)
    PROVE  Mirror!Replayed(ViewOf(V), d) = ViewOf(U)
<1> DEFINE n == Len(d)
<1>1. PICK g : Leads(g, d) /\ g[0] = V /\ g[n] = U
  BY DEF Path
<1>2. /\ n \in Nat /\ \A i \in 1 .. n : d[i] \in Messages /\ i \in 0 .. n /\ i - 1 \in 0 .. n
      /\ 0 \in 0 .. n /\ n \in 0 .. n
  OBVIOUS
<1> DEFINE f == [i \in 0 .. n |-> ViewOf(g[i])]
<1>3. ASSUME NEW i \in 1 .. n PROVE f[i] = Mirror!Replay(f[i - 1], d[i])
  <2>1. g[i - 1] \in Trees /\ g[i] = After(g[i - 1], d[i])
    BY <1>1, <1>2 DEF Leads
  <2>2. Mirror!Replay(ViewOf(g[i - 1]), d[i]) = ViewOf(g[i])
    BY <1>2, <2>1, ReplayAfter
  <2>3. f[i] = ViewOf(g[i]) /\ f[i - 1] = ViewOf(g[i - 1])
    BY <1>2
  <2> QED
    BY <2>2, <2>3
<1>4. f[0] = ViewOf(V) /\ f[n] = ViewOf(U) /\ f = [i \in 0 .. n |-> f[i]]
  BY <1>1, <1>2
<1> HIDE DEF f
<1> QED
  BY <1>3, <1>4, ReplayedIs

LEMMA PathSplit ==
    ASSUME NEW V, NEW a \in Seq(Messages), NEW b \in Seq(Messages), NEW U, Path(V, a \o b, U)
    PROVE  \E M : Path(V, a, M) /\ Path(M, b, U)
<1> DEFINE k == Len(a)
           n == Len(b)
           d == a \o b
<1>1. PICK g : Leads(g, d) /\ g[0] = V /\ g[Len(d)] = U
  BY DEF Path
<1>2. /\ k \in Nat /\ n \in Nat /\ Len(d) = k + n
      /\ \A i \in 1 .. k : d[i] = a[i]
      /\ \A i \in 1 .. n : d[k + i] = b[i]
  OBVIOUS
<1> HIDE DEF k, n, d
<1>3. /\ g \in [0 .. k + n -> Trees]
      /\ \A i \in 1 .. k + n : Legal(g[i - 1], d[i]) /\ g[i] = After(g[i - 1], d[i])
  BY <1>1, <1>2 DEF Leads
<1>4. Path(V, a, g[k])
  <2> DEFINE h == [i \in 0 .. k |-> g[i]]
  <2>1. h \in [0 .. k -> Trees] /\ h[0] = V /\ h[k] = g[k]
    BY <1>1, <1>2, <1>3
  <2>2. ASSUME NEW i \in 1 .. k PROVE Legal(h[i - 1], a[i]) /\ h[i] = After(h[i - 1], a[i])
    <3>1. i \in 1 .. k + n /\ h[i] = g[i] /\ h[i - 1] = g[i - 1] /\ d[i] = a[i]
      BY <1>2
    <3> HIDE DEF h
    <3> QED
      BY <1>3, <3>1
  <2> HIDE DEF h
  <2>3. Leads(h, a)
    BY <2>1, <2>2 DEF Leads, k
  <2> QED
    BY <2>1, <2>3 DEF Path, k
<1>5. Path(g[k], b, U)
  <2> DEFINE h == [i \in 0 .. n |-> g[k + i]]
  <2>1. h \in [0 .. n -> Trees] /\ h[0] = g[k] /\ h[n] = U
    BY <1>1, <1>2, <1>3
  <2>2. ASSUME NEW i \in 1 .. n PROVE Legal(h[i - 1], b[i]) /\ h[i] = After(h[i - 1], b[i])
    <3>1. /\ k + i \in 1 .. k + n /\ k + (i - 1) = (k + i) - 1 /\ d[k + i] = b[i]
          /\ i \in 0 .. n /\ i - 1 \in 0 .. n
      BY <1>2
    <3>2. h[i] = g[k + i] /\ h[i - 1] = g[k + (i - 1)]
      BY <3>1
    <3>3. h[i - 1] = g[(k + i) - 1]
      BY <3>1, <3>2
    <3> HIDE DEF h
    <3> QED
      BY <1>3, <3>1, <3>2, <3>3
  <2> HIDE DEF h
  <2>3. Leads(h, b)
    BY <2>1, <2>2 DEF Leads, n
  <2> QED
    BY <2>1, <2>3 DEF Path, n
<1> QED
  BY <1>4, <1>5

\* Messages behind those of a path tell what changes after its end.
LEMMA PathGoesOn ==
    ASSUME NEW V, NEW a \in Seq(Messages), NEW b \in Seq(Messages), NEW U, NEW T,
           Path(V, a, U), Path(V, a \o b, T)
    PROVE  ViewOf(T) = Mirror!Replayed(ViewOf(U), b)
<1>1. PICK M : Path(V, a, M) /\ Path(M, b, T)
  BY PathSplit
<1>2. ViewOf(M) = Mirror!Replayed(ViewOf(V), a) /\ ViewOf(U) = Mirror!Replayed(ViewOf(V), a)
  BY <1>1, PathReplays
<1>3. ViewOf(T) = Mirror!Replayed(ViewOf(M), b)
  BY <1>1, PathReplays
<1> QED
  BY <1>2, <1>3

-----------------------------------------------------------------------------
(* What the client could not create.  It shows the tree without the objects   *)
(* whose net_Spawn() has failed, and what they should hold lies around.       *)

Hiding(H, F) == [x \in Ids |-> IF x \in F THEN Gone ELSE IF H[x] \in F THEN NoID ELSE H[x]]

LEMMA HidingFacts ==
    ASSUME NEW H \in Trees, NEW F \in SUBSET Ids
    PROVE  /\ Hiding(H, F) \in Trees
           /\ \A x \in Ids : /\ x \in F => Hiding(H, F)[x] = Gone
                             /\ x \notin F /\ H[x] \in F => Hiding(H, F)[x] = NoID
                             /\ x \notin F /\ H[x] \notin F => Hiding(H, F)[x] = H[x]
           /\ Hiding(H, {}) = H
<1>1. \A x \in Ids : H[x] \in Ids \union {NoID, Gone}
  BY DEF Trees
<1>2. H = [x \in Ids |-> H[x]]
  BY DEF Trees
<1> QED
  BY <1>1, <1>2 DEF Hiding, Trees

\* A message about an object that the client has.
LEMMA HidingAfter ==
    ASSUME NEW H \in Trees, NEW F \in SUBSET Ids, NEW m \in Messages, m.id \notin F
    PROVE  Hiding(After(H, m), F) =
             [Hiding(H, F) EXCEPT ![m.id] = IF Becoming(m) \in F THEN NoID ELSE Becoming(m)]
<1> DEFINE A == After(H, m)
           b == IF Becoming(m) \in F THEN NoID ELSE Becoming(m)
           h == Hiding(H, F)
           k == Hiding(A, F)
<1>1. A[m.id] = Becoming(m) /\ (\A y \in Ids : y # m.id => A[y] = H[y]) /\ m.id \in Ids
  BY AfterTyped, MessageFacts
<1> HIDE DEF A
<1>2. k[m.id] = b /\ \A y \in Ids : y # m.id => k[y] = h[y]
  BY <1>1 DEF Hiding
<1>3. k = [y \in Ids |-> k[y]] /\ h = [y \in Ids |-> h[y]]
  BY DEF Hiding
<1> HIDE DEF h, k, b
<1>4. k = [h EXCEPT ![m.id] = b]
  BY <1>1, <1>2, <1>3
<1> QED
  BY <1>4 DEF h, k, b, A

LEMMA HidingDropped ==
    ASSUME NEW H \in Trees, NEW F \in SUBSET Ids, NEW x \in Ids, x \notin F
    PROVE  Hiding(Dropped(H, x), F) = [Hiding(H, F) EXCEPT ![x] = NoID]
<1> DEFINE A == Dropped(H, x)
           h == Hiding(H, F)
           k == Hiding(A, F)
<1>1. A[x] = NoID /\ (\A y \in Ids : y # x => A[y] = H[y])
  BY DEF Dropped, Trees
<1> HIDE DEF A
<1>2. k[x] = NoID /\ \A y \in Ids : y # x => k[y] = h[y]
  BY <1>1, IdFacts DEF Hiding
<1>3. k = [y \in Ids |-> k[y]] /\ h = [y \in Ids |-> h[y]]
  BY DEF Hiding
<1> HIDE DEF h, k
<1>4. k = [h EXCEPT ![x] = NoID]
  BY <1>2, <1>3
<1> QED
  BY <1>4 DEF h, k, A

\* A message about one that it could not create is not seen.
LEMMA HidingUnseen ==
    ASSUME NEW H \in Trees, NEW F \in SUBSET Ids, NEW m \in Messages, m.id \in F
    PROVE  Hiding(After(H, m), F) = Hiding(H, F)
<1>1. \A y \in Ids : y # m.id => After(H, m)[y] = H[y]
  BY AfterTyped
<1> QED
  BY <1>1 DEF Hiding

\* An object is not created that nobody shows.
LEMMA HidingMore ==
    ASSUME NEW H \in Trees, NEW F \in SUBSET Ids, NEW m \in Messages,
           Hiding(H, F)[m.id] = Gone, \A y \in Ids : Hiding(H, F)[y] # m.id
    PROVE  Hiding(After(H, m), F \union {m.id}) = Hiding(H, F)
<1> DEFINE A == After(H, m)
           h == Hiding(H, F)
           G == F \union {m.id}
<1>1. /\ A \in Trees /\ m.id \in Ids /\ G \in SUBSET Ids
      /\ \A y \in Ids : y # m.id => A[y] = H[y]
  BY AfterTyped, MessageFacts
<1>2. /\ \A y \in Ids : /\ y \in F => h[y] = Gone
                        /\ y \notin F /\ H[y] \in F => h[y] = NoID
                        /\ y \notin F /\ H[y] \notin F => h[y] = H[y]
      /\ h = [y \in Ids |-> h[y]] /\ h[m.id] = Gone /\ \A y \in Ids : h[y] # m.id
  BY HidingFacts DEF Hiding
<1> HIDE DEF A, h
<1>3. \A y \in Ids : Hiding(A, G)[y] = h[y]
  BY <1>1, <1>2 DEF Hiding
<1>4. Hiding(A, G) = h
  BY <1>2, <1>3 DEF Hiding
<1> QED
  BY <1>4 DEF A, h

\* One that was not created is destroyed.
LEMMA HidingLess ==
    ASSUME NEW H \in Trees, NEW F \in SUBSET Ids, NEW m \in Messages, m.type = "destroy",
           m.id \in F, \A y \in Ids : H[y] # m.id
    PROVE  Hiding(After(H, m), F \ {m.id}) = Hiding(H, F)
<1>1. /\ \A y \in Ids : y # m.id => After(H, m)[y] = H[y]
      /\ After(H, m)[m.id] = Gone /\ Gone \notin F
  BY AfterTyped, GoneFact DEF Becoming
<1> QED
  BY <1>1 DEF Hiding

\* A message is handled: the view is replayed, but for what could not be created.
LEMMA HandledView ==
    ASSUME NEW H \in Trees, NEW F \in SUBSET Ids, NEW m \in Messages,
           m.type = "destroy" => \A y \in Ids : H[y] # m.id,
           NEW G, G = IF m.type = "destroy" THEN F \ {m.id} ELSE F
    PROVE  ViewOf(Hiding(After(H, m), G)) =
             Mirror!Without(Mirror!Replay(ViewOf(Hiding(H, F)), m), G)
<1> DEFINE A == After(H, m)
           h == Hiding(H, F)
           k == Hiding(A, G)
           v == ViewOf(h)
           r == Mirror!Replay(v, m)
           w == Mirror!Without(r, G)
<1>1. /\ A \in Trees /\ G \in SUBSET Ids /\ m.id \in Ids
      /\ A[m.id] = Becoming(m) /\ \A y \in Ids : y # m.id => A[y] = H[y]
  BY AfterTyped, MessageFacts
<1>2. /\ r[m.id] = Viewed(m) /\ \A y \in Ids : y # m.id => r[y] = v[y]
      /\ DOMAIN r = Ids
  <2>1. r = [v EXCEPT ![m.id] = Viewed(m)] /\ DOMAIN v = Ids
    BY ReplayOne DEF ViewOf
  <2> HIDE DEF v, r
  <2> QED
    BY <1>1, <2>1
<1>3. \A y \in Ids : v[y] = IF h[y] = Gone THEN "gone" ELSE IF h[y] = NoID THEN "root" ELSE h[y]
  BY DEF ViewOf
<1>4. \A y \in Ids : /\ y \in F => h[y] = Gone
                     /\ y \notin F /\ H[y] \in F => h[y] = NoID
                     /\ y \notin F /\ H[y] \notin F => h[y] = H[y]
  BY HidingFacts
<1>5. \A y \in Ids : /\ y \in G => k[y] = Gone
                     /\ y \notin G /\ A[y] \in G => k[y] = NoID
                     /\ y \notin G /\ A[y] \notin G => k[y] = A[y]
  BY <1>1, HidingFacts
<1>6. w = [y \in Ids |-> w[y]]
      /\ \A y \in Ids : w[y] = IF y \in G THEN "gone" ELSE IF r[y] \in G THEN "root" ELSE r[y]
  BY <1>2 DEF Mirror!Without
<1>7. "gone" \notin Ids /\ "root" \notin Ids /\ Gone \notin Ids /\ NoID \notin Ids /\ NoID # Gone
  BY NamesAssumption, GoneFact, IdFacts
<1>8. /\ Viewed(m) = IF Becoming(m) = Gone THEN "gone"
                     ELSE IF Becoming(m) = NoID THEN "root" ELSE Becoming(m)
      /\ m.type = "destroy" => Becoming(m) = Gone
  BY <1>7, MessageFacts DEF Viewed, Becoming
<1> HIDE DEF A, h, k, v, r, w
<1>9. ASSUME NEW y \in Ids PROVE ViewOf(k)[y] = w[y]
  <2>1. ViewOf(k)[y] = IF k[y] = Gone THEN "gone" ELSE IF k[y] = NoID THEN "root" ELSE k[y]
    BY DEF ViewOf
  <2>2. CASE y \in G
    BY <1>5, <1>6, <2>1, <2>2
  <2>3. CASE y \notin G /\ y = m.id
    <3>1. r[y] = Viewed(m) /\ A[y] = Becoming(m)
      BY <1>1, <1>2, <2>3
    <3>2. CASE Becoming(m) \in G
      <4>1. Becoming(m) \in Ids /\ Viewed(m) = Becoming(m)
        BY <1>1, <1>7, <1>8, <3>2
      <4> QED
        BY <1>5, <1>6, <1>7, <2>1, <2>3, <3>1, <3>2, <4>1
    <3>3. CASE Becoming(m) \notin G
      <4>1. k[y] = Becoming(m)
        BY <1>5, <2>3, <3>1, <3>3
      <4>2. Viewed(m) \notin G
        BY <1>1, <1>7, <1>8, <3>3
      <4> QED
        BY <1>6, <1>8, <2>1, <2>3, <3>1, <4>1, <4>2
    <3> QED
      BY <3>2, <3>3
  <2>4. CASE y \notin G /\ y # m.id
    <3>1. y \notin F /\ r[y] = v[y] /\ A[y] = H[y] /\ (H[y] \in F <=> H[y] \in G)
      <4>1. H[y] = m.id => m.type # "destroy"
        OBVIOUS
      <4> QED
        BY <1>1, <1>2, <2>4, <4>1
    <3>2. CASE H[y] \in F
      <4>1. h[y] = NoID /\ v[y] = "root"
        BY <1>3, <1>4, <1>7, <3>1, <3>2
      <4>2. k[y] = NoID
        BY <1>5, <2>4, <3>1, <3>2
      <4> QED
        BY <1>1, <1>6, <1>7, <2>1, <2>4, <3>1, <4>1, <4>2
    <3>3. CASE H[y] \notin F
      <4>1. h[y] = H[y] /\ k[y] = H[y]
        BY <1>4, <1>5, <2>4, <3>1, <3>3
      <4>2. v[y] \notin G
        BY <1>1, <1>3, <1>7, <3>1, <3>3, <4>1
      <4> QED
        BY <1>3, <1>6, <2>1, <2>4, <3>1, <4>1, <4>2
    <3> QED
      BY <3>2, <3>3
  <2> QED
    BY <2>2, <2>3, <2>4
<1>10. ViewOf(k) = w
  BY <1>6, <1>9 DEF ViewOf
<1> QED
  BY <1>10 DEF A, h, k, v, r, w

\* What holds along a path holds on all the way.
LEMMA AllSteps ==
    ASSUME NEW n \in Nat, NEW Q, 0 \in Q, \A i \in 1 .. n : i - 1 \in Q => i \in Q
    PROVE  \A i \in 0 .. n : i \in Q
<1> SUFFICES ASSUME NEW k \in 0 .. n PROVE k \in Q
  OBVIOUS
<1>1. k \in Nat /\ \A i \in 1 .. k : i \in 1 .. n
  OBVIOUS
<1> QED
  BY <1>1, StepByStep

\* An object that no message mentions stays where it is, and so does its owner.
LEMMA Unmentioned ==
    ASSUME NEW V, NEW d \in Seq(Messages), NEW U, Path(V, d, U),
           NEW y \in Ids, y \notin Mentions(d)
    PROVE  U[y] = V[y] /\ V[y] \notin Destroys(d)
<1> DEFINE n == Len(d)
<1>1. PICK g : Leads(g, d) /\ g[0] = V /\ g[n] = U
  BY DEF Path
<1>2. /\ n \in Nat /\ DOMAIN d = 1 .. n /\ n \in 0 .. n
      /\ \A i \in 1 .. n : d[i] \in Messages /\ i \in 0 .. n /\ i - 1 \in 0 .. n
  OBVIOUS
<1>3. \A i \in 1 .. n : /\ g[i - 1] \in Trees /\ Legal(g[i - 1], d[i])
                        /\ g[i] = After(g[i - 1], d[i])
  BY <1>1, <1>2 DEF Leads
<1>4. \A i \in 1 .. n : d[i].id # y
  BY <1>2 DEF Mentions
<1> HIDE DEF n
<1> DEFINE Q == {i \in 0 .. n : g[i][y] = V[y]}
<1>5. 0 \in Q
  BY <1>1, <1>2
<1>6. ASSUME NEW i \in 1 .. n, i - 1 \in Q PROVE i \in Q
  <2> DEFINE m == d[i]
             r == g[i - 1]
  <2>1. r \in Trees /\ m \in Messages /\ g[i] = After(r, m) /\ m.id # y
    BY <1>2, <1>3, <1>4
  <2>2. i \in 0 .. n /\ r[y] = V[y]
    BY <1>2, <1>6
  <2> HIDE DEF m, r
  <2>3. g[i][y] = r[y]
    BY <2>1, AfterTyped
  <2> QED
    BY <2>2, <2>3
<1>7. \A i \in 0 .. n : i \in Q
  <2> HIDE DEF Q
  <2> QED
    BY <1>2, <1>5, <1>6, AllSteps
<1>8. ASSUME NEW i \in 1 .. n, d[i].type = "destroy", d[i].id = V[y] PROVE FALSE
  <2>1. g[i - 1][y] # d[i].id
    BY <1>3, <1>8 DEF Legal
  <2> QED
    BY <1>2, <1>7, <1>8, <2>1
<1> QED
  BY <1>1, <1>2, <1>7, <1>8 DEF Destroys

\* Only what is there is given to an owner.
LEMMA PathGiven ==
    ASSUME NEW V, NEW d \in Seq(Messages), NEW U, Path(V, d, U),
           NEW x \in Ids, V[x] = Gone, x \notin Spawns(d)
    PROVE  x \notin Given(d)
<1> DEFINE n == Len(d)
<1>1. PICK g : Leads(g, d) /\ g[0] = V /\ g[n] = U
  BY DEF Path
<1>2. /\ n \in Nat /\ DOMAIN d = 1 .. n /\ n \in 0 .. n
      /\ \A i \in 1 .. n : d[i] \in Messages /\ i \in 0 .. n /\ i - 1 \in 0 .. n
  OBVIOUS
<1>3. \A i \in 1 .. n : /\ g[i - 1] \in Trees /\ Legal(g[i - 1], d[i])
                        /\ g[i] = After(g[i - 1], d[i])
  BY <1>1, <1>2 DEF Leads
<1>4. \A i \in 1 .. n : d[i].type = "spawn" => d[i].id # x
  BY <1>2 DEF Spawns
<1> HIDE DEF n
<1>5. ASSUME NEW i \in 1 .. n, g[i - 1][x] = Gone PROVE d[i].id # x
  <2> DEFINE m == d[i]
             r == g[i - 1]
  <2>1. /\ Legal(r, m) /\ m.dest \in Ids \union {NoID} /\ r[x] = Gone
        /\ m.type \in {"spawn", "take", "reject", "destroy"} /\ (m.type = "spawn" => m.id # x)
    BY <1>2, <1>3, <1>4, <1>5, MessageFacts
  <2> HIDE DEF m, r
  <2>2. m.id # x
    BY <2>1, GoneFact DEF Legal
  <2> QED
    BY <2>2 DEF m
<1> DEFINE Q == {i \in 0 .. n : g[i][x] = Gone}
<1>6. 0 \in Q
  BY <1>1, <1>2
<1>7. ASSUME NEW i \in 1 .. n, i - 1 \in Q PROVE i \in Q
  <2> DEFINE m == d[i]
             r == g[i - 1]
  <2>1. i \in 0 .. n /\ r[x] = Gone
    BY <1>2, <1>7
  <2>2. r \in Trees /\ m \in Messages /\ g[i] = After(r, m) /\ m.id # x
    BY <1>2, <1>3, <1>5, <2>1
  <2> HIDE DEF m, r
  <2>3. g[i][x] = r[x]
    BY <2>2, AfterTyped
  <2> QED
    BY <2>1, <2>3
<1>8. \A i \in 0 .. n : i \in Q
  <2> HIDE DEF Q
  <2> QED
    BY <1>2, <1>6, <1>7, AllSteps
<1>9. \A i \in 1 .. n : d[i].id # x
  BY <1>2, <1>5, <1>8
<1> QED
  BY <1>2, <1>9 DEF Given

\* The messages turn what is shown of the first tree into what can be shown of the
\* last: the objects F are not, until they are destroyed.
LEMMA HiddenReplays ==
    ASSUME NEW V, NEW d \in Seq(Messages), NEW U, Path(V, d, U),
           NEW F \in SUBSET Ids, NEW S, S = F \ Destroys(d)
    PROVE  Mirror!Without(Mirror!Replayed(ViewOf(Hiding(V, F)), d), S)
             = Mirror!Without(ViewOf(U), S)
<1> DEFINE n == Len(d)
           h == Hiding(V, F)
           w == ViewOf(h)
           Said(i) == {d[j].id : j \in 1 .. i}
<1>1. PICK g : Leads(g, d) /\ g[0] = V /\ g[n] = U
  BY DEF Path
<1>2. /\ n \in Nat /\ DOMAIN d = 1 .. n /\ 0 \in 0 .. n /\ n \in 0 .. n
      /\ \A i \in 1 .. n : d[i] \in Messages /\ i \in 0 .. n /\ i - 1 \in 0 .. n
  OBVIOUS
<1>3. \A i \in 1 .. n : g[i - 1] \in Trees /\ g[i] = After(g[i - 1], d[i])
  BY <1>1, <1>2 DEF Leads
<1>4. V \in Trees /\ U \in Trees
  BY PathTyped
<1> DEFINE f == [i \in 0 .. n |-> Partly(g[i], Said(i), w)]
<1>5. ASSUME NEW i \in 1 .. n PROVE f[i] = Mirror!Replay(f[i - 1], d[i])
  <2>1. Said(i) = Said(i - 1) \union {d[i].id}
    <3>1. \A j : j \in 1 .. i <=> j \in 1 .. i - 1 \/ j = i
      BY <1>2
    <3> QED
      BY <3>1
  <2>2. f[i] = Partly(g[i], Said(i), w) /\ f[i - 1] = Partly(g[i - 1], Said(i - 1), w)
    BY <1>2
  <2> HIDE DEF f, Said, w
  <2>3. Mirror!Replay(f[i - 1], d[i]) = Partly(After(g[i - 1], d[i]), Said(i - 1) \union {d[i].id}, w)
    BY <1>2, <1>3, <2>2, PartlyReplayed
  <2> QED
    BY <1>3, <2>1, <2>2, <2>3
<1>6. f[0] = w
  <2>1. Said(0) = {}
    OBVIOUS
  <2>2. f[0] = Partly(g[0], Said(0), w)
    BY <1>2
  <2>3. w = [y \in Ids |-> w[y]]
    BY DEF ViewOf
  <2> HIDE DEF f, Said, w
  <2> QED
    BY <2>1, <2>2, <2>3 DEF Partly
<1>7. Mirror!Replayed(w, d) = f[n]
  <2>1. f = [i \in 0 .. n |-> f[i]]
    OBVIOUS
  <2> HIDE DEF f, w
  <2> QED
    BY <1>5, <1>6, <2>1, ReplayedIs
<1>8. /\ \A y \in Ids : f[n][y] = IF y \in Said(n) THEN ViewOf(U)[y] ELSE w[y]
      /\ DOMAIN f[n] = Ids
  <2>1. f[n] = Partly(U, Said(n), w)
    BY <1>1, <1>2
  <2> HIDE DEF f, w, Said
  <2> QED
    BY <2>1 DEF Partly
<1>9. Said(n) = Mentions(d)
  BY <1>2 DEF Mentions
<1> DEFINE r == f[n]
           a == Mirror!Without(r, S)
           b == Mirror!Without(ViewOf(U), S)
<1>10. /\ a = [y \in Ids |-> a[y]] /\ b = [y \in Ids |-> b[y]]
       /\ \A y \in Ids : /\ a[y] = IF y \in S THEN "gone" ELSE IF r[y] \in S THEN "root" ELSE r[y]
                         /\ b[y] = IF y \in S THEN "gone"
                                   ELSE IF ViewOf(U)[y] \in S THEN "root" ELSE ViewOf(U)[y]
  <2>1. DOMAIN ViewOf(U) = Ids
    BY DEF ViewOf
  <2> HIDE DEF r
  <2> QED
    BY <1>8, <2>1 DEF Mirror!Without, r
<1>11. \A y \in Ids : /\ w[y] = IF h[y] = Gone THEN "gone" ELSE IF h[y] = NoID THEN "root" ELSE h[y]
                      /\ ViewOf(U)[y] = IF U[y] = Gone THEN "gone"
                                        ELSE IF U[y] = NoID THEN "root" ELSE U[y]
  BY DEF ViewOf
<1>12. \A y \in Ids : /\ y \in F => h[y] = Gone
                      /\ y \notin F /\ V[y] \in F => h[y] = NoID
                      /\ y \notin F /\ V[y] \notin F => h[y] = V[y]
  BY <1>4, HidingFacts
<1>13. "gone" \notin Ids /\ "root" \notin Ids /\ Gone \notin Ids /\ NoID \notin Ids /\ NoID # Gone
  BY NamesAssumption, GoneFact, IdFacts
<1> HIDE DEF f, w, h, Said, n, a, b
<1>14. ASSUME NEW y \in Ids PROVE a[y] = b[y]
  <2>1. CASE y \in S
    BY <1>10, <2>1
  <2>2. CASE y \notin S /\ y \in Mentions(d)
    <3>1. r[y] = ViewOf(U)[y]
      BY <1>8, <1>9, <2>2
    <3> HIDE DEF r
    <3> QED
      BY <1>10, <2>2, <3>1
  <2>3. CASE y \notin S /\ y \notin Mentions(d)
    <3>1. U[y] = V[y] /\ V[y] \notin Destroys(d)
      BY <2>3, Unmentioned
    <3>2. r[y] = w[y]
      BY <1>8, <1>9, <2>3
    <3>3. y \notin F
      <4>1. y \notin Destroys(d)
        BY <2>3 DEF Mentions, Destroys
      <4> QED
        BY <2>3, <4>1
    <3> HIDE DEF r
    <3>4. CASE V[y] \in F
      <4>1. V[y] \in S /\ V[y] \in Ids
        BY <3>1, <3>4
      <4>2. w[y] = "root" /\ ViewOf(U)[y] = V[y]
        BY <1>11, <1>12, <1>13, <3>1, <3>3, <3>4, <4>1
      <4>3. "root" \notin S
        BY <1>13
      <4>4. b[y] = "root" /\ a[y] = "root"
        BY <1>10, <2>3, <3>2, <4>1, <4>2, <4>3
      <4> QED
        BY <4>4
    <3>5. CASE V[y] \notin F
      <4>1. w[y] = ViewOf(U)[y]
        BY <1>11, <1>12, <3>1, <3>3, <3>5
      <4> QED
        BY <1>10, <2>3, <3>2, <4>1
    <3> QED
      BY <3>4, <3>5
  <2> QED
    BY <2>1, <2>2, <2>3
<1>15. a = b
  BY <1>10, <1>14
<1> QED
  BY <1>7, <1>15 DEF w, h, a, b

-----------------------------------------------------------------------------
(* What the server's handlers tell the client *)

LEMMA AppendFacts ==
    ASSUME NEW d \in Seq(Messages), NEW m \in Messages
    PROVE  /\ Mentions(Append(d, m)) = Mentions(d) \union {m.id}
           /\ Destroys(Append(d, m)) =
                Destroys(d) \union (IF m.type = "destroy" THEN {m.id} ELSE {})
           /\ Given(Append(d, m)) = Given(d) \union (IF m.type = "take" THEN {m.id} ELSE {})
           /\ (Fresh(d) /\ (m.type = "spawn" => m.id \notin Destroys(d))) => Fresh(Append(d, m))
<1> DEFINE n == Len(d)
           e == Append(d, m)
<1>1. /\ n \in Nat /\ DOMAIN d = 1 .. n /\ DOMAIN e = 1 .. n + 1 /\ e[n + 1] = m
      /\ \A i \in 1 .. n : e[i] = d[i]
      /\ \A i : i \in 1 .. n + 1 <=> i \in 1 .. n \/ i = n + 1
  OBVIOUS
<1> HIDE DEF n, e
<1>2. Mentions(e) = Mentions(d) \union {m.id}
  BY <1>1 DEF Mentions
<1>3. Destroys(e) = Destroys(d) \union (IF m.type = "destroy" THEN {m.id} ELSE {})
  BY <1>1 DEF Destroys
<1>5. Given(e) = Given(d) \union (IF m.type = "take" THEN {m.id} ELSE {})
  BY <1>1 DEF Given
<1>4. ASSUME Fresh(d), m.type = "spawn" => m.id \notin Destroys(d)
      PROVE  Fresh(e)
  <2> SUFFICES ASSUME NEW i \in DOMAIN e, NEW j \in DOMAIN e,
                      i < j, e[i].type = "destroy", e[j].type = "spawn"
               PROVE  e[i].id # e[j].id
    BY DEF Fresh
  <2>1. i \in 1 .. n
    BY <1>1
  <2>2. CASE j = n + 1
    BY <1>1, <1>4, <2>1, <2>2 DEF Destroys
  <2>3. CASE j # n + 1
    BY <1>1, <1>4, <2>1, <2>3 DEF Fresh
  <2> QED
    BY <2>2, <2>3
<1> QED
  BY <1>2, <1>3, <1>4, <1>5 DEF e

LEMMA ConcatAppend ==
    ASSUME NEW S, NEW a \in Seq(S), NEW b \in Seq(S), NEW e \in S
    PROVE  a \o Append(b, e) = Append(a \o b, e)
OBVIOUS

\* The objects that are online.
ServerTree(s) == [x \in Ids |-> IF s.ent[x].on = "online" THEN s.ent[x].parent ELSE Gone]

LEMMA ServerTreeFacts ==
    ASSUME NEW s \in ServerRecords
    PROVE  /\ ServerTree(s) \in Trees
           /\ \A x \in Ids : /\ ServerTree(s)[x] = Gone <=> s.ent[x].on # "online"
                             /\ s.ent[x].on = "online" => ServerTree(s)[x] = s.ent[x].parent
BY GoneFact DEF ServerTree, Trees, ServerRecords, EntityRecords

Age(s, x) == s.gen.age[Block(x)]

\* An id that has been given back stays out of use: those the client is still to
\* hear about since this frame, those in K since this frame or the one before.
Aged(s, K) ==
    \A x \in Ids : s.ent[x].on = "no" =>
       /\ x \in Mentions(s.out) => Age(s, x) = 0
       /\ x \in K => Age(s, x) <= 1

\* The root of x's tree.
Holder(s, x) == IF s.ent[x].parent = NoID THEN x ELSE s.ent[x].parent
\* x is gone, or offline until the next frame: W are the objects that have been
\* switched in this one.
Lost(s, x, W) ==
    s.ent[x].on = "no" \/ (s.ent[x].on = "offline" /\ Holder(s, x) \in W)
Dead(s, W) == \A x \in Destroys(s.out) : Lost(s, x, W)

\* Messages q, and then those still to be received, lead from the tree V to the
\* server's; K.spoken are the ids that the client knows of and those that q speaks
\* of, K.shown are those the client shows: only such objects are given to an owner.
Told(s, V, q, K, W) ==
    /\ Path(V, q \o s.out, ServerTree(s))
    /\ Aged(s, K.spoken) /\ Fresh(s.out) /\ Dead(s, W) /\ Given(s.out) \subseteq K.shown

\* No block looks older than it did.
AgesFall(s, t) == \A x \in Ids : Age(t, x) = Age(s, x) \/ Age(t, x) = 0
\* What has been sent stays sent.
Sends(s, t) ==
    s.out \in Seq(Messages) =>
       t.out \in Seq(Messages) /\ \E new \in Seq(Messages) : t.out = s.out \o new
\* Nor is an id taken, from s to t, whose block has been used lately.
Rested(s, t) ==
    /\ AgesFall(s, t) /\ Sends(s, t)
    /\ \A x \in Ids : s.ent[x].on = "no" /\ t.ent[x].on # "no" => Age(s, x) = MaxAge

\* From s to t, while the objects C are being switched, the server keeps telling
\* the client all it needs to know.
Follows(s, t, C) ==
    /\ Rested(s, t)
    /\ \A V, K, W : \A q \in Seq(Messages) :
          Told(s, V, q, K, W) /\ C \subseteq W => Told(t, V, q, K, W)

LEMMA Joined ==
    ASSUME NEW a \in Seq(Messages), NEW b \in Seq(Messages), NEW c \in Seq(Messages)
    PROVE  a \o (b \o c) = (a \o b) \o c /\ a \o b \in Seq(Messages)
<1> DEFINE M == Messages
<1>1. a \in Seq(M) /\ b \in Seq(M) /\ c \in Seq(M)
  OBVIOUS
<1> HIDE DEF M
<1>2. (a \o b) \o c = a \o (b \o c) /\ a \o b \in Seq(M)
  BY <1>1, ConcatAssociative
<1> QED
  BY <1>2 DEF M

LEMMA SendsTrans ==
    ASSUME NEW s, NEW t, NEW u, Sends(s, t), Sends(t, u)
    PROVE  Sends(s, u)
<1> SUFFICES ASSUME s.out \in Seq(Messages)
             PROVE  /\ u.out \in Seq(Messages)
                    /\ \E new \in Seq(Messages) : u.out = s.out \o new
  BY DEF Sends
<1>1. PICK a \in Seq(Messages) : t.out = s.out \o a
  BY DEF Sends
<1>2. t.out \in Seq(Messages)
  BY DEF Sends
<1>3. u.out \in Seq(Messages) /\ \E b \in Seq(Messages) : u.out = t.out \o b
  BY <1>2 DEF Sends
<1>4. PICK b \in Seq(Messages) : u.out = t.out \o b
  BY <1>3
<1>5. u.out = s.out \o (a \o b) /\ a \o b \in Seq(Messages)
  <2> DEFINE r == s.out
  <2>1. r \in Seq(Messages) /\ u.out = (r \o a) \o b
    BY <1>1, <1>4
  <2>2. a \o b \in Seq(Messages)
    BY Joined
  <2> HIDE DEF r
  <2>3. (r \o a) \o b = r \o (a \o b)
    BY <2>1, Joined
  <2> QED
    BY <2>1, <2>2, <2>3 DEF r
<1> QED
  BY <1>3, <1>5

LEMMA SendsSelf ==
    ASSUME NEW s, NEW t, t.out = s.out
    PROVE  Sends(s, t)
<1>1. s.out \in Seq(Messages) => s.out = s.out \o <<>>
  OBVIOUS
<1>2. <<>> \in Seq(Messages)
  OBVIOUS
<1> QED
  BY <1>1, <1>2 DEF Sends

LEMMA SendsOne ==
    ASSUME NEW s, NEW t, NEW m \in Messages, t.out = Append(s.out, m)
    PROVE  Sends(s, t)
<1>1. s.out \in Seq(Messages) =>
         Append(s.out, m) \in Seq(Messages) /\ Append(s.out, m) = s.out \o <<m>>
  BY DEF Messages
<1>2. <<m>> \in Seq(Messages)
  OBVIOUS
<1> QED
  BY <1>1, <1>2 DEF Sends

LEMMA RestedTrans ==
    ASSUME NEW s, NEW t, NEW u, Rested(s, t), Rested(t, u)
    PROVE  Rested(s, u)
BY AgeAssumption, SendsTrans DEF Rested, AgesFall

LEMMA FollowsTrans ==
    ASSUME NEW s, NEW t, NEW u, NEW C, Follows(s, t, C), Follows(t, u, C)
    PROVE  Follows(s, u, C)
<1>1. Rested(s, u)
  BY RestedTrans DEF Follows
<1> QED
  BY <1>1 DEF Follows

LEMMA FollowsSelf ==
    ASSUME NEW s, NEW C
    PROVE  Follows(s, s, C)
BY SendsSelf DEF Follows, Rested, AgesFall

LEMMA FollowsMore ==
    ASSUME NEW s, NEW t, NEW C, NEW D, Follows(s, t, C), C \subseteq D
    PROVE  Follows(s, t, D)
BY DEF Follows

LEMMA LostMore ==
    ASSUME NEW s, NEW x, NEW C, NEW W, Lost(s, x, C), C \subseteq W
    PROVE  Lost(s, x, W)
BY DEF Lost

\* Entities other than x stay on their side and with their parent.
Elsewhere(s, t, x) ==
    \A y \in Ids \ {x} : t.ent[y].on = s.ent[y].on /\ t.ent[y].parent = s.ent[y].parent

\* A message is sent about what becomes of its object.
Speaks(s, t, m) ==
    /\ t.out = Append(s.out, m) /\ Elsewhere(s, t, m.id) /\ AgesFall(s, t)
    /\ Legal(ServerTree(s), m) /\ ServerTree(t)[m.id] = Becoming(m)
    /\ m.type = "spawn" => /\ m.id \notin Destroys(s.out)
                           /\ s.ent[m.id].on = "offline" \/ Age(s, m.id) = MaxAge
    /\ m.type = "destroy" => Age(t, m.id) = 0

LEMMA SendRested ==
    ASSUME NEW s \in ServerRecords, NEW t \in ServerRecords, NEW m \in Messages, Speaks(s, t, m)
    PROVE  Rested(s, t)
<1> SUFFICES ASSUME NEW y \in Ids, s.ent[y].on = "no", t.ent[y].on # "no"
             PROVE  Age(s, y) = MaxAge
  BY SendsOne DEF Rested, Speaks
<1>1. y = m.id
  BY DEF Elsewhere, Speaks
<1>2. ServerTree(s)[y] = Gone
  BY ServerTreeFacts
<1>3. m.type = "spawn"
  BY <1>1, <1>2, MessageFacts, GoneFact DEF Legal, Speaks
<1> QED
  BY <1>1, <1>3 DEF Speaks

LEMMA SendTold ==
    ASSUME NEW s \in ServerRecords, NEW t \in ServerRecords, NEW m \in Messages, Speaks(s, t, m),
           NEW V, NEW K, NEW W, NEW q \in Seq(Messages), Told(s, V, q, K, W),
           m.type = "destroy" => Lost(t, m.id, W),
           m.type = "take" => m.id \in K.shown
    PROVE  Told(t, V, q, K, W)
<1> DEFINE x == m.id
<1>1. /\ s.out \in Seq(Messages) /\ x \in Ids
      /\ m.type \in {"spawn", "take", "reject", "destroy"} /\ m.dest \in Ids \union {NoID}
  BY MessageFacts DEF ServerRecords
<1>2. /\ Path(V, q \o s.out, ServerTree(s)) /\ Aged(s, K.spoken) /\ Fresh(s.out) /\ Dead(s, W)
      /\ Given(s.out) \subseteq K.shown
  BY DEF Told
<1>0. /\ t.out = Append(s.out, m) /\ Elsewhere(s, t, x) /\ AgesFall(s, t)
      /\ Legal(ServerTree(s), m) /\ ServerTree(t)[x] = Becoming(m)
      /\ m.type = "spawn" => x \notin Destroys(s.out)
      /\ m.type = "destroy" => Age(t, x) = 0
  BY DEF Speaks
<1>3. ServerTree(t) = After(ServerTree(s), m)
  <2>1. \A y \in Ids \ {x} : ServerTree(t)[y] = ServerTree(s)[y]
    BY <1>0 DEF Elsewhere, ServerTree
  <2>2. ServerTree(s) \in Trees /\ ServerTree(t) \in Trees
    BY ServerTreeFacts
  <2> DEFINE S == ServerTree(s)
             T == ServerTree(t)
             A == After(S, m)
  <2>3. A \in Trees /\ A[x] = Becoming(m) /\ \A y \in Ids : y # x => A[y] = S[y]
    BY <1>0, <2>2, AfterTyped
  <2> HIDE DEF S, T, A
  <2>4. \A y \in Ids : T[y] = A[y]
    BY <1>0, <2>1, <2>3 DEF S, T
  <2>5. T = A
    BY <2>2, <2>3, <2>4 DEF S, T, Trees
  <2> QED
    BY <2>5 DEF S, T, A
<1>4. Path(V, q \o t.out, ServerTree(t))
  <2>1. q \o t.out = Append(q \o s.out, m)
    BY <1>0, <1>1, ConcatAppend
  <2>2. q \o s.out \in Seq(Messages)
    BY <1>1
  <2> QED
    BY <1>0, <1>2, <1>3, <2>1, <2>2, PathAppend
<1>5. /\ Mentions(t.out) = Mentions(s.out) \union {x}
      /\ Destroys(t.out) = Destroys(s.out) \union (IF m.type = "destroy" THEN {x} ELSE {})
      /\ Given(t.out) = Given(s.out) \union (IF m.type = "take" THEN {x} ELSE {})
      /\ Fresh(t.out)
  BY <1>0, <1>1, <1>2, AppendFacts
<1>6. m.type # "destroy" => t.ent[x].on = "online"
  <2>1. m.type # "destroy" => Becoming(m) # Gone
    BY <1>1, GoneFact, IdFacts DEF Becoming
  <2> QED
    BY <1>0, <1>1, <2>1, ServerTreeFacts
<1>7. Aged(t, K.spoken)
  <2> SUFFICES ASSUME NEW y \in Ids, t.ent[y].on = "no"
               PROVE  /\ y \in Mentions(t.out) => Age(t, y) = 0
                      /\ y \in K.spoken => Age(t, y) <= 1
    BY DEF Aged
  <2>1. CASE y = x
    BY <1>0, <1>6, <2>1
  <2>2. CASE y # x
    <3>1. s.ent[y].on = "no"
      BY <1>0, <2>2 DEF Elsewhere
    <3>2. (y \in Mentions(s.out) => Age(s, y) = 0) /\ (y \in K.spoken => Age(s, y) <= 1)
      BY <1>2, <3>1 DEF Aged
    <3> QED
      BY <1>0, <1>5, <2>2, <3>2 DEF AgesFall
  <2> QED
    BY <2>1, <2>2
<1>8. Dead(t, W)
  <2> SUFFICES ASSUME NEW y \in Destroys(t.out) PROVE Lost(t, y, W)
    BY DEF Dead
  <2>1. CASE y = x /\ m.type = "destroy"
    BY <2>1
  <2>2. CASE ~(y = x /\ m.type = "destroy")
    <3>1. y \in Destroys(s.out) /\ Lost(s, y, W)
      BY <1>2, <1>5, <2>2 DEF Dead
    <3>2. y # x
      <4> SUFFICES ASSUME y = x PROVE FALSE
        OBVIOUS
      <4>1. m.type \in {"take", "reject"}
        BY <1>0, <1>1, <2>2, <3>1
      <4>2. ServerTree(s)[x] # Gone
        BY <1>0, <1>1, <4>1, GoneFact DEF Legal
      <4>3. s.ent[x].on = "online"
        BY <1>1, <4>2, ServerTreeFacts
      <4> QED
        BY <3>1, <4>3 DEF Lost
    <3>3. y \in Ids
      BY <1>1, <3>1, MessageFacts DEF Destroys
    <3> QED
      BY <1>0, <3>1, <3>2, <3>3 DEF Lost, Holder, Elsewhere
  <2> QED
    BY <2>1, <2>2
<1> QED
  BY <1>2, <1>4, <1>5, <1>7, <1>8 DEF Told

LEMMA SendFollows ==
    ASSUME NEW s \in ServerRecords, NEW t \in ServerRecords, NEW m \in Messages, NEW C,
           Speaks(s, t, m), m.type # "take", m.type = "destroy" => Lost(t, m.id, C)
    PROVE  Follows(s, t, C)
<1>1. Rested(s, t)
  BY SendRested
<1>2. ASSUME NEW V, NEW K, NEW W, NEW q \in Seq(Messages), Told(s, V, q, K, W), C \subseteq W
      PROVE  Told(t, V, q, K, W)
  <2>1. m.type = "destroy" => Lost(t, m.id, W)
    BY <1>2, LostMore
  <2> QED
    BY <1>2, <2>1, SendTold
<1> QED
  BY <1>1, <1>2 DEF Follows

\* Nothing is sent about what happens offline.
LEMMA SilentFollows ==
    ASSUME NEW s \in ServerRecords, NEW t \in ServerRecords, NEW x \in Ids, NEW C,
           t.out = s.out, Elsewhere(s, t, x), AgesFall(s, t),
           s.ent[x].on # "online", t.ent[x].on # "online",
           t.ent[x].on = "no" => s.ent[x].on = "no" \/ Age(t, x) = 0,
           s.ent[x].on = "no" => t.ent[x].on = "no" \/ Age(s, x) = MaxAge,
           x \in Destroys(s.out) => Lost(t, x, C)
    PROVE  Follows(s, t, C)
<1>0. Rested(s, t)
  BY SendsSelf DEF Rested, Elsewhere
<1> SUFFICES ASSUME NEW V, NEW K, NEW W, NEW q \in Seq(Messages),
                    Told(s, V, q, K, W), C \subseteq W
             PROVE  Told(t, V, q, K, W)
  BY <1>0 DEF Follows
<1>1. /\ Path(V, q \o s.out, ServerTree(s)) /\ Aged(s, K.spoken) /\ Fresh(s.out) /\ Dead(s, W)
      /\ Given(s.out) \subseteq K.shown
  BY DEF Told
<1>2. ServerTree(t) = ServerTree(s)
  <2>1. \A y \in Ids : (t.ent[y].on = "online" <=> s.ent[y].on = "online")
                       /\ (t.ent[y].on = "online" => t.ent[y].parent = s.ent[y].parent)
    BY DEF Elsewhere
  <2> QED
    BY <2>1 DEF ServerTree
<1>3. Aged(t, K.spoken)
  <2> SUFFICES ASSUME NEW y \in Ids, t.ent[y].on = "no"
               PROVE  /\ y \in Mentions(t.out) => Age(t, y) = 0
                      /\ y \in K.spoken => Age(t, y) <= 1
    BY DEF Aged
  <2>1. s.ent[y].on = "no" \/ Age(t, y) = 0
    BY DEF Elsewhere
  <2> QED
    BY <1>1, <2>1 DEF Aged, AgesFall
<1>4. Dead(t, W)
  <2> SUFFICES ASSUME NEW y \in Destroys(t.out) PROVE Lost(t, y, W)
    BY DEF Dead
  <2>1. y \in Destroys(s.out) /\ Lost(s, y, W)
    BY <1>1 DEF Dead
  <2>2. y \in Ids
    BY <2>1, MessageFacts DEF Destroys, ServerRecords
  <2>3. CASE y = x
    BY <2>1, <2>3, LostMore
  <2>4. CASE y # x
    BY <2>1, <2>2, <2>4 DEF Lost, Holder, Elsewhere
  <2> QED
    BY <2>3, <2>4
<1> QED
  BY <1>1, <1>2, <1>3, <1>4 DEF Told

-----------------------------------------------------------------------------
(* One message at a time *)

LEMMA FreeAges ==
    ASSUME NEW g \in GenRecords, NEW x \in Ids
    PROVE  LET h == FreeId(g, x, 0)
           IN  /\ h.age[Block(x)] = 0
               /\ \A y \in Ids : h.age[Block(y)] = g.age[Block(y)] \/ h.age[Block(y)] = 0
<1> DEFINE h == FreeId(g, x, 0)
<1>1. h.age = [g.age EXCEPT ![Block(x)] = 0] /\ g.age \in [Blocks -> 0 .. MaxAge]
  BY DEF FreeId, GenRecords
<1>2. \A y \in Ids : Block(y) \in Blocks
  BY BlockOf
<1> HIDE DEF h
<1>3. /\ h.age[Block(x)] = 0
      /\ \A y \in Ids : h.age[Block(y)] = g.age[Block(y)] \/ h.age[Block(y)] = 0
  BY <1>1, <1>2
<1> QED
  BY <1>3 DEF h

LEMMA NobodysParent ==
    ASSUME NEW s \in ServerRecords, Linked(s), NEW x \in Ids, s.ent[x].children = <<>>
    PROVE  \A y \in Ids : s.ent[y].parent # x /\ ServerTree(s)[y] # x
<1>1. ToSet(s.ent[x].children) = {}
  BY DEF ToSet
<1>2. \A y \in Ids : s.ent[y].parent # x
  BY <1>1, LinkedFacts, IdFacts
<1> QED
  BY <1>2, GoneFact DEF ServerTree

LEMMA MessageFields ==
    ASSUME NEW p, NEW x
    PROVE  /\ Spawned(p, x).type = "spawn" /\ Spawned(p, x).dest = p /\ Spawned(p, x).id = x
           /\ Take(p, x).type = "take" /\ Take(p, x).dest = p /\ Take(p, x).id = x
           /\ Reject(p, x).type = "reject" /\ Reject(p, x).dest = p /\ Reject(p, x).id = x
           /\ Destroy(x).type = "destroy" /\ Destroy(x).id = x
           /\ Becoming(Spawned(p, x)) = p /\ Becoming(Take(p, x)) = p
           /\ Becoming(Reject(p, x)) = NoID /\ Becoming(Destroy(x)) = Gone
BY DEF Spawned, Take, Reject, Destroy, Becoming

LEMMA SendFacts ==
    ASSUME NEW s \in ServerRecords, NEW m \in Messages, NEW t, t = SendBroadcast(s, m)
    PROVE  /\ t \in ServerRecords /\ t.ent = s.ent /\ t.gen = s.gen
           /\ t.out = Append(s.out, m)
<1>1. t.out = Append(s.out, m)
  BY DEF SendBroadcast, ServerRecords
<1> QED
  BY <1>1, SendTyped

\* A reject that is sent, or is refused.
Rejected(s, t, p, x) ==
    \/ t = s /\ ~(Online(s, x) /\ x \in Ids /\ p \in Ids /\ s.ent[x].parent = p)
    \/ /\ p \in Ids /\ x \in Ids /\ p # x /\ s.ent[x].on = "online" /\ s.ent[x].parent = p
       /\ t \in ServerRecords /\ t.gen = s.gen /\ t.out = Append(s.out, Reject(p, x))
       /\ Elsewhere(s, t, x)
       /\ t.ent[x].on = "online" /\ t.ent[x].parent = NoID

LEMMA RejectSent ==
    ASSUME NEW s \in ServerRecords, Linked(s), NEW p, NEW x,
           NEW t, t = Process_event_reject(s, p, x, TRUE)
    PROVE  Rejected(s, t, p, x)
<1> DEFINE r == RemoveChild(s, p, x)
<1>1. CASE Online(s, p) /\ Online(s, x) /\ Contains(s.ent[p].children, x) /\ ~Root(s, x)
  <2>1. /\ p \in Ids /\ x \in Ids /\ x \in ToSet(s.ent[p].children)
        /\ s.ent[x].on = "online"
    <3>1. s.ent[p].children \in Seq(Ids) /\ p \in Ids /\ x \in Ids /\ s.ent[x].on = "online"
      BY <1>1 DEF Online, ServerRecords, EntityRecords
    <3> QED
      BY <1>1, <3>1 DEF Contains, ToSet
  <2>2. s.ent[x].parent = p /\ p # x
    BY <2>1, LinkedFacts
  <2>3. Moves(s, r, p, x, NoID, RemoveFirst(s.ent[p].children, x))
    BY <2>1, <2>2, RemoveLinked
  <2>4. t = SendBroadcast(r, Reject(p, x))
    BY <1>1 DEF Process_event_reject
  <2> HIDE DEF r
  <2>5. /\ r \in ServerRecords /\ r.gen = s.gen /\ r.out = s.out
        /\ Elsewhere(s, r, x) /\ r.ent[x].on = "online" /\ r.ent[x].parent = NoID
    BY <2>1, <2>2, <2>3 DEF Moves, Elsewhere
  <2>6. Reject(p, x) \in Messages
    BY <2>1, MessageTyped
  <2>7. /\ t \in ServerRecords /\ t.ent = r.ent /\ t.gen = r.gen
        /\ t.out = Append(r.out, Reject(p, x))
    BY <2>4, <2>5, <2>6, SendFacts
  <2> QED
    BY <2>1, <2>2, <2>5, <2>7 DEF Elsewhere, Rejected
<1>2. CASE ~(Online(s, p) /\ Online(s, x) /\ Contains(s.ent[p].children, x) /\ ~Root(s, x))
  <2>1. t = s
    BY <1>2 DEF Process_event_reject
  <2>2. ~(Online(s, x) /\ x \in Ids /\ p \in Ids /\ s.ent[x].parent = p)
    <3> SUFFICES ASSUME Online(s, x), x \in Ids, p \in Ids, s.ent[x].parent = p
                 PROVE  FALSE
      OBVIOUS
    <3>1. p # NoID
      BY IdFacts
    <3>2. Online(s, p) /\ ~Root(s, x) /\ x \in ToSet(s.ent[p].children)
      BY <3>1, LinkedFacts DEF Online, Root
    <3>3. Contains(s.ent[p].children, x)
      <4>1. s.ent[p].children \in Seq(Ids)
        BY DEF ServerRecords, EntityRecords
      <4> QED
        BY <3>2, <4>1 DEF Contains, ToSet
    <3> QED
      BY <1>2, <3>2, <3>3
  <2> QED
    BY <2>1, <2>2 DEF Rejected
<1> QED
  BY <1>1, <1>2

LEMMA RejectFollows ==
    ASSUME NEW s \in ServerRecords, Linked(s), NEW p, NEW x, NEW C,
           NEW t, t = Process_event_reject(s, p, x, TRUE)
    PROVE  Follows(s, t, C)
<1>1. CASE t = s
  BY <1>1, FollowsSelf
<1>2. CASE t # s
  <2> DEFINE m == Reject(p, x)
  <2>1. /\ p \in Ids /\ x \in Ids /\ s.ent[x].on = "online" /\ s.ent[x].parent = p
        /\ t \in ServerRecords /\ t.gen = s.gen /\ t.out = Append(s.out, m)
        /\ Elsewhere(s, t, x)
        /\ t.ent[x].on = "online" /\ t.ent[x].parent = NoID
    <3>1. Rejected(s, t, p, x)
      BY RejectSent
    <3> QED
      BY <1>2, <3>1 DEF Rejected
  <2>2. m \in Messages /\ m.id = x /\ m.type = "reject" /\ m.dest = p /\ Becoming(m) = NoID
    BY <2>1, MessageTyped, MessageFields
  <2> HIDE DEF m
  <2>3. ServerTree(s)[x] = p /\ ServerTree(t)[x] = NoID
    BY <2>1, ServerTreeFacts
  <2>4. Legal(ServerTree(s), m) /\ ServerTree(t)[m.id] = Becoming(m)
    BY <2>2, <2>3 DEF Legal
  <2>5. AgesFall(s, t)
    BY <2>1 DEF AgesFall, Age
  <2>6. Speaks(s, t, m)
    BY <2>1, <2>2, <2>4, <2>5 DEF Speaks
  <2> QED
    BY <2>1, <2>2, <2>6, SendFollows
<1> QED
  BY <1>1, <1>2

\* A destroy, and the entity is forgotten or goes offline, whichever comes first.
LEMMA LeaveFollows ==
    ASSUME NEW s \in ServerRecords, Linked(s), NEW x \in Ids, Alone(s, x),
           s.ent[x].on = "online", NEW t \in ServerRecords, NEW C,
           t.out = Append(s.out, Destroy(x)), t.gen = FreeId(s.gen, x, 0),
           \A y \in Ids \ {x} : t.ent[y] = s.ent[y],
           t.ent[x] = NoEntity \/ (t.ent[x] = Left(s.ent[x]) /\ x \in C)
    PROVE  Follows(s, t, C)
<1> DEFINE m == Destroy(x)
<1>1. m \in Messages /\ m.id = x /\ m.type = "destroy" /\ Becoming(m) = Gone
  BY MessageTyped, MessageFields
<1> HIDE DEF m
<1>2. s.gen \in GenRecords /\ s.ent[x] \in EntityRecords
  BY DEF ServerRecords
<1>3. AgesFall(s, t) /\ Age(t, x) = 0
  BY <1>2, FreeAges DEF AgesFall, Age
<1>4. NoEntity.on = "no"
  BY DEF NoEntity, Entity
<1>5. t.ent[x].on # "online" /\ Lost(t, x, C)
  <2>1. CASE t.ent[x] = NoEntity
    BY <1>4, <2>1 DEF Lost
  <2>2. CASE t.ent[x] = Left(s.ent[x]) /\ x \in C
    <3>1. CASE s.ent[x].kind = "temp"
      BY <1>2, <2>2, <3>1, LeftFacts DEF Lost
    <3>2. CASE s.ent[x].kind # "temp"
      <4>1. t.ent[x].on = "offline" /\ t.ent[x].parent = NoID
        BY <1>2, <2>2, <3>2, LeftFacts DEF Alone
      <4> QED
        BY <2>2, <4>1 DEF Lost, Holder
    <3> QED
      BY <3>1, <3>2
  <2> QED
    BY <2>1, <2>2
<1>6. Elsewhere(s, t, x)
  BY DEF Elsewhere
<1>7. ServerTree(s)[x] = NoID /\ ServerTree(t)[x] = Gone
  BY <1>5, ServerTreeFacts DEF Alone
<1>8. Legal(ServerTree(s), m)
  BY <1>1, <1>7, NobodysParent DEF Legal, Alone
<1>9. ServerTree(t)[m.id] = Becoming(m)
  BY <1>1, <1>7
<1>10. Speaks(s, t, m)
  BY <1>1, <1>3, <1>6, <1>8, <1>9 DEF Speaks, m
<1> QED
  BY <1>1, <1>5, <1>10, SendFollows

\* DestroyRoot() of an object that is being switched.
LEMMA DestroyRootFollows ==
    ASSUME NEW s \in ServerRecords, Linked(s), NEW x \in Ids, Alone(s, x),
           s.ent[x].on = "online", NEW C, x \in C
    PROVE  Follows(s, DestroyRoot(s, x), C)
<1> DEFINE r == entity_Destroy(s, x)
           t == DestroyRoot(s, x)
<1>1. r \in ServerRecords /\ Destroy(x) \in Messages
  BY ForgetTyped, MessageTyped
<1>2. /\ r.ent = [s.ent EXCEPT ![x] = Left(s.ent[x])] /\ r.gen = FreeId(s.gen, x, 0)
      /\ r.out = s.out
  BY DEF entity_Destroy, ServerRecords, Left
<1>3. t = SendBroadcast(r, Destroy(x))
  BY DEF DestroyRoot
<1>4. r.ent[x] = Left(s.ent[x]) /\ \A y \in Ids \ {x} : r.ent[y] = s.ent[y]
  BY <1>2 DEF ServerRecords
<1> HIDE DEF r, t
<1>5. /\ t \in ServerRecords /\ t.ent = r.ent /\ t.gen = r.gen
      /\ t.out = Append(r.out, Destroy(x))
  BY <1>1, <1>3, SendFacts
<1>6. /\ t.ent[x] = Left(s.ent[x]) /\ \A y \in Ids \ {x} : t.ent[y] = s.ent[y]
      /\ t.gen = FreeId(s.gen, x, 0) /\ t.out = Append(s.out, Destroy(x))
  BY <1>2, <1>4, <1>5
<1>7. Follows(s, t, C)
  BY <1>5, <1>6, LeaveFollows
<1> QED
  BY <1>7 DEF t

\* An item is given to an owner, if the client shows it.
LEMMA OwnershipTold ==
    ASSUME NEW s, ServerGood(s), NEW p, NEW x, NEW valid,
           s.ent[p].kind = "owner", Online(s, x) => s.ent[x].kind # "owner",
           NEW u, u = Process_event_ownership(s, p, x, valid)
    PROVE  /\ Rested(s, u)
           /\ \A V, K, W : \A q \in Seq(Messages) :
                 Told(s, V, q, K, W) /\ valid \subseteq K.shown => Told(u, V, q, K, W)
<1> DEFINE r == AddChild(s, p, x)
           m == Take(p, x)
           t == SendBroadcast(r, m)
<1>1. CASE ~(Online(s, p) /\ Online(s, x) /\ p \in valid /\ x \in valid /\ Root(s, x))
  <2>1. u = s
    BY <1>1 DEF Process_event_ownership
  <2> QED
    BY <2>1, FollowsSelf DEF Follows
<1>2. CASE Online(s, p) /\ Online(s, x) /\ p \in valid /\ x \in valid /\ Root(s, x)
  <2>1. /\ p \in Ids /\ x \in Ids /\ p # x /\ s.ent[x].parent = NoID
        /\ s.ent[p].on = "online" /\ s.ent[x].on = "online" /\ s \in ServerRecords
    BY <1>2 DEF Online, Root, ServerGood
  <2>2. Process_event_ownership(s, p, x, valid) = t
    BY <1>2 DEF Process_event_ownership
  <2>3. Moves(s, r, p, x, p, Append(s.ent[p].children, x))
    BY <2>1, AddMoves
  <2>4. m \in Messages /\ m.id = x /\ m.type = "take" /\ m.dest = p /\ Becoming(m) = p
    BY <2>1, MessageTyped, MessageFields
  <2> HIDE DEF r, m, t
  <2>5. /\ r \in ServerRecords /\ r.gen = s.gen /\ r.out = s.out
        /\ Elsewhere(s, r, x) /\ r.ent[x].on = "online" /\ r.ent[x].parent = p
    BY <2>1, <2>3 DEF Moves, Elsewhere
  <2>6. /\ t \in ServerRecords /\ t.ent = r.ent /\ t.gen = r.gen
        /\ t.out = Append(r.out, m)
    BY <2>4, <2>5, SendFacts DEF t
  <2>7. Elsewhere(s, t, x) /\ AgesFall(s, t)
    BY <2>5, <2>6 DEF Elsewhere, AgesFall, Age
  <2>8. /\ ServerTree(s)[x] = NoID /\ ServerTree(s)[p] # Gone /\ ServerTree(t)[x] = p
    BY <2>1, <2>5, <2>6, ServerTreeFacts
  <2>9. Legal(ServerTree(s), m) /\ ServerTree(t)[m.id] = Becoming(m)
    BY <2>1, <2>4, <2>8, IdFacts DEF Legal
  <2>10. t.out = Append(s.out, m)
    BY <2>5, <2>6
  <2>11. Speaks(s, t, m)
    BY <2>4, <2>7, <2>9, <2>10 DEF Speaks
  <2>12. Rested(s, t)
    BY <2>1, <2>4, <2>6, <2>11, SendRested
  <2>13. ASSUME NEW V, NEW K, NEW W, NEW q \in Seq(Messages), Told(s, V, q, K, W),
                valid \subseteq K.shown
         PROVE  Told(t, V, q, K, W)
    BY <1>2, <2>1, <2>4, <2>6, <2>11, <2>13, SendTold
  <2> QED
    BY <2>2, <2>12, <2>13
<1> QED
  BY <1>1, <1>2

\* A new object appears, at the root or with an owner.
LEMMA AppearFollows ==
    ASSUME NEW s \in ServerRecords, NEW x \in Ids, s.ent[x].on # "online",
           s.ent[x].on = "offline" \/ Age(s, x) = MaxAge,
           NEW p, NEW C, p = NoID \/ (p \in Ids /\ s.ent[p].on = "online"),
           x \notin Destroys(s.out),
           NEW t \in ServerRecords, t.out = Append(s.out, Spawned(p, x)),
           Elsewhere(s, t, x), AgesFall(s, t),
           t.ent[x].on = "online", t.ent[x].parent = p
    PROVE  Follows(s, t, C)
<1> DEFINE m == Spawned(p, x)
<1>1. m \in Messages /\ m.id = x /\ m.type = "spawn" /\ m.dest = p /\ Becoming(m) = p
  BY MessageTyped, MessageFields
<1> HIDE DEF m
<1>2. /\ ServerTree(s)[x] = Gone /\ ServerTree(t)[x] = p
      /\ p # NoID => ServerTree(s)[p] # Gone
  BY ServerTreeFacts
<1>3. Legal(ServerTree(s), m) /\ ServerTree(t)[m.id] = Becoming(m)
  BY <1>1, <1>2 DEF Legal
<1>4. Speaks(s, t, m)
  BY <1>1, <1>3 DEF Speaks, m
<1> QED
  BY <1>1, <1>4, SendFollows

LEMMA TakeFields ==
    ASSUME NEW g \in GenRecords, NEW x \in Ids
    PROVE  TakeId(g, x).age = g.age
BY DEF TakeId, GenRecords


-----------------------------------------------------------------------------
(* Destroying *)

\* x has left its parent, if it had one.
Detached(s, t, x) ==
    /\ \A y \in Ids : t.ent[y].on = s.ent[y].on /\ t.ent[y].kind = s.ent[y].kind
    /\ t.ent[x].parent = NoID /\ t.ent[x].children = s.ent[x].children
    /\ \A y \in Ids \ {x} :
          /\ t.ent[y].parent = s.ent[y].parent
          /\ ToSet(t.ent[y].children) = ToSet(s.ent[y].children) \ {x}

\* x is gone.
Removed(s, t, x) ==
    /\ t.ent[x] = NoEntity
    /\ \A y \in Ids \ {x} :
          /\ t.ent[y].on = s.ent[y].on /\ t.ent[y].kind = s.ent[y].kind
          /\ t.ent[y].parent = s.ent[y].parent
          /\ ToSet(t.ent[y].children) = ToSet(s.ent[y].children) \ {x}

LEMMA RootDetached ==
    ASSUME NEW s \in ServerRecords, Linked(s), NEW x \in Ids, s.ent[x].parent = NoID
    PROVE  Detached(s, s, x)
<1>1. \A y \in Ids : x \notin ToSet(s.ent[y].children)
  BY LinkedFacts, IdFacts
<1> QED
  BY <1>1 DEF Detached

LEMMA RemoveDetaches ==
    ASSUME NEW s \in ServerRecords, Linked(s), NEW x \in Ids, NEW p \in Ids,
           s.ent[x].parent = p, NEW t, t.ent = RemoveChild(s, p, x).ent
    PROVE  Detached(s, t, x)
<1> DEFINE c == RemoveFirst(s.ent[p].children, x)
           r == RemoveChild(s, p, x)
<1>1. Moves(s, r, p, x, NoID, c) /\ ToSet(c) = ToSet(s.ent[p].children) \ {x}
  BY RemoveLinked
<1> HIDE DEF c, r
<1>2. \A y \in Ids : x \in ToSet(s.ent[y].children) => y = p
  BY LinkedFacts
<1>3. p # x
  BY LinkedFacts, IdFacts
<1>4. t.ent = r.ent
  BY DEF r
<1>5. \A y \in Ids \ {x} : /\ r.ent[y].parent = s.ent[y].parent
                           /\ ToSet(r.ent[y].children) = ToSet(s.ent[y].children) \ {x}
  BY <1>1, <1>2, <1>3 DEF Moves
<1> QED
  BY <1>1, <1>4, <1>5 DEF Detached, Moves

LEMMA RejectDetaches ==
    ASSUME NEW s \in ServerRecords, Linked(s), NEW x \in Ids, s.ent[x].on = "online",
           NEW b \in BOOLEAN
    PROVE  LET t == Process_event_reject(s, s.ent[x].parent, x, b)
           IN  /\ t \in ServerRecords /\ Linked(t) /\ Detached(s, t, x)
               /\ \A C : Conserved(s, C) => Conserved(t, C)
<1> DEFINE p == s.ent[x].parent
           t == Process_event_reject(s, p, x, b)
<1>1. p \in Ids \union {NoID}
  BY DEF ServerRecords, EntityRecords
<1>2. /\ t \in ServerRecords /\ Linked(t) /\ \A C : Conserved(s, C) => Conserved(t, C)
      /\ \/ t = s /\ ~(Online(s, x) /\ x \in Ids /\ p \in Ids /\ s.ent[x].parent = p)
         \/ x \in Ids /\ p \in Ids /\ s.ent[x].parent = p /\ t.ent = RemoveChild(s, p, x).ent
  BY RejectMoves
<1>3. CASE p = NoID
  <2>1. t = s
    BY <1>2, <1>3, IdFacts
  <2> HIDE DEF t
  <2> QED
    BY <1>2, <1>3, <2>1, RootDetached DEF t
<1>4. CASE p # NoID
  <2>1. p \in Ids /\ t.ent = RemoveChild(s, p, x).ent
    BY <1>1, <1>2, <1>4 DEF Online
  <2> HIDE DEF t
  <2>2. Detached(s, t, x)
    BY <2>1, RemoveDetaches
  <2> QED
    BY <1>2, <2>2 DEF t
<1> QED
  BY <1>3, <1>4

LEMMA ForgetRemoves ==
    ASSUME NEW s, NEW t, NEW u, NEW x \in Ids, Detached(s, t, x), Becomes(t, u, x, NoEntity)
    PROVE  Removed(s, u, x)
BY DEF Detached, Becomes, Removed

LEMMA DestroyLeafGood ==
    ASSUME NEW s, ServerGood(s), NEW x \in Ids, s.ent[x].on = "online",
           s.ent[x].children = <<>>
    PROVE  ServerGood(DestroyLeaf(s, x)) /\ Removed(s, DestroyLeaf(s, x), x)
<1> DEFINE p == s.ent[x].parent
           t == Process_event_reject(s, p, x, FALSE)
           u == IF t # s THEN SendBroadcast(t, Reject(p, x)) ELSE t
           v == SendBroadcast(u, Destroy(x))
           w == Forget(v, x)
<1>1. s \in ServerRecords /\ Linked(s) /\ Conserved(s, {})
  BY DEF ServerGood
<1>2. /\ t \in ServerRecords /\ Linked(t) /\ Detached(s, t, x)
      /\ Conserved(t, {})
  BY <1>1, RejectDetaches
<1>3. Reject(p, x) \in Messages /\ Destroy(x) \in Messages
  BY <1>1, MessageTyped DEF ServerRecords, EntityRecords
<1>4. DestroyLeaf(s, x) = w
  BY DEF DestroyLeaf
<1> HIDE DEF t, p
<1>5. u \in ServerRecords /\ Linked(u) /\ Conserved(u, {}) /\ u.ent = t.ent
  BY <1>2, <1>3, SendGood
<1> HIDE DEF u
<1>6. v \in ServerRecords /\ Linked(v) /\ Conserved(v, {}) /\ v.ent = t.ent
  BY <1>3, <1>5, SendGood
<1> HIDE DEF v
<1>7. Detached(s, v, x)
  BY <1>2, <1>6 DEF Detached
<1>8. Alone(v, x) /\ v.ent[x].on = "online"
  BY <1>7 DEF Detached, Alone
<1>9. x \notin v.gen.free
  BY <1>6, <1>8 DEF Conserved, Unclaimed
<1>10. Becomes(v, w, x, NoEntity) /\ Linked(w) /\ Conserved(w, {})
  BY <1>6, <1>8, <1>9, ForgetGood
<1> HIDE DEF w
<1>11. Removed(s, w, x)
  BY <1>7, <1>10, ForgetRemoves
<1>12. ServerGood(w)
  BY <1>10 DEF ServerGood, Becomes
<1> QED
  BY <1>4, <1>11, <1>12

\* Process_event_destroy() of one entity.
LEMMA DestroyLeafFollows ==
    ASSUME NEW s, ServerGood(s), NEW x \in Ids, s.ent[x].on = "online",
           s.ent[x].children = <<>>, NEW C
    PROVE  Follows(s, DestroyLeaf(s, x), C)
<1> DEFINE p == s.ent[x].parent
           t == Process_event_reject(s, p, x, FALSE)
           u == IF t # s THEN SendBroadcast(t, Reject(p, x)) ELSE t
           v == SendBroadcast(u, Destroy(x))
           w == Forget(v, x)
<1>1. s \in ServerRecords /\ Linked(s) /\ Conserved(s, {})
  BY DEF ServerGood
<1>2. u = Process_event_reject(s, p, x, TRUE)
  <2>1. CASE Online(s, p) /\ Online(s, x) /\ Contains(s.ent[p].children, x) /\ ~Root(s, x)
    <3>1. p \in Ids /\ t = RemoveChild(s, p, x)
      BY <2>1 DEF Online, Process_event_reject
    <3>2. Moves(s, RemoveChild(s, p, x), p, x, NoID, RemoveFirst(s.ent[p].children, x))
      <4>1. s \in ServerRecords /\ Linked(s) /\ p \in Ids /\ s.ent[x].parent = p
        BY <1>1, <3>1
      <4> HIDE DEF p, t
      <4> QED
        BY <4>1, RemoveLinked
    <3> HIDE DEF t
    <3>3. t.ent[x].parent = NoID
      BY <3>1, <3>2 DEF Moves
    <3> USE DEF t
    <3>4. t # s
      BY <3>1, <3>3, IdFacts
    <3> QED
      BY <2>1, <3>1, <3>4 DEF Process_event_reject
  <2>2. CASE ~(Online(s, p) /\ Online(s, x) /\ Contains(s.ent[p].children, x) /\ ~Root(s, x))
    BY <2>2 DEF Process_event_reject
  <2> QED
    BY <2>1, <2>2
<1>3. Reject(p, x) \in Messages /\ Destroy(x) \in Messages
  BY <1>1, MessageTyped DEF ServerRecords, EntityRecords
<1>4. DestroyLeaf(s, x) = w
  BY DEF DestroyLeaf
<1>5. Follows(s, u, C)
  BY <1>1, <1>2, RejectFollows
<1>6. u \in ServerRecords /\ Linked(u) /\ Detached(s, u, x)
  BY <1>1, <1>2, RejectDetaches
<1> HIDE DEF u
<1>7. /\ v \in ServerRecords /\ v.ent = u.ent /\ v.gen = u.gen
      /\ v.out = Append(u.out, Destroy(x))
  BY <1>3, <1>6, SendFacts
<1> HIDE DEF v
<1>8. Alone(u, x) /\ u.ent[x].on = "online"
  BY <1>6 DEF Detached, Alone
<1>9. w \in ServerRecords
  BY <1>7, ForgetTyped
<1>10. /\ w.out = v.out /\ w.gen = FreeId(v.gen, x, 0)
       /\ w.ent = [v.ent EXCEPT ![x] = NoEntity]
  BY <1>7 DEF Forget, ServerRecords
<1>11. w.ent[x] = NoEntity /\ \A y \in Ids \ {x} : w.ent[y] = u.ent[y]
  BY <1>7, <1>10 DEF ServerRecords
<1>12. w.out = Append(u.out, Destroy(x)) /\ w.gen = FreeId(u.gen, x, 0)
  BY <1>7, <1>10
<1> HIDE DEF w
<1>13. Follows(u, w, C)
  BY <1>6, <1>8, <1>9, <1>11, <1>12, LeaveFollows
<1> QED
  BY <1>4, <1>5, <1>13, FollowsTrans

\* What is left of a list after i elements.
Rest(q, i) == {q[j] : j \in i + 1 .. Len(q)}

LEMMA RestFacts ==
    ASSUME NEW q \in Seq(Ids), IsInjective(q)
    PROVE  /\ Rest(q, 0) = ToSet(q) /\ Rest(q, Len(q)) = {}
           /\ \A i \in 1 .. Len(q) : /\ q[i] \in Ids /\ q[i] \in Rest(q, i - 1)
                                     /\ Rest(q, i) = Rest(q, i - 1) \ {q[i]}
<1> DEFINE n == Len(q)
<1>1. n \in Nat /\ DOMAIN q = 1 .. n /\ \A i \in 1 .. n : q[i] \in Ids
  OBVIOUS
<1>2. \A i, j \in 1 .. n : q[i] = q[j] => i = j
  BY <1>1 DEF IsInjective
<1> HIDE DEF n
<1>3. Rest(q, 0) = ToSet(q) /\ Rest(q, n) = {}
  <2>1. 0 + 1 .. n = 1 .. n /\ n + 1 .. n = {}
    BY <1>1
  <2> QED
    BY <1>1, <2>1 DEF Rest, ToSet, n
<1>4. ASSUME NEW i \in 1 .. n
      PROVE  q[i] \in Rest(q, i - 1) /\ Rest(q, i) = Rest(q, i - 1) \ {q[i]}
  <2>1. /\ i \in (i - 1) + 1 .. n
        /\ \A j : j \in (i - 1) + 1 .. n <=> j = i \/ j \in i + 1 .. n
        /\ \A j \in i + 1 .. n : j \in 1 .. n /\ j # i
    BY <1>1
  <2>2. \A j \in i + 1 .. n : q[j] # q[i]
    BY <1>2, <2>1
  <2> QED
    BY <2>1, <2>2 DEF Rest, n
<1> QED
  BY <1>1, <1>3, <1>4 DEF n

LEMMA NoneLeft ==
    ASSUME NEW q \in Seq(Ids), ToSet(q) = {}
    PROVE  q = <<>>
<1>1. Len(q) \in Nat /\ (1 \in 1 .. Len(q) => q[1] \in ToSet(q))
  BY DEF ToSet
<1>2. Len(q) = 0
  BY <1>1
<1> QED
  BY <1>2, EmptySeq

LEMMA DestroyGood ==
    ASSUME NEW s, ServerGood(s), NEW x
    PROVE  ServerGood(Process_event_destroy(s, x)) /\ Follows(s, Process_event_destroy(s, x), {})
<1> DEFINE last == DestroyLeaf(FoldLeft(DestroyLeaf, s, s.ent[x].children), x)
<1> SUFFICES ASSUME Online(s, x)
             PROVE  ServerGood(last) /\ Follows(s, last, {})
  <2>1. CASE ~Online(s, x)
    BY <2>1, FollowsSelf DEF Process_event_destroy
  <2> QED
    BY <2>1 DEF Process_event_destroy
<1> DEFINE q == s.ent[x].children
           n == Len(q)
<1>1. x \in Ids /\ s.ent[x].on = "online" /\ s \in ServerRecords /\ Linked(s)
  BY DEF Online, ServerGood
<1>2. q \in Seq(Ids) /\ IsInjective(q) /\ n \in Nat
  BY <1>1 DEF Linked, LinkedAt, ServerRecords, EntityRecords
<1>3. PICK g : /\ g[0] = s /\ g[n] = FoldLeft(DestroyLeaf, s, q)
               /\ \A i \in 1 .. n : g[i] = DestroyLeaf(g[i - 1], q[i])
  BY <1>1, <1>2, DestroyLeafFolds
<1> DEFINE Q == {i \in 0 .. n : /\ ServerGood(g[i]) /\ g[i].ent[x].on = "online"
                                /\ ToSet(g[i].ent[x].children) = Rest(q, i)
                                /\ Follows(s, g[i], {})}
<1>4. 0 \in Q
  BY <1>1, <1>2, <1>3, RestFacts, FollowsSelf
<1>5. ASSUME NEW i \in 1 .. n, i - 1 \in Q
      PROVE  i \in Q
  <2> DEFINE r == g[i - 1]
             c == q[i]
  <2>1. /\ ServerGood(r) /\ r.ent[x].on = "online" /\ ToSet(r.ent[x].children) = Rest(q, i - 1)
        /\ g[i] = DestroyLeaf(r, c) /\ Follows(s, r, {})
    BY <1>3, <1>5
  <2>2. c \in ToSet(r.ent[x].children) /\ Rest(q, i) = Rest(q, i - 1) \ {c}
    BY <1>2, <2>1, RestFacts
  <2> HIDE DEF r, c
  <2>3. c \in Ids \ {x} /\ r.ent[c].on = "online" /\ r.ent[c].children = <<>>
    BY <1>1, <2>1, <2>2, LinkedFacts DEF ServerGood
  <2>4. ServerGood(g[i]) /\ Removed(r, g[i], c)
    BY <2>1, <2>3, DestroyLeafGood
  <2>7. Follows(s, g[i], {})
    <3>1. Follows(r, DestroyLeaf(r, c), {})
      BY <2>1, <2>3, DestroyLeafFollows
    <3> QED
      BY <2>1, <3>1, FollowsTrans
  <2>5. x \in Ids \ {c}
    BY <1>1, <2>3
  <2>6. g[i].ent[x].on = "online" /\ ToSet(g[i].ent[x].children) = Rest(q, i)
    BY <2>1, <2>2, <2>4, <2>5 DEF Removed
  <2> QED
    BY <2>4, <2>6, <2>7
<1>6. n \in Q
  <2> HIDE DEF Q
  <2> QED
    BY <1>2, <1>4, <1>5, StepByStep
<1>7. /\ ServerGood(g[n]) /\ g[n].ent[x].on = "online" /\ ToSet(g[n].ent[x].children) = {}
      /\ Follows(s, g[n], {})
  BY <1>2, <1>6, RestFacts
<1>8. g[n].ent[x].children = <<>>
  BY <1>1, <1>7, NoneLeft DEF ServerGood, ServerRecords, EntityRecords
<1>9. ServerGood(DestroyLeaf(g[n], x))
  BY <1>1, <1>7, <1>8, DestroyLeafGood
<1>10. Follows(s, DestroyLeaf(g[n], x), {})
  <2>1. Follows(g[n], DestroyLeaf(g[n], x), {})
    BY <1>1, <1>7, <1>8, DestroyLeafFollows
  <2> QED
    BY <1>7, <2>1, FollowsTrans
<1> QED
  BY <1>3, <1>9, <1>10

LEMMA ReleaseLeafGood ==
    ASSUME NEW s, ServerGood(s), NEW x \in Ids, s.ent[x].on = "offline",
           s.ent[x].children = <<>>
    PROVE  ServerGood(ReleaseLeaf(s, x)) /\ Removed(s, ReleaseLeaf(s, x), x)
<1> DEFINE p == s.ent[x].parent
           r == RemoveChild(s, p, x)
           t == IF Root(s, x) THEN s ELSE r
           w == Forget(t, x)
<1>1. s \in ServerRecords /\ Linked(s) /\ Conserved(s, {})
  BY DEF ServerGood
<1>2. t \in ServerRecords /\ Linked(t) /\ Conserved(t, {}) /\ Detached(s, t, x)
  <2>1. CASE Root(s, x)
    BY <1>1, <2>1, RootDetached DEF Root
  <2>2. CASE ~Root(s, x)
    <3>1. p \in Ids /\ t = r
      BY <1>1, <2>2, LinkedFacts DEF Root
    <3>2. Linked(r) /\ Moves(s, r, p, x, NoID, RemoveFirst(s.ent[p].children, x))
      BY <1>1, <3>1, RemoveLinked
    <3>3. Detached(s, r, x)
      BY <1>1, <3>1, RemoveDetaches
    <3> HIDE DEF r
    <3>4. Conserved(r, {})
      BY <1>1, <3>2, MovesConserved
    <3>5. r \in ServerRecords
      BY <3>2 DEF Moves
    <3> QED
      BY <3>1, <3>2, <3>3, <3>4, <3>5
  <2> QED
    BY <2>1, <2>2
<1>3. ReleaseLeaf(s, x) = w
  BY DEF ReleaseLeaf
<1> HIDE DEF t
<1>4. Alone(t, x) /\ t.ent[x].on = "offline"
  BY <1>2 DEF Detached, Alone
<1>5. x \notin t.gen.free
  BY <1>2, <1>4 DEF Conserved, Unclaimed
<1>6. Becomes(t, w, x, NoEntity) /\ Linked(w) /\ Conserved(w, {})
  BY <1>2, <1>4, <1>5, ForgetGood
<1> HIDE DEF w
<1>7. Removed(s, w, x)
  BY <1>2, <1>6, ForgetRemoves
<1>8. ServerGood(w)
  BY <1>6 DEF ServerGood, Becomes
<1> QED
  BY <1>3, <1>7, <1>8

LEMMA ReleaseLeafFollows ==
    ASSUME NEW s, ServerGood(s), NEW x \in Ids, s.ent[x].on = "offline",
           s.ent[x].children = <<>>, NEW C
    PROVE  Follows(s, ReleaseLeaf(s, x), C)
<1> DEFINE p == s.ent[x].parent
           r == RemoveChild(s, p, x)
           t == IF Root(s, x) THEN s ELSE r
           w == Forget(t, x)
<1>1. s \in ServerRecords /\ Linked(s) /\ Removed(s, ReleaseLeaf(s, x), x)
  BY ReleaseLeafGood DEF ServerGood
<1>2. t \in ServerRecords /\ t.gen = s.gen /\ t.out = s.out
  <2>1. CASE Root(s, x)
    BY <1>1, <2>1
  <2>2. CASE ~Root(s, x)
    <3>1. p \in Ids /\ t = r
      BY <1>1, <2>2, LinkedFacts DEF Root
    <3>2. Moves(s, r, p, x, NoID, RemoveFirst(s.ent[p].children, x))
      BY <1>1, <3>1, RemoveLinked
    <3> HIDE DEF r
    <3> QED
      BY <3>1, <3>2 DEF Moves
  <2> QED
    BY <2>1, <2>2
<1>3. ReleaseLeaf(s, x) = w
  BY DEF ReleaseLeaf
<1> HIDE DEF t
<1>4. w \in ServerRecords
  BY <1>2, ForgetTyped
<1>5. w.out = s.out /\ w.gen = FreeId(s.gen, x, 0)
  BY <1>2 DEF Forget, ServerRecords
<1> HIDE DEF w
<1>6. AgesFall(s, w) /\ Age(w, x) = 0
  <2>1. s.gen \in GenRecords
    BY <1>1 DEF ServerRecords
  <2> QED
    BY <1>5, <2>1, FreeAges DEF AgesFall, Age
<1>7. Elsewhere(s, w, x) /\ w.ent[x].on = "no"
  BY <1>1, <1>3 DEF Removed, Elsewhere, NoEntity, Entity
<1>8. Lost(w, x, C)
  BY <1>7 DEF Lost
<1>9. s.ent[x].on # "online" /\ s.ent[x].on # "no" /\ w.ent[x].on # "online"
  BY <1>7
<1>10. Follows(s, w, C)
  BY <1>1, <1>4, <1>5, <1>6, <1>7, <1>8, <1>9, SilentFollows
<1> QED
  BY <1>3, <1>10

LEMMA ReleaseGood ==
    ASSUME NEW s, ServerGood(s), NEW x \in Ids, s.ent[x].on = "offline"
    PROVE  ServerGood(release(s, x)) /\ Follows(s, release(s, x), {})
<1> DEFINE q == s.ent[x].children
           n == Len(q)
<1>1. s \in ServerRecords /\ Linked(s)
  BY DEF ServerGood
<1>2. q \in Seq(Ids) /\ IsInjective(q) /\ n \in Nat
  BY <1>1 DEF Linked, LinkedAt, ServerRecords, EntityRecords
<1>3. PICK g : /\ g[0] = s /\ g[n] = FoldLeft(ReleaseLeaf, s, q)
               /\ \A i \in 1 .. n : g[i] = ReleaseLeaf(g[i - 1], q[i])
  BY <1>1, <1>2, ReleaseLeafFolds
<1> DEFINE Q == {i \in 0 .. n : /\ ServerGood(g[i]) /\ g[i].ent[x].on = "offline"
                                /\ ToSet(g[i].ent[x].children) = Rest(q, i)
                                /\ Follows(s, g[i], {})}
<1>4. 0 \in Q
  BY <1>1, <1>2, <1>3, RestFacts, FollowsSelf
<1>5. ASSUME NEW i \in 1 .. n, i - 1 \in Q
      PROVE  i \in Q
  <2> DEFINE r == g[i - 1]
             c == q[i]
  <2>1. /\ ServerGood(r) /\ r.ent[x].on = "offline" /\ ToSet(r.ent[x].children) = Rest(q, i - 1)
        /\ g[i] = ReleaseLeaf(r, c) /\ Follows(s, r, {})
    BY <1>3, <1>5
  <2>2. c \in ToSet(r.ent[x].children) /\ Rest(q, i) = Rest(q, i - 1) \ {c}
    BY <1>2, <2>1, RestFacts
  <2> HIDE DEF r, c
  <2>3. c \in Ids \ {x} /\ r.ent[c].on = "offline" /\ r.ent[c].children = <<>>
    BY <1>1, <2>1, <2>2, LinkedFacts DEF ServerGood
  <2>4. ServerGood(g[i]) /\ Removed(r, g[i], c)
    BY <2>1, <2>3, ReleaseLeafGood
  <2>7. Follows(s, g[i], {})
    <3>1. Follows(r, ReleaseLeaf(r, c), {})
      BY <2>1, <2>3, ReleaseLeafFollows
    <3> QED
      BY <2>1, <3>1, FollowsTrans
  <2>5. x \in Ids \ {c}
    BY <2>3
  <2>6. g[i].ent[x].on = "offline" /\ ToSet(g[i].ent[x].children) = Rest(q, i)
    BY <2>1, <2>2, <2>4, <2>5 DEF Removed
  <2> QED
    BY <2>4, <2>6, <2>7
<1>6. n \in Q
  <2> HIDE DEF Q
  <2> QED
    BY <1>2, <1>4, <1>5, StepByStep
<1>7. /\ ServerGood(g[n]) /\ g[n].ent[x].on = "offline" /\ ToSet(g[n].ent[x].children) = {}
      /\ Follows(s, g[n], {})
  BY <1>2, <1>6, RestFacts
<1>8. g[n].ent[x].children = <<>>
  BY <1>7, NoneLeft DEF ServerGood, ServerRecords, EntityRecords
<1>9. ServerGood(ReleaseLeaf(g[n], x))
  BY <1>7, <1>8, ReleaseLeafGood
<1>10. Follows(s, ReleaseLeaf(g[n], x), {})
  <2>1. Follows(g[n], ReleaseLeaf(g[n], x), {})
    BY <1>7, <1>8, ReleaseLeafFollows
  <2> QED
    BY <1>7, <2>1, FollowsTrans
<1> QED
  BY <1>3, <1>9, <1>10 DEF release

-----------------------------------------------------------------------------
(* Spawning *)

LEMMA FreeIsNew ==
    ASSUME NEW s, ServerGood(s), NEW x \in s.gen.free
    PROVE  x \in Ids /\ s.ent[x] = NoEntity /\ Alone(s, x) /\ s.ent[x].on = "no"
<1>1. x \in Ids /\ s.ent[x].on = "no"
  BY DEF ServerGood, Conserved, Unclaimed
<1>2. s.ent[x] = NoEntity
  BY <1>1, LinkedFacts DEF ServerGood
<1> QED
  BY <1>1, <1>2 DEF Alone, NoEntity, Entity

NewEntity(s, x, e) == [s EXCEPT !.gen = TakeId(@, x), !.ent[x] = e]

LEMMA NewEntityGood ==
    ASSUME NEW s, ServerGood(s), NEW x \in s.gen.free, NEW e \in EntityRecords,
           e.on # "no", e.parent = NoID, e.children = <<>>,
           e.on = "offline" => e.kind # "temp"
    PROVE  ServerGood(NewEntity(s, x, e)) /\ Becomes(s, NewEntity(s, x, e), x, e)
<1> DEFINE t == NewEntity(s, x, e)
<1>1. /\ s \in ServerRecords /\ Linked(s) /\ Conserved(s, {})
      /\ x \in Ids /\ Alone(s, x) /\ s.ent[x].on = "no"
  BY FreeIsNew DEF ServerGood
<1>2. TakeId(s.gen, x) \in GenRecords /\ s.gen \in GenRecords
  BY <1>1, GenTyped DEF ServerRecords
<1>3. /\ t \in ServerRecords /\ t.ent = [s.ent EXCEPT ![x] = e]
      /\ t.gen = TakeId(s.gen, x)
  BY <1>1, <1>2 DEF NewEntity, ServerRecords
<1> HIDE DEF t
<1>4. Becomes(s, t, x, e)
  BY <1>1, <1>3 DEF Becomes, ServerRecords
<1>5. Linked(t)
  BY <1>1, <1>4, BecomesLinked
<1>6. Counted(t.gen) /\ t.gen.free = s.gen.free \ {x}
  BY <1>1, <1>2, <1>3, TakeCounted DEF Conserved
<1>7. Unclaimed(t, {})
  BY <1>1, <1>4, <1>6 DEF Conserved, Unclaimed, Becomes
<1> QED
  BY <1>3, <1>4, <1>5, <1>6, <1>7 DEF ServerGood, Conserved, t

\* Something new with parent p, on its side.
LEMMA NewChildGood ==
    ASSUME NEW s, ServerGood(s), NEW x \in s.gen.free,
           NEW on \in {"online", "offline"}, NEW kind \in Kinds \ {"owner"},
           on = "offline" => kind # "temp",
           NEW p \in Ids, s.ent[p].kind = "owner", s.ent[p].on = on
    PROVE  ServerGood(AddChild(NewEntity(s, x, Entity(on, kind, NoID, <<>>)), p, x))
<1> DEFINE e == Entity(on, kind, NoID, <<>>)
           t == NewEntity(s, x, e)
           u == AddChild(t, p, x)
<1>1. /\ e \in EntityRecords /\ e.on = on /\ e.kind = kind /\ e.parent = NoID
      /\ e.children = <<>>
  BY DEF Entity, EntityRecords
<1> HIDE DEF e
<1>2. ServerGood(t) /\ Becomes(s, t, x, e)
  BY <1>1, NewEntityGood
<1> HIDE DEF t
<1>3. x \in Ids /\ s.ent[x].on = "no"
  BY FreeIsNew
<1>4. p # x /\ t.ent[p] = s.ent[p] /\ t.ent[x] = e
  BY <1>2, <1>3 DEF Becomes
<1>5. Linked(u) /\ Moves(t, u, p, x, p, Append(t.ent[p].children, x))
  BY <1>1, <1>2, <1>3, <1>4, AddLinked DEF ServerGood
<1> HIDE DEF u
<1>6. Conserved(u, {})
  BY <1>2, <1>5, MovesConserved DEF ServerGood
<1>7. u \in ServerRecords
  BY <1>5 DEF Moves
<1> QED
  BY <1>5, <1>6, <1>7 DEF ServerGood, u, t, e

LEMMA SpawnGood ==
    ASSUME NEW s, ServerGood(s), NEW x \in s.gen.free, NEW kind \in Kinds, NEW p,
           p # NoID /\ Online(s, p) => s.ent[p].kind = "owner" /\ kind # "owner"
    PROVE  ServerGood(Process_spawn(s, x, kind, p))
<1> DEFINE e == Entity("online", kind, NoID, <<>>)
           t == NewEntity(s, x, e)
           u == IF p = NoID THEN t ELSE AddChild(t, p, x)
<1> SUFFICES ASSUME p = NoID \/ Online(s, p)
             PROVE  ServerGood(SendBroadcast(u, Spawned(p, x)))
  BY DEF Process_spawn, NewEntity
<1>1. ServerGood(u)
  <2>1. CASE p = NoID
    <3>1. /\ e \in EntityRecords /\ e.on = "online" /\ e.parent = NoID
          /\ e.children = <<>>
      BY DEF Entity, EntityRecords
    <3> HIDE DEF e
    <3>2. ServerGood(t)
      BY <3>1, NewEntityGood
    <3> QED
      BY <2>1, <3>2
  <2>2. CASE p # NoID
    <3>1. /\ p \in Ids /\ s.ent[p].kind = "owner" /\ s.ent[p].on = "online"
          /\ kind \in Kinds \ {"owner"}
      BY <2>2 DEF Online
    <3>2. ServerGood(AddChild(t, p, x))
      BY <3>1, NewChildGood
    <3> QED
      BY <2>2, <3>2
  <2> QED
    BY <2>1, <2>2
<1>2. Spawned(p, x) \in Messages
  BY FreeIsNew, MessageTyped DEF Online
<1> HIDE DEF u
<1> QED
  BY <1>1, <1>2, SendGood DEF ServerGood

LEMMA SpawnItemGood ==
    ASSUME NEW s, ServerGood(s), NEW x \in s.gen.free, NEW kind \in Kinds \ {"temp"}, NEW p,
           p # NoID => /\ p \in Ids /\ s.ent[p].kind = "owner" /\ s.ent[p].on # "no"
                       /\ kind # "owner"
    PROVE  ServerGood(spawn_item2(s, x, kind, p))
<1>1. x \in Ids /\ s \in ServerRecords /\ Linked(s) /\ Conserved(s, {})
  BY FreeIsNew DEF ServerGood
<1>2. CASE p # NoID /\ Online(s, p)
  <2> DEFINE g == TakeId(s.gen, x)
             h == FreeId(g, x, MaxAge)
             t == [s EXCEPT !.gen = FreeId(TakeId(@, x), x, MaxAge)]
  <2>1. s.gen \in GenRecords /\ Counted(s.gen)
    BY <1>1 DEF ServerRecords, Conserved
  <2>2. g \in GenRecords /\ Counted(g) /\ g.free = s.gen.free \ {x}
    BY <1>1, <2>1, GenTyped, TakeCounted
  <2> HIDE DEF g
  <2>3. MaxAge \in 0 .. MaxAge
    BY AgeAssumption
  <2>4. h \in GenRecords /\ Counted(h) /\ h.free = g.free \union {x}
    BY <1>1, <2>2, <2>3, GenTyped, FreeCounted
  <2> HIDE DEF h
  <2>5. t = [s EXCEPT !.gen = h]
    BY DEF g, h
  <2>6. t \in ServerRecords /\ t.ent = s.ent /\ t.gen = h
    BY <1>1, <2>4, <2>5 DEF ServerRecords
  <2>7. h.free = s.gen.free
    BY <2>2, <2>4
  <2>8. spawn_item2(s, x, kind, p) = Process_spawn(t, x, kind, p)
    BY <1>2 DEF spawn_item2
  <2> HIDE DEF t
  <2>9. ServerGood(t)
    BY <1>1, <2>4, <2>6, <2>7 DEF ServerGood, Linked, LinkedAt, Conserved, Unclaimed
  <2>10. Online(t, p) => t.ent[p].kind = "owner" /\ kind # "owner"
    BY <1>2, <2>6
  <2>11. x \in t.gen.free
    BY <2>6, <2>7
  <2>12. ServerGood(Process_spawn(t, x, kind, p))
    BY <2>9, <2>10, <2>11, SpawnGood
  <2> QED
    BY <2>8, <2>12
<1>3. CASE ~(p # NoID /\ Online(s, p))
  <2> DEFINE e == Entity("offline", kind, NoID, <<>>)
             t == NewEntity(s, x, e)
  <2>1. spawn_item2(s, x, kind, p) = IF p = NoID THEN t ELSE AddChild(t, p, x)
    BY <1>3 DEF spawn_item2, NewEntity
  <2>2. CASE p = NoID
    <3>1. /\ e \in EntityRecords /\ e.on = "offline" /\ e.parent = NoID
          /\ e.children = <<>> /\ e.kind # "temp"
      BY DEF Entity, EntityRecords
    <3> HIDE DEF e
    <3>2. ServerGood(t)
      BY <3>1, NewEntityGood
    <3> QED
      BY <2>1, <2>2, <3>2
  <2>3. CASE p # NoID
    <3>1. /\ p \in Ids /\ s.ent[p].kind = "owner" /\ s.ent[p].on = "offline"
          /\ kind \in Kinds \ {"owner"}
      BY <1>1, <1>3, <2>3 DEF Online, ServerRecords, EntityRecords
    <3>2. ServerGood(AddChild(t, p, x))
      BY <3>1, NewChildGood
    <3> QED
      BY <2>1, <2>3, <3>2
  <2> QED
    BY <2>2, <2>3
<1> QED
  BY <1>2, <1>3

LEMMA SpawnFollows ==
    ASSUME NEW s, ServerGood(s), NEW x \in s.gen.free, NEW kind \in Kinds, NEW p, NEW C,
           x \notin Destroys(s.out), Age(s, x) = MaxAge
    PROVE  Follows(s, Process_spawn(s, x, kind, p), C)
<1> DEFINE e == Entity("online", kind, NoID, <<>>)
           r == NewEntity(s, x, e)
           u == IF p = NoID THEN r ELSE AddChild(r, p, x)
           t == SendBroadcast(u, Spawned(p, x))
<1>1. CASE ~(p = NoID \/ Online(s, p))
  BY <1>1, FollowsSelf DEF Process_spawn
<1>2. CASE p = NoID \/ Online(s, p)
  <2>1. Process_spawn(s, x, kind, p) = t
    BY <1>2 DEF Process_spawn, NewEntity
  <2>2. /\ s \in ServerRecords /\ x \in Ids /\ s.ent[x].on = "no" /\ s.gen \in GenRecords
    BY FreeIsNew DEF ServerGood, ServerRecords
  <2>3. p = NoID \/ (p \in Ids /\ s.ent[p].on = "online" /\ p # x)
    BY <1>2, <2>2 DEF Online
  <2>4. /\ e \in EntityRecords /\ e.on = "online" /\ e.parent = NoID /\ e.children = <<>>
    BY DEF Entity, EntityRecords
  <2> HIDE DEF e
  <2>5. ServerGood(r) /\ Becomes(s, r, x, e)
    BY <2>4, NewEntityGood
  <2>6. r.gen = TakeId(s.gen, x) /\ r.out = s.out
    BY <2>2 DEF NewEntity, ServerRecords
  <2> HIDE DEF r, t
  <2>7. /\ u \in ServerRecords /\ u.gen = r.gen /\ u.out = s.out
        /\ Elsewhere(s, u, x) /\ u.ent[x].on = "online" /\ u.ent[x].parent = p
    <3>1. CASE p = NoID
      BY <2>4, <2>5, <2>6, <3>1 DEF Becomes, Elsewhere
    <3>2. CASE p # NoID
      <4>1. p \in Ids /\ p # x /\ r \in ServerRecords
        BY <2>3, <2>5, <3>2 DEF Becomes
      <4>2. Moves(r, AddChild(r, p, x), p, x, p, Append(r.ent[p].children, x))
        BY <2>2, <4>1, AddMoves
      <4> QED
        BY <2>2, <2>4, <2>5, <2>6, <3>2, <4>1, <4>2 DEF Moves, Becomes, Elsewhere
    <3> QED
      BY <3>1, <3>2
  <2>8. Spawned(p, x) \in Messages
    BY <2>2, <2>3, MessageTyped
  <2> HIDE DEF u
  <2>9. /\ t \in ServerRecords /\ t.ent = u.ent /\ t.gen = u.gen
        /\ t.out = Append(u.out, Spawned(p, x))
    BY <2>7, <2>8, SendFacts DEF t
  <2>10. AgesFall(s, t)
    BY <2>2, <2>6, <2>7, <2>9, TakeFields DEF AgesFall, Age
  <2>11. Elsewhere(s, t, x) /\ t.ent[x].on = "online" /\ t.ent[x].parent = p
    BY <2>7, <2>9 DEF Elsewhere
  <2>12. Follows(s, t, C)
    BY <2>2, <2>3, <2>7, <2>9, <2>10, <2>11, AppearFollows
  <2> QED
    BY <2>1, <2>12
<1> QED
  BY <1>1, <1>2

\* A block is only handed out, and stamped MaxAge again, when it has that age.
LEMMA SpawnItemFollows ==
    ASSUME NEW s, ServerGood(s), NEW x \in s.gen.free, NEW kind \in Kinds \ {"temp"}, NEW p,
           NEW C,
           p # NoID => /\ p \in Ids /\ s.ent[p].kind = "owner" /\ s.ent[p].on # "no"
                       /\ kind # "owner",
           x \notin Destroys(s.out), Age(s, x) = MaxAge
    PROVE  Follows(s, spawn_item2(s, x, kind, p), C)
<1>1. x \in Ids /\ s \in ServerRecords /\ Linked(s) /\ Conserved(s, {}) /\ s.gen \in GenRecords
      /\ s.ent[x].on = "no"
  BY FreeIsNew DEF ServerGood, ServerRecords
<1>2. CASE p # NoID /\ Online(s, p)
  <2> DEFINE g == TakeId(s.gen, x)
             h == FreeId(g, x, MaxAge)
             r == [s EXCEPT !.gen = FreeId(TakeId(@, x), x, MaxAge)]
  <2>1. Counted(s.gen)
    BY <1>1 DEF Conserved
  <2>2. g \in GenRecords /\ Counted(g) /\ g.free = s.gen.free \ {x} /\ g.age = s.gen.age
    BY <1>1, <2>1, GenTyped, TakeCounted, TakeFields
  <2> HIDE DEF g
  <2>3. MaxAge \in 0 .. MaxAge
    BY AgeAssumption
  <2>4. h \in GenRecords /\ Counted(h) /\ h.free = g.free \union {x}
    BY <1>1, <2>2, <2>3, GenTyped, FreeCounted
  <2>5. h.age = s.gen.age
    <3>1. h.age = [g.age EXCEPT ![Block(x)] = MaxAge] /\ g.age \in [Blocks -> 0 .. MaxAge]
      BY <2>2 DEF FreeId, GenRecords
    <3>2. g.age[Block(x)] = MaxAge
      BY <2>2 DEF Age
    <3>3. h.age = g.age
      BY <3>1, <3>2
    <3> QED
      BY <2>2, <3>3
  <2> HIDE DEF h
  <2>6. r = [s EXCEPT !.gen = h]
    BY DEF g, h
  <2>7. r \in ServerRecords /\ r.ent = s.ent /\ r.gen = h /\ r.out = s.out
    BY <1>1, <2>4, <2>6 DEF ServerRecords
  <2>8. spawn_item2(s, x, kind, p) = Process_spawn(r, x, kind, p)
    BY <1>2 DEF spawn_item2
  <2> HIDE DEF r
  <2>9. h.free = s.gen.free
    BY <2>2, <2>4
  <2>10. ServerGood(r)
    BY <1>1, <2>4, <2>7, <2>9 DEF ServerGood, Linked, LinkedAt, Conserved, Unclaimed
  <2>11. Follows(s, r, C)
    <3>1. Elsewhere(s, r, x) /\ AgesFall(s, r) /\ s.ent[x].on # "online"
      BY <1>1, <2>5, <2>7 DEF Elsewhere, AgesFall, Age
    <3> QED
      BY <1>1, <2>7, <3>1, SilentFollows
  <2>12. /\ x \in r.gen.free /\ kind \in Kinds /\ x \notin Destroys(r.out)
         /\ Age(r, x) = MaxAge
    BY <2>5, <2>7, <2>9 DEF Age
  <2>13. Follows(r, Process_spawn(r, x, kind, p), C)
    BY <2>10, <2>12, SpawnFollows
  <2> QED
    BY <2>8, <2>11, <2>13, FollowsTrans
<1>3. CASE ~(p # NoID /\ Online(s, p))
  <2> DEFINE e == Entity("offline", kind, NoID, <<>>)
             r == NewEntity(s, x, e)
             t == IF p = NoID THEN r ELSE AddChild(r, p, x)
  <2>1. spawn_item2(s, x, kind, p) = t
    BY <1>3 DEF spawn_item2, NewEntity
  <2>2. /\ e \in EntityRecords /\ e.on = "offline" /\ e.parent = NoID
        /\ e.children = <<>> /\ e.kind # "temp"
    BY DEF Entity, EntityRecords
  <2> HIDE DEF e
  <2>3. ServerGood(r) /\ Becomes(s, r, x, e)
    BY <2>2, NewEntityGood
  <2>4. r.gen = TakeId(s.gen, x) /\ r.out = s.out
    BY <1>1 DEF NewEntity, ServerRecords
  <2> HIDE DEF r
  <2>5. /\ t \in ServerRecords /\ t.gen = r.gen /\ t.out = s.out
        /\ Elsewhere(s, t, x) /\ t.ent[x].on = "offline"
    <3>1. CASE p = NoID
      BY <2>2, <2>3, <2>4, <3>1 DEF Becomes, Elsewhere
    <3>2. CASE p # NoID
      <4>1. p \in Ids /\ p # x /\ r \in ServerRecords
        BY <1>1, <2>3, <3>2 DEF Becomes
      <4>2. Moves(r, AddChild(r, p, x), p, x, p, Append(r.ent[p].children, x))
        BY <1>1, <4>1, AddMoves
      <4> QED
        BY <1>1, <2>2, <2>3, <2>4, <3>2, <4>1, <4>2 DEF Moves, Becomes, Elsewhere
    <3> QED
      BY <3>1, <3>2
  <2> HIDE DEF t
  <2>6. AgesFall(s, t)
    BY <1>1, <2>4, <2>5, TakeFields DEF AgesFall, Age
  <2>7. Follows(s, t, C)
    <3>1. s.ent[x].on # "online" /\ t.ent[x].on # "online" /\ t.ent[x].on # "no"
      BY <1>1, <2>5
    <3> QED
      BY <1>1, <2>5, <2>6, <3>1, SilentFollows
  <2> QED
    BY <2>1, <2>7
<1> QED
  BY <1>2, <1>3


-----------------------------------------------------------------------------
(* Going offline *)

LEMMA ReverseFacts ==
    ASSUME NEW q \in Seq(Ids), IsInjective(q)
    PROVE  /\ Reverse(q) \in Seq(Ids) /\ IsInjective(Reverse(q))
           /\ ToSet(Reverse(q)) = ToSet(q)
<1> DEFINE n == Len(q)
           r == Reverse(q)
<1>1. n \in Nat /\ DOMAIN q = 1 .. n /\ \A i \in 1 .. n : q[i] \in Ids
  OBVIOUS
<1>2. \A i, j \in 1 .. n : q[i] = q[j] => i = j
  BY <1>1 DEF IsInjective
<1> HIDE DEF n
<1>3. \A i \in 1 .. n : (n - i) + 1 \in 1 .. n /\ (n - ((n - i) + 1)) + 1 = i
  BY <1>1
<1>4. r = [i \in 1 .. n |-> q[(n - i) + 1]]
  BY DEF Reverse, n
<1>5. DOMAIN r = 1 .. n /\ \A i \in 1 .. n : r[i] = q[(n - i) + 1] /\ r[i] \in Ids
  BY <1>1, <1>3, <1>4
<1>6. r \in Seq(Ids)
  BY <1>1, <1>3, <1>4
<1> HIDE DEF r
<1>7. ASSUME NEW i \in 1 .. n, NEW j \in 1 .. n, r[i] = r[j] PROVE i = j
  <2>1. (n - i) + 1 = (n - j) + 1
    BY <1>2, <1>3, <1>5, <1>7
  <2> QED
    BY <1>1, <2>1
<1>8. IsInjective(r)
  BY <1>5, <1>7 DEF IsInjective
<1>9. \A i \in 1 .. n : q[i] = r[(n - i) + 1]
  BY <1>3, <1>5
<1>10. ToSet(r) \subseteq ToSet(q)
  BY <1>1, <1>3, <1>5 DEF ToSet
<1>11. ToSet(q) \subseteq ToSet(r)
  BY <1>1, <1>3, <1>5, <1>9 DEF ToSet
<1> QED
  BY <1>6, <1>8, <1>10, <1>11 DEF r

\* c is on its own, offline or gone.
Off(s, t, c) ==
    /\ Alone(t, c)
    /\ s.ent[c].kind = "temp" => t.ent[c].on = "no"
    /\ s.ent[c].kind # "temp" => t.ent[c].on = "offline" /\ t.ent[c].kind = s.ent[c].kind

\* What becomes of everything else.
Apart(s, t, c) ==
    \A y \in Ids \ {c} :
       /\ t.ent[y].on = s.ent[y].on /\ t.ent[y].kind = s.ent[y].kind
       /\ t.ent[y].parent = s.ent[y].parent
       /\ ToSet(t.ent[y].children) = ToSet(s.ent[y].children) \ {c}

LEMMA GoesOfflineGood ==
    ASSUME NEW s \in ServerRecords, Linked(s), NEW C, Conserved(s, C), NEW x \in Ids,
           s.ent[x].on = "online", NEW c \in ToSet(s.ent[x].children), c \in C
    PROVE  LET t == GoesOffline(x, s, c)
           IN  /\ t \in ServerRecords /\ Linked(t) /\ Conserved(t, C)
               /\ Off(s, t, c) /\ Apart(s, t, c)
<1> DEFINE r == Process_event_reject(s, x, c, TRUE)
           t == DestroyRoot(r, c)
<1>1. /\ c \in Ids /\ s.ent[c].parent = x /\ s.ent[c].on = "online"
      /\ s.ent[c].children = <<>>
  BY LinkedFacts
<1>2. r \in ServerRecords /\ Linked(r) /\ Detached(s, r, c) /\ Conserved(r, C)
  BY <1>1, RejectDetaches
<1> HIDE DEF r
<1>3. Alone(r, c) /\ r.ent[c].on = "online" /\ r.ent[c].kind = s.ent[c].kind
  BY <1>1, <1>2 DEF Detached, Alone
<1>4. Becomes(r, t, c, Left(r.ent[c])) /\ Linked(t) /\ Conserved(t, C)
  BY <1>1, <1>2, <1>3, DestroyRootGood
<1> HIDE DEF t
<1>5. r.ent[c] \in EntityRecords
  BY <1>1, <1>2 DEF ServerRecords
<1>6. Alone(t, c) /\ t.ent[c] = Left(r.ent[c])
  BY <1>3, <1>4, <1>5, LeftFacts DEF Alone, Becomes, NoEntity, Entity
<1>7. Off(s, t, c)
  BY <1>3, <1>5, <1>6, LeftFacts DEF Off
<1>8. Apart(s, t, c)
  BY <1>2, <1>4 DEF Detached, Becomes, Apart
<1>9. t \in ServerRecords
  BY <1>4 DEF Becomes
<1> QED
  BY <1>4, <1>7, <1>8, <1>9 DEF t, r, GoesOffline

LEMMA GoesOfflineFollows ==
    ASSUME NEW s \in ServerRecords, Linked(s), NEW x \in Ids,
           s.ent[x].on = "online", NEW c \in ToSet(s.ent[x].children), NEW C, c \in C,
           NEW t, t = GoesOffline(x, s, c)
    PROVE  Follows(s, t, C)
<1> DEFINE r == Process_event_reject(s, x, c, TRUE)
<1>1. /\ c \in Ids /\ s.ent[c].parent = x /\ s.ent[c].on = "online"
      /\ s.ent[c].children = <<>>
  BY LinkedFacts
<1>2. r \in ServerRecords /\ Linked(r) /\ Detached(s, r, c)
  BY <1>1, RejectDetaches
<1>3. Follows(s, r, C)
  BY RejectFollows
<1>4. t = DestroyRoot(r, c)
  BY DEF GoesOffline
<1> HIDE DEF r
<1>5. Alone(r, c) /\ r.ent[c].on = "online"
  BY <1>1, <1>2 DEF Detached, Alone
<1>6. Follows(r, t, C)
  BY <1>1, <1>2, <1>4, <1>5, DestroyRootFollows
<1> QED
  BY <1>3, <1>6, FollowsTrans

\* Perform_destroy(): x and its children are offline, each on its own, and their
\* ids are free until they are claimed again.
LEMMA PerformDestroyGood ==
    ASSUME NEW s, ServerGood(s), NEW x \in Ids, s.ent[x].on = "online",
           s.ent[x].parent = NoID, s.ent[x].kind # "temp"
    PROVE  LET t == Perform_destroy(s, x)
               C == ToSet(s.ent[x].children)
           IN  /\ t \in ServerRecords /\ Linked(t) /\ Conserved(t, C \union {x})
               /\ Off(s, t, x) /\ \A c \in C : Off(s, t, c)
               /\ Follows(s, t, C \union {x})
<1> DEFINE p == s.ent[x].children
           q == Reverse(p)
           n == Len(q)
           C == ToSet(p) \union {x}
           t == Perform_destroy(s, x)
<1>1. s \in ServerRecords /\ Linked(s) /\ Conserved(s, {})
  BY DEF ServerGood
<1>2. p \in Seq(Ids) /\ IsInjective(p)
  BY <1>1 DEF Linked, LinkedAt, ServerRecords, EntityRecords
<1>3. q \in Seq(Ids) /\ IsInjective(q) /\ n \in Nat /\ ToSet(q) = ToSet(p)
  BY <1>2, ReverseFacts
<1>4. \A c \in ToSet(q) : c \in Ids \ {x} /\ s.ent[c].on = "online"
  BY <1>1, <1>3, LinkedFacts
<1>5. Conserved(s, C)
  BY <1>1, <1>3, <1>4 DEF Conserved, Unclaimed
<1>6. PICK g : /\ g[0] = s /\ g[n] = FoldLeft(LAMBDA u, y : GoesOffline(x, u, y), s, q)
               /\ \A i \in 1 .. n : g[i] = GoesOffline(x, g[i - 1], q[i])
  BY <1>1, <1>3, GoesOfflineFolds
<1>7. t = DestroyRoot(g[n], x)
  BY <1>6 DEF Perform_destroy, GoesOffline, FoldLeft, MapThenFoldSet
<1>8. g[0] = s /\ \A i \in 1 .. n : g[i] = GoesOffline(x, g[i - 1], q[i])
  BY <1>6
<1> HIDE DEF q, t, C
<1> DEFINE Reached(u, R) ==
             /\ u \in ServerRecords /\ Linked(u) /\ Conserved(u, C)
             /\ u.ent[x].on = "online" /\ u.ent[x].kind = s.ent[x].kind
             /\ u.ent[x].parent = NoID
             /\ ToSet(u.ent[x].children) = R
             /\ \A y \in R : u.ent[y].kind = s.ent[y].kind
             /\ \A y \in ToSet(q) \ R : Off(s, u, y)
             /\ Follows(s, u, C)
           Q == {i \in 0 .. n : Reached(g[i], Rest(q, i))}
<1>9. 0 \in Q
  <2>1. Reached(s, ToSet(q))
    BY <1>1, <1>3, <1>5, FollowsSelf
  <2> HIDE DEF Reached
  <2> QED
    BY <1>3, <1>8, <2>1, RestFacts
<1>10. ASSUME NEW i \in 1 .. n, i - 1 \in Q
      PROVE  i \in Q
  <2> DEFINE r == g[i - 1]
             u == g[i]
             c == q[i]
             R == Rest(q, i - 1)
  <2>1. Reached(r, R) /\ u = GoesOffline(x, r, c) /\ i \in 0 .. n
    <3> HIDE DEF Reached
    <3> QED
      BY <1>8, <1>10
  <2>2. c \in R /\ Rest(q, i) = R \ {c} /\ c \in ToSet(q)
    <3>1. i \in DOMAIN q
      BY <1>3
    <3> QED
      BY <1>3, <3>1, RestFacts DEF ToSet
  <2> HIDE DEF r, c, R, u
  <2>3. c \in C /\ c \in Ids \ {x}
    BY <1>3, <1>4, <2>2 DEF C
  <2>4. /\ u \in ServerRecords /\ Linked(u) /\ Conserved(u, C)
        /\ Off(r, u, c) /\ Apart(r, u, c)
    BY <2>1, <2>2, <2>3, GoesOfflineGood
  <2>5. /\ u.ent[x].on = "online" /\ u.ent[x].kind = s.ent[x].kind
        /\ u.ent[x].parent = NoID /\ ToSet(u.ent[x].children) = R \ {c}
    BY <2>1, <2>3, <2>4 DEF Apart
  <2>6. ASSUME NEW y \in R \ {c} PROVE u.ent[y].kind = s.ent[y].kind
    <3>1. y \in Ids
      BY <2>1, LinkedFacts
    <3> QED
      BY <2>1, <2>4, <3>1 DEF Apart
  <2>7. ASSUME NEW y \in ToSet(q) \ (R \ {c}) PROVE Off(s, u, y)
    <3>1. CASE y = c
      BY <2>1, <2>2, <2>4, <3>1 DEF Off
    <3>2. CASE y # c
      <4>1. Off(s, r, y) /\ y \in Ids \ {c}
        BY <1>4, <2>1, <2>7, <3>2
      <4>2. /\ u.ent[y].on = r.ent[y].on /\ u.ent[y].kind = r.ent[y].kind
            /\ u.ent[y].parent = r.ent[y].parent
            /\ ToSet(u.ent[y].children) = ToSet(r.ent[y].children) \ {c}
        BY <2>4, <4>1 DEF Apart
      <4>3. ToSet(u.ent[y].children) = {}
        <5>1. r.ent[y].children = <<>> /\ ToSet(<<>>) = {}
          BY <4>1 DEF Off, Alone, ToSet
        <5> QED
          BY <4>2, <5>1
      <4>4. u.ent[y].children = <<>>
        BY <2>4, <4>1, <4>3, NoneLeft DEF ServerRecords, EntityRecords
      <4> QED
        BY <4>1, <4>2, <4>4 DEF Off, Alone
    <3> QED
      BY <3>1, <3>2
  <2>8. Follows(s, u, C)
    <3>1. r \in ServerRecords /\ Linked(r) /\ r.ent[x].on = "online" /\ Follows(s, r, C)
          /\ c \in ToSet(r.ent[x].children)
      BY <2>1, <2>2
    <3>2. Follows(r, u, C)
      BY <2>1, <2>3, <3>1, GoesOfflineFollows
    <3> QED
      BY <3>1, <3>2, FollowsTrans
  <2> QED
    BY <2>1, <2>2, <2>4, <2>5, <2>6, <2>7, <2>8 DEF u
<1>11. n \in Q
  <2> HIDE DEF Q
  <2> QED
    BY <1>3, <1>9, <1>10, StepByStep
<1> DEFINE r == g[n]
<1>12. /\ r \in ServerRecords /\ Linked(r) /\ Conserved(r, C)
       /\ r.ent[x].on = "online" /\ r.ent[x].kind = s.ent[x].kind
       /\ r.ent[x].parent = NoID /\ ToSet(r.ent[x].children) = {}
       /\ \A c \in ToSet(q) : Off(s, r, c)
       /\ Follows(s, r, C)
  BY <1>3, <1>11, RestFacts
<1> HIDE DEF r, n, Q, Reached
<1>13. Alone(r, x)
  BY <1>12, NoneLeft DEF ServerRecords, EntityRecords, Alone
<1>14. Becomes(r, t, x, Left(r.ent[x])) /\ Linked(t) /\ Conserved(t, C)
  <2>1. x \in C
    BY DEF C
  <2>2. t = DestroyRoot(r, x)
    BY <1>7 DEF r
  <2> QED
    BY <1>12, <1>13, <2>1, <2>2, DestroyRootGood
<1>15. Off(s, t, x)
  <2>1. r.ent[x] \in EntityRecords /\ t.ent[x] = Left(r.ent[x])
    BY <1>12, <1>14 DEF ServerRecords, Becomes
  <2> QED
    BY <1>12, <1>13, <2>1, LeftFacts DEF Off, Alone
<1>16. \A c \in ToSet(q) : Off(s, t, c)
  BY <1>4, <1>12, <1>14 DEF Off, Alone, Becomes
<1>17. t \in ServerRecords
  BY <1>14 DEF Becomes
<1>18. Follows(s, t, C)
  <2>1. x \in C
    BY DEF C
  <2>2. t = DestroyRoot(r, x)
    BY <1>7 DEF r
  <2>3. Follows(r, t, C)
    BY <1>12, <1>13, <2>1, <2>2, DestroyRootFollows
  <2> QED
    BY <1>12, <2>3, FollowsTrans
<1> QED
  BY <1>3, <1>14, <1>15, <1>16, <1>17, <1>18 DEF t, C

\* An id that was freed when its entity went offline is claimed again.
Claim(s, x) == [s EXCEPT !.gen = TakeId(@, x)]

LEMMA ClaimGood ==
    ASSUME NEW s \in ServerRecords, Linked(s), NEW C, Conserved(s, C),
           NEW x \in Ids, x \in C, s.ent[x].on = "offline"
    PROVE  LET t == Claim(s, x)
           IN  /\ t \in ServerRecords /\ Linked(t) /\ Conserved(t, C \ {x})
               /\ t.ent = s.ent
<1> DEFINE t == Claim(s, x)
           g == TakeId(s.gen, x)
<1>1. x \in s.gen.free /\ s.gen \in GenRecords /\ Counted(s.gen)
  BY DEF Conserved, Unclaimed, ServerRecords
<1>2. g \in GenRecords /\ Counted(g) /\ g.free = s.gen.free \ {x}
  BY <1>1, GenTyped, TakeCounted
<1> HIDE DEF g
<1>3. t = [s EXCEPT !.gen = g]
  BY DEF Claim, g
<1>4. t \in ServerRecords /\ t.ent = s.ent /\ t.gen = g
  BY <1>2, <1>3 DEF ServerRecords
<1> HIDE DEF t
<1>5. Linked(t)
  BY <1>4 DEF Linked, LinkedAt
<1>6. Unclaimed(t, C \ {x})
  BY <1>2, <1>4 DEF Conserved, Unclaimed
<1> QED
  BY <1>2, <1>4, <1>5, <1>6 DEF Conserved, t

\* c is gone, or x's.
Kept(t, x, c) == t.ent[c].on = "no" \/ t.ent[c].parent = x

\* Child c of x, which is offline, is attached to it again, if it was kept.
Attached(s, t, x, c) ==
    /\ t.ent[x].on = "offline" /\ t.ent[x].kind = "owner"
    /\ \A y \in Ids \ {x, c} : t.ent[y] = s.ent[y]
    /\ Kept(t, x, c)

LEMMA IsAttachedGood ==
    ASSUME NEW r, NEW s \in ServerRecords, Linked(s), NEW C, Conserved(s, C), NEW x \in Ids,
           s.ent[x].on = "offline", s.ent[x].kind = "owner",
           NEW c \in Ids \ {x}, c \in C, Off(r, s, c), r.ent[c].kind # "owner",
           NEW t, t = IsAttached(r, x, s, c)
    PROVE  t \in ServerRecords /\ Linked(t) /\ Conserved(t, C \ {c}) /\ Attached(s, t, x, c)
<1>1. CASE r.ent[c].kind = "temp"
  <2>1. t = s /\ s.ent[c].on = "no"
    BY <1>1 DEF IsAttached, Off
  <2>2. Conserved(t, C \ {c})
    BY <2>1 DEF Conserved, Unclaimed
  <2> QED
    BY <2>1, <2>2 DEF Kept, Attached
<1>2. CASE r.ent[c].kind # "temp"
  <2> DEFINE u == Claim(s, c)
             v == AddChild(u, x, c)
  <2>1. s.ent[c].on = "offline" /\ s.ent[c].kind = r.ent[c].kind /\ Alone(s, c)
    BY <1>2 DEF Off
  <2>2. u \in ServerRecords /\ Linked(u) /\ Conserved(u, C \ {c}) /\ u.ent = s.ent
    BY <2>1, ClaimGood
  <2>3. t = v
    BY <1>2 DEF IsAttached, Claim
  <2> HIDE DEF u
  <2>4. /\ u.ent[x].kind = "owner" /\ u.ent[c].kind # "owner" /\ u.ent[c].parent = NoID
        /\ u.ent[x].on = u.ent[c].on /\ u.ent[c].on # "no"
    BY <2>1, <2>2 DEF Alone
  <2>5. Linked(v) /\ Moves(u, v, x, c, x, Append(u.ent[x].children, c))
    BY <2>2, <2>4, AddLinked
  <2> HIDE DEF v
  <2>6. Conserved(v, C \ {c})
    BY <2>2, <2>5, MovesConserved
  <2>7. v \in ServerRecords /\ v.ent[x].on = "offline" /\ v.ent[x].kind = "owner"
        /\ v.ent[c].parent = x
        /\ \A y \in Ids \ {x, c} : v.ent[y] = s.ent[y]
    BY <2>2, <2>5 DEF Moves
  <2> QED
    BY <2>3, <2>5, <2>6, <2>7 DEF Kept, Attached
<1> QED
  BY <1>1, <1>2

LEMMA ClaimFollows ==
    ASSUME NEW s \in ServerRecords, NEW x \in Ids, s.ent[x].on = "offline",
           s.ent[x].parent = NoID, NEW C, x \in C, NEW t, t = Claim(s, x)
    PROVE  Follows(s, t, C)
<1> DEFINE g == TakeId(s.gen, x)
<1>1. s.gen \in GenRecords
  BY DEF ServerRecords
<1>2. g.age = s.gen.age
  BY <1>1, TakeFields
<1> HIDE DEF g
<1>3. t = [s EXCEPT !.gen = g]
  BY DEF Claim, g
<1>4. t.ent = s.ent /\ t.gen = g /\ t.out = s.out
  BY <1>3 DEF ServerRecords
<1>5. t \in ServerRecords
  BY TakeTyped DEF Claim
<1>6. AgesFall(s, t) /\ Elsewhere(s, t, x)
  BY <1>2, <1>4 DEF AgesFall, Elsewhere, Age
<1>7. Lost(t, x, C)
  BY <1>4 DEF Lost, Holder
<1>8. /\ s.ent[x].on # "online" /\ s.ent[x].on # "no"
      /\ t.ent[x].on # "online" /\ t.ent[x].on # "no"
  BY <1>4
<1> QED
  BY <1>4, <1>5, <1>6, <1>7, <1>8, SilentFollows

LEMMA IsAttachedFollows ==
    ASSUME NEW r, NEW s \in ServerRecords, NEW x \in Ids,
           NEW c \in Ids \ {x}, Off(r, s, c), NEW C, c \in C, x \in C,
           NEW t, t = IsAttached(r, x, s, c)
    PROVE  Follows(s, t, C)
<1>1. CASE r.ent[c].kind = "temp"
  BY <1>1, FollowsSelf DEF IsAttached
<1>2. CASE r.ent[c].kind # "temp"
  <2> DEFINE u == Claim(s, c)
             v == AddChild(u, x, c)
  <2>1. s.ent[c].on = "offline" /\ s.ent[c].parent = NoID
    BY <1>2 DEF Off, Alone
  <2>2. Follows(s, u, C)
    BY <2>1, ClaimFollows
  <2>3. u \in ServerRecords
    BY TakeTyped DEF Claim
  <2>4. u.ent = s.ent
    BY DEF Claim, ServerRecords
  <2>5. t = v
    BY <1>2 DEF IsAttached, Claim
  <2> HIDE DEF u
  <2>6. Moves(u, v, x, c, x, Append(u.ent[x].children, c))
    BY <2>3, AddMoves
  <2> HIDE DEF v
  <2>7. /\ v \in ServerRecords /\ v.gen = u.gen /\ v.out = u.out
        /\ v.ent[c].on = u.ent[c].on /\ v.ent[c].parent = x
    BY <2>6 DEF Moves
  <2>8. Elsewhere(u, v, c)
    BY <2>6 DEF Moves, Elsewhere
  <2>9. AgesFall(u, v)
    BY <2>7 DEF AgesFall, Age
  <2>10. u.ent[c].on = "offline" /\ v.ent[c].on = "offline"
    BY <2>1, <2>4, <2>7
  <2>11. Lost(v, c, C)
    BY <2>7, <2>10, IdFacts DEF Lost, Holder
  <2>12. /\ u.ent[c].on # "online" /\ u.ent[c].on # "no"
         /\ v.ent[c].on # "online" /\ v.ent[c].on # "no"
    BY <2>10
  <2>13. Follows(u, v, C)
    BY <2>3, <2>7, <2>8, <2>9, <2>11, <2>12, SilentFollows
  <2> QED
    BY <2>2, <2>5, <2>13, FollowsTrans
<1> QED
  BY <1>1, <1>2

\* The temporary children are gone, and the others are x's again.
LEMMA RemoveOnlineGood ==
    ASSUME NEW s, ServerGood(s), NEW x \in Ids, s.ent[x].on = "online",
           s.ent[x].parent = NoID, s.ent[x].kind # "temp"
    PROVE  LET t == remove_online(s, x)
               C == ToSet(s.ent[x].children)
           IN  /\ ServerGood(t) /\ Follows(s, t, C \union {x})
               /\ \A c \in C : Kept(t, x, c)
<1> DEFINE q == s.ent[x].children
           n == Len(q)
           b == Perform_destroy(s, x)
           d == Claim(b, x)
           t == remove_online(s, x)
           C == ToSet(q) \union {x}
<1>1. s \in ServerRecords /\ Linked(s)
  BY DEF ServerGood
<1>2. q \in Seq(Ids) /\ IsInjective(q) /\ n \in Nat
  BY <1>1 DEF Linked, LinkedAt, ServerRecords, EntityRecords
<1>3. \A c \in ToSet(q) : c \in Ids \ {x} /\ s.ent[c].kind # "owner" /\ s.ent[x].kind = "owner"
  BY <1>1, LinkedFacts
<1>4. /\ b \in ServerRecords /\ Linked(b) /\ Conserved(b, ToSet(q) \union {x})
      /\ Off(s, b, x) /\ \A c \in ToSet(q) : Off(s, b, c)
      /\ Follows(s, b, C)
  BY PerformDestroyGood
<1>5. t = AttachAll(s, x, d, q)
  BY DEF remove_online, AttachAll, IsAttached, Claim, FoldLeft, MapThenFoldSet
<1> HIDE DEF b
<1>6. /\ d \in ServerRecords /\ Linked(d) /\ d.ent = b.ent
      /\ Conserved(d, (ToSet(q) \union {x}) \ {x})
  <2>1. b.ent[x].on = "offline" /\ x \in ToSet(q) \union {x}
    BY <1>4 DEF Off
  <2> QED
    BY <1>4, <2>1, ClaimGood
<1>17. Follows(s, d, C)
  <2>1. b.ent[x].on = "offline" /\ b.ent[x].parent = NoID
    BY <1>4 DEF Off, Alone
  <2>2. Follows(b, d, C)
    BY <1>4, <2>1, ClaimFollows
  <2> QED
    BY <1>4, <2>2, FollowsTrans
<1> HIDE DEF d, C
<1>7. /\ d.ent[x].on = "offline" /\ d.ent[x].kind = s.ent[x].kind
      /\ \A c \in ToSet(q) : Off(s, d, c)
  BY <1>4, <1>6 DEF Off, Alone
<1>8. (ToSet(q) \union {x}) \ {x} = ToSet(q)
  BY <1>3
<1>9. Conserved(d, ToSet(q))
  BY <1>6, <1>8
<1>10. PICK g : /\ g[0] = d /\ g[n] = AttachAll(s, x, d, q)
                /\ \A i \in 1 .. n : g[i] = IsAttached(s, x, g[i - 1], q[i])
  <2>1. d \in ServerRecords /\ q \in Seq(Ids) /\ x \in Ids
    BY <1>2, <1>6
  <2> HIDE DEF q
  <2> QED
    BY <2>1, IsAttachedFolds
<1>11. t = g[n]
  BY <1>5, <1>10
<1>12. g[0] = d /\ \A i \in 1 .. n : g[i] = IsAttached(s, x, g[i - 1], q[i])
  BY <1>10
<1> HIDE DEF t
<1> DEFINE Reached(u, R) ==
             /\ u \in ServerRecords /\ Linked(u) /\ Conserved(u, R)
             /\ u.ent[x].on = "offline" /\ u.ent[x].kind = s.ent[x].kind
             /\ \A y \in R : Off(s, u, y)
             /\ \A y \in ToSet(q) \ R : Kept(u, x, y)
             /\ Follows(s, u, C)
           Q == {i \in 0 .. n : Reached(g[i], Rest(q, i))}
<1>13. 0 \in Q
  <2>1. Reached(d, ToSet(q))
    BY <1>6, <1>7, <1>9, <1>17
  <2> HIDE DEF Reached
  <2> QED
    BY <1>2, <1>12, <2>1, RestFacts
<1>14. ASSUME NEW i \in 1 .. n, i - 1 \in Q
       PROVE  i \in Q
  <2> DEFINE r == g[i - 1]
             u == g[i]
             c == q[i]
             R == Rest(q, i - 1)
  <2>1. Reached(r, R) /\ u = IsAttached(s, x, r, c) /\ i \in 0 .. n
    <3> HIDE DEF Reached
    <3> QED
      BY <1>12, <1>14
  <2>2. /\ c \in R /\ Rest(q, i) = R \ {c} /\ R \subseteq ToSet(q)
    <3>1. i \in DOMAIN q
      BY <1>2
    <3>2. (i - 1) + 1 .. n \subseteq DOMAIN q
      BY <1>2
    <3> QED
      BY <1>2, <3>1, <3>2, RestFacts DEF Rest, ToSet
  <2> HIDE DEF r, c, R, u
  <2>3. /\ c \in Ids \ {x} /\ Off(s, r, c) /\ s.ent[c].kind # "owner"
        /\ r.ent[x].kind = "owner"
    BY <1>3, <2>1, <2>2
  <2>8. /\ u \in ServerRecords /\ Linked(u) /\ Conserved(u, R \ {c})
        /\ Attached(r, u, x, c)
    <3>1. /\ r \in ServerRecords /\ Linked(r) /\ Conserved(r, R) /\ x \in Ids
          /\ r.ent[x].on = "offline" /\ r.ent[x].kind = "owner"
          /\ c \in Ids \ {x} /\ c \in R /\ Off(s, r, c) /\ s.ent[c].kind # "owner"
      BY <2>1, <2>2, <2>3
    <3>2. u = IsAttached(s, x, r, c)
      BY <2>1
    <3> HIDE DEF Reached, Q
    <3> QED
      BY <3>1, <3>2, IsAttachedGood
  <2>4. /\ u \in ServerRecords /\ Linked(u) /\ Conserved(u, R \ {c})
        /\ u.ent[x].on = "offline" /\ u.ent[x].kind = "owner"
        /\ \A y \in Ids \ {x, c} : u.ent[y] = r.ent[y]
        /\ Kept(u, x, c)
    BY <2>8 DEF Attached
  <2>5. ASSUME NEW y \in R \ {c} PROVE Off(s, u, y)
    <3>1. y \in Ids \ {x, c} /\ Off(s, r, y)
      BY <1>3, <2>1, <2>2
    <3> QED
      BY <2>4, <3>1 DEF Off, Alone
  <2>6. ASSUME NEW y \in ToSet(q) \ (R \ {c}) PROVE Kept(u, x, y)
    BY <1>3, <2>1, <2>4, <2>6 DEF Kept
  <2>7. Follows(s, u, C)
    <3>1. /\ r \in ServerRecords /\ c \in C /\ x \in C /\ c \in Ids \ {x} /\ Off(s, r, c)
          /\ Follows(s, r, C) /\ u = IsAttached(s, x, r, c)
      BY <2>1, <2>2, <2>3 DEF C
    <3>2. Follows(r, u, C)
      BY <3>1, IsAttachedFollows
    <3> QED
      BY <3>1, <3>2, FollowsTrans
  <2> QED
    BY <2>1, <2>2, <2>3, <2>4, <2>5, <2>6, <2>7 DEF u
<1>15. n \in Q
  <2> HIDE DEF Q
  <2> QED
    BY <1>2, <1>13, <1>14, StepByStep
<1>16. /\ t \in ServerRecords /\ Linked(t) /\ Conserved(t, {}) /\ Follows(s, t, C)
       /\ \A y \in ToSet(q) : Kept(t, x, y)
  BY <1>2, <1>11, <1>15, RestFacts
<1> QED
  BY <1>16 DEF t, C, ServerGood

-----------------------------------------------------------------------------
(* Going online *)

GoneOnline(e) == [e EXCEPT !.on = "online"]

LEMMA RespawnFacts ==
    ASSUME NEW s \in ServerRecords, NEW y \in Ids, Counted(s.gen), y \in s.gen.free,
           NEW t, t = Respawn(s, y)
    PROVE  /\ t \in ServerRecords /\ Counted(t.gen) /\ t.gen.free = s.gen.free \ {y}
           /\ t.ent[y] = GoneOnline(s.ent[y])
           /\ \A z \in Ids \ {y} : t.ent[z] = s.ent[z]
<1> DEFINE g == TakeId(s.gen, y)
           r == [s EXCEPT !.gen = g, !.ent[y].on = "online"]
           m == Spawned(s.ent[y].parent, y)
<1>1. t = SendBroadcast(r, m) /\ t \in ServerRecords
  BY RespawnTyped DEF Respawn
<1>2. g \in GenRecords /\ Counted(g) /\ g.free = s.gen.free \ {y}
  BY GenTyped, TakeCounted DEF ServerRecords
<1> HIDE DEF g
<1>3. m \in Messages
  BY MessageTyped DEF ServerRecords, EntityRecords
<1> HIDE DEF m
<1>4. [s.ent EXCEPT ![y].on = "online"] \in [Ids -> EntityRecords]
  BY DEF ServerRecords, EntityRecords
<1>5. /\ r \in ServerRecords /\ r.gen = g
      /\ r.ent = [s.ent EXCEPT ![y].on = "online"]
  BY <1>2, <1>4 DEF ServerRecords
<1> HIDE DEF r
<1>6. t.ent = r.ent /\ t.gen = g
  BY <1>1, <1>3, <1>5, SendTyped
<1>7. t.ent[y] = GoneOnline(s.ent[y]) /\ \A z \in Ids \ {y} : t.ent[z] = s.ent[z]
  BY <1>5, <1>6 DEF ServerRecords, GoneOnline
<1> QED
  BY <1>1, <1>2, <1>6, <1>7

LEMMA GoesOnlineGood ==
    ASSUME NEW s \in ServerRecords, NEW y \in Ids, Counted(s.gen), y \notin s.gen.free,
           s.ent[y].on = "offline", s.ent[y].kind # "temp", NEW t, t = GoesOnline(s, y)
    PROVE  /\ t \in ServerRecords /\ Counted(t.gen) /\ t.gen.free = s.gen.free
           /\ t.ent[y] = GoneOnline(s.ent[y])
           /\ \A z \in Ids \ {y} : t.ent[z] = s.ent[z]
<1> DEFINE r == entity_Destroy(s, y)
<1>1. /\ Becomes(s, r, y, Left(s.ent[y])) /\ Counted(r.gen)
      /\ r.gen.free = s.gen.free \union {y}
  BY EntityDestroyed
<1>2. t = Respawn(r, y)
  BY DEF GoesOnline
<1> HIDE DEF r
<1>3. s.ent[y] \in EntityRecords
  BY DEF ServerRecords
<1>4. Left(s.ent[y]) = s.ent[y]
  BY <1>3 DEF Left, EntityRecords
<1>5. /\ r \in ServerRecords /\ r.ent[y] = s.ent[y] /\ y \in r.gen.free
      /\ \A z \in Ids \ {y} : r.ent[z] = s.ent[z]
  BY <1>1, <1>4 DEF Becomes
<1>6. /\ t \in ServerRecords /\ Counted(t.gen) /\ t.gen.free = r.gen.free \ {y}
      /\ t.ent[y] = GoneOnline(r.ent[y])
      /\ \A z \in Ids \ {y} : t.ent[z] = r.ent[z]
  BY <1>1, <1>2, <1>5, RespawnFacts
<1>7. t.gen.free = s.gen.free
  BY <1>1, <1>6
<1> QED
  BY <1>5, <1>6, <1>7

\* An object appears on the level, at the root or with an owner who is there.
LEMMA GoesOnlineFollows ==
    ASSUME NEW s \in ServerRecords, NEW y \in Ids, Counted(s.gen), y \notin s.gen.free,
           s.ent[y].on = "offline", s.ent[y].kind # "temp",
           NEW p, p = s.ent[y].parent, p = NoID \/ (p \in Ids /\ s.ent[p].on = "online"),
           y \notin Destroys(s.out), NEW C, NEW t, t = GoesOnline(s, y)
    PROVE  Follows(s, t, C) /\ Destroys(t.out) = Destroys(s.out)
<1> DEFINE r == entity_Destroy(s, y)
           g == FreeId(s.gen, y, 0)
<1>1. /\ t \in ServerRecords /\ t.ent[y] = GoneOnline(s.ent[y])
      /\ \A z \in Ids \ {y} : t.ent[z] = s.ent[z]
  BY GoesOnlineGood
<1>2. s.ent[y] \in EntityRecords /\ s.gen \in GenRecords /\ s.out \in Seq(Messages)
  BY DEF ServerRecords
<1>3. Left(s.ent[y]) = s.ent[y]
  BY <1>2 DEF Left, EntityRecords
<1>4. /\ Becomes(s, r, y, Left(s.ent[y])) /\ r.out = s.out
  BY EntityDestroyed
<1>5. r.gen = g
  BY DEF entity_Destroy, ServerRecords
<1>6. g \in GenRecords
  <2>1. 0 \in 0 .. MaxAge
    BY AgeAssumption
  <2> QED
    BY <1>2, <2>1, GenTyped
<1>20. Spawned(p, y) \in Messages /\ Spawned(p, y).type = "spawn"
  <2>1. p \in Ids \union {NoID}
    BY <1>2 DEF EntityRecords
  <2> QED
    BY <2>1, MessageTyped, MessageFields
<1>7. \A z \in Ids : g.age[Block(z)] = s.gen.age[Block(z)] \/ g.age[Block(z)] = 0
  BY <1>2, FreeAges
<1> HIDE DEF r, g
<1>8. r \in ServerRecords /\ r.ent[y].parent = p
  BY <1>3, <1>4 DEF Becomes
<1> DEFINE h == TakeId(g, y)
           u == [r EXCEPT !.gen = TakeId(@, y), !.ent[y].on = "online"]
           m == Spawned(p, y)
<1>9. t = SendBroadcast(u, m)
  BY <1>8 DEF GoesOnline, Respawn, r
<1>10. h.age = g.age
  BY <1>6, TakeFields
<1>11. u.gen = h /\ u.out = s.out
  BY <1>4, <1>5, <1>8 DEF ServerRecords
<1>21. h \in GenRecords
  BY <1>6, GenTyped
<1>22. u \in ServerRecords
  <2>1. [r.ent EXCEPT ![y].on = "online"] \in [Ids -> EntityRecords]
    BY <1>8 DEF ServerRecords, EntityRecords
  <2>2. r.gen = g
    BY <1>5
  <2> HIDE DEF h
  <2>3. u = [r EXCEPT !.gen = h, !.ent[y].on = "online"]
    BY <2>2 DEF h
  <2> QED
    BY <1>8, <1>21, <2>1, <2>3 DEF ServerRecords
<1> HIDE DEF h, u
<1>12. t.gen = u.gen /\ t.out = Append(u.out, m)
  <2> HIDE DEF m
  <2>1. m \in Messages
    BY <1>20 DEF m
  <2> QED
    BY <1>9, <1>22, <2>1, SendFacts
<1>13. t.out = Append(s.out, m)
  BY <1>11, <1>12
<1>14. AgesFall(s, t)
  BY <1>7, <1>10, <1>11, <1>12 DEF AgesFall, Age
<1>15. Elsewhere(s, t, y)
  BY <1>1 DEF Elsewhere
<1>16. t.ent[y].on = "online" /\ t.ent[y].parent = p
  BY <1>1, <1>2 DEF GoneOnline, EntityRecords
<1>17. Follows(s, t, C)
  <2>1. s.ent[y].on # "online"
    OBVIOUS
  <2> QED
    BY <1>1, <1>13, <1>14, <1>15, <1>16, <2>1, AppearFollows
<1>18. m \in Messages /\ m.type = "spawn"
  BY <1>20
<1>19. Destroys(t.out) = Destroys(s.out)
  <2> HIDE DEF m
  <2>1. Destroys(t.out) = Destroys(s.out) \union (IF m.type = "destroy" THEN {m.id} ELSE {})
    BY <1>2, <1>13, <1>18, AppendFacts
  <2> QED
    BY <1>18, <2>1
<1> QED
  BY <1>17, <1>19

\* Once a root and all its children have changed sides the tree is linked again.
SidesChanged(s, u, D) ==
    /\ \A y \in Ids \ D : u.ent[y] = s.ent[y]
    /\ \A y \in D : u.ent[y] = GoneOnline(s.ent[y])

LEMMA SideLinked ==
    ASSUME NEW s \in ServerRecords, Linked(s), NEW x \in Ids, s.ent[x].parent = NoID,
           NEW u, SidesChanged(s, u, {x} \union ToSet(s.ent[x].children))
    PROVE  Linked(u)
<1> DEFINE D == {x} \union ToSet(s.ent[x].children)
<1>1. D \subseteq Ids
  BY LinkedFacts
<1>2. ASSUME NEW y \in Ids
      PROVE  /\ u.ent[y].kind = s.ent[y].kind /\ u.ent[y].parent = s.ent[y].parent
             /\ u.ent[y].children = s.ent[y].children
             /\ y \in D => u.ent[y].on = "online"
             /\ y \notin D => u.ent[y] = s.ent[y]
  <2>1. s.ent[y] \in EntityRecords
    BY DEF ServerRecords
  <2>2. /\ GoneOnline(s.ent[y]).kind = s.ent[y].kind
        /\ GoneOnline(s.ent[y]).parent = s.ent[y].parent
        /\ GoneOnline(s.ent[y]).children = s.ent[y].children
        /\ GoneOnline(s.ent[y]).on = "online"
    BY <2>1 DEF GoneOnline, EntityRecords
  <2> QED
    BY <2>2 DEF SidesChanged
<1>3. ASSUME NEW y \in Ids, s.ent[y].parent # NoID
      PROVE  s.ent[y].parent \in Ids /\ (y \in D <=> s.ent[y].parent \in D)
  <2> DEFINE p == s.ent[y].parent
  <2>1. p \in Ids /\ y \in ToSet(s.ent[p].children)
    BY <1>3, LinkedFacts
  <2>2. y \in D => p = x
    BY <1>3, LinkedFacts
  <2>3. p \in D => p = x
    <3>1. \A c \in ToSet(s.ent[x].children) : ToSet(s.ent[c].children) = {}
      <4>1. \A c \in ToSet(s.ent[x].children) : s.ent[c].children = <<>>
        BY LinkedFacts
      <4>2. ToSet(<<>>) = {}
        BY DEF ToSet
      <4> QED
        BY <4>1, <4>2
    <3> QED
      BY <2>1, <3>1
  <2> QED
    BY <2>1, <2>2, <2>3
<1> HIDE DEF D
<1>4. ASSUME NEW y \in Ids PROVE LinkedAt(u, y)
  <2>1. LinkedAt(s, y)
    BY DEF Linked
  <2>2. u.ent[y].on = "no" => u.ent[y] = NoEntity
    BY <1>2, <2>1 DEF LinkedAt
  <2>3. u.ent[y].on = "offline" => u.ent[y].kind # "temp"
    BY <1>2, <2>1 DEF LinkedAt
  <2>4. /\ u.ent[y].kind # "owner" => u.ent[y].children = <<>>
        /\ IsInjective(u.ent[y].children)
    BY <1>2, <2>1 DEF LinkedAt
  <2>5. ASSUME u.ent[y].parent # NoID
        PROVE  /\ u.ent[y].kind # "owner" /\ u.ent[u.ent[y].parent].kind = "owner"
               /\ u.ent[u.ent[y].parent].on = u.ent[y].on
               /\ y \in ToSet(u.ent[u.ent[y].parent].children)
    <3> DEFINE p == s.ent[y].parent
    <3>1. u.ent[y].parent = p /\ p # NoID /\ p \in Ids /\ (y \in D <=> p \in D)
      BY <1>2, <1>3, <2>5
    <3>2. /\ s.ent[y].kind # "owner" /\ s.ent[p].kind = "owner"
          /\ s.ent[p].on = s.ent[y].on /\ y \in ToSet(s.ent[p].children)
      BY <2>1, <3>1 DEF LinkedAt
    <3> HIDE DEF p
    <3>3. u.ent[p].on = u.ent[y].on
      BY <1>2, <3>1, <3>2
    <3> QED
      BY <1>2, <3>1, <3>2, <3>3
  <2>6. ASSUME NEW c \in ToSet(u.ent[y].children) PROVE u.ent[c].parent = y
    <3>1. c \in ToSet(s.ent[y].children)
      BY <1>2, <2>6
    <3>2. c \in Ids /\ s.ent[c].parent = y
      BY <3>1, LinkedFacts
    <3> QED
      BY <1>2, <3>2
  <2> QED
    BY <2>2, <2>3, <2>4, <2>5, <2>6 DEF LinkedAt
<1> QED
  BY <1>4 DEF Linked

LEMMA AddOnlineGood ==
    ASSUME NEW s, ServerGood(s), NEW x \in Ids, s.ent[x].on = "offline",
           s.ent[x].parent = NoID
    PROVE  /\ ServerGood(add_online(s, x))
           /\ Destroys(s.out) \cap ({x} \union ToSet(s.ent[x].children)) = {}
                => Follows(s, add_online(s, x), {})
<1> DEFINE p == s.ent[x].children
           D == {x} \union ToSet(p)
           q == <<x>> \o p
           n == Len(q)
           t == add_online(s, x)
<1>1. s \in ServerRecords /\ Linked(s) /\ Conserved(s, {})
  BY DEF ServerGood
<1>2. p \in Seq(Ids) /\ IsInjective(p)
  BY <1>1 DEF Linked, LinkedAt, ServerRecords, EntityRecords
<1>3. \A y \in D : y \in Ids /\ s.ent[y].on = "offline"
  BY <1>1, LinkedFacts
<1>4. \A y \in D : s.ent[y].kind # "temp" /\ y \notin s.gen.free
  BY <1>1, <1>3 DEF Conserved, Unclaimed, Linked, LinkedAt
<1>5. x \notin ToSet(p)
  BY <1>1, LinkedFacts
<1>17. s.ent[x].parent = NoID /\ \A y \in D \ {x} : s.ent[y].parent = x
  BY <1>1, LinkedFacts
<1> HIDE DEF p
<1>6. q \in Seq(Ids) /\ IsInjective(q) /\ ToSet(q) = D /\ n \in Nat
  <2>1. <<x>> \in Seq(Ids) /\ IsInjective(<<x>>) /\ ToSet(<<x>>) = {x}
    BY DEF IsInjective, ToSet
  <2>2. ToSet(<<x>>) \cap ToSet(p) = {}
    BY <1>5, <2>1
  <2>3. q \in Seq(Ids) /\ IsInjective(q) /\ ToSet(q) = ToSet(<<x>>) \union ToSet(p)
    <3> DEFINE h == <<x>>
    <3>1. h \in Seq(Ids) /\ IsInjective(h) /\ ToSet(h) \cap ToSet(p) = {}
      BY <2>1, <2>2
    <3> HIDE DEF h
    <3>2. /\ h \o p \in Seq(Ids) /\ IsInjective(h \o p)
          /\ ToSet(h \o p) = ToSet(h) \union ToSet(p)
      BY <1>2, <3>1, ConcatApart
    <3> QED
      BY <3>2 DEF h
  <2> QED
    BY <2>1, <2>3
<1>18. q[1] = x /\ 1 \in DOMAIN q
  BY <1>2
<1>7. t = FoldLeft(GoesOnline, s, q)
  BY DEF add_online, GoesOnline, p, FoldLeft, MapThenFoldSet
<1> HIDE DEF q, t
<1>8. PICK g : /\ g[0] = s /\ g[n] = FoldLeft(GoesOnline, s, q)
               /\ \A i \in 1 .. n : g[i] = GoesOnline(g[i - 1], q[i])
  BY <1>1, <1>6, GoesOnlineFolds
<1>9. t = g[n]
  BY <1>7, <1>8
<1>10. g[0] = s /\ \A i \in 1 .. n : g[i] = GoesOnline(g[i - 1], q[i])
  BY <1>8
<1>19. \A i \in 1 .. n : q[i] = x \/ x \notin Rest(q, i - 1)
  <2>1. DOMAIN q = 1 .. n
    BY <1>6
  <2>2. \A i, j \in 1 .. n : q[i] = q[j] => i = j
    BY <1>6, <2>1 DEF IsInjective
  <2> HIDE DEF n
  <2>3. ASSUME NEW i \in 1 .. n, q[i] # x PROVE x \notin Rest(q, i - 1)
    <3>1. i > 1 /\ n \in Nat
      BY <1>6, <1>18, <2>1, <2>3
    <3>2. \A j \in (i - 1) + 1 .. n : j \in 1 .. n /\ j # 1
      BY <3>1
    <3>3. \A j \in (i - 1) + 1 .. n : q[j] # x
      BY <1>18, <2>1, <2>2, <3>2
    <3> QED
      BY <3>3 DEF Rest, n
  <2> QED
    BY <2>3
<1> DEFINE Clear == Destroys(s.out) \cap D = {}
<1> HIDE DEF D
<1> DEFINE Reached(u, R) ==
             /\ u \in ServerRecords /\ Counted(u.gen) /\ u.gen.free = s.gen.free
             /\ R \subseteq D /\ SidesChanged(s, u, D \ R)
             /\ Clear => Follows(s, u, {}) /\ Destroys(u.out) = Destroys(s.out)
           Q == {i \in 0 .. n : Reached(g[i], Rest(q, i))}
<1>11. 0 \in Q
  <2>1. Reached(s, D)
    BY <1>1, FollowsSelf DEF Conserved, SidesChanged
  <2> HIDE DEF Reached
  <2> QED
    BY <1>6, <1>10, <2>1, RestFacts
<1>12. ASSUME NEW i \in 1 .. n, i - 1 \in Q
       PROVE  i \in Q
  <2> DEFINE r == g[i - 1]
             u == g[i]
             c == q[i]
             R == Rest(q, i - 1)
  <2>1. Reached(r, R) /\ u = GoesOnline(r, c) /\ i \in 0 .. n
    <3> HIDE DEF Reached
    <3> QED
      BY <1>10, <1>12
  <2>2. c \in R /\ Rest(q, i) = R \ {c} /\ (c = x \/ x \notin R)
    BY <1>6, <1>19, RestFacts
  <2> HIDE DEF r, c, R, u
  <2>3. /\ c \in D /\ c \in Ids /\ s.ent[c].on = "offline" /\ s.ent[c].kind # "temp"
        /\ c \notin r.gen.free
    BY <1>3, <1>4, <2>1, <2>2
  <2>4. r.ent[c] = s.ent[c]
    BY <2>1, <2>2, <2>3 DEF SidesChanged
  <2>5. /\ u \in ServerRecords /\ Counted(u.gen) /\ u.gen.free = r.gen.free
        /\ u.ent[c] = GoneOnline(r.ent[c])
        /\ \A z \in Ids \ {c} : u.ent[z] = r.ent[z]
    <3>1. r \in ServerRecords /\ Counted(r.gen) /\ u = GoesOnline(r, c)
      BY <2>1
    <3> QED
      BY <2>3, <2>4, <3>1, GoesOnlineGood
  <2>6. SidesChanged(s, u, D \ (R \ {c}))
    <3>1. \A y \in Ids \ (D \ (R \ {c})) : y # c /\ y \in Ids \ (D \ R)
      BY <2>3
    <3>2. \A y \in D \ (R \ {c}) : y \in Ids /\ (y = c \/ y \in D \ R)
      BY <1>3
    <3> QED
      BY <2>1, <2>4, <2>5, <3>1, <3>2 DEF SidesChanged
  <2>7. ASSUME Clear PROVE Follows(s, u, {}) /\ Destroys(u.out) = Destroys(s.out)
    <3> DEFINE p1 == r.ent[c].parent
    <3>1. r \in ServerRecords /\ Counted(r.gen) /\ u = GoesOnline(r, c)
          /\ Follows(s, r, {}) /\ Destroys(r.out) = Destroys(s.out)
      BY <2>1, <2>7
    <3>2. p1 = NoID \/ (p1 \in Ids /\ r.ent[p1].on = "online")
      <4>1. CASE c = x
        BY <1>17, <2>4, <4>1
      <4>2. CASE c # x
        <5>1. p1 = x /\ x \in D \ R
          BY <1>17, <2>2, <2>3, <2>4, <4>2 DEF D
        <5>2. r.ent[x] = GoneOnline(s.ent[x])
          BY <2>1, <5>1 DEF SidesChanged
        <5>3. s.ent[x] \in EntityRecords
          BY <1>1 DEF ServerRecords
        <5> QED
          BY <5>1, <5>2, <5>3 DEF GoneOnline, EntityRecords
      <4> QED
        BY <4>1, <4>2
    <3>3. c \notin Destroys(r.out) /\ r.ent[c].on = "offline" /\ r.ent[c].kind # "temp"
      BY <2>3, <2>4, <2>7, <3>1
    <3>4. p1 = r.ent[c].parent
      OBVIOUS
    <3> HIDE DEF p1
    <3>5. Follows(r, u, {}) /\ Destroys(u.out) = Destroys(r.out)
      BY <2>3, <3>1, <3>2, <3>3, <3>4, GoesOnlineFollows
    <3> QED
      BY <3>1, <3>5, FollowsTrans
  <2> QED
    BY <2>1, <2>2, <2>5, <2>6, <2>7 DEF u
<1>13. n \in Q
  <2> HIDE DEF Q
  <2> QED
    BY <1>6, <1>11, <1>12, StepByStep
<1>14. /\ t \in ServerRecords /\ Counted(t.gen) /\ t.gen.free = s.gen.free
       /\ SidesChanged(s, t, D) /\ (Clear => Follows(s, t, {}))
  <2>1. Rest(q, n) = {} /\ D \ {} = D
    BY <1>6, RestFacts
  <2> QED
    BY <1>9, <1>13, <2>1
<1>15. Linked(t)
  BY <1>1, <1>14, SideLinked DEF D, p
<1>16. Unclaimed(t, {})
  <2>1. \A y \in D : t.ent[y].on = "online" /\ s.ent[y].on # "no"
    <3>1. \A y \in D : s.ent[y] \in EntityRecords
      BY <1>1, <1>3 DEF ServerRecords
    <3> QED
      BY <1>3, <1>14, <3>1 DEF SidesChanged, GoneOnline, EntityRecords
  <2>2. \A y \in Ids : t.ent[y].on = "no" <=> s.ent[y].on = "no"
    BY <1>14, <2>1 DEF SidesChanged
  <2> QED
    BY <1>1, <1>14, <2>2 DEF Conserved, Unclaimed
<1> QED
  BY <1>14, <1>15, <1>16 DEF t, ServerGood, Conserved, D, p

-----------------------------------------------------------------------------
(* The world *)

LEMMA EmptyGood == ServerGood(EmptyServer)
<1> DEFINE s == EmptyServer
           g == FullGenerator
<1>1. FullBlocks(g) = Blocks
  <2>1. \A b \in Blocks : b \intersect Ids # {}
    BY BlocksAssumption DEF Ids
  <2> QED
    BY <2>1 DEF FullBlocks, FreeIn, FullGenerator
<1>2. Cardinality(Blocks) \in Nat
  BY BlocksAssumption, FS_CardinalityType
<1>3. g \in GenRecords
  BY <1>2, AgeAssumption DEF FullGenerator, GenRecords
<1>4. g.free = Ids /\ Counted(g)
  BY <1>1 DEF FullGenerator, Counted
<1> HIDE DEF g
<1>5. s.gen = g /\ \A x \in Ids : s.ent[x] = NoEntity
  BY DEF EmptyServer, g
<1>6. s \in ServerRecords
  <2>1. [x \in Ids |-> NoEntity] \in [Ids -> EntityRecords]
    BY NoEntityTyped
  <2>2. <<>> \in Seq(Messages)
    BY EmptySeq
  <2> QED
    BY <1>3, <2>1, <2>2 DEF EmptyServer, ServerRecords, g
<1> HIDE DEF s
<1>7. /\ NoEntity.on = "no" /\ NoEntity.kind = "item" /\ NoEntity.parent = NoID
      /\ NoEntity.children = <<>>
  BY DEF NoEntity, Entity
<1>8. IsInjective(<<>>) /\ ToSet(<<>>) = {}
  BY DEF IsInjective, ToSet
<1>9. Linked(s)
  BY <1>5, <1>7, <1>8 DEF Linked, LinkedAt
<1>10. Unclaimed(s, {})
  BY <1>4, <1>5, <1>7 DEF Unclaimed
<1> QED
  BY <1>4, <1>5, <1>6, <1>9, <1>10 DEF ServerGood, Conserved, s

LEMMA FrameGood ==
    ASSUME NEW s, ServerGood(s), NEW g \in {s.gen, Older(s.gen)},
           NEW t, t = [s EXCEPT !.gen = g, !.out = <<>>]
    PROVE  ServerGood(t)
<1>1. s \in ServerRecords /\ Linked(s) /\ Conserved(s, {}) /\ s.gen \in GenRecords
  BY DEF ServerGood, ServerRecords
<1>2. g \in GenRecords /\ g.free = s.gen.free /\ g.available = s.gen.available
  <2>1. Older(s.gen).free = s.gen.free /\ Older(s.gen).available = s.gen.available
    BY <1>1 DEF Older, GenRecords
  <2>2. Older(s.gen) \in GenRecords
    <3>1. [b \in Blocks |-> IF s.gen.age[b] < MaxAge THEN s.gen.age[b] + 1 ELSE s.gen.age[b]]
            \in [Blocks -> 0 .. MaxAge]
      BY <1>1, AgeAssumption DEF GenRecords
    <3> QED
      BY <1>1, <3>1 DEF Older, GenRecords
  <2> QED
    BY <1>1, <2>1, <2>2
<1>3. t \in ServerRecords /\ t.ent = s.ent /\ t.gen = g
  BY <1>1, <1>2, EmptySeq DEF ServerRecords
<1>4. Linked(t)
  BY <1>1, <1>3 DEF Linked, LinkedAt
<1>5. Conserved(t, {})
  BY <1>1, <1>2, <1>3 DEF Conserved, Unclaimed, Counted, FullBlocks, FreeIn
<1> QED
  BY <1>3, <1>4, <1>5 DEF ServerGood

LEMMA InitGood == Init => ServerGood(server)
<1> SUFFICES ASSUME Init PROVE ServerGood(server)
  OBVIOUS
<1> DEFINE s == Process_spawn(EmptyServer, Zero, "owner", NoID)
<1>1. Zero \in EmptyServer.gen.free
  BY IdFacts DEF EmptyServer, FullGenerator
<1>2. ServerGood(s)
  BY <1>1, EmptyGood, SpawnGood DEF Kinds
<1>3. server = [s EXCEPT !.out = <<>>]
  BY DEF Init
<1> HIDE DEF s
<1>4. server = [s EXCEPT !.gen = s.gen, !.out = <<>>]
  BY <1>2, <1>3 DEF ServerGood, ServerRecords
<1> QED
  BY <1>2, <1>4, FrameGood

\* What the guards of the requests say of the ids they name.
LEMMA OwnerFacts ==
    /\ OwnerIds \subseteq Owners
    /\ \A p \in Owners : p \in Ids /\ server.ent[p].kind = "owner" /\ server.ent[p].on # "no"
BY DEF OwnerIds, Owners, Entities, Known

LEMMA NewFacts ==
    ASSUME NEW x \in NewIds(server.gen)
    PROVE  x \in server.gen.free
BY DEF NewIds

LEMMA RequestGood ==
    ASSUME ServerGood(server), NextRequest
    PROVE  ServerGood(server')
<1>1. ASSUME NEW p \in OwnerIds, NEW x \in ClientIds \ OwnerIds, RequestTake(p, x)
      PROVE  ServerGood(server')
  <2>1. server' = Process_event_ownership(server, p, x, Valid(client))
    BY <1>1 DEF RequestTake, ServerRequest, Request
  <2>2. server.ent[p].kind = "owner"
    BY OwnerFacts
  <2>3. Online(server, x) => server.ent[x].kind # "owner"
    BY DEF OwnerIds, Owners, Entities, Known, Online
  <2> QED
    BY <2>1, <2>2, <2>3, OwnershipGood
<1>2. ASSUME NEW p, NEW x, RequestReject(p, x)
      PROVE  ServerGood(server')
  <2>1. server' = Process_event_reject(server, p, x, TRUE)
    BY <1>2 DEF RequestReject, ServerRequest, Request
  <2> QED
    BY <2>1, RejectGood
<1>3. ASSUME NEW o, DestroyObject(o)
      PROVE  ServerGood(server')
  <2>1. server' = IF client.obj[o].bDestroy THEN server
                  ELSE Process_event_destroy(server, client.obj[o].id)
    BY <1>3 DEF DestroyObject, Request
  <2> QED
    BY <2>1, DestroyGood
<1>4. ASSUME NEW x \in NewIds(server.gen), NEW p \in OwnerIds \union {NoID},
             NEW kind \in {"item", "temp"}, RequestSpawn(x, kind, p)
      PROVE  ServerGood(server')
  <2>1. server' = Process_spawn(server, x, kind, p)
    BY <1>4 DEF RequestSpawn, ServerRequest, Request
  <2>2. p # NoID => server.ent[p].kind = "owner"
    BY OwnerFacts
  <2>3. kind \in Kinds /\ kind # "owner"
    BY DEF Kinds
  <2> QED
    BY <2>1, <2>2, <2>3, NewFacts, SpawnGood
<1>5. ASSUME NEW x \in NewIds(server.gen), NEW p \in Owners \union {NoID},
             Create(x, "item", p)
      PROVE  ServerGood(server')
  <2>1. server' = spawn_item2(server, x, "item", p)
    BY <1>5 DEF Create, ServerRequest, Request
  <2>2. p # NoID => p \in Ids /\ server.ent[p].kind = "owner" /\ server.ent[p].on # "no"
    BY OwnerFacts
  <2>3. "item" \in Kinds \ {"temp"} /\ "item" # "owner"
    BY DEF Kinds
  <2> QED
    BY <2>1, <2>2, <2>3, NewFacts, SpawnItemGood
<1>6. ASSUME NEW x \in NewIds(server.gen), Create(x, "owner", NoID)
      PROVE  ServerGood(server')
  <2>1. server' = spawn_item2(server, x, "owner", NoID)
    BY <1>6 DEF Create, ServerRequest, Request
  <2>2. "owner" \in Kinds \ {"temp"}
    BY DEF Kinds
  <2> QED
    BY <2>1, <2>2, NewFacts, SpawnItemGood
<1>7. ASSUME NEW x \in Entities, Release(x)
      PROVE  ServerGood(server')
  <2>1. server' = IF Online(server, x) THEN Process_event_destroy(server, x)
                  ELSE release(server, x)
    BY <1>7 DEF Release, ServerRequest, Request
  <2>2. ~Online(server, x) => x \in Ids /\ server.ent[x].on = "offline"
    BY DEF Entities, Known, Online, ServerGood, ServerRecords, EntityRecords
  <2> QED
    BY <2>1, <2>2, DestroyGood, ReleaseGood
<1> QED
  BY <1>1, <1>2, <1>3, <1>4, <1>5, <1>6, <1>7 DEF NextRequest

LEMMA SwitchGood ==
    ASSUME ServerGood(server), NEW x, SwitchObject(x)
    PROVE  ServerGood(server')
<1>1. /\ x \in Ids /\ server.ent[x].on # "no" /\ server.ent[x].parent = NoID
      /\ server.ent[x].kind # "temp"
      /\ server' = IF Online(server, x) THEN remove_online(server, x)
                   ELSE add_online(server, x)
  BY DEF SwitchObject, Known, Root
<1>2. server.ent[x].on \in {"online", "offline"}
  BY <1>1 DEF ServerGood, ServerRecords, EntityRecords
<1>3. Online(server, x) <=> server.ent[x].on = "online"
  BY <1>1 DEF Online
<1> QED
  BY <1>1, <1>2, <1>3, RemoveOnlineGood, AddOnlineGood

LEMMA FrameStepGood ==
    ASSUME ServerGood(server), FrameStep
    PROVE  ServerGood(server')
<1>1. ASSUME NEW c, NEW p, NEW x, Attach(c, p, x)
      PROVE  ServerGood(server')
  <2>1. server' \in {server, Process_event_reject(server, p, x, TRUE)}
    BY <1>1 DEF Attach
  <2> QED
    BY <2>1, RejectGood
<1>2. CASE Receive
  <2>1. server' = server \/ \E c, p, x : Attach(c, p, x)
    BY <1>2 DEF Receive
  <2> QED
    BY <1>1, <2>1
<1>3. CASE DestroyNext \/ NothingToDestroy
  BY <1>3 DEF DestroyNext, NothingToDestroy
<1>4. CASE NextFrame
  <2>1. server' = [server EXCEPT !.gen = Older(@), !.out = <<>>]
    BY <1>4 DEF NextFrame
  <2> DEFINE g == Older(server.gen)
  <2>2. server' = [server EXCEPT !.gen = g, !.out = <<>>]
    BY <2>1
  <2> HIDE DEF g
  <2> QED
    BY <2>2, FrameGood DEF g
<1> QED
  BY <1>2, <1>3, <1>4 DEF FrameStep

\* The inductive invariant: the tree is linked and the ids are conserved, between
\* any two steps of the program.
THEOREM ServerGoodHolds == Spec => []ServerGood(server)
<1>1. Init => ServerGood(server)
  BY InitGood
<1>2. ServerGood(server) /\ [Next]_vars => ServerGood(server)'
  <2> SUFFICES ASSUME ServerGood(server), [Next]_vars PROVE ServerGood(server)'
    OBVIOUS
  <2>1. CASE NextRequest
    BY <2>1, RequestGood
  <2>2. ASSUME NEW x, SwitchObject(x) PROVE ServerGood(server)'
    BY <2>2, SwitchGood
  <2>3. CASE FrameStep
    BY <2>3, FrameStepGood
  <2>4. CASE UNCHANGED vars
    BY <2>4 DEF vars
  <2> QED
    BY <2>1, <2>2, <2>3, <2>4 DEF Next
<1> QED
  BY <1>1, <1>2, PTL DEF Spec

\* Each child is listed once by the parent it names, and both are on the same side
\* of the online border: what verify_entities() and the switch manager's VERIFYs
\* demand holds in every state, with whatever the client asks for.
THEOREM TreeConsistentHolds == Spec => []TreeConsistent
<1>1. ASSUME ServerGood(server) PROVE TreeConsistent
  <2>0. server \in ServerRecords /\ Linked(server)
    BY <1>1 DEF ServerGood
  <2>1. ASSUME NEW x \in Entities, server.ent[x].parent # NoID
        PROVE  LET p == server.ent[x].parent
               IN  /\ server.ent[p].on = server.ent[x].on
                   /\ Cardinality({k \in DOMAIN server.ent[p].children :
                                     server.ent[p].children[k] = x}) = 1
    <3> DEFINE p == server.ent[x].parent
               q == server.ent[p].children
               K == {k \in DOMAIN q : q[k] = x}
    <3>1. x \in Ids
      BY DEF Entities
    <3>2. p \in Ids /\ server.ent[p].on = server.ent[x].on /\ x \in ToSet(q)
      BY <2>0, <2>1, <3>1, LinkedFacts
    <3>3. IsInjective(q)
      BY <2>0, <3>2 DEF Linked, LinkedAt
    <3> HIDE DEF q
    <3>4. PICK k \in DOMAIN q : q[k] = x
      BY <3>2 DEF ToSet
    <3>5. K = {k}
      BY <3>3, <3>4 DEF IsInjective
    <3>6. Cardinality(K) = 1
      BY <3>5, FS_Singleton
    <3> QED
      BY <3>2, <3>6 DEF q
  <2>2. ASSUME NEW x \in Entities, NEW c \in Range(server.ent[x].children)
        PROVE  Known(server, c) /\ server.ent[c].parent = x
    <3>1. x \in Ids /\ c \in ToSet(server.ent[x].children)
      BY DEF Entities, Range, ToSet
    <3> QED
      BY <2>0, <3>1, LinkedFacts DEF Known
  <2> QED
    BY <2>1, <2>2 DEF TreeConsistent
<1> QED
  BY <1>1, ServerGoodHolds, PTL

\* The ids the generator may hand out are those of no entity, and it has counted
\* the blocks that have some: no handler leaks an id or frees one twice.
THEOREM IdsConservedHolds == Spec => []IdsConserved
<1>1. ASSUME ServerGood(server) PROVE IdsConserved
  <2>1. Unclaimed(server, {}) /\ Counted(server.gen)
    BY <1>1 DEF ServerGood, Conserved
  <2>2. server.gen.free = Ids \ Entities
    BY <2>1 DEF Unclaimed, Entities, Known
  <2> QED
    BY <2>1, <2>2 DEF IdsConserved, Counted, FullBlocks
<1> QED
  BY <1>1, ServerGoodHolds, PTL

\* The server's part of the type invariant.
THEOREM ServerTyped == Spec => [](server \in Servers)
<1>1. ASSUME ServerGood(server) PROVE server \in Servers
  <2>1. server \in ServerRecords /\ server.gen.available \in Nat
    BY <1>1, FullFinite DEF ServerGood, Conserved, Counted
  <2>2. server.gen \in Generators
    BY <2>1 DEF ServerRecords, GenRecords, Generators
  <2> QED
    BY <2>1, <2>2 DEF Servers, ServerRecords, EntityRecords
<1> QED
  BY <1>1, ServerGoodHolds, PTL

-----------------------------------------------------------------------------
(* The client's objects *)

\* The object with id x is there, and is not dying.
Shown(c, x) == c.map_NETID[x] # null /\ ~c.obj[c.map_NETID[x]].bDestroy
ClientTree(c) ==
    [x \in Ids |-> IF ~Shown(c, x) THEN Gone
                   ELSE IF c.obj[c.map_NETID[x]].parent = null THEN NoID
                   ELSE c.obj[c.obj[c.map_NETID[x]].parent].id]

\* map_NETID and the objects name each other; what has been deleted leaves nothing
\* behind; the dying objects are those of destroy_queue, and neither held nor owners.
MapGood(c) ==
    /\ \A o \in Pointers : /\ c.obj[o].id = NoID => c.obj[o] = Deleted
                           /\ c.obj[o].id # NoID => c.map_NETID[c.obj[o].id] = o
    /\ \A x \in Ids : c.map_NETID[x] # null => c.obj[c.map_NETID[x]].id = x
QueueGood(c) ==
    /\ IsInjective(c.destroy_queue)
    /\ ToSet(c.destroy_queue) = {o \in Pointers : c.obj[o].bDestroy}
HeldAt(c, o) ==
    LET p == c.obj[o].parent
    IN  p # null => c.obj[p].id # NoID /\ ~c.obj[o].bDestroy /\ ~c.obj[p].bDestroy
ClientGood(c) ==
    c \in Clients /\ MapGood(c) /\ QueueGood(c) /\ \A o \in Pointers : HeldAt(c, o)

Objects == [id : Ids \union {NoID}, parent : Pointers \union {null},
            bDestroy : BOOLEAN, m_bObjectRemoved : BOOLEAN]

LEMMA ClientTyped ==
    ASSUME NEW c \in Clients
    PROVE  /\ c.obj \in [Pointers -> Objects] /\ c.map_NETID \in [Ids -> Pointers \union {null}]
           /\ c.destroy_queue \in Seq(Pointers)
           /\ c = [obj |-> c.obj, map_NETID |-> c.map_NETID, destroy_queue |-> c.destroy_queue]
BY DEF Clients, Objects

LEMMA DeletedFacts ==
    /\ Deleted \in Objects /\ Deleted.id = NoID /\ Deleted.parent = null
    /\ Deleted.bDestroy = FALSE
BY DEF Deleted, Objects

\* An object that is there has an address.
LEMMA MapFacts ==
    ASSUME NEW c, ClientGood(c), NEW x \in Ids, c.map_NETID[x] # null
    PROVE  LET o == c.map_NETID[x]
           IN  /\ o \in Pointers /\ c.obj[o] \in Objects /\ c.obj[o].id = x
               /\ c.obj[o].parent \in Pointers \union {null}
               /\ c.obj[o].parent # null =>
                    /\ c.obj[o].parent \in Pointers
                    /\ c.obj[c.obj[o].parent].id \in Ids
                    /\ c.map_NETID[c.obj[c.obj[o].parent].id] = c.obj[o].parent
                    /\ ~c.obj[c.obj[o].parent].bDestroy
<1>1. c \in Clients /\ MapGood(c) /\ \A q \in Pointers : HeldAt(c, q)
  BY DEF ClientGood
<1>2. /\ c.obj \in [Pointers -> Objects]
      /\ c.map_NETID \in [Ids -> Pointers \union {null}]
  BY <1>1, ClientTyped
<1> DEFINE o == c.map_NETID[x]
           p == c.obj[o].parent
<1>3. o \in Pointers /\ c.obj[o] \in Objects /\ c.obj[o].id = x
  BY <1>1, <1>2 DEF MapGood
<1>4. p \in Pointers \union {null}
  BY <1>3 DEF Objects
<1>5. ASSUME p # null
      PROVE  p \in Pointers /\ c.obj[p].id \in Ids /\ c.map_NETID[c.obj[p].id] = p
             /\ ~c.obj[p].bDestroy
  <2>1. HeldAt(c, o) /\ p \in Pointers
    BY <1>1, <1>3, <1>4, <1>5
  <2>2. c.obj[p].id # NoID /\ ~c.obj[p].bDestroy
    BY <1>5, <2>1 DEF HeldAt
  <2>3. c.obj[p] \in Objects
    BY <1>2, <2>1
  <2>4. c.obj[p].id \in Ids
    BY <2>2, <2>3 DEF Objects
  <2> QED
    BY <1>1, <2>1, <2>2, <2>4 DEF MapGood
<1> QED
  BY <1>3, <1>4, <1>5

\* What the tree says of an object.
LEMMA TreeFacts ==
    ASSUME NEW c, ClientGood(c), NEW x \in Ids
    PROVE  LET o == c.map_NETID[x]
               V == ClientTree(c)
           IN  /\ V \in Trees
               /\ V[x] = Gone <=> ~Shown(c, x)
               /\ V[x] = NoID <=> Shown(c, x) /\ c.obj[o].parent = null
               /\ \A p \in Ids : V[x] = p <=>
                    /\ Shown(c, x) /\ c.obj[o].parent # null
                    /\ c.obj[o].parent = c.map_NETID[p] /\ Shown(c, p)
<1> DEFINE V == ClientTree(c)
<1>1. ASSUME NEW y \in Ids
      PROVE  V[y] \in Ids \union {NoID, Gone}
  <2>1. Shown(c, y) => c.map_NETID[y] # null
    BY DEF Shown
  <2> QED
    BY <2>1, MapFacts DEF ClientTree
<1>2. V \in Trees
  BY <1>1 DEF Trees, ClientTree
<1> DEFINE o == c.map_NETID[x]
           p == c.obj[o].parent
<1>3. V[x] = IF ~Shown(c, x) THEN Gone ELSE IF p = null THEN NoID ELSE c.obj[p].id
  BY DEF ClientTree
<1>4. Shown(c, x) /\ p # null =>
        p \in Pointers /\ c.obj[p].id \in Ids /\ c.map_NETID[c.obj[p].id] = p
        /\ ~c.obj[p].bDestroy
  BY MapFacts DEF Shown
<1>5. V[x] = Gone <=> ~Shown(c, x)
  BY <1>3, <1>4, GoneFact
<1>6. V[x] = NoID <=> Shown(c, x) /\ p = null
  BY <1>3, <1>4, GoneFact, IdFacts
<1>7. ASSUME NEW y \in Ids
      PROVE  V[x] = y <=> Shown(c, x) /\ p # null /\ p = c.map_NETID[y] /\ Shown(c, y)
  <2>1. ASSUME V[x] = y
        PROVE  Shown(c, x) /\ p # null /\ p = c.map_NETID[y] /\ Shown(c, y)
    <3>1. Shown(c, x) /\ p # null /\ c.obj[p].id = y
      BY <1>3, <2>1, GoneFact, IdFacts
    <3> QED
      BY <1>4, <3>1 DEF Shown
  <2>2. ASSUME Shown(c, x), p # null, p = c.map_NETID[y], Shown(c, y)
        PROVE  V[x] = y
    <3>1. c.obj[p].id = y
      <4>1. c.map_NETID[y] # null
        BY <2>2 DEF Shown
      <4>2. c.obj[c.map_NETID[y]].id = y
        BY <4>1, MapFacts
      <4> QED
        BY <2>2, <4>2
    <3> QED
      BY <1>3, <2>2, <3>1
  <2> QED
    BY <2>1, <2>2
<1> QED
  BY <1>2, <1>5, <1>6, <1>7

LEMMA ShownFacts ==
    ASSUME NEW c, ClientGood(c)
    PROVE  \A y \in Ids : Shown(c, y) <=> ClientTree(c)[y] # Gone
BY TreeFacts

LEMMA LiveFacts ==
    ASSUME NEW c, ClientGood(c)
    PROVE  Live(c) = {o \in Pointers : c.obj[o].id # NoID}
BY DeletedFacts DEF Live, ClientGood, MapGood

\* A client that differs from another in one object's parent: attached to an object
\* that is there, or detached.
SetHolder(c, o, p) == [c EXCEPT !.obj[o].parent = p]

LEMMA SetHolderFacts ==
    ASSUME NEW c, ClientGood(c), NEW o \in Pointers, NEW p \in Pointers \union {null},
           NEW d, d = SetHolder(c, o, p)
    PROVE  /\ d \in Clients /\ d.map_NETID = c.map_NETID
           /\ d.destroy_queue = c.destroy_queue
           /\ \A q \in Pointers : /\ d.obj[q].id = c.obj[q].id
                                  /\ d.obj[q].bDestroy = c.obj[q].bDestroy
           /\ d.obj[o].parent = p
           /\ \A q \in Pointers \ {o} : d.obj[q] = c.obj[q]
<1>1. c \in Clients
  BY DEF ClientGood
<1>2. c.obj \in [Pointers -> Objects]
  BY <1>1, ClientTyped
<1> DEFINE e == [c.obj EXCEPT ![o].parent = p]
<1>3. e \in [Pointers -> Objects]
  BY <1>2 DEF Objects
<1>4. d.obj = e /\ d.map_NETID = c.map_NETID /\ d.destroy_queue = c.destroy_queue
  BY <1>1 DEF SetHolder, Clients
<1>5. d \in Clients
  BY <1>1, <1>3 DEF SetHolder, Clients, Objects
<1>6. \A q \in Pointers : e[q].id = c.obj[q].id /\ e[q].bDestroy = c.obj[q].bDestroy
  BY <1>2 DEF Objects
<1>7. e[o].parent = p /\ \A q \in Pointers \ {o} : e[q] = c.obj[q]
  BY <1>2 DEF Objects
<1> QED
  BY <1>4, <1>5, <1>6, <1>7

LEMMA SetHolderGood ==
    ASSUME NEW c, ClientGood(c), NEW x \in Ids, Shown(c, x),
           NEW p \in Ids \union {NoID}, p # NoID => Shown(c, p),
           NEW o, o = c.map_NETID[x],
           NEW d, d = SetHolder(c, o, IF p = NoID THEN null ELSE c.map_NETID[p])
    PROVE  /\ ClientGood(d) /\ d.map_NETID = c.map_NETID
           /\ ClientTree(d) = [ClientTree(c) EXCEPT ![x] = p]
<1> DEFINE h == IF p = NoID THEN null ELSE c.map_NETID[p]
<1>1. c \in Clients /\ MapGood(c) /\ QueueGood(c) /\ \A q \in Pointers : HeldAt(c, q)
  BY DEF ClientGood
<1>2. o \in Pointers /\ c.obj[o].id = x /\ o # null /\ ~c.obj[o].bDestroy
  BY MapFacts DEF Shown
<1>3. h \in Pointers \union {null} /\ (p # NoID => h # null /\ h \in Pointers)
      /\ (h # null => c.obj[h].id = p /\ ~c.obj[h].bDestroy /\ p \in Ids)
  <2>1. CASE p = NoID
    BY <2>1
  <2>2. CASE p # NoID
    <3>1. p \in Ids /\ Shown(c, p)
      BY <2>2
    <3> QED
      BY <2>2, <3>1, MapFacts DEF Shown
  <2> QED
    BY <2>1, <2>2
<1>4. h = null <=> p = NoID
  BY <1>3
<1>5. d = SetHolder(c, o, h)
  OBVIOUS
<1> HIDE DEF h
<1>6. /\ d \in Clients /\ d.map_NETID = c.map_NETID
      /\ d.destroy_queue = c.destroy_queue
      /\ \A q \in Pointers : /\ d.obj[q].id = c.obj[q].id
                             /\ d.obj[q].bDestroy = c.obj[q].bDestroy
      /\ d.obj[o].parent = h
      /\ \A q \in Pointers \ {o} : d.obj[q] = c.obj[q]
  BY <1>2, <1>3, <1>5, SetHolderFacts
<1>7. c.map_NETID \in [Ids -> Pointers \union {null}] /\ c.obj \in [Pointers -> Objects]
  BY <1>1, ClientTyped
<1>8. MapGood(d)
  <2>1. ASSUME NEW q \in Pointers, d.obj[q].id = NoID PROVE d.obj[q] = Deleted
    BY <1>1, <1>2, <1>6, <2>1, IdFacts DEF MapGood
  <2>2. ASSUME NEW q \in Pointers, d.obj[q].id # NoID PROVE d.map_NETID[d.obj[q].id] = q
    BY <1>1, <1>6, <2>2 DEF MapGood
  <2>3. ASSUME NEW y \in Ids, d.map_NETID[y] # null PROVE d.obj[d.map_NETID[y]].id = y
    BY <1>1, <1>6, <1>7, <2>3 DEF MapGood
  <2> QED
    BY <2>1, <2>2, <2>3 DEF MapGood
<1>9. QueueGood(d)
  BY <1>1, <1>6 DEF QueueGood
<1>10. ASSUME NEW q \in Pointers PROVE HeldAt(d, q)
  <2>1. CASE q = o
    <3>1. h # null => d.obj[h].id # NoID /\ ~d.obj[o].bDestroy /\ ~d.obj[h].bDestroy
      BY <1>2, <1>3, <1>6, IdFacts
    <3> QED
      BY <1>6, <2>1, <3>1 DEF HeldAt
  <2>2. CASE q # o
    <3>1. d.obj[q] = c.obj[q] /\ HeldAt(c, q)
      BY <1>1, <1>6, <2>2
    <3>2. c.obj[q].parent \in Pointers \union {null}
      BY <1>7 DEF Objects
    <3> QED
      BY <1>6, <3>1, <3>2 DEF HeldAt
  <2> QED
    BY <2>1, <2>2
<1>11. ClientGood(d)
  BY <1>6, <1>8, <1>9, <1>10 DEF ClientGood
<1>12. ASSUME NEW y \in Ids
       PROVE  ClientTree(d)[y] = [ClientTree(c) EXCEPT ![x] = p][y]
  <2> DEFINE q == c.map_NETID[y]
  <2>1. q \in Pointers \union {null}
    BY <1>7
  <2>2. Shown(d, y) <=> Shown(c, y)
    BY <1>6, <2>1 DEF Shown
  <2>3. ClientTree(c) \in Trees
    BY TreeFacts
  <2>4. CASE y = x
    <3>1. ClientTree(d)[x] = IF h = null THEN NoID ELSE d.obj[h].id
      BY <1>6, <2>2, <2>4 DEF ClientTree
    <3>2. ClientTree(d)[x] = p
      BY <1>3, <1>4, <1>6, <3>1
    <3> QED
      BY <2>3, <2>4, <3>2 DEF Trees
  <2>5. CASE y # x
    <3>1. [ClientTree(c) EXCEPT ![x] = p][y] = ClientTree(c)[y]
      BY <2>3, <2>5 DEF Trees
    <3>2. CASE Shown(c, y)
      <4>1. q \in Pointers /\ q # o /\ c.obj[q].parent \in Pointers \union {null}
        <5>1. q # null
          BY <3>2 DEF Shown
        <5>2. q \in Pointers /\ c.obj[q].id = y
          BY <5>1, MapFacts
        <5> QED
          BY <1>2, <1>7, <2>5, <5>2 DEF Objects
      <4>2. d.obj[q] = c.obj[q]
        BY <1>6, <4>1
      <4>3. /\ ClientTree(c)[y] = IF c.obj[q].parent = null THEN NoID
                                  ELSE c.obj[c.obj[q].parent].id
            /\ ClientTree(d)[y] = IF d.obj[q].parent = null THEN NoID
                                  ELSE d.obj[d.obj[q].parent].id
        BY <1>6, <2>2, <3>2 DEF ClientTree
      <4> HIDE DEF q
      <4>4. ClientTree(d)[y] = ClientTree(c)[y]
        BY <1>6, <4>1, <4>2, <4>3
      <4> QED
        BY <3>1, <4>4
    <3>3. CASE ~Shown(c, y)
      BY <2>2, <3>1, <3>3 DEF ClientTree
    <3> QED
      BY <3>2, <3>3
  <2> QED
    BY <2>4, <2>5
<1>13. ClientTree(d) = [ClientTree(c) EXCEPT ![x] = p]
  <2>1. ClientTree(d) \in Trees /\ ClientTree(c) \in Trees
    BY <1>11, TreeFacts
  <2> DEFINE U == ClientTree(d)
             V == ClientTree(c)
  <2> HIDE DEF U, V
  <2>2. U \in Trees /\ V \in Trees /\ \A y \in Ids : U[y] = [V EXCEPT ![x] = p][y]
    BY <1>12, <2>1 DEF U, V
  <2>3. U = [V EXCEPT ![x] = p]
    BY <2>2 DEF Trees
  <2> QED
    BY <2>3 DEF U, V
<1> QED
  BY <1>6, <1>11, <1>13

LEMMA AttachGood ==
    ASSUME NEW c, ClientGood(c), NEW x \in Ids, Shown(c, x), NEW p \in Ids, Shown(c, p),
           NEW d, d = SetHolder(c, c.map_NETID[x], c.map_NETID[p])
    PROVE  /\ ClientGood(d) /\ d.map_NETID = c.map_NETID
           /\ ClientTree(d) = [ClientTree(c) EXCEPT ![x] = p]
<1> DEFINE o == c.map_NETID[x]
           a == IF p = NoID THEN null ELSE c.map_NETID[p]
<1>1. p \in Ids \union {NoID} /\ p # NoID /\ a = c.map_NETID[p]
  BY NoIdAssumption
<1> HIDE DEF o
<1>2. d = SetHolder(c, o, a) /\ o = c.map_NETID[x]
  BY <1>1 DEF o
<1> QED
  BY <1>1, <1>2, SetHolderGood

LEMMA DetachGood ==
    ASSUME NEW c, ClientGood(c), NEW x \in Ids, Shown(c, x),
           NEW d, d = SetHolder(c, c.map_NETID[x], null)
    PROVE  /\ ClientGood(d) /\ d.map_NETID = c.map_NETID
           /\ ClientTree(d) = [ClientTree(c) EXCEPT ![x] = NoID]
<1> DEFINE o == c.map_NETID[x]
           p == NoID
           a == IF p = NoID THEN null ELSE c.map_NETID[p]
<1>1. p \in Ids \union {NoID} /\ a = null
  OBVIOUS
<1> HIDE DEF o, p
<1>2. d = SetHolder(c, o, a) /\ o = c.map_NETID[x] /\ p = NoID
  BY <1>1 DEF o, p
<1>3. /\ ClientGood(d) /\ d.map_NETID = c.map_NETID
      /\ ClientTree(d) = [ClientTree(c) EXCEPT ![x] = p]
  BY <1>1, <1>2, SetHolderGood
<1> QED
  BY <1>2, <1>3

\* The objects' memory: g_sv_Spawn() finds a free address.
LEMMA FreePointer ==
    ASSUME NEW c, ClientGood(c), NEW x \in Ids, c.map_NETID[x] = null
    PROVE  \E o \in Pointers : o \notin Live(c)
<1> SUFFICES ASSUME Pointers \subseteq Live(c) PROVE FALSE
  OBVIOUS
<1>1. c \in Clients /\ MapGood(c)
  BY DEF ClientGood
<1>2. \A o \in Pointers : c.obj[o].id # NoID
  BY LiveFacts
<1>3. \A o \in Pointers : /\ c.obj[o].id \in Ids /\ c.map_NETID[c.obj[o].id] = o
  BY <1>1, <1>2, ClientTyped DEF MapGood, Objects
<1> DEFINE f == [o \in Pointers |-> c.obj[o].id]
<1>4. f \in [Pointers -> Ids \ {x}]
  BY <1>3, ClientAssumption
<1>5. /\ IsFiniteSet(Ids \ {x}) /\ Cardinality(Ids \ {x}) = Cardinality(Ids) - 1
      /\ Cardinality(Ids) \in Nat
  BY MemoryAssumption, FS_RemoveElement, FS_CardinalityType
<1>6. Cardinality(Pointers) \in Nat
  BY MemoryAssumption, FS_CardinalityType
<1>7. Cardinality(Ids \ {x}) < Cardinality(Pointers)
  BY <1>5, <1>6, MemoryAssumption
<1>8. \A o, q \in Pointers : f[o] = f[q] => o = q
  BY <1>3
<1> HIDE DEF f
<1>9. \E o, q \in Pointers : o # q /\ f[o] = f[q]
  <2>1. IsFiniteSet(Pointers) /\ IsFiniteSet(Ids \ {x})
    BY <1>5, MemoryAssumption
  <2> QED
    BY <1>4, <1>7, <2>1, FS_PigeonHole
<1> QED
  BY <1>8, <1>9

\* g_sv_Spawn() of an object that is not there: nobody holds it yet.
Arrive(c, x, o) ==
    [c EXCEPT !.obj[o] = [Deleted EXCEPT !.id = x], !.map_NETID[x] = o]

Arrived(c, x, o, d) ==
    /\ d \in Clients /\ d.destroy_queue = c.destroy_queue
    /\ d.map_NETID[x] = o
    /\ \A y \in Ids \ {x} : d.map_NETID[y] = c.map_NETID[y]
    /\ d.obj[o].id = x /\ d.obj[o].parent = null /\ d.obj[o].bDestroy = FALSE
    /\ \A q \in Pointers \ {o} : d.obj[q] = c.obj[q]

LEMMA ArriveFacts ==
    ASSUME NEW c, ClientGood(c), NEW o \in Pointers, NEW x \in Ids
    PROVE  Arrived(c, x, o, Arrive(c, x, o))
<1> DEFINE d == Arrive(c, x, o)
<1>1. c \in Clients
  BY DEF ClientGood
<1>2. /\ c.obj \in [Pointers -> Objects]
      /\ c.map_NETID \in [Ids -> Pointers \union {null}]
  BY <1>1, ClientTyped
<1> DEFINE e == [Deleted EXCEPT !.id = x]
<1>3. /\ e \in Objects /\ e.id = x /\ e.parent = null /\ e.bDestroy = FALSE
  BY DEF Deleted, Objects
<1> HIDE DEF e
<1>4. d = [c EXCEPT !.obj[o] = e, !.map_NETID[x] = o]
  BY DEF Arrive, e
<1>5. /\ d.obj = [c.obj EXCEPT ![o] = e]
      /\ d.map_NETID = [c.map_NETID EXCEPT ![x] = o]
      /\ d.destroy_queue = c.destroy_queue
  BY <1>1, <1>4 DEF Clients
<1>6. d \in Clients
  <2>1. [c.obj EXCEPT ![o] = e] \in [Pointers -> Objects]
    BY <1>2, <1>3
  <2>2. [c.map_NETID EXCEPT ![x] = o] \in [Ids -> Pointers \union {null}]
    BY <1>2
  <2>3. d = [obj |-> [c.obj EXCEPT ![o] = e], map_NETID |-> [c.map_NETID EXCEPT ![x] = o],
             destroy_queue |-> c.destroy_queue]
    BY <1>1, <1>4 DEF Clients
  <2>4. c.destroy_queue \in Seq(Pointers)
    BY <1>1, ClientTyped
  <2> HIDE DEF d
  <2> QED
    BY <2>1, <2>2, <2>3, <2>4 DEF Clients, Objects
<1> HIDE DEF d
<1> QED
  BY <1>2, <1>3, <1>5, <1>6 DEF d, Arrived

LEMMA ArriveGood ==
    ASSUME NEW c, ClientGood(c), NEW x \in Ids, c.map_NETID[x] = null,
           NEW o \in Pointers, o \notin Live(c), NEW d, d = Arrive(c, x, o)
    PROVE  /\ ClientGood(d)
           /\ \A y \in Ids \ {x} : d.map_NETID[y] = c.map_NETID[y]
           /\ \A y \in Ids \ {x} : Shown(d, y) <=> Shown(c, y)
           /\ Shown(d, x)
           /\ ClientTree(d) = [ClientTree(c) EXCEPT ![x] = NoID]
<1>1. c \in Clients /\ MapGood(c) /\ QueueGood(c) /\ \A q \in Pointers : HeldAt(c, q)
  BY DEF ClientGood
<1>2. c.obj[o] = Deleted /\ c.obj[o].id = NoID /\ ~c.obj[o].bDestroy
  BY DeletedFacts DEF Live
<1>3. /\ d \in Clients /\ d.destroy_queue = c.destroy_queue
      /\ d.map_NETID[x] = o
      /\ \A y \in Ids \ {x} : d.map_NETID[y] = c.map_NETID[y]
      /\ d.obj[o].id = x /\ d.obj[o].parent = null /\ d.obj[o].bDestroy = FALSE
      /\ \A q \in Pointers \ {o} : d.obj[q] = c.obj[q]
  <2>1. Arrived(c, x, o, d)
    BY ArriveFacts
  <2> QED
    BY <2>1 DEF Arrived
<1>4. c.map_NETID \in [Ids -> Pointers \union {null}] /\ c.obj \in [Pointers -> Objects]
  BY <1>1, ClientTyped
\* Nobody named o, and nobody was held by it.
<1>5. \A y \in Ids : c.map_NETID[y] # o
  BY <1>1, <1>2, ClientAssumption, IdFacts DEF MapGood
<1>6. \A q \in Pointers : c.obj[q].parent # o
  BY <1>1, <1>2, ClientAssumption DEF HeldAt
<1>7. o # null
  BY ClientAssumption
<1>8. MapGood(d)
  <2>1. ASSUME NEW q \in Pointers, d.obj[q].id = NoID PROVE d.obj[q] = Deleted
    BY <1>1, <1>3, <2>1, IdFacts DEF MapGood
  <2>2. ASSUME NEW q \in Pointers, d.obj[q].id # NoID PROVE d.map_NETID[d.obj[q].id] = q
    <3>1. CASE q = o
      BY <1>3, <3>1
    <3>2. CASE q # o
      <4>1. d.obj[q] = c.obj[q] /\ c.map_NETID[c.obj[q].id] = q /\ c.obj[q].id \in Ids
        BY <1>1, <1>3, <1>4, <2>2, <3>2 DEF MapGood, Objects
      <4>2. c.obj[q].id # x
        BY <4>1, ClientAssumption
      <4> QED
        BY <1>3, <4>1, <4>2
    <3> QED
      BY <3>1, <3>2
  <2>3. ASSUME NEW y \in Ids, d.map_NETID[y] # null PROVE d.obj[d.map_NETID[y]].id = y
    <3>1. CASE y = x
      BY <1>3, <3>1
    <3>2. CASE y # x
      <4>1. d.map_NETID[y] = c.map_NETID[y] /\ c.map_NETID[y] \in Pointers \ {o}
        BY <1>3, <1>4, <1>5, <2>3, <3>2
      <4> QED
        BY <1>1, <1>3, <2>3, <4>1 DEF MapGood
    <3> QED
      BY <3>1, <3>2
  <2> QED
    BY <2>1, <2>2, <2>3 DEF MapGood
<1>9. QueueGood(d)
  <2>1. \A q \in Pointers : d.obj[q].bDestroy <=> c.obj[q].bDestroy
    BY <1>2, <1>3
  <2> QED
    BY <1>1, <1>3, <2>1 DEF QueueGood
<1>10. ASSUME NEW q \in Pointers PROVE HeldAt(d, q)
  <2>1. CASE q = o
    BY <1>3, <2>1 DEF HeldAt
  <2>2. CASE q # o
    <3>1. d.obj[q] = c.obj[q] /\ HeldAt(c, q)
      BY <1>1, <1>3, <2>2
    <3>2. c.obj[q].parent \in Pointers \union {null} /\ c.obj[q].parent # o
      BY <1>4, <1>6 DEF Objects
    <3> QED
      BY <1>3, <3>1, <3>2 DEF HeldAt
  <2> QED
    BY <2>1, <2>2
<1>11. ClientGood(d)
  BY <1>3, <1>8, <1>9, <1>10 DEF ClientGood
<1>12. Shown(d, x)
  BY <1>3, <1>7 DEF Shown
<1>13. ASSUME NEW y \in Ids \ {x}
       PROVE  (Shown(d, y) <=> Shown(c, y)) /\ ClientTree(d)[y] = ClientTree(c)[y]
  <2> DEFINE q == c.map_NETID[y]
  <2>1. d.map_NETID[y] = q /\ q # o /\ q \in Pointers \union {null}
    BY <1>3, <1>4, <1>5
  <2>2. q # null => d.obj[q] = c.obj[q] /\ q \in Pointers
    BY <1>3, <2>1
  <2>3. Shown(d, y) <=> Shown(c, y)
    BY <2>1, <2>2 DEF Shown
  <2>4. CASE Shown(c, y)
    <3>1. q # null
      BY <2>4 DEF Shown
    <3>2. c.obj[q].parent \in Pointers \union {null} /\ c.obj[q].parent # o
      BY <1>4, <1>6, <2>2, <3>1 DEF Objects
    <3>3. /\ ClientTree(c)[y] = IF c.obj[q].parent = null THEN NoID
                                ELSE c.obj[c.obj[q].parent].id
          /\ ClientTree(d)[y] = IF d.obj[q].parent = null THEN NoID
                                ELSE d.obj[d.obj[q].parent].id
      BY <2>1, <2>3, <2>4 DEF ClientTree
    <3>4. d.obj[q] = c.obj[q]
      BY <2>2, <3>1
    <3> HIDE DEF q
    <3> QED
      BY <1>3, <2>3, <3>2, <3>3, <3>4
  <2>5. CASE ~Shown(c, y)
    BY <2>3, <2>5 DEF ClientTree
  <2> QED
    BY <2>3, <2>4, <2>5
<1>14. ClientTree(d)[x] = NoID
  BY <1>3, <1>12 DEF ClientTree
<1>15. ClientTree(d) = [ClientTree(c) EXCEPT ![x] = NoID]
  <2>1. ClientTree(d) \in Trees /\ ClientTree(c) \in Trees
    BY <1>11, TreeFacts
  <2> DEFINE U == ClientTree(d)
             V == ClientTree(c)
  <2>2. U \in Trees /\ V \in Trees /\ U[x] = NoID /\ \A y \in Ids \ {x} : U[y] = V[y]
    BY <1>13, <1>14, <2>1
  <2> HIDE DEF U, V
  <2>3. U = [V EXCEPT ![x] = NoID]
    BY <2>2 DEF Trees
  <2> QED
    BY <2>3 DEF U, V
<1> QED
  BY <1>3, <1>11, <1>12, <1>13, <1>15

LEMMA SpawnArrives ==
    ASSUME NEW c, ClientGood(c), NEW x \in Ids, c.map_NETID[x] = null
    PROVE  \E o \in Pointers : o \notin Live(c) /\ Spawn(c, x) = Arrive(c, x, o)
<1> DEFINE o == CHOOSE q \in Pointers \ Live(c) : TRUE
<1>1. \E q \in Pointers \ Live(c) : TRUE
  BY FreePointer
<1>2. o \in Pointers \ Live(c)
  BY <1>1
<1>4. Spawn(c, x) = Arrive(c, x, o)
  BY DEF Spawn, Arrive
<1> HIDE DEF o
<1> QED
  BY <1>2, <1>4

\* One object of register_object_to_destroy().
Register(d, q) == [d EXCEPT !.obj[q].bDestroy = TRUE, !.destroy_queue = Append(@, q)]

RegisterFields(c, o, d) ==
    /\ d \in Clients /\ d.map_NETID = c.map_NETID
    /\ d.destroy_queue = Append(c.destroy_queue, o)
    /\ d.obj = [c.obj EXCEPT ![o].bDestroy = TRUE]

LEMMA RegisterFacts ==
    ASSUME NEW c \in Clients, NEW o \in Pointers
    PROVE  RegisterFields(c, o, Register(c, o))
<1> DEFINE e == [c.obj EXCEPT ![o].bDestroy = TRUE]
           q == Append(c.destroy_queue, o)
           d == [c EXCEPT !.obj = e]
<1>1. /\ c.obj \in [Pointers -> Objects] /\ c.map_NETID \in [Ids -> Pointers \union {null}]
      /\ c.destroy_queue \in Seq(Pointers)
      /\ c = [obj |-> c.obj, map_NETID |-> c.map_NETID, destroy_queue |-> c.destroy_queue]
  BY ClientTyped
<1>2. e \in [Pointers -> Objects]
  BY <1>1 DEF Objects
<1>3. q \in Seq(Pointers)
  BY <1>1
<1>4. Register(c, o) = [d EXCEPT !.destroy_queue = q]
  BY <1>1 DEF Register
<1> HIDE DEF e, q
<1>5. d = [obj |-> e, map_NETID |-> c.map_NETID, destroy_queue |-> c.destroy_queue]
  BY <1>1
<1> HIDE DEF d
<1>6. Register(c, o) = [obj |-> e, map_NETID |-> c.map_NETID, destroy_queue |-> q]
  BY <1>4, <1>5
<1>7. Register(c, o) \in Clients
  BY <1>1, <1>2, <1>3, <1>6 DEF Clients, Objects
<1> QED
  BY <1>6, <1>7 DEF e, q, RegisterFields

LEMMA RegisterTyped ==
    ASSUME NEW c \in Clients, NEW o \in Pointers
    PROVE  Register(c, o) \in Clients
BY RegisterFacts DEF RegisterFields

LEMMA RegisterFolds ==
    ASSUME NEW s \in Clients, NEW q \in Seq(Pointers)
    PROVE  \E g : /\ g[0] = s /\ g[Len(q)] = FoldLeft(Register, s, q)
                 /\ \A i \in 1 .. Len(q) : g[i] = Register(g[i - 1], q[i])
<1> DEFINE n == Len(q)
           F == [v \in Clients \X Pointers |-> Register(v[1], v[2])]
           Solves(h) == h = [u \in SUBSET (1 .. n) |->
                               IF u = {} THEN s ELSE Register(h[u \ {Max(u)}], q[Max(u)])]
           c == CHOOSE h : Solves(h)
<1>1. /\ n \in Nat /\ q \in [1 .. n -> Pointers] /\ DOMAIN q = 1 .. n
      /\ F \in [Clients \X Pointers -> Clients]
  BY RegisterTyped
<1>2. PICK f \in [SUBSET (1 .. n) -> Clients] :
         \A u \in SUBSET (1 .. n) : FoldsOn(f, F, s, q, u)
  <2> HIDE DEF F, n, c, Solves
  <2>1. FoldInput(Clients, Pointers, F, s, n, q)
    BY <1>1 DEF FoldInput
  <2>2. FoldExists(Clients, F, s, n, q)
    BY <2>1, FoldSolved
  <2> QED
    BY <2>2 DEF FoldExists
<1>3. Solves(f)
  <2> SUFFICES ASSUME NEW u \in SUBSET (1 .. n)
               PROVE  f[u] = IF u = {} THEN s ELSE Register(f[u \ {Max(u)}], q[Max(u)])
    BY <1>2
  <2>1. u # {} => f[u \ {Max(u)}] \in Clients /\ q[Max(u)] \in Pointers
    <3>1. u # {} => Max(u) \in u
      BY <1>1, MaxIn
    <3> QED
      BY <1>1, <1>2, <3>1
  <2>2. u # {} => F[<<f[u \ {Max(u)}], q[Max(u)]>>] = Register(f[u \ {Max(u)}], q[Max(u)])
    BY <2>1
  <2> HIDE DEF F
  <2> QED
    BY <1>2, <2>2 DEF FoldsOn
<1>4. Solves(c)
  <2> HIDE DEF Solves
  <2> QED
    BY <1>3
<1>5. FoldLeft(Register, s, q) = c[1 .. n]
  BY <1>1 DEF FoldLeft, MapThenFoldSet
<1> HIDE DEF c
<1> DEFINE g == [i \in 0 .. n |-> c[1 .. i]]
<1>6. g[0] = s
  <2>1. 1 .. 0 = {} /\ 0 \in 0 .. n
    BY <1>1
  <2> QED
    BY <1>4, <2>1
<1>7. ASSUME NEW i \in 1 .. n
      PROVE  g[i] = Register(g[i - 1], q[i])
  <2>1. /\ i \in Nat \ {0} /\ i \in 0 .. n /\ i - 1 \in 0 .. n
        /\ 1 .. i \in SUBSET (1 .. n)
    BY <1>1
  <2>2. Max(1 .. i) = i /\ (1 .. i) \ {i} = 1 .. i - 1 /\ 1 .. i # {}
    BY <2>1, MaxUpTo
  <2>3. c[1 .. i] = Register(c[1 .. i - 1], q[i])
    BY <1>4, <2>1, <2>2
  <2> QED
    BY <2>1, <2>3
<1>8. n \in 0 .. n /\ g[n] = c[1 .. n]
  BY <1>1
<1> HIDE DEF g, F
<1> QED
  BY <1>5, <1>6, <1>7, <1>8

LEMMA SetToSeqNone == SetToSeq({}) = <<>>
<1> DEFINE F == [1 .. 0 -> {}]
           f == SetToSeq({})
<1>1. f = CHOOSE g \in F : IsInjective(g)
  BY FS_EmptySet DEF SetToSeq
<1>2. <<>> \in F /\ IsInjective(<<>>)
  BY DEF IsInjective
<1>3. f \in F
  BY <1>1, <1>2
<1> QED
  BY <1>3

\* setDestroy(TRUE) of an object to which nothing is attached.
LEMMA SetDestroyFact ==
    ASSUME NEW c \in Clients, NEW o \in Pointers, ~c.obj[o].bDestroy,
           \A q \in Pointers : c.obj[q].parent # o
    PROVE  setDestroy(c, o) = Register(c, o)
<1> DEFINE A == {q \in Live(c) : c.obj[q].parent = o /\ ~c.obj[q].bDestroy}
           l == <<o>> \o SetToSeq(A)
<1>1. A = {}
  BY DEF Live
<1>2. l = <<o>>
  <2>1. SetToSeq(A) = <<>>
    BY <1>1, SetToSeqNone
  <2> HIDE DEF A
  <2> QED
    BY <2>1
<1>3. setDestroy(c, o) = FoldLeft(Register, c, l)
  BY DEF setDestroy, Register, FoldLeft, MapThenFoldSet
<1> HIDE DEF l
<1>4. <<o>> \in Seq(Pointers) /\ Len(<<o>>) = 1 /\ <<o>>[1] = o
  OBVIOUS
<1>5. PICK g : /\ g[0] = c /\ g[Len(<<o>>)] = FoldLeft(Register, c, <<o>>)
               /\ \A i \in 1 .. Len(<<o>>) : g[i] = Register(g[i - 1], <<o>>[i])
  BY <1>4, RegisterFolds
<1>6. g[1] = Register(g[0], o)
  BY <1>4, <1>5
<1> QED
  BY <1>2, <1>3, <1>4, <1>5, <1>6

\* GE_DESTROY of an object that owns nothing and that nobody holds.
LEMMA RegisterGood ==
    ASSUME NEW c, ClientGood(c), NEW x \in Ids, ClientTree(c)[x] = NoID,
           \A y \in Ids : ClientTree(c)[y] # x,
           NEW d, d = OnDestroy(c, x)
    PROVE  /\ ClientGood(d) /\ d.map_NETID = c.map_NETID
           /\ \A y \in Ids \ {x} : Shown(d, y) <=> Shown(c, y)
           /\ ClientTree(d) = [ClientTree(c) EXCEPT ![x] = Gone]
<1> DEFINE o == c.map_NETID[x]
<1>1. c \in Clients /\ MapGood(c) /\ QueueGood(c) /\ \A q \in Pointers : HeldAt(c, q)
  BY DEF ClientGood
<1>2. /\ c.map_NETID \in [Ids -> Pointers \union {null}] /\ c.obj \in [Pointers -> Objects]
      /\ c.destroy_queue \in Seq(Pointers)
  BY <1>1, ClientTyped
<1>3. Shown(c, x) /\ c.obj[o].parent = null
  BY TreeFacts
<1>4. o \in Pointers /\ o # null /\ c.obj[o].id = x /\ ~c.obj[o].bDestroy
  BY <1>3, MapFacts DEF Shown
<1>5. ASSUME NEW q \in Pointers PROVE c.obj[q].parent # o
  <2>1. SUFFICES ASSUME c.obj[q].parent = o PROVE FALSE
    OBVIOUS
  <2>2. ~c.obj[q].bDestroy
    BY <1>1, <1>4, <2>1 DEF HeldAt
  <2>3. c.obj[q].id # NoID
    BY <1>1, <1>4, <2>1, DeletedFacts DEF MapGood
  <2>4. c.obj[q].id \in Ids /\ c.map_NETID[c.obj[q].id] = q
    BY <1>1, <1>2, <2>3 DEF MapGood, Objects
  <2>5. PICK y \in Ids : c.map_NETID[y] = q
    BY <2>4
  <2>6. Shown(c, y)
    BY <2>2, <2>5, ClientAssumption DEF Shown
  <2>7. ClientTree(c)[y] = c.obj[c.obj[c.map_NETID[y]].parent].id
    BY <1>4, <2>1, <2>5, <2>6 DEF ClientTree
  <2> QED
    BY <1>4, <2>1, <2>5, <2>7
<1>6. d = Register(c, o)
  <2>1. d = setDestroy(c, o)
    BY <1>3, <1>4 DEF OnDestroy, HasObject, net_Find
  <2> QED
    BY <1>1, <1>4, <1>5, <2>1, SetDestroyFact
<1>7. /\ d \in Clients /\ d.map_NETID = c.map_NETID
      /\ d.destroy_queue = Append(c.destroy_queue, o)
      /\ d.obj = [c.obj EXCEPT ![o].bDestroy = TRUE]
  <2>1. RegisterFields(c, o, Register(c, o))
    BY <1>1, <1>4, RegisterFacts
  <2> QED
    BY <1>6, <2>1 DEF RegisterFields
<1>8. /\ \A q \in Pointers : d.obj[q].id = c.obj[q].id /\ d.obj[q].parent = c.obj[q].parent
      /\ d.obj[o].bDestroy /\ \A q \in Pointers \ {o} : d.obj[q] = c.obj[q]
  BY <1>2, <1>4, <1>7 DEF Objects
<1> HIDE DEF o
<1>9. MapGood(d)
  <2>1. ASSUME NEW q \in Pointers, d.obj[q].id = NoID PROVE d.obj[q] = Deleted
    BY <1>1, <1>4, <1>8, <2>1, IdFacts DEF MapGood
  <2>2. ASSUME NEW q \in Pointers, d.obj[q].id # NoID PROVE d.map_NETID[d.obj[q].id] = q
    BY <1>1, <1>7, <1>8, <2>2 DEF MapGood
  <2>3. ASSUME NEW y \in Ids, d.map_NETID[y] # null PROVE d.obj[d.map_NETID[y]].id = y
    BY <1>1, <1>2, <1>7, <1>8, <2>3 DEF MapGood
  <2> QED
    BY <2>1, <2>2, <2>3 DEF MapGood
<1>10. QueueGood(d)
  <2>1. o \notin ToSet(c.destroy_queue) /\ IsInjective(c.destroy_queue)
    BY <1>1, <1>4 DEF QueueGood
  <2>2. /\ ToSet(Append(c.destroy_queue, o)) = ToSet(c.destroy_queue) \cup {o}
        /\ IsInjective(Append(c.destroy_queue, o))
    BY <1>2, <1>4, <2>1, AppendToSet
  <2>3. {q \in Pointers : d.obj[q].bDestroy} = {q \in Pointers : c.obj[q].bDestroy} \cup {o}
    BY <1>4, <1>8
  <2> QED
    BY <1>1, <1>7, <2>2, <2>3 DEF QueueGood
<1>11. ASSUME NEW q \in Pointers PROVE HeldAt(d, q)
  <2>1. CASE q = o
    BY <1>3, <1>8, <2>1 DEF HeldAt, o
  <2>2. CASE q # o
    <3>1. d.obj[q] = c.obj[q] /\ HeldAt(c, q) /\ c.obj[q].parent # o
      BY <1>1, <1>5, <1>8, <2>2
    <3>2. c.obj[q].parent \in Pointers \union {null}
      BY <1>2 DEF Objects
    <3> QED
      BY <1>8, <3>1, <3>2 DEF HeldAt
  <2> QED
    BY <2>1, <2>2
<1>12. ClientGood(d)
  BY <1>7, <1>9, <1>10, <1>11 DEF ClientGood
<1>13. ASSUME NEW y \in Ids \ {x}
       PROVE  (Shown(d, y) <=> Shown(c, y)) /\ ClientTree(d)[y] = ClientTree(c)[y]
  <2> DEFINE q == c.map_NETID[y]
  <2>1. d.map_NETID[y] = q /\ q \in Pointers \union {null}
    BY <1>2, <1>7
  <2>2. q # null => q \in Pointers \ {o}
    <3>1. q # null => c.obj[q].id = y
      BY <1>1 DEF MapGood
    <3> QED
      BY <1>4, <2>1, <3>1
  <2>3. q # null => d.obj[q] = c.obj[q]
    BY <1>8, <2>2
  <2>4. Shown(d, y) <=> Shown(c, y)
    BY <2>1, <2>3 DEF Shown
  <2>5. CASE Shown(c, y)
    <3>1. q # null
      BY <2>5 DEF Shown
    <3>2. c.obj[q].parent \in Pointers \union {null}
      BY <1>2, <2>2, <3>1 DEF Objects
    <3>3. /\ ClientTree(c)[y] = IF c.obj[q].parent = null THEN NoID
                                ELSE c.obj[c.obj[q].parent].id
          /\ ClientTree(d)[y] = IF d.obj[q].parent = null THEN NoID
                                ELSE d.obj[d.obj[q].parent].id
      BY <2>1, <2>4, <2>5 DEF ClientTree
    <3>4. d.obj[q] = c.obj[q]
      BY <2>3, <3>1
    <3> HIDE DEF q
    <3> QED
      BY <1>8, <2>4, <3>2, <3>3, <3>4
  <2>6. CASE ~Shown(c, y)
    BY <2>4, <2>6 DEF ClientTree
  <2> QED
    BY <2>4, <2>5, <2>6
<1>14. ClientTree(d)[x] = Gone
  <2>1. ~Shown(d, x)
    BY <1>7, <1>8 DEF Shown, o
  <2> QED
    BY <2>1 DEF ClientTree
<1>15. ClientTree(d) = [ClientTree(c) EXCEPT ![x] = Gone]
  <2>1. ClientTree(d) \in Trees /\ ClientTree(c) \in Trees
    BY <1>12, TreeFacts
  <2> DEFINE U == ClientTree(d)
             V == ClientTree(c)
  <2>2. U \in Trees /\ V \in Trees /\ U[x] = Gone /\ \A y \in Ids \ {x} : U[y] = V[y]
    BY <1>13, <1>14, <2>1
  <2> HIDE DEF U, V
  <2>3. U = [V EXCEPT ![x] = Gone]
    BY <2>2 DEF Trees
  <2> QED
    BY <2>3 DEF U, V
<1> QED
  BY <1>7, <1>12, <1>13, <1>15

\* The tree is the same, and so are the ids: nothing the client shows changes.
SameShown(c, d) ==
    /\ ClientTree(d) = ClientTree(c)
    /\ \A y \in Ids : /\ d.map_NETID[y] # null => c.map_NETID[y] # null
                      /\ Shown(d, y) <=> Shown(c, y)

\* Two clients show the same where the objects that are shown are the same.
LEMMA SameTree ==
    ASSUME NEW c, ClientGood(c), NEW d, ClientGood(d),
           \A y \in Ids : /\ d.map_NETID[y] # null => c.map_NETID[y] # null
                          /\ Shown(d, y) <=> Shown(c, y)
                          /\ Shown(c, y) => d.map_NETID[y] = c.map_NETID[y],
           \A y \in Ids : Shown(c, y) =>
                LET o == c.map_NETID[y]
                IN  d.obj[o].parent = c.obj[o].parent /\ d.obj[o].id = c.obj[o].id
    PROVE  SameShown(c, d)
<1> DEFINE U == ClientTree(d)
           V == ClientTree(c)
<1>1. U \in Trees /\ V \in Trees
  BY TreeFacts, IdFacts
<1>2. ASSUME NEW y \in Ids PROVE U[y] = V[y]
  <2> DEFINE o == c.map_NETID[y]
             p == c.obj[o].parent
  <2>1. CASE ~Shown(c, y)
    BY <2>1 DEF ClientTree
  <2>2. CASE Shown(c, y)
    <3>1. d.map_NETID[y] = o /\ d.obj[o].parent = p /\ Shown(d, y) /\ o # null
      BY <2>2 DEF Shown
    <3>2. V[y] = IF p = null THEN NoID ELSE c.obj[p].id
      BY <2>2 DEF ClientTree
    <3>3. U[y] = IF p = null THEN NoID ELSE d.obj[p].id
      BY <3>1 DEF ClientTree
    <3>4. ASSUME p # null PROVE d.obj[p].id = c.obj[p].id
      <4>3. c.map_NETID[y] # null
        BY <3>1
      <4>4. c.obj[p].id \in Ids /\ c.map_NETID[c.obj[p].id] = p /\ ~c.obj[p].bDestroy
        BY <3>4, <4>3, MapFacts
      <4>1. PICK z \in Ids : z = c.obj[p].id /\ c.map_NETID[z] = p /\ ~c.obj[p].bDestroy
        BY <4>4
      <4>2. Shown(c, z)
        BY <3>4, <4>1 DEF Shown
      <4> QED
        BY <4>1, <4>2
    <3> QED
      BY <3>2, <3>3, <3>4
  <2> QED
    BY <2>1, <2>2
<1>3. U = V
  <2> HIDE DEF U, V
  <2> QED
    BY <1>1, <1>2 DEF Trees
<1> QED
  BY <1>3 DEF SameShown

DestroyFields(c, o, x, d) ==
    /\ d \in Clients /\ d.destroy_queue = Front(c.destroy_queue)
    /\ d.map_NETID = [c.map_NETID EXCEPT ![x] = null]
    /\ d.obj = [c.obj EXCEPT ![o] = Deleted]

LEMMA DestroyFacts ==
    ASSUME NEW c \in Clients, Front(c.destroy_queue) \in Seq(Pointers),
           NEW o, o = Last(c.destroy_queue), o \in Pointers,
           NEW x, x = c.obj[o].id, x \in Ids
    PROVE  DestroyFields(c, o, x, DestroyBack(c))
<1> DEFINE q == Front(c.destroy_queue)
           b == [c EXCEPT !.destroy_queue = q]
           m == [c.map_NETID EXCEPT ![x] = null]
           e == [c.obj EXCEPT ![o] = Deleted]
           d == DestroyBack(c)
<1>1. /\ c.obj \in [Pointers -> Objects] /\ c.map_NETID \in [Ids -> Pointers \union {null}]
      /\ c = [obj |-> c.obj, map_NETID |-> c.map_NETID, destroy_queue |-> c.destroy_queue]
  BY ClientTyped
<1>2. e \in [Pointers -> Objects] /\ m \in [Ids -> Pointers \union {null}]
  BY <1>1, DeletedFacts
<1> HIDE DEF q
<1>3. b = [obj |-> c.obj, map_NETID |-> c.map_NETID, destroy_queue |-> q]
  BY <1>1
<1>4. d = Delete(b, o)
  BY DEF DestroyBack, q
<1>5. d = [b EXCEPT !.map_NETID[x] = null, !.obj[o] = Deleted]
  BY <1>3, <1>4 DEF Delete
<1> HIDE DEF d, b
<1>6. d = [obj |-> e, map_NETID |-> m, destroy_queue |-> q]
  BY <1>3, <1>5
<1>7. d \in Clients
  <2> HIDE DEF e, m
  <2> QED
    BY <1>2, <1>6 DEF Clients, Objects, q
<1> QED
  BY <1>6, <1>7 DEF DestroyFields, d, q

LEMMA DestroyBackGood ==
    ASSUME NEW c, ClientGood(c), c.destroy_queue # <<>>, NEW d, d = DestroyBack(c)
    PROVE  /\ ClientGood(d) /\ SameShown(c, d)
           /\ Len(c.destroy_queue) = 1 => d.destroy_queue = <<>>
<1> DEFINE o == Last(c.destroy_queue)
           x == c.obj[o].id
<1>1. c \in Clients /\ MapGood(c) /\ QueueGood(c) /\ \A q \in Pointers : HeldAt(c, q)
  BY DEF ClientGood
<1>2. /\ c.map_NETID \in [Ids -> Pointers \union {null}] /\ c.obj \in [Pointers -> Objects]
      /\ c.destroy_queue \in Seq(Pointers)
  BY <1>1, ClientTyped
<1>3. /\ o \in Pointers /\ o \in ToSet(c.destroy_queue)
      /\ Front(c.destroy_queue) \in Seq(Pointers) /\ IsInjective(Front(c.destroy_queue))
      /\ ToSet(Front(c.destroy_queue)) = ToSet(c.destroy_queue) \ {o}
      /\ Len(c.destroy_queue) = 1 <=> Front(c.destroy_queue) = <<>>
  BY <1>1, <1>2, FrontLastToSet DEF QueueGood
<1>4. c.obj[o].bDestroy
  BY <1>1, <1>3 DEF QueueGood
<1>5. x \in Ids /\ x # NoID /\ c.map_NETID[x] = o
  <2>1. x # NoID
    BY <1>1, <1>3, <1>4, DeletedFacts DEF MapGood
  <2> QED
    BY <1>1, <1>2, <1>3, <2>1 DEF MapGood, Objects
<1>6. DestroyFields(c, o, x, d)
  BY <1>1, <1>3, <1>5, DestroyFacts
<1> HIDE DEF o, x
<1>7. /\ d \in Clients /\ d.destroy_queue = Front(c.destroy_queue)
      /\ d.map_NETID[x] = null /\ \A y \in Ids \ {x} : d.map_NETID[y] = c.map_NETID[y]
      /\ d.obj[o] = Deleted /\ \A q \in Pointers \ {o} : d.obj[q] = c.obj[q]
  BY <1>2, <1>3, <1>5, <1>6 DEF DestroyFields
<1>8. MapGood(d)
  <2>1. ASSUME NEW q \in Pointers, d.obj[q].id = NoID PROVE d.obj[q] = Deleted
    BY <1>1, <1>7, <2>1 DEF MapGood
  <2>2. ASSUME NEW q \in Pointers, d.obj[q].id # NoID PROVE d.map_NETID[d.obj[q].id] = q
    <3>1. q # o
      BY <1>7, <2>2, DeletedFacts
    <3>2. d.obj[q] = c.obj[q] /\ c.map_NETID[c.obj[q].id] = q /\ c.obj[q].id \in Ids
      BY <1>1, <1>2, <1>7, <2>2, <3>1 DEF MapGood, Objects
    <3>3. c.obj[q].id # x
      BY <1>5, <3>1, <3>2
    <3> QED
      BY <1>7, <3>2, <3>3
  <2>3. ASSUME NEW y \in Ids, d.map_NETID[y] # null PROVE d.obj[d.map_NETID[y]].id = y
    <3>1. y # x /\ d.map_NETID[y] = c.map_NETID[y]
      BY <1>7, <2>3
    <3>2. c.map_NETID[y] \in Pointers /\ c.obj[c.map_NETID[y]].id = y
      BY <1>1, <1>2, <2>3, <3>1 DEF MapGood
    <3>3. c.map_NETID[y] # o
      BY <3>1, <3>2 DEF x
    <3> QED
      BY <1>7, <3>1, <3>2, <3>3
  <2> QED
    BY <2>1, <2>2, <2>3 DEF MapGood
<1>9. QueueGood(d)
  <2>1. {q \in Pointers : d.obj[q].bDestroy} = {q \in Pointers : c.obj[q].bDestroy} \ {o}
    BY <1>7, DeletedFacts
  <2> QED
    BY <1>1, <1>3, <1>7, <2>1 DEF QueueGood
<1>10. \A q \in Pointers : c.obj[q].parent # o
  BY <1>1, <1>4, <1>3, ClientAssumption DEF HeldAt
<1>11. ASSUME NEW q \in Pointers PROVE HeldAt(d, q)
  <2>1. CASE q = o
    BY <1>7, <2>1, DeletedFacts DEF HeldAt
  <2>2. CASE q # o
    <3>1. d.obj[q] = c.obj[q] /\ HeldAt(c, q) /\ c.obj[q].parent # o
      BY <1>1, <1>7, <1>10, <2>2
    <3>2. c.obj[q].parent \in Pointers \union {null}
      BY <1>2 DEF Objects
    <3> QED
      BY <1>7, <3>1, <3>2 DEF HeldAt
  <2> QED
    BY <2>1, <2>2
<1>12. ClientGood(d)
  BY <1>7, <1>8, <1>9, <1>11 DEF ClientGood
<1>13. ASSUME NEW y \in Ids
       PROVE  /\ d.map_NETID[y] # null => c.map_NETID[y] # null
              /\ Shown(d, y) <=> Shown(c, y)
              /\ Shown(c, y) => /\ d.map_NETID[y] = c.map_NETID[y]
                                /\ d.obj[c.map_NETID[y]] = c.obj[c.map_NETID[y]]
  <2>1. CASE y = x
    <3>1. ~Shown(d, y) /\ ~Shown(c, y)
      BY <1>4, <1>5, <1>7, <2>1 DEF Shown
    <3> QED
      BY <1>7, <2>1, <3>1
  <2>2. CASE y # x
    <3>1. d.map_NETID[y] = c.map_NETID[y]
      BY <1>7, <2>2
    <3>2. c.map_NETID[y] # null => c.map_NETID[y] \in Pointers \ {o}
      <4>1. c.map_NETID[y] # null => c.obj[c.map_NETID[y]].id = y
        BY <1>1 DEF MapGood
      <4> QED
        BY <1>2, <2>2, <4>1 DEF x
    <3>3. c.map_NETID[y] # null => d.obj[c.map_NETID[y]] = c.obj[c.map_NETID[y]]
      BY <1>7, <3>2
    <3> QED
      BY <3>1, <3>3 DEF Shown
  <2> QED
    BY <2>1, <2>2
<1>14. SameShown(c, d)
  BY <1>12, <1>13, SameTree
<1> QED
  BY <1>3, <1>7, <1>12, <1>14

\* DestroyObject() sets a flag of an object that is there.
LEMMA FlagGood ==
    ASSUME NEW c, ClientGood(c), NEW o \in Live(c),
           NEW d, d = [c EXCEPT !.obj[o].m_bObjectRemoved = TRUE]
    PROVE  /\ ClientGood(d) /\ SameShown(c, d) /\ d.destroy_queue = c.destroy_queue
<1>1. c \in Clients /\ MapGood(c) /\ QueueGood(c) /\ \A q \in Pointers : HeldAt(c, q)
  BY DEF ClientGood
<1>2. /\ c.map_NETID \in [Ids -> Pointers \union {null}] /\ c.obj \in [Pointers -> Objects]
  BY <1>1, ClientTyped
<1>3. o \in Pointers /\ c.obj[o].id # NoID
  BY LiveFacts
<1> DEFINE e == [c.obj EXCEPT ![o].m_bObjectRemoved = TRUE]
<1>4. e \in [Pointers -> Objects]
  BY <1>2 DEF Objects
<1>5. d.obj = e /\ d.map_NETID = c.map_NETID /\ d.destroy_queue = c.destroy_queue
  BY <1>1 DEF Clients
<1>6. d \in Clients
  BY <1>1, <1>4 DEF Clients, Objects
<1>7. /\ \A q \in Pointers : /\ d.obj[q].id = c.obj[q].id /\ d.obj[q].parent = c.obj[q].parent
                             /\ d.obj[q].bDestroy = c.obj[q].bDestroy
      /\ \A q \in Pointers \ {o} : d.obj[q] = c.obj[q]
  BY <1>2, <1>5 DEF Objects
<1> HIDE DEF e
<1>8. MapGood(d)
  <2>1. ASSUME NEW q \in Pointers, d.obj[q].id = NoID PROVE d.obj[q] = Deleted
    BY <1>1, <1>3, <1>7, <2>1 DEF MapGood
  <2>2. ASSUME NEW q \in Pointers, d.obj[q].id # NoID PROVE d.map_NETID[d.obj[q].id] = q
    BY <1>1, <1>5, <1>7, <2>2 DEF MapGood
  <2>3. ASSUME NEW y \in Ids, d.map_NETID[y] # null PROVE d.obj[d.map_NETID[y]].id = y
    BY <1>1, <1>2, <1>5, <1>7, <2>3 DEF MapGood
  <2> QED
    BY <2>1, <2>2, <2>3 DEF MapGood
<1>9. QueueGood(d)
  BY <1>1, <1>5, <1>7 DEF QueueGood
<1>10. ASSUME NEW q \in Pointers PROVE HeldAt(d, q)
  <2>1. HeldAt(c, q) /\ c.obj[q].parent \in Pointers \union {null}
    BY <1>1, <1>2 DEF Objects
  <2> QED
    BY <1>7, <2>1 DEF HeldAt
<1>11. ClientGood(d)
  BY <1>6, <1>8, <1>9, <1>10 DEF ClientGood
<1>12. ASSUME NEW y \in Ids
       PROVE  /\ d.map_NETID[y] # null => c.map_NETID[y] # null
              /\ Shown(d, y) <=> Shown(c, y)
              /\ Shown(c, y) => d.map_NETID[y] = c.map_NETID[y]
  BY <1>2, <1>5, <1>7 DEF Shown
<1>13. ASSUME NEW y \in Ids, Shown(c, y)
       PROVE  LET q == c.map_NETID[y]
              IN  d.obj[q].parent = c.obj[q].parent /\ d.obj[q].id = c.obj[q].id
  BY <1>2, <1>7, <1>13 DEF Shown
<1>14. SameShown(c, d)
  BY <1>11, <1>12, <1>13, SameTree
<1> QED
  BY <1>5, <1>11, <1>14

-----------------------------------------------------------------------------
(* The client and the server *)

LEMMA ConcatTail ==
    ASSUME NEW S, NEW q \in Seq(S), NEW d \in Seq(S), q # <<>>
    PROVE  /\ q \o d \in Seq(S) /\ q \o d # <<>>
           /\ Head(q \o d) = Head(q) /\ Tail(q \o d) = Tail(q) \o d
           /\ Tail(q) \in Seq(S) /\ Head(q) \in S
<1> DEFINE n == Len(q)
           k == Len(d)
           l == q \o d
<1>1. n \in Nat \ {0} /\ k \in Nat
  OBVIOUS
<1>2. l \in Seq(S) /\ Len(l) = n + k
  OBVIOUS
<1>3. \A i \in 1 .. n : l[i] = q[i]
  OBVIOUS
<1>4. \A i \in 1 .. k : l[n + i] = d[i]
  OBVIOUS
<1>5. /\ Tail(q) \in Seq(S) /\ Len(Tail(q)) = n - 1
      /\ \A i \in 1 .. n - 1 : Tail(q)[i] = q[i + 1]
  OBVIOUS
<1> HIDE DEF l
<1>6. l # <<>> /\ Head(l) = Head(q) /\ Head(q) \in S
  BY <1>1, <1>2, <1>3
<1>7. Tail(l) \in Seq(S) /\ Len(Tail(l)) = n + k - 1 /\ \A i \in 1 .. n + k - 1 : Tail(l)[i] = l[i + 1]
  BY <1>1, <1>2
<1> DEFINE r == Tail(q) \o d
<1>8. r \in Seq(S) /\ Len(r) = (n - 1) + k
  BY <1>5
<1>9. \A i \in 1 .. n - 1 : r[i] = Tail(q)[i]
  BY <1>5
<1>10. \A i \in 1 .. k : r[(n - 1) + i] = d[i]
  BY <1>5
<1> HIDE DEF r, n, k
<1>11. ASSUME NEW i \in 1 .. n + k - 1 PROVE Tail(l)[i] = r[i]
  <2>1. CASE i \in 1 .. n - 1
    <3>1. i + 1 \in 1 .. n
      BY <1>1, <2>1
    <3> QED
      BY <1>3, <1>5, <1>7, <1>9, <2>1, <3>1
  <2>2. CASE i \notin 1 .. n - 1
    <3> DEFINE j == i - (n - 1)
    <3>1. j \in 1 .. k /\ (n - 1) + j = i /\ n + j = i + 1
      BY <1>1, <2>2
    <3> HIDE DEF j
    <3> QED
      BY <1>4, <1>7, <1>10, <3>1
  <2> QED
    BY <2>1, <2>2
<1>12. Tail(l) = r
  <2>1. Len(Tail(l)) = Len(r)
    BY <1>1, <1>7, <1>8
  <2> QED
    BY <1>7, <1>8, <1>11, <2>1
<1> QED
  BY <1>2, <1>5, <1>6, <1>12 DEF l, r

\* The rest of the messages, once the first is handled.
LEMMA TailFacts ==
    ASSUME NEW q \in Seq(Messages), q # <<>>
    PROVE  /\ Mentions(Tail(q)) \subseteq Mentions(q) /\ Head(q).id \in Mentions(q)
           /\ Spawns(Tail(q)) \subseteq Spawns(q) /\ Given(Tail(q)) \subseteq Given(q)
           /\ Head(q).type = "spawn" => Head(q).id \in Spawns(q)
           /\ Head(q).type = "take" => Head(q).id \in Given(q)
           /\ Fresh(q) => /\ Fresh(Tail(q))
                          /\ Head(q).type = "destroy" => Head(q).id \notin Spawns(Tail(q))
<1> DEFINE n == Len(q)
           r == Tail(q)
<1>1. n \in Nat \ {0} /\ DOMAIN q = 1 .. n /\ q[1] = Head(q)
  OBVIOUS
<1>2. DOMAIN r = 1 .. n - 1 /\ \A i \in 1 .. n - 1 : r[i] = q[i + 1]
  OBVIOUS
<1> HIDE DEF n, r
<1>3. 1 \in DOMAIN q /\ \A i \in DOMAIN r : i + 1 \in DOMAIN q /\ r[i] = q[i + 1] /\ 1 < i + 1
  BY <1>1, <1>2
<1>4. Mentions(r) \subseteq Mentions(q) /\ Head(q).id \in Mentions(q)
  BY <1>1, <1>3 DEF Mentions
<1>5. Spawns(r) \subseteq Spawns(q) /\ (Head(q).type = "spawn" => Head(q).id \in Spawns(q))
  BY <1>1, <1>3 DEF Spawns
<1>8. Given(r) \subseteq Given(q) /\ (Head(q).type = "take" => Head(q).id \in Given(q))
  BY <1>1, <1>3 DEF Given
<1>6. ASSUME Fresh(q) PROVE Fresh(r)
  <2>1. \A i, j \in DOMAIN r : i < j => i + 1 < j + 1
    BY <1>1, <1>2
  <2> QED
    BY <1>3, <1>6, <2>1 DEF Fresh
<1>7. ASSUME Fresh(q), Head(q).type = "destroy" PROVE Head(q).id \notin Spawns(r)
  BY <1>1, <1>3, <1>7 DEF Fresh, Spawns
<1> QED
  BY <1>4, <1>5, <1>6, <1>7, <1>8 DEF r

\* The ids that the client knows of, or that the messages q speak of.
Spoken(c, q) == Mentions(q) \union {x \in Ids : c.map_NETID[x] # null}
\* What Told() says of the client.
Aware(c, q) == [spoken |-> Spoken(c, q), shown |-> {x \in Ids : Shown(c, x)}]

\* Client c shows the tree H, but for the objects F that it could not create.
Shows(c, H, F) ==
    /\ F \subseteq Ids /\ \A x \in F : H[x] # Gone /\ c.map_NETID[x] = null
    /\ ClientTree(c) = Hiding(H, F)

\* Had client c created everything, F included, it would show the tree H, and the
\* messages it has to handle, those in q first, would make it show what server s has.
\* None of them finds an object it cannot be about.
InStep(s, c, H, F, q, W) ==
    /\ ClientGood(c) /\ Shows(c, H, F)
    /\ q \in Seq(Messages) /\ Fresh(q)
    /\ Told(s, H, q, Aware(c, q), W)
    /\ \A x \in Ids : c.map_NETID[x] # null /\ ~Shown(c, x) => x \notin Spawns(q)
    /\ \A x \in Given(q) : Shown(c, x)
    /\ q # <<>> => Given(s.out) = {}

LEMMA ServerSteps ==
    ASSUME NEW s, NEW c, NEW H, NEW F, NEW q, NEW W, InStep(s, c, H, F, q, W), q = <<>>,
           NEW t, NEW C, Follows(s, t, C), C \subseteq W
    PROVE  InStep(t, c, H, F, q, W)
BY DEF InStep, Follows

\* Of objects that the client does not show less is to be known.
LEMMA LessAware ==
    ASSUME NEW s, NEW V, NEW q, NEW K, NEW W, Told(s, V, q, K, W),
           NEW L, L.spoken \subseteq K.spoken, K.shown \subseteq L.shown
    PROVE  Told(s, V, q, L, W)
BY DEF Told, Aged

LEMMA ClientStutters ==
    ASSUME NEW s, NEW c, NEW H, NEW F, NEW q, NEW W, InStep(s, c, H, F, q, W),
           NEW d, ClientGood(d), SameShown(c, d)
    PROVE  InStep(s, d, H, F, q, W)
<1>1. /\ ClientTree(d) = ClientTree(c)
      /\ \A y \in Ids : /\ d.map_NETID[y] # null => c.map_NETID[y] # null
                        /\ Shown(d, y) <=> Shown(c, y)
  BY DEF SameShown
<1>2. Told(s, H, q, Aware(d, q), W)
  <2>1. /\ Aware(d, q).spoken \subseteq Aware(c, q).spoken
        /\ Aware(c, q).shown \subseteq Aware(d, q).shown
    BY <1>1 DEF Spoken, Aware
  <2> QED
    BY <2>1, LessAware DEF InStep
<1>3. Shows(d, H, F)
  BY <1>1 DEF InStep, Shows
<1>4. \A x \in Given(q) : x \in Ids
  BY MessageFacts DEF InStep, Given
<1> QED
  BY <1>1, <1>2, <1>3, <1>4 DEF InStep

\* What the client shows of the tree.
LEMMA ShowsFacts ==
    ASSUME NEW c, ClientGood(c), NEW H \in Trees, NEW F, Shows(c, H, F), NEW x \in Ids
    PROVE  /\ x \in F => ClientTree(c)[x] = Gone /\ ~Shown(c, x)
           /\ x \notin F => /\ H[x] \in F => ClientTree(c)[x] = NoID
                            /\ H[x] \notin F => ClientTree(c)[x] = H[x]
                            /\ Shown(c, x) <=> H[x] # Gone
<1>1. F \in SUBSET Ids /\ ClientTree(c) = Hiding(H, F)
  BY DEF Shows
<1>2. /\ x \in F => ClientTree(c)[x] = Gone
      /\ x \notin F => /\ H[x] \in F => ClientTree(c)[x] = NoID
                       /\ H[x] \notin F => ClientTree(c)[x] = H[x]
  BY <1>1, HidingFacts
<1>3. Shown(c, x) <=> ClientTree(c)[x] # Gone
  BY ShownFacts
<1> QED
  BY <1>1, <1>2, <1>3, GoneFact

\* The first message of q is legal, and leads to the rest.
LEMMA FirstMessage ==
    ASSUME NEW s \in ServerRecords, NEW c, NEW H \in Trees, NEW F, NEW q, NEW W,
           InStep(s, c, H, F, q, W), q # <<>>
    PROVE  /\ Head(q) \in Messages /\ Legal(H, Head(q)) /\ Tail(q) \in Seq(Messages)
           /\ Path(After(H, Head(q)), Tail(q) \o s.out, ServerTree(s))
           /\ Head(q).type = "spawn" => c.map_NETID[Head(q).id] = null /\ Head(q).id \notin F
           /\ Head(q).type = "take" => Head(q).id \notin F
<1> DEFINE d == q \o s.out
           x == Head(q).id
<1>1. /\ ClientGood(c) /\ Shows(c, H, F) /\ q \in Seq(Messages) /\ Path(H, d, ServerTree(s))
      /\ \A y \in Ids : c.map_NETID[y] # null /\ ~Shown(c, y) => y \notin Spawns(q)
      /\ \A y \in Given(q) : Shown(c, y)
  BY DEF InStep, Told
<1>2. s.out \in Seq(Messages)
  BY DEF ServerRecords
<1>3. /\ d \in Seq(Messages) /\ d # <<>> /\ Head(d) = Head(q) /\ Tail(d) = Tail(q) \o s.out
      /\ Tail(q) \in Seq(Messages) /\ Head(q) \in Messages
  BY <1>1, <1>2, ConcatTail
<1>4. x \in Ids /\ (Head(q).type = "spawn" => x \in Spawns(q))
      /\ (Head(q).type = "take" => x \in Given(q))
  BY <1>1, <1>3, MessageFacts, TailFacts
<1> HIDE DEF d
<1>5. Legal(H, Head(d)) /\ Path(After(H, Head(d)), Tail(d), ServerTree(s))
  BY <1>1, <1>3, PathTail
<1>6. ASSUME Head(q).type = "spawn" PROVE c.map_NETID[x] = null /\ x \notin F
  <2>1. H[x] = Gone
    BY <1>3, <1>5, <1>6 DEF Legal
  <2>2. x \notin F
    BY <1>1, <2>1 DEF Shows
  <2>3. ~Shown(c, x)
    BY <1>1, <1>4, <2>1, <2>2, ShowsFacts
  <2> QED
    BY <1>1, <1>4, <1>6, <2>2, <2>3
<1>7. ASSUME Head(q).type = "take" PROVE x \notin F
  BY <1>1, <1>4, <1>7, ShowsFacts
<1> QED
  BY <1>3, <1>5, <1>6, <1>7

\* Client d has the same objects as c, x aside.
Others(c, d, x) ==
    \A y \in Ids \ {x} : /\ d.map_NETID[y] = c.map_NETID[y]
                         /\ Shown(d, y) <=> Shown(c, y)

\* The message is handled as the server meant it, as far as the objects G that could
\* not be created allow; of them it may be the one to go, or to come.
LEMMA MessageHandled ==
    ASSUME NEW s \in ServerRecords, NEW c, NEW H \in Trees, NEW F, NEW q, NEW W,
           InStep(s, c, H, F, q, W), q # <<>>, NEW m, m = Head(q),
           NEW d, NEW G, ClientGood(d), Shows(d, After(H, m), G), Others(c, d, m.id),
           \/ m.type = "destroy" \/ Shown(d, m.id)
           \/ c.map_NETID[m.id] = null /\ d.map_NETID[m.id] = null
    PROVE  InStep(s, d, After(H, m), G, Tail(q), W)
<1> DEFINE l == Tail(q)
<1>1. /\ m \in Messages /\ l \in Seq(Messages) /\ m.id \in Ids
      /\ Path(After(H, m), l \o s.out, ServerTree(s))
  BY FirstMessage, MessageFacts
<1>2. /\ q \in Seq(Messages) /\ Fresh(q) /\ Aged(s, Spoken(c, q)) /\ Fresh(s.out) /\ Dead(s, W)
      /\ \A x \in Ids : c.map_NETID[x] # null /\ ~Shown(c, x) => x \notin Spawns(q)
      /\ \A x \in Given(q) : Shown(c, x)
      /\ Given(s.out) = {}
  BY DEF InStep, Told, Aware
<1>3. /\ Mentions(l) \subseteq Mentions(q) /\ m.id \in Mentions(q)
      /\ Spawns(l) \subseteq Spawns(q) /\ Given(l) \subseteq Given(q) /\ Fresh(l)
      /\ m.type = "destroy" => m.id \notin Spawns(l)
  BY <1>2, TailFacts
<1>4. Aware(d, l).spoken \subseteq Spoken(c, q)
  BY <1>3 DEF Aware, Spoken, Others
<1>5. Aged(s, Aware(d, l).spoken)
  BY <1>2, <1>4 DEF Aged
<1>6. ASSUME NEW x \in Ids, d.map_NETID[x] # null, ~Shown(d, x) PROVE x \notin Spawns(l)
  BY <1>2, <1>3, <1>6 DEF Others
<1>7. ASSUME m.type = "destroy" PROVE m.id \notin Given(l)
  <2> DEFINE A == After(H, m)
             U == ServerTree(s)
  <2>1. A[m.id] = Gone
    BY <1>1, <1>7, AfterTyped DEF Becoming
  <2>2. s.out \in Seq(Messages)
    BY DEF ServerRecords
  <2>3. m.id \notin Spawns(l)
    BY <1>3, <1>7
  <2> HIDE DEF A, U, l
  <2>4. PICK M : Path(A, l, M)
    BY <1>1, <2>2, PathSplit DEF A, U
  <2> QED
    BY <1>1, <2>1, <2>3, <2>4, PathGiven
<1>8. ASSUME NEW x \in Given(l) PROVE Shown(d, x)
  <2>1. x \in Ids /\ Shown(c, x) /\ c.map_NETID[x] # null
    <3>1. x \in Ids
      BY <1>1, MessageFacts DEF Given
    <3>2. Shown(c, x)
      BY <1>2, <1>3
    <3> QED
      BY <3>1, <3>2 DEF Shown
  <2> HIDE DEF l
  <2> QED
    BY <1>7, <2>1 DEF Others
<1>9. Told(s, After(H, m), l, Aware(d, l), W)
  BY <1>1, <1>2, <1>5 DEF Told
<1> HIDE DEF l
<1>10. InStep(s, d, After(H, m), G, l, W)
  BY <1>1, <1>2, <1>3, <1>6, <1>8, <1>9 DEF InStep
<1> QED
  BY <1>10 DEF l

\* The client and the server differ in an item alone, which the client does not let
\* its owner p have, as the server is told by a reject.
LEMMA Resync ==
    ASSUME NEW s \in ServerRecords, NEW t \in ServerRecords, NEW p \in Ids, NEW x \in Ids,
           s.ent[x].on = "online", s.ent[x].parent = p, Rejected(s, t, p, x),
           NEW R, NEW q \in Seq(Messages), NEW K, NEW W,
           Path(R, q \o s.out, [ServerTree(s) EXCEPT ![x] = NoID]),
           Aged(s, K.spoken), Fresh(s.out), Dead(s, W), Given(s.out) \subseteq K.shown
    PROVE  Told(t, R, q, K, W)
<1> DEFINE U == ServerTree(s)
           U1 == [U EXCEPT ![x] = NoID]
           r == Reject(p, x)
           l == q \o s.out
<1>1. t.gen = s.gen /\ t.out = Append(s.out, r)
  BY DEF Rejected, Online
<1>2. Elsewhere(s, t, x) /\ t.ent[x].on = "online" /\ t.ent[x].parent = NoID
  BY DEF Rejected, Online
<1>3. r \in Messages /\ r.type = "reject" /\ r.id = x /\ Becoming(r) = NoID
  BY MessageTyped, MessageFields
<1>4. s.out \in Seq(Messages)
  BY DEF ServerRecords
<1>5. l \in Seq(Messages)
  BY <1>4
<1>6. Path(R, l, U1)
  OBVIOUS
<1>7. U \in Trees /\ ServerTree(t) \in Trees
  BY ServerTreeFacts
<1>8. \A y \in Ids \ {x} : ServerTree(t)[y] = U[y]
  BY <1>2 DEF ServerTree, Elsewhere
<1>9. ServerTree(t)[x] = NoID
  BY <1>2 DEF ServerTree
<1> HIDE DEF r, l, U
<1>10. U1[x] = NoID /\ U1 \in Trees /\ \A y \in Ids \ {x} : U1[y] = U[y]
  BY <1>7 DEF Trees
<1> HIDE DEF U1
<1>11. ServerTree(t) = U1
  <2> DEFINE T == ServerTree(t)
  <2>1. T \in Trees /\ U1 \in Trees /\ \A y \in Ids : T[y] = U1[y]
    BY <1>7, <1>8, <1>9, <1>10
  <2> HIDE DEF T
  <2>2. T = U1
    BY <2>1 DEF Trees
  <2> QED
    BY <2>2 DEF T
<1>12. Legal(U1, r) /\ After(U1, r) = U1
  BY <1>3, <1>10 DEF Legal, After, Trees
<1>13. Path(R, Append(l, r), U1)
  BY <1>3, <1>5, <1>6, <1>12, PathAppend
<1>14. q \o t.out = Append(l, r)
  <2>1. q \o Append(s.out, r) = Append(q \o s.out, r)
    BY <1>3, <1>4, ConcatAppend
  <2> QED
    BY <1>1, <2>1 DEF l
<1>15. Path(R, q \o t.out, ServerTree(t))
  BY <1>11, <1>13, <1>14
<1>16. /\ Mentions(t.out) = Mentions(s.out) \union {x}
       /\ Destroys(t.out) = Destroys(s.out) /\ Fresh(t.out) /\ Given(t.out) = Given(s.out)
  <2> DEFINE o == Append(s.out, r)
  <2>1. /\ Mentions(o) = Mentions(s.out) \union {x}
        /\ Destroys(o) = Destroys(s.out) /\ Fresh(o) /\ Given(o) = Given(s.out)
    BY <1>3, <1>4, AppendFacts
  <2> QED
    BY <1>1, <2>1
<1>17. \A y \in Ids : t.ent[y].on = s.ent[y].on
  BY <1>2 DEF Elsewhere
<1>18. Aged(t, K.spoken)
  <2> SUFFICES ASSUME NEW y \in Ids, t.ent[y].on = "no"
               PROVE  /\ y \in Mentions(t.out) => Age(t, y) = 0
                      /\ y \in K.spoken => Age(t, y) <= 1
    BY DEF Aged
  <2>1. s.ent[y].on = "no" /\ y # x
    BY <1>17
  <2>2. Age(t, y) = Age(s, y)
    BY <1>1 DEF Age
  <2> QED
    BY <1>16, <2>1, <2>2 DEF Aged
<1>19. Dead(t, W)
  <2> SUFFICES ASSUME NEW y \in Destroys(s.out) PROVE Lost(t, y, W)
    BY <1>16 DEF Dead
  <2>1. Lost(s, y, W)
    BY DEF Dead
  <2>2. y \in Ids
    BY <1>4, MessageFacts DEF Destroys
  <2>3. y # x
    BY <2>1 DEF Lost
  <2>4. t.ent[y].on = s.ent[y].on /\ t.ent[y].parent = s.ent[y].parent
    BY <1>2, <2>2, <2>3 DEF Elsewhere
  <2> QED
    BY <2>1, <2>4 DEF Lost, Holder
<1> QED
  BY <1>15, <1>16, <1>18, <1>19 DEF Told

\* The object of q's first message, a spawn or a take, is there, and held by nobody.
Landed(c, q, d) ==
    LET x == Head(q).id
    IN  /\ q # <<>> /\ Head(q).type \in {"spawn", "take"} /\ Head(q).dest \in Ids
        /\ ClientGood(d) /\ ClientTree(d) = [ClientTree(c) EXCEPT ![x] = NoID]
        /\ Others(c, d, x) /\ Shown(d, x)

LEMMA LandedFacts ==
    ASSUME NEW s \in ServerRecords, NEW c, NEW H \in Trees, NEW F, NEW q, NEW W,
           InStep(s, c, H, F, q, W), NEW d, Landed(c, q, d), NEW m, m = Head(q)
    PROVE  /\ m \in Messages /\ m.id \in Ids /\ m.dest \in Ids /\ Becoming(m) = m.dest
           /\ m.id \notin F /\ H[m.id] \notin F /\ H[m.dest] # Gone
           /\ Tail(q) \in Seq(Messages) /\ q # <<>>
           /\ Path(After(H, m), Tail(q) \o s.out, ServerTree(s))
<1>1. q # <<>> /\ m.type \in {"spawn", "take"} /\ m.dest \in Ids
  BY DEF Landed
<1>2. /\ m \in Messages /\ Tail(q) \in Seq(Messages) /\ Legal(H, m) /\ m.id \notin F
      /\ Path(After(H, m), Tail(q) \o s.out, ServerTree(s))
  BY <1>1, FirstMessage
<1>3. F \subseteq Ids
  BY DEF InStep, Shows
<1>4. /\ m.dest # NoID /\ H[m.dest] # Gone
      /\ m.type = "spawn" => H[m.id] = Gone
      /\ m.type = "take" => H[m.id] = NoID
  BY <1>1, <1>2, IdFacts DEF Legal
<1>5. H[m.id] \notin F
  BY <1>1, <1>3, <1>4, GoneFact, IdFacts
<1>6. m.id \in Ids /\ Becoming(m) = m.dest
  BY <1>1, <1>2, MessageFacts DEF Becoming
<1> QED
  BY <1>1, <1>2, <1>4, <1>5, <1>6

\* The client keeps an item at the root that the server gave to p, and sends a
\* reject: the server still has it there, and follows, or does not care any more.
LEMMA MessageRefused ==
    ASSUME NEW s \in ServerRecords, Linked(s), NEW c, NEW H \in Trees, NEW F, NEW q, NEW W,
           InStep(s, c, H, F, q, W), NEW d, Landed(c, q, d),
           NEW t, t = Process_event_reject(s, Head(q).dest, Head(q).id, TRUE)
    PROVE  InStep(t, d, Dropped(H, Head(q).id), F, Tail(q), W)
<1> DEFINE m == Head(q)
           x == m.id
           p == m.dest
           U == ServerTree(s)
           R == Dropped(H, x)
           T == Dropped(U, x)
           l == Tail(q)
           K == [Aware(d, l) EXCEPT !.shown = {}]
<1>1. /\ m \in Messages /\ x \in Ids /\ p \in Ids /\ Becoming(m) = p /\ x \notin F
      /\ l \in Seq(Messages) /\ q # <<>> /\ Path(After(H, m), l \o s.out, U)
  BY LandedFacts
<1>2. /\ q \in Seq(Messages) /\ Fresh(q) /\ Aged(s, Spoken(c, q)) /\ Fresh(s.out) /\ Dead(s, W)
      /\ \A y \in Ids : c.map_NETID[y] # null /\ ~Shown(c, y) => y \notin Spawns(q)
      /\ \A y \in Given(q) : Shown(c, y)
      /\ Given(s.out) = {} /\ Shows(c, H, F)
  BY <1>1 DEF InStep, Told, Aware
<1>3. /\ Mentions(l) \subseteq Mentions(q) /\ x \in Mentions(q)
      /\ Spawns(l) \subseteq Spawns(q) /\ Given(l) \subseteq Given(q) /\ Fresh(l)
  BY <1>1, <1>2, TailFacts
<1>4. /\ Shown(d, x) /\ ClientGood(d) /\ Others(c, d, x)
      /\ ClientTree(d) = [ClientTree(c) EXCEPT ![x] = NoID]
  BY DEF Landed
<1>5. K.spoken = Spoken(d, l) /\ K.shown = {}
  BY DEF Aware
<1> HIDE DEF l, K
<1>6. Aged(s, K.spoken)
  <2>1. K.spoken \subseteq Spoken(c, q)
    BY <1>3, <1>4, <1>5 DEF Spoken, Others
  <2> QED
    BY <1>2, <2>1 DEF Aged
<1>7. \A y \in Ids : d.map_NETID[y] # null /\ ~Shown(d, y) => y \notin Spawns(l)
  BY <1>2, <1>3, <1>4 DEF Others
<1>8. \A y \in Given(l) : Shown(d, y)
  <2>1. \A y \in Given(l) : y \in Ids
    BY <1>1, MessageFacts DEF Given
  <2> QED
    BY <1>2, <1>3, <1>4, <2>1 DEF Others
<1>9. Shows(d, R, F)
  <2>1. F \in SUBSET Ids /\ ClientTree(c) = Hiding(H, F)
    BY <1>2 DEF Shows
  <2>2. Hiding(R, F) = [Hiding(H, F) EXCEPT ![x] = NoID]
    BY <1>1, <2>1, HidingDropped
  <2>3. \A y \in F : R[y] = H[y] /\ d.map_NETID[y] = c.map_NETID[y]
    BY <1>1, <1>4, <2>1 DEF Dropped, Trees, Others
  <2> HIDE DEF R, x
  <2> QED
    BY <1>2, <1>4, <2>1, <2>2, <2>3 DEF Shows
<1>10. s.out \in Seq(Messages) /\ l \o s.out \in Seq(Messages)
  BY <1>1 DEF ServerRecords
<1>11. t = Process_event_reject(s, p, x, TRUE)
  OBVIOUS
<1>12. Path(R, l \o s.out, U) \/ (U[x] = p /\ Path(R, l \o s.out, T))
  <2> DEFINE A == After(H, m)
             w == l \o s.out
  <2>1. A[x] = p /\ Dropped(A, x) = R
    BY <1>1 DEF After, Trees, Dropped
  <2> HIDE DEF A, m, R
  <2>2. Path(A, w, U) /\ w \in Seq(Messages) /\ x \in Ids /\ p \in Ids /\ A[x] = p
    BY <1>1, <1>10, <2>1 DEF A
  <2> HIDE DEF x, p, U, w
  <2>3. \/ Path(Dropped(A, x), w, U)
        \/ U[x] = p /\ Path(Dropped(A, x), w, Dropped(U, x))
    BY <2>2, PathRefused
  <2> QED
    BY <2>1, <2>3 DEF w
<1>13. Told(t, R, l, K, W)
  <2>1. CASE Path(R, l \o s.out, U)
    <3>1. Told(s, R, l, K, W)
      <4> HIDE DEF R
      <4> QED
        BY <1>2, <1>5, <1>6, <2>1 DEF Told
    <3>2. Follows(s, t, W)
      BY RejectFollows
    <3> HIDE DEF R
    <3> QED
      BY <1>1, <3>1, <3>2 DEF Follows
  <2>2. CASE U[x] = p /\ Path(R, l \o s.out, T)
    <3>1. s.ent[x].on = "online" /\ s.ent[x].parent = p
      BY <1>1, <2>2, ServerTreeFacts, GoneFact
    <3>2. t \in ServerRecords /\ Rejected(s, t, p, x)
      <4>1. Rejected(s, t, p, x)
        BY <1>11, RejectSent
      <4> QED
        BY <4>1 DEF Rejected
    <3>3. Path(R, l \o s.out, [ServerTree(s) EXCEPT ![x] = NoID])
      BY <2>2 DEF Dropped
    <3>4. Given(s.out) \subseteq K.shown
      BY <1>2
    <3> HIDE DEF R, x, p
    <3> QED
      BY <1>1, <1>2, <1>6, <3>1, <3>2, <3>3, <3>4, Resync
  <2> QED
    BY <1>12, <2>1, <2>2
<1>14. Given(t.out) = {}
  BY <1>5, <1>13 DEF Told
<1>15. Told(t, R, l, Aware(d, l), W)
  <2>1. K.spoken = Aware(d, l).spoken /\ K.shown \subseteq Aware(d, l).shown
    BY <1>5 DEF Aware
  <2> HIDE DEF R
  <2> QED
    BY <1>13, <2>1, LessAware
<1> HIDE DEF R
<1> QED
  BY <1>1, <1>3, <1>4, <1>7, <1>8, <1>9, <1>14, <1>15 DEF InStep, l, R

-----------------------------------------------------------------------------
(* The world and the client *)

\* What holds, beside ServerGood(server), between any two steps of the program: the
\* client would show the tree H, had it created everything.
WorldIn(H) ==
    /\ InStep(server, client, H, lost, game_events, visited)
    /\ phase \in {"receive", "update", "destroy", "parallel"}
    /\ requests \in 0 .. MaxRequests
    /\ visited \subseteq Ids
    /\ (phase = "receive") <=> (game_events # <<>>)
    /\ (phase = "parallel") => (client.destroy_queue = <<>>)
WorldGood == \E H \in Trees : WorldIn(H)

LEMMA EmptyClientGood ==
    /\ ClientGood(EmptyClient) /\ \A x \in Ids : EmptyClient.map_NETID[x] = null
    /\ ClientTree(EmptyClient) = [x \in Ids |-> Gone]
<1> DEFINE c == EmptyClient
<1>1. /\ c.obj = [o \in Pointers |-> Deleted] /\ c.map_NETID = [x \in Ids |-> null]
      /\ c.destroy_queue = <<>>
  BY DEF EmptyClient
<1>2. c \in Clients
  <2>1. c.obj \in [Pointers -> Objects]
    BY <1>1, DeletedFacts
  <2>2. c.map_NETID \in [Ids -> Pointers \union {null}]
    BY <1>1
  <2>3. <<>> \in Seq(Pointers)
    BY EmptySeq
  <2> QED
    BY <2>1, <2>2, <2>3 DEF EmptyClient, Clients, Objects
<1> HIDE DEF c
<1>3. MapGood(c)
  BY <1>1, DeletedFacts DEF MapGood
<1>4. QueueGood(c)
  <2>1. IsInjective(<<>>) /\ ToSet(<<>>) = {}
    BY DEF IsInjective, ToSet
  <2> QED
    BY <1>1, <2>1, DeletedFacts DEF QueueGood
<1>5. \A o \in Pointers : HeldAt(c, o)
  BY <1>1, DeletedFacts DEF HeldAt
<1>6. \A x \in Ids : c.map_NETID[x] = null /\ ~Shown(c, x)
  BY <1>1 DEF Shown
<1>7. ClientTree(c) = [x \in Ids |-> Gone]
  BY <1>6 DEF ClientTree
<1> QED
  BY <1>2, <1>3, <1>4, <1>5, <1>6, <1>7 DEF ClientGood, c

LEMMA InitWorld == Init => WorldGood
<1> SUFFICES ASSUME Init PROVE WorldGood
  OBVIOUS
<1> DEFINE s == Process_spawn(EmptyServer, Zero, "owner", NoID)
           U == [x \in Ids |-> Gone]
           V == [U EXCEPT ![Zero] = NoID]
<1>0. Zero \in Ids
  BY ClientAssumption
<1>1. /\ server = [s EXCEPT !.out = <<>>] /\ client = Spawn(EmptyClient, Zero)
      /\ phase = "update" /\ game_events = <<>> /\ requests = MaxRequests /\ visited = {}
      /\ lost = {}
  BY DEF Init
<1>2. PICK o \in Pointers : o \notin Live(EmptyClient) /\ client = Arrive(EmptyClient, Zero, o)
  BY <1>0, <1>1, EmptyClientGood, SpawnArrives
<1>3. /\ ClientGood(client) /\ Shown(client, Zero)
      /\ \A y \in Ids \ {Zero} : client.map_NETID[y] = null /\ ~Shown(client, y)
      /\ ClientTree(client) = V
  <2>1. /\ ClientGood(client) /\ Shown(client, Zero)
        /\ \A y \in Ids \ {Zero} : client.map_NETID[y] = EmptyClient.map_NETID[y]
        /\ ClientTree(client) = [ClientTree(EmptyClient) EXCEPT ![Zero] = NoID]
    BY <1>0, <1>2, EmptyClientGood, ArriveGood
  <2>2. \A y \in Ids \ {Zero} : client.map_NETID[y] = null
    BY <2>1, EmptyClientGood
  <2> QED
    BY <2>1, <2>2, EmptyClientGood DEF Shown
<1>4. ServerGood(server) /\ server \in ServerRecords
  BY InitGood DEF ServerGood
<1>5. /\ server.out = <<>> /\ server.ent[Zero].on = "online" /\ server.ent[Zero].parent = NoID
      /\ \A y \in Ids \ {Zero} : server.ent[y].on = "no"
  <2>1. s.ent = [EmptyServer.ent EXCEPT ![Zero] = Entity("online", "owner", NoID, <<>>)]
    BY DEF Process_spawn, SendBroadcast, EmptyServer
  <2>2. EmptyServer.ent = [x \in Ids |-> NoEntity]
    BY DEF EmptyServer
  <2>3. s \in ServerRecords
    <3>1. Zero \in EmptyServer.gen.free
      BY IdFacts DEF EmptyServer, FullGenerator
    <3>2. ServerGood(s)
      BY <3>1, EmptyGood, SpawnGood DEF Kinds
    <3> QED
      BY <3>2 DEF ServerGood
  <2> HIDE DEF s
  <2>4. server.out = <<>> /\ server.ent = s.ent
    BY <1>1, <2>3 DEF ServerRecords
  <2> QED
    BY <1>0, <2>1, <2>2, <2>4 DEF Entity, NoEntity
<1>6. ServerTree(server) = V
  <2>1. \A x \in Ids : ServerTree(server)[x] = V[x]
    BY <1>5 DEF ServerTree
  <2>2. ServerTree(server) \in Trees /\ V \in Trees
    BY <1>4, ServerTreeFacts DEF Trees
  <2> DEFINE T == ServerTree(server)
  <2> HIDE DEF T, V
  <2>3. T = V
    BY <2>1, <2>2 DEF Trees, T
  <2> QED
    BY <2>3 DEF T
<1>7. Path(V, <<>> \o server.out, V)
  <2>1. V \in Trees
    BY <1>4, <1>6, ServerTreeFacts
  <2>2. <<>> \o <<>> = <<>>
    OBVIOUS
  <2> HIDE DEF V
  <2> QED
    BY <1>5, <2>1, <2>2, PathNil
<1>8. /\ Mentions(<<>>) = {} /\ Destroys(<<>>) = {} /\ Spawns(<<>>) = {} /\ Given(<<>>) = {}
      /\ Fresh(<<>>)
  BY DEF Mentions, Destroys, Spawns, Given, Fresh
<1>9. Aged(server, Aware(client, <<>>).spoken)
  BY <1>3, <1>5, <1>8 DEF Aged, Spoken, Aware
<1>10. Told(server, V, <<>>, Aware(client, <<>>), {})
  <2> HIDE DEF V
  <2> QED
    BY <1>5, <1>6, <1>7, <1>8, <1>9 DEF Told, Dead
<1>11. V \in Trees /\ Shows(client, V, {})
  <2>1. V \in Trees
    BY <1>4, <1>6, ServerTreeFacts
  <2> HIDE DEF V
  <2> QED
    BY <1>3, <2>1, HidingFacts DEF Shows
<1>12. InStep(server, client, V, {}, <<>>, {})
  <2>1. <<>> \in Seq(Messages)
    BY EmptySeq
  <2> HIDE DEF V
  <2> QED
    BY <1>3, <1>8, <1>10, <1>11, <2>1 DEF InStep
<1>13. WorldIn(V)
  <2> HIDE DEF V
  <2> QED
    BY <1>1, <1>12, BoundsAssumption DEF WorldIn
<1> HIDE DEF V
<1> QED
  BY <1>11, <1>13 DEF WorldGood

\* An id is new: its block has been left alone for MaxAge frames, and no message
\* that the client is still to receive mentions it.
LEMMA RestedFacts ==
    ASSUME ServerGood(server), NEW H \in Trees, WorldIn(H), RestedBlock, NEW x \in NewIds(server.gen)
    PROVE  /\ x \in server.gen.free /\ x \in Ids /\ Age(server, x) = MaxAge
           /\ server.ent[x].on = "no"
           /\ x \notin Mentions(server.out) /\ x \notin Destroys(server.out)
<1>1. x \in server.gen.free /\ Block(x) \in LeastBlocks(server.gen)
  BY DEF NewIds
<1>2. x \in Ids /\ server.ent[x].on = "no"
  BY <1>1, FreeIsNew
<1>3. server.gen.age \in [Blocks -> 0 .. MaxAge]
  BY DEF ServerGood, ServerRecords, GenRecords
<1>4. Age(server, x) = MaxAge
  <2>1. PICK b \in Blocks : FreeIn(server.gen, b) # {} /\ server.gen.age[b] = MaxAge
    BY DEF RestedBlock
  <2>2. Block(x) \in Blocks /\ server.gen.age[Block(x)] >= MaxAge
    BY <1>1, <2>1 DEF LeastBlocks
  <2> QED
    BY <1>3, <2>2, AgeAssumption DEF Age
<1>5. x \notin Mentions(server.out)
  <2>1. Aged(server, Aware(client, game_events).spoken)
    BY DEF WorldIn, InStep, Told
  <2> QED
    BY <1>2, <1>4, <2>1, AgeAssumption DEF Aged
<1> QED
  BY <1>1, <1>2, <1>4, <1>5 DEF Mentions, Destroys

LEMMA RequestWorld ==
    ASSUME ServerGood(server), NEW H \in Trees, WorldIn(H), NextRequest
    PROVE  WorldIn(H)' /\ Rested(server, server')
<1>0. /\ InStep(server, client, H, lost, game_events, visited) /\ ClientGood(client)
      /\ {} \subseteq visited /\ game_events \in Seq(Messages)
      /\ Told(server, H, game_events, Aware(client, game_events), visited)
  BY DEF WorldIn, InStep
<1>1. ASSUME NEW s, Request(s), Rested(server, s),
             Told(s, H, game_events, Aware(client, game_events), visited), ClientGood(client'),
             SameShown(client, client'), client'.destroy_queue = client.destroy_queue
      PROVE  WorldIn(H)' /\ Rested(server, server')
  <2>1. server' = s /\ requests > 0 /\ requests' = requests - 1
        /\ phase \in {"update", "parallel"} /\ UNCHANGED <<phase, game_events, visited, lost>>
    BY <1>1 DEF Request, CanRequest
  <2>2. game_events = <<>>
    BY <2>1 DEF WorldIn
  <2>3. InStep(s, client, H, lost, game_events, visited)
    BY <1>0, <1>1, <2>2 DEF InStep
  <2>4. InStep(s, client', H, lost, game_events, visited)
    BY <1>1, <2>3, ClientStutters
  <2>5. requests' \in 0 .. MaxRequests
    BY <2>1, BoundsAssumption DEF WorldIn
  <2> QED
    BY <1>1, <2>1, <2>4, <2>5 DEF WorldIn
<1>10. ASSUME NEW s, Follows(server, s, {})
       PROVE  Rested(server, s) /\ Told(s, H, game_events, Aware(client, game_events), visited)
  BY <1>0, <1>10 DEF Follows
<1>11. ASSUME NEW s, ServerRequest(s), Rested(server, s),
              Told(s, H, game_events, Aware(client, game_events), visited)
       PROVE  WorldIn(H)' /\ Rested(server, server')
  <2>1. Request(s) /\ client' = client
    BY <1>11 DEF ServerRequest
  <2>2. SameShown(client, client)
    BY DEF SameShown
  <2> QED
    BY <1>0, <1>1, <1>11, <2>1, <2>2
<1>2. ASSUME NEW s, ServerRequest(s), Follows(server, s, {})
      PROVE  WorldIn(H)' /\ Rested(server, server')
  BY <1>2, <1>10, <1>11
<1>3. ASSUME NEW p \in OwnerIds, NEW x \in ClientIds \ OwnerIds, RequestTake(p, x)
      PROVE  WorldIn(H)' /\ Rested(server, server')
  <2> DEFINE u == Process_event_ownership(server, p, x, Valid(client))
  <2>1. server.ent[p].kind = "owner"
    BY OwnerFacts
  <2>2. Online(server, x) => server.ent[x].kind # "owner"
    BY DEF OwnerIds, Owners, Entities, Known, Online
  <2>3. Valid(client) \subseteq Aware(client, game_events).shown
    BY DEF Valid, Aware, Shown, HasObject, net_Find
  <2>4. ServerRequest(u)
    BY <1>3 DEF RequestTake
  <2>5. /\ Rested(server, u)
        /\ \A V, K, W : \A q \in Seq(Messages) :
              Told(server, V, q, K, W) /\ Valid(client) \subseteq K.shown => Told(u, V, q, K, W)
    BY <2>1, <2>2, OwnershipTold
  <2> HIDE DEF u
  <2>6. Told(u, H, game_events, Aware(client, game_events), visited)
    BY <1>0, <2>3, <2>5
  <2> QED
    BY <1>11, <2>4, <2>5, <2>6
<1>4. ASSUME NEW p, NEW x, RequestReject(p, x)
      PROVE  WorldIn(H)' /\ Rested(server, server')
  <2>1. server \in ServerRecords /\ Linked(server)
    BY DEF ServerGood
  <2>2. Follows(server, Process_event_reject(server, p, x, TRUE), {})
    BY <2>1, RejectFollows
  <2> QED
    BY <1>2, <1>4, <2>2 DEF RequestReject
<1>5. ASSUME NEW o \in Live(client), DestroyObject(o)
      PROVE  WorldIn(H)' /\ Rested(server, server')
  <2> DEFINE s == IF client.obj[o].bDestroy THEN server
                  ELSE Process_event_destroy(server, client.obj[o].id)
  <2>1. Request(s) /\ client' = [client EXCEPT !.obj[o].m_bObjectRemoved = TRUE]
    BY <1>5 DEF DestroyObject
  <2>2. Rested(server, s) /\ Told(s, H, game_events, Aware(client, game_events), visited)
    <3>1. Follows(server, s, {})
      BY DestroyGood, FollowsSelf
    <3> HIDE DEF s
    <3> QED
      BY <1>10, <3>1
  <2>3. /\ ClientGood(client') /\ SameShown(client, client')
        /\ client'.destroy_queue = client.destroy_queue
    BY <1>0, <2>1, FlagGood
  <2> HIDE DEF s
  <2> QED
    BY <1>1, <2>1, <2>2, <2>3
<1>6. ASSUME RestedBlock, NEW x \in NewIds(server.gen), NEW p, NEW kind \in {"item", "temp"},
             RequestSpawn(x, kind, p)
      PROVE  WorldIn(H)' /\ Rested(server, server')
  <2>1. /\ x \in server.gen.free /\ x \notin Destroys(server.out) /\ kind \in Kinds
        /\ Age(server, x) = MaxAge
    BY <1>6, RestedFacts DEF Kinds
  <2>2. Follows(server, Process_spawn(server, x, kind, p), {})
    BY <2>1, SpawnFollows
  <2> QED
    BY <1>2, <1>6, <2>2 DEF RequestSpawn
<1>7. ASSUME RestedBlock, NEW x \in NewIds(server.gen), NEW kind \in {"item", "owner"},
             NEW p \in Owners \union {NoID}, (kind = "owner") => (p = NoID),
             Create(x, kind, p)
      PROVE  WorldIn(H)' /\ Rested(server, server')
  <2>1. /\ x \in server.gen.free /\ x \notin Destroys(server.out)
        /\ Age(server, x) = MaxAge
    BY <1>7, RestedFacts
  <2>2. kind \in Kinds \ {"temp"}
    BY DEF Kinds
  <2>3. p # NoID => /\ p \in Ids /\ server.ent[p].kind = "owner" /\ server.ent[p].on # "no"
                    /\ kind # "owner"
    BY <1>7, OwnerFacts
  <2>4. Follows(server, spawn_item2(server, x, kind, p), {})
    BY <2>1, <2>2, <2>3, SpawnItemFollows
  <2> QED
    BY <1>2, <1>7, <2>4 DEF Create
<1>8. ASSUME NEW x \in Entities, Release(x)
      PROVE  WorldIn(H)' /\ Rested(server, server')
  <2> DEFINE s == IF Online(server, x) THEN Process_event_destroy(server, x)
                  ELSE release(server, x)
  <2>1. ServerRequest(s)
    BY <1>8 DEF Release
  <2>2. ~Online(server, x) => x \in Ids /\ server.ent[x].on = "offline"
    BY DEF Entities, Known, Online, ServerGood, ServerRecords, EntityRecords
  <2>3. Follows(server, s, {})
    BY <2>2, DestroyGood, ReleaseGood
  <2> HIDE DEF s
  <2> QED
    BY <1>2, <2>1, <2>3
<1>9. NoID \in Owners \union {NoID}
  OBVIOUS
<1> QED
  BY <1>3, <1>4, <1>5, <1>6, <1>7, <1>8, <1>9 DEF NextRequest

LEMMA ToldMore ==
    ASSUME NEW s, NEW V, NEW q, NEW K, NEW W, Told(s, V, q, K, W), NEW X, W \subseteq X
    PROVE  Told(s, V, q, K, X)
BY LostMore DEF Told, Dead

\* What has gone offline is held by the object that has been switched, not by one
\* of the children it had.
LEMMA SwitchedDead ==
    ASSUME NEW t \in ServerRecords, Linked(t), NEW x \in Ids, NEW C \in SUBSET Ids,
           \A c \in C : Kept(t, x, c), NEW W, Dead(t, W \union C)
    PROVE  Dead(t, W)
<1> SUFFICES ASSUME NEW y \in Destroys(t.out) PROVE Lost(t, y, W)
  BY DEF Dead
<1>1. Lost(t, y, W \union C)
  BY DEF Dead
<1>2. y \in Ids
  BY MessageFacts DEF Destroys, ServerRecords
<1> DEFINE h == Holder(t, y)
<1>3. ASSUME t.ent[y].on = "offline", h \in C PROVE FALSE
  <2>1. h \in Ids /\ t.ent[h].parent = NoID /\ t.ent[h].on = "offline"
    BY <1>2, <1>3, LinkedFacts DEF Holder
  <2>2. Kept(t, x, h)
    BY <1>3
  <2> HIDE DEF h
  <2> QED
    BY <2>1, <2>2, NoIdAssumption DEF Kept
<1> QED
  BY <1>1, <1>3 DEF Lost

LEMMA SwitchWorld ==
    ASSUME ServerGood(server), NEW H \in Trees, WorldIn(H), NEW x, SwitchObject(x)
    PROVE  WorldIn(H)' /\ Rested(server, server')
<1> DEFINE q == game_events
           K == Aware(client, game_events)
           W == visited
           X == visited \union {x}
<1>1. /\ InStep(server, client, H, lost, q, W) /\ Told(server, H, q, K, W)
      /\ q \in Seq(Messages) /\ q = <<>>
  BY DEF WorldIn, InStep, SwitchObject
<1>2. server \in ServerRecords /\ Linked(server)
  BY DEF ServerGood
<1>3. /\ x \in Ids /\ server.ent[x].on # "no" /\ server.ent[x].parent = NoID
      /\ server.ent[x].kind # "temp" /\ x \notin visited
      /\ server' = IF Online(server, x) THEN remove_online(server, x)
                   ELSE add_online(server, x)
      /\ requests > 0 /\ requests' = requests - 1 /\ visited' = X
      /\ UNCHANGED <<client, phase, game_events, lost>>
  BY DEF SwitchObject, Known, Root
<1>4. server.ent[x].on \in {"online", "offline"}
  BY <1>2, <1>3 DEF ServerRecords, EntityRecords
<1>5. Online(server, x) <=> server.ent[x].on = "online"
  BY <1>3 DEF Online
<1> DEFINE C == ToSet(server.ent[x].children)
<1>6. \A c \in C : c \in Ids /\ server.ent[c].parent = x /\ server.ent[c].on = server.ent[x].on
  BY <1>2, <1>3, LinkedFacts
<1>7. Told(server', H, q, K, X) /\ Rested(server, server')
  <2> HIDE DEF q, K
  <2>1. CASE server.ent[x].on = "offline"
    <3>1. Dead(server, W)
      BY <1>1 DEF Told
    <3>2. ASSUME NEW y \in {x} \union C PROVE y \notin Destroys(server.out)
      <4>1. y \in Ids /\ server.ent[y].on = "offline" /\ Holder(server, y) = x
        BY <1>3, <1>6, <2>1, NoIdAssumption DEF Holder
      <4>2. ~Lost(server, y, W)
        BY <1>3, <4>1 DEF Lost
      <4> QED
        BY <3>1, <4>2 DEF Dead
    <3>3. Destroys(server.out) \cap ({x} \union C) = {}
      BY <3>2
    <3>4. Follows(server, server', {})
      BY <1>3, <1>5, <2>1, <3>3, AddOnlineGood
    <3>5. Told(server', H, q, K, W)
      BY <1>1, <3>4 DEF Follows
    <3>6. Rested(server, server')
      BY <3>4 DEF Follows
    <3> QED
      BY <3>5, <3>6, ToldMore
  <2>2. CASE server.ent[x].on = "online"
    <3> DEFINE t == remove_online(server, x)
               D == C \union {x}
    <3>1. /\ ServerGood(t) /\ Follows(server, t, D) /\ \A c \in C : Kept(t, x, c)
          /\ server' = t
      BY <1>3, <1>5, <2>2, RemoveOnlineGood
    <3> HIDE DEF t
    <3>2. Told(server, H, q, K, X \union C)
      BY <1>1, ToldMore
    <3>3. Told(t, H, q, K, X \union C)
      BY <1>1, <3>1, <3>2 DEF Follows
    <3>4. t \in ServerRecords /\ Linked(t) /\ C \in SUBSET Ids /\ Dead(t, X \union C)
      BY <1>6, <3>1, <3>3 DEF ServerGood, Told
    <3>5. Dead(t, X)
      <4> HIDE DEF C, X
      <4> QED
        BY <1>3, <3>1, <3>4, SwitchedDead
    <3>6. Rested(server, server')
      BY <3>1 DEF Follows
    <3> QED
      BY <3>1, <3>3, <3>5, <3>6 DEF Told
  <2> QED
    BY <1>4, <2>1, <2>2
<1>8. InStep(server', client, H, lost, q, X)
  <2> HIDE DEF X
  <2> QED
    BY <1>1, <1>7 DEF InStep
<1>9. requests' \in 0 .. MaxRequests /\ X \subseteq Ids
  BY <1>3, BoundsAssumption DEF WorldIn
<1> QED
  BY <1>3, <1>7, <1>8, <1>9 DEF WorldIn

\* The first message of q is handled; or its object is not created; or the item it
\* gives away is refused.  The client, had it created everything, then shows I.
Answered(s, c, H, F, q, t, d, I, G) ==
    LET m == Head(q)
    IN  \/ /\ t = s /\ I = After(H, m)
           /\ G = IF m.type = "destroy" THEN F \ {m.id} ELSE F
        \/ /\ m.type = "spawn" /\ t = s /\ I = After(H, m)
           /\ G = F \union {m.id} /\ ClientTree(d) = ClientTree(c)
        \/ /\ Landed(c, q, d) /\ {m.id, m.dest} \intersect F = {}
           /\ t = Process_event_reject(s, m.dest, m.id, TRUE)
           /\ I = Dropped(H, m.id) /\ G = F

\* The object x of a spawn or of a take is there and held by nobody when the owner p
\* is asked, who has it, or refuses.
LEMMA AttachStep ==
    ASSUME NEW s \in ServerRecords, Linked(s), NEW c, NEW H \in Trees, NEW F, NEW q, NEW W,
           InStep(s, c, H, F, q, W), NEW e, Landed(c, q, e), NEW m, m = Head(q),
           Shown(e, m.dest), m.dest \notin F,
           NEW canTake \in BOOLEAN, NEW d, d = OnTake(e, m.dest, m.id, canTake),
           NEW t, t = IF Refuses(e, m.dest, m.id, canTake)
                      THEN Process_event_reject(s, m.dest, m.id, TRUE) ELSE s
    PROVE  \E I \in Trees : InStep(t, d, I, F, Tail(q), W) /\ Answered(s, c, H, F, q, t, d, I, F)
<1> DEFINE x == m.id
           p == m.dest
           o == e.map_NETID[x]
           C == ClientTree(c)
<1>1. /\ m \in Messages /\ x \in Ids /\ p \in Ids /\ Becoming(m) = p /\ q # <<>>
      /\ m.type \in {"spawn", "take"} /\ x \notin F
  BY LandedFacts DEF Landed
<1>2. ClientGood(e) /\ ClientTree(e) = [C EXCEPT ![x] = NoID] /\ Shown(e, x) /\ Others(c, e, x)
  BY DEF Landed
<1>3. /\ net_Find(e, x) = o /\ net_Find(e, p) = e.map_NETID[p]
      /\ HasObject(e, x) /\ HasObject(e, p) /\ ~e.obj[o].bDestroy
  BY <1>1, <1>2 DEF HasObject, net_Find, Shown
<1>4. F \in SUBSET Ids /\ C = Hiding(H, F) /\ Shows(c, H, F) /\ C \in Trees
  <2>1. F \in SUBSET Ids /\ C = Hiding(H, F) /\ Shows(c, H, F)
    BY DEF InStep, Shows
  <2> QED
    BY <2>1, HidingFacts
<1>5. CASE canTake
  <2> DEFINE h == SetHolder(e, e.map_NETID[x], e.map_NETID[p])
             A == After(H, m)
  <2>1. Takes(e, p, x, canTake) /\ ~Refuses(e, p, x, canTake)
    BY <1>3, <1>5 DEF Takes, Refuses
  <2>2. d = h /\ t = s
    BY <1>3, <2>1 DEF OnTake, SetHolder
  <2>3. /\ ClientGood(h) /\ h.map_NETID = e.map_NETID
        /\ ClientTree(h) = [ClientTree(e) EXCEPT ![x] = p]
    <3>1. ClientGood(e) /\ x \in Ids /\ Shown(e, x) /\ p \in Ids /\ Shown(e, p)
      BY <1>1, <1>2
    <3> HIDE DEF x, p
    <3> QED
      BY <3>1, AttachGood
  <2> HIDE DEF h
  <2>4. ClientGood(d) /\ d.map_NETID = e.map_NETID /\ ClientTree(d) = [ClientTree(e) EXCEPT ![x] = p]
    BY <2>2, <2>3
  <2>5. Hiding(A, F) = [C EXCEPT ![x] = p]
    BY <1>1, <1>4, HidingAfter
  <2> HIDE DEF C, A
  <2>6. /\ ClientTree(d) = Hiding(A, F) /\ ClientTree(d)[x] = p
        /\ \A y \in Ids : y # x => ClientTree(d)[y] = ClientTree(e)[y]
    <3> DEFINE D == ClientTree(d)
               E == ClientTree(e)
    <3>1. E = [C EXCEPT ![x] = NoID] /\ D = [E EXCEPT ![x] = p] /\ C \in Trees /\ x \in Ids
      BY <1>1, <1>2, <1>4, <2>4
    <3> HIDE DEF D, E, x, p
    <3>2. D = [C EXCEPT ![x] = p] /\ D[x] = p /\ \A y \in Ids : y # x => D[y] = E[y]
      BY <3>1 DEF Trees
    <3> QED
      BY <2>5, <3>2 DEF D, E
  <2>7. Shown(d, x) /\ \A y \in Ids \ {x} : Shown(d, y) <=> Shown(e, y)
    <3>1. \A y \in Ids : /\ Shown(d, y) <=> ClientTree(d)[y] # Gone
                         /\ Shown(e, y) <=> ClientTree(e)[y] # Gone
      BY <1>2, <2>4, ShownFacts
    <3>2. p # Gone
      BY <1>1, GoneFact
    <3> HIDE DEF x, p
    <3> QED
      BY <1>1, <2>6, <3>1, <3>2
  <2>8. Others(c, d, m.id)
    BY <1>2, <2>4, <2>7 DEF Others
  <2>9. A \in Trees /\ \A y \in Ids : y # x => A[y] = H[y]
    BY <1>1, AfterTyped DEF A
  <2>10. Shows(d, A, F)
    <3>1. \A y \in F : A[y] # Gone /\ d.map_NETID[y] = null
      BY <1>1, <1>4, <2>8, <2>9 DEF Shows, Others
    <3> QED
      BY <1>4, <2>6, <3>1 DEF Shows
  <2>11. InStep(s, d, A, F, Tail(q), W)
    <3>1. Shows(d, After(H, m), F) /\ Shown(d, m.id) /\ ClientGood(d) /\ q # <<>>
      BY <1>1, <2>4, <2>7, <2>10 DEF A
    <3> HIDE DEF o, x, p
    <3> QED
      BY <2>8, <3>1, MessageHandled DEF A
  <2>12. Answered(s, c, H, F, q, t, d, A, F)
    BY <1>1, <2>2 DEF Answered, A
  <2> QED
    BY <2>2, <2>9, <2>11, <2>12
<1>6. CASE ~canTake
  <2> DEFINE R == Dropped(H, x)
  <2>1. ~Takes(e, p, x, canTake) /\ Refuses(e, p, x, canTake)
    BY <1>3, <1>6 DEF Takes, Refuses
  <2>2. d = e /\ t = Process_event_reject(s, Head(q).dest, Head(q).id, TRUE)
    BY <2>1 DEF OnTake
  <2>3. InStep(t, e, R, F, Tail(q), W)
    <3> HIDE DEF o, p
    <3> QED
      BY <2>2, MessageRefused
  <2>4. R \in Trees
    BY <1>1 DEF Dropped, Trees
  <2>5. {m.id, m.dest} \intersect F = {}
    BY <1>1
  <2>6. Answered(s, c, H, F, q, t, d, R, F)
    BY <2>2, <2>5 DEF Answered
  <2> HIDE DEF R
  <2> QED
    BY <2>2, <2>3, <2>4, <2>6
<1> QED
  BY <1>5, <1>6

\* GE_OWNERSHIP_REJECT of an item that its owner holds, that was refused, or that
\* could not be created.
LEMMA RejectStep ==
    ASSUME NEW s \in ServerRecords, NEW c, NEW H \in Trees, NEW F, NEW q, NEW W,
           InStep(s, c, H, F, q, W), q # <<>>, NEW m, m = Head(q), m.type = "reject",
           NEW d, d = OnReject(c, m.dest, m.id)
    PROVE  InStep(s, d, After(H, m), F, Tail(q), W)
<1> DEFINE x == m.id
           p == m.dest
           C == ClientTree(c)
           A == After(H, m)
           o == c.map_NETID[x]
<1>1. /\ m \in Messages /\ x \in Ids /\ p \in Ids \union {NoID} /\ Becoming(m) = NoID
      /\ ClientGood(c) /\ Shows(c, H, F) /\ (H[x] = NoID \/ H[x] = p)
  <2>1. m \in Messages /\ Legal(H, m)
    BY FirstMessage
  <2>2. ClientGood(c) /\ Shows(c, H, F)
    BY DEF InStep
  <2> QED
    BY <2>1, <2>2, MessageFacts DEF Legal, Becoming
<1>2. F \in SUBSET Ids /\ C = Hiding(H, F) /\ C \in Trees
  BY <1>1, HidingFacts DEF Shows
<1>3. A \in Trees /\ \A y \in Ids : y # x => A[y] = H[y]
  BY <1>1, AfterTyped
<1>4. A[x] # Gone /\ NoID \notin F
  BY <1>1, <1>2, AfterTyped, GoneFact, IdFacts
<1> HIDE DEF A
<1>5. ASSUME ClientGood(d), ClientTree(d) = Hiding(A, F), d.map_NETID = c.map_NETID,
             Others(c, d, m.id), Shown(d, m.id) \/ m.id \in F
      PROVE  InStep(s, d, After(H, m), F, Tail(q), W)
  <2>1. \A y \in F : A[y] # Gone /\ d.map_NETID[y] = null
    BY <1>1, <1>2, <1>3, <1>4, <1>5 DEF Shows
  <2>2. Shows(d, After(H, m), F)
    BY <1>2, <1>5, <2>1 DEF Shows, A
  <2>3. Shown(d, m.id) \/ (c.map_NETID[m.id] = null /\ d.map_NETID[m.id] = null)
    BY <1>1, <1>5 DEF Shows
  <2> HIDE DEF x, p, o, C
  <2> QED
    BY <1>5, <2>2, <2>3, MessageHandled
<1>6. CASE x \in F
  <2>1. c.map_NETID[x] = null
    BY <1>1, <1>6 DEF Shows
  <2>2. d = c
    BY <2>1 DEF OnReject, HasObject, net_Find
  <2>3. Hiding(A, F) = C
    BY <1>1, <1>2, <1>6, HidingUnseen DEF A
  <2> QED
    BY <1>1, <1>5, <1>6, <2>2, <2>3 DEF Others
<1>7. CASE x \notin F
  <2>1. /\ Shown(c, x) /\ Hiding(A, F) = [C EXCEPT ![x] = NoID]
        /\ C[x] = NoID \/ (p \in Ids /\ C[x] = p)
    <3>1. Hiding(A, F) = [C EXCEPT ![x] = NoID]
      BY <1>1, <1>2, <1>4, <1>7, HidingAfter DEF A
    <3>2. Shown(c, x) <=> H[x] # Gone
      BY <1>1, <1>7, ShowsFacts
    <3>3. H[x] # Gone
      BY <1>1, GoneFact
    <3>4. C[x] = NoID \/ C[x] = H[x]
      BY <1>1, <1>7, ShowsFacts
    <3> QED
      BY <1>1, <3>1, <3>2, <3>3, <3>4
  <2>2. net_Find(c, x) = o /\ HasObject(c, x) /\ ~c.obj[o].bDestroy
    BY <1>1, <2>1 DEF HasObject, net_Find, Shown
  <2>3. CASE HasObject(c, p) /\ c.obj[o].parent = net_Find(c, p)
    <3> DEFINE h == SetHolder(c, c.map_NETID[x], null)
    <3>1. d = h
      BY <2>2, <2>3 DEF OnReject, SetHolder
    <3>2. /\ ClientGood(h) /\ h.map_NETID = c.map_NETID /\ ClientTree(h) = [C EXCEPT ![x] = NoID]
      <4> HIDE DEF o, x
      <4> QED
        BY <1>1, <2>1, DetachGood
    <3> HIDE DEF h
    <3>3. ClientGood(d) /\ d.map_NETID = c.map_NETID /\ ClientTree(d) = [C EXCEPT ![x] = NoID]
      BY <3>1, <3>2
    <3>4. ClientTree(d)[x] = NoID /\ \A y \in Ids : y # x => ClientTree(d)[y] = C[y]
      <4> HIDE DEF C
      <4> QED
        BY <1>1, <1>2, <3>3 DEF Trees
    <3>5. Shown(d, x) /\ \A y \in Ids \ {x} : Shown(d, y) <=> Shown(c, y)
      BY <1>1, <3>3, <3>4, TreeFacts, GoneFact
    <3>6. Others(c, d, m.id)
      BY <3>3, <3>5 DEF Others
    <3> QED
      BY <1>5, <2>1, <3>3, <3>5, <3>6
  <2>4. CASE ~(HasObject(c, p) /\ c.obj[o].parent = net_Find(c, p))
    <3>1. d = c
      BY <2>2, <2>4 DEF OnReject
    <3>2. C[x] = NoID
      <4> SUFFICES ASSUME C[x] # NoID PROVE FALSE
        OBVIOUS
      <4>1. p \in Ids /\ C[x] = p
        BY <2>1
      <4>2. c.obj[o].parent # null /\ c.obj[o].parent = c.map_NETID[p]
        BY <1>1, <4>1, TreeFacts
      <4> QED
        BY <2>4, <4>1, <4>2 DEF HasObject, net_Find
    <3>3. [C EXCEPT ![x] = NoID] = C
      <4> HIDE DEF C
      <4> QED
        BY <1>1, <1>2, <3>2 DEF Trees
    <3> QED
      BY <1>1, <1>5, <2>1, <3>1, <3>3 DEF Others
  <2> QED
    BY <2>3, <2>4
<1> QED
  BY <1>6, <1>7

\* GE_DESTROY of an object, or of one that could not be created.
LEMMA DestroyStep ==
    ASSUME NEW s \in ServerRecords, NEW c, NEW H \in Trees, NEW F, NEW q, NEW W,
           InStep(s, c, H, F, q, W), q # <<>>, NEW m, m = Head(q), m.type = "destroy",
           NEW d, d = OnDestroy(c, m.id)
    PROVE  InStep(s, d, After(H, m), F \ {m.id}, Tail(q), W)
<1> DEFINE x == m.id
           C == ClientTree(c)
           A == After(H, m)
           G == F \ {x}
<1>1. /\ m \in Messages /\ x \in Ids /\ Becoming(m) = Gone
      /\ ClientGood(c) /\ Shows(c, H, F) /\ H[x] = NoID /\ \A y \in Ids : H[y] # x
  <2>1. m \in Messages /\ Legal(H, m)
    BY FirstMessage
  <2>2. ClientGood(c) /\ Shows(c, H, F)
    BY DEF InStep
  <2> QED
    BY <2>1, <2>2, MessageFacts DEF Legal, Becoming
<1>2. F \in SUBSET Ids /\ C = Hiding(H, F) /\ C \in Trees /\ G \in SUBSET Ids
  BY <1>1, HidingFacts DEF Shows
<1>3. A \in Trees /\ \A y \in Ids : y # x => A[y] = H[y]
  BY <1>1, AfterTyped
<1> HIDE DEF A
<1>5. ASSUME ClientGood(d), ClientTree(d) = Hiding(A, G), d.map_NETID = c.map_NETID,
             Others(c, d, m.id)
      PROVE  InStep(s, d, After(H, m), G, Tail(q), W)
  <2>1. \A y \in G : A[y] # Gone /\ d.map_NETID[y] = null
    BY <1>1, <1>2, <1>3, <1>5 DEF Shows
  <2>2. Shows(d, After(H, m), G)
    BY <1>2, <1>5, <2>1 DEF Shows, A
  <2> HIDE DEF x, C, G
  <2> QED
    BY <1>5, <2>2, MessageHandled
<1>6. CASE x \in F
  <2>1. c.map_NETID[x] = null
    BY <1>1, <1>6 DEF Shows
  <2>2. d = c
    BY <2>1 DEF OnDestroy, HasObject, net_Find
  <2>3. Hiding(A, G) = C
    BY <1>1, <1>2, <1>6, HidingLess DEF A
  <2> QED
    BY <1>1, <1>5, <2>2, <2>3 DEF Others
<1>7. CASE x \notin F
  <2>1. F = G
    BY <1>7
  <2>2. Hiding(A, F) = [C EXCEPT ![x] = Gone]
    <3>1. Gone \notin F
      BY <1>2, GoneFact
    <3> QED
      BY <1>1, <1>2, <1>7, <3>1, HidingAfter DEF A
  <2>3. C[x] = NoID /\ \A y \in Ids : C[y] # x
    <3>1. NoID \notin F /\ NoID # x /\ Gone # x
      BY <1>1, <1>2, GoneFact, IdFacts
    <3>2. \A y \in Ids : C[y] \in {Gone, NoID, H[y]}
      BY <1>1, ShowsFacts
    <3> QED
      BY <1>1, <1>7, <3>1, <3>2, ShowsFacts
  <2>4. /\ ClientGood(d) /\ d.map_NETID = c.map_NETID
        /\ \A y \in Ids \ {x} : Shown(d, y) <=> Shown(c, y)
        /\ ClientTree(d) = [C EXCEPT ![x] = Gone]
    <3> HIDE DEF x
    <3>1. d = OnDestroy(c, x)
      BY DEF x
    <3> QED
      BY <1>1, <2>3, <3>1, RegisterGood
  <2>5. Others(c, d, m.id)
    BY <2>4 DEF Others
  <2>6. ClientTree(d) = Hiding(A, G) /\ ClientGood(d) /\ d.map_NETID = c.map_NETID
    BY <2>1, <2>2, <2>4
  <2> HIDE DEF C
  <2> QED
    BY <1>5, <2>5, <2>6
<1> QED
  BY <1>6, <1>7

\* A spawn that fails leaves no trace on the client.
LEMMA FailSame ==
    ASSUME NEW c \in Clients, NEW x \in Ids, c.map_NETID[x] = null
    PROVE  SpawnFails(c, x) = c
<1>1. ~HasObject(c, x)
  BY DEF HasObject, net_Find
<1>2. SpawnFails(c, x) = [c EXCEPT !.map_NETID[x] = null]
  BY <1>1 DEF SpawnFails
<1>3. /\ c = [obj |-> c.obj, map_NETID |-> c.map_NETID, destroy_queue |-> c.destroy_queue]
      /\ c.map_NETID \in [Ids -> Pointers \union {null}]
  BY ClientTyped
<1>4. [c.map_NETID EXCEPT ![x] = null] = c.map_NETID
  BY <1>3
<1> QED
  BY <1>2, <1>3, <1>4

\* Its object is one of those that could not be created.
LEMMA FailStep ==
    ASSUME NEW s \in ServerRecords, NEW c, NEW H \in Trees, NEW F, NEW q, NEW W,
           InStep(s, c, H, F, q, W), q # <<>>, NEW m, m = Head(q), m.type = "spawn"
    PROVE  InStep(s, c, After(H, m), F \union {m.id}, Tail(q), W)
<1> DEFINE x == m.id
           C == ClientTree(c)
           G == F \union {x}
<1>1. /\ m \in Messages /\ x \in Ids /\ ClientGood(c) /\ Shows(c, H, F)
      /\ c.map_NETID[x] = null /\ x \notin F
  <2>1. /\ Head(q) \in Messages
        /\ Head(q).type = "spawn" => c.map_NETID[Head(q).id] = null /\ Head(q).id \notin F
    BY FirstMessage
  <2>2. ClientGood(c) /\ Shows(c, H, F)
    BY DEF InStep
  <2> QED
    BY <2>1, <2>2, MessageFacts
<1>3. F \in SUBSET Ids /\ C = Hiding(H, F)
  BY <1>1 DEF Shows
<1>4. C[x] = Gone /\ \A y \in Ids : C[y] # x
  <2>1. ~Shown(c, x)
    BY <1>1 DEF Shown
  <2>2. C[x] = Gone
    BY <1>1, <2>1, TreeFacts
  <2>3. \A y \in Ids : C[y] = x => Shown(c, x)
    BY <1>1, TreeFacts
  <2> QED
    BY <2>1, <2>2, <2>3
<1>5. Hiding(After(H, m), G) = C
  BY <1>1, <1>3, <1>4, HidingMore
<1>6. \A y \in G : After(H, m)[y] # Gone
  <2>1. Becoming(m) # Gone
    BY <1>1, MessageFacts, GoneFact DEF Becoming
  <2>2. \A y \in G : y \in Ids /\ (y # x => y \in F)
    BY <1>1, <1>3
  <2> QED
    BY <1>1, <2>1, <2>2, AfterTyped DEF Shows
<1>7. Shows(c, After(H, m), G)
  BY <1>1, <1>3, <1>5, <1>6 DEF Shows
<1>8. Others(c, c, m.id)
  BY DEF Others
<1> HIDE DEF G, C
<1>9. InStep(s, c, After(H, m), G, Tail(q), W)
  BY <1>1, <1>7, <1>8, MessageHandled
<1> QED
  BY <1>9 DEF G

\* One message of ProcessGameEvents().
LEMMA ReceiveStep ==
    ASSUME ServerGood(server), NEW H \in Trees, WorldIn(H), Receive
    PROVE  \E I \in Trees :
              /\ InStep(server', client', I, lost', Tail(game_events), visited)
              /\ Answered(server, client, H, lost, game_events, server', client', I, lost')
<1> DEFINE c == client
           s == server
           q == game_events
           W == visited
           F == lost
           m == Head(q)
           x == m.id
           p == m.dest
           C == ClientTree(c)
           A == After(H, m)
           Done == \E I \in Trees :
                      /\ InStep(server', client', I, lost', Tail(q), W)
                      /\ Answered(s, c, H, F, q, server', client', I, lost')
<1>1. s \in ServerRecords /\ Linked(s) /\ InStep(s, c, H, F, q, W) /\ q # <<>>
  BY DEF ServerGood, WorldIn, Receive
<1>2. /\ m \in Messages /\ x \in Ids /\ p \in Ids \union {NoID} /\ Legal(H, m)
      /\ m.type = "spawn" => c.map_NETID[x] = null /\ x \notin F
      /\ m.type = "take" => x \notin F
      /\ ClientGood(c) /\ C \in Trees /\ Shows(c, H, F) /\ F \in SUBSET Ids /\ C = Hiding(H, F)
      /\ A \in Trees /\ A[x] = Becoming(m) /\ \A y \in Ids : y # x => A[y] = H[y]
  <2>1. /\ m \in Messages /\ Legal(H, m) /\ (m.type = "spawn" => c.map_NETID[x] = null /\ x \notin F)
        /\ m.type = "take" => x \notin F
    BY <1>1, FirstMessage
  <2>2. ClientGood(c) /\ Shows(c, H, F) /\ F \in SUBSET Ids /\ C = Hiding(H, F)
    BY <1>1 DEF InStep, Shows
  <2> QED
    BY <2>1, <2>2, MessageFacts, TreeFacts, AfterTyped
<1>3. \/ /\ m.type = "spawn" /\ lost' = F
         /\ IF p = NoID THEN client' = Spawn(c, x) /\ server' = s
            ELSE Attach(Spawn(c, x), p, x)
      \/ m.type = "spawn" /\ client' = SpawnFails(c, x) /\ server' = s /\ lost' = F \union {x}
      \/ m.type = "take" /\ Attach(c, p, x) /\ lost' = F
      \/ m.type = "reject" /\ client' = OnReject(c, p, x) /\ server' = s /\ lost' = F
      \/ m.type = "destroy" /\ client' = OnDestroy(c, x) /\ server' = s /\ lost' = F \ {x}
  BY DEF Receive
<1>14. x \notin F =>
         Hiding(A, F) = [C EXCEPT ![x] = IF Becoming(m) \in F THEN NoID ELSE Becoming(m)]
  <2> HIDE DEF m, C, F
  <2> QED
    BY <1>2, HidingAfter DEF x
<1> HIDE DEF A, Done
<1>13. ASSUME NEW e, NEW G, NEW I \in Trees, InStep(s, e, I, G, Tail(q), W),
              Answered(s, c, H, F, q, s, e, I, G), client' = e, server' = s, lost' = G
       PROVE  Done
  BY <1>13 DEF Done
\* The message is handled, and what could not be created stays.
<1>4. ASSUME NEW e, ClientGood(e), ClientTree(e) = Hiding(A, F), Others(c, e, x), Shown(e, x),
             m.type \in {"spawn", "take"}, x \notin F, client' = e, server' = s, lost' = F
      PROVE  Done
  <2>1. \A y \in F : A[y] # Gone /\ e.map_NETID[y] = null
    BY <1>2, <1>4 DEF Shows, Others
  <2>2. Shows(e, After(H, m), F)
    BY <1>2, <1>4, <2>1 DEF Shows, A
  <2>3. ClientGood(e) /\ Others(c, e, m.id) /\ Shown(e, m.id)
    BY <1>4
  <2>4. InStep(s, e, A, F, Tail(q), W)
    <3> HIDE DEF c, s, q, W, F, x, p, C
    <3> QED
      BY <1>1, <2>2, <2>3, MessageHandled DEF A, m
  <2>5. Answered(s, c, H, F, q, s, e, A, F)
    BY <1>4 DEF Answered, A
  <2> HIDE DEF c, s, q, W, F, m
  <2> QED
    BY <1>2, <1>4, <1>13, <2>4, <2>5
<1>5. ASSUME NEW e, Landed(c, q, e), Shown(e, p), p \notin F, Attach(e, p, x), lost' = F
      PROVE  Done
  <2>1. PICK canTake \in BOOLEAN :
           /\ client' = OnTake(e, p, x, canTake)
           /\ server' = IF Refuses(e, p, x, canTake)
                        THEN Process_event_reject(s, p, x, TRUE) ELSE s
    BY <1>5 DEF Attach
  <2> DEFINE d == OnTake(e, p, x, canTake)
             t == IF Refuses(e, p, x, canTake) THEN Process_event_reject(s, p, x, TRUE) ELSE s
  <2>2. \E I \in Trees : InStep(t, d, I, F, Tail(q), W) /\ Answered(s, c, H, F, q, t, d, I, F)
    BY <1>1, <1>5, AttachStep
  <2> HIDE DEF d, t
  <2>3. client' = d /\ server' = t
    BY <2>1 DEF d, t
  <2> QED
    BY <1>5, <2>2, <2>3 DEF Done
\* Nobody is there to be asked: the owner could not be created.
<1>6. ASSUME NEW e, p \in F, e.map_NETID[p] = null, Attach(e, p, x)
      PROVE  client' = e /\ server' = s
  <2>1. ~HasObject(e, p)
    BY <1>2, <1>6 DEF HasObject, net_Find
  <2> QED
    BY <1>6, <2>1 DEF Attach, OnTake, Refuses
<1>7. ASSUME m.type = "spawn" /\ lost' = F
           /\ IF p = NoID THEN client' = Spawn(c, x) /\ server' = s ELSE Attach(Spawn(c, x), p, x)
      PROVE  Done
  <2>1. PICK o \in Pointers : o \notin Live(c) /\ Spawn(c, x) = Arrive(c, x, o)
    BY <1>2, <1>7, SpawnArrives
  <2> DEFINE e == Spawn(c, x)
  <2>2. /\ ClientGood(e) /\ Shown(e, x)
        /\ Others(c, e, x) /\ ClientTree(e) = [C EXCEPT ![x] = NoID]
    BY <1>2, <1>7, <2>1, ArriveGood DEF Others
  <2>3. Becoming(m) = p /\ x \notin F
    BY <1>2, <1>7 DEF Becoming
  <2> HIDE DEF e
  <2>4. CASE p = NoID
    <3>1. ClientTree(e) = Hiding(A, F)
      <4>1. NoID \notin F
        BY <1>2, IdFacts
      <4> QED
        BY <1>14, <2>2, <2>3, <2>4, <4>1
    <3>2. client' = e /\ server' = s /\ lost' = F
      BY <1>7, <2>4 DEF e
    <3>3. m.type \in {"spawn", "take"}
      BY <1>7
    <3> HIDE DEF c, s, q, W, F, m, x, p, C
    <3> QED
      BY <1>4, <2>2, <2>3, <3>1, <3>2, <3>3
  <2>5. CASE p # NoID /\ p \in F
    <3>1. ClientTree(e) = Hiding(A, F)
      BY <1>14, <2>2, <2>3, <2>5
    <3>2. e.map_NETID[p] = null
      BY <1>2, <2>2, <2>3, <2>5 DEF Others, Shows
    <3>3. client' = e /\ server' = s /\ lost' = F
      BY <1>6, <1>7, <2>5, <3>2 DEF e
    <3>4. m.type \in {"spawn", "take"}
      BY <1>7
    <3> HIDE DEF c, s, q, W, F, m, x, p, C
    <3> QED
      BY <1>4, <2>2, <2>3, <3>1, <3>3, <3>4
  <2>6. CASE p # NoID /\ p \notin F
    <3>1. Attach(e, p, x)
      BY <1>7, <2>6 DEF e
    <3>2. p \in Ids /\ H[x] = Gone /\ H[p] # Gone
      BY <1>2, <1>7, <2>6 DEF Legal
    <3>3. Shown(e, p)
      <4>1. Shown(c, p) /\ p # x
        BY <1>2, <2>6, <3>2, ShowsFacts
      <4> QED
        BY <2>2, <3>2, <4>1 DEF Others
    <3>4. Landed(c, q, e)
      BY <1>1, <1>7, <2>2, <3>2 DEF Landed
    <3>5. p \notin F /\ lost' = F
      BY <1>7, <2>6
    <3> HIDE DEF c, s, q, W, F, m, x, p, C
    <3> QED
      BY <1>5, <3>1, <3>3, <3>4, <3>5
  <2> QED
    BY <2>4, <2>5, <2>6
<1>8. ASSUME m.type = "spawn" /\ client' = SpawnFails(c, x) /\ server' = s /\ lost' = F \union {x}
      PROVE  Done
  <2> DEFINE d == SpawnFails(c, x)
             G == F \union {x}
  <2>1. d = c
    BY <1>2, <1>8, FailSame DEF ClientGood
  <2>4. InStep(s, d, A, G, Tail(q), W)
    BY <1>1, <1>8, <2>1, FailStep DEF A
  <2> HIDE DEF d
  <2>2. Answered(s, c, H, F, q, s, d, A, G)
    BY <1>8, <2>1 DEF Answered, A
  <2>3. client' = d /\ server' = s /\ lost' = G
    BY <1>8 DEF d
  <2> HIDE DEF c, s, q, W, F, m, G
  <2> QED
    BY <1>2, <1>13, <2>2, <2>3, <2>4
<1>9. ASSUME m.type = "take" /\ Attach(c, p, x) /\ lost' = F
      PROVE  Done
  <2>1. p \in Ids /\ H[x] = NoID /\ H[p] # Gone /\ x \notin F /\ Becoming(m) = p
    BY <1>2, <1>9 DEF Legal, Becoming
  <2>2. Shown(c, x) /\ C[x] = NoID
    <3>1. NoID \notin F
      BY <1>2, IdFacts
    <3> QED
      BY <1>2, <2>1, <3>1, ShowsFacts, GoneFact
  <2>3. C = [C EXCEPT ![x] = NoID]
    <3> HIDE DEF C
    <3> QED
      BY <1>2, <2>2 DEF Trees
  <2>4. Others(c, c, x)
    BY DEF Others
  <2>5. CASE p \in F
    <3>1. client' = c /\ server' = s
      BY <1>2, <1>6, <1>9, <2>5 DEF Shows
    <3>2. C = Hiding(A, F)
      BY <1>2, <2>1, <2>3, <2>5, HidingAfter DEF A
    <3>3. ClientGood(c) /\ ClientTree(c) = Hiding(A, F) /\ m.type \in {"spawn", "take"} /\ lost' = F
      BY <1>2, <1>9, <3>2
    <3>4. Shown(c, x) /\ x \notin F
      BY <2>1, <2>2
    <3> HIDE DEF c, s, q, W, F, m, x, p, C
    <3> QED
      BY <1>4, <2>4, <3>1, <3>3, <3>4
  <2>6. CASE p \notin F
    <3>1. Shown(c, p)
      BY <1>2, <2>1, <2>6, ShowsFacts
    <3>2. Landed(c, q, c)
      BY <1>1, <1>2, <1>9, <2>1, <2>2, <2>3, <2>4 DEF Landed
    <3>3. Attach(c, p, x) /\ lost' = F
      BY <1>9
    <3> HIDE DEF c, s, q, W, F, m, x, p, C
    <3> QED
      BY <1>5, <2>6, <3>1, <3>2, <3>3
  <2> QED
    BY <2>5, <2>6
<1>10. ASSUME m.type = "reject" /\ client' = OnReject(c, p, x) /\ server' = s /\ lost' = F
      PROVE  Done
  <2> DEFINE d == OnReject(c, p, x)
  <2>1. InStep(s, d, A, F, Tail(q), W)
    BY <1>1, <1>10, RejectStep DEF A
  <2> HIDE DEF d
  <2>2. Answered(s, c, H, F, q, s, d, A, F)
    BY <1>10 DEF Answered, A
  <2>3. client' = d /\ server' = s /\ lost' = F
    BY <1>10 DEF d
  <2> HIDE DEF c, s, q, W, F, m
  <2> QED
    BY <1>2, <1>13, <2>1, <2>2, <2>3
<1>11. ASSUME m.type = "destroy" /\ client' = OnDestroy(c, x) /\ server' = s /\ lost' = F \ {x}
      PROVE  Done
  <2> DEFINE d == OnDestroy(c, x)
             G == F \ {x}
  <2>1. InStep(s, d, A, G, Tail(q), W)
    BY <1>1, <1>11, DestroyStep DEF A
  <2> HIDE DEF d
  <2>2. Answered(s, c, H, F, q, s, d, A, G)
    BY <1>11 DEF Answered, A
  <2>3. client' = d /\ server' = s /\ lost' = G
    BY <1>11 DEF d
  <2> HIDE DEF c, s, q, W, F, m, G
  <2> QED
    BY <1>2, <1>13, <2>1, <2>2, <2>3
<1>12. Done
  <2> HIDE DEF c, s, q, W, F, m, x, p, C
  <2> QED
    BY <1>3, <1>7, <1>8, <1>9, <1>10, <1>11
<1> QED
  BY <1>12 DEF Done

LEMMA NoneDying ==
    ASSUME NEW c, ClientGood(c), c.destroy_queue = <<>>
    PROVE  \A x \in Ids : c.map_NETID[x] # null => Shown(c, x)
<1> SUFFICES ASSUME NEW x \in Ids, c.map_NETID[x] # null PROVE Shown(c, x)
  OBVIOUS
<1>1. c.map_NETID[x] \in Pointers
  BY MapFacts
<1>2. ToSet(<<>>) = {}
  BY DEF ToSet
<1>3. {o \in Pointers : c.obj[o].bDestroy} = {}
  BY <1>2 DEF ClientGood, QueueGood
<1> QED
  BY <1>1, <1>3 DEF Shown

\* A frame goes by: what was sent is to be received, and an id that the client is
\* still to hear about has been given back in the frame that has ended.
LEMMA NextFrameWorld ==
    ASSUME ServerGood(server), NEW H \in Trees, WorldIn(H), NextFrame
    PROVE  WorldIn(H)'
<1> DEFINE U == ServerTree(server)
           t == server'
           d == server.out
<1>1. /\ phase = "parallel" /\ phase' = IF d = <<>> THEN "update" ELSE "receive"
      /\ t = [server EXCEPT !.gen = Older(@), !.out = <<>>]
      /\ game_events' = d /\ requests' = MaxRequests /\ visited' = {}
      /\ client' = client /\ lost' = lost
  BY DEF NextFrame
<1>2. /\ game_events = <<>> /\ client.destroy_queue = <<>>
      /\ InStep(server, client, H, lost, game_events, visited)
      /\ Shows(client, H, lost)
  BY <1>1 DEF WorldIn, InStep
<1>3. /\ server \in ServerRecords /\ d \in Seq(Messages)
      /\ server.gen.age \in [Blocks -> 0 .. MaxAge]
  BY DEF ServerGood, ServerRecords, GenRecords
<1>4. ClientGood(client) /\ \A x \in Ids : client.map_NETID[x] # null => Shown(client, x)
  BY <1>2, NoneDying DEF InStep
<1>5. Path(H, d, U) /\ Fresh(d) /\ (\A x \in Given(d) : Shown(client, x))
      /\ \A x \in Ids : server.ent[x].on = "no" /\ x \in Mentions(d) => Age(server, x) = 0
  <2>1. Told(server, H, game_events, Aware(client, game_events), visited)
    BY <1>2 DEF InStep
  <2>2. game_events \o d = d
    BY <1>2, <1>3
  <2> HIDE DEF U, d
  <2> QED
    BY <2>1, <2>2 DEF Told, Aged, Aware, U, d
<1>6. /\ t.ent = server.ent /\ t.out = <<>>
      /\ \A x \in Ids : Age(server, x) = 0 => Age(t, x) <= 1
  <2>1. t.ent = server.ent /\ t.out = <<>> /\ t.gen = Older(server.gen)
    BY <1>1, <1>3 DEF ServerRecords
  <2>2. Older(server.gen).age =
          [b \in Blocks |-> IF server.gen.age[b] < MaxAge THEN server.gen.age[b] + 1
                            ELSE server.gen.age[b]]
    BY <1>3 DEF Older, ServerRecords, GenRecords
  <2>3. \A x \in Ids : Block(x) \in Blocks
    BY BlockOf
  <2> HIDE DEF t
  <2> QED
    BY <2>1, <2>2, <2>3, AgeAssumption DEF Age
<1>7. ServerTree(t) = U
  BY <1>6 DEF ServerTree
<1>8. Path(H, d \o t.out, ServerTree(t))
  <2>1. d \o <<>> = d
    BY <1>3
  <2> HIDE DEF U, d, t
  <2> QED
    BY <1>5, <1>6, <1>7, <2>1
<1>9. Mentions(<<>>) = {} /\ Destroys(<<>>) = {} /\ Given(<<>>) = {} /\ Fresh(<<>>)
  BY DEF Mentions, Destroys, Given, Fresh
<1>10. Aged(t, Aware(client, d).spoken)
  <2> SUFFICES ASSUME NEW x \in Ids, t.ent[x].on = "no", x \in Spoken(client, d)
               PROVE  Age(t, x) <= 1
    BY <1>6, <1>9 DEF Aged, Aware
  <2>1. server.ent[x].on = "no"
    BY <1>6
  <2>2. x \in Mentions(d)
    <3>1. CASE client.map_NETID[x] # null
      <4>1. H[x] # Gone
        BY <1>2, <1>4, <3>1, ShowsFacts
      <4>2. U[x] = Gone
        BY <1>3, <2>1, ServerTreeFacts
      <4> HIDE DEF U, d
      <4>3. x \in Destroys(d)
        BY <1>3, <1>5, <4>1, <4>2, PathGone
      <4> QED
        BY <4>3 DEF Destroys, Mentions
    <3> QED
      BY <3>1 DEF Spoken
  <2>3. Age(server, x) = 0
    BY <1>5, <2>1, <2>2
  <2> QED
    BY <1>6, <2>3
<1>11. Told(t, H, d, Aware(client, d), {})
  <2> HIDE DEF d, t
  <2> QED
    BY <1>6, <1>8, <1>9, <1>10 DEF Told, Dead
<1>12. InStep(t, client, H, lost, d, {})
  <2> HIDE DEF d, t
  <2> QED
    BY <1>2, <1>3, <1>4, <1>5, <1>6, <1>9, <1>11 DEF InStep
<1>13. /\ phase' \in {"update", "receive"} /\ requests' \in 0 .. MaxRequests /\ visited' \subseteq Ids
       /\ (phase' = "receive") <=> (game_events' # <<>>)
  BY <1>1, BoundsAssumption
<1> QED
  BY <1>1, <1>12, <1>13 DEF WorldIn

LEMMA FrameStepWorld ==
    ASSUME ServerGood(server), NEW H \in Trees, WorldIn(H), FrameStep
    PROVE  WorldGood'
<1> USE DEF WorldIn
<1>5. WorldIn(H)' => WorldGood'
  <2> HIDE DEF WorldIn
  <2> QED
    BY DEF WorldGood
<1>1. CASE Receive
  <2>1. PICK I \in Trees : InStep(server', client', I, lost', Tail(game_events), visited)
    <3> HIDE DEF WorldIn
    <3> QED
      BY <1>1, ReceiveStep
  <2>2. /\ phase = "receive" /\ game_events' = Tail(game_events)
        /\ phase' = IF Len(game_events) = 1 THEN "update" ELSE "receive"
        /\ UNCHANGED <<requests, visited>>
    BY <1>1 DEF Receive
  <2>3. (Len(game_events) = 1) <=> (Tail(game_events) = <<>>)
    <3> DEFINE q == game_events
               n == Len(q)
    <3>1. q \in Seq(Messages) /\ q # <<>>
      BY <2>2 DEF InStep
    <3> HIDE DEF q
    <3>2. n \in Nat \ {0} /\ Tail(q) \in Seq(Messages) /\ Len(Tail(q)) = n - 1
      BY <3>1
    <3>3. (Tail(q) = <<>>) <=> (Len(Tail(q)) = 0)
      <4> DEFINE r == Tail(q)
      <4>1. r \in Seq(Messages)
        BY <3>2
      <4> HIDE DEF r
      <4>2. (r = <<>>) <=> (Len(r) = 0)
        BY <4>1
      <4> QED
        BY <4>2 DEF r
    <3> QED
      BY <3>2, <3>3 DEF q
  <2>4. WorldIn(I)'
    BY <2>1, <2>2, <2>3
  <2> HIDE DEF WorldIn
  <2> QED
    BY <2>4 DEF WorldGood
<1>2. CASE DestroyNext
  <2>1. /\ phase \in {"update", "destroy"} /\ client.destroy_queue # <<>>
        /\ client' = DestroyBack(client)
        /\ phase' = IF Len(client.destroy_queue) = 1 THEN "parallel" ELSE "destroy"
        /\ UNCHANGED <<server, game_events, requests, visited, lost>>
    BY <1>2 DEF DestroyNext
  <2>2. ClientGood(client)
    BY DEF InStep
  <2>3. /\ ClientGood(client') /\ SameShown(client, client')
        /\ Len(client.destroy_queue) = 1 => client'.destroy_queue = <<>>
    BY <2>1, <2>2, DestroyBackGood
  <2>4. InStep(server, client', H, lost, game_events, visited)
    BY <2>3, ClientStutters
  <2>5. WorldIn(H)'
    BY <2>1, <2>3, <2>4
  <2> QED
    BY <1>5, <2>5
<1>3. CASE NothingToDestroy
  <2>1. WorldIn(H)'
    BY <1>3 DEF NothingToDestroy
  <2> QED
    BY <1>5, <2>1
<1>4. CASE NextFrame
  <2> HIDE DEF WorldIn
  <2> QED
    BY <1>4, <1>5, NextFrameWorld
<1> QED
  BY <1>1, <1>2, <1>3, <1>4 DEF FrameStep

\* The inductive invariant of the client and its messages: had the client created all
\* that it was told of, they would lead from its tree to the server's, each of them
\* legal where it arrives; and it shows that tree, but for what it failed to create.
THEOREM WorldGoodHolds == Spec => [](ServerGood(server) /\ WorldGood)
<1>1. Init => WorldGood
  BY InitWorld
<1>2. ServerGood(server) /\ WorldGood /\ [Next]_vars => WorldGood'
  <2> SUFFICES ASSUME ServerGood(server), WorldGood, [Next]_vars PROVE WorldGood'
    OBVIOUS
  <2>0. PICK H \in Trees : WorldIn(H)
    BY DEF WorldGood
  <2>5. WorldIn(H)' => WorldGood'
    BY DEF WorldGood
  <2>1. CASE NextRequest
    BY <2>0, <2>1, <2>5, RequestWorld
  <2>2. ASSUME NEW x, SwitchObject(x) PROVE WorldGood'
    BY <2>0, <2>2, <2>5, SwitchWorld
  <2>3. CASE FrameStep
    BY <2>0, <2>3, FrameStepWorld
  <2>4. CASE UNCHANGED vars
    <3>1. WorldIn(H)'
      BY <2>0, <2>4 DEF vars, WorldIn
    <3> QED
      BY <2>5, <3>1
  <2> QED
    BY <2>1, <2>2, <2>3, <2>4 DEF Next
<1>3. Spec => []ServerGood(server)
  BY ServerGoodHolds
<1> QED
  BY <1>1, <1>2, <1>3, PTL DEF Spec

-----------------------------------------------------------------------------
(* What the client shows *)

\* The messages have their types, the client's objects theirs, and the frame's
\* bookkeeping stays within its bounds, whatever the handlers do.
THEOREM WorldTyped == Spec => []TypeOK
<1>1. ASSUME server \in Servers, WorldGood PROVE TypeOK
  <2>1. PICK H \in Trees : WorldIn(H)
    BY <1>1 DEF WorldGood
  <2> QED
    BY <1>1, <2>1 DEF TypeOK, WorldIn, InStep, ClientGood, Shows
<1> QED
  BY <1>1, ServerTyped, WorldGoodHolds, PTL

LEMMA ViewFact ==
    ASSUME ClientGood(client)
    PROVE  View = ViewOf(ClientTree(client))
<1> SUFFICES ASSUME NEW x \in Ids PROVE View[x] = ViewOf(ClientTree(client))[x]
  BY DEF View, ViewOf
<1> DEFINE o == client.map_NETID[x]
           p == client.obj[o].parent
           V == ClientTree(client)
<1>1. net_Find(client, x) = o
  BY DEF net_Find
<1>2. View[x] = IF o = null THEN "gone"
                ELSE IF client.obj[o].bDestroy THEN "gone"
                ELSE IF p = null THEN "root" ELSE client.obj[p].id
  BY <1>1 DEF View
<1>3. ViewOf(V)[x] = IF V[x] = Gone THEN "gone" ELSE IF V[x] = NoID THEN "root" ELSE V[x]
  BY DEF ViewOf
<1>4. V[x] = IF ~Shown(client, x) THEN Gone
             ELSE IF p = null THEN NoID ELSE client.obj[p].id
  BY DEF ClientTree
<1>5. Shown(client, x) <=> o # null /\ ~client.obj[o].bDestroy
  BY DEF Shown
<1>6. o # null /\ p # null => client.obj[p].id \in Ids
  BY MapFacts
<1>7. Gone # NoID /\ Gone \notin Ids /\ NoID \notin Ids
  BY GoneFact, IdFacts
<1> HIDE DEF o, p, V
<1>8. CASE ~Shown(client, x)
  BY <1>2, <1>3, <1>4, <1>5, <1>8 DEF V
<1>9. CASE Shown(client, x) /\ p = null
  BY <1>2, <1>3, <1>4, <1>5, <1>7, <1>9 DEF V
<1>10. CASE Shown(client, x) /\ p # null
  BY <1>2, <1>3, <1>4, <1>5, <1>6, <1>7, <1>10 DEF V
<1> QED
  BY <1>8, <1>9, <1>10

LEMMA ServerViewFact ==
    ASSUME server \in ServerRecords
    PROVE  ServerView = ViewOf(ServerTree(server))
<1> SUFFICES ASSUME NEW x \in Ids PROVE ServerView[x] = ViewOf(ServerTree(server))[x]
  BY DEF ServerView, ViewOf
<1>1. server.ent[x].parent \in Ids \union {NoID}
  BY DEF ServerRecords, EntityRecords
<1> QED
  BY <1>1, GoneFact DEF ServerView, ViewOf, ServerTree, Online, Root

LEMMA AgreeFact ==
    ASSUME ServerGood(server), WorldGood
    PROVE  Mirror!Agree
<1> DEFINE d == game_events \o server.out
           V == ClientTree(client)
           U == ServerTree(server)
           S == lost \ Destroys(d)
<1>1. PICK H \in Trees : WorldIn(H)
  BY DEF WorldGood
<1>2. /\ ClientGood(client) /\ Shows(client, H, lost) /\ server \in ServerRecords
      /\ game_events \in Seq(Messages) /\ server.out \in Seq(Messages)
      /\ Path(H, d, U)
  BY <1>1 DEF WorldIn, InStep, Told, ServerGood, ServerRecords
<1>3. d \in Seq(Messages) /\ lost \in SUBSET Ids /\ V = Hiding(H, lost)
  BY <1>2 DEF Shows
<1>4. Mirror!StillLost = S
  BY DEF Mirror!StillLost, Destroys
<1>5. View = ViewOf(V) /\ ServerView = ViewOf(U)
  BY <1>2, ViewFact, ServerViewFact
<1> HIDE DEF d, V, U
<1>6. Mirror!Without(Mirror!Replayed(ViewOf(Hiding(H, lost)), d), S) = Mirror!Without(ViewOf(U), S)
  BY <1>2, <1>3, HiddenReplays
<1> HIDE DEF S
<1>7. Mirror!Without(Mirror!Replayed(View, d), S) = Mirror!Without(ServerView, S)
  BY <1>3, <1>5, <1>6
<1> QED
  BY <1>4, <1>7 DEF Mirror!Agree, d

\* With every message handled that is on its way, in their order, the client's tree is
\* the server's but for what net_Spawn() failed to create: no message is lost, none is
\* handled where it is not meant, and nothing that failed ever appears.
THEOREM ReplicaHolds == Spec => []Replica
<1>1. ASSUME ServerGood(server), WorldGood PROVE Replica
  <2>1. PICK H \in Trees : WorldIn(H)
    BY <1>1 DEF WorldGood
  <2>2. \A x \in lost : x \in Ids /\ client.map_NETID[x] = null
    BY <2>1 DEF WorldIn, InStep, Shows
  <2>3. Mirror!Agree
    BY <1>1, AgreeFact
  <2> QED
    BY <2>2, <2>3 DEF Replica, HasObject, net_Find
<1> QED
  BY <1>1, WorldGoodHolds, PTL

\* map_NETID has one object for each id, whatever has been spawned and deleted.
THEOREM MapExactHolds == Spec => []MapExact
<1>1. ASSUME WorldGood PROVE MapExact
  <2>1. ClientGood(client) /\ MapGood(client)
    BY <1>1 DEF WorldGood, WorldIn, InStep, ClientGood
  <2>2. ASSUME NEW o \in Live(client) PROVE net_Find(client, client.obj[o].id) = o
    <3>1. o \in Pointers /\ client.obj[o].id # NoID
      BY <2>1, LiveFacts
    <3>2. client.obj[o].id \in Ids
      <4>1. client.obj[o] \in Objects
        BY <2>1, <3>1, ClientTyped DEF ClientGood
      <4> QED
        BY <3>1, <4>1 DEF Objects
    <3> QED
      BY <2>1, <3>1, <3>2 DEF MapGood, net_Find
  <2>3. ASSUME NEW x \in Ids, HasObject(client, x)
        PROVE  client.obj[net_Find(client, x)].id = x
    BY <2>1, <2>3 DEF MapGood, HasObject, net_Find
  <2> QED
    BY <2>2, <2>3 DEF MapExact
<1> QED
  BY <1>1, WorldGoodHolds, PTL

\* What register_object_to_destroy() reports never comes up: no dying object is held
\* or holds anything, so that no object is left with a parent that is deleted.
THEOREM AttachedLiveHolds == Spec => []AttachedLive
<1>1. ASSUME WorldGood PROVE AttachedLive
  <2>1. ClientGood(client)
    BY <1>1 DEF WorldGood, WorldIn, InStep
  <2> SUFFICES ASSUME NEW o \in Live(client), client.obj[o].parent # null
               PROVE  LET p == client.obj[o].parent
                      IN  p \in Live(client) /\ ~client.obj[o].bDestroy /\ ~client.obj[p].bDestroy
    BY DEF AttachedLive
  <2>2. o \in Pointers
    BY <2>1, LiveFacts
  <2>3. client.obj[o].parent \in Pointers
    <3>1. client.obj[o] \in Objects
      BY <2>1, <2>2, ClientTyped DEF ClientGood
    <3> QED
      BY <3>1 DEF Objects
  <2>4. HeldAt(client, o)
    BY <2>1, <2>2 DEF ClientGood
  <2> QED
    BY <2>1, <2>3, <2>4, LiveFacts DEF HeldAt
<1> QED
  BY <1>1, WorldGoodHolds, PTL

\* The VERIFY2 of try_switch_online(): what may go online in this update has no
\* object left from the last time it was online.
THEOREM OfflineIsGoneHolds == Spec => []OfflineIsGone
<1>1. ASSUME ServerGood(server), WorldGood PROVE OfflineIsGone
  <2> SUFFICES ASSUME phase = "parallel", NEW x \in Entities \ visited,
                      server.ent[x].on = "offline", server.ent[x].parent = NoID,
                      HasObject(client, x)
               PROVE  FALSE
    BY DEF OfflineIsGone, Root
  <2> DEFINE U == ServerTree(server)
             d == server.out
  <2>0. PICK H \in Trees : WorldIn(H)
    BY <1>1 DEF WorldGood
  <2>1. /\ game_events = <<>> /\ client.destroy_queue = <<>>
        /\ ClientGood(client) /\ Shows(client, H, lost)
        /\ Told(server, H, game_events, Aware(client, game_events), visited)
    BY <2>0 DEF WorldIn, InStep
  <2>2. x \in Ids /\ server \in ServerRecords /\ d \in Seq(Messages)
    BY <1>1 DEF Entities, ServerGood, ServerRecords
  <2>3. H[x] # Gone
    <3>1. client.map_NETID[x] # null
      BY <2>2 DEF HasObject, net_Find
    <3>2. Shown(client, x)
      BY <2>1, <2>2, <3>1, NoneDying
    <3> QED
      BY <2>1, <2>2, <3>2, ShowsFacts
  <2>4. U[x] = Gone
    BY <2>2, ServerTreeFacts
  <2> HIDE DEF U, d
  <2>5. Path(H, d, U)
    <3>1. <<>> \o d = d
      BY <2>2
    <3> QED
      BY <2>1, <3>1 DEF Told, U, d
  <2>6. x \in Destroys(d)
    BY <2>2, <2>3, <2>4, <2>5, PathGone
  <2>7. Lost(server, x, visited)
    BY <2>1, <2>6 DEF Told, Dead, d
  <2> QED
    BY <2>7 DEF Lost, Holder
<1> QED
  BY <1>1, WorldGoodHolds, PTL

\* The assertions of CAI_Stalker::OnEvent() and CActor::OnEvent(): an item to be
\* taken or rejected is there, and nobody but that owner holds it; only a reject may
\* find no item, and then its net_Spawn() has failed.
THEOREM EventsFindItemHolds == Spec => []EventsFindItem
<1>1. ASSUME ServerGood(server), WorldGood PROVE EventsFindItem
  <2> DEFINE m == Head(game_events)
             x == m.id
             p == m.dest
             C == ClientTree(client)
  <2> SUFFICES ASSUME phase = "receive", m.type \in {"take", "reject"}, HasObject(client, p)
               PROVE  /\ HasObject(client, x) \/ (m.type = "reject" /\ x \in lost)
                      /\ m.type = "reject" /\ HasObject(client, x) =>
                            client.obj[net_Find(client, x)].parent \in {null, net_Find(client, p)}
    BY DEF EventsFindItem
  <2>0. PICK H \in Trees : WorldIn(H)
    BY <1>1 DEF WorldGood
  <2>1. /\ server \in ServerRecords /\ game_events # <<>>
        /\ InStep(server, client, H, lost, game_events, visited)
        /\ ClientGood(client) /\ Shows(client, H, lost)
    BY <1>1, <2>0 DEF WorldIn, InStep, ServerGood
  <2>2. m \in Messages /\ Legal(H, m) /\ (m.type = "take" => x \notin lost)
    BY <2>1, FirstMessage
  <2>3. p \in Ids /\ x \in Ids
    BY <2>2, MessageFacts DEF HasObject, net_Find
  <2>4. H[x] \in {NoID, p}
    BY <2>2 DEF Legal
  <2> HIDE DEF m
  <2>5. CASE x \in lost
    <3>1. ~HasObject(client, x)
      BY <2>1, <2>5 DEF Shows, HasObject, net_Find
    <3>2. m.type = "reject"
      BY <2>2, <2>5
    <3> QED
      BY <2>5, <3>1, <3>2
  <2>6. CASE x \notin lost
    <3>1. Shown(client, x) /\ C[x] \in {NoID, p}
      BY <2>1, <2>3, <2>4, <2>6, ShowsFacts, GoneFact, IdFacts
    <3>2. client.map_NETID[x] # null
      BY <3>1 DEF Shown
    <3>3. client.obj[client.map_NETID[x]].parent \in {null, client.map_NETID[p]}
      BY <2>1, <2>3, <3>1, TreeFacts
    <3> QED
      BY <2>3, <3>2, <3>3 DEF HasObject, net_Find
  <2> QED
    BY <2>5, <2>6
<1> QED
  BY <1>1, WorldGoodHolds, PTL

\* The client's messages, and the end of the frame, add no entity.
LEMMA FrameStepRested ==
    ASSUME ServerGood(server), WorldGood, FrameStep
    PROVE  server'.ent = server.ent \/ Rested(server, server')
<1>1. CASE Receive
  <2>1. ASSUME NEW c, NEW p, NEW x, Attach(c, p, x)
        PROVE  server' = server \/ Rested(server, server')
    <3>1. server' = server \/ server' = Process_event_reject(server, p, x, TRUE)
      BY <2>1 DEF Attach
    <3>2. server \in ServerRecords /\ Linked(server)
      BY DEF ServerGood
    <3>3. Follows(server, Process_event_reject(server, p, x, TRUE), {})
      BY <3>2, RejectFollows
    <3> QED
      BY <3>1, <3>3 DEF Follows
  <2> QED
    BY <1>1, <2>1 DEF Receive
<1>2. CASE NextFrame
  <2>1. server' = [server EXCEPT !.gen = Older(@), !.out = <<>>]
    BY <1>2 DEF NextFrame
  <2> QED
    BY <2>1 DEF ServerGood, ServerRecords
<1>3. CASE DestroyNext \/ NothingToDestroy
  BY <1>3 DEF DestroyNext, NothingToDestroy
<1> QED
  BY <1>1, <1>2, <1>3 DEF FrameStep

\* What net_Spawn() relies on: no object, and no message on its way, has the id of a
\* new entity, as long as an id rests for two frames before it is used again.
THEOREM FreshIdsHolds ==
    ASSUME MaxAge >= 2
    PROVE  Spec => FreshIds
<1> DEFINE d == game_events \o server.out
           Taken(x) == ~Known(server, x) /\ Known(server', x)
<1>1. ASSUME ServerGood(server), WorldGood, [Next]_vars, NEW x \in Ids, Taken(x)
      PROVE  ~HasObject(client, x) /\ \A m \in Range(d) : m.id # x
  <2>1. server.ent[x].on = "no" /\ server'.ent[x].on # "no"
    BY <1>1 DEF Known
  <2>0. PICK H \in Trees : WorldIn(H)
    BY <1>1 DEF WorldGood
  <2>2. Rested(server, server')
    <3>1. CASE NextRequest
      BY <1>1, <2>0, <3>1, RequestWorld
    <3>2. ASSUME NEW y, SwitchObject(y) PROVE Rested(server, server')
      BY <1>1, <2>0, <3>2, SwitchWorld
    <3>3. CASE FrameStep
      BY <1>1, <2>1, <3>3, FrameStepRested
    <3>4. CASE UNCHANGED vars
      BY <2>1, <3>4 DEF vars
    <3> QED
      BY <1>1, <3>1, <3>2, <3>3, <3>4 DEF Next
  <2>3. Age(server, x) = MaxAge
    BY <2>1, <2>2 DEF Rested
  <2>4. /\ server.out \in Seq(Messages) /\ game_events \in Seq(Messages)
        /\ Aged(server, Spoken(client, game_events))
    BY <1>1, <2>0 DEF WorldIn, InStep, Told, Aware, ServerGood, ServerRecords
  <2>5. x \notin Mentions(server.out) /\ x \notin Spoken(client, game_events)
    BY <2>1, <2>3, <2>4, AgeAssumption DEF Aged
  <2>6. ~HasObject(client, x)
    BY <2>5 DEF Spoken, HasObject, net_Find
  <2>7. ASSUME NEW m \in Range(d) PROVE m.id # x
    <3>1. PICK i \in DOMAIN d : d[i] = m
      BY DEF Range
    <3>2. (\E j \in DOMAIN game_events : m = game_events[j])
          \/ (\E j \in DOMAIN server.out : m = server.out[j])
      BY <2>4, <3>1
    <3> QED
      BY <2>5, <3>2 DEF Spoken, Mentions
  <2> QED
    BY <2>6, <2>7
<1>2. ServerGood(server) /\ WorldGood /\ [Next]_vars =>
        [\A x \in Ids : (~Known(server, x) /\ Known(server, x)') =>
            /\ ~HasObject(client, x)
            /\ \A m \in Range(game_events \o server.out) : m.id # x]_vars
  BY <1>1
<1> QED
  BY <1>2, WorldGoodHolds, PTL DEF Spec, FreshIds

-----------------------------------------------------------------------------
(* What the server promises: WorldMirror *)

\* Its trees are those of the two records, its messages those on their way.
Mirrored ==
    /\ View = ViewOf(ClientTree(client))
    /\ ServerView = ViewOf(ServerTree(server))
Synced == Mirrored /\ Mirror!Agree

\* The messages lead from the tree H to the server's.
Leading(H) ==
    /\ server \in ServerRecords /\ game_events \in Seq(Messages)
    /\ Path(H, game_events \o server.out, ServerTree(server))

LEMMA WorldSynced ==
    ASSUME ServerGood(server), WorldGood
    PROVE  Synced
<1>1. ClientGood(client) /\ server \in ServerRecords
  BY DEF WorldGood, WorldIn, InStep, ServerGood
<1> QED
  BY <1>1, ViewFact, ServerViewFact, AgreeFact DEF Synced, Mirrored

LEMMA WorldLeads ==
    ASSUME NEW H
    PROVE  /\ ServerGood(server) /\ WorldIn(H) => Leading(H)
           /\ ServerGood(server)' /\ WorldIn(H)' => Leading(H)'
<1>1. ServerGood(server) /\ WorldIn(H) => Leading(H)
  BY DEF Leading, ServerGood, WorldIn, InStep, Told
<1>2. ServerGood(server)' /\ WorldIn(H)' => Leading(H)'
  BY DEF Leading, ServerGood, WorldIn, InStep, Told
<1> QED
  BY <1>1, <1>2

LEMMA AddedLast ==
    ASSUME NEW S, NEW a \in Seq(S), NEW b \in Seq(S)
    PROVE  SubSeq(a \o b, Len(a) + 1, Len(a \o b)) = b
OBVIOUS

LEMMA TellsNew ==
    ASSUME NEW r \in Seq(Messages), NEW new \in Seq(Messages),
           game_events' \o server'.out = r \o new,
           ServerView' = Mirror!Replayed(ServerView, new)
    PROVE  Mirror!Tells(r)
<1> DEFINE told == game_events' \o server'.out
<1>1. SubSeq(told, Len(r) + 1, Len(told)) = new
  BY AddedLast
<1> QED
  BY <1>1 DEF Mirror!Tells

\* What the server appends tells what it has changed.
LEMMA SaysChange ==
    ASSUME NEW s \in ServerRecords, NEW t, Sends(s, t), NEW V, NEW q \in Seq(Messages),
           Path(V, q \o s.out, ServerTree(s)), Path(V, q \o t.out, ServerTree(t))
    PROVE  \E new \in Seq(Messages) :
              /\ t.out = s.out \o new
              /\ ViewOf(ServerTree(t)) = Mirror!Replayed(ViewOf(ServerTree(s)), new)
<1>1. s.out \in Seq(Messages)
  BY DEF ServerRecords
<1>2. PICK new \in Seq(Messages) : t.out = s.out \o new
  BY <1>1 DEF Sends
<1>3. q \o t.out = (q \o s.out) \o new /\ q \o s.out \in Seq(Messages)
  <2> DEFINE r == s.out
  <2>1. r \in Seq(Messages)
    BY <1>1
  <2> HIDE DEF r
  <2>2. q \o (r \o new) = (q \o r) \o new /\ q \o r \in Seq(Messages)
    BY <2>1, Joined
  <2> QED
    BY <1>2, <2>2 DEF r
<1>4. ViewOf(ServerTree(t)) = Mirror!Replayed(ViewOf(ServerTree(s)), new)
  <2> DEFINE a == q \o s.out
             T == ServerTree(t)
             U == ServerTree(s)
  <2>1. a \in Seq(Messages) /\ Path(V, a, U) /\ Path(V, a \o new, T)
    BY <1>3
  <2> HIDE DEF a, T, U
  <2>2. ViewOf(T) = Mirror!Replayed(ViewOf(U), new)
    BY <2>1, PathGoesOn
  <2> QED
    BY <2>2 DEF T, U
<1> QED
  BY <1>2, <1>4

\* A step of the server, which the client does not see yet, or of neither.
LEMMA TellStep ==
    ASSUME NEW H, Leading(H), Leading(H)', Mirrored, Mirrored', Sends(server, server'),
           game_events' = game_events, ClientTree(client') = ClientTree(client), lost' = lost
    PROVE  Mirror!Tell
<1> DEFINE q == game_events
<1>1. /\ server \in ServerRecords /\ q \in Seq(Messages)
      /\ Path(H, q \o server.out, ServerTree(server))
      /\ Path(H, q \o server'.out, ServerTree(server'))
      /\ ServerView = ViewOf(ServerTree(server)) /\ ServerView' = ViewOf(ServerTree(server'))
      /\ View' = View
  BY DEF Leading, Mirrored
<1>2. PICK new \in Seq(Messages) :
         /\ server'.out = server.out \o new
         /\ ViewOf(ServerTree(server')) = Mirror!Replayed(ViewOf(ServerTree(server)), new)
  <2> HIDE DEF q
  <2> QED
    BY <1>1, SaysChange
<1>3. server.out \in Seq(Messages)
  BY <1>1 DEF ServerRecords
<1>4. game_events' \o server'.out = (q \o server.out) \o new /\ q \o server.out \in Seq(Messages)
  <2> DEFINE r == server.out
  <2>1. r \in Seq(Messages) /\ q \in Seq(Messages)
    BY <1>1, <1>3
  <2> HIDE DEF r, q
  <2>2. q \o (r \o new) = (q \o r) \o new /\ q \o r \in Seq(Messages)
    BY <2>1, Joined
  <2> QED
    BY <1>2, <2>2 DEF r, q
<1>5. ServerView' = Mirror!Replayed(ServerView, new)
  BY <1>1, <1>2
<1>6. Mirror!Tells(q \o server.out)
  BY <1>4, <1>5, TellsNew
<1> QED
  BY <1>1, <1>6 DEF Mirror!Tell

\* One message of ProcessGameEvents().
LEMMA ReceiveMirrored ==
    ASSUME ServerGood(server), NEW H \in Trees, WorldIn(H), Receive, Synced, Synced'
    PROVE  Mirror!Handle \/ Mirror!Lose \/ Mirror!Refuse
<1> DEFINE s == server
           t == server'
           q == game_events
           m == Head(q)
           x == m.id
           p == m.dest
           F == lost
           told == q \o s.out
<1>1. /\ s \in ServerRecords /\ Linked(s) /\ q \in Seq(Messages) /\ q # <<>>
      /\ s.out \in Seq(Messages) /\ Path(H, q \o s.out, ServerTree(s))
      /\ InStep(s, client, H, F, q, visited) /\ ClientGood(client) /\ F \in SUBSET Ids
      /\ ClientTree(client) = Hiding(H, F)
      /\ View = ViewOf(ClientTree(client)) /\ ServerView = ViewOf(ServerTree(s))
  BY DEF WorldIn, InStep, Told, Shows, ServerGood, ServerRecords, Receive, Synced, Mirrored
<1>2. /\ View' = ViewOf(ClientTree(client')) /\ ServerView' = ViewOf(ServerTree(t))
      /\ game_events' = Tail(q) /\ Mirror!Agree'
  BY DEF Receive, Synced, Mirrored
<1>3. /\ told # <<>> /\ Head(told) = m /\ Tail(told) = Tail(q) \o s.out
      /\ m \in Messages /\ Tail(q) \in Seq(Messages)
  <2> HIDE DEF q, s
  <2> QED
    BY <1>1, ConcatTail
<1>4. PICK I \in Trees :
         /\ InStep(t, client', I, lost', Tail(q), visited)
         /\ Answered(s, client, H, F, q, t, client', I, lost')
  BY ReceiveStep
<1>5. ClientTree(client') = Hiding(I, lost') /\ Legal(H, m)
  <2>1. ClientTree(client') = Hiding(I, lost')
    BY <1>4 DEF InStep, Shows
  <2>2. Legal(H, m)
    BY <1>1, FirstMessage
  <2> QED
    BY <2>1, <2>2
<1>6. ASSUME t = s PROVE ServerView' = ServerView /\ game_events' \o t.out = Tail(told)
  BY <1>1, <1>2, <1>3, <1>6
<1>7. CASE /\ t = s /\ I = After(H, m)
           /\ lost' = IF m.type = "destroy" THEN F \ {x} ELSE F
  <2>1. m.type = "destroy" => \A y \in Ids : H[y] # x
    BY <1>5 DEF Legal
  <2>2. ViewOf(Hiding(After(H, m), lost')) =
          Mirror!Without(Mirror!Replay(ViewOf(Hiding(H, F)), m), lost')
    <3> DEFINE G == lost'
    <3>1. /\ H \in Trees /\ F \in SUBSET Ids /\ m \in Messages
          /\ m.type = "destroy" => \A y \in Ids : H[y] # m.id
          /\ G = IF m.type = "destroy" THEN F \ {m.id} ELSE F
      BY <1>1, <1>3, <1>7, <2>1
    <3> HIDE DEF G, F, m
    <3>2. ViewOf(Hiding(After(H, m), G)) = Mirror!Without(Mirror!Replay(ViewOf(Hiding(H, F)), m), G)
      BY <3>1, HandledView
    <3> QED
      BY <3>2 DEF G
  <2>3. View' = Mirror!Without(Mirror!Replay(View, m), lost')
    BY <1>1, <1>2, <1>5, <1>7, <2>2
  <2> QED
    BY <1>3, <1>6, <1>7, <2>3 DEF Mirror!Handle
<1>8. CASE /\ m.type = "spawn" /\ t = s /\ lost' = F \union {x}
           /\ ClientTree(client') = ClientTree(client)
  <2>1. View' = View
    BY <1>1, <1>2, <1>8
  <2> QED
    BY <1>3, <1>6, <1>8, <2>1 DEF Mirror!Lose
<1>9. CASE /\ Landed(client, q, client') /\ {x, p} \intersect F = {}
           /\ t = Process_event_reject(s, p, x, TRUE) /\ lost' = F
  <2>1. /\ m.type \in {"spawn", "take"} /\ p \in Ids /\ p # NoID /\ x \in Ids
        /\ ClientTree(client') = [ClientTree(client) EXCEPT ![x] = NoID]
    BY <1>3, <1>9, IdFacts, MessageFacts DEF Landed
  <2>2. View' = [View EXCEPT ![x] = "root"]
    <3> DEFINE V == ClientTree(client)
               U == [V EXCEPT ![x] = NoID]
    <3>0. V \in Trees /\ View = ViewOf(V)
      BY <1>1, <2>1, TreeFacts
    <3>3. View' = ViewOf(U) /\ x \in Ids
      BY <1>2, <2>1
    <3> HIDE DEF V
    <3>1. U[x] = NoID /\ \A y \in Ids : y # x => U[y] = V[y]
      BY <2>1, <3>0 DEF Trees
    <3>2. NoID # Gone
      BY GoneFact
    <3> HIDE DEF U, x
    <3>4. \A y \in Ids : ViewOf(U)[y] = IF y = x THEN "root" ELSE ViewOf(V)[y]
      BY <3>1, <3>2 DEF ViewOf
    <3>5. [ViewOf(V) EXCEPT ![x] = "root"] = ViewOf(U)
      <4> DEFINE v == ViewOf(V)
                 u == ViewOf(U)
      <4>1. v = [y \in Ids |-> v[y]] /\ u = [y \in Ids |-> u[y]] /\ DOMAIN v = Ids
        BY DEF ViewOf
      <4>2. \A y \in Ids : u[y] = IF y = x THEN "root" ELSE v[y]
        BY <3>4
      <4> HIDE DEF u, v
      <4>3. [v EXCEPT ![x] = "root"] = u
        BY <3>3, <4>1, <4>2
      <4> QED
        BY <4>3 DEF u, v
    <3> QED
      BY <3>0, <3>3, <3>5
  <2>3. Follows(s, t, {})
    BY <1>1, <1>9, RejectFollows
  <2>4. Sends(s, t) /\ Path(H, q \o t.out, ServerTree(t))
    <3>1. Told(s, H, q, Aware(client, q), visited)
      BY <1>1 DEF InStep
    <3>2. Told(t, H, q, Aware(client, q), visited) /\ Rested(s, t)
      <4> HIDE DEF s, t, q
      <4> QED
        BY <1>1, <2>3, <3>1 DEF Follows
    <3> QED
      BY <3>2 DEF Told, Rested
  <2>5. PICK new \in Seq(Messages) :
           /\ t.out = s.out \o new
           /\ ViewOf(ServerTree(t)) = Mirror!Replayed(ViewOf(ServerTree(s)), new)
    <3> HIDE DEF s, t, q
    <3> QED
      BY <1>1, <2>4, SaysChange
  <2>6. /\ game_events' \o t.out = Tail(told) \o new
        /\ Tail(told) \in Seq(Messages)
    <3>1. Tail(q) \o (s.out \o new) = (Tail(q) \o s.out) \o new
          /\ Tail(q) \o s.out \in Seq(Messages)
      BY <1>1, <1>3, Joined
    <3> QED
      BY <1>2, <1>3, <2>5, <3>1
  <2>7. ServerView' = Mirror!Replayed(ServerView, new)
    BY <1>1, <1>2, <2>5
  <2>8. Mirror!Tells(Tail(told))
    BY <2>6, <2>7, TellsNew
  <2> QED
    BY <1>2, <1>3, <1>9, <2>1, <2>2, <2>8 DEF Mirror!Refuse
<1> QED
  BY <1>4, <1>7, <1>8, <1>9 DEF Answered

\* A request never changes what the client shows.
LEMMA RequestUnseen ==
    ASSUME ClientGood(client), NextRequest
    PROVE  /\ game_events' = game_events /\ lost' = lost
           /\ ClientTree(client') = ClientTree(client)
<1>1. \A s : Request(s) => game_events' = game_events /\ lost' = lost
  BY DEF Request
<1>2. \A s : ServerRequest(s) => game_events' = game_events /\ lost' = lost /\ client' = client
  BY <1>1 DEF ServerRequest
<1>3. ASSUME NEW o \in Live(client), DestroyObject(o)
      PROVE  /\ game_events' = game_events /\ lost' = lost
             /\ ClientTree(client') = ClientTree(client)
  <2>1. client' = [client EXCEPT !.obj[o].m_bObjectRemoved = TRUE]
    BY <1>3 DEF DestroyObject
  <2>2. SameShown(client, client')
    BY <2>1, FlagGood
  <2> QED
    BY <1>1, <1>3, <2>2 DEF DestroyObject, SameShown
<1> QED
  BY <1>2, <1>3 DEF NextRequest, RequestTake, RequestReject, RequestSpawn, Create, Release

\* The refinement.  Every step of a request, of switching, of the destroy queue and of
\* the frame only appends messages, each with the change it tells of, or is a stutter;
\* every message the client receives is handled as it was meant, as far as what could
\* not be created allows, or refused, or fails to create its object.
THEOREM WorldImplementsMirror == Spec => ImplementsMirror
<1>1. Init /\ ServerGood(server) /\ WorldGood /\ Synced => Mirror!MirrorInit
  <2> SUFFICES ASSUME Init, ServerGood(server), WorldGood, Synced PROVE Mirror!MirrorInit
    OBVIOUS
  <2>0. PICK H \in Trees : WorldIn(H)
    BY DEF WorldGood
  <2>1. game_events = <<>> /\ server.out = <<>> /\ lost = {}
    BY InitGood DEF Init, ServerGood, ServerRecords
  <2>2. game_events \o server.out = <<>>
    BY <2>1
  <2>3. Path(H, <<>>, ServerTree(server)) /\ ClientTree(client) = Hiding(H, {})
    BY <2>0, <2>1, <2>2 DEF WorldIn, InStep, Told, Shows
  <2>4. H = ServerTree(server)
    BY <2>3 DEF Path
  <2>5. Hiding(H, {}) = H
    BY HidingFacts
  <2> QED
    BY <2>1, <2>2, <2>3, <2>4, <2>5 DEF Synced, Mirrored, Mirror!MirrorInit
<1>2. ServerGood(server) /\ WorldGood /\ Synced /\ ServerGood(server)' /\ Synced' /\ [Next]_vars
        => [Mirror!MirrorNext]_(Mirror!mirrorVars)
  <2> SUFFICES ASSUME ServerGood(server), WorldGood, Synced, ServerGood(server)', Synced',
                      [Next]_vars
               PROVE  Mirror!MirrorNext \/ UNCHANGED Mirror!mirrorVars
    OBVIOUS
  <2>0. PICK H \in Trees : WorldIn(H)
    BY DEF WorldGood
  <2>10. Leading(H) /\ (WorldIn(H)' => Leading(H)') /\ Mirrored /\ Mirrored'
    BY <2>0, WorldLeads DEF Synced
  <2>11. ClientGood(client)
    BY <2>0 DEF WorldIn, InStep
  <2>1. CASE NextRequest
    <3>1. Rested(server, server') /\ WorldIn(H)'
      BY <2>0, <2>1, RequestWorld
    <3>2. Mirror!Tell
      BY <2>1, <2>10, <2>11, <3>1, RequestUnseen, TellStep DEF Rested
    <3> QED
      BY <3>2 DEF Mirror!MirrorNext
  <2>2. ASSUME NEW x, SwitchObject(x) PROVE Mirror!Tell
    <3>1. Rested(server, server') /\ WorldIn(H)'
      BY <2>0, <2>2, SwitchWorld
    <3> QED
      BY <2>2, <2>10, <3>1, TellStep DEF Rested, SwitchObject
  <2>3. CASE Receive
    BY <2>0, <2>3, ReceiveMirrored DEF Mirror!MirrorNext
  <2>4. ASSUME UNCHANGED <<server, game_events, lost>>, ClientTree(client') = ClientTree(client)
        PROVE  Mirror!Tell
    <3>1. Leading(H)'
      BY <2>4, <2>10 DEF Leading
    <3> QED
      BY <2>4, <2>10, <3>1, SendsSelf, TellStep
  <2>5. CASE DestroyNext
    <3>1. client.destroy_queue # <<>> /\ client' = DestroyBack(client)
          /\ UNCHANGED <<server, game_events, lost>>
      BY <2>5 DEF DestroyNext
    <3>2. ClientTree(client') = ClientTree(client)
      BY <2>11, <3>1, DestroyBackGood DEF SameShown
    <3> QED
      BY <2>4, <3>1, <3>2 DEF Mirror!MirrorNext
  <2>6. CASE NothingToDestroy \/ UNCHANGED vars
    <3>1. UNCHANGED <<server, client, game_events, lost>>
      BY <2>6 DEF NothingToDestroy, vars
    <3> QED
      BY <2>4, <3>1 DEF Mirror!MirrorNext
  <2>7. CASE NextFrame
    <3>1. /\ phase = "parallel" /\ game_events' = server.out /\ client' = client /\ lost' = lost
          /\ server' = [server EXCEPT !.gen = Older(@), !.out = <<>>]
      BY <2>7 DEF NextFrame
    <3>2. server'.out = <<>> /\ server'.ent = server.ent /\ game_events = <<>>
          /\ server.out \in Seq(Messages)
      BY <2>0, <2>10, <3>1 DEF WorldIn, Leading, ServerRecords
    <3>3. game_events' \o server'.out = game_events \o server.out
      BY <3>1, <3>2
    <3>4. ServerTree(server') = ServerTree(server)
      BY <3>2 DEF ServerTree
    <3>5. View' = View /\ ServerView' = ServerView
      BY <2>10, <3>1, <3>4 DEF Mirrored
    <3> QED
      BY <3>1, <3>3, <3>5 DEF Mirror!mirrorVars
  <2> QED
    BY <2>1, <2>2, <2>3, <2>5, <2>6, <2>7 DEF Next, FrameStep, Mirror!MirrorNext
<1>3. ServerGood(server) /\ WorldGood => Synced
  BY WorldSynced
<1> QED
  BY <1>1, <1>2, <1>3, WorldGoodHolds, PTL DEF Spec, ImplementsMirror, Mirror!MirrorSpec

=============================================================================
