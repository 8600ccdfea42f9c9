---------------------------- MODULE EntityServer ----------------------------
(***************************************************************************)
(* The single-player game server: the tree of entities that xrServer keeps *)
(* and broadcasts, and what the ALife simulator does to it when it moves   *)
(* an object online (onto the level, known to the client) or offline.      *)
(*                                                                         *)
(* Each operator is one handler.  It maps a server record                  *)
(*    ent  the entities, by id                                             *)
(*    gen  the id generator                                                *)
(*    out  the messages broadcast so far and not yet received              *)
(* to the next one.  Owners (actor, stalkers, boxes) hold items; items are *)
(* leaves.  A "temp" item has can_save() = false, so ALife does not keep   *)
(* it when its owner goes offline: those are the bolts, which only actors  *)
(* and stalkers hold; for them remove_online() leaves such items out.      *)
(***************************************************************************)
EXTENDS IdGenerator, Naturals, Sequences, SequencesExt

CONSTANT NoID           \* 0xffff
ASSUME NoIdAssumption == NoID \notin Ids

Kinds == {"owner", "item", "temp"}

\* on: "no" entity has this id, it is "online" (in xrServer::entities), or
\* "offline" (known to ALife alone).
Entity(on, kind, parent, children) ==
    [on |-> on, kind |-> kind, parent |-> parent, children |-> children]
NoEntity == Entity("no", "item", NoID, <<>>)

\* A message: M_SPAWN of id with parent dest, or M_EVENT to dest about id.
Spawned(p, x) == [type |-> "spawn", dest |-> p, id |-> x]
Take(p, x) == [type |-> "take", dest |-> p, id |-> x]
Reject(p, x) == [type |-> "reject", dest |-> p, id |-> x]
Destroy(x) == [type |-> "destroy", dest |-> x, id |-> x]
Messages == [type : {"spawn", "take", "reject", "destroy"},
             dest : Ids \union {NoID}, id : Ids]

Servers ==
    [ent : [Ids -> [on : {"no", "online", "offline"}, kind : Kinds,
                    parent : Ids \union {NoID}, children : Seq(Ids)]],
     gen : Generators, out : Seq(Messages)]
EmptyServer == [ent |-> [x \in Ids |-> NoEntity], gen |-> FullGenerator, out |-> <<>>]

SendBroadcast(s, m) == [s EXCEPT !.out = Append(@, m)]

\* xrServer::ID_to_entity(), which game->get_entity_from_eid() calls.
Online(s, x) == x \in Ids /\ s.ent[x].on = "online"
Known(s, x) == x \in Ids /\ s.ent[x].on # "no"
Root(s, x) == s.ent[x].parent = NoID

\* Mutant: the parent keeps the child in its list.
RemoveParentOnly(s, p, x) == [s EXCEPT !.ent[x].parent = NoID]

AddChild(s, p, x) ==
    [s EXCEPT !.ent[x].parent = p, !.ent[p].children = Append(@, x)]
RemoveChild(s, p, x) ==
    [s EXCEPT !.ent[x].parent = NoID, !.ent[p].children = RemoveFirst(@, x)]

\* entity_Destroy(): out of the map, its id is free; an object under ALife's
\* control (m_bALifeControl) is not deleted.
entity_Destroy(s, x) ==
    [s EXCEPT !.ent[x] = IF @.kind = "temp" THEN NoEntity ELSE [@ EXCEPT !.on = "offline"],
              !.gen = FreeId(@, x, 0)]

\* release(object, false) and then entity_Destroy(): ALife forgets it too.
Forget(s, x) == [s EXCEPT !.ent[x] = NoEntity, !.gen = FreeId(@, x, 0)]

\* Mutant: an item that is held already may be taken.
OwnershipOfHeld(s, p, x, valid) ==
    IF Online(s, p) /\ Online(s, x) /\ p \in valid /\ x \in valid
    THEN SendBroadcast(AddChild(s, p, x), Take(p, x))
    ELSE s

Process_event_ownership(s, p, x, valid) ==
    IF Online(s, p) /\ Online(s, x) /\ p \in valid /\ x \in valid /\ Root(s, x)
    THEN SendBroadcast(AddChild(s, p, x), Take(p, x))
    ELSE s

\* send_message is FALSE where the caller packs the event itself.
Process_event_reject(s, p, x, send_message) ==
    IF Online(s, p) /\ Online(s, x) /\ Contains(s.ent[p].children, x) /\ ~Root(s, x)
    THEN LET t == RemoveChild(s, p, x)
         IN  IF send_message THEN SendBroadcast(t, Reject(p, x)) ELSE t
    ELSE s

\* Mutant: GE_DESTROY precedes the item's GE_OWNERSHIP_REJECT.
DestroyBeforeReject(s, x) ==
    LET p == s.ent[x].parent
        t == Process_event_reject(SendBroadcast(s, Destroy(x)), p, x, FALSE)
    IN  Forget(IF p = NoID THEN t ELSE SendBroadcast(t, Reject(p, x)), x)

\* One call of Process_event_destroy() for an entity without children.  A pack
\* of events is sent as the events it holds, in their order.
DestroyLeaf(s, x) ==
    LET p == s.ent[x].parent
        t == Process_event_reject(s, p, x, FALSE)
        u == IF t # s THEN SendBroadcast(t, Reject(p, x)) ELSE t
    IN  Forget(SendBroadcast(u, Destroy(x)), x)

\* Mutant: an entity is destroyed without its children.
DestroyChildless(s, x) == IF Online(s, x) THEN DestroyLeaf(s, x) ELSE s

Process_event_destroy(s, x) ==
    IF Online(s, x)
    THEN DestroyLeaf(FoldLeft(DestroyLeaf, s, s.ent[x].children), x)
    ELSE s

\* Process_spawn() of an entity ALife already has: it claims its old id.
Respawn(s, x) ==
    SendBroadcast([s EXCEPT !.gen = TakeId(@, x), !.ent[x].on = "online"],
                  Spawned(s.ent[x].parent, x))

\* Process_spawn() of a new entity with id x, nothing when its parent is gone.
Process_spawn(s, x, kind, p) ==
    IF p = NoID \/ Online(s, p)
    THEN LET t == [s EXCEPT !.gen = TakeId(@, x),
                            !.ent[x] = Entity("online", kind, NoID, <<>>)]
         IN  SendBroadcast(IF p = NoID THEN t ELSE AddChild(t, p, x), Spawned(p, x))
    ELSE s

\* alife():create(): without a parent, or with an offline one, spawn_item()
\* registers an offline object; with an online parent spawn_item2() gives the
\* id back, stamped 0, and lets Process_spawn() claim it.
spawn_item2(s, x, kind, p) ==
    IF p # NoID /\ Online(s, p)
    THEN Process_spawn([s EXCEPT !.gen = FreeId(TakeId(@, x), x, MaxAge)], x, kind, p)
    ELSE LET t == [s EXCEPT !.gen = TakeId(@, x),
                            !.ent[x] = Entity("offline", kind, NoID, <<>>)]
         IN  IF p = NoID THEN t ELSE AddChild(t, p, x)

-----------------------------------------------------------------------------
(* CALifeSwitchManager *)

\* Mutant: an object that goes offline is not announced.
DestroyUnannounced(s, x) == entity_Destroy(s, x)

\* The last two statements of Perform_destroy().
DestroyRoot(s, x) == SendBroadcast(entity_Destroy(s, x), Destroy(x))

\* The children from the back, each rejected first.
Perform_destroy(s, x) ==
    LET Child(t, c) == DestroyRoot(Process_event_reject(t, x, c, TRUE), c)
    IN  DestroyRoot(FoldLeft(Child, s, Reverse(s.ent[x].children)), x)

\* add_online(): the object, then its children, leave the offline world and
\* are spawned under the same ids.
add_online(s, x) ==
    LET Spawn(t, y) == Respawn(entity_Destroy(t, y), y)
    IN  FoldLeft(Spawn, s, <<x>> \o s.ent[x].children)

\* Mutant: the object going offline does not claim its id again.
RemoveOnlineUnclaimed(s, x) ==
    LET Attach(t, c) == IF s.ent[c].kind = "temp" THEN t
                        ELSE AddChild([t EXCEPT !.gen = TakeId(@, c)], x, c)
    IN  FoldLeft(Attach, Perform_destroy(s, x), s.ent[x].children)

\* remove_online(): the children that are saved are attached again, offline.
remove_online(s, x) ==
    LET Attach(t, c) == IF s.ent[c].kind = "temp" THEN t
                        ELSE AddChild([t EXCEPT !.gen = TakeId(@, c)], x, c)
        gone == Perform_destroy(s, x)
    IN  FoldLeft(Attach, [gone EXCEPT !.gen = TakeId(@, x)], s.ent[x].children)

\* release() of an offline object: its children, then itself.
ReleaseLeaf(s, x) == Forget(IF Root(s, x) THEN s ELSE RemoveChild(s, s.ent[x].parent, x), x)
release(s, x) == ReleaseLeaf(FoldLeft(ReleaseLeaf, s, s.ent[x].children), x)

=============================================================================
