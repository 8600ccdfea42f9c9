--------------------------- MODULE ClientObjects ----------------------------
(***************************************************************************)
(* The client's copy of the level: the objects of CObjectList, found by id *)
(* in map_NETID, and the handlers of the messages that create, attach,     *)
(* detach and destroy them.  An object that is to be destroyed only gets a *)
(* flag and a place in destroy_queue; Update() deletes it at the end of    *)
(* the frame's object update.                                              *)
(*                                                                         *)
(* Each operator maps a client record to the next one.  obj is the memory  *)
(* the objects are allocated from: one that is deleted leaves its address  *)
(* to the next.                                                            *)
(***************************************************************************)
EXTENDS Naturals, Sequences, SequencesExt

CONSTANTS
    Ids, NoID,  \* entity ids and 0xffff
    Zero,       \* the id 0, which the actor has
    Pointers,   \* the addresses of client objects
    null        \* nullptr, none of them

Deleted == [id |-> NoID, parent |-> null, bDestroy |-> FALSE, m_bObjectRemoved |-> FALSE]
Clients ==
    [obj : [Pointers -> [id : Ids \union {NoID}, parent : Pointers \union {null},
                         bDestroy : BOOLEAN, m_bObjectRemoved : BOOLEAN]],
     map_NETID : [Ids -> Pointers \union {null}],
     destroy_queue : Seq(Pointers)]
EmptyClient ==
    [obj |-> [o \in Pointers |-> Deleted],
     map_NETID |-> [x \in Ids |-> null],
     destroy_queue |-> <<>>]

Live(c) == {o \in Pointers : c.obj[o] # Deleted}
net_Find(c, x) == IF x \in Ids THEN c.map_NETID[x] ELSE null
HasObject(c, x) == net_Find(c, x) # null

\* is_object_valid_on_svclient()
Valid(c) ==
    {x \in Ids : /\ HasObject(c, x)
                 /\ ~c.obj[c.map_NETID[x]].bDestroy
                 /\ ~c.obj[c.map_NETID[x]].m_bObjectRemoved}

\* Mutant: an attached object is marked and not queued.
setDestroyUnqueued(c, o) == [c EXCEPT !.obj[o].bDestroy = TRUE]

\* register_object_to_destroy() by way of setDestroy(TRUE): the object, then
\* the objects attached to it that are not registered yet.
setDestroy(c, o) ==
    LET Register(d, q) == [d EXCEPT !.obj[q].bDestroy = TRUE,
                                    !.destroy_queue = Append(@, q)]
        attached == {q \in Live(c) : c.obj[q].parent = o /\ ~c.obj[q].bDestroy}
    IN  IF c.obj[o].bDestroy THEN c ELSE FoldLeft(Register, c, <<o>> \o SetToSeq(attached))

\* GE_OWNERSHIP_TAKE; canTake is CanTakeItem() for an item not yet dying.
Takes(c, p, x, canTake) == canTake /\ ~c.obj[net_Find(c, x)].bDestroy
OnTake(c, p, x, canTake) ==
    IF HasObject(c, p) /\ HasObject(c, x) /\ Takes(c, p, x, canTake)
    THEN [c EXCEPT !.obj[net_Find(c, x)].parent = net_Find(c, p)]
    ELSE c
\* The item is sent back, so that the server does not think it is held.
Refuses(c, p, x, canTake) ==
    HasObject(c, p) /\ HasObject(c, x) /\ ~Takes(c, p, x, canTake)

\* GE_OWNERSHIP_REJECT: nothing for an item that is not this owner's.
OnReject(c, p, x) ==
    IF /\ HasObject(c, p) /\ HasObject(c, x)
       /\ c.obj[net_Find(c, x)].parent = net_Find(c, p)
       /\ ~c.obj[net_Find(c, x)].bDestroy
    THEN [c EXCEPT !.obj[net_Find(c, x)].parent = null]
    ELSE c

\* GE_DESTROY: ignored by an object that is attached.
OnDestroy(c, x) ==
    IF HasObject(c, x) /\ c.obj[net_Find(c, x)].parent = null
    THEN setDestroy(c, net_Find(c, x))
    ELSE c

\* Mutant: net_Unregister() is missing.
DeleteRegistered(c, o) == [c EXCEPT !.obj[o] = Deleted]

\* net_Destroy() and CObjectList::Destroy().
Delete(c, o) ==
    [c EXCEPT !.map_NETID[c.obj[o].id] = null, !.obj[o] = Deleted]

\* g_sv_Spawn() before it hands the object to its parent; net_Spawn() succeeds.
Spawn(c, x) ==
    LET o == CHOOSE q \in Pointers \ Live(c) : TRUE
    IN  [c EXCEPT !.obj[o] = [Deleted EXCEPT !.id = x], !.map_NETID[x] = o]

\* net_Spawn() fails and g_sv_Spawn() destroys the new object, with its entry of
\* map_NETID.  If the id was taken it still has the id 0, which is the actor's;
\* otherwise setID() and net_Register() came first, and the script binder's
\* net_Spawn() has failed.
SpawnFails(c, x) == [c EXCEPT !.map_NETID[IF HasObject(c, x) THEN Zero ELSE x] = null]

\* One object of the loop over destroy_queue, which runs from the back.
DestroyBack(c) == Delete([c EXCEPT !.destroy_queue = Front(@)], Last(c.destroy_queue))

=============================================================================
