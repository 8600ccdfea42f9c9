----------------------------- MODULE WorldSync ------------------------------
(***************************************************************************)
(* The single-player world: the game server and ALife, the client's object *)
(* list, and the queue of messages between them.                           *)
(*                                                                         *)
(* A request of a client object reaches the server at once (Level::Send()  *)
(* calls Server->OnMessage() when the server is local), but what the       *)
(* server broadcasts waits in the client's queue until the next frame.     *)
(* Meanwhile the client acts on objects that the server has already        *)
(* destroyed, attached elsewhere or moved offline.  It may also fail to    *)
(* create an object, of which it does not tell the server: the entity      *)
(* stays online, may be given, dropped and switched, and its messages find *)
(* no object.  phase follows one frame:                                    *)
(*    "receive"   CLevel::OnFrame(): ClientReceive(), ProcessGameEvents()  *)
(*    "update"    UpdateCL() of the objects                                *)
(*    "destroy"   the destroy queue, in the rest of Objects.Update()       *)
(*    "parallel"  the ALife update beside rendering, then the scheduler's  *)
(*                updates, which open the next frame                       *)
(***************************************************************************)
EXTENDS EntityServer

CONSTANTS
    Zero, Pointers, null,
    MaxEntities,    \* bound on the entities in the world
    MaxRequests     \* bound on the requests and switches of one frame

ASSUME ClientAssumption == Zero \in Ids /\ null \notin Pointers
\* No allocation fails: every id can have its object.
ASSUME MemoryAssumption ==
    /\ IsFiniteSet(Ids) /\ IsFiniteSet(Pointers)
    /\ Cardinality(Ids) <= Cardinality(Pointers)
\* "root" and "gone" name no entity (see View).
ASSUME NamesAssumption == "root" \notin Ids /\ "gone" \notin Ids
ASSUME BoundsAssumption == MaxEntities \in Nat /\ MaxRequests \in Nat

INSTANCE ClientObjects

VARIABLES
    server, client, phase,
    game_events,    \* the messages this frame's ProcessGameEvents() still has
    requests,   \* how many requests and switches this frame may still make
    visited,    \* the objects CSwitchPredicate has been called for
    lost        \* history: the objects whose net_Spawn() has failed, until the
                \* client is told of their destruction

vars == <<server, client, phase, game_events, requests, visited, lost>>

\* The level has been loaded: the actor is there, and stays.
Init ==
    /\ server = [Process_spawn(EmptyServer, Zero, "owner", NoID) EXCEPT !.out = <<>>]
    /\ client = Spawn(EmptyClient, Zero)
    /\ phase = "update"
    /\ game_events = <<>>
    /\ requests = MaxRequests
    /\ visited = {}
    /\ lost = {}

Entities == {x \in Ids : Known(server, x)}
ClientIds == {client.obj[o].id : o \in Live(client)}
Owners == {x \in Entities : server.ent[x].kind = "owner"}
\* The owners among the client's objects.  One whose entity is gone may still
\* make requests, but the server ignores them.
OwnerIds == ClientIds \intersect Owners

-----------------------------------------------------------------------------
(* Requests *)

CanRequest == phase \in {"update", "parallel"} /\ requests > 0

Request(s) ==
    /\ CanRequest
    /\ server' = s
    /\ requests' = requests - 1
    /\ UNCHANGED <<phase, game_events, visited, lost>>

\* A request the server ignores is a stuttering step.
ServerRequest(s) == s # server /\ Request(s) /\ UNCHANGED client

RequestTake(p, x) == ServerRequest(Process_event_ownership(server, p, x, Valid(client)))

RequestReject(p, x) == ServerRequest(Process_event_reject(server, p, x, TRUE))

\* Mutant: the object goes before the server has said so.
DestroyAtOnce(o) ==
    /\ ~client.obj[o].m_bObjectRemoved
    /\ client' = setDestroy([client EXCEPT !.obj[o].m_bObjectRemoved = TRUE], o)
    /\ Request(IF client.obj[o].bDestroy THEN server
               ELSE Process_event_destroy(server, client.obj[o].id))

\* DestroyObject(): once for each object, and only if it is not dying.
DestroyObject(o) ==
    /\ ~client.obj[o].m_bObjectRemoved
    /\ client' = [client EXCEPT !.obj[o].m_bObjectRemoved = TRUE]
    /\ Request(IF client.obj[o].bDestroy THEN server
               ELSE Process_event_destroy(server, client.obj[o].id))

\* M_SPAWN from the client: ammunition, bolts, what a corpse drops.
RequestSpawn(x, kind, p) ==
    ServerRequest(Process_spawn(server, x, kind, p))

\* A script's alife():create() and alife():release().
Create(x, kind, p) == ServerRequest(spawn_item2(server, x, kind, p))

Release(x) ==
    ServerRequest(IF Online(server, x) THEN Process_event_destroy(server, x)
                  ELSE release(server, x))

\* A bound: ids are only taken while some block of free ids has been left alone
\* for MaxAge frames, as with 256 blocks there always is.
RestedBlock == \E b \in Blocks : FreeIn(server.gen, b) # {} /\ server.gen.age[b] = MaxAge

NextRequest ==
    \/ \E p \in OwnerIds, x \in ClientIds \ OwnerIds :
          RequestTake(p, x) \/ RequestReject(p, x)
    \/ \E o \in Live(client) : client.obj[o].id # Zero /\ DestroyObject(o)
    \/ /\ Cardinality(Entities) < MaxEntities /\ RestedBlock
       /\ \E x \in NewIds(server.gen) :
             \/ \E p \in OwnerIds \union {NoID}, kind \in {"item", "temp"} : RequestSpawn(x, kind, p)
             \/ \E p \in Owners \union {NoID} : Create(x, "item", p)
             \/ Create(x, "owner", NoID)
    \/ \E x \in Entities \ {Zero} : server.ent[x].kind # "temp" /\ Release(x)

-----------------------------------------------------------------------------
(* The frame *)

\* cl_Process_Event(parent, GE_OWNERSHIP_TAKE): a refusal is a request to the
\* server, made from inside the handler.
Attach(c, p, x) ==
    \E canTake \in BOOLEAN :
       /\ client' = OnTake(c, p, x, canTake)
       /\ server' = IF Refuses(c, p, x, canTake)
                    THEN Process_event_reject(server, p, x, TRUE) ELSE server

\* One message of ProcessGameEvents(), which leaves none.  A spawn fails if its id
\* is taken, or if the object's script binder fails; it is then not attached.
Receive ==
    /\ phase = "receive"
    /\ game_events' = Tail(game_events)
    /\ phase' = IF Len(game_events) = 1 THEN "update" ELSE "receive"
    /\ LET m == Head(game_events) IN
          \/ /\ m.type = "spawn" /\ ~HasObject(client, m.id)
             /\ IF m.dest = NoID
                THEN client' = Spawn(client, m.id) /\ UNCHANGED server
                ELSE Attach(Spawn(client, m.id), m.dest, m.id)
             /\ UNCHANGED lost
          \/ /\ m.type = "spawn"
             /\ client' = SpawnFails(client, m.id)
             /\ lost' = lost \union {m.id}
             /\ UNCHANGED server
          \/ m.type = "take" /\ Attach(client, m.dest, m.id) /\ UNCHANGED lost
          \/ m.type = "reject" /\ client' = OnReject(client, m.dest, m.id) /\ UNCHANGED <<server, lost>>
          \/ /\ m.type = "destroy"
             /\ client' = OnDestroy(client, m.id)
             /\ lost' = lost \ {m.id}
             /\ UNCHANGED server
    /\ UNCHANGED <<requests, visited>>

\* One object of the destroy queue.
DestroyNext ==
    /\ phase \in {"update", "destroy"}
    /\ client.destroy_queue # <<>>
    /\ client' = DestroyBack(client)
    /\ phase' = IF Len(client.destroy_queue) = 1 THEN "parallel" ELSE "destroy"
    /\ UNCHANGED <<server, game_events, requests, visited, lost>>

NothingToDestroy ==
    /\ phase = "update"
    /\ client.destroy_queue = <<>>
    /\ phase' = "parallel"
    /\ UNCHANGED <<server, client, game_events, requests, visited, lost>>

\* switch_object() for an object that is not attached; ALife does not know the
\* objects it could not save.
SwitchObject(x) ==
    /\ phase = "parallel"
    /\ requests > 0
    /\ x # Zero /\ Known(server, x) /\ Root(server, x) /\ server.ent[x].kind # "temp"
    /\ x \notin visited
    /\ server' = IF Online(server, x) THEN remove_online(server, x) ELSE add_online(server, x)
    /\ visited' = visited \union {x}
    /\ requests' = requests - 1
    /\ UNCHANGED <<client, phase, game_events, lost>>

\* ClientReceive() moves what has arrived to game_events.
NextFrame ==
    /\ phase = "parallel"
    /\ phase' = IF server.out = <<>> THEN "update" ELSE "receive"
    /\ server' = [server EXCEPT !.gen = Older(@), !.out = <<>>]
    /\ game_events' = server.out
    /\ requests' = MaxRequests
    /\ visited' = {}
    /\ UNCHANGED <<client, lost>>

FrameStep == Receive \/ DestroyNext \/ NothingToDestroy \/ NextFrame

Next == NextRequest \/ (\E x \in Ids : SwitchObject(x)) \/ FrameStep

\* The main thread runs frame after frame.
Spec == Init /\ [][Next]_vars /\ WF_vars(FrameStep)

-----------------------------------------------------------------------------
(* Properties *)

\* The type invariant.
TypeOK ==
    /\ server \in Servers
    /\ client \in Clients
    /\ phase \in {"receive", "update", "destroy", "parallel"}
    /\ game_events \in Seq(Messages)
    /\ requests \in 0 .. MaxRequests
    /\ visited \subseteq Ids
    /\ lost \subseteq Ids

\* verify_entities() and the VERIFYs of the switch manager ("Parent online, item
\* offline..."): each child is listed once by the parent it names, and both are
\* on the same side of the online border.
TreeConsistent ==
    \A x \in Entities :
       LET e == server.ent[x] IN
       /\ e.parent # NoID =>
             /\ server.ent[e.parent].on = e.on
             /\ Cardinality({k \in DOMAIN server.ent[e.parent].children :
                               server.ent[e.parent].children[k] = x}) = 1
       /\ \A c \in Range(e.children) : Known(server, c) /\ server.ent[c].parent = x

\* The ids of the generator are those of no entity, online or offline: switching,
\* scripted spawns and recursive destruction neither leak an id nor free it twice.
IdsConserved ==
    /\ server.gen.free = Ids \ Entities
    /\ server.gen.available = Cardinality({b \in Blocks : FreeIn(server.gen, b) # {}})

\* What an object's parent will be, by id, once the message m is handled; "gone"
\* for no object, or a dying one.
View ==
    [x \in Ids |->
       LET o == net_Find(client, x) IN
       IF o = null THEN "gone"
       ELSE IF client.obj[o].bDestroy THEN "gone"
       ELSE IF client.obj[o].parent = null THEN "root" ELSE client.obj[client.obj[o].parent].id]
ServerView ==
    [x \in Ids |-> IF ~Online(server, x) THEN "gone"
                   ELSE IF Root(server, x) THEN "root" ELSE server.ent[x].parent]

Mirror == INSTANCE WorldMirror WITH
              tree <- ServerView, told <- game_events \o server.out, shown <- View

\* The client lags behind the server by exactly the messages on their way: with
\* all of them handled it shows the server's tree, refused items included.  What it
\* failed to create it does not show until it hears of its end, and what such an
\* owner should hold lies around; nothing else is ever different.
Replica == Mirror!Agree /\ \A x \in lost : ~HasObject(client, x)

\* Requests, switching and frames only ever append messages, each with the change it
\* tells of; the client's tree changes by handling the first of them, or by refusing
\* an item, and never when an object is marked or deleted.  A failing net_Spawn() only
\* hides the one object.
ImplementsMirror == Mirror!MirrorSpec

\* map_NETID and the objects name each other, so there is one object for each id.
MapExact ==
    /\ \A o \in Live(client) : net_Find(client, client.obj[o].id) = o
    /\ \A x \in Ids : HasObject(client, x) => client.obj[net_Find(client, x)].id = x

\* register_object_to_destroy() reports "setDestroy called, but not-destroyed child
\* found": an object that is attached is not dying, nor is its parent, and so
\* none is left with a parent that has been deleted.
AttachedLive ==
    \A o \in Live(client) :
       LET p == client.obj[o].parent IN
       p # null => p \in Live(client) /\ ~client.obj[o].bDestroy /\ ~client.obj[p].bDestroy

\* VERIFY2 of try_switch_online(): an object that ALife may still switch online in
\* this update has no client object left.
OfflineIsGone ==
    phase = "parallel" =>
       \A x \in Entities \ visited :
          server.ent[x].on = "offline" /\ Root(server, x) => ~HasObject(client, x)

\* R_ASSERT(O) of CAI_Stalker::OnEvent() and VERIFY2(Obj) of CActor::OnEvent(): an
\* item to be taken is there; one to be rejected is held by that owner or, refused,
\* by nobody: never by another, whom CActor would call an actor.  The item that a
\* stalker's reject does not find ("how can this happen?") is always one whose
\* net_Spawn() has failed.
EventsFindItem ==
    phase = "receive" =>
       LET m == Head(game_events) IN
       (m.type \in {"take", "reject"} /\ HasObject(client, m.dest)) =>
          /\ HasObject(client, m.id) \/ (m.type = "reject" /\ m.id \in lost)
          /\ m.type = "reject" /\ HasObject(client, m.id) =>
                client.obj[net_Find(client, m.id)].parent \in {null, net_Find(client, m.dest)}

\* A new entity's id is not that of an object the client still has, nor of one it
\* is still to hear about: net_Spawn() cannot find the id taken.
FreshIds ==
    [][\A x \in Ids : (~Known(server, x) /\ Known(server, x)') =>
          /\ ~HasObject(client, x)
          /\ \A m \in Range(game_events \o server.out) : m.id # x]_vars

\* A client object whose entity has been destroyed or has gone offline goes away.
StaleObjectsGo ==
    \A x \in Ids \ {Zero} : (HasObject(client, x) /\ ~Online(server, x)) ~>
                             (~HasObject(client, x) \/ Online(server, x))

=============================================================================
