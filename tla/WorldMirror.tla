---------------------------- MODULE WorldMirror -----------------------------
(***************************************************************************)
(* What the server promises to the client of a single-player game, with no *)
(* entities, handlers or frames: there is one tree of objects.  Whoever    *)
(* changes it appends messages that say exactly what has changed.  The     *)
(* client handles them one by one, in their order, and in no other way is  *)
(* the tree it shows ever changed.  It may refuse to attach an item; then  *)
(* the server takes back what it said before the client can get there.  It *)
(* may fail to create an object, which the server is not told: then it     *)
(* shows all but that object until it is told of its end.                  *)
(***************************************************************************)
EXTENDS Naturals, Sequences

CONSTANT NoID

VARIABLES
    tree,   \* the server's: for each id its holder, "root" or "gone"
    told,   \* the messages the client has not handled
    shown,  \* the client's tree
    lost    \* the objects the client could not create

mirrorVars == <<tree, told, shown, lost>>

\* The view of the tree once the message m has been handled.
Replay(view, m) ==
    [view EXCEPT ![m.id] = CASE m.type \in {"spawn", "take"} -> IF m.dest = NoID THEN "root" ELSE m.dest
                             [] m.type = "reject" -> "root"
                             [] m.type = "destroy" -> "gone"]

\* The view once all of q have been handled.
Replayed(view, q) ==
    LET r[i \in 0 .. Len(q)] == IF i = 0 THEN view ELSE Replay(r[i - 1], q[i])
    IN  r[Len(q)]

\* The view without the objects L, which hold nothing.
Without(view, L) ==
    [x \in DOMAIN view |-> IF x \in L THEN "gone" ELSE IF view[x] \in L THEN "root" ELSE view[x]]

\* The lost objects that stay lost, whatever has been told.
StillLost == {x \in lost : \A i \in DOMAIN told : told[i].type = "destroy" => told[i].id # x}

\* Told everything, the client shows the server's tree without them.
Agree == Without(Replayed(shown, told), StillLost) = Without(tree, StillLost)

MirrorInit == tree = shown /\ told = <<>> /\ lost = {}

\* The messages rest are left, and new ones are appended that tell what changes.
Tells(rest) ==
    \E new \in {SubSeq(told', Len(rest) + 1, Len(told'))} :
       /\ told' = rest \o new
       /\ tree' = Replayed(tree, new)

Tell == Tells(told) /\ UNCHANGED <<shown, lost>>

Handle ==
    /\ told # <<>>
    /\ told' = Tail(told)
    /\ lost' = IF Head(told).type = "destroy" THEN lost \ {Head(told).id} ELSE lost
    /\ shown' = Without(Replay(shown, Head(told)), lost')
    /\ tree' = tree

\* The object of the first message is not created.
Lose ==
    /\ told # <<>> /\ Head(told).type = "spawn"
    /\ told' = Tail(told)
    /\ lost' = lost \union {Head(told).id}
    /\ UNCHANGED <<shown, tree>>

\* The item of the first message stays with nobody.
Refuse ==
    /\ told # <<>>
    /\ Head(told).type \in {"spawn", "take"} /\ Head(told).dest # NoID
    /\ {Head(told).id, Head(told).dest} \intersect lost = {}
    /\ shown' = [shown EXCEPT ![Head(told).id] = "root"]
    /\ lost' = lost
    /\ Tells(Tail(told))
    /\ Agree'

MirrorNext == Tell \/ Handle \/ Lose \/ Refuse

MirrorSpec == MirrorInit /\ [][MirrorNext]_mirrorVars
=============================================================================
