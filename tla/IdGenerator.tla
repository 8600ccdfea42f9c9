---------------------------- MODULE IdGenerator -----------------------------
(***************************************************************************)
(* CID_Generator of xrGame/id_generator.h, which the game server takes its *)
(* entity ids from.  The ids are cut into blocks; each block remembers     *)
(* when an id was last given back to it.  A new id comes from the          *)
(* non-empty block that has been left alone for longest, so that an id     *)
(* stays out of use for a while after its entity is gone.                  *)
(*                                                                         *)
(* The operators map a generator record to the next one.  A block's time   *)
(* stamp is kept as its age in frames, up to MaxAge: blocks stamped in one *)
(* frame, and all blocks as old as MaxAge, may be taken in any order, and  *)
(* inside a block any free id may come first (the code keeps a stack).     *)
(***************************************************************************)
EXTENDS Naturals, FiniteSets

CONSTANTS
    Blocks,     \* the blocks: disjoint sets of ids
    MaxAge

ASSUME BlocksAssumption ==
    /\ IsFiniteSet(Blocks)
    /\ \A b, c \in Blocks : b # {} /\ (b = c \/ b \intersect c = {})
ASSUME AgeAssumption == MaxAge \in Nat \ {0}

Ids == UNION Blocks
Block(x) == CHOOSE b \in Blocks : x \in b

Generators == [free : SUBSET Ids, age : [Blocks -> 0 .. MaxAge], available : Nat]

\* CID_Generator(): every block is full and stamped tStartTime = 0.
FullGenerator ==
    [free |-> Ids, age |-> [b \in Blocks |-> MaxAge], available |-> Cardinality(Blocks)]

FreeIn(g, b) == b \intersect g.free

\* Mutant: the block that was given an id back last comes first.
LatestBlocks(g) ==
    LET full == {b \in Blocks : FreeIn(g, b) # {}}
    IN  {b \in full : \A c \in full : g.age[b] <= g.age[c]}

\* operator<: an empty block is never the least.
LeastBlocks(g) ==
    LET full == {b \in Blocks : FreeIn(g, b) # {}}
    IN  {b \in full : \A c \in full : g.age[b] >= g.age[c]}

\* tfGetID(): what it may return; with no id left, R_ASSERT2 stops the program.
NewIds(g) == {x \in g.free : Block(x) \in LeastBlocks(g)}

\* tfGetFromBlock(), for a new id and for tfGetID(x); x must be free (R_ASSERT2).
TakeId(g, x) ==
    [g EXCEPT !.free = @ \ {x},
              !.available = IF FreeIn(g, Block(x)) = {x} THEN @ - 1 ELSE @]

\* Mutant: a block that was empty is not counted again.
FreeIdUncounted(g, x, age) == [g EXCEPT !.free = @ \union {x}, !.age[Block(x)] = age]

\* vfFreeID(x, time) stamps the whole block.
FreeId(g, x, age) ==
    [g EXCEPT !.free = @ \union {x},
              !.age[Block(x)] = age,
              !.available = IF FreeIn(g, Block(x)) = {} THEN @ + 1 ELSE @]

\* A frame goes by.
Older(g) == [g EXCEPT !.age = [b \in Blocks |-> IF @[b] < MaxAge THEN @[b] + 1 ELSE @[b]]]

=============================================================================
