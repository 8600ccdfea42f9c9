---------------------------- MODULE PathBuilder -----------------------------
(***************************************************************************)
(* How the creatures' paths are built beside rendering.  CMovementManager  *)
(* runs a small state machine (m_path_state) from its object's updates;    *)
(* the two expensive states hand the work to CLevelPathBuilder and         *)
(* CDetailPathBuilder, which queue a delegate in Device.seqParallel, and   *)
(* until it has run the manager waits.                                     *)
(*                                                                         *)
(* The operators map a record                                              *)
(*    mm           the movement manager of each mover                      *)
(*    seqParallel  the delegates to run beside this frame's rendering      *)
(* to the next one, or to the set of those the search may lead to: whether *)
(* a path is found, is still actual or is completed is left open.  Only    *)
(* paths over the level graph are modelled, not those over the game graph  *)
(* or along a patrol.                                                      *)
(***************************************************************************)
EXTENDS Naturals, Sequences, SequencesExt

CONSTANT Movers     \* the stalkers and monsters

\* EPathState, as far as it is used for level paths.
PathStates == {"Dummy", "BuildLevelPath", "ContinueLevelPath", "BuildDetailPath",
               "PathVerification", "PathCompleted"}

\* delay: m_use_delay_after_fail, FALSE for stalkers alone; failed: less than
\* time_to_wait_after_fail has gone by since m_last_fail_time.
Managers ==
    [type : {"NoPath", "LevelPath"}, state : PathStates, actual : BOOLEAN,
     wait : BOOLEAN, delay : BOOLEAN, failed : BOOLEAN]
Delegates == [obj : Movers, fn : {"level", "detail", "sound"}]
Delegate(o, fn) == [obj |-> o, fn |-> fn]

\* Load() and reinit().
NewManager(delay) ==
    [type |-> "NoPath", state |-> "Dummy", actual |-> TRUE,
     wait |-> FALSE, delay |-> delay, failed |-> FALSE]

State(p, o, s) == [p EXCEPT !.mm[o].state = s]
Waits(p, o, b) == [p EXCEPT !.mm[o].wait = b]
Queue(p, o, fn) == [p EXCEPT !.seqParallel = Append(@, Delegate(o, fn))]

\* register_to_process() of the two builders.  The level builder's sets
\* m_wait_for_distributed_computation also when it then does not queue itself.
register_to_process(p, o, fn) ==
    IF fn = "level" /\ p.mm[o].failed THEN Waits(p, o, TRUE) ELSE Queue(Waits(p, o, TRUE), o, fn)

\* remove() of the builders; only the first of equal delegates is erased.
remove(p, o, fn) ==
    [Waits(p, o, FALSE) EXCEPT !.seqParallel = RemoveFirst(@, Delegate(o, fn))]

\* CDetailPathBuilder::process_impl(FALSE).
BuildDetail(p, o) == {State(p, o, s) : s \in {"BuildLevelPath", "PathVerification"}}

\* Mutant: process() does not pass separate_computing.
detail_unseparated(p, o) == BuildDetail(p, o)

detail_process(p, o) == BuildDetail(Waits(p, o, FALSE), o)

\* CLevelPathBuilder::process_impl(): a path that is found is refined at once.
level_process_impl(p, o) ==
    LET q == Waits(p, o, FALSE)
    IN  BuildDetail(q, o) \union
        {[State(q, o, "BuildLevelPath") EXCEPT !.mm[o].failed = @ \/ p.mm[o].delay]}

level_process(p, o) == IF p.mm[o].failed THEN {p} ELSE level_process_impl(p, o)

\* ePathStateBuildLevelPath; a path built at once goes on to the next state.
build_level_path(p, o, dying) ==
    level_process_impl(p, o)
    \union (UNION {detail_process(q, o) : q \in level_process_impl(p, o)})
    \union (IF dying THEN {} ELSE {register_to_process(p, o, "level")})

\* ePathStateContinueLevelPath, ePathStateBuildDetailPath.
build_detail_path(p, o, dying) ==
    detail_process(State(p, o, "BuildDetailPath"), o)
    \union (IF dying THEN {} ELSE {register_to_process(State(p, o, "BuildDetailPath"), o, "detail")})

\* The switch, for a level path that is actual or has just been found not to be.
process_level_path(p, o, dying) ==
    LET Switch(q) ==
            CASE q.mm[o].state = "BuildLevelPath" -> build_level_path(q, o, dying)
              [] q.mm[o].state \in {"ContinueLevelPath", "BuildDetailPath"} ->
                    build_detail_path(q, o, dying)
              [] q.mm[o].state = "PathVerification" ->
                    {State(q, o, s) : s \in {"PathVerification", "BuildLevelPath",
                                             "ContinueLevelPath", "PathCompleted"}}
              [] q.mm[o].state = "PathCompleted" ->
                    {State(q, o, s) : s \in {"PathCompleted", "BuildLevelPath"}}
              [] OTHER -> {q}       \* NODEFAULT: see NoDefault
    IN  Switch(p) \union Switch(State(p, o, "BuildLevelPath"))

\* !actual(): the state machine starts again.
Restart(p, o) ==
    [State(p, o, IF p.mm[o].type = "NoPath" THEN "Dummy" ELSE "BuildLevelPath")
        EXCEPT !.mm[o].actual = TRUE]

\* Restrictions that have changed may make the path inactual, too.
update_path(p, o, dying) ==
    IF p.mm[o].wait THEN {p}
    ELSE LET q == IF p.mm[o].actual THEN p ELSE Restart(p, o)
         IN  IF q.mm[o].type = "NoPath" THEN {q} ELSE process_level_path(q, o, dying)

\* UpdateCL() calls it while the path is being built.
on_frame(p, o, dying) ==
    IF p.mm[o].state \in {"PathVerification", "PathCompleted"} THEN {p}
    ELSE update_path(p, o, dying)

\* Mutant: a new path type does not ask for a new path.
set_path_type_only(p, o, type) == [p EXCEPT !.mm[o].type = type]

set_path_type(p, o, type) ==
    [p EXCEPT !.mm[o].type = type, !.mm[o].actual = @ /\ p.mm[o].type = type]

\* clear_path(), by the combat planner of a stalker.
clear_path(p, o) == remove(p, o, "detail")

on_restrictions_change(p, o) ==
    [remove(remove(p, o, "level"), o, "detail") EXCEPT !.mm[o].actual = FALSE]

=============================================================================
