--------------------------- MODULE BarkMovements ---------------------------
(***************************************************************************)
(* The movement manager (bark/src/movement/): a movement is a row of the   *)
(* database that is updated through a cached object behind a RwLock.  A    *)
(* call loads the object, looks it up, changes it, looks it up once more   *)
(* and stores it, so calls on one movement interleave at each look-up.     *)
(***************************************************************************)
EXTENDS Integers, Sequences, SequencesExt, FiniteSets

CONSTANTS
    MoveCallers,    \* tasks that use the manager
    MoveModes       \* sets of calls: what each of them does

VARIABLES
    calls,          \* what each task does
    row,            \* the row of the movement
    objs,           \* the objects that were ever cached
    cached,         \* active_movements: the index of the object, or 0
    held,           \* who holds the lock of an object: <<caller, object>>
    at,             \* the place of each task
    names           \* subsystem_ids: the name of each id

moveVars == <<calls, row, objs, cached, held, at, names>>

(***************************************************************************)
(* Updates: a field is absent, merged or replaced                          *)
(***************************************************************************)
Keep == [how |-> "none", vals |-> <<>>]

NewUpdate == [ins |-> Keep, sent |-> Keep]

(* UpdateMethod::merge, and Merge where the update has no value yet          *)
MergeValues(field, vals) ==
    IF field = Keep THEN [how |-> "merge", vals |-> vals] ELSE [field EXCEPT !.vals = @ \o vals]

ConsumedVtxos(u, vs) == [u EXCEPT !.ins = MergeValues(@, vs)]
SentTo(u, ds) == [u EXCEPT !.sent = MergeValues(@, ds)]
ReplaceConsumedVtxos(u, vs) == [u EXCEPT !.ins = [how |-> "replace", vals |-> vs]]
ReplaceSentOn(u, ds) == [u EXCEPT !.sent = [how |-> "replace", vals |-> ds]]

ApplyField(field, target) ==
    CASE field.how = "merge" -> target \o field.vals
      [] field.how = "replace" -> field.vals
      [] OTHER -> target

PushUnique(target, vals) == FoldLeft(LAMBDA s, v : IF v \in Range(s) THEN s ELSE Append(s, v), target, vals)

ApplyUnique(field, target) ==
    CASE field.how = "merge" -> PushUnique(target, field.vals)
      [] field.how = "replace" -> PushUnique(<<>>, field.vals)
      [] OTHER -> target

(* MovementUpdate::apply_to *)
ApplyTo(u, m) == [m EXCEPT !.ins = ApplyUnique(u.ins, @), !.sent = ApplyField(u.sent, @)]

(***************************************************************************)
(* Calls: kind, the update, and the final status                           *)
(***************************************************************************)
NoRow == [status |-> "none", ins |-> <<>>, sent |-> <<>>]

Final == {"successful", "failed", "canceled"}

Place(pc, obj) == [pc |-> pc, obj |-> obj, id |-> -1]

(* A task that creates the movement goes first; the others know its id.     *)
MoveInit ==
    /\ calls \in MoveModes
    /\ row = IF \E c \in MoveCallers : calls[c].kind = "guarded" THEN NoRow ELSE [NoRow EXCEPT !.status = "pending"]
    /\ objs = <<>> /\ cached = 0 /\ held = {}
    /\ at = [c \in MoveCallers |-> Place("start", 0)]
    /\ names = <<>>

Is(c, pc) == at[c].pc = pc

Goto(c, pc) == at' = [at EXCEPT ![c] = Place(pc, @.obj)]

(* The last step of a call: finish_movement_with_update, and a guard that   *)
(* calls success, go on with finish_movement; a guard may also be dropped.  *)
CallEnds(c) ==
    at' = [at EXCEPT ![c] =
             IF at[c].pc # "stored_final" /\ calls[c].kind \in {"finish_with", "guarded"}
               THEN Place("finish", 0) ELSE Place("ok", @.obj)]

(* update_movement of the database replaces the whole row.                  *)
PersistMovement(m) == row' = m

Free(o, write) == \A h \in held : h[2] = o => ~write /\ h[3] = "read"

(* new_movement: a pending row *)
NewMovement(c) ==
    /\ Is(c, "start") /\ calls[c].kind = "guarded"
    /\ row' = [NoRow EXCEPT !.status = "pending"]
    /\ Goto(c, "created")
    /\ UNCHANGED <<calls, objs, cached, held, names>>

Begins(c) == \/ Is(c, "start") /\ calls[c].kind \in {"update", "finish_with", "finish"}
             \/ Is(c, "created") /\ calls[c].kind = "guarded"

(* MovementGuard::drop spawns finish_movement with the OnDropStatus          *)
DropGuard(c) ==
    /\ calls[c].kind = "guarded" /\ at[c].pc \in {"created", "finish", "error"}
    /\ ~calls[c].stopped
    /\ calls' = [calls EXCEPT ![c].kind = "finish", ![c].status = "failed"]
    /\ Goto(c, "finish")
    /\ UNCHANGED <<row, objs, cached, held, names>>

(* load_movement_into_cache; success has called stop before.                *)
LoadMovement(c) ==
    /\ row.status # "none"
    /\ \/ /\ Begins(c)
          /\ Goto(c, IF calls[c].kind = "finish" THEN "find_final" ELSE "find")
          /\ UNCHANGED calls
       \/ /\ Is(c, "finish")
          /\ Goto(c, "find_final")
          /\ calls' = [calls EXCEPT ![c].stopped = TRUE]
    /\ IF cached # 0 THEN UNCHANGED <<objs, cached>>
         ELSE objs' = Append(objs, row) /\ cached' = Len(objs) + 1
    /\ UNCHANGED <<row, held, names>>

(* get_movement_lock before the update and before it is stored              *)
FindMovement(c) ==
    /\ at[c].pc \in {"find", "find_again", "find_final"}
    /\ IF cached = 0 THEN Goto(c, "error")
         ELSE at' = [at EXCEPT ![c] = Place(CASE @.pc = "find" -> "apply"
                                             [] @.pc = "find_again" -> "store"
                                             [] OTHER -> "set", cached)]
    /\ UNCHANGED <<calls, row, objs, cached, held, names>>

ApplyUpdate(c) ==
    /\ Is(c, "apply")
    /\ Free(at[c].obj, TRUE)
    /\ objs' = [objs EXCEPT ![at[c].obj] = ApplyTo(calls[c].update, @)]
    /\ Goto(c, "find_again")
    /\ UNCHANGED <<calls, row, cached, held, names>>

(* The rest of update_movement: store under the read lock                   *)
StoreUpdate(c) ==
    /\ Is(c, "store")
    /\ Free(at[c].obj, FALSE)
    /\ PersistMovement(objs[at[c].obj])
    /\ IF row'.status # "pending"
         THEN held' = held \cup {<<c, at[c].obj, "read">>} /\ Goto(c, "stored")
         ELSE held' = held /\ CallEnds(c)
    /\ UNCHANGED <<calls, objs, cached, names>>

(* finish_movement sets the status and stores it under the write lock.       *)
SetStatus(c) ==
    /\ Is(c, "set")
    /\ Free(at[c].obj, TRUE)
    /\ objs' = [objs EXCEPT ![at[c].obj].status = calls[c].status]
    /\ PersistMovement(objs'[at[c].obj])
    /\ held' = held \cup {<<c, at[c].obj, "write">>}
    /\ Goto(c, "stored_final")
    /\ UNCHANGED <<calls, cached, names>>

(* The database refuses the row: the cached object keeps the change.         *)
StoreFails(c) ==
    /\ \/ Is(c, "store") /\ Free(at[c].obj, FALSE) /\ objs' = objs
       \/ Is(c, "set") /\ Free(at[c].obj, TRUE) /\ objs' = [objs EXCEPT ![at[c].obj].status = calls[c].status]
    /\ calls[c].fails
    /\ Goto(c, "error")
    /\ UNCHANGED <<calls, row, cached, held, names>>

(* unload_movement_from_cache removes the entry, whichever object it is.    *)
UnloadMovement(c) ==
    /\ at[c].pc \in {"stored", "stored_final"}
    /\ cached' = 0
    /\ held' = {h \in held : h[1] # c}
    /\ CallEnds(c)
    /\ UNCHANGED <<calls, row, objs, names>>

(* register_subsystem: the check under the read lock, the insertion under    *)
(* the write lock                                                           *)
CheckSubsystem(c) ==
    /\ Is(c, "start") /\ calls[c].kind = "register"
    /\ Goto(c, IF calls[c].status \in Range(names) THEN "error" ELSE "insert")
    /\ UNCHANGED <<calls, row, objs, cached, held, names>>

InsertSubsystem(c) ==
    /\ Is(c, "insert")
    /\ names' = Append(names, calls[c].status)
    /\ at' = [at EXCEPT ![c] = [pc |-> "ok", obj |-> 0, id |-> Len(names)]]
    /\ UNCHANGED <<calls, row, objs, cached, held>>

CallerNext(c) ==
    \/ NewMovement(c) \/ DropGuard(c) \/ LoadMovement(c) \/ FindMovement(c) \/ ApplyUpdate(c)
    \/ StoreUpdate(c) \/ SetStatus(c) \/ StoreFails(c) \/ UnloadMovement(c)
    \/ CheckSubsystem(c) \/ InsertSubsystem(c)

MoveIdle == (\A c \in MoveCallers : at[c].pc \in {"ok", "error"}) /\ UNCHANGED moveVars

MoveNext == (\E c \in MoveCallers : CallerNext(c)) \/ MoveIdle

MoveSpec == MoveInit /\ [][MoveNext]_moveVars

(***************************************************************************)
(* Properties                                                              *)
(***************************************************************************)
MoveTypeOK ==
    /\ row.status \in Final \cup {"pending", "none"}
    /\ cached \in 0 .. Len(objs)
    /\ \A h \in held : h[1] \in MoveCallers /\ h[2] \in 1 .. Len(objs)

Updated(c) == \/ Is(c, "ok") /\ calls[c].kind \in {"update", "finish_with"}
              \/ Is(c, "finish") /\ calls[c].kind \in {"finish_with", "guarded"}

(* With two callers, a merge that update_movement reported as done is in    *)
(* the row from then on: no other call stores an object without it.          *)
UpdatesKept ==
    \A c \in MoveCallers : Updated(c) =>
        \/ \E d \in MoveCallers \ {c} : calls[d].update.ins.how = "replace"
        \/ Range(calls[c].update.ins.vals) \subseteq Range(row.ins)

(* When no call is under way, the cache agrees with the database, and a     *)
(* finished movement is not cached.                                          *)
CacheSettled ==
    (\A c \in MoveCallers : at[c].pc \in {"ok", "error", "start"}) /\ cached # 0
        /\ (\A c \in MoveCallers : ~calls[c].fails) => objs[cached] = row /\ row.status = "pending"

(* Two registrations never get the same SubsystemId.                         *)
SubsystemIdsUnique ==
    \A c, d \in MoveCallers : c # d /\ at[c].id >= 0 /\ at[d].id >= 0 => at[c].id # at[d].id

(* "Subsystems are identified using unique names": not met by two callers    *)
(* at the same time.                                                        *)
SubsystemNamesUnique == IsInjective(names)

(* "Merge: ... ensuring no duplicates are present": not met by sent_to.      *)
MergeUnique == IsInjective(row.ins) /\ IsInjective(row.sent)
=============================================================================
