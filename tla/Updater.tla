------------------------------ MODULE Updater ------------------------------
(***************************************************************************)
(* merge.Updater: the field managers of one object, its updates and its    *)
(* server-side applies.  The state is what a caller of the library keeps   *)
(* between calls (the live object and its managed fields), the schema and  *)
(* the versions of the API, which change under it, and the call of Apply   *)
(* that is under way.  Apply is several steps because it visits the        *)
(* versions of the managers in the order of a Go map, which is any order;  *)
(* no other call runs on the object meanwhile.                             *)
(***************************************************************************)
EXTENDS TypedObject, Functions

CONSTANTS
    Manager, Version,
    ToBase,       \* ToBase[v][p]: the stored name of what version v calls p
    FromBase,     \* its inverse
    Ignored,      \* Ignored[v]: Updater.IgnoredFields
    Schemas,      \* the sets of atomic paths that schemas may have
    Updates,      \* <<manager, version>> of the updates
    Applies,      \* <<manager, version>> of the applies
    UpdateObjects,
    ApplyConfigs  \* objects and configurations that are sent

ASSUME VersionAssumption ==
    /\ ToBase \in [Version -> [Path -> Path]]
    /\ FromBase \in [Version -> [Path -> Path]]
    /\ \A v \in Version : \A p \in Path :
         /\ FromBase[v][ToBase[v][p]] = p
         /\ ToBase[v][FromBase[v][p]] = p
         /\ Kind[ToBase[v][p]] = Kind[p]
         /\ ToBase[v][p] \in Named <=> p \in Named
         /\ \A q \in Path : ToBase[v][q] \in Above[ToBase[v][p]] <=> q \in Above[p]

ASSUME InputAssumption ==
    /\ Ignored \in [Version -> SUBSET Path]
    /\ Schemas \subseteq SUBSET {p \in Path : Kind[p] # "scalar"}
    /\ Schemas # {}
    /\ Updates \subseteq Manager \X Version
    /\ Applies \subseteq Manager \X Version
    /\ \A o \in UpdateObjects \cup ApplyConfigs : IsObject(o)
    /\ \A c \in ApplyConfigs : \A p \in DOMAIN c : c[p] \notin Dup

VARIABLES
    live,      \* the object, under its stored names
    managers,  \* ManagedFields: a function from some managers to their sets
    atomic,    \* the atomic paths of the schema, under their stored names
    served,    \* the versions that the converter still knows
    call       \* the Apply under way

vars == <<live, managers, atomic, served, call>>

VersionedSet == [set : SUBSET Path, version : Version, applied : BOOLEAN]

-----------------------------------------------------------------------------
(* Converter.Convert, to a version and back from it. *)
ConvertTo(v, o) ==
    [p \in {q \in Path : ToBase[v][q] \in DOMAIN o} |-> o[ToBase[v][p]]]

ConvertFrom(v, o) ==
    [p \in {q \in Path : FromBase[v][q] \in DOMAIN o} |-> o[FromBase[v][p]]]

AtomicAt(v) == {p \in Path : ToBase[v][p] \in atomic}

(* Mutant: managers of missing versions are not skipped. *)
ReconcileWithoutSkip ==
    [m \in DOMAIN managers |->
        [managers[m] EXCEPT !.set =
            ReconcileFieldSetWithSchema(AtomicAt(managers[m].version), @)]]

ReconcileManagedFieldsWithSchemaChanges ==
    [m \in {n \in DOMAIN managers : managers[n].version \in served} |->
        [managers[m] EXCEPT !.set =
            ReconcileFieldSetWithSchema(AtomicAt(managers[m].version), @)]]

(* Mutant: empty sets stay. *)
DropNothing(ms) == ms

DropEmptySets(ms) == Restrict(ms, {m \in DOMAIN ms : ms[m].set # {}})

(* Mutant: the objects are compared under their stored names. *)
CompareUnconverted(v, old, new) ==
    ExcludeFields(Compare(atomic, old, new), Ignored[v])

CompareAt(v, old, new) ==
    ExcludeFields(Compare(AtomicAt(v), ConvertTo(v, old), ConvertTo(v, new)),
                  Ignored[v])

(* Mutant: modified fields do not conflict. *)
ConflictSetOfAdded(ms, m, old, new) ==
    ms[m].set \cap CompareAt(ms[m].version, old, new).added

(* What a manager other than workflow owns of the changed fields. *)
ConflictSet(ms, m, old, new) ==
    LET cmp == CompareAt(ms[m].version, old, new)
    IN  ms[m].set \cap (cmp.modified \cup cmp.added)

(* Mutant: modified fields are taken without a conflict. *)
ConflictsOfAdded(ms, workflow, old, new) ==
    {m \in DOMAIN ms \ {workflow} : ConflictSetOfAdded(ms, m, old, new) # {}}

Conflicts(ms, workflow, old, new) ==
    {m \in DOMAIN ms \ {workflow} : ConflictSet(ms, m, old, new) # {}}

(* Mutant: the other managers keep the fields that vanished. *)
TakeOverButRemoved(ms, workflow, old, new) ==
    DropEmptySets(
        [m \in DOMAIN ms |->
            IF m = workflow THEN ms[m]
            ELSE [ms[m] EXCEPT !.set = @ \ ConflictSet(ms, m, old, new)]])

(* Updater.update, once conflicts are out of the way: the other managers   *)
(* lose the fields that changed or vanished.                               *)
TakeOver(ms, workflow, old, new) ==
    DropEmptySets(
        [m \in DOMAIN ms |->
            IF m = workflow THEN ms[m]
            ELSE [ms[m] EXCEPT !.set =
                    (@ \ ConflictSet(ms, m, old, new))
                       \ CompareAt(ms[m].version, old, new).removed]])

(* Mutant: the ignored fields are not taken out at the end. *)
UpdatedSetWithIgnored(ms, m, v, old, new) ==
    LET cmp  == Compare(AtomicAt(v), ConvertTo(v, old), ConvertTo(v, new))
        base == IF m \in DOMAIN ms THEN ms[m].set ELSE {}
    IN  (base \ cmp.removed) \cup cmp.modified \cup cmp.added

(* What the updating manager owns. *)
UpdatedSet(ms, m, v, old, new) ==
    LET cmp  == CompareAt(v, old, new)
        base == IF m \in DOMAIN ms THEN ms[m].set ELSE {}
    IN  RecursiveDifference((base \ cmp.removed) \cup cmp.modified \cup cmp.added,
                            Ignored[v])

(* managers[m] = vs *)
SetManager(ms, m, vs) ==
    [n \in DOMAIN ms \cup {m} |-> IF n = m THEN vs ELSE ms[n]]

-----------------------------------------------------------------------------
Idle == [pc |-> "idle"]

Init ==
    /\ live = EmptyObject
    /\ managers = [m \in {} |-> 0]
    /\ atomic \in Schemas
    /\ served = Version
    /\ call = Idle

Update(m, v, o) ==
    LET new == ConvertFrom(v, o)
        ms  == TakeOver(ReconcileManagedFieldsWithSchemaChanges, m, live, new)
    IN  /\ call = Idle
        /\ v \in served
        /\ live' = new
        /\ managers' = DropEmptySets(SetManager(ms, m,
                          [set     |-> UpdatedSet(ms, m, v, live, new),
                           version |-> v,
                           applied |-> FALSE]))
        /\ UNCHANGED <<atomic, served, call>>

(* Apply up to the loop of addBackOwnedItems: the configuration is merged  *)
(* into the object and what the manager applied last is removed again.     *)
ApplyBegin(m, v, c, force) ==
    LET ms     == ReconcileManagedFieldsWithSchemaChanges
        merged == Merge(AtomicAt(v), ConvertTo(v, live), c)
        set    == RecursiveDifference(ToFieldSet(AtomicAt(v), c), Ignored[v])
        new    == SetManager(ms, m,
                      [set |-> set, version |-> v, applied |-> TRUE])
        last   == IF m \in DOMAIN ms THEN ms[m] ELSE [new[m] EXCEPT !.set = {}]
        w      == last.version
        mergedW == ConvertTo(w, ConvertFrom(v, merged))
    IN  /\ call = Idle
        /\ v \in served
        /\ call' = [pc |-> "prune", manager |-> m, version |-> v,
                    config |-> c, force |-> force, managers |-> new,
                    last   |-> last,
                    merged |-> ConvertFrom(v, merged),
                    pruned |-> ConvertFrom(w, RemoveItems(AtomicAt(w), mergedW,
                                  EnsureNamedFieldsAreMembers(last.set))),
                    todo   |-> IF last.set = {} THEN {}
                               ELSE {new[n].version : n \in DOMAIN new}]
        /\ UNCHANGED <<live, managers, atomic, served>>

(* Mutant: the new configuration of the applying manager is left out. *)
ManagedByOthersAt(x) ==
    UNION {call.managers[m].set :
             m \in {n \in DOMAIN call.managers \ {call.manager} :
                       call.managers[n].version = x}}

(* Mutant: updaters are left out. *)
AppliedAtVersion(x) ==
    UNION {call.managers[m].set :
             m \in {n \in DOMAIN call.managers :
                       call.managers[n].version = x /\ call.managers[n].applied}}

(* What the managers own at version x. *)
ManagedAtVersion(x) ==
    UNION {call.managers[m].set :
             m \in {n \in DOMAIN call.managers : call.managers[n].version = x}}

(* What the managers own at version x is put back. *)
AddBackOwnedItemsForVersion(x) ==
    LET merged  == ConvertTo(x, call.merged)
        pruned  == ConvertTo(x, call.pruned)
        drop    == EnsureNamedFieldsAreMembers(ToFieldSet(AtomicAt(x), merged))
                     \ (EnsureNamedFieldsAreMembers(ToFieldSet(AtomicAt(x), pruned))
                          \cup EnsureNamedFieldsAreMembers(ManagedAtVersion(x)))
    IN  /\ call.pc = "prune"
        /\ x \in call.todo
        /\ call.last.version \in call.todo => x = call.last.version
        /\ call' = [call EXCEPT
                      !.pruned = ConvertFrom(x, RemoveItems(AtomicAt(x), merged, drop)),
                      !.todo   = call.todo \ {x}]
        /\ UNCHANGED <<live, managers, atomic, served>>

(* Mutant: everything that the new configuration does not have goes. *)
PrunedToConfig ==
    LET v == call.version
    IN  IF call.last.set = {} THEN call.merged
        ELSE ConvertFrom(v, RemoveItems(AtomicAt(v), ConvertTo(v, call.merged),
                                        Path \ DOMAIN call.config))

(* Mutant: what dangles is not added back. *)
PrunedWithDangling == IF call.last.set = {} THEN call.merged ELSE call.pruned

(* addBackDanglingItems: only what the manager applied last stays removed. *)
Pruned ==
    LET w      == call.last.version
        merged == ConvertTo(w, call.merged)
        pruned == ConvertTo(w, call.pruned)
        drop   == (EnsureNamedFieldsAreMembers(ToFieldSet(AtomicAt(w), merged))
                     \ EnsureNamedFieldsAreMembers(ToFieldSet(AtomicAt(w), pruned)))
                    \cap EnsureNamedFieldsAreMembers(call.last.set)
    IN  IF call.last.set = {} THEN call.merged
        ELSE ConvertFrom(w, RemoveItems(AtomicAt(w), merged, drop))

ApplyReady == call.pc = "prune" /\ call.todo = {}

ApplyConflicts == Conflicts(call.managers, call.manager, live, Pruned)

(* The call returns the conflicts and the caller keeps what it had. *)
ApplyFails ==
    /\ ApplyReady
    /\ ~call.force
    /\ ApplyConflicts # {}
    /\ call' = Idle
    /\ UNCHANGED <<live, managers, atomic, served>>

ApplySucceeds ==
    /\ ApplyReady
    /\ call.force \/ ApplyConflicts = {}
    /\ live' = Pruned
    /\ managers' = TakeOver(call.managers, call.manager, live, Pruned)
    /\ call' = Idle
    /\ UNCHANGED <<atomic, served>>

(* The schema's atomic markers change without a new version of the API.    *)
(* The object is validated again, and duplicates are refused then.         *)
ChangeSchema(at) ==
    /\ call = Idle
    /\ \A p \in DOMAIN live : live[p] \notin Dup
    /\ atomic' = at
    /\ UNCHANGED <<live, managers, served, call>>

(* The API stops serving a version. *)
DropVersion(v) ==
    /\ call = Idle
    /\ v \in served
    /\ served # {v}
    /\ served' = served \ {v}
    /\ UNCHANGED <<live, managers, atomic, call>>

ApplyStep ==
    \/ \E x \in Version : AddBackOwnedItemsForVersion(x)
    \/ ApplyFails
    \/ ApplySucceeds

Next ==
    \/ \E mv \in Updates, o \in UpdateObjects : Update(mv[1], mv[2], o)
    \/ \E mv \in Applies, c \in ApplyConfigs, force \in BOOLEAN :
          ApplyBegin(mv[1], mv[2], c, force)
    \/ ApplyStep
    \/ \E at \in Schemas : ChangeSchema(at)
    \/ \E v \in Version : DropVersion(v)

Spec == Init /\ [][Next]_vars

-----------------------------------------------------------------------------
IsManagedFields(ms) ==
    /\ DOMAIN ms \subseteq Manager
    /\ ms = [m \in DOMAIN ms |-> ms[m]]
    /\ \A m \in DOMAIN ms : ms[m] \in VersionedSet

(* The type of an Apply under way. *)
CallOK ==
    /\ DOMAIN call = {"pc", "manager", "version", "config", "force", "managers",
                      "last", "merged", "pruned", "todo"}
    /\ call.pc = "prune"
    /\ <<call.manager, call.version>> \in Applies
    /\ call.config \in ApplyConfigs
    /\ call.force \in BOOLEAN
    /\ IsManagedFields(call.managers)
    /\ call.manager \in DOMAIN call.managers
    /\ call.last \in VersionedSet
    /\ IsObject(call.merged)
    /\ IsObject(call.pruned)
    /\ call.todo \subseteq Version

(* Objects stay well-formed under every operation of package typed that    *)
(* Update and Apply use, and managed fields keep their type.               *)
TypeOK ==
    /\ IsObject(live)
    /\ IsManagedFields(managers)
    /\ atomic \in Schemas
    /\ served \subseteq Version
    /\ call = Idle \/ CallOK

(* A manager that owns nothing is not recorded.                            *)
NoEmptyManagedSets == \A m \in DOMAIN managers : managers[m].set # {}

OwnsNoneIgnored(ms) ==
    \A m \in DOMAIN ms : \A p \in ms[m].set : UpTo(p) \cap Ignored[ms[m].version] = {}

(* IgnoredFields and what is below them are never owned, whatever the      *)
(* order of updates, applies, changes of schema and changes of version.    *)
IgnoredNeverOwned == OwnsNoneIgnored(managers)

(* Whatever a manager owns is in the object.                               *)
OwnedFieldsExist ==
    \A m \in DOMAIN managers :
        managers[m].set \subseteq DOMAIN ConvertTo(managers[m].version, live)

(* While an Apply runs, every version it converts to is served, so the     *)
(* branches of prune and update for missing versions are never taken (the  *)
(* one of addBackOwnedItemsForVersion would go on with a nil object).      *)
NoMissingVersionInApply ==
    call # Idle => /\ call.version \in served
                   /\ call.last.version \in served
                   /\ \A m \in DOMAIN call.managers :
                        call.managers[m].version \in served

(* p is in neither object, or it is in both and, if p is a leaf of version *)
(* v, with the same value.                                                 *)
Untouched(v, p, old, new) ==
    LET l == ConvertTo(v, old)
        r == ConvertTo(v, new)
    IN  \/ p \notin DOMAIN l \cup DOMAIN r
        \/ /\ p \in DOMAIN l \cap DOMAIN r
           /\ IsLeaf(AtomicAt(v), p) => SameValue(l, r, p)

ChangeOfOwner ==
    live' # live =>
        \E actor \in Manager : \A m \in DOMAIN managers' \ {actor} :
            /\ m \in DOMAIN managers
            /\ managers'[m].version = managers[m].version
            /\ \A p \in managers'[m].set :
                  Untouched(managers[m].version, p, live, live')

(* A field changes hands when its value changes: after a step, whatever    *)
(* every manager but the one that made it owns was not touched by it.      *)
ChangedFieldsChangeOwner == [][ChangeOfOwner]_vars

TakesNothing ==
    ApplySucceeds /\ ~call.force =>
        \A m \in DOMAIN call.managers \ {call.manager} :
          \A p \in call.managers[m].set :
            LET v == call.managers[m].version
            IN  \/ p \notin DOMAIN ConvertTo(v, live')
                \/ /\ m \in DOMAIN managers'
                   /\ p \in managers'[m].set
                   /\ Untouched(v, p, live, live')

(* An Apply that is not forced takes nothing from another manager: what it *)
(* owned it still owns, untouched, or the field is gone from the object.   *)
UnforcedApplyTakesNothing == [][TakesNothing]_vars

ConfigHolds ==
    ApplySucceeds =>
        LET new == ConvertTo(call.version, live')
        IN  \A p \in call.managers[call.manager].set :
              /\ p \in DOMAIN new
              /\ IsLeaf(AtomicAt(call.version), p) => SameValue(call.config, new, p)

(* What a manager owns after its Apply is in the object with the value of  *)
(* the configuration: neither the merge nor the pruning lost it.           *)
AppliedConfigHolds == [][ConfigHolds]_vars

RootsWereApplied ==
    ApplySucceeds =>
        LET w      == call.last.version
            merged == ConvertTo(w, call.merged)
            gone   == DOMAIN merged \ DOMAIN ConvertTo(w, live')
        IN  \A p \in gone :
              Above[p] \cap gone = {} => p \in EnsureNamedFieldsAreMembers(call.last.set)

(* Apply removes no more than it has to.  What it removes, it removes for  *)
(* something that its manager applied last time: the topmost field of      *)
(* whatever goes is one of those fields or a struct or list around one.    *)
RemovedRootsWereApplied == [][RootsWereApplied]_vars

AddsBackOwnedItems ==
    ApplySucceeds =>
        LET Owned(m)  == {ToBase[call.managers[m].version][p] :
                             p \in call.managers[m].set}
            allOwned  == UNION {Owned(m) : m \in DOMAIN call.managers}
        IN  \A p \in allOwned \cap DOMAIN call.merged :
              Above[p] \ Named \subseteq allOwned => p \in DOMAIN live'

(* Apply does not remove what some manager owns if the items and keys on   *)
(* the way to it are owned too.                                            *)
OwnedItemsAddedBack == [][AddsBackOwnedItems]_vars
=============================================================================
