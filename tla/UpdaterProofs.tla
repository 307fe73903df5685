---------------------------- MODULE UpdaterProofs ----------------------------
(***************************************************************************)
(* The types of Updater, the invariant of its managed fields, and what     *)
(* prune may remove: nothing but what the manager had applied before.  All *)
(* for every tree of paths and every number of managers and versions.  The *)
(* last lemmas say what removing and merging do to objects without empty   *)
(* lists.                                                                  *)
(***************************************************************************)
EXTENDS Updater, TLAPS

(* Merge of two well-formed objects is well-formed. *)
LEMMA MergeIsObject ==
    ASSUME NEW at, NEW l, NEW r, IsObject(l), IsObject(r)
    PROVE  IsObject(Merge(at, l, r))
<1> DEFINE kept == {p \in DOMAIN l : Above[p] \cap at \cap DOMAIN r = {}}
           dom  == kept \cup DOMAIN r
           o    == Merge(at, l, r)
<1>1. DOMAIN o = dom /\ dom \subseteq Path /\ o = [p \in dom |-> o[p]]
  BY DEF Merge, Kept, IsObject
<1>2. \A p \in dom : Above[p] \subseteq dom
  BY PathAssumption, <1>1 DEF IsObject
<1>3. \A p \in dom : o[p] = IF p \notin DOMAIN r THEN l[p]
                            ELSE IF \E q \in dom : p \in Above[q] THEN Obj
                            ELSE r[p]
  BY DEF Merge, Kept
<1>4. ASSUME NEW p \in dom
      PROVE  /\ \/ Kind[p] = "scalar" /\ o[p] \in Scalar
                \/ Kind[p] # "scalar" /\ o[p] = Obj
                \/ o[p] = Null
                \/ p \notin Named /\ o[p] \in Dup
             /\ o[p] # Obj => Below(o, p) = {}
  <2>1. CASE p \notin DOMAIN r
    <3>1. p \in DOMAIN l /\ o[p] = l[p]
      BY <2>1, <1>3
    <3>2. \A q \in dom : p \in Above[q] => q \in DOMAIN l
      BY <2>1 DEF IsObject
    <3> QED
      BY <3>1, <3>2, <1>1 DEF IsObject, Below
  <2>2. CASE p \in DOMAIN r /\ \E q \in dom : p \in Above[q]
    BY <2>2, <1>3, <1>1, PathAssumption
  <2>3. CASE p \in DOMAIN r /\ ~\E q \in dom : p \in Above[q]
    BY <2>3, <1>3, <1>1 DEF IsObject, Below
  <2> QED
    BY <2>1, <2>2, <2>3
<1> QED
  BY <1>1, <1>2, <1>4, Zenon DEF IsObject

(* RemoveItems of a well-formed object is well-formed. *)
LEMMA RemoveItemsIsObject ==
    ASSUME NEW at, NEW S, NEW o, IsObject(o)
    PROVE  /\ IsObject(RemoveItems(at, o, S))
           /\ DOMAIN RemoveItems(at, o, S) \subseteq DOMAIN o
<1> DEFINE walked == {p \in Path : \E s \in S : p \in Above[s]}
           kept   == {p \in DOMAIN o : /\ UpTo(p) \cap S = {}
                                       /\ Above[p] \cap at \cap walked = {}}
           r      == RemoveItems(at, o, S)
<1>1. DOMAIN r = kept /\ kept \subseteq Path /\ r = [p \in kept |-> r[p]]
  BY DEF RemoveItems, IsObject
<1>2. ASSUME NEW p \in kept PROVE Above[p] \subseteq kept
  BY PathAssumption DEF IsObject, UpTo
<1>3. \A p \in kept : r[p] = IF /\ p \in walked
                                /\ Kind[p] # "scalar"
                                /\ \A q \in kept : p \notin Above[q]
                             THEN Null ELSE o[p]
  BY DEF RemoveItems
<1>4. ASSUME NEW p \in kept
      PROVE  /\ \/ Kind[p] = "scalar" /\ r[p] \in Scalar
                \/ Kind[p] # "scalar" /\ r[p] = Obj
                \/ r[p] = Null
                \/ p \notin Named /\ r[p] \in Dup
             /\ r[p] # Obj => Below(r, p) = {}
  <2>1. CASE r[p] = o[p]
    BY <2>1, <1>1 DEF IsObject, Below
  <2>2. CASE r[p] # o[p]
    BY <2>2, <1>1, <1>3 DEF Below
  <2> QED
    BY <2>1, <2>2
<1> QED
  BY <1>1, <1>2, <1>4 DEF IsObject

(* A renaming that respects the schema's tree keeps objects well-formed. *)
LEMMA RenameIsObject ==
    ASSUME NEW f \in [Path -> Path], NEW g \in [Path -> Path],
           \A p \in Path : /\ f[g[p]] = p
                           /\ Kind[f[p]] = Kind[p]
                           /\ f[p] \in Named <=> p \in Named,
           \A p, q \in Path : f[q] \in Above[f[p]] <=> q \in Above[p],
           NEW o, IsObject(o),
           NEW r, r = [p \in {q \in Path : f[q] \in DOMAIN o} |-> o[f[p]]]
    PROVE  IsObject(r)
<1> DEFINE dom == {q \in Path : f[q] \in DOMAIN o}
<1>1. DOMAIN r = dom /\ dom \subseteq Path /\ r = [p \in dom |-> r[p]]
  OBVIOUS
<1>2. \A p \in dom : r[p] = o[f[p]]
  OBVIOUS
<1>3. \A p \in dom : Above[p] \subseteq dom
  BY PathAssumption DEF IsObject
<1>4. ASSUME NEW p \in dom
      PROVE  /\ \/ Kind[p] = "scalar" /\ r[p] \in Scalar
                \/ Kind[p] # "scalar" /\ r[p] = Obj
                \/ r[p] = Null
                \/ p \notin Named /\ r[p] \in Dup
             /\ r[p] # Obj => Below(r, p) = {}
  <2>1. \A q \in Below(r, p) : f[q] \in Below(o, f[p])
    BY <1>1 DEF Below
  <2>2. /\ r[p] # Obj => Below(o, f[p]) = {}
        /\ \/ Kind[f[p]] = "scalar" /\ r[p] \in Scalar
           \/ Kind[f[p]] # "scalar" /\ r[p] = Obj
           \/ r[p] = Null
           \/ f[p] \notin Named /\ r[p] \in Dup
    BY <1>2 DEF IsObject
  <2>3. r[p] # Obj => Below(r, p) = {}
    BY ZenonT(30), <2>1, <2>2
  <2>4. Kind[f[p]] = Kind[p] /\ (f[p] \in Named <=> p \in Named)
    OBVIOUS
  <2> QED
    BY <2>2, <2>3, <2>4
<1> QED
  BY <1>1, <1>3, <1>4 DEF IsObject

(* Conversion between versions keeps objects well-formed. *)
LEMMA ConvertIsObject ==
    ASSUME NEW v \in Version, NEW o, IsObject(o)
    PROVE  IsObject(ConvertTo(v, o)) /\ IsObject(ConvertFrom(v, o))
<1>1. ToBase[v] \in [Path -> Path] /\ FromBase[v] \in [Path -> Path]
  BY VersionAssumption
<1>2. /\ \A p \in Path : /\ ToBase[v][FromBase[v][p]] = p
                         /\ Kind[ToBase[v][p]] = Kind[p]
                         /\ ToBase[v][p] \in Named <=> p \in Named
      /\ \A p, q \in Path : ToBase[v][q] \in Above[ToBase[v][p]] <=> q \in Above[p]
  BY VersionAssumption
<1>3. /\ \A p \in Path : /\ FromBase[v][ToBase[v][p]] = p
                         /\ Kind[FromBase[v][p]] = Kind[p]
                         /\ FromBase[v][p] \in Named <=> p \in Named
      /\ \A p, q \in Path :
            FromBase[v][q] \in Above[FromBase[v][p]] <=> q \in Above[p]
  BY <1>1, VersionAssumption
<1>4. IsObject(ConvertTo(v, o))
  BY <1>1, <1>2, RenameIsObject DEF ConvertTo
<1>5. IsObject(ConvertFrom(v, o))
  BY <1>1, <1>3, RenameIsObject DEF ConvertFrom
<1> QED
  BY <1>4, <1>5

-----------------------------------------------------------------------------
(* The atomic paths of a version are paths. *)
LEMMA AtomicAtType == ASSUME NEW v PROVE AtomicAt(v) \subseteq Path
  BY DEF AtomicAt

(* ReconcileFieldSetWithSchema returns a set of paths. *)
LEMMA ReconcileType ==
    ASSUME NEW at, at \subseteq Path, NEW S, S \subseteq Path
    PROVE  ReconcileFieldSetWithSchema(at, S) \subseteq Path
  BY DEF ReconcileFieldSetWithSchema, NowAtomic, RecursiveDifference, Visible

(* reconcileManagedFieldsWithSchemaChanges returns managed fields. *)
LEMMA ReconciledType ==
    ASSUME TypeOK
    PROVE  /\ IsManagedFields(ReconcileManagedFieldsWithSchemaChanges)
           /\ \A m \in DOMAIN ReconcileManagedFieldsWithSchemaChanges :
                ReconcileManagedFieldsWithSchemaChanges[m].version \in served
<1> DEFINE ms == ReconcileManagedFieldsWithSchemaChanges
<1>1. DOMAIN ms = {n \in DOMAIN managers : managers[n].version \in served}
      /\ ms = [m \in DOMAIN ms |-> ms[m]]
  BY DEF ReconcileManagedFieldsWithSchemaChanges
<1>2. ASSUME NEW m \in DOMAIN ms
      PROVE  ms[m] \in VersionedSet /\ ms[m].version = managers[m].version
  <2>1. managers[m] \in VersionedSet
    BY <1>1 DEF TypeOK, IsManagedFields
  <2>2. ms[m] = [managers[m] EXCEPT !.set =
          ReconcileFieldSetWithSchema(AtomicAt(managers[m].version), managers[m].set)]
    BY <1>1 DEF ReconcileManagedFieldsWithSchemaChanges
  <2>3. ReconcileFieldSetWithSchema(AtomicAt(managers[m].version), managers[m].set)
          \in SUBSET Path
    BY <2>1, AtomicAtType, ReconcileType DEF VersionedSet
  <2> QED
    BY <2>1, <2>2, <2>3 DEF VersionedSet
<1> QED
  BY <1>1, <1>2 DEF TypeOK, IsManagedFields

(* Dropping managers leaves managed fields. *)
LEMMA DropEmptySetsType ==
    ASSUME NEW ms, IsManagedFields(ms)
    PROVE  /\ IsManagedFields(DropEmptySets(ms))
           /\ DOMAIN DropEmptySets(ms) = {m \in DOMAIN ms : ms[m].set # {}}
           /\ \A m \in DOMAIN DropEmptySets(ms) : DropEmptySets(ms)[m] = ms[m]
  BY DEF DropEmptySets, Restrict, IsManagedFields

(* So does recording the set of one manager. *)
LEMMA SetManagerType ==
    ASSUME NEW ms, IsManagedFields(ms), NEW m \in Manager, NEW vs \in VersionedSet
    PROVE  /\ IsManagedFields(SetManager(ms, m, vs))
           /\ DOMAIN SetManager(ms, m, vs) = DOMAIN ms \cup {m}
           /\ SetManager(ms, m, vs)[m] = vs
           /\ \A n \in DOMAIN ms \ {m} : SetManager(ms, m, vs)[n] = ms[n]
  BY DEF SetManager, IsManagedFields

(* The other managers keep their version and a part of their set. *)
LEMMA TakeOverType ==
    ASSUME NEW ms, IsManagedFields(ms), NEW w, NEW old, NEW new
    PROVE  /\ IsManagedFields(TakeOver(ms, w, old, new))
           /\ \A m \in DOMAIN TakeOver(ms, w, old, new) :
                /\ m \in DOMAIN ms
                /\ TakeOver(ms, w, old, new)[m].set # {}
                /\ TakeOver(ms, w, old, new)[m].version = ms[m].version
                /\ m = w => TakeOver(ms, w, old, new)[m] = ms[m]
                /\ m # w => TakeOver(ms, w, old, new)[m].set =
                      (ms[m].set \ ConflictSet(ms, m, old, new))
                         \ CompareAt(ms[m].version, old, new).removed
<1> DEFINE all == [m \in DOMAIN ms |->
                     IF m = w THEN ms[m]
                     ELSE [ms[m] EXCEPT !.set =
                             (@ \ ConflictSet(ms, m, old, new))
                                \ CompareAt(ms[m].version, old, new).removed]]
<1>1. DOMAIN all = DOMAIN ms /\ all = [m \in DOMAIN all |-> all[m]]
  OBVIOUS
<1>2. ASSUME NEW m \in DOMAIN ms
      PROVE  /\ all[m] \in VersionedSet
             /\ all[m].version = ms[m].version
             /\ m = w => all[m] = ms[m]
             /\ m # w => all[m].set =
                   (ms[m].set \ ConflictSet(ms, m, old, new))
                      \ CompareAt(ms[m].version, old, new).removed
  BY DEF IsManagedFields, VersionedSet
<1>3. IsManagedFields(all)
  BY <1>1, <1>2 DEF IsManagedFields
<1>4. TakeOver(ms, w, old, new) = DropEmptySets(all)
  BY DEF TakeOver
<1>5. /\ IsManagedFields(TakeOver(ms, w, old, new))
      /\ DOMAIN TakeOver(ms, w, old, new) = {m \in DOMAIN all : all[m].set # {}}
      /\ \A m \in DOMAIN TakeOver(ms, w, old, new) :
            TakeOver(ms, w, old, new)[m] = all[m]
  BY ZenonT(30), <1>3, <1>4, DropEmptySetsType
<1> HIDE DEF all
<1>6. ASSUME NEW m \in DOMAIN TakeOver(ms, w, old, new)
      PROVE  /\ m \in DOMAIN ms
             /\ TakeOver(ms, w, old, new)[m].set # {}
             /\ TakeOver(ms, w, old, new)[m] = all[m]
  BY <1>1, <1>5
<1> QED
  BY <1>2, <1>5, <1>6

-----------------------------------------------------------------------------
(* The object without fields is well-formed. *)
LEMMA EmptyIsObject == IsObject(EmptyObject)
  BY DEF IsObject, EmptyObject

(* What an Apply will leave is an object. *)
LEMMA PrunedIsObject == ASSUME CallOK PROVE IsObject(Pruned)
<1>1. call.last.version \in Version /\ IsObject(call.merged)
  BY DEF CallOK, VersionedSet
<1> QED
  BY <1>1, ConvertIsObject, RemoveItemsIsObject DEF Pruned

(* What Update records for its manager is a set of paths. *)
LEMMA UpdatedSetType ==
    ASSUME NEW ms, IsManagedFields(ms), NEW m, NEW v, NEW old, NEW new
    PROVE  UpdatedSet(ms, m, v, old, new) \subseteq Path
<1>1. /\ DOMAIN ConvertTo(v, old) \subseteq Path
      /\ DOMAIN ConvertTo(v, new) \subseteq Path
  BY DEF ConvertTo
<1>2. CompareAt(v, old, new).modified \subseteq Path
  BY <1>1, Zenon DEF CompareAt, Compare, Flipped, Modified, ExcludeFields, RecursiveDifference, Visible
<1>3. CompareAt(v, old, new).added \subseteq Path
  BY <1>1, Zenon DEF CompareAt, Compare, Flipped, Modified, ExcludeFields, RecursiveDifference, Visible
<1>4. (IF m \in DOMAIN ms THEN ms[m].set ELSE {}) \subseteq Path
  BY DEF IsManagedFields, VersionedSet
<1> QED
  BY <1>2, <1>3, <1>4 DEF UpdatedSet, RecursiveDifference

(* Update keeps the types. *)
LEMMA UpdateType ==
    ASSUME TypeOK, NEW m \in Manager, NEW v \in Version,
           NEW o \in UpdateObjects, Update(m, v, o)
    PROVE  TypeOK'
<1> DEFINE new == ConvertFrom(v, o)
           ms  == TakeOver(ReconcileManagedFieldsWithSchemaChanges, m, live, new)
           vs  == [set |-> UpdatedSet(ms, m, v, live, new),
                   version |-> v, applied |-> FALSE]
<1>1. IsObject(live')
  BY InputAssumption, ConvertIsObject DEF Update
<1>2. IsManagedFields(ms)
  BY ReconciledType, TakeOverType
<1>3. vs \in VersionedSet
  BY <1>2, UpdatedSetType DEF VersionedSet
<1>4. IsManagedFields(DropEmptySets(SetManager(ms, m, vs)))
  BY <1>2, <1>3, SetManagerType, DropEmptySetsType, Zenon
<1>5. managers' = DropEmptySets(SetManager(ms, m, vs))
  BY DEF Update
<1>6. IsManagedFields(managers')
  BY <1>4, <1>5
<1> QED
  BY <1>1, <1>6, Zenon DEF TypeOK, Update, IsManagedFields, Idle

(* The start of Apply, up to the loop of addBackOwnedItems, keeps the      *)
(* types.                                                                  *)
LEMMA ApplyBeginType ==
    ASSUME TypeOK, NEW m, NEW v, <<m, v>> \in Applies,
           NEW c \in ApplyConfigs, NEW force \in BOOLEAN,
           ApplyBegin(m, v, c, force)
    PROVE  TypeOK'
<1> DEFINE ms     == ReconcileManagedFieldsWithSchemaChanges
           merged == Merge(AtomicAt(v), ConvertTo(v, live), c)
           set    == RecursiveDifference(ToFieldSet(AtomicAt(v), c), Ignored[v])
           vs     == [set |-> set, version |-> v, applied |-> TRUE]
           new    == SetManager(ms, m, vs)
           last   == IF m \in DOMAIN ms THEN ms[m] ELSE [new[m] EXCEPT !.set = {}]
           w      == last.version
           mergedW == ConvertTo(w, ConvertFrom(v, merged))
           pruned == RemoveItems(AtomicAt(w), mergedW,
                                 EnsureNamedFieldsAreMembers(last.set))
<1>1. m \in Manager /\ v \in Version /\ IsObject(c)
  BY InputAssumption
<1>2. vs \in VersionedSet
  BY <1>1 DEF VersionedSet, RecursiveDifference, ToFieldSet, Visible, IsObject
<1>3. IsManagedFields(ms)
  BY ReconciledType
<1>4. IsManagedFields(new) /\ m \in DOMAIN new /\ new[m] = vs
  <2>1. \A n, u : /\ m \in DOMAIN SetManager(n, m, u)
                   /\ SetManager(n, m, u)[m] = u
    BY DEF SetManager
  <2>2. \A n, u : IsManagedFields(n) /\ u \in VersionedSet =>
                    IsManagedFields(SetManager(n, m, u))
    BY <1>1 DEF SetManager, IsManagedFields
  <2> QED
    BY <1>2, <1>3, <2>1, <2>2
<1>5. last \in VersionedSet
  <2>1. CASE m \in DOMAIN ms
    BY <2>1, <1>3 DEF IsManagedFields
  <2>2. CASE m \notin DOMAIN ms
    BY <2>2, <1>2, <1>4, Zenon DEF VersionedSet
  <2> QED
    BY <2>1, <2>2
<1>6. w \in Version
  BY <1>5, Zenon DEF VersionedSet
<1>7. IsObject(ConvertFrom(v, merged))
  BY <1>1, ConvertIsObject, MergeIsObject DEF TypeOK
<1>8. IsObject(ConvertFrom(w, pruned))
  BY <1>6, <1>7, ConvertIsObject, RemoveItemsIsObject
<1>9. {new[n].version : n \in DOMAIN new} \subseteq Version
  BY <1>4, Zenon DEF IsManagedFields, VersionedSet
<1>10. call' = [pc |-> "prune", manager |-> m, version |-> v,
                config |-> c, force |-> force, managers |-> new,
                last   |-> last,
                merged |-> ConvertFrom(v, merged),
                pruned |-> ConvertFrom(w, pruned),
                todo   |-> IF last.set = {} THEN {}
                           ELSE {new[n].version : n \in DOMAIN new}]
  BY DEF ApplyBegin
<1> HIDE DEF new, last, merged, pruned, w
<1>11. CallOK'
  BY <1>4, <1>5, <1>7, <1>8, <1>9, <1>10 DEF CallOK, IsManagedFields
<1> QED
  BY <1>11 DEF TypeOK, ApplyBegin, IsManagedFields

(* A round of that loop keeps the types. *)
LEMMA AddBackType ==
    ASSUME TypeOK, NEW x \in Version, AddBackOwnedItemsForVersion(x)
    PROVE  TypeOK'
<1>1. CallOK
  BY DEF TypeOK, AddBackOwnedItemsForVersion, Idle
<1>2. PICK o : /\ IsObject(o)
               /\ call' = [call EXCEPT !.pruned = o, !.todo = call.todo \ {x}]
  <2>1. \A drop : IsObject(ConvertFrom(x,
                     RemoveItems(AtomicAt(x), ConvertTo(x, call.merged), drop)))
    BY <1>1, ConvertIsObject, RemoveItemsIsObject DEF CallOK
  <2> QED
    BY <2>1, Zenon DEF AddBackOwnedItemsForVersion
<1>3. /\ DOMAIN call' = DOMAIN call
      /\ call'.pruned = o
      /\ call'.todo = call.todo \ {x}
      /\ \A f \in DOMAIN call \ {"pruned", "todo"} : call'[f] = call[f]
  BY <1>1, <1>2, Zenon DEF CallOK
<1>4. CallOK'
  BY <1>1, <1>2, <1>3 DEF CallOK, IsManagedFields
<1> QED
  BY <1>4 DEF TypeOK, AddBackOwnedItemsForVersion, IsManagedFields

(* The end of a successful Apply keeps the types. *)
LEMMA ApplySucceedsType == ASSUME TypeOK, ApplySucceeds PROVE TypeOK'
<1>1. CallOK
  BY DEF TypeOK, ApplySucceeds, ApplyReady, Idle
<1>2. IsObject(live')
  BY <1>1, PrunedIsObject DEF ApplySucceeds
<1>3. IsManagedFields(managers')
  BY <1>1, TakeOverType DEF ApplySucceeds, CallOK
<1> QED
  BY <1>2, <1>3 DEF TypeOK, ApplySucceeds, IsManagedFields, Idle

(* Every step is one of the actions. *)
LEMMA NextCases ==
    ASSUME [Next]_vars
    PROVE  \/ \E m \in Manager, v \in Version, o \in UpdateObjects : Update(m, v, o)
           \/ \E m, v : /\ <<m, v>> \in Applies
                        /\ \E c \in ApplyConfigs, force \in BOOLEAN :
                             ApplyBegin(m, v, c, force)
           \/ \E x \in Version : AddBackOwnedItemsForVersion(x)
           \/ ApplyFails
           \/ ApplySucceeds
           \/ \E at \in Schemas : ChangeSchema(at)
           \/ \E v \in Version : DropVersion(v)
           \/ UNCHANGED vars
<1>1. CASE \E mv \in Updates, o \in UpdateObjects : Update(mv[1], mv[2], o)
  BY <1>1, InputAssumption
<1>2. CASE \E mv \in Applies, c \in ApplyConfigs, force \in BOOLEAN :
             ApplyBegin(mv[1], mv[2], c, force)
  <2>1. PICK mv \in Applies : \E c \in ApplyConfigs, force \in BOOLEAN :
                                ApplyBegin(mv[1], mv[2], c, force)
    BY <1>2
  <2>2. mv = <<mv[1], mv[2]>>
    BY InputAssumption
  <2> QED
    BY <2>1, <2>2
<1> QED
  BY <1>1, <1>2 DEF Next, ApplyStep

(* TypeOK for every schema, every set of managers, versions and inputs:    *)
(* Compare, Merge, RemoveItems and the conversions of merge/update.go      *)
(* never leave an ill-formed object or managed field behind.               *)
THEOREM TypeCorrect == Spec => []TypeOK
<1>1. Init => TypeOK
  BY EmptyIsObject DEF Init, TypeOK, IsManagedFields
<1>2. TypeOK /\ [Next]_vars => TypeOK'
  <2> SUFFICES ASSUME TypeOK, [Next]_vars PROVE TypeOK'
    OBVIOUS
  <2>1. CASE \E m \in Manager, v \in Version, o \in UpdateObjects : Update(m, v, o)
    BY <2>1, UpdateType
  <2>2. CASE \E m, v : /\ <<m, v>> \in Applies
                       /\ \E c \in ApplyConfigs, force \in BOOLEAN :
                            ApplyBegin(m, v, c, force)
    BY <2>2, ApplyBeginType
  <2>3. CASE \E x \in Version : AddBackOwnedItemsForVersion(x)
    BY <2>3, AddBackType
  <2>4. CASE ApplyFails
    BY <2>4 DEF ApplyFails, TypeOK, IsManagedFields, Idle
  <2>5. CASE ApplySucceeds
    BY <2>5, ApplySucceedsType
  <2>6. CASE \E at \in Schemas : ChangeSchema(at)
    BY <2>6 DEF ChangeSchema, TypeOK, IsManagedFields, Idle
  <2>7. CASE \E v \in Version : DropVersion(v)
    BY <2>7 DEF DropVersion, TypeOK, IsManagedFields, Idle
  <2>8. CASE UNCHANGED vars
    BY <2>8 DEF vars, TypeOK, CallOK, IsManagedFields
  <2> QED
    BY <2>1, <2>2, <2>3, <2>4, <2>5, <2>6, <2>7, <2>8, NextCases, Zenon
<1> QED
  BY <1>1, <1>2, PTL DEF Spec

-----------------------------------------------------------------------------
(* Nothing in ms is below an atomic field of the schema in force. *)
Reconciled(ms) ==
    \A m \in DOMAIN ms : \A p \in ms[m].set : Above[p] \cap AtomicAt(ms[m].version) = {}

(* The managed fields that an Apply works on: reconciled with the schema,  *)
(* and for the other managers those that the caller still has.             *)
InFlight ==
    call # Idle =>
      /\ OwnsNoneIgnored(call.managers)
      /\ Reconciled(call.managers)
      /\ \A m \in DOMAIN call.managers \ {call.manager} :
            /\ m \in DOMAIN managers
            /\ call.managers[m].version = managers[m].version

(* The inductive invariant. *)
OwnershipInv ==
    /\ TypeOK
    /\ NoEmptyManagedSets
    /\ IgnoredNeverOwned
    /\ NoMissingVersionInApply
    /\ InFlight

(* Reconciliation invents nothing: it makes no ignored path owned and      *)
(* leaves no member inside an atomic field.                                *)
LEMMA ReconcileSetFacts ==
    ASSUME NEW at, at \subseteq Path, NEW S, S \subseteq Path,
           NEW I, \A p \in S : UpTo(p) \cap I = {}
    PROVE  LET R == ReconcileFieldSetWithSchema(at, S)
           IN  /\ \A p \in R : Above[p] \cap at = {}
               /\ \A p \in R : UpTo(p) \cap I = {}
               /\ S # {} => R # {}
<1> DEFINE roots == {a \in Visible(at, at) : \E s \in S : a \in Above[s]}
           R     == ReconcileFieldSetWithSchema(at, S)
<1>1. R = RecursiveDifference(S, roots) \cup roots
  BY DEF ReconcileFieldSetWithSchema, NowAtomic
<1>2. ASSUME NEW p \in roots
      PROVE  Above[p] \cap at = {} /\ UpTo(p) \cap I = {}
  BY PathAssumption DEF Visible, UpTo
<1>3. ASSUME NEW p \in S, NEW a \in Above[p] \cap at
      PROVE  \E q \in roots : q \in Above[p]
  <2>1. PICK q \in Above[p] \cap at : Above[q] \cap (Above[p] \cap at) = {}
    <3> DEFINE T == Above[p] \cap at
    <3>1. p \in Path /\ T \in SUBSET Above[p] /\ T # {}
      OBVIOUS
    <3> HIDE DEF T
    <3>2. \E q \in T : Above[q] \cap T = {}
      BY <3>1, PrefixAssumption
    <3> QED
      BY <3>2 DEF T
  <2>2. Above[q] \subseteq Above[p]
    BY <2>1, PathAssumption
  <2>3. q \in roots
    BY <2>1, <2>2 DEF Visible
  <2> QED
    BY <2>1, <2>3
<1>4. ASSUME NEW p \in RecursiveDifference(S, roots)
      PROVE  Above[p] \cap at = {} /\ UpTo(p) \cap I = {}
  BY <1>3 DEF RecursiveDifference, UpTo
<1>5. ASSUME S # {} PROVE R # {}
  <2>1. PICK p \in S : TRUE
    BY <1>5
  <2>2. CASE UpTo(p) \cap roots = {}
    BY <1>1, <2>1, <2>2 DEF RecursiveDifference
  <2>3. CASE UpTo(p) \cap roots # {}
    BY <1>1, <2>3, Zenon
  <2> QED
    BY <2>2, <2>3
<1> QED
  BY <1>1, <1>2, <1>4, <1>5

(* What reconcileManagedFieldsWithSchemaChanges returns. *)
LEMMA ReconciledFacts ==
    ASSUME OwnershipInv
    PROVE  LET ms == ReconcileManagedFieldsWithSchemaChanges
           IN  /\ IsManagedFields(ms)
               /\ OwnsNoneIgnored(ms)
               /\ Reconciled(ms)
               /\ \A m \in DOMAIN ms : /\ m \in DOMAIN managers
                                        /\ ms[m].version = managers[m].version
                                        /\ ms[m].version \in served
<1> DEFINE ms == ReconcileManagedFieldsWithSchemaChanges
<1>1. IsManagedFields(ms) /\ \A m \in DOMAIN ms : ms[m].version \in served
  BY ReconciledType DEF OwnershipInv
<1>2. ASSUME NEW m \in DOMAIN ms
      PROVE  /\ m \in DOMAIN managers
             /\ ms[m].version = managers[m].version
             /\ ms[m].set = ReconcileFieldSetWithSchema(
                              AtomicAt(managers[m].version), managers[m].set)
             /\ managers[m].set \subseteq Path
             /\ \A p \in managers[m].set :
                   UpTo(p) \cap Ignored[managers[m].version] = {}
  <2>1. m \in DOMAIN managers
    BY DEF ReconcileManagedFieldsWithSchemaChanges
  <2>2. managers[m] \in VersionedSet
    BY <2>1 DEF OwnershipInv, TypeOK, IsManagedFields
  <2>3. ms[m] = [managers[m] EXCEPT !.set =
          ReconcileFieldSetWithSchema(AtomicAt(managers[m].version), managers[m].set)]
    BY <2>1 DEF ReconcileManagedFieldsWithSchemaChanges
  <2>4. \A p \in managers[m].set : UpTo(p) \cap Ignored[managers[m].version] = {}
    BY <2>1 DEF OwnershipInv, IgnoredNeverOwned, OwnsNoneIgnored
  <2> QED
    BY <2>1, <2>2, <2>3, <2>4 DEF VersionedSet
<1>3. ASSUME NEW m \in DOMAIN ms, NEW p \in ms[m].set
      PROVE  /\ Above[p] \cap AtomicAt(ms[m].version) = {}
             /\ UpTo(p) \cap Ignored[ms[m].version] = {}
  <2> DEFINE at == AtomicAt(managers[m].version)
             S  == managers[m].set
             I  == Ignored[managers[m].version]
  <2>1. at \subseteq Path /\ S \subseteq Path /\ \A q \in S : UpTo(q) \cap I = {}
    BY <1>2, AtomicAtType
  <2>2. p \in ReconcileFieldSetWithSchema(at, S)
    BY <1>2
  <2>3. ms[m].version = managers[m].version
    BY <1>2
  <2> HIDE DEF at, S, I
  <2>4. Above[p] \cap at = {} /\ UpTo(p) \cap I = {}
    BY <2>1, <2>2, ReconcileSetFacts
  <2> QED
    BY <2>3, <2>4 DEF at, I
<1> QED
  BY <1>1, <1>2, <1>3 DEF OwnsNoneIgnored, Reconciled

(* The other managers keep a part of what they own, at the same version. *)
LEMMA TakeOverKeepsIgnored ==
    ASSUME NEW ms, IsManagedFields(ms), OwnsNoneIgnored(ms),
           NEW w, NEW old, NEW new
    PROVE  OwnsNoneIgnored(TakeOver(ms, w, old, new))
<1> DEFINE t == TakeOver(ms, w, old, new)
<1> SUFFICES ASSUME NEW m \in DOMAIN t, NEW p \in t[m].set
             PROVE  UpTo(p) \cap Ignored[t[m].version] = {}
  BY DEF OwnsNoneIgnored
<1>1. m \in DOMAIN ms /\ t[m].version = ms[m].version /\ p \in ms[m].set
  BY TakeOverType
<1> QED
  BY <1>1 DEF OwnsNoneIgnored

(* Update preserves the ownership invariant. *)
LEMMA UpdateOwnership ==
    ASSUME OwnershipInv, NEW m \in Manager, NEW v \in Version,
           NEW o \in UpdateObjects, Update(m, v, o)
    PROVE  NoEmptyManagedSets' /\ IgnoredNeverOwned'
<1> DEFINE new == ConvertFrom(v, o)
           rec == ReconcileManagedFieldsWithSchemaChanges
           ms  == TakeOver(rec, m, live, new)
           set == UpdatedSet(ms, m, v, live, new)
           vs  == [set |-> set, version |-> v, applied |-> FALSE]
           all == SetManager(ms, m, vs)
<1>1. IsManagedFields(rec) /\ OwnsNoneIgnored(rec)
  BY ReconciledFacts
<1>2. IsManagedFields(ms) /\ OwnsNoneIgnored(ms)
  BY <1>1, TakeOverType, TakeOverKeepsIgnored
<1>3. \A p \in set : UpTo(p) \cap Ignored[v] = {}
  BY DEF UpdatedSet, RecursiveDifference
<1>4. vs \in VersionedSet
  BY <1>2, UpdatedSetType DEF VersionedSet
<1>5. managers' = DropEmptySets(all)
  BY DEF Update
<1>6. vs.set = set /\ vs.version = v
  OBVIOUS
<1> HIDE DEF ms, set, vs
<1>7. /\ IsManagedFields(all)
      /\ DOMAIN all = DOMAIN ms \cup {m}
      /\ all[m] = vs
      /\ \A n \in DOMAIN ms \ {m} : all[n] = ms[n]
  BY <1>2, <1>4, SetManagerType, Zenon
<1>8. OwnsNoneIgnored(all)
  BY <1>2, <1>3, <1>6, <1>7 DEF OwnsNoneIgnored
<1> HIDE DEF all
<1>9. \A n \in DOMAIN managers' : /\ n \in DOMAIN all
                                  /\ managers'[n] = all[n]
                                  /\ all[n].set # {}
  <2>1. /\ DOMAIN managers' = {n \in DOMAIN all : all[n].set # {}}
        /\ \A n \in DOMAIN managers' : managers'[n] = all[n]
    BY <1>5, <1>7, DropEmptySetsType, Zenon
  <2> QED
    BY <2>1
<1> QED
  BY <1>8, <1>9 DEF NoEmptyManagedSets, IgnoredNeverOwned, OwnsNoneIgnored

(* The start of Apply establishes what the invariant says of a call under  *)
(* way.                                                                    *)
LEMMA ApplyBeginOwnership ==
    ASSUME OwnershipInv, NEW m, NEW v, <<m, v>> \in Applies,
           NEW c \in ApplyConfigs, NEW force \in BOOLEAN,
           ApplyBegin(m, v, c, force)
    PROVE  NoMissingVersionInApply' /\ InFlight'
<1> DEFINE ms  == ReconcileManagedFieldsWithSchemaChanges
           set == RecursiveDifference(ToFieldSet(AtomicAt(v), c), Ignored[v])
           vs  == [set |-> set, version |-> v, applied |-> TRUE]
           new == SetManager(ms, m, vs)
<1>1. /\ IsManagedFields(ms)
      /\ OwnsNoneIgnored(ms)
      /\ Reconciled(ms)
      /\ \A n \in DOMAIN ms : /\ n \in DOMAIN managers
                               /\ ms[n].version = managers[n].version
                               /\ ms[n].version \in served
  BY ReconciledFacts
<1>2. /\ v \in served
      /\ call'.manager = m
      /\ call'.version = v
      /\ call'.managers = new
      /\ call'.last = IF m \in DOMAIN ms THEN ms[m] ELSE [new[m] EXCEPT !.set = {}]
  BY DEF ApplyBegin
<1>3. UNCHANGED <<live, managers, atomic, served>>
  BY DEF ApplyBegin
<1>4. /\ DOMAIN new = DOMAIN ms \cup {m}
      /\ new[m].set = set
      /\ new[m].version = v
      /\ \A n \in DOMAIN ms \ {m} : new[n] = ms[n]
  BY DEF SetManager
<1>5. call'.last.version \in served
  BY <1>1, <1>2 DEF SetManager
<1>6. \A p \in set : UpTo(p) \cap Ignored[v] = {} /\ Above[p] \cap AtomicAt(v) = {}
  BY DEF RecursiveDifference, ToFieldSet, Visible
<1> HIDE DEF new, ms, set
<1>7. \A n \in DOMAIN new :
         /\ new[n].version \in served
         /\ n # m => n \in DOMAIN managers /\ new[n].version = managers[n].version
         /\ \A p \in new[n].set : /\ UpTo(p) \cap Ignored[new[n].version] = {}
                                  /\ Above[p] \cap AtomicAt(new[n].version) = {}
  BY <1>1, <1>2, <1>4, <1>6 DEF OwnsNoneIgnored, Reconciled
<1> QED
  BY <1>2, <1>3, <1>5, <1>7
     DEF NoMissingVersionInApply, InFlight, OwnsNoneIgnored, Reconciled, AtomicAt

(* What a successful Apply records satisfies the invariant. *)
LEMMA ApplySucceedsOwnership ==
    ASSUME OwnershipInv, ApplySucceeds
    PROVE  NoEmptyManagedSets' /\ IgnoredNeverOwned'
<1>1. call # Idle /\ CallOK
  BY DEF ApplySucceeds, ApplyReady, Idle, OwnershipInv, TypeOK
<1>2. IsManagedFields(call.managers) /\ OwnsNoneIgnored(call.managers)
  BY <1>1 DEF CallOK, OwnershipInv, InFlight
<1>3. managers' = TakeOver(call.managers, call.manager, live, Pruned)
  BY DEF ApplySucceeds
<1>4. IgnoredNeverOwned'
  BY <1>2, <1>3, TakeOverKeepsIgnored DEF IgnoredNeverOwned, OwnsNoneIgnored
<1>5. NoEmptyManagedSets'
  BY <1>2, <1>3, TakeOverType DEF NoEmptyManagedSets
<1> QED
  BY <1>4, <1>5

(* A round of addBackOwnedItems leaves ownership as it is. *)
LEMMA AddBackOwnership ==
    ASSUME OwnershipInv, NEW x \in Version, AddBackOwnedItemsForVersion(x)
    PROVE  NoMissingVersionInApply' /\ InFlight'
<1>1. call # Idle /\ CallOK
  BY DEF AddBackOwnedItemsForVersion, Idle, OwnershipInv, TypeOK
<1>2. /\ call'.manager = call.manager
      /\ call'.version = call.version
      /\ call'.managers = call.managers
      /\ call'.last = call.last
      /\ UNCHANGED <<live, managers, atomic, served>>
  BY <1>1 DEF AddBackOwnedItemsForVersion, CallOK
<1> QED
  BY <1>1, <1>2
     DEF OwnershipInv, NoMissingVersionInApply, InFlight, OwnsNoneIgnored,
         Reconciled, AtomicAt

(* The ownership invariant is inductive. *)
LEMMA OwnershipInvInductive == Spec => []OwnershipInv
<1>1. Init => NoEmptyManagedSets /\ IgnoredNeverOwned /\ NoMissingVersionInApply /\ InFlight
  BY DEF Init, NoEmptyManagedSets, IgnoredNeverOwned, OwnsNoneIgnored,
         NoMissingVersionInApply, InFlight
<1>2. TypeOK' /\ OwnershipInv /\ [Next]_vars => OwnershipInv'
  <2> SUFFICES ASSUME OwnershipInv, [Next]_vars
               PROVE  /\ NoEmptyManagedSets' /\ IgnoredNeverOwned'
                      /\ NoMissingVersionInApply' /\ InFlight'
    BY DEF OwnershipInv
  <2>1. CASE \E m \in Manager, v \in Version, o \in UpdateObjects : Update(m, v, o)
    <3>1. call' = Idle
      BY <2>1 DEF Update
    <3> QED
      BY <2>1, <3>1, UpdateOwnership DEF NoMissingVersionInApply, InFlight
  <2>2. CASE \E m, v : /\ <<m, v>> \in Applies
                       /\ \E c \in ApplyConfigs, force \in BOOLEAN :
                            ApplyBegin(m, v, c, force)
    <3>1. UNCHANGED managers
      BY <2>2 DEF ApplyBegin
    <3> QED
      BY <2>2, <3>1, ApplyBeginOwnership
         DEF OwnershipInv, NoEmptyManagedSets, IgnoredNeverOwned, OwnsNoneIgnored
  <2>3. CASE \E x \in Version : AddBackOwnedItemsForVersion(x)
    <3>1. UNCHANGED managers
      BY <2>3 DEF AddBackOwnedItemsForVersion
    <3> QED
      BY <2>3, <3>1, AddBackOwnership
         DEF OwnershipInv, NoEmptyManagedSets, IgnoredNeverOwned, OwnsNoneIgnored
  <2>4. CASE ApplySucceeds
    <3>1. call' = Idle
      BY <2>4 DEF ApplySucceeds
    <3> QED
      BY <2>4, <3>1, ApplySucceedsOwnership DEF NoMissingVersionInApply, InFlight
  <2>5. CASE call' = Idle /\ UNCHANGED managers
    BY <2>5 DEF OwnershipInv, NoEmptyManagedSets, IgnoredNeverOwned,
                OwnsNoneIgnored, NoMissingVersionInApply, InFlight
  <2>6. CASE UNCHANGED vars
    BY <2>6 DEF vars, OwnershipInv, NoEmptyManagedSets, IgnoredNeverOwned,
                OwnsNoneIgnored, NoMissingVersionInApply, InFlight, Reconciled, AtomicAt
  <2> QED
    BY <2>1, <2>2, <2>3, <2>4, <2>5, <2>6, NextCases
       DEF ApplyFails, ChangeSchema, DropVersion
<1> QED
  BY <1>1, <1>2, TypeCorrect, PTL DEF Spec, OwnershipInv

(* No empty set is recorded, for every schema and every sequence of calls. *)
THEOREM ManagedSetsNotEmpty == Spec => []NoEmptyManagedSets
<1>1. OwnershipInv => NoEmptyManagedSets
  BY DEF OwnershipInv
<1> QED
  BY <1>1, OwnershipInvInductive, PTL

(* IgnoredFields are never owned.  The invariant also speaks of the        *)
(* managed fields inside an Apply, which become the caller's.              *)
THEOREM IgnoredFieldsNeverOwned == Spec => []IgnoredNeverOwned
<1>1. OwnershipInv => IgnoredNeverOwned
  BY DEF OwnershipInv
<1> QED
  BY <1>1, OwnershipInvInductive, PTL

(* The missing-version branches inside Apply cannot be reached, because    *)
(* reconcileManagedFieldsWithSchemaChanges has dropped such managers.      *)
THEOREM VersionsServedInApply == Spec => []NoMissingVersionInApply
<1>1. OwnershipInv => NoMissingVersionInApply
  BY DEF OwnershipInv
<1> QED
  BY <1>1, OwnershipInvInductive, PTL

-----------------------------------------------------------------------------

(* Converting to a version what was converted from it. *)
LEMMA ConvertRoundTrip ==
    ASSUME NEW v \in Version, NEW o, DOMAIN o \subseteq Path
    PROVE  DOMAIN ConvertTo(v, ConvertFrom(v, o)) = DOMAIN o
<1>1. DOMAIN ConvertFrom(v, o) = {q \in Path : FromBase[v][q] \in DOMAIN o}
  BY DEF ConvertFrom
<1>2. \A b : DOMAIN ConvertTo(v, b) = {q \in Path : ToBase[v][q] \in DOMAIN b}
  BY DEF ConvertTo
<1>3. \A q \in Path : ToBase[v][q] \in Path /\ FromBase[v][ToBase[v][q]] = q
  BY VersionAssumption
<1>4. \A q \in Path : q \in DOMAIN ConvertTo(v, ConvertFrom(v, o)) <=> q \in DOMAIN o
  BY <1>1, <1>2, <1>3
<1>5. DOMAIN ConvertTo(v, ConvertFrom(v, o)) \subseteq Path
  BY <1>2
<1> QED
  BY <1>4, <1>5

(* The sets that prune removes have no member inside an atomic field. *)
LEMMA FieldSetsAreVisible ==
    ASSUME NEW at, NEW o, IsObject(o),
           NEW p \in EnsureNamedFieldsAreMembers(ToFieldSet(at, o))
    PROVE  Above[p] \cap at = {}
<1>1. \A q \in ToFieldSet(at, o) : q \in Path /\ Above[q] \cap at = {}
  BY DEF ToFieldSet, Visible, IsObject
<1> QED
  BY <1>1, PathAssumption DEF EnsureNamedFieldsAreMembers

(* The topmost fields that an Apply removes are fields that its manager    *)
(* applied last, or named fields around them: RemoveItems goes into no     *)
(* atomic field here, so it removes nothing but the members of its set and *)
(* what is below them.                                                     *)
LEMMA PruneRemoves == ASSUME TypeOK PROVE RootsWereApplied
<1> DEFINE w      == call.last.version
           at     == AtomicAt(w)
           merged == ConvertTo(w, call.merged)
           last   == EnsureNamedFieldsAreMembers(call.last.set)
           gone   == DOMAIN merged \ DOMAIN ConvertTo(w, live')
           drop   == (EnsureNamedFieldsAreMembers(ToFieldSet(at, merged))
                        \ EnsureNamedFieldsAreMembers(
                             ToFieldSet(at, ConvertTo(w, call.pruned)))) \cap last
           rest   == RemoveItems(at, merged, drop)
<1> SUFFICES ASSUME ApplySucceeds, NEW p \in gone, Above[p] \cap gone = {}
             PROVE  p \in last
  BY DEF RootsWereApplied
<1>1. CallOK
  BY DEF ApplySucceeds, ApplyReady, Idle, TypeOK
<1>2. w \in Version /\ IsObject(merged)
  BY <1>1, ConvertIsObject DEF CallOK, VersionedSet
<1>3. live' = Pruned
  BY DEF ApplySucceeds
<1>4. CASE call.last.set = {}
  BY <1>3, <1>4 DEF Pruned
<1>5. CASE call.last.set # {}
  <2>1. live' = ConvertFrom(w, rest)
    BY <1>3, <1>5 DEF Pruned
  <2>2. DOMAIN rest \subseteq Path
    BY <1>2, RemoveItemsIsObject DEF IsObject
  <2>3. gone = DOMAIN merged \ DOMAIN rest
    BY <1>2, <2>1, <2>2, ConvertRoundTrip, Zenon
  <2>4. \A s \in drop : s \in last /\ Above[s] \cap at = {}
    BY <1>2, FieldSetsAreVisible
  <2>5. Above[p] \subseteq DOMAIN merged
    BY <1>2 DEF IsObject
  <2> HIDE DEF merged, drop, last, at
  <2>6. UpTo(p) \cap drop # {} \/ \E a \in Above[p] \cap at, s \in drop : a \in Above[s]
    BY <2>3 DEF RemoveItems
  <2>7. PICK s \in UpTo(p) : s \in drop
    BY <2>4, <2>6
  <2>8. s \notin DOMAIN rest
    BY <2>7 DEF RemoveItems, UpTo
  <2>9. s \notin Above[p]
    BY <2>3, <2>5, <2>8
  <2> QED
    BY <2>4, <2>7, <2>9 DEF UpTo
<1> QED
  BY <1>4, <1>5

(* Whatever versions the other managers are at, and in whatever order they *)
(* are visited, what Apply removes is, at its top, something its manager   *)
(* applied last or a named field on the way to it.                         *)
THEOREM PruneSparesTheRest == Spec => RemovedRootsWereApplied
<1>1. TypeOK => [RootsWereApplied]_vars
  BY PruneRemoves
<1> QED
  BY <1>1, TypeCorrect, PTL DEF RemovedRootsWereApplied

-----------------------------------------------------------------------------
(* A visible path that is not in the field set of an object has a visible  *)
(* path below it in the object.                                            *)
LEMMA Deeper ==
    ASSUME NEW at, NEW o, IsObject(o), NoEmptyLists(o),
           NEW p \in Visible(at, DOMAIN o), p \notin ToFieldSet(at, o)
    PROVE  \E q \in Visible(at, DOMAIN o) : p \in Above[q]
<1>1. p \in Path /\ p \in DOMAIN o /\ Above[p] \cap at = {}
  BY DEF Visible, IsObject
<1>2. p \notin at /\ Kind[p] # "scalar" /\ p \in Named /\ o[p] # Null
  BY DEF ToFieldSet, IsLeaf
<1>3. o[p] = Obj
  BY <1>1, <1>2 DEF IsObject
<1>4. Kind[p] = "map" \/ Kind[p] = "list"
  BY <1>1, <1>2, PathAssumption
<1>5. Below(o, p) # {}
  BY <1>1, <1>3, <1>4 DEF ToFieldSet, NoEmptyLists
<1>6. PICK q \in DOMAIN o : p \in Above[q]
  BY <1>5 DEF Below
<1>7. q \in Path /\ Above[q] \subseteq DOMAIN o
  BY DEF IsObject
<1>8. CASE Above[q] \cap at = {}
  BY <1>6, <1>8 DEF Visible
<1>9. CASE Above[q] \cap at # {}
  <2> DEFINE T == Above[q] \cap at
  <2>1. T \in SUBSET Above[q] /\ T # {}
    BY <1>9
  <2> HIDE DEF T
  <2>2. PICK b \in T : Above[b] \cap T = {}
    BY <1>7, <2>1, PrefixAssumption
  <2>3. b \in Above[q] /\ b \in at /\ b \in Path
    BY <1>7, PathAssumption DEF T
  <2>4. Above[b] \cap at = {}
    BY <1>7, <2>2, <2>3, PathAssumption DEF T
  <2>5. p \in Above[b]
    BY <1>1, <1>2, <1>6, <1>7, <2>3, TreeAssumption
  <2> QED BY <1>7, <2>3, <2>4, <2>5 DEF Visible
<1> QED BY <1>8, <1>9

(* Without empty lists, the field set of an object, completed by named     *)
(* fields, has every path of the object outside of atomic fields.          *)
LEMMA FieldSetHasVisible ==
    ASSUME NEW at, NEW o, IsObject(o), NoEmptyLists(o), NEW p \in Visible(at, DOMAIN o)
    PROVE  p \in EnsureNamedFieldsAreMembers(ToFieldSet(at, o))
<1> DEFINE T == {q \in Visible(at, DOMAIN o) : p \in Above[q]}
<1>1. CASE p \in ToFieldSet(at, o)
  BY <1>1 DEF EnsureNamedFieldsAreMembers
<1>2. CASE p \notin ToFieldSet(at, o)
  <2>1. T # {}
    BY <1>2, Deeper
  <2>2. T \in SUBSET Path
    BY DEF Visible, IsObject
  <2>3. PICK q \in T : \A r \in T : q \notin Above[r]
    <3> HIDE DEF T
    <3> QED BY <2>1, <2>2, TreeAssumption
  <2>4. q \in ToFieldSet(at, o)
    <3> SUFFICES ASSUME q \notin ToFieldSet(at, o) PROVE FALSE
      OBVIOUS
    <3>1. PICK r \in Visible(at, DOMAIN o) : q \in Above[r]
      BY Deeper
    <3>2. r \in Path /\ q \in Path
      BY DEF Visible, IsObject
    <3>3. p \in Above[r]
      BY <3>1, <3>2, PathAssumption
    <3> QED BY <2>3, <3>1, <3>3
  <2>5. p \in Named
    BY <1>2 DEF ToFieldSet
  <2> QED BY <2>4, <2>5 DEF EnsureNamedFieldsAreMembers
<1> QED BY <1>1, <1>2

(* Removing visible paths removes them and what is below, no more. *)
LEMMA RemoveVisible ==
    ASSUME NEW at, NEW o, IsObject(o), NEW S, S \subseteq Path,
           \A s \in S : Above[s] \cap at = {}
    PROVE  \A p : p \in DOMAIN RemoveItems(at, o, S)
                    <=> p \in DOMAIN o /\ UpTo(p) \cap S = {}
BY DEF RemoveItems

(* It does not change the leaves that stay. *)
LEMMA RemoveKeepsLeaves ==
    ASSUME NEW at, NEW o, IsObject(o), NEW S, S \subseteq Path,
           \A s \in S : Above[s] \cap at = {},
           NEW p \in DOMAIN RemoveItems(at, o, S), IsLeaf(at, p)
    PROVE  SameValue(o, RemoveItems(at, o, S), p)
<1> DEFINE r == RemoveItems(at, o, S)
           walked == {q \in Path : \E s \in S : q \in Above[s]}
<1>1. p \in DOMAIN o /\ UpTo(p) \cap S = {} /\ p \in Path
  BY RemoveVisible DEF IsObject
<1>2. ASSUME NEW s \in S PROVE p \notin Above[s]
  BY PathAssumption DEF IsLeaf
<1>3. ASSUME NEW q \in Below(o, p) PROVE q \in DOMAIN r /\ q \notin walked
  <2>1. q \in Path /\ p \in Above[q] /\ q \in DOMAIN o
    BY DEF Below, IsObject
  <2>2. ASSUME NEW a \in UpTo(q), a \in S PROVE FALSE
    <3>1. a = p \/ a \in Above[p] \/ p \in Above[a]
      BY <2>1, <1>1, TreeAssumption DEF UpTo
    <3> QED BY <1>1, <1>2, <2>2, <3>1 DEF UpTo
  <2>3. q \in DOMAIN r
    BY <2>1, <2>2, RemoveVisible
  <2>4. q \notin walked
    BY <1>2, <2>1, PathAssumption
  <2> QED BY <2>3, <2>4
<1>4. \A q \in DOMAIN r : q \notin walked => r[q] = o[q]
  BY DEF RemoveItems
<1>5. p \notin walked
  BY <1>2
<1>6. DOMAIN r \subseteq DOMAIN o
  BY RemoveVisible
<1> HIDE DEF r, walked
<1>7. p \in DOMAIN r
  BY DEF r
<1>8. Below(o, p) = Below(r, p)
  BY <1>3, <1>6 DEF Below
<1>9. SameValue(o, r, p)
  BY <1>3, <1>4, <1>5, <1>7, <1>8 DEF SameValue
<1> QED BY <1>9 DEF r

(* RemoveItems leaves no empty lists, since it makes them null. *)
LEMMA RemoveLeavesNoEmptyLists ==
    ASSUME NEW at, NEW o, IsObject(o), NoEmptyLists(o), NEW S, S \subseteq Path
    PROVE  NoEmptyLists(RemoveItems(at, o, S))
<1> DEFINE walked == {q \in Path : \E s \in S : q \in Above[s]}
           r == RemoveItems(at, o, S)
<1>1. /\ DOMAIN r \subseteq DOMAIN o
      /\ \A q \in DOMAIN o : q \in DOMAIN r <=>
            UpTo(q) \cap S = {} /\ Above[q] \cap at \cap walked = {}
      /\ \A q \in DOMAIN r : r[q] = o[q] \/ r[q] = Null
      /\ \A q \in DOMAIN r :
            q \in walked /\ Kind[q] # "scalar" /\ (\A t \in DOMAIN r : q \notin Above[t])
              => r[q] = Null
  BY DEF RemoveItems
<1>2. \A q : q \in walked <=> q \in Path /\ \E s \in S : q \in Above[s]
  OBVIOUS
<1> HIDE DEF walked, r
<1>3. ASSUME NEW p \in DOMAIN r, Kind[p] = "list", r[p] = Obj, Below(r, p) = {}
      PROVE  FALSE
  <2>1. p \in DOMAIN o /\ p \in Path /\ o[p] = Obj /\ p \notin walked
    BY <1>1, <1>3 DEF IsObject, Obj, Null, Below
  <2>2. PICK q \in DOMAIN o : p \in Above[q]
    BY <1>3, <2>1 DEF NoEmptyLists, Below
  <2>3. q \in Path /\ q \notin DOMAIN r
    BY <1>3, <2>2 DEF IsObject, Below
  <2>4. PICK a \in UpTo(q) : a \in S \/ (a \in at /\ a \in walked /\ a \in Above[q])
    BY <1>1, <2>3 DEF UpTo
  <2>5. a = p \/ a \in Above[p] \/ p \in Above[a]
    BY <2>2, <2>3, TreeAssumption DEF UpTo
  <2>6. a \in Path
    BY <2>3, PathAssumption DEF UpTo
  <2>7. UpTo(p) \cap S = {} /\ Above[p] \cap at \cap walked = {}
    BY <1>1, <1>3, <2>1
  <2>8. p \in Above[a]
    BY <2>1, <2>4, <2>5, <2>7 DEF UpTo
  <2>9. p \in walked
    <3>1. CASE a \in S
      BY <1>2, <2>1, <2>8, <3>1
    <3>2. CASE a \in walked
      <4>1. PICK s \in S : a \in Above[s]
        BY <1>2, <3>2
      <4>2. p \in Above[s]
        BY <2>6, <2>8, <4>1, PathAssumption
      <4> QED BY <1>2, <2>1, <4>2
    <3> QED BY <2>4, <3>1, <3>2
  <2> QED BY <2>1, <2>9
<1> QED BY <1>3 DEF NoEmptyLists, r

(* Merging objects without empty lists makes none. *)
LEMMA MergeMakesNoEmptyLists ==
    ASSUME NEW at, NEW l, IsObject(l), NoEmptyLists(l),
           NEW r, IsObject(r), NoEmptyLists(r)
    PROVE  NoEmptyLists(Merge(at, l, r))
<1> DEFINE m == Merge(at, l, r)
<1>1. /\ DOMAIN m = Kept(at, l, r) \cup DOMAIN r
      /\ \A p \in DOMAIN m : p \notin DOMAIN r => m[p] = l[p]
      /\ \A p \in DOMAIN r : m[p] = r[p] \/ \E q \in DOMAIN m : p \in Above[q]
  BY DEF Merge
<1> HIDE DEF m
<1>2. ASSUME NEW p \in DOMAIN m, Kind[p] = "list", m[p] = Obj, Below(m, p) = {}
      PROVE  FALSE
  <2>1. p \notin DOMAIN r
    BY <1>1, <1>2 DEF NoEmptyLists, Below
  <2>2. p \in DOMAIN l /\ l[p] = Obj /\ Above[p] \cap at \cap DOMAIN r = {}
    BY <1>1, <1>2, <2>1 DEF Kept
  <2>3. PICK q \in DOMAIN l : p \in Above[q]
    BY <1>2, <2>2 DEF NoEmptyLists, Below
  <2>4. p \in Path /\ q \in Path
    BY <2>2 DEF IsObject
  <2>5. ASSUME NEW a \in Above[q], a \in at, a \in DOMAIN r PROVE FALSE
    <3>1. a = p \/ a \in Above[p] \/ p \in Above[a]
      BY <2>3, <2>4, TreeAssumption
    <3>2. p \notin Above[a]
      BY <2>1, <2>5 DEF IsObject
    <3> QED BY <2>1, <2>2, <2>5, <3>1, <3>2
  <2>6. q \in DOMAIN m
    BY <1>1, <2>3, <2>5 DEF Kept
  <2> QED BY <1>2, <2>3, <2>6 DEF Below
<1> QED BY <1>2 DEF NoEmptyLists, m

(* The configuration wins over the object on the leaves that it has. *)
LEMMA MergeHoldsConfig ==
    ASSUME NEW at, NEW l, IsObject(l), NEW c, IsObject(c), NEW p \in DOMAIN c
    PROVE  /\ p \in DOMAIN Merge(at, l, c)
           /\ IsLeaf(at, p) => SameValue(c, Merge(at, l, c), p)
<1> DEFINE m == Merge(at, l, c)
<1>1. /\ DOMAIN m = Kept(at, l, c) \cup DOMAIN c
      /\ \A q \in DOMAIN c : m[q] = IF \E r \in DOMAIN m : q \in Above[r] THEN Obj ELSE c[q]
  BY DEF Merge
<1> HIDE DEF m
<1>2. ASSUME IsLeaf(at, p) PROVE SameValue(c, m, p)
  <2>1. ASSUME NEW q \in DOMAIN m, p \in Above[q] PROVE q \in DOMAIN c
    <3>1. q \in Path
      BY <1>1 DEF Kept, IsObject
    <3>2. p \in at
      BY <1>2, <2>1, <3>1, PathAssumption DEF IsLeaf
    <3> QED BY <1>1, <2>1, <3>2 DEF Kept
  <2>2. DOMAIN c \subseteq DOMAIN m
    BY <1>1
  <2>3. Below(c, p) = Below(m, p)
    BY <2>1, <2>2 DEF Below
  <2>4. ASSUME NEW q \in DOMAIN c, q = p \/ p \in Above[q] PROVE m[q] = c[q]
    <3>1. CASE \E r \in DOMAIN m : q \in Above[r]
      <4>1. PICK r \in DOMAIN m : q \in Above[r]
        BY <3>1
      <4>2. r \in Path
        BY <1>1 DEF Kept, IsObject
      <4>3. p \in Above[r]
        BY <2>4, <4>1, <4>2, PathAssumption
      <4>4. r \in DOMAIN c
        BY <2>1, <4>3
      <4>5. c[q] = Obj
        BY <4>1, <4>4 DEF IsObject, Below
      <4> QED BY <1>1, <3>1, <4>5
    <3>2. CASE ~ \E r \in DOMAIN m : q \in Above[r]
      BY <1>1, <3>2
    <3> QED BY <3>1, <3>2
  <2> QED BY <2>3, <2>4 DEF SameValue, Below
<1> QED BY <1>1, <1>2 DEF m
==============================================================================
