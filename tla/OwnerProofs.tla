----------------------------- MODULE OwnerProofs -----------------------------
(***************************************************************************)
(* What the calls of Updater do to fields that somebody owns, for every    *)
(* tree of paths, every number of managers and versions and every order in *)
(* which addBackOwnedItems visits the versions: what a manager applied is  *)
(* in the object when its Apply has succeeded, a changed field changes its *)
(* owner, an Apply without force takes nothing, and what is owned is in    *)
(* the object.  The first and the last hold of objects without empty lists *)
(* only, and the last if an updater keeps to its version.  The first       *)
(* lemmas say what converting, and a step of addBackOwnedItems, do to such *)
(* objects.                                                                *)
(***************************************************************************)
EXTENDS UpdaterProofs

(* Versions rename paths one to one and keep the tree. *)
LEMMA Renaming ==
    ASSUME NEW v \in Version
    PROVE  /\ \A p \in Path :
                /\ ToBase[v][p] \in Path /\ FromBase[v][p] \in Path
                /\ FromBase[v][ToBase[v][p]] = p /\ ToBase[v][FromBase[v][p]] = p
                /\ Kind[ToBase[v][p]] = Kind[p] /\ Kind[FromBase[v][p]] = Kind[p]
           /\ \A p, q \in Path :
                /\ ToBase[v][q] \in Above[ToBase[v][p]] <=> q \in Above[p]
                /\ FromBase[v][q] \in Above[FromBase[v][p]] <=> q \in Above[p]
<1>1. \A p \in Path :
         /\ ToBase[v][p] \in Path /\ FromBase[v][p] \in Path
         /\ FromBase[v][ToBase[v][p]] = p /\ ToBase[v][FromBase[v][p]] = p
         /\ Kind[ToBase[v][p]] = Kind[p]
  BY VersionAssumption
<1>2. \A p, q \in Path : ToBase[v][q] \in Above[ToBase[v][p]] <=> q \in Above[p]
  BY VersionAssumption
<1>3. \A p, q \in Path : FromBase[v][q] \in Above[FromBase[v][p]] <=> q \in Above[p]
  BY <1>1, <1>2
<1>4. \A p \in Path : Kind[FromBase[v][p]] = Kind[p]
  BY <1>1
<1> QED BY <1>1, <1>2, <1>3, <1>4

(* What converted objects contain. *)
LEMMA ConvertMembers ==
    ASSUME NEW v \in Version, NEW o
    PROVE  /\ DOMAIN ConvertTo(v, o) \subseteq Path
           /\ DOMAIN ConvertFrom(v, o) \subseteq Path
           /\ \A p \in Path :
                /\ p \in DOMAIN ConvertTo(v, o) <=> ToBase[v][p] \in DOMAIN o
                /\ p \in DOMAIN ConvertFrom(v, o) <=> FromBase[v][p] \in DOMAIN o
           /\ \A p \in DOMAIN ConvertTo(v, o) : ConvertTo(v, o)[p] = o[ToBase[v][p]]
           /\ \A p \in DOMAIN ConvertFrom(v, o) : ConvertFrom(v, o)[p] = o[FromBase[v][p]]
BY DEF ConvertTo, ConvertFrom

(* Conversion makes no empty lists. *)
LEMMA ConvertMakesNoEmptyLists ==
    ASSUME NEW v \in Version, NEW o, IsObject(o), NoEmptyLists(o)
    PROVE  NoEmptyLists(ConvertTo(v, o)) /\ NoEmptyLists(ConvertFrom(v, o))
<1>1. DOMAIN o \subseteq Path
  BY DEF IsObject
<1>2. ASSUME NEW p \in DOMAIN ConvertTo(v, o), Kind[p] = "list", ConvertTo(v, o)[p] = Obj
      PROVE  Below(ConvertTo(v, o), p) # {}
  <2>1. p \in Path /\ ToBase[v][p] \in DOMAIN o /\ o[ToBase[v][p]] = Obj
    BY <1>2, ConvertMembers
  <2>2. PICK q \in DOMAIN o : ToBase[v][p] \in Above[q]
    BY <1>2, <2>1, Renaming DEF NoEmptyLists, Below
  <2>3. FromBase[v][q] \in DOMAIN ConvertTo(v, o) /\ p \in Above[FromBase[v][q]]
    <3>1. q \in Path
      BY <1>1
    <3>2. FromBase[v][q] \in Path /\ ToBase[v][FromBase[v][q]] = q
      BY <3>1, Renaming
    <3> QED BY <2>1, <2>2, <3>2, Renaming, ConvertMembers
  <2> QED BY <2>3 DEF Below
<1>3. ASSUME NEW p \in DOMAIN ConvertFrom(v, o), Kind[p] = "list", ConvertFrom(v, o)[p] = Obj
      PROVE  Below(ConvertFrom(v, o), p) # {}
  <2>1. p \in Path /\ FromBase[v][p] \in DOMAIN o /\ o[FromBase[v][p]] = Obj
    BY <1>3, ConvertMembers
  <2>2. PICK q \in DOMAIN o : FromBase[v][p] \in Above[q]
    BY <1>3, <2>1, Renaming DEF NoEmptyLists, Below
  <2>3. ToBase[v][q] \in DOMAIN ConvertFrom(v, o) /\ p \in Above[ToBase[v][q]]
    <3>1. q \in Path
      BY <1>1
    <3>2. ToBase[v][q] \in Path /\ FromBase[v][ToBase[v][q]] = q
      BY <3>1, Renaming
    <3> QED BY <2>1, <2>2, <3>2, Renaming, ConvertMembers
  <2> QED BY <2>3 DEF Below
<1> QED BY <1>2, <1>3 DEF NoEmptyLists

(* What is atomic, or inside an atomic field, is so at every version. *)
LEMMA SameAtomic ==
    ASSUME NEW v \in Version, NEW p \in Path
    PROVE  /\ Above[p] \cap AtomicAt(v) = {} <=> Above[ToBase[v][p]] \cap atomic = {}
           /\ IsLeaf(AtomicAt(v), p) <=> IsLeaf(atomic, ToBase[v][p])
<1>1. \A a \in Path : a \in AtomicAt(v) <=> ToBase[v][a] \in atomic
  BY DEF AtomicAt
<1>2. IsLeaf(AtomicAt(v), p) <=> IsLeaf(atomic, ToBase[v][p])
  BY <1>1, Renaming DEF IsLeaf
<1>3. Above[p] \subseteq Path /\ Above[ToBase[v][p]] \subseteq Path
  BY Renaming, PathAssumption
<1>4. ASSUME NEW a \in Above[p], a \in AtomicAt(v)
      PROVE  Above[ToBase[v][p]] \cap atomic # {}
  BY <1>1, <1>3, <1>4, Renaming
<1>5. ASSUME NEW b \in Above[ToBase[v][p]], b \in atomic
      PROVE  Above[p] \cap AtomicAt(v) # {}
  <2>1. FromBase[v][b] \in Path /\ ToBase[v][FromBase[v][b]] = b
    BY <1>3, Renaming
  <2>2. FromBase[v][b] \in Above[p]
    BY <2>1, Renaming
  <2> QED BY <1>1, <1>5, <2>1, <2>2
<1> QED BY <1>2, <1>4, <1>5

(* The set drop has paths of the field set that the object M has at        *)
(* version x, and none of that which the object P has.                     *)
OfFirstOnly(x, M, P, drop) ==
    \A s \in drop :
       /\ s \in EnsureNamedFieldsAreMembers(ToFieldSet(AtomicAt(x), ConvertTo(x, M)))
       /\ s \notin EnsureNamedFieldsAreMembers(ToFieldSet(AtomicAt(x), ConvertTo(x, P)))

(* The object new is M without drop, still has P, and its leaves are M's. *)
Without(x, M, P, drop, new) ==
    /\ IsObject(new) /\ NoEmptyLists(new)
    /\ DOMAIN new \subseteq DOMAIN M
    /\ DOMAIN P \subseteq DOMAIN new
    /\ \A b \in DOMAIN M : b \in DOMAIN new <=> UpTo(FromBase[x][b]) \cap drop = {}
    /\ \A b \in DOMAIN new : IsLeaf(atomic, b) => SameValue(M, new, b)

(* What a step of prune does that removes from the merged object, at some  *)
(* version, paths that it found in its field set and did not find in that  *)
(* of the object pruned so far: it keeps all of the latter, and its leaves *)
(* are those of the merged object.                                         *)
LEMMA PruneStep ==
    ASSUME NEW x \in Version,
           NEW M, IsObject(M), NoEmptyLists(M), NEW P, IsObject(P), NoEmptyLists(P),
           DOMAIN P \subseteq DOMAIN M,
           NEW drop, OfFirstOnly(x, M, P, drop), NEW new,
           new = ConvertFrom(x, RemoveItems(AtomicAt(x), ConvertTo(x, M), drop))
    PROVE  Without(x, M, P, drop, new)
<1> DEFINE at == AtomicAt(x)
           m  == ConvertTo(x, M)
           p  == ConvertTo(x, P)
           r  == RemoveItems(at, m, drop)
<1>1. IsObject(m) /\ IsObject(p) /\ NoEmptyLists(m) /\ NoEmptyLists(p)
  BY ConvertIsObject, ConvertMakesNoEmptyLists
<1>2. drop \subseteq Path /\ \A s \in drop : Above[s] \cap at = {}
  <2>1. \A s \in ToFieldSet(at, m) : s \in Path
    BY <1>1 DEF ToFieldSet, Visible, IsObject
  <2>2. \A s \in EnsureNamedFieldsAreMembers(ToFieldSet(at, m)) : s \in Path
    BY <2>1, PathAssumption DEF EnsureNamedFieldsAreMembers
  <2> QED BY <1>1, <2>2, FieldSetsAreVisible DEF OfFirstOnly
<1>3. IsObject(r) /\ NoEmptyLists(r)
  BY <1>1, <1>2, RemoveItemsIsObject, RemoveLeavesNoEmptyLists
<1>4. IsObject(new) /\ NoEmptyLists(new)
  BY <1>3, ConvertIsObject, ConvertMakesNoEmptyLists
<1>5. \A q : q \in DOMAIN r <=> q \in DOMAIN m /\ UpTo(q) \cap drop = {}
  BY <1>1, <1>2, RemoveVisible
<1>6. ASSUME NEW q \in DOMAIN r, IsLeaf(at, q) PROVE SameValue(m, r, q)
  BY <1>1, <1>2, <1>6, RemoveKeepsLeaves
<1>7. /\ DOMAIN new \subseteq Path /\ DOMAIN M \subseteq Path /\ DOMAIN P \subseteq Path
      /\ \A b \in Path : b \in DOMAIN new <=> FromBase[x][b] \in DOMAIN r
      /\ \A b \in DOMAIN new : new[b] = r[FromBase[x][b]]
  BY ConvertMembers DEF IsObject
<1>8. \A b \in Path : /\ b \in DOMAIN M <=> FromBase[x][b] \in DOMAIN m
                      /\ b \in DOMAIN P <=> FromBase[x][b] \in DOMAIN p
                      /\ b \in DOMAIN M => m[FromBase[x][b]] = M[b]
  <2> SUFFICES ASSUME NEW b \in Path
               PROVE  /\ b \in DOMAIN M <=> FromBase[x][b] \in DOMAIN m
                      /\ b \in DOMAIN P <=> FromBase[x][b] \in DOMAIN p
                      /\ b \in DOMAIN M => m[FromBase[x][b]] = M[b]
    OBVIOUS
  <2>1. FromBase[x][b] \in Path /\ ToBase[x][FromBase[x][b]] = b
    BY Renaming
  <2>2. /\ \A q \in Path : q \in DOMAIN m <=> ToBase[x][q] \in DOMAIN M
        /\ \A q \in Path : q \in DOMAIN p <=> ToBase[x][q] \in DOMAIN P
        /\ \A q \in DOMAIN m : m[q] = M[ToBase[x][q]]
    BY ConvertMembers
  <2> HIDE DEF m, p
  <2> QED BY <2>1, <2>2
<1>9. \A q \in drop : q \notin DOMAIN p
  BY <1>1, <1>2, FieldSetHasVisible DEF Visible, OfFirstOnly
<1> HIDE DEF at, m, p, r
<1>10. DOMAIN new \subseteq DOMAIN M
  BY <1>5, <1>7, <1>8
<1>11. \A b \in DOMAIN M : b \in DOMAIN new <=> UpTo(FromBase[x][b]) \cap drop = {}
  BY <1>5, <1>7, <1>8
<1>12. DOMAIN P \subseteq DOMAIN new
  <2> SUFFICES ASSUME NEW b \in DOMAIN P PROVE b \in DOMAIN new
    OBVIOUS
  <2>1. FromBase[x][b] \in DOMAIN p
    BY <1>7, <1>8
  <2>2. UpTo(FromBase[x][b]) \subseteq DOMAIN p
    BY <1>1, <2>1 DEF UpTo, IsObject
  <2>3. UpTo(FromBase[x][b]) \cap drop = {}
    BY <1>9, <2>2
  <2> QED BY <1>11, <2>3
<1>13. ASSUME NEW b \in DOMAIN new, IsLeaf(atomic, b) PROVE SameValue(M, new, b)
  <2> DEFINE q == FromBase[x][b]
  <2>1. q \in Path /\ q \in DOMAIN r /\ ToBase[x][q] = b /\ b \in Path
    BY <1>7, Renaming
  <2>2. IsLeaf(at, q)
    BY <1>13, <2>1, SameAtomic DEF at
  <2>3. SameValue(m, r, q)
    BY <1>6, <2>1, <2>2
  <2>4. \A d \in Path : q \in Above[FromBase[x][d]] <=> b \in Above[d]
    BY <2>1, Renaming
  <2>5. \A d \in Path : FromBase[x][d] \in Below(m, q) <=> d \in Below(M, b)
    BY <1>8, <2>4 DEF Below
  <2>6. \A d \in Path : FromBase[x][d] \in Below(r, q) <=> d \in Below(new, b)
    BY <1>7, <2>4 DEF Below
  <2>7. Below(M, b) \subseteq Path /\ Below(new, b) \subseteq Path
    BY <1>7 DEF Below
  <2>8. Below(M, b) = Below(new, b)
    BY <2>3, <2>5, <2>6, <2>7 DEF SameValue
  <2>9. new[b] = M[b]
    BY <1>7, <1>8, <1>10, <2>3 DEF SameValue
  <2>10. ASSUME NEW d \in Below(M, b) PROVE M[d] = new[d]
    <3>1. d \in Path /\ d \in DOMAIN M /\ d \in DOMAIN new
      BY <2>7, <2>8 DEF Below
    <3>2. m[FromBase[x][d]] = r[FromBase[x][d]]
      BY <2>3, <2>5, <3>1 DEF SameValue
    <3> QED BY <1>7, <1>8, <3>1, <3>2
  <2> QED BY <2>8, <2>9, <2>10 DEF SameValue
<1> QED BY <1>4, <1>10, <1>11, <1>12, <1>13 DEF Without

-----------------------------------------------------------------------------
(* Converting from a version and back changes nothing. *)
LEMMA RoundTrip ==
    ASSUME NEW v \in Version, NEW o, IsObject(o)
    PROVE  ConvertTo(v, ConvertFrom(v, o)) = o
<1> DEFINE r == ConvertTo(v, ConvertFrom(v, o))
<1>1. DOMAIN r = DOMAIN o
  BY ConvertRoundTrip DEF IsObject
<1>2. ASSUME NEW p \in DOMAIN o PROVE r[p] = o[p]
  <2>1. p \in Path /\ p \in DOMAIN r
    BY <1>1 DEF IsObject
  <2>2. ToBase[v][p] \in DOMAIN ConvertFrom(v, o) /\ r[p] = ConvertFrom(v, o)[ToBase[v][p]]
    BY <2>1, ConvertMembers
  <2> QED BY <2>1, <2>2, ConvertMembers, Renaming
<1>3. r = [p \in DOMAIN r |-> r[p]] /\ o = [p \in DOMAIN o |-> o[p]]
  BY DEF ConvertTo, IsObject
<1> HIDE DEF r
<1>4. r = o
  BY <1>1, <1>2, <1>3
<1> QED BY <1>4 DEF r

(* Values that are the same under their stored names are so at a version. *)
LEMMA ConvertSameValue ==
    ASSUME NEW v \in Version, NEW l, NEW r, IsObject(l), IsObject(r),
           NEW p \in Path, ToBase[v][p] \in DOMAIN l, ToBase[v][p] \in DOMAIN r,
           SameValue(l, r, ToBase[v][p])
    PROVE  SameValue(ConvertTo(v, l), ConvertTo(v, r), p)
<1> DEFINE lv == ConvertTo(v, l)
           rv == ConvertTo(v, r)
           b  == ToBase[v][p]
<1>1. /\ \A d \in Path : d \in DOMAIN lv <=> ToBase[v][d] \in DOMAIN l
      /\ \A d \in Path : d \in DOMAIN rv <=> ToBase[v][d] \in DOMAIN r
      /\ \A d \in DOMAIN lv : lv[d] = l[ToBase[v][d]]
      /\ \A d \in DOMAIN rv : rv[d] = r[ToBase[v][d]]
      /\ DOMAIN lv \subseteq Path /\ DOMAIN rv \subseteq Path
  BY ConvertMembers
<1>2. \A d \in Path : b \in Above[ToBase[v][d]] <=> p \in Above[d]
  BY Renaming
<1> HIDE DEF lv, rv
<1>3. \A d \in Path : /\ ToBase[v][d] \in Below(l, b) <=> d \in Below(lv, p)
                      /\ ToBase[v][d] \in Below(r, b) <=> d \in Below(rv, p)
  BY <1>1, <1>2 DEF Below
<1>4. Below(lv, p) \subseteq Path /\ Below(rv, p) \subseteq Path
  BY <1>1 DEF Below
<1>5. Below(lv, p) = Below(rv, p)
  BY <1>3, <1>4 DEF SameValue
<1>6. lv[p] = rv[p]
  BY <1>1 DEF SameValue
<1>7. ASSUME NEW d \in Below(lv, p) PROVE lv[d] = rv[d]
  <2>1. d \in DOMAIN lv /\ d \in DOMAIN rv /\ d \in Path
    BY <1>4, <1>5 DEF Below
  <2>2. l[ToBase[v][d]] = r[ToBase[v][d]]
    BY <1>3, <2>1 DEF SameValue
  <2> QED BY <1>1, <2>1, <2>2, Zenon
<1>8. SameValue(lv, rv, p)
  BY <1>5, <1>6, <1>7 DEF SameValue
<1> QED BY <1>8 DEF lv, rv

-----------------------------------------------------------------------------
NoInputHasEmptyLists ==
    \A o \in UpdateObjects \cup ApplyConfigs : NoEmptyLists(o)

(* What the manager of an Apply applies, at the version of the Apply. *)
Applied == call.managers[call.manager].set

(* Object o, under its stored names, has what is applied. *)
ConfigIn(o) ==
    \A p \in Applied :
        /\ p \in DOMAIN ConvertTo(call.version, o)
        /\ IsLeaf(AtomicAt(call.version), p) =>
             SameValue(call.config, ConvertTo(call.version, o), p)

(* An Apply under way: the merged object has the configuration, the pruned *)
(* one has its paths once its version was visited.  That this does not     *)
(* change later is because nothing that the pruned object has is dropped.  *)
PruneInv ==
    /\ NoEmptyLists(call.merged) /\ NoEmptyLists(call.pruned)
    /\ DOMAIN call.pruned \subseteq DOMAIN call.merged
    /\ call.managers[call.manager].version = call.version
    /\ \A p \in Applied : Above[p] \subseteq Applied \cup Named
    /\ ConfigIn(call.merged)
    /\ call.last.set # {} /\ call.version \notin call.todo =>
         \A p \in Applied : ToBase[call.version][p] \in DOMAIN call.pruned

(* The inductive invariant, with OwnershipInv. *)
ApplyInv == NoEmptyLists(live) /\ (call # Idle => PruneInv)

-----------------------------------------------------------------------------
(* The start of an Apply merges the configuration into the object. *)
LEMMA ApplyBeginPrune ==
    ASSUME NoInputHasEmptyLists, OwnershipInv, ApplyInv,
           NEW m, NEW v, <<m, v>> \in Applies,
           NEW c \in ApplyConfigs, NEW force \in BOOLEAN, ApplyBegin(m, v, c, force)
    PROVE  ApplyInv'
<1> DEFINE ms     == ReconcileManagedFieldsWithSchemaChanges
           at     == AtomicAt(v)
           merged == Merge(at, ConvertTo(v, live), c)
           set    == RecursiveDifference(ToFieldSet(at, c), Ignored[v])
           vs     == [set |-> set, version |-> v, applied |-> TRUE]
           new    == SetManager(ms, m, vs)
           last   == IF m \in DOMAIN ms THEN ms[m] ELSE [new[m] EXCEPT !.set = {}]
           w      == last.version
           M      == ConvertFrom(v, merged)
           S      == EnsureNamedFieldsAreMembers(last.set)
           P      == ConvertFrom(w, RemoveItems(AtomicAt(w), ConvertTo(w, M), S))
<1>1. /\ call'.manager = m /\ call'.version = v /\ call'.config = c
      /\ call'.managers = new /\ call'.last = last
      /\ call'.merged = M /\ call'.pruned = P
      /\ call'.todo = IF last.set = {} THEN {} ELSE {new[n].version : n \in DOMAIN new}
      /\ live' = live /\ atomic' = atomic
  BY DEF ApplyBegin
<1>2. v \in Version /\ IsObject(c) /\ NoEmptyLists(c) /\ at \subseteq Path
  BY InputAssumption, AtomicAtType DEF NoInputHasEmptyLists
<1>3. m \in DOMAIN new /\ new[m] = vs
  BY DEF SetManager
<1>4. CallOK'
  <2>1. TypeOK'
    BY ApplyBeginType DEF OwnershipInv
  <2>2. call' # Idle
    BY <1>1, Zenon DEF ApplyBegin, Idle
  <2> QED BY <2>1, <2>2 DEF TypeOK
<1>5. IsObject(M) /\ last \in VersionedSet
  BY <1>1, <1>4 DEF CallOK
<1>6. w \in Version /\ S \subseteq Path
  BY <1>5, PathAssumption, Zenon DEF VersionedSet, EnsureNamedFieldsAreMembers
<1>7. IsObject(ConvertTo(v, live)) /\ NoEmptyLists(ConvertTo(v, live))
  BY <1>2, ConvertIsObject, ConvertMakesNoEmptyLists DEF ApplyInv, OwnershipInv, TypeOK
<1>8. IsObject(merged) /\ NoEmptyLists(merged)
  BY <1>2, <1>7, MergeIsObject, MergeMakesNoEmptyLists
<1>9. NoEmptyLists(M)
  BY <1>2, <1>8, ConvertMakesNoEmptyLists
<1> HIDE DEF last, M, new
<1>10. NoEmptyLists(P) /\ DOMAIN P \subseteq DOMAIN M
  <2> DEFINE o == ConvertTo(w, M)
             r == RemoveItems(AtomicAt(w), o, S)
  <2>1. IsObject(o) /\ NoEmptyLists(o)
    BY <1>5, <1>6, <1>9, ConvertIsObject, ConvertMakesNoEmptyLists
  <2>2. IsObject(r) /\ NoEmptyLists(r) /\ DOMAIN r \subseteq DOMAIN o
    BY <1>6, <2>1, RemoveItemsIsObject, RemoveLeavesNoEmptyLists
  <2>3. NoEmptyLists(ConvertFrom(w, r))
    BY <1>6, <2>2, ConvertMakesNoEmptyLists
  <2> HIDE DEF r
  <2>4. \A b \in DOMAIN ConvertFrom(w, r) : b \in Path /\ FromBase[w][b] \in DOMAIN r
    BY <1>6, ConvertMembers
  <2>5. \A b \in Path : FromBase[w][b] \in DOMAIN o => b \in DOMAIN M
    BY <1>6, ConvertMembers, Renaming
  <2>6. DOMAIN ConvertFrom(w, r) \subseteq DOMAIN M
    BY <2>2, <2>4, <2>5
  <2> QED BY <2>3, <2>6 DEF r
<1>11. ASSUME NEW p \in set, NEW a \in Above[p] PROVE a \in set \cup Named
  <2>1. p \in DOMAIN c /\ Above[p] \cap at = {} /\ UpTo(p) \cap Ignored[v] = {}
    BY DEF RecursiveDifference, ToFieldSet, Visible
  <2>2. p \in Path /\ a \in DOMAIN c /\ a \in Path /\ Above[a] \subseteq Above[p]
    BY <1>2, <2>1, PathAssumption DEF IsObject
  <2>3. Above[a] \cap at = {} /\ UpTo(a) \cap Ignored[v] = {}
    BY <2>1, <2>2 DEF UpTo
  <2> QED BY <2>2, <2>3 DEF RecursiveDifference, ToFieldSet, Visible
<1>12. ConvertTo(v, M) = merged
  BY <1>2, <1>8, RoundTrip DEF M
<1>13. ASSUME NEW p \in set
       PROVE  p \in DOMAIN merged /\ (IsLeaf(at, p) => SameValue(c, merged, p))
  <2>1. p \in DOMAIN c
    BY DEF RecursiveDifference, ToFieldSet, Visible
  <2> QED BY <1>2, <1>7, <2>1, MergeHoldsConfig
<1> HIDE DEF set, merged, P
<1>14. Applied' = set /\ call'.managers[call'.manager].version = v
  BY <1>1, <1>3 DEF Applied
<1>15. ConvertTo(call.version, call.merged)' = merged /\ AtomicAt(call.version)' = at
  BY <1>1, <1>12 DEF ConvertTo, AtomicAt
<1>16. ConfigIn(call.merged)'
  BY <1>1, <1>13, <1>14, <1>15 DEF ConfigIn
<1>17. call'.last.set # {} => call'.version \in call'.todo
  BY <1>1, <1>3
<1>18. PruneInv'
  BY <1>1, <1>9, <1>10, <1>11, <1>14, <1>16, <1>17 DEF PruneInv
<1> QED BY <1>1, <1>18 DEF ApplyInv

(* A round of addBackOwnedItems keeps what is applied, once it is there,   *)
(* and puts it there if it visits the version of the Apply.                *)
LEMMA AddBackPrune ==
    ASSUME OwnershipInv, ApplyInv, NEW x \in Version, AddBackOwnedItemsForVersion(x)
    PROVE  ApplyInv'
<1> DEFINE M    == call.merged
           P    == call.pruned
           at   == AtomicAt(x)
           drop == EnsureNamedFieldsAreMembers(ToFieldSet(at, ConvertTo(x, M)))
                     \ (EnsureNamedFieldsAreMembers(ToFieldSet(at, ConvertTo(x, P)))
                          \cup EnsureNamedFieldsAreMembers(ManagedAtVersion(x)))
           new  == ConvertFrom(x, RemoveItems(at, ConvertTo(x, M), drop))
<1>1. call # Idle /\ CallOK /\ PruneInv
  BY DEF AddBackOwnedItemsForVersion, Idle, OwnershipInv, TypeOK, ApplyInv
<1>2. call' = [call EXCEPT !.pruned = new, !.todo = call.todo \ {x}]
  BY DEF AddBackOwnedItemsForVersion
<1>3. /\ call'.manager = call.manager /\ call'.version = call.version
      /\ call'.config = call.config /\ call'.managers = call.managers
      /\ call'.last = call.last /\ call'.merged = M
      /\ call'.pruned = new /\ call'.todo = call.todo \ {x}
  BY <1>1, <1>2 DEF CallOK
<1>4. live' = live /\ atomic' = atomic
  BY DEF AddBackOwnedItemsForVersion
<1>5. /\ IsObject(M) /\ NoEmptyLists(M) /\ IsObject(P) /\ NoEmptyLists(P)
      /\ DOMAIN P \subseteq DOMAIN M
  BY <1>1 DEF CallOK, PruneInv
<1> HIDE DEF new
<1>6. /\ NoEmptyLists(new)
      /\ DOMAIN new \subseteq DOMAIN M
      /\ DOMAIN P \subseteq DOMAIN new
      /\ \A b \in DOMAIN M : b \in DOMAIN new <=> UpTo(FromBase[x][b]) \cap drop = {}
  <2>1. OfFirstOnly(x, M, P, drop)
    BY DEF OfFirstOnly
  <2> HIDE DEF drop
  <2>2. new = ConvertFrom(x, RemoveItems(at, ConvertTo(x, M), drop))
    BY DEF new, drop
  <2>3. Without(x, M, P, drop, new)
    BY <1>5, <2>1, <2>2, PruneStep
  <2> QED BY <2>3 DEF Without
<1>7. ASSUME x = call.version, NEW p \in Applied
      PROVE  ToBase[x][p] \in DOMAIN new
  <2>1. Applied \subseteq ManagedAtVersion(x)
    BY <1>1, <1>7 DEF Applied, ManagedAtVersion, CallOK, PruneInv
  <2>2. UpTo(p) \cap drop = {}
    BY <1>1, <2>1 DEF PruneInv, UpTo, EnsureNamedFieldsAreMembers
  <2>3. p \in DOMAIN ConvertTo(x, M)
    BY <1>1, <1>7 DEF PruneInv, ConfigIn
  <2>4. p \in Path /\ ToBase[x][p] \in DOMAIN M /\ FromBase[x][ToBase[x][p]] = p
    BY <2>3, ConvertMembers, Renaming
  <2> QED BY <1>6, <2>2, <2>4
<1>8. Applied' = Applied
  BY <1>3 DEF Applied
<1>9. ConfigIn(call.merged)'
  BY <1>1, <1>3, <1>4, <1>8, Zenon DEF PruneInv, ConfigIn, ConvertTo, AtomicAt
<1> HIDE DEF drop
<1>10. call'.last.set # {} /\ call'.version \notin call'.todo =>
          \A p \in Applied' : ToBase[call'.version][p] \in DOMAIN call'.pruned
  BY <1>1, <1>3, <1>6, <1>7, <1>8 DEF PruneInv
<1>11. PruneInv'
  BY <1>1, <1>3, <1>6, <1>8, <1>9, <1>10 DEF PruneInv
<1> QED BY <1>4, <1>11 DEF ApplyInv

(* What addBackDanglingItems returns has the paths that the loop left.     *)
LEMMA PrunedFacts ==
    ASSUME OwnershipInv, ApplyInv, call # Idle
    PROVE  /\ IsObject(Pruned) /\ NoEmptyLists(Pruned)
           /\ call.last.set = {} => Pruned = call.merged
           /\ call.last.set # {} =>
                /\ DOMAIN call.pruned \subseteq DOMAIN Pruned
                /\ \A b \in DOMAIN Pruned :
                      IsLeaf(atomic, b) => SameValue(call.merged, Pruned, b)
<1> DEFINE M    == call.merged
           P    == call.pruned
           w    == call.last.version
           at   == AtomicAt(w)
           drop == (EnsureNamedFieldsAreMembers(ToFieldSet(at, ConvertTo(w, M)))
                      \ EnsureNamedFieldsAreMembers(ToFieldSet(at, ConvertTo(w, P))))
                     \cap EnsureNamedFieldsAreMembers(call.last.set)
<1>1. CallOK /\ PruneInv
  BY DEF OwnershipInv, TypeOK, ApplyInv
<1>2. /\ IsObject(M) /\ NoEmptyLists(M) /\ IsObject(P) /\ NoEmptyLists(P)
      /\ DOMAIN P \subseteq DOMAIN M /\ w \in Version
  BY <1>1 DEF CallOK, PruneInv, VersionedSet
<1>3. CASE call.last.set = {}
  BY <1>2, <1>3, Zenon DEF Pruned
<1>4. CASE call.last.set # {}
  <2>1. OfFirstOnly(w, M, P, drop)
    BY DEF OfFirstOnly
  <2>2. Pruned = ConvertFrom(w, RemoveItems(at, ConvertTo(w, M), drop))
    BY <1>4 DEF Pruned
  <2> HIDE DEF drop
  <2>3. Without(w, M, P, drop, Pruned)
    BY <1>2, <2>1, <2>2, PruneStep
  <2> QED BY <1>4, <2>3 DEF Without
<1> QED BY <1>3, <1>4

(* So it has what is applied, and with the values of the configuration.    *)
LEMMA PrunedHoldsConfig ==
    ASSUME OwnershipInv, ApplyInv, ApplyReady
    PROVE  ConfigIn(Pruned)
<1>1. call # Idle /\ CallOK /\ PruneInv /\ call.todo = {}
  BY DEF ApplyReady, Idle, OwnershipInv, TypeOK, ApplyInv
<1>2. CASE call.last.set = {}
  BY <1>1, <1>2, PrunedFacts DEF PruneInv, ConfigIn
<1>3. CASE call.last.set # {}
  <2> DEFINE v == call.version
  <2>1. v \in Version
    BY <1>1, InputAssumption DEF CallOK
  <2> SUFFICES ASSUME NEW p \in Applied
               PROVE  /\ p \in DOMAIN ConvertTo(v, Pruned)
                      /\ IsLeaf(AtomicAt(v), p) =>
                           SameValue(call.config, ConvertTo(v, Pruned), p)
    BY DEF ConfigIn
  <2>2. /\ p \in DOMAIN ConvertTo(v, call.merged)
        /\ IsLeaf(AtomicAt(v), p) => SameValue(call.config, ConvertTo(v, call.merged), p)
    BY <1>1, Zenon DEF PruneInv, ConfigIn
  <2>3. p \in Path /\ ToBase[v][p] \in DOMAIN call.merged
    BY <2>1, <2>2, ConvertMembers
  <2>4. ToBase[v][p] \in DOMAIN Pruned
    BY <1>1, <1>3, PrunedFacts DEF PruneInv
  <2>5. p \in DOMAIN ConvertTo(v, Pruned)
    BY <2>1, <2>3, <2>4, ConvertMembers
  <2>6. ASSUME IsLeaf(AtomicAt(v), p)
        PROVE  SameValue(call.config, ConvertTo(v, Pruned), p)
    <3>1. SameValue(call.merged, Pruned, ToBase[v][p])
      BY <1>1, <1>3, <2>1, <2>3, <2>4, <2>6, SameAtomic, PrunedFacts
    <3>2. IsObject(call.merged) /\ IsObject(Pruned)
      BY <1>1, PrunedFacts DEF CallOK
    <3>3. SameValue(ConvertTo(v, call.merged), ConvertTo(v, Pruned), p)
      BY <2>1, <2>3, <2>4, <3>1, <3>2, ConvertSameValue
    <3> QED BY <2>2, <2>6, <3>3 DEF SameValue
  <2> QED BY <2>5, <2>6
<1> QED BY <1>2, <1>3

(* The invariant holds in every reachable state. *)
LEMMA ApplyInvInductive ==
    ASSUME NoInputHasEmptyLists
    PROVE  Spec => []ApplyInv
<1>1. Init => ApplyInv
  BY DEF Init, ApplyInv, NoEmptyLists, EmptyObject
<1>2. OwnershipInv /\ ApplyInv /\ [Next]_vars => ApplyInv'
  <2> SUFFICES ASSUME OwnershipInv, ApplyInv, [Next]_vars PROVE ApplyInv'
    OBVIOUS
  <2>1. ASSUME NEW m \in Manager, NEW v \in Version, NEW o \in UpdateObjects, Update(m, v, o)
        PROVE  ApplyInv'
    <3>1. live' = ConvertFrom(v, o) /\ call' = Idle
      BY <2>1 DEF Update
    <3>2. NoEmptyLists(live')
      BY <3>1, ConvertMakesNoEmptyLists, InputAssumption DEF NoInputHasEmptyLists
    <3> QED BY <3>1, <3>2 DEF ApplyInv
  <2>2. ASSUME NEW m, NEW v, <<m, v>> \in Applies, NEW c \in ApplyConfigs,
               NEW force \in BOOLEAN, ApplyBegin(m, v, c, force)
        PROVE  ApplyInv'
    BY <2>2, ApplyBeginPrune
  <2>3. ASSUME NEW x \in Version, AddBackOwnedItemsForVersion(x) PROVE ApplyInv'
    BY <2>3, AddBackPrune
  <2>4. CASE ApplySucceeds
    <3>1. live' = Pruned /\ call' = Idle /\ call # Idle
      BY <2>4 DEF ApplySucceeds, ApplyReady, Idle
    <3> QED BY <3>1, PrunedFacts DEF ApplyInv
  <2>5. CASE call' = Idle /\ live' = live
    BY <2>5 DEF ApplyInv
  <2>6. CASE UNCHANGED vars
    BY <2>6, Zenon DEF vars, ApplyInv, PruneInv, ConfigIn, Applied, ConvertTo, AtomicAt
  <2> QED BY <2>1, <2>2, <2>3, <2>4, <2>5, <2>6, NextCases, Zenon
         DEF ApplyFails, ChangeSchema, DropVersion
<1> QED BY <1>1, <1>2, OwnershipInvInductive, PTL DEF Spec

(* A successful Apply leaves the object with everything that its manager   *)
(* then owns, at the value of the configuration: prune may have removed it *)
(* with what was applied before, but addBackOwnedItems brings it back,     *)
(* whatever the order of the versions, and addBackDanglingItems lets it.   *)
THEOREM ConfigSurvivesApply ==
    ASSUME NoInputHasEmptyLists
    PROVE  Spec => AppliedConfigHolds
<1>1. OwnershipInv /\ ApplyInv => [ConfigHolds]_vars
  <2> SUFFICES ASSUME OwnershipInv, ApplyInv, ApplySucceeds
               PROVE  LET new == ConvertTo(call.version, live')
                      IN  \A p \in Applied :
                            /\ p \in DOMAIN new
                            /\ IsLeaf(AtomicAt(call.version), p) =>
                                 SameValue(call.config, new, p)
    BY DEF ConfigHolds, Applied
  <2>1. live' = Pruned /\ ApplyReady
    BY DEF ApplySucceeds
  <2> QED BY <2>1, PrunedHoldsConfig DEF ConfigIn
<1> QED BY <1>1, OwnershipInvInductive, ApplyInvInductive, PTL DEF AppliedConfigHolds

-----------------------------------------------------------------------------

(* In the managed fields t the managers of ms, w for one, have at most the *)
(* sets they had.                                                          *)
Spared(ms, w, t) ==
    \A m \in DOMAIN t : /\ m \in DOMAIN ms
                        /\ t[m].version = ms[m].version
                        /\ t[m].set \subseteq ms[m].set
                        /\ m = w => t[m] = ms[m]

(* A manager that takes over takes from others and gives nobody anything. *)
LEMMA TakeOverSpares ==
    ASSUME NEW ms, IsManagedFields(ms), NEW w, NEW old, NEW new
    PROVE  Spared(ms, w, TakeOver(ms, w, old, new))
<1> DEFINE t == TakeOver(ms, w, old, new)
<1>1. \A m \in DOMAIN t :
         /\ m \in DOMAIN ms /\ t[m].version = ms[m].version
         /\ m = w => t[m] = ms[m]
         /\ m # w => t[m].set = (ms[m].set \ ConflictSet(ms, m, old, new))
                                  \ CompareAt(ms[m].version, old, new).removed
  BY TakeOverType
<1> HIDE DEF t
<1>2. Spared(ms, w, t)
  BY <1>1 DEF Spared
<1> QED BY <1>2 DEF t

(* What Compare does not mention was not touched, unless it is ignored or  *)
(* inside an atomic field.                                                 *)
LEMMA NotComparedUntouched ==
    ASSUME NEW v, NEW p, NEW old, NEW new,
           Above[p] \cap AtomicAt(v) = {},
           UpTo(p) \cap Ignored[v] = {},
           p \notin CompareAt(v, old, new).removed,
           p \notin CompareAt(v, old, new).added,
           p \notin CompareAt(v, old, new).modified
    PROVE  Untouched(v, p, old, new)
<1> DEFINE l   == ConvertTo(v, old)
           r   == ConvertTo(v, new)
           at  == AtomicAt(v)
           cmp == Compare(at, l, r)
<1>1. p \notin cmp.removed /\ p \notin cmp.added /\ p \notin cmp.modified
  BY DEF CompareAt, ExcludeFields, RecursiveDifference
<1> HIDE DEF l, r, at
<1>2. Above[p] \cap at = {}
  BY DEF at
<1>3. /\ p \notin Visible(at, DOMAIN l \ DOMAIN r)
      /\ p \notin Visible(at, DOMAIN r \ DOMAIN l)
  BY <1>1, Zenon DEF Compare, Flipped, Modified
<1>4. p \in DOMAIN l <=> p \in DOMAIN r
  BY <1>2, <1>3, Zenon DEF Visible
<1>5. ASSUME p \in DOMAIN l, IsLeaf(at, p) PROVE SameValue(l, r, p)
  BY <1>1, <1>2, <1>4, <1>5, Zenon DEF Compare, Flipped, Modified, Visible
<1> QED
  BY <1>4, <1>5 DEF Untouched, l, r, at

(* After TakeOver, what the other managers own was not touched. *)
LEMMA KeptUntouched ==
    ASSUME NEW ms, IsManagedFields(ms), OwnsNoneIgnored(ms), Reconciled(ms),
           NEW w, NEW old, NEW new,
           NEW m \in DOMAIN TakeOver(ms, w, old, new) \ {w},
           NEW p \in TakeOver(ms, w, old, new)[m].set
    PROVE  Untouched(ms[m].version, p, old, new)
<1> DEFINE v == ms[m].version
<1>1. /\ m \in DOMAIN ms
      /\ p \in (ms[m].set \ ConflictSet(ms, m, old, new)) \ CompareAt(v, old, new).removed
  BY TakeOverType
<1>2. p \notin CompareAt(v, old, new).modified /\ p \notin CompareAt(v, old, new).added
  BY <1>1 DEF ConflictSet
<1>3. Above[p] \cap AtomicAt(v) = {} /\ UpTo(p) \cap Ignored[v] = {}
  BY <1>1 DEF OwnsNoneIgnored, Reconciled
<1> QED
  BY <1>1, <1>2, <1>3, NotComparedUntouched, Zenon

(* What Update changes leaves the sets of the other managers. *)
LEMMA UpdateChangesOwner ==
    ASSUME OwnershipInv, NEW m \in Manager, NEW v \in Version,
           NEW o \in UpdateObjects, Update(m, v, o)
    PROVE  ChangeOfOwner
<1> DEFINE new == ConvertFrom(v, o)
           rec == ReconcileManagedFieldsWithSchemaChanges
           ms  == TakeOver(rec, m, live, new)
           vs  == [set |-> UpdatedSet(ms, m, v, live, new),
                   version |-> v, applied |-> FALSE]
           all == SetManager(ms, m, vs)
<1>1. /\ IsManagedFields(rec) /\ OwnsNoneIgnored(rec) /\ Reconciled(rec)
      /\ \A n \in DOMAIN rec : n \in DOMAIN managers /\ rec[n].version = managers[n].version
  BY ReconciledFacts
<1>2. IsManagedFields(ms)
  BY <1>1, TakeOverType
<1>3. vs \in VersionedSet
  BY <1>2, UpdatedSetType DEF VersionedSet
<1>4. managers' = DropEmptySets(all) /\ live' = new
  BY DEF Update
<1>5. \A n \in DOMAIN ms : n \in DOMAIN rec /\ ms[n].version = rec[n].version
  <2>1. Spared(rec, m, ms)
    BY <1>1, TakeOverSpares
  <2> QED BY <2>1 DEF Spared
<1>6. \A n \in DOMAIN ms \ {m} : \A p \in ms[n].set : Untouched(rec[n].version, p, live, new)
  BY <1>1, KeptUntouched
<1> HIDE DEF ms, vs, rec, new
<1>7. /\ IsManagedFields(all)
      /\ DOMAIN all = DOMAIN ms \cup {m}
      /\ \A n \in DOMAIN ms \ {m} : all[n] = ms[n]
  BY ZenonT(30), <1>2, <1>3, SetManagerType
<1> HIDE DEF all
<1>8. /\ DOMAIN managers' \subseteq DOMAIN all
      /\ \A n \in DOMAIN managers' : managers'[n] = all[n]
  BY <1>4, <1>7, DropEmptySetsType, Zenon
<1>9. ASSUME NEW n \in DOMAIN managers' \ {m}
      PROVE  /\ n \in DOMAIN managers
             /\ managers'[n].version = managers[n].version
             /\ \A p \in managers'[n].set :
                  Untouched(managers[n].version, p, live, live')
  <2>1. n \in DOMAIN ms /\ managers'[n] = ms[n]
    BY <1>7, <1>8
  <2>2. n \in DOMAIN rec /\ ms[n].version = rec[n].version
    BY <1>5, <2>1
  <2>3. n \in DOMAIN managers /\ rec[n].version = managers[n].version
    BY <1>1, <2>2
  <2> QED
    BY <1>4, <1>6, <2>1, <2>2, <2>3
<1> QED
  BY <1>9 DEF ChangeOfOwner

(* So does what Apply changes. *)
LEMMA ApplyChangesOwner ==
    ASSUME OwnershipInv, ApplySucceeds
    PROVE  ChangeOfOwner
<1> DEFINE ms == call.managers
           t  == TakeOver(ms, call.manager, live, Pruned)
<1>1. call # Idle /\ CallOK
  BY DEF ApplySucceeds, ApplyReady, Idle, OwnershipInv, TypeOK
<1>2. /\ IsManagedFields(ms) /\ OwnsNoneIgnored(ms) /\ Reconciled(ms)
      /\ \A n \in DOMAIN ms \ {call.manager} :
            n \in DOMAIN managers /\ ms[n].version = managers[n].version
      /\ call.manager \in Manager
  BY <1>1, InputAssumption DEF CallOK, OwnershipInv, InFlight
<1>3. managers' = t /\ live' = Pruned
  BY DEF ApplySucceeds
<1>4. \A n \in DOMAIN t : n \in DOMAIN ms /\ t[n].version = ms[n].version
  <2>1. Spared(ms, call.manager, t)
    BY <1>2, TakeOverSpares
  <2> QED BY <2>1 DEF Spared
<1>5. \A n \in DOMAIN t \ {call.manager} : \A p \in t[n].set :
         Untouched(ms[n].version, p, live, Pruned)
  BY <1>2, KeptUntouched
<1> QED
  BY <1>2, <1>3, <1>4, <1>5 DEF ChangeOfOwner

(* Only Update and a successful Apply change the object. *)
LEMMA LiveChanges ==
    ASSUME [Next]_vars, live' # live
    PROVE  \/ \E m \in Manager, v \in Version, o \in UpdateObjects : Update(m, v, o)
           \/ ApplySucceeds
<1>1. ASSUME NEW m, NEW v, NEW c, NEW force, ApplyBegin(m, v, c, force)
      PROVE  FALSE
  BY <1>1 DEF ApplyBegin
<1>2. ASSUME NEW x, AddBackOwnedItemsForVersion(x) PROVE FALSE
  BY <1>2 DEF AddBackOwnedItemsForVersion
<1>3. ~ApplyFails /\ ~UNCHANGED vars
  BY DEF ApplyFails, vars
<1>4. ASSUME NEW x PROVE ~ChangeSchema(x) /\ ~DropVersion(x)
  BY DEF ChangeSchema, DropVersion
<1> QED
  BY <1>1, <1>2, <1>3, <1>4, NextCases, Zenon

(* A field changes hands when its value changes, for every schema and      *)
(* every interleaving of updates, applies and changes of schema.           *)
THEOREM ChangesChangeOwner == Spec => ChangedFieldsChangeOwner
<1>1. OwnershipInv /\ [Next]_vars => [ChangeOfOwner]_vars
  <2> SUFFICES ASSUME OwnershipInv, [Next]_vars, live' # live PROVE ChangeOfOwner
    BY DEF ChangeOfOwner
  <2> QED
    BY LiveChanges, UpdateChangesOwner, ApplyChangesOwner
<1> QED
  BY <1>1, OwnershipInvInductive, PTL DEF Spec, ChangedFieldsChangeOwner

(* In a step without force, Apply takes nothing. *)
LEMMA UnforcedTakesNothing == ASSUME OwnershipInv PROVE TakesNothing
<1> DEFINE ms == call.managers
           t  == TakeOver(ms, call.manager, live, Pruned)
<1> SUFFICES ASSUME ApplySucceeds, ~call.force,
                    NEW m \in DOMAIN ms \ {call.manager}, NEW p \in ms[m].set,
                    p \in DOMAIN ConvertTo(ms[m].version, live')
             PROVE  /\ m \in DOMAIN managers'
                    /\ p \in managers'[m].set
                    /\ Untouched(ms[m].version, p, live, live')
  BY DEF TakesNothing
<1>1. call # Idle /\ CallOK
  BY DEF ApplySucceeds, ApplyReady, Idle, OwnershipInv, TypeOK
<1>2. IsManagedFields(ms) /\ OwnsNoneIgnored(ms) /\ Reconciled(ms)
  BY <1>1 DEF CallOK, OwnershipInv, InFlight
<1>3. managers' = t /\ live' = Pruned
  BY DEF ApplySucceeds
<1> DEFINE v   == ms[m].version
           cmp == CompareAt(v, live, Pruned)
<1>4. ConflictSet(ms, m, live, Pruned) = {}
  BY DEF ApplySucceeds, ApplyConflicts, Conflicts
<1>5. p \notin cmp.modified /\ p \notin cmp.added
  BY <1>4 DEF ConflictSet
<1>6. Above[p] \cap AtomicAt(v) = {} /\ UpTo(p) \cap Ignored[v] = {}
  BY <1>2 DEF OwnsNoneIgnored, Reconciled
<1>7. p \notin cmp.removed
  <2> DEFINE l == ConvertTo(v, live)
             r == ConvertTo(v, Pruned)
             at == AtomicAt(v)
  <2>1. p \in DOMAIN r
    BY <1>3
  <2>2. p \notin Compare(at, l, r).added
    BY <1>5, <1>6, Zenon DEF CompareAt, ExcludeFields, RecursiveDifference
  <2> HIDE DEF l, r, at
  <2>3. p \notin Compare(at, l, r).removed
    BY <2>1, <2>2, Zenon DEF Compare, Flipped, Modified, Visible
  <2> QED
    BY <2>3, Zenon DEF CompareAt, ExcludeFields, RecursiveDifference, l, r, at
<1>8. Untouched(v, p, live, Pruned)
  BY <1>5, <1>6, <1>7, NotComparedUntouched
<1>9. m \in DOMAIN t /\ p \in t[m].set
  <2> DEFINE all == [n \in DOMAIN ms |->
                       IF n = call.manager THEN ms[n]
                       ELSE [ms[n] EXCEPT !.set =
                               (@ \ ConflictSet(ms, n, live, Pruned))
                                  \ CompareAt(ms[n].version, live, Pruned).removed]]
  <2>1. t = DropEmptySets(all)
    BY DEF TakeOver
  <2>2. ms[m] \in VersionedSet
    BY <1>2 DEF IsManagedFields
  <2>3. m \in DOMAIN all /\ p \in all[m].set
    BY <1>4, <1>7, <2>2 DEF VersionedSet
  <2> HIDE DEF all
  <2> QED
    BY <2>1, <2>3 DEF DropEmptySets, Restrict
<1> QED
  BY <1>3, <1>8, <1>9

(* A successful Apply without force leaves the other managers everything   *)
(* that is still in the object, with the value it had.                     *)
THEOREM UnforcedApplyIsPeaceful == Spec => UnforcedApplyTakesNothing
<1>1. OwnershipInv => [TakesNothing]_vars
  BY UnforcedTakesNothing
<1> QED
  BY <1>1, OwnershipInvInductive, PTL DEF UnforcedApplyTakesNothing

-----------------------------------------------------------------------------
UpdatersKeepVersion ==
    \A m \in Manager : \A v, w \in Version :
        <<m, v>> \in Updates /\ <<m, w>> \in Updates \cup Applies => v = w

(* Every manager owns at a version that it calls with, and what the other  *)
(* managers own when an Apply runs is in the object that it started from.  *)
ExistInv ==
    /\ OwnedFieldsExist
    /\ \A m \in DOMAIN managers : <<m, managers[m].version>> \in Updates \cup Applies
    /\ call # Idle =>
         \A m \in DOMAIN call.managers \ {call.manager} :
            call.managers[m].set \subseteq DOMAIN ConvertTo(call.managers[m].version, live)

(* Reconciliation adds prefixes of what was owned, so what it returns is   *)
(* in the object too.                                                      *)
LEMMA ReconciledExists ==
    ASSUME OwnershipInv, OwnedFieldsExist,
           NEW m \in DOMAIN ReconcileManagedFieldsWithSchemaChanges
    PROVE  ReconcileManagedFieldsWithSchemaChanges[m].set
             \subseteq DOMAIN ConvertTo(managers[m].version, live)
<1> DEFINE rec == ReconcileManagedFieldsWithSchemaChanges
           v   == managers[m].version
           S   == managers[m].set
           l   == ConvertTo(v, live)
<1>1. m \in DOMAIN managers
  BY DEF ReconcileManagedFieldsWithSchemaChanges
<1>2. managers[m] \in VersionedSet /\ S \subseteq DOMAIN l
  BY <1>1 DEF OwnershipInv, TypeOK, IsManagedFields, OwnedFieldsExist
<1>3. rec[m].set = ReconcileFieldSetWithSchema(AtomicAt(v), S)
  <2>1. rec[m] = [managers[m] EXCEPT !.set = ReconcileFieldSetWithSchema(AtomicAt(v), S)]
    BY <1>1 DEF ReconcileManagedFieldsWithSchemaChanges
  <2> QED BY <1>2, <2>1 DEF VersionedSet
<1>4. IsObject(l)
  BY <1>2, ConvertIsObject DEF VersionedSet, OwnershipInv, TypeOK
<1> HIDE DEF rec, l
<1>5. NowAtomic(AtomicAt(v), S) \subseteq DOMAIN l
  BY <1>2, <1>4 DEF NowAtomic, IsObject
<1>6. rec[m].set \subseteq DOMAIN l
  BY <1>2, <1>3, <1>5 DEF ReconcileFieldSetWithSchema, RecursiveDifference
<1> QED BY <1>6 DEF rec, l

(* What the others keep when a manager takes over is in the new object if  *)
(* it was in the old one.                                                  *)
LEMMA KeptExists ==
    ASSUME NEW ms, IsManagedFields(ms), OwnsNoneIgnored(ms), Reconciled(ms),
           NEW w, NEW old, NEW new,
           NEW m \in DOMAIN TakeOver(ms, w, old, new) \ {w},
           ms[m].set \subseteq DOMAIN ConvertTo(ms[m].version, old)
    PROVE  TakeOver(ms, w, old, new)[m].set \subseteq DOMAIN ConvertTo(ms[m].version, new)
<1> SUFFICES ASSUME NEW p \in TakeOver(ms, w, old, new)[m].set
             PROVE  p \in DOMAIN ConvertTo(ms[m].version, new)
  OBVIOUS
<1>1. p \in ms[m].set
  <2>1. Spared(ms, w, TakeOver(ms, w, old, new))
    BY TakeOverSpares
  <2> QED BY <2>1 DEF Spared
<1>2. Untouched(ms[m].version, p, old, new)
  BY KeptUntouched
<1> QED BY <1>1, <1>2 DEF Untouched

(* What an updater records is in the object that it sent. *)
LEMMA UpdatedExists ==
    ASSUME NEW ms, OwnsNoneIgnored(ms), Reconciled(ms), NEW m, NEW v, NEW old, NEW new,
           m \in DOMAIN ms =>
              ms[m].version = v /\ ms[m].set \subseteq DOMAIN ConvertTo(v, old)
    PROVE  UpdatedSet(ms, m, v, old, new) \subseteq DOMAIN ConvertTo(v, new)
<1> DEFINE at  == AtomicAt(v)
           l   == ConvertTo(v, old)
           r   == ConvertTo(v, new)
           cmp == CompareAt(v, old, new)
<1>1. cmp = ExcludeFields(Compare(at, l, r), Ignored[v])
  BY DEF CompareAt
<1>2. ASSUME NEW p \in UpdatedSet(ms, m, v, old, new)
      PROVE  \/ p \in cmp.modified \/ p \in cmp.added
             \/ m \in DOMAIN ms /\ p \in ms[m].set /\ p \notin cmp.removed
  BY <1>2 DEF UpdatedSet, RecursiveDifference
<1> HIDE DEF l, r, cmp, at
<1>3. cmp.modified \subseteq DOMAIN r
  BY <1>1, Zenon DEF ExcludeFields, RecursiveDifference, Compare, Modified, Visible
<1>4. cmp.added \subseteq DOMAIN r
  BY <1>1, Zenon DEF ExcludeFields, RecursiveDifference, Compare, Flipped, Visible
<1>5. ASSUME m \in DOMAIN ms, NEW p \in ms[m].set, p \notin cmp.removed
      PROVE  p \in DOMAIN r
  <2>1. p \in DOMAIN l /\ Above[p] \cap at = {} /\ UpTo(p) \cap Ignored[v] = {}
    BY <1>5 DEF OwnsNoneIgnored, Reconciled, l, at
  <2>2. p \notin Compare(at, l, r).removed
    BY <1>1, <1>5, <2>1, Zenon DEF ExcludeFields, RecursiveDifference
  <2>3. p \notin Visible(at, DOMAIN l \ DOMAIN r)
    BY <2>2, Zenon DEF Compare
  <2> QED BY <2>1, <2>3 DEF Visible
<1>6. UpdatedSet(ms, m, v, old, new) \subseteq DOMAIN r
  BY <1>2, <1>3, <1>4, <1>5
<1> QED BY <1>6 DEF r

(* Taking over leaves no field inside an atomic one. *)
LEMMA TakeOverKeepsReconciled ==
    ASSUME NEW ms, IsManagedFields(ms), Reconciled(ms), NEW w, NEW old, NEW new
    PROVE  Reconciled(TakeOver(ms, w, old, new))
<1> DEFINE t == TakeOver(ms, w, old, new)
<1> SUFFICES ASSUME NEW m \in DOMAIN t, NEW p \in t[m].set
             PROVE  Above[p] \cap AtomicAt(t[m].version) = {}
  BY DEF Reconciled
<1>1. m \in DOMAIN ms /\ t[m].version = ms[m].version /\ p \in ms[m].set
  BY TakeOverType
<1> QED BY <1>1 DEF Reconciled

(* Update leaves every manager with fields that the new object has. *)
LEMMA UpdateExists ==
    ASSUME UpdatersKeepVersion, OwnershipInv, ExistInv,
           NEW m \in Manager, NEW v \in Version, <<m, v>> \in Updates,
           NEW o \in UpdateObjects, Update(m, v, o)
    PROVE  ExistInv'
<1> DEFINE new == ConvertFrom(v, o)
           rec == ReconcileManagedFieldsWithSchemaChanges
           ms  == TakeOver(rec, m, live, new)
           set == UpdatedSet(ms, m, v, live, new)
           vs  == [set |-> set, version |-> v, applied |-> FALSE]
           all == SetManager(ms, m, vs)
<1>1. /\ IsManagedFields(rec) /\ OwnsNoneIgnored(rec) /\ Reconciled(rec)
      /\ \A n \in DOMAIN rec : n \in DOMAIN managers /\ rec[n].version = managers[n].version
  BY ReconciledFacts
<1>2. \A n \in DOMAIN rec : rec[n].set \subseteq DOMAIN ConvertTo(rec[n].version, live)
  BY <1>1, ReconciledExists DEF ExistInv
<1>3. IsManagedFields(ms) /\ OwnsNoneIgnored(ms) /\ Reconciled(ms)
  BY <1>1, TakeOverType, TakeOverKeepsIgnored, TakeOverKeepsReconciled, Zenon
<1>4. \A n \in DOMAIN ms : /\ n \in DOMAIN rec
                           /\ ms[n].version = managers[n].version
                           /\ <<n, ms[n].version>> \in Updates \cup Applies
                           /\ n = m => ms[n] = rec[n]
  <2>1. \A n \in DOMAIN ms : /\ n \in DOMAIN rec /\ ms[n].version = rec[n].version
                             /\ n = m => ms[n] = rec[n]
    <3>1. Spared(rec, m, ms)
      BY <1>1, TakeOverSpares
    <3> QED BY <3>1 DEF Spared
  <2> QED BY <1>1, <2>1, Zenon DEF ExistInv
<1>5. ASSUME NEW n \in DOMAIN ms \ {m}
      PROVE  ms[n].set \subseteq DOMAIN ConvertTo(ms[n].version, new)
  <2>1. /\ n \in DOMAIN rec /\ ms[n].version = rec[n].version
        /\ rec[n].set \subseteq DOMAIN ConvertTo(rec[n].version, live)
    BY <1>1, <1>2, <1>4, Zenon
  <2> HIDE DEF rec, new
  <2>2. ms[n].set \subseteq DOMAIN ConvertTo(rec[n].version, new)
    BY <1>1, <2>1, KeptExists, Zenon
  <2> QED BY <2>1, <2>2
<1>6. vs \in VersionedSet
  BY <1>3, UpdatedSetType DEF VersionedSet
<1>7. managers' = DropEmptySets(all) /\ live' = new /\ call' = Idle
  BY DEF Update
<1> HIDE DEF ms, new, rec
<1>8. set \subseteq DOMAIN ConvertTo(v, new)
  <2>1. ASSUME m \in DOMAIN ms
        PROVE  ms[m].version = v /\ ms[m].set \subseteq DOMAIN ConvertTo(v, live)
    <3>1. ms[m].version \in Version
      BY <1>3, <2>1 DEF IsManagedFields, VersionedSet
    <3>2. ms[m].version = v
      BY <1>4, <2>1, <3>1, Zenon DEF UpdatersKeepVersion
    <3> QED BY <1>2, <1>4, <2>1, <3>2
  <2> QED BY <1>3, <2>1, UpdatedExists, Zenon
<1>9. vs.set = set /\ vs.version = v
  OBVIOUS
<1> HIDE DEF vs, set
<1>10. /\ IsManagedFields(all)
       /\ DOMAIN all = DOMAIN ms \cup {m}
       /\ all[m] = vs
       /\ \A n \in DOMAIN ms \ {m} : all[n] = ms[n]
  BY <1>3, <1>6, SetManagerType
<1> HIDE DEF all
<1>11. ASSUME NEW n \in DOMAIN managers'
       PROVE  /\ managers'[n].set \subseteq DOMAIN ConvertTo(managers'[n].version, new)
              /\ <<n, managers'[n].version>> \in Updates \cup Applies
  <2>1. n \in DOMAIN all /\ managers'[n] = all[n]
    BY <1>7, <1>10, DropEmptySetsType, Zenon
  <2>2. CASE n = m
    BY <1>8, <1>9, <1>10, <2>1, <2>2
  <2>3. CASE n # m
    BY <1>4, <1>5, <1>10, <2>1, <2>3
  <2> QED BY <2>2, <2>3
<1> QED BY <1>7, <1>11, Zenon DEF ExistInv, OwnedFieldsExist, ConvertTo

(* The start of an Apply leaves the other managers with fields that the    *)
(* object has.                                                             *)
LEMMA ApplyBeginExists ==
    ASSUME OwnershipInv, ExistInv, NEW m, NEW v, NEW c, NEW force, ApplyBegin(m, v, c, force)
    PROVE  ExistInv'
<1> DEFINE ms == ReconcileManagedFieldsWithSchemaChanges
           vs == [set |-> RecursiveDifference(ToFieldSet(AtomicAt(v), c), Ignored[v]),
                  version |-> v, applied |-> TRUE]
<1>1. /\ call'.manager = m /\ call'.managers = SetManager(ms, m, vs)
      /\ live' = live /\ managers' = managers
  BY DEF ApplyBegin
<1>2. \A n \in DOMAIN ms : ms[n].set \subseteq DOMAIN ConvertTo(ms[n].version, live)
  BY ReconciledFacts, ReconciledExists DEF ExistInv
<1> HIDE DEF ms, vs
<1>3. \A n \in DOMAIN SetManager(ms, m, vs) \ {m} :
         n \in DOMAIN ms /\ SetManager(ms, m, vs)[n] = ms[n]
  BY DEF SetManager
<1>4. \A n \in DOMAIN SetManager(ms, m, vs) \ {m} :
         SetManager(ms, m, vs)[n].set \subseteq
            DOMAIN ConvertTo(SetManager(ms, m, vs)[n].version, live)
  BY <1>2, <1>3
<1>5. OwnedFieldsExist'
  BY <1>1 DEF ExistInv, OwnedFieldsExist, ConvertTo
<1>6. (\A n \in DOMAIN call.managers \ {call.manager} :
         call.managers[n].set \subseteq DOMAIN ConvertTo(call.managers[n].version, live))'
  BY <1>1, <1>4, Zenon DEF ConvertTo
<1> QED BY <1>1, <1>5, <1>6, Zenon DEF ExistInv

(* A successful Apply leaves every manager with fields that the object has. *)
LEMMA ApplySucceedsExists ==
    ASSUME OwnershipInv, ApplyInv, ExistInv, ApplySucceeds
    PROVE  ExistInv'
<1> DEFINE ms == call.managers
           w  == call.manager
           t  == TakeOver(ms, w, live, Pruned)
<1>1. call # Idle /\ CallOK /\ PruneInv /\ ApplyReady
  BY DEF ApplySucceeds, ApplyReady, Idle, OwnershipInv, TypeOK, ApplyInv
<1>2. /\ IsManagedFields(ms) /\ OwnsNoneIgnored(ms) /\ Reconciled(ms)
      /\ \A n \in DOMAIN ms \ {w} :
            n \in DOMAIN managers /\ ms[n].version = managers[n].version
  BY <1>1 DEF CallOK, OwnershipInv, InFlight
<1>3. managers' = t /\ live' = Pruned /\ call' = Idle
  BY DEF ApplySucceeds
<1>4. ASSUME NEW n \in DOMAIN t
      PROVE  /\ t[n].set \subseteq DOMAIN ConvertTo(t[n].version, Pruned)
             /\ <<n, t[n].version>> \in Updates \cup Applies
  <2>1. n \in DOMAIN ms /\ t[n].version = ms[n].version /\ (n = w => t[n] = ms[n])
    <3>1. Spared(ms, w, t)
      BY <1>2, TakeOverSpares
    <3> QED BY <3>1 DEF Spared
  <2>2. CASE n = w
    <3>1. t[n].version = call.version /\ t[n].set = Applied
      BY <1>1, <2>1, <2>2, Zenon DEF PruneInv, Applied
    <3> QED BY <1>1, <2>2, <3>1, PrunedHoldsConfig, Zenon DEF ConfigIn, CallOK
  <2>3. CASE n # w
    <3>1. ms[n].set \subseteq DOMAIN ConvertTo(ms[n].version, live)
      BY <1>1, <2>1, <2>3, Zenon DEF ExistInv
    <3>2. t[n].set \subseteq DOMAIN ConvertTo(ms[n].version, Pruned)
      BY <1>2, <2>3, <3>1, KeptExists, Zenon
    <3> QED BY <1>2, <2>1, <2>3, <3>2, Zenon DEF ExistInv
  <2> QED BY <2>2, <2>3
<1> QED BY <1>3, <1>4, Zenon DEF ExistInv, OwnedFieldsExist, ConvertTo

(* Whatever a manager owns is in the object, at all times: after updates   *)
(* and applies of any managers in any order, forced or not, and after      *)
(* changes of the schema and of the versions that are served.              *)
THEOREM OwnedIsInObject ==
    ASSUME NoInputHasEmptyLists, UpdatersKeepVersion
    PROVE  Spec => []OwnedFieldsExist
<1>1. Init => ExistInv
  BY DEF Init, ExistInv, OwnedFieldsExist
<1>2. OwnershipInv /\ ApplyInv /\ ExistInv /\ [Next]_vars => ExistInv'
  <2> SUFFICES ASSUME OwnershipInv, ApplyInv, ExistInv, [Next]_vars PROVE ExistInv'
    OBVIOUS
  <2>1. CASE \E mv \in Updates, o \in UpdateObjects : Update(mv[1], mv[2], o)
    <3>1. PICK mv \in Updates : \E o \in UpdateObjects : Update(mv[1], mv[2], o)
      BY <2>1
    <3>2. mv = <<mv[1], mv[2]>> /\ mv[1] \in Manager /\ mv[2] \in Version
      BY InputAssumption
    <3> QED BY <3>1, <3>2, UpdateExists
  <2>2. CASE \E mv \in Applies, c \in ApplyConfigs, force \in BOOLEAN :
               ApplyBegin(mv[1], mv[2], c, force)
    BY <2>2, ApplyBeginExists
  <2>3. CASE \E x \in Version : AddBackOwnedItemsForVersion(x)
    <3>1. PICK x \in Version : AddBackOwnedItemsForVersion(x)
      BY <2>3
    <3>2. call # Idle /\ CallOK
      BY <3>1 DEF AddBackOwnedItemsForVersion, Idle, OwnershipInv, TypeOK
    <3>3. /\ call'.manager = call.manager /\ call'.managers = call.managers
          /\ UNCHANGED <<live, managers>>
      BY <3>1, <3>2 DEF AddBackOwnedItemsForVersion, CallOK
    <3> QED BY <3>2, <3>3 DEF ExistInv, OwnedFieldsExist, ConvertTo
  <2>4. CASE ApplySucceeds
    BY <2>4, ApplySucceedsExists
  <2>5. CASE call' = Idle /\ UNCHANGED <<live, managers>>
    BY <2>5 DEF ExistInv, OwnedFieldsExist, ConvertTo
  <2>6. CASE UNCHANGED vars
    BY <2>6 DEF vars, ExistInv, OwnedFieldsExist, ConvertTo
  <2> QED BY <2>1, <2>2, <2>3, <2>4, <2>5, <2>6
         DEF Next, ApplyStep, ApplyFails, ChangeSchema, DropVersion
<1>3. ExistInv => OwnedFieldsExist
  BY DEF ExistInv
<1> QED BY <1>1, <1>2, <1>3, OwnershipInvInductive, ApplyInvInductive, PTL DEF Spec
==============================================================================
