# structured-merge-diff in TLA+

This directory holds TLA+ models of structured-merge-diff, the library behind
Kubernetes server-side apply, the TLC configurations that check them on small
instances, and theorems that TLAPS proves for every instance. `PROJECT.json`
lists components, runs, mutants (what each property would catch), the source lines
of every definition, findings, hazards and theorems.

## The system

| part | state | operations | what is hard about it |
| --- | --- | --- | --- |
| `merge` | the caller's object and managed fields | `Update`, `Apply` (merge, prune, add back, conflicts) | several managers, versions that name fields differently, versions that vanish, schemas that change, map iteration order |
| `typed` | none (objects are values) | `Compare`, `Merge`, `RemoveItems`, `ToFieldSet`, `ReconcileFieldSetWithSchema` | nulls, empty containers, atomic types, duplicate list items, order of merged lists |
| `fieldpath` | tries of path elements, sorted slices | `Insert`, `Union`, `Intersection`, `Difference`, `RecursiveDifference`, `Leaves`, JSON | no empty nodes, tails of loops, round trip |
| `value` | process-wide reflection cache; free lists | `Compare`, `Equals`, `TypeReflectEntryOf` | an order over all kinds of values, concurrent and recursive cache fills |
| `schema` | lazily built indexes, cache of resolved types | `Resolve`, `FindNamedType`, `FindField`, `CopyInto` | concurrent use, a lock held across a `sync.Once` |

`merge` calls `typed` for objects and `fieldpath` for ownership; `typed` looks up
types in `schema` and walks objects through `value`; `fieldpath` relies on the
order that `value` gives to path elements.

## Modules

| module | models | checked by |
| --- | --- | --- |
| `TypedObject` | package `typed`: an object is a function from some paths of a tree to values; `Compare`, `Merge`, `RemoveItems`, `ToFieldSet`, reconciliation as operators | through `Updater` |
| `Updater` | `merge/update.go`; variables are the object, the managed fields, the atomic paths of the schema, the served versions and the `Apply` under way | `MCUpdater`, `UpdaterProofs`, `OwnerProofs` |
| `PathSets` | what field sets promise: sets of paths, and what each operation may change of which set | as the abstraction of `FieldSet` |
| `FieldSet` | `fieldpath.Set`, the trie and its JSON structure, with nodes that tries share | `MCFieldSet` |
| `SortedSet` | the slice loops of `PathElementSet` | `MCSortedSet`, `SliceProofs` |
| `PathElements` | `Compare` and `Equals` of values and path elements, binary search, what JSON makes of them | `MCPathElements` |
| `ListMerge` | `visitListItems` of `typed/merge.go`, one action per branch | itself, `SliceProofs` |
| `GoSlices` | external: slices of Go, with `append` into the array that is there | through the next two |
| `CompareWalk` | the walk of `typed/compare.go` with its pool of walkers, spare walkers and path buffer, and the freelist of `value/allocator.go` | `MCCompareWalk`, `WalkerProofs`, `CompareWalkProofs`, `ReportProofs`, `ComparisonProofs` |
| `MapViews` | the implementations of `value.Map` (struct, Go map, unstructured map), the field paths of `value/reflectcache.go` and the loops of `Zip` | `MCMapViews` |
| `ReflectCache` | `value/reflectcache.go` under concurrent calls | `MCReflectCache`, `CacheProofs` |
| `SchemaCache` | lookups of `schema/elements.go` under concurrent calls | itself, `CacheProofs` |

`Updater` composes `TypedObject` with the managers. Its actions correspond to the
code as follows. `Update` is the whole of `Updater.Update`. `Apply` is split where
the code iterates over a Go map, whose order is arbitrary: `ApplyBegin` goes up to
the loop of `addBackOwnedItems`, `AddBackOwnedItemsForVersion` is one round of it,
and `ApplySucceeds` or `ApplyFails` is the rest (`addBackDanglingItems` is
`Pruned`, `update` is `TakeOver`). `ChangeSchema` and `DropVersion` are what
happens around the library between calls: another schema for the same version,
and a version that the API stops serving. A caller runs one call at a time on an
object, as the fixture `internal/fixture/state.go` does, and keeps its state when a
call fails.

The converter is an interface that callers implement. It is modelled as external
code: each version renames paths one to one, keeping the tree, and a version that
is not served yields the missing-version error. Conversions that lose or compute
data are outside the model.

In `TypedObject` the schema is a tree of paths with the kinds scalar, list and
map; list items are paths too, present once, twice (values of `Dup`) or not at
all. Values are scalars, null or "has members".

`FieldSet`, `CompareWalk` and `MapViews` model who shares memory with whom. In
`FieldSet` the variable `same` says which places in the two tries hold the same node,
and `Insert` changes a node wherever it is. The sets of `PathSets` share nothing, so the
refinement shows that no operation changes a set that it was not called on. It holds
because the code inserts paths only into sets that it has just made (`open`): `Insert`
into the result of a `Union` would change an operand, as the mutant `AnySet` shows. In
`CompareWalk` the state of a call is the stack of its walkers; each root walker keeps an
array for paths, spare walkers and freed values from one call to the next, and goes
through the pool from goroutine to goroutine. What a comparison says is read again
through the pointers that its paths keep, at any time after it was returned. In
`MapViews` every object is kept as a struct, as a Go map and as an unstructured map, and
each operation is done to all three.

## Runs

Runs that pass:

- `updater_lists`: a list with one item that has a key and a value, two appliers
  and two updaters, one version. Duplicated items and nulls occur, and the schema
  makes the list atomic and granular again. Empty lists are left out (see below).
- `updater_versions`: three versions, of which the second swaps two fields and
  ignores one; a version may vanish. With three, `addBackOwnedItems` has an order
  to choose.
- `field_set`: tries of paths of up to three elements, over two path elements,
  under all operations; refinement of `PathSets`.
- `sorted_set`: all pairs of slices over four elements.
- `path_elements`: path elements of all kinds, three inserted in every order with
  reloads between. Floats have two bits of mantissa, and all integers fit.
- `list_merge`: all pairs of lists up to `MaxLen`, the left one with duplicates.
- `compare_walk`: two goroutines and two calls of `Compare` on maps with scalars and
  on lists of scalars with and without duplicates. Walkers stay with the node that
  their path names, no freed value is in use, and a comparison names exactly the
  nodes that differ, also after the walkers went on to other calls.
- `map_views`: a struct with structs inlined two levels deep, under `Set`, `Delete` and
  `Unstructured`. The three forms stay the same map, `Zip` meets every key once
  whatever the two forms are, and `Equals` decides equality.
- `reflect_cache`: goroutines that look up types that contain each other.
- `schema_shared`: two goroutines and two map types, one always referred to with an
  override and one never.

Runs that show a disagreement between the code and what it says of itself (the
quotes are in `PROJECT.json` under `findings`):

- `map_views_deep`: with structs inlined three levels deep, `append` in
  `buildStructCacheEntry` gives sibling fields paths that share an array. `Set` of one
  key then changes another.
- `schema_race`: when one map type is referred to with and without an override,
  `CopyInto` may copy an index that another goroutine still fills.

Restrictions on the inputs of the passing runs. TLC finds the property violated when
the restriction is lifted:

- No list is empty in `updater_lists`. With empty lists `AppliedConfigHolds` fails:
  after `{s: {sl: [], sd: 1}}`, applying `{s: null}` removes `s`.
- No updater changes its version in `updater_versions`. `Update` records the
  manager's old set under the new version as it is (`merge/update.go:162`), so
  `OwnedFieldsExist` fails.
- Where there are several versions, fields are flat in `updater_versions`. Of a map
  whose item is owned at one version and the item's field at another,
  `OwnedItemsAddedBack` fails, since the versions are visited one by one. The comment
  at `merge/update.go:245` promises to add back whatever other managers own.
- Numbers in `path_elements` are those that floats represent. Beyond their precision
  `Compare` (`value/value.go:272`) is not transitive.
- Structs in `map_views` are settable and no field is set to null. A struct that is
  an item of a Go map is replaced by one with only the one field set
  (`value/structreflect.go:93`), and `Set` of null deletes a key of a Go map but stores
  null in an unstructured one.

Other places where comments say more than the code does, found while modelling:

- A field that nobody owns goes with its parent when the version of its owner has
  vanished. The comment at `merge/update.go:305` speaks of unowned fields that are kept,
  but only what the manager did not apply is. `RemovedRootsWereApplied` states what
  does hold: Apply removes a field together with something around it only if its
  manager applied something there.
- An item with duplicates on one side and without on the other is both added and
  removed (`typed/compare.go:314`), although the comment at line 30 says that no field
  is in more than one of the sets. `ComparisonsAreRight` has it as the code does.

`Difference` of tries is plain set difference (`PathSets`); the comment at
`fieldpath/set.go:91`, "child - parent = {empty set}", does not describe it.

### Bounds

Each instance is the smallest one in which its cases occur: two appliers and an
updater are needed for ownership to pass between managers that must not notice
each other; two versions for names to differ, a third for the loop to have a choice;
two levels below the root for parents that are items and parents that are fields.
`MaxInserts = 3` is what transitivity needs. Calls are bounded in `ReflectCache`
(`MaxCalls`), where every call allocates entries, and in `CompareWalk`
(`MaxCalls = 2`, `NumWalkers = 2`): two calls can run at once on two walkers, or one
after the other on one walker. `FreelistMaxSize = 2` lets the freelist be empty, in
use and full. `CHECK_DEADLOCK FALSE` is set in three configurations: there, calls run
out (`ReflectCache`, `CompareWalk`) or the loop has ended (`ListMerge`).

### Fairness

- `Updater`, `FieldSet`, `PathElements`, `CompareWalk`, `MapViews`: none; only safety is
  stated.
- `SortedSet`, `ListMerge`: weak fairness of the loop.
- `ReflectCache`: weak fairness of each goroutine's steps. The lock is taken once
  per call and calls are bounded.
- `SchemaCache`: weak fairness of each goroutine, strong fairness of taking the
  lock, since Go's mutex hands itself over to a goroutine that has waited too long.

## Proofs

`UpdaterProofs`, and `OwnerProofs` which extends it, prove about `Updater`, for all
trees of paths, managers, versions, ignored fields, schemas and inputs that satisfy the
assumptions of `TypedObject` and `Updater` (the paths above a path form a chain of
containers; conversions are renamings that keep the tree; inputs are well-formed
objects):

- `TypeCorrect` (in `UpdaterProofs`): from lemmas that `Merge`, `RemoveItems` and
  conversion return well-formed objects, one step per action.
- `ManagedSetsNotEmpty`, `IgnoredFieldsNeverOwned`, `VersionsServedInApply`
  (`UpdaterProofs`): from the inductive invariant `OwnershipInv`. The three are not
  inductive by themselves, because an `Apply` carries managed fields of its own between
  its steps. `InFlight` says of these that they own nothing ignored, are reconciled with
  the schema in force, and that the other managers in them are the caller's.
- `ChangesChangeOwner`, `UnforcedApplyIsPeaceful` (`OwnerProofs`): action properties
  from the same invariant. Their core is the lemma `NotComparedUntouched`: what
  `Compare` does not mention has not changed. It needs sets that reach into no atomic
  field, which is what reconciliation provides.
- `PruneSparesTheRest` (`UpdaterProofs`): the topmost field of whatever an `Apply`
  removes is one that its manager applied last, or a named field around one.

Two more theorems need further facts about the tree of paths (`TreeAssumption`:
prefixes of a path are prefixes of each other, and no branch is endless) and
restrictions on the inputs, which are hypotheses of the theorems:

- `ConfigSurvivesApply` (`OwnerProofs`): if no input has an empty list
  (`NoInputHasEmptyLists`), `AppliedConfigHolds`. The invariant `ApplyInv` says that no
  object has empty lists and, of an `Apply` under way, that the merged object holds the
  configuration, that pruning has only removed from it, and that what is applied is in
  the pruned object as soon as the loop has visited the version of the `Apply`. The core
  is the lemma `PruneStep`: a round of the loop, which removes from the merged object
  what is neither in the pruned one nor owned, loses nothing of the pruned one. This is
  where empty lists matter: `ToFieldSet` does not mention them.
- `OwnedIsInObject` (`OwnerProofs`): if moreover updaters keep to their version
  (`UpdatersKeepVersion`), `OwnedFieldsExist`. The invariant `ExistInv` adds that
  managers own at versions that they call with, and that what the others own in an
  `Apply` under way is in the object that it started from.

`SliceProofs` proves about `SortedSet` that slices stay strictly sorted and
that the loops of `Union`, `Intersection` and `Difference` compute the set
operations (`SlicesStaySorted`, `LoopsAreRight`), for slices of any length. The
invariant `IInv` says that the output consists of what the operation selects from
the parts of the slices that the indices have passed, and that neither index has
run ahead of the other.

The same module has the proofs about `ListMerge`, whose specification is `MergeSpec`, for
lists of any length:

- `MergeKeepsEveryItem`: `MergeInv` says that the items that the indices have passed are
  out, in order, if they are of the right list or missing from it. Neither `shared` nor
  `merged` matters for it.
- `MergeKeepsOrder`: if neither list has duplicates and they agree on the order of what
  they share (`Agreed`), the items of the left list keep their order. `OrderInv` says that
  the loop passes the two occurrences of a shared item in the same round, that what is
  wanted next (`shared`) is the first shared item that the right index has not passed, and
  that all that is in `merged` was passed. It follows that the branch which skips a left
  item (`SkipLHS`) is never taken for such lists, and that an item of the right list is
  taken by itself only if the left list lacks it.

Four modules prove about `CompareWalk`, for any schema, pairs of objects, number of
goroutines, calls and root walkers and any `FreelistMaxSize`. The assumptions are those
of `WalkAssumption`: an object that has a node has those above it, and the items of lists
are scalars, which is the part of `typed/compare.go` that the module models.

- `WalkInvariant` (`CompareWalkProofs`): the invariant `WalkInv`. Each running call has a
  root walker to itself (`UseInv`). The walkers of a call are at a node, a child of it,
  and so on, and the path of each reads as its node in the buffer that they share. The
  elements of a path may be pointers to values; those are settled: neither free nor held
  by an iteration, which would write them again. The values that iterations hold are not
  free, and none is held twice (`CallInv` of `WalkerProofs`). `FreeValuesAreFree` and
  `WalkersKeepTheirNodes` follow. Neither is inductive alone: a path keeps reading as its
  node only if the values in it are not reused, and a value can only be freed safely if no
  path has come to depend on it. Every step of a call is shown to be a `CallStep`, which
  changes one root walker and one stack; that the calls of other goroutines do not notice
  follows from this alone.
- `ReportInvariant`, `ReportsAreRight` (`ComparisonProofs`, over the lemmas of
  `ReportProofs` about one call): what a call has put into its comparison are differences
  of its objects, and any other difference is still open, that is, a walker on the stack
  has yet to get to it. When the stack is empty nothing is open. A path in a comparison
  holds pointers to values, so `ReportInv` adds that these values are settled: in no
  freelist and not to be written by the call that holds the walker now. This is why a
  comparison that was returned reads the same after the walker went to other goroutines.

`CacheProofs` proves about `ReflectCache` the theorems `EntriesAreFinished`,
`ReturnedStaysCached` and `UpdatesAreNotLost` for any number of goroutines and calls and
any graph of types. The invariant describes a call under way: the entries it has
allocated are those in its updates, each pointer in them is either still pending or leads
to a finished entry or to one of its own, and under the lock nothing is pending and the
snapshot is the cache. So the whole set of new entries becomes visible at once.

About `SchemaCache`, whose specification is `SchemaSpec`, it proves `LookupsAreRight` and `IndexesStayFixed` if no map type is
referred to both with and without an override (`Separate`, which also says that names
are distinct). The invariant says that every index has one owner and one builder
and is complete when it is done, and that a definition that is copied is
never searched itself. `schema_race` shows that the hypothesis is needed.

Only model-checked are: liveness (`MergeTerminates` and the like), which is out of the
prover's reach; `OwnedItemsAddedBack`, which holds in the instances of the runs and not in
general; and `FieldSet`, `PathElements` and `MapViews`, whose tries, values and structs
are recursive data: what their recursive operators compute needs induction over data,
and so does the refinement of `PathSets`.

## Not modelled

The parser, equality of schemas, the schema of schemas and the command line tool: no
state, or input and output only. Of the values, lists and scalars, nil pointers in
structs and conversions of Go types: what they do is up to Go's reflection. Deduced and
untyped fields, `ExtractItems`, errors of validation and of conversions,
`returnInputOnNoop`, text and JSON bytes, NaN and negative numbers.
`ManagedFields.Equals`, `Copy` and `Difference`, which no operation of the updater uses.
The walkers of merge, remove and validation share their design with the one of
`CompareWalk` and are modelled by their results; the path buffer of `Set.Iterate`
(`fieldpath/set.go:187`) and the copies that `merge/conflict.go:108` makes of it are not
modelled.

## Plan

1. `ExtractItems`, and `ManagedFields.Equals` and `Difference`.
2. Structs that are items of Go maps in `MapViews`, and lists.
3. An abstract specification of ownership (who owns which field, and conflicts)
   with `Updater` as a refinement.
4. Lists of maps in `CompareWalk`, whose items have walkers of their own.
