---------------------------- MODULE ReflectCache ----------------------------
(***************************************************************************)
(* The cache of package value for what reflection finds out about types.   *)
(* Goroutines read a snapshot of it without a lock, build the entries that *)
(* they miss, and merge them into a copy of the cache under a mutex.  An   *)
(* entry has a pointer per field to the entry of the field's type, and     *)
(* types may refer to each other in cycles.                                *)
(***************************************************************************)
EXTENDS Naturals

CONSTANTS
    Proc,     \* goroutines
    Type,     \* Go types
    Fields,   \* Fields[t]: the types of the fields of t
    MaxCalls  \* bound on the calls of a goroutine

ASSUME CacheAssumption == Fields \in [Type -> SUBSET Type] /\ MaxCalls \in Nat

VARIABLES
    cache,    \* typeReflectCache.value: entries by type
    heap,     \* heap[x][f]: the pointer in entry x for field type f
    holder,   \* typeReflectCache.mu: the set of its holder
    call      \* call[p]: the call that goroutine p makes, or made last

vars == <<cache, heap, holder, call>>

Nil == [nil |-> TRUE]

NoEntries == [t \in {} |-> Nil]

(* m with the entries of updates, which win. *)
WithUpdates(m, updates) ==
    [t \in DOMAIN m \cup DOMAIN updates |->
        IF t \in DOMAIN updates THEN updates[t] ELSE m[t]]

(* An entry is identified by who allocated it when, and for which type. *)
NewEntry(p, t) == [by |-> p, call |-> call[p].count, type |-> t]

Init ==
    /\ cache = NoEntries
    /\ heap = NoEntries
    /\ holder = {}
    /\ call = [p \in Proc |-> [pc |-> "idle", count |-> 0]]

(* TypeReflectEntryOf loads the cache and, if it has the type, returns. *)
TypeReflectEntryOf(p, t) ==
    /\ call[p].pc \in {"idle", "returned"}
    /\ call[p].count < MaxCalls
    /\ call' = [call EXCEPT ![p] =
                  IF t \in DOMAIN cache
                  THEN [pc |-> "returned", count |-> @.count + 1, type |-> t,
                        result |-> cache[t]]
                  ELSE [pc |-> "start", count |-> @.count + 1, type |-> t,
                        snapshot |-> cache, updates |-> NoEntries, pending |-> {}]]
    /\ UNCHANGED <<cache, heap, holder>>

(* p allocates an entry for t, whose pointers are yet to be resolved. *)
Allocate(p, t, h) ==
    WithUpdates(h, [x \in {NewEntry(p, t)} |-> [f \in Fields[t] |-> Nil]])

Build(p) ==
    LET t == call[p].type
    IN  /\ call[p].pc = "start"
        /\ heap' = Allocate(p, t, heap)
        /\ call' = [call EXCEPT ![p].pc = "build",
                                ![p].updates = [u \in {t} |-> NewEntry(p, t)],
                                ![p].pending = {<<NewEntry(p, t), f>> : f \in Fields[t]}]
        /\ UNCHANGED <<cache, holder>>

(* Mutant: an entry under construction is not found in updates. *)
ResolveWithoutUpdates(p, x, f) ==
    LET c == call[p]
    IN  /\ c.pc = "build"
        /\ <<x, f>> \in c.pending
        /\ \/ /\ f \in DOMAIN c.snapshot
              /\ heap' = [heap EXCEPT ![x][f] = c.snapshot[f]]
              /\ call' = [call EXCEPT ![p].pending = @ \ {<<x, f>>}]
           \/ /\ f \notin DOMAIN c.snapshot
              /\ heap' = Allocate(p, f, [heap EXCEPT ![x][f] = NewEntry(p, f)])
              /\ call' = [call EXCEPT
                            ![p].updates = WithUpdates(@, [u \in {f} |-> NewEntry(p, f)]),
                            ![p].pending = (@ \ {<<x, f>>}) \cup
                                             {<<NewEntry(p, f), g>> : g \in Fields[f]}]
        /\ UNCHANGED <<cache, holder>>

(* The pointer of entry x for field type f: an entry that is known is      *)
(* shared, any other is allocated and its own pointers are resolved next.  *)
ResolvePointer(p, x, f) ==
    LET c == call[p]
    IN  /\ c.pc = "build"
        /\ <<x, f>> \in c.pending
        /\ \/ /\ f \in DOMAIN c.snapshot
              /\ heap' = [heap EXCEPT ![x][f] = c.snapshot[f]]
              /\ call' = [call EXCEPT ![p].pending = @ \ {<<x, f>>}]
           \/ /\ f \notin DOMAIN c.snapshot
              /\ f \in DOMAIN c.updates
              /\ heap' = [heap EXCEPT ![x][f] = c.updates[f]]
              /\ call' = [call EXCEPT ![p].pending = @ \ {<<x, f>>}]
           \/ /\ f \notin DOMAIN c.snapshot \cup DOMAIN c.updates
              /\ heap' = Allocate(p, f, [heap EXCEPT ![x][f] = NewEntry(p, f)])
              /\ call' = [call EXCEPT
                            ![p].updates = WithUpdates(@, [u \in {f} |-> NewEntry(p, f)]),
                            ![p].pending = (@ \ {<<x, f>>}) \cup
                                             {<<NewEntry(p, f), g>> : g \in Fields[f]}]
        /\ UNCHANGED <<cache, holder>>

(* Mutant: entries are published before their pointers are resolved. *)
LockBeforeResolved(p) ==
    /\ call[p].pc = "build"
    /\ holder = {}
    /\ holder' = {p}
    /\ call' = [call EXCEPT ![p].pc = "locked"]
    /\ UNCHANGED <<cache, heap>>

(* typeReflectCache.update, with the entries all built. *)
Lock(p) ==
    /\ call[p].pc = "build"
    /\ call[p].pending = {}
    /\ holder = {}
    /\ holder' = {p}
    /\ call' = [call EXCEPT ![p].pc = "locked"]
    /\ UNCHANGED <<cache, heap>>

(* Mutant: the snapshot from before the lock is taken for the cache. *)
StaleLoad(p) ==
    /\ call[p].pc = "locked"
    /\ call' = [call EXCEPT ![p].pc = "loaded"]
    /\ UNCHANGED <<cache, heap, holder>>

Load(p) ==
    /\ call[p].pc = "locked"
    /\ call' = [call EXCEPT ![p].pc = "loaded", ![p].snapshot = cache]
    /\ UNCHANGED <<cache, heap, holder>>

(* Mutant: one type that is already there makes update bail out. *)
StoreIfAllNew(p) ==
    /\ call[p].pc = "loaded"
    /\ cache' = IF DOMAIN call[p].updates \cap DOMAIN call[p].snapshot # {} THEN cache
                ELSE WithUpdates(call[p].snapshot, call[p].updates)
    /\ holder' = {}
    /\ call' = [call EXCEPT ![p] = [pc |-> "returned", count |-> @.count, type |-> @.type,
                                    result |-> @.updates[@.type]]]
    /\ UNCHANGED heap

(* The new map is stored unless it would have no new types. *)
StoreAndUnlock(p) ==
    /\ call[p].pc = "loaded"
    /\ cache' = IF DOMAIN call[p].updates \subseteq DOMAIN call[p].snapshot THEN cache
                ELSE WithUpdates(call[p].snapshot, call[p].updates)
    /\ holder' = {}
    /\ call' = [call EXCEPT ![p] = [pc |-> "returned", count |-> @.count, type |-> @.type,
                                    result |-> @.updates[@.type]]]
    /\ UNCHANGED heap

Step(p) ==
    \/ Build(p)
    \/ \E x \in DOMAIN heap : \E f \in DOMAIN heap[x] : ResolvePointer(p, x, f)
    \/ Lock(p)
    \/ Load(p)
    \/ StoreAndUnlock(p)

Next ==
    \E p \in Proc : \/ \E t \in Type : TypeReflectEntryOf(p, t)
                    \/ Step(p)

Spec == Init /\ [][Next]_vars /\ \A p \in Proc : WF_vars(Step(p))

-----------------------------------------------------------------------------
(* Entries that their goroutine no longer builds. *)
Finished ==
    {x \in DOMAIN heap : call[x.by].count = x.call => call[x.by].pc = "returned"}

(* Goroutines never see an entry under construction: the cache and what    *)
(* calls have returned hold finished entries of the right type only, and   *)
(* so do, transitively, the pointers in these.                             *)
NoHalfBuiltEntries ==
    /\ \A t \in DOMAIN cache : cache[t] \in Finished /\ cache[t].type = t
    /\ \A p \in Proc : call[p].pc = "returned" =>
         call[p].result \in Finished /\ call[p].result.type = call[p].type
    /\ \A x \in Finished : \A f \in Fields[x.type] :
         heap[x][f] \in Finished /\ heap[x][f].type = f

(* No update of the cache is lost to a concurrent one, and nothing that a  *)
(* reader may hold is written any more.                                    *)
NothingLost ==
    [][/\ DOMAIN cache \subseteq DOMAIN cache'
       /\ \A x \in Finished : heap'[x] = heap[x]]_vars

(* A type that a call has returned is in the cache. *)
ReturnedIsCached ==
    \A p \in Proc : call[p].pc = "returned" => call[p].type \in DOMAIN cache

(* Every call returns, whatever the cycles between types.                  *)
CallsReturn ==
    \A p \in Proc : (call[p].pc = "start") ~> (call[p].pc = "returned")
=============================================================================
