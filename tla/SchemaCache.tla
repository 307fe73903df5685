----------------------------- MODULE SchemaCache -----------------------------
(***************************************************************************)
(* The lookups of schema/elements.go that goroutines share: FindNamedType  *)
(* and FindField build an index on their first call (sync.Once), and       *)
(* Resolve keeps, under the lock of the schema, copies of map types whose  *)
(* element relationship a reference overrides.  CopyInto shares the index  *)
(* of the map that it copies, if it finds one.                             *)
(***************************************************************************)
EXTENDS Naturals

CONSTANTS
    Goroutines,
    MapType,     \* names of types that are maps
    ScalarType,  \* names of types that are scalars
    Field,       \* names of the fields of each map
    Unknown,     \* a name that no type and no field has
    Plain,       \* the names to which there are references without an override
    Overridden   \* the names to which there are references with an override

ASSUME SchemaAssumption ==
    Plain \cup Overridden \subseteq MapType \cup ScalarType \cup {Unknown}

VARIABLES
    once,      \* once[o]: the sync.Once of index owner o
    ref,       \* ref[o]: the index (named by its builder) that o.m points to
    filled,    \* filled[i]: the names entered into index i so far
    lock,      \* Schema.lock: the set of its holder
    resolved,  \* Schema.resolvedTypes: the map types with a copy
    lookup     \* lookup[p]: the lookup that goroutine p makes

schemaVars == <<once, ref, filled, lock, resolved, lookup>>

Schema == <<"schema">>
Def(t) == <<t, "definition">>
Copy(t) == <<t, "copy">>
Owner == {Schema} \cup {Def(t) : t \in MapType} \cup {Copy(t) : t \in MapType}
NoIndex == <<>>  \* nil, in which a lookup finds nothing

Names(o) == IF o = Schema THEN MapType \cup ScalarType ELSE Field

Idle == [pc |-> "idle"]

SchemaInit ==
    /\ once = [o \in Owner |-> "fresh"]
    /\ ref = [o \in Owner |-> NoIndex]
    /\ filled = [i \in Owner \cup {NoIndex} |-> {}]
    /\ lock = {}
    /\ resolved = {}
    /\ lookup = [p \in Goroutines |-> Idle]

(* A caller resolves a reference to type t and then looks up field f. *)
Resolve(p, t, override, f) ==
    /\ lookup[p] = Idle
    /\ lookup' = [lookup EXCEPT ![p] =
                  [pc |-> IF override THEN "lock" ELSE "find", owner |-> Schema,
                   type |-> t, override |-> override, field |-> f, found |-> FALSE]]
    /\ UNCHANGED <<once, ref, filled, lock, resolved>>

LockSchema(p) ==
    /\ lookup[p].pc = "lock"
    /\ lock = {}
    /\ \/ /\ lookup[p].type \in resolved
          /\ lookup' = [lookup EXCEPT ![p].pc = "find", ![p].owner = Copy(lookup[p].type)]
          /\ UNCHANGED lock
       \/ /\ lookup[p].type \notin resolved
          /\ lock' = {p}
          /\ lookup' = [lookup EXCEPT ![p].pc = "find"]
    /\ UNCHANGED <<once, ref, filled, resolved>>

(* The first caller of FindNamedType or FindField makes the index. *)
OnceBegin(p) ==
    LET o == lookup[p].owner
    IN  /\ lookup[p].pc = "find"
        /\ once[o] = "fresh"
        /\ once' = [once EXCEPT ![o] = "running"]
        /\ ref' = [ref EXCEPT ![o] = o]
        /\ lookup' = [lookup EXCEPT ![p].pc = "fill"]
        /\ UNCHANGED <<filled, lock, resolved>>

Fill(p, name) ==
    LET o == lookup[p].owner
    IN  /\ lookup[p].pc = "fill"
        /\ name \in Names(o) \ filled[o]
        /\ filled' = [filled EXCEPT ![o] = @ \cup {name}]
        /\ UNCHANGED <<once, ref, lock, resolved, lookup>>

(* Mutant: the index counts as made before it is filled. *)
OnceEndEarly(p) ==
    LET o == lookup[p].owner
    IN  /\ lookup[p].pc = "fill"
        /\ once' = [once EXCEPT ![o] = "done"]
        /\ lookup' = [lookup EXCEPT ![p].pc = IF filled[o] = Names(o) THEN "find" ELSE "fill"]
        /\ UNCHANGED <<ref, filled, lock, resolved>>

OnceEnd(p) ==
    LET o == lookup[p].owner
    IN  /\ lookup[p].pc = "fill"
        /\ filled[o] = Names(o)
        /\ once' = [once EXCEPT ![o] = "done"]
        /\ lookup' = [lookup EXCEPT ![p].pc = "find"]
        /\ UNCHANGED <<ref, filled, lock, resolved>>

(* Everybody else waits for the index and reads it through the pointer. *)
IsFound(p, name) == name \in filled[ref[lookup[p].owner]]

(* Mutant: an error path keeps the lock. *)
KeepLock(p) == lock

Unlock(p) == lock \ {p}

(* The outcome of FindNamedType: resolution fails for a type that is not   *)
(* found and for an overridden scalar, and goes on with a map otherwise.   *)
FindNamedType(p) ==
    LET c == lookup[p]
        fails == ~ IsFound(p, c.type) \/ (c.override /\ c.type \in ScalarType)
    IN  /\ c.pc = "find" /\ c.owner = Schema
        /\ once[Schema] = "done"
        /\ \/ /\ fails \/ c.type \in ScalarType
              /\ lock' = Unlock(p)
              /\ lookup' = [lookup EXCEPT ![p].pc = "returned", ![p].found = ~ fails]
           \/ /\ ~ fails /\ c.type \in MapType
              /\ lookup' = [lookup EXCEPT ![p].pc = IF c.override THEN "copy" ELSE "find",
                                      ![p].owner = Def(c.type)]
              /\ UNCHANGED lock
        /\ UNCHANGED <<once, ref, filled, resolved>>

(* CopyInto takes over the index of the definition, if there is one, and   *)
(* with it the once; Resolve saves the copy and unlocks.                   *)
CopyInto(p) ==
    LET t == lookup[p].type
        index == ref[Def(t)]
    IN  /\ lookup[p].pc = "copy"
        /\ ref' = [ref EXCEPT ![Copy(t)] = index]
        /\ once' = [once EXCEPT ![Copy(t)] = IF index = NoIndex THEN "fresh" ELSE "done"]
        /\ resolved' = resolved \cup {t}
        /\ lock' = Unlock(p)
        /\ lookup' = [lookup EXCEPT ![p].pc = "find", ![p].owner = Copy(t)]
        /\ UNCHANGED filled

FindField(p) ==
    /\ lookup[p].pc = "find" /\ lookup[p].owner # Schema
    /\ once[lookup[p].owner] = "done"
    /\ lookup' = [lookup EXCEPT ![p].pc = "returned", ![p].found = IsFound(p, lookup[p].field)]
    /\ UNCHANGED <<once, ref, filled, lock, resolved>>

Return(p) ==
    /\ lookup[p].pc = "returned"
    /\ lookup' = [lookup EXCEPT ![p] = Idle]
    /\ UNCHANGED <<once, ref, filled, lock, resolved>>

LookupStep(p) ==
    \/ LockSchema(p)
    \/ OnceBegin(p)
    \/ \E name \in MapType \cup ScalarType \cup Field : Fill(p, name)
    \/ OnceEnd(p)
    \/ FindNamedType(p)
    \/ CopyInto(p)
    \/ FindField(p)
    \/ Return(p)

SchemaNext ==
    \E p \in Goroutines :
        \/ \E t \in Plain, f \in Field \cup {Unknown} : Resolve(p, t, FALSE, f)
        \/ \E t \in Overridden, f \in Field \cup {Unknown} : Resolve(p, t, TRUE, f)
        \/ LookupStep(p)

(* Each goroutine goes on, and Go's mutexes starve no one. *)
SchemaSpec ==
    /\ SchemaInit /\ [][SchemaNext]_schemaVars
    /\ \A p \in Goroutines : WF_schemaVars(LookupStep(p)) /\ SF_schemaVars(LockSchema(p))

-----------------------------------------------------------------------------
(* FindField and FindNamedType return what is referenced "if it exists":   *)
(* whoever builds or shares the indexes, a lookup finds a field of a map   *)
(* that the schema defines, a scalar without an override, and only these.  *)
LookupsFindWhatExists ==
    \A p \in Goroutines : lookup[p].pc = "returned" =>
        (lookup[p].found <=>
            \/ lookup[p].type \in MapType /\ lookup[p].field \in Field
            \/ lookup[p].type \in ScalarType /\ ~ lookup[p].override)

(* An index that a caller may read without waiting is never written and    *)
(* never exchanged for another one: types count as immutable.              *)
IndexesInUseAreFixed ==
    [][\A o \in Owner : once[o] = "done" =>
          /\ once'[o] = "done"
          /\ ref'[o] = ref[o]
          /\ filled'[ref[o]] = filled[ref[o]]]_schemaVars

(* Every lookup returns: no error path keeps the lock, and waiting for an  *)
(* index while holding the lock cannot block the goroutine that builds it. *)
LookupsReturn ==
    \A p \in Goroutines : (lookup[p].pc # "idle") ~> (lookup[p].pc = "returned")
=============================================================================
