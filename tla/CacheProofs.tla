---------------------------- MODULE CacheProofs -----------------------------
(***************************************************************************)
(* Caches that goroutines share.  That of reflection entries is right for  *)
(* every number of goroutines and calls and for types that refer to each   *)
(* other in any way.  Lookups in a shared schema are right for every       *)
(* number of goroutines, types and fields, provided that no map type is    *)
(* referred to both with and without an override: then no index is shared  *)
(* with a copy, which is what the run SchemaRace needs to go wrong.        *)
(***************************************************************************)
EXTENDS ReflectCache, SchemaCache, Sequences, TLAPS

Entry == [by : Proc, call : Nat, type : Type]

(* Entries by type: the cache, snapshots of it, and updates. *)
EntryMap == UNION {[S -> Entry] : S \in SUBSET Type}

IdleCall == [pc : {"idle"}, count : Nat]

DoneCall == [pc : {"returned"}, count : Nat, type : Type, result : Entry]

OpenCall ==
    [pc : {"start", "build", "locked", "loaded"}, count : Nat, type : Type,
     snapshot : EntryMap, updates : EntryMap, pending : SUBSET (Entry \X Type)]

TypeInv ==
    /\ cache \in EntryMap
    /\ heap = [x \in DOMAIN heap |-> heap[x]]
    /\ DOMAIN heap \subseteq Entry
    /\ \A x \in DOMAIN heap : heap[x] \in [Fields[x.type] -> Entry \cup {Nil}]
    /\ holder \in SUBSET Proc
    /\ call \in [Proc -> IdleCall \cup DoneCall \cup OpenCall]

IsOpen(p) == call[p].pc \in {"start", "build", "locked", "loaded"}

(* The entries that the call of p has allocated so far. *)
Own(p) == {x \in DOMAIN heap : x.by = p /\ x.call = call[p].count}

(* Entries are of calls that were made, and have begun to build. *)
AgeInv ==
    \A x \in DOMAIN heap :
        /\ x.call <= call[x.by].count
        /\ x.call = call[x.by].count => call[x.by].pc \notin {"idle", "start"}

(* A map of finished entries of the right types. *)
AllFinished(m) == \A t \in DOMAIN m : m[t] \in Finished /\ m[t].type = t

(* The pointer of x for f is resolved. *)
Resolved(p, x, f) ==
    heap[x][f] \in Finished \cup Own(p) /\ heap[x][f].type = f

(* updates has the entries of the call, and pending their open pointers. *)
BuildInv(p) ==
    /\ call[p].type \in DOMAIN call[p].updates
    /\ \A t \in DOMAIN call[p].updates :
         call[p].updates[t] \in Own(p) /\ call[p].updates[t].type = t
    /\ \A x \in Own(p) : x.type \in DOMAIN call[p].updates
    /\ \A x \in Own(p) : \A f \in Fields[x.type] :
         <<x, f>> \in call[p].pending \/ Resolved(p, x, f)
    /\ \A y \in call[p].pending : y[1] \in Own(p) /\ y[2] \in Fields[y[1].type]

CallInv(p) ==
    /\ IsOpen(p) => AllFinished(call[p].snapshot)
    /\ IsOpen(p) /\ call[p].pc # "start" => BuildInv(p)
    /\ call[p].pc \in {"locked", "loaded"} => holder = {p} /\ call[p].pending = {}
    /\ call[p].pc = "loaded" => call[p].snapshot = cache

IInv ==
    /\ TypeInv
    /\ AgeInv
    /\ \A p \in Proc : CallInv(p)
    /\ NoHalfBuiltEntries
    /\ ReturnedIsCached

-----------------------------------------------------------------------------
(* What is in a map of entries. *)
LEMMA EntryMapFacts ==
    ASSUME NEW m \in EntryMap
    PROVE  /\ DOMAIN m \subseteq Type
           /\ \A t \in DOMAIN m : m[t] \in Entry
BY Zenon DEF EntryMap

(* The maps that the actions build are maps of entries. *)
LEMMA EntryMaps ==
    /\ NoEntries \in EntryMap
    /\ \A t \in Type, x \in Entry : [u \in {t} |-> x] \in EntryMap
    /\ \A m, n \in EntryMap : WithUpdates(m, n) \in EntryMap
<1>1. NoEntries \in EntryMap
  <2>1. NoEntries \in [{} -> Entry]
    BY Zenon DEF NoEntries
  <2> QED BY Zenon, <2>1 DEF EntryMap
<1>2. ASSUME NEW t \in Type, NEW x \in Entry PROVE [u \in {t} |-> x] \in EntryMap
  <2>1. [u \in {t} |-> x] \in [{t} -> Entry]
    BY Zenon
  <2> QED BY Zenon, <2>1 DEF EntryMap
<1>3. ASSUME NEW m \in EntryMap, NEW n \in EntryMap PROVE WithUpdates(m, n) \in EntryMap
  <2>1. DOMAIN m \cup DOMAIN n \in SUBSET Type
    BY Zenon, EntryMapFacts
  <2>2. WithUpdates(m, n) \in [DOMAIN m \cup DOMAIN n -> Entry]
    BY Zenon, EntryMapFacts DEF WithUpdates
  <2> QED BY Zenon, <2>1, <2>2 DEF EntryMap
<1> QED BY Zenon, <1>1, <1>2, <1>3

(* A goroutine in the middle of a call. *)
LEMMA Opened ==
    ASSUME TypeInv, NEW p \in Proc, IsOpen(p)
    PROVE  call[p] \in OpenCall
BY Zenon DEF TypeInv, IsOpen, IdleCall, DoneCall

(* What a step of p leaves alone. *)
Frame(p) ==
    /\ \A q \in Proc \ {p} : call'[q] = call[q]
    /\ DOMAIN heap \subseteq DOMAIN heap'
    /\ \A x \in DOMAIN heap' \ DOMAIN heap : x.by = p
    /\ \A x \in DOMAIN heap : x.by # p => heap'[x] = heap[x]
    /\ Finished \subseteq Finished'

(* Then the other goroutines can go on with what they have built. *)
LEMMA FrameKeeps ==
    ASSUME IInv, NEW p \in Proc, Frame(p), NEW q \in Proc \ {p}
    PROVE  /\ IsOpen(q) => AllFinished(call[q].snapshot)'
           /\ IsOpen(q) /\ call[q].pc # "start" => BuildInv(q)'
<1>1. Own(q)' = Own(q)
  BY Zenon DEF Frame, Own
<1>2. IsOpen(q) => AllFinished(call[q].snapshot)'
  BY DEF IInv, CallInv, AllFinished, Frame
<1>3. ASSUME IsOpen(q), call[q].pc # "start" PROVE BuildInv(q)'
  <2>1. BuildInv(q)
    BY Zenon, <1>3 DEF IInv, CallInv
  <2>2. ASSUME NEW x \in Own(q), NEW f \in Fields[x.type],
               <<x, f>> \notin call[q].pending
        PROVE  Resolved(q, x, f)'
    <3>1. Resolved(q, x, f)
      BY Zenon, <2>1, <2>2 DEF BuildInv
    <3>2. heap'[x] = heap[x]
      BY Zenon, <2>2 DEF Frame, Own
    <3> QED BY Zenon, <1>1, <3>1, <3>2 DEF Frame, Resolved
  <2> QED BY Zenon, <1>1, <2>1, <2>2 DEF BuildInv, Frame
<1> QED BY Zenon, <1>2, <1>3

(* The empty cache. *)
LEMMA InitInv == Init => IInv
<1> SUFFICES ASSUME Init PROVE IInv
  BY Zenon
<1>1. TypeInv
  BY Zenon, EntryMaps DEF Init, TypeInv, NoEntries, IdleCall
<1>2. AgeInv /\ NoHalfBuiltEntries /\ ReturnedIsCached
  BY Zenon DEF Init, NoEntries, AgeInv, NoHalfBuiltEntries, ReturnedIsCached,
     Finished
<1>3. \A p \in Proc : CallInv(p)
  BY Zenon DEF Init, CallInv, IsOpen
<1> QED BY Zenon, <1>1, <1>2, <1>3 DEF IInv

(* Nothing happens. *)
LEMMA StutterKeeps == ASSUME IInv, UNCHANGED vars PROVE IInv'
<1>1. TypeInv' /\ AgeInv'
  BY Zenon DEF vars, IInv, TypeInv, AgeInv
<1>2. NoHalfBuiltEntries' /\ ReturnedIsCached'
  BY DEF vars, IInv, Finished, NoHalfBuiltEntries, ReturnedIsCached
<1>3. ASSUME NEW p \in Proc PROVE CallInv(p)'
  <2>1. CallInv(p) /\ (IsOpen(p)' <=> IsOpen(p))
    BY Zenon DEF vars, IInv, IsOpen
  <2>2. \A m : AllFinished(m) => AllFinished(m)'
    BY Zenon DEF vars, AllFinished, Finished
  <2>3. BuildInv(p) => BuildInv(p)'
    BY DEF vars, BuildInv, Own, Resolved, Finished
  <2> QED BY Zenon, <2>1, <2>2, <2>3 DEF vars, CallInv
<1> QED BY Zenon, <1>1, <1>2, <1>3 DEF IInv

(* A call begins: with a hit of the cache, or a snapshot of it. *)
LEMMA CallBegins ==
    ASSUME IInv, NEW p \in Proc, NEW t \in Type, TypeReflectEntryOf(p, t)
    PROVE  IInv'
<1> DEFINE n == call[p].count + 1
           hit == [pc |-> "returned", count |-> n, type |-> t, result |-> cache[t]]
           miss == [pc |-> "start", count |-> n, type |-> t, snapshot |-> cache,
                    updates |-> NoEntries, pending |-> {}]
<1>1. /\ call[p].pc \in {"idle", "returned"}
      /\ call' = [call EXCEPT ![p] = IF t \in DOMAIN cache THEN hit ELSE miss]
      /\ cache' = cache /\ heap' = heap /\ holder' = holder
  BY Zenon DEF TypeReflectEntryOf
<1>2. call \in [Proc -> IdleCall \cup DoneCall \cup OpenCall] /\ n \in Nat
      /\ call[p].count \in Nat /\ cache \in EntryMap
  BY DEF IInv, TypeInv, IdleCall, DoneCall, OpenCall
<1>3. /\ t \in DOMAIN cache => hit \in DoneCall
      /\ miss \in OpenCall
  BY Zenon, <1>2, EntryMapFacts, EntryMaps DEF DoneCall, OpenCall
<1> HIDE DEF hit, miss, n
<1>4. /\ t \in DOMAIN cache => call'[p] = hit
      /\ t \notin DOMAIN cache => call'[p] = miss
      /\ \A q \in Proc \ {p} : call'[q] = call[q]
  BY Zenon, <1>1, <1>2
<1>5. TypeInv'
  BY Zenon, <1>1, <1>2, <1>3 DEF IInv, TypeInv
<1>6. call'[p].count = call[p].count + 1 /\ call'[p].pc \in {"returned", "start"}
  BY <1>4 DEF hit, miss, n
<1>7. \A x \in DOMAIN heap : x.by \in Proc /\ x.call \in Nat /\ x.type \in Type
  BY Zenon DEF IInv, TypeInv, Entry
<1>8. AgeInv' /\ Finished \subseteq Finished'
  BY <1>1, <1>2, <1>4, <1>6, <1>7 DEF IInv, AgeInv, Finished
<1>9. Finished' \subseteq Finished
  BY Zenon, <1>1, <1>2, <1>4, <1>6, <1>7 DEF IInv, AgeInv, Finished
<1>10. Frame(p)
  BY Zenon, <1>1, <1>4, <1>8 DEF Frame
<1>11. ASSUME NEW q \in Proc PROVE CallInv(q)'
  <2>1. CASE q = p
    BY <2>1, <1>1, <1>4, <1>8 DEF CallInv, IsOpen, hit, miss, AllFinished, IInv,
       NoHalfBuiltEntries
  <2>2. CASE q # p
    BY Zenon, <2>2, <1>1, <1>4, <1>10, FrameKeeps DEF IInv, CallInv, IsOpen
  <2> QED BY Zenon, <2>1, <2>2
<1>12. NoHalfBuiltEntries'
  BY <1>1, <1>4, <1>8, <1>9 DEF IInv, NoHalfBuiltEntries, hit, miss
<1>13. ReturnedIsCached'
  BY <1>1, <1>4 DEF IInv, ReturnedIsCached, hit, miss
<1> QED BY Zenon, <1>5, <1>8, <1>11, <1>12, <1>13 DEF IInv

(* The mutex is taken once nothing is pending. *)
LEMMA LockKeeps ==
    ASSUME IInv, NEW p \in Proc, Lock(p)
    PROVE  IInv'
<1>1. call[p] \in OpenCall
  BY Zenon, Opened DEF IInv, Lock, IsOpen
<1>2. /\ call'[p] = [call[p] EXCEPT !.pc = "locked"]
      /\ \A q \in Proc \ {p} : call'[q] = call[q]
      /\ cache' = cache /\ heap' = heap
  BY Zenon DEF Lock, IInv, TypeInv
<1>3. TypeInv'
  BY <1>1 DEF Lock, IInv, TypeInv, OpenCall
<1>4. /\ call'[p].pc = "locked" /\ call'[p].count = call[p].count
      /\ call'[p].type = call[p].type /\ call'[p].snapshot = call[p].snapshot
      /\ call'[p].updates = call[p].updates /\ call'[p].pending = call[p].pending
  BY Zenon, <1>1, <1>2 DEF OpenCall
<1>5. \A x \in DOMAIN heap : x.by \in Proc
  BY Zenon DEF IInv, TypeInv, Entry
<1>6. AgeInv' /\ Finished' = Finished /\ Own(p)' = Own(p)
  BY <1>2, <1>4, <1>5 DEF Lock, IInv, AgeInv, Finished, Own
<1>7. Frame(p)
  BY Zenon, <1>2, <1>6 DEF Frame
<1>8. ASSUME NEW q \in Proc PROVE CallInv(q)'
  <2>1. CASE q = p
    BY <2>1, <1>2, <1>4, <1>6 DEF Lock, IInv, CallInv, IsOpen, AllFinished,
       BuildInv, Resolved
  <2>2. CASE q # p
    BY Zenon, <2>2, <1>2, <1>7, FrameKeeps DEF Lock, IInv, CallInv, IsOpen
  <2> QED BY Zenon, <2>1, <2>2
<1>9. NoHalfBuiltEntries' /\ ReturnedIsCached'
  BY ZenonT(30), <1>2, <1>4, <1>6 DEF IInv, NoHalfBuiltEntries, ReturnedIsCached
<1> QED BY Zenon, <1>3, <1>6, <1>8, <1>9 DEF IInv

(* The cache is read again under the mutex. *)
LEMMA LoadKeeps ==
    ASSUME IInv, NEW p \in Proc, Load(p)
    PROVE  IInv'
<1>1. call[p] \in OpenCall
  BY Zenon, Opened DEF IInv, Load, IsOpen
<1>2. /\ call'[p] = [call[p] EXCEPT !.pc = "loaded", !.snapshot = cache]
      /\ \A q \in Proc \ {p} : call'[q] = call[q]
      /\ cache' = cache /\ heap' = heap /\ holder' = holder
  BY Zenon DEF Load, IInv, TypeInv
<1>3. TypeInv'
  BY ZenonT(30), <1>1 DEF Load, IInv, TypeInv, OpenCall
<1>4. /\ call'[p].pc = "loaded" /\ call'[p].count = call[p].count
      /\ call'[p].type = call[p].type /\ call'[p].snapshot = cache
      /\ call'[p].updates = call[p].updates /\ call'[p].pending = call[p].pending
  BY Zenon, <1>1, <1>2 DEF OpenCall
<1>5. \A x \in DOMAIN heap : x.by \in Proc
  BY Zenon DEF IInv, TypeInv, Entry
<1>6. AgeInv' /\ Finished' = Finished /\ Own(p)' = Own(p)
  <2>1. call[p].pc = "locked"
    BY Zenon DEF Load
  <2>2. AgeInv'
    BY <2>1, <1>2, <1>4, <1>5 DEF IInv, AgeInv
  <2>3. Own(p)' = Own(p)
    BY Zenon, <1>2, <1>4 DEF Own
  <2>4. \A x \in DOMAIN heap : x \in Finished' <=> x \in Finished
    BY ZenonT(30), <2>1, <1>2, <1>4, <1>5 DEF Finished
  <2>5. Finished' \subseteq DOMAIN heap /\ Finished \subseteq DOMAIN heap
    BY Zenon, <1>2 DEF Finished
  <2> QED BY Zenon, <2>2, <2>3, <2>4, <2>5
<1>7. Frame(p)
  BY Zenon, <1>2, <1>6 DEF Frame
<1>8. ASSUME NEW q \in Proc PROVE CallInv(q)'
  <2>1. CASE q = p
    <3>1. call[p].pc = "locked" /\ CallInv(p)
      BY Zenon DEF Load, IInv
    <3>2. AllFinished(call[p].snapshot)'
      BY Zenon, <1>4, <1>6 DEF AllFinished, IInv, NoHalfBuiltEntries
    <3>3. BuildInv(p)'
      BY <1>2, <1>4, <1>6, <3>1 DEF CallInv, IsOpen, BuildInv, Resolved
    <3> QED BY Zenon, <2>1, <1>2, <1>4, <3>1, <3>2, <3>3 DEF CallInv
  <2>2. CASE q # p
    BY Zenon, <2>2, <1>2, <1>7, FrameKeeps DEF IInv, CallInv, IsOpen
  <2> QED BY Zenon, <2>1, <2>2
<1>9. NoHalfBuiltEntries'
  BY ZenonT(30), <1>2, <1>4, <1>6 DEF IInv, NoHalfBuiltEntries
<1>10. ReturnedIsCached'
  BY Zenon, <1>2, <1>4 DEF IInv, ReturnedIsCached
<1> QED BY Zenon, <1>3, <1>6, <1>8, <1>9, <1>10 DEF IInv

(* The entries of a call are published, all at once, and are finished. *)
LEMMA StoreKeeps ==
    ASSUME IInv, NEW p \in Proc, StoreAndUnlock(p)
    PROVE  IInv'
<1> DEFINE c == call[p]
           done == [pc |-> "returned", count |-> c.count, type |-> c.type,
                    result |-> c.updates[c.type]]
<1>1. c \in OpenCall /\ c.pc = "loaded"
  BY Zenon, Opened DEF IInv, StoreAndUnlock, IsOpen
<1>2. /\ AllFinished(cache) /\ BuildInv(p) /\ c.snapshot = cache
      /\ holder = {p} /\ c.pending = {}
  BY Zenon, <1>1 DEF IInv, CallInv, IsOpen
<1>3. /\ c.updates \in EntryMap /\ cache \in EntryMap /\ c.type \in Type
      /\ c.count \in Nat /\ c.updates[c.type] \in Entry
  BY Zenon, <1>1, <1>2, EntryMapFacts DEF OpenCall, IInv, TypeInv, BuildInv
<1>4. /\ call' = [call EXCEPT ![p] = done]
      /\ cache' = cache \/ cache' = WithUpdates(cache, c.updates)
      /\ DOMAIN cache' = DOMAIN cache \cup DOMAIN c.updates
      /\ heap' = heap /\ holder' = {}
  BY Zenon, <1>2 DEF StoreAndUnlock, WithUpdates
<1>5. done \in DoneCall
  BY Zenon, <1>3 DEF DoneCall
<1>6. /\ call'[p].pc = "returned" /\ call'[p].count = c.count
      /\ call'[p].type = c.type /\ call'[p].result = c.updates[c.type]
      /\ \A q \in Proc \ {p} : call'[q] = call[q]
  BY Zenon, <1>4 DEF IInv, TypeInv
<1>7. TypeInv'
  BY Zenon, <1>3, <1>4, <1>5, EntryMaps DEF IInv, TypeInv
<1>8. \A x \in DOMAIN heap : x.by \in Proc
  BY Zenon DEF IInv, TypeInv, Entry
<1>9. AgeInv'
  BY <1>1, <1>4, <1>6, <1>8 DEF IInv, AgeInv
<1>10. /\ Finished \subseteq Finished' /\ Own(p) \subseteq Finished'
       /\ Finished' \subseteq Finished \cup Own(p)
  <2>1. \A x \in DOMAIN heap : x \in Finished' <=> x \in Finished \/ x \in Own(p)
    BY Zenon, <1>1, <1>4, <1>6, <1>8 DEF Finished, Own
  <2>2. Finished' \subseteq DOMAIN heap /\ Finished \subseteq DOMAIN heap
        /\ Own(p) \subseteq DOMAIN heap
    BY Zenon, <1>4 DEF Finished, Own
  <2> QED BY Zenon, <2>1, <2>2
<1>11. Frame(p)
  BY Zenon, <1>4, <1>6, <1>10 DEF Frame
<1>12. ASSUME NEW q \in Proc PROVE CallInv(q)'
  <2>1. CASE q = p
    BY Zenon, <2>1, <1>6 DEF CallInv, IsOpen
  <2>2. CASE q # p
    <3>1. call[q].pc \notin {"locked", "loaded"}
      BY Zenon, <2>2, <1>2 DEF IInv, CallInv
    <3> QED BY Zenon, <2>2, <3>1, <1>6, <1>11, FrameKeeps DEF CallInv, IsOpen
  <2> QED BY Zenon, <2>1, <2>2
<1>13. NoHalfBuiltEntries'
  <2>1. \A t \in DOMAIN cache' : cache'[t] \in Finished' /\ cache'[t].type = t
    BY <1>2, <1>4, <1>10 DEF AllFinished, BuildInv, WithUpdates
  <2>2. \A q \in Proc : call'[q].pc = "returned" =>
          call'[q].result \in Finished' /\ call'[q].result.type = call'[q].type
    BY <1>2, <1>6, <1>10 DEF BuildInv, IInv, NoHalfBuiltEntries
  <2>3. ASSUME NEW x \in Finished', NEW f \in Fields[x.type]
        PROVE  heap'[x][f] \in Finished' /\ heap'[x][f].type = f
    BY <1>2, <1>4, <1>10 DEF BuildInv, Resolved, IInv, NoHalfBuiltEntries
  <2> QED BY Zenon, <2>1, <2>2, <2>3 DEF NoHalfBuiltEntries
<1>14. ReturnedIsCached'
  BY <1>2, <1>4, <1>6 DEF BuildInv, IInv, ReturnedIsCached
<1> QED BY Zenon, <1>7, <1>9, <1>12, <1>13, <1>14 DEF IInv

(* The first entry of a call is allocated. *)
LEMMA BuildKeeps ==
    ASSUME IInv, NEW p \in Proc, Build(p)
    PROVE  IInv'
<1> DEFINE c == call[p]
           t == c.type
           x0 == NewEntry(p, t)
<1>1. c \in OpenCall /\ c.pc = "start"
  BY Zenon, Opened DEF IInv, Build, IsOpen
<1>2. t \in Type /\ c.count \in Nat /\ Fields[t] \subseteq Type
  BY Zenon, <1>1, CacheAssumption DEF OpenCall
<1>3. x0 \in Entry /\ x0.by = p /\ x0.call = c.count /\ x0.type = t
  BY Zenon, <1>2 DEF NewEntry, Entry
<1>4. /\ call' = [call EXCEPT ![p] = [c EXCEPT
                   !.pc = "build", !.updates = [u \in {t} |-> x0],
                   !.pending = {<<x0, f>> : f \in Fields[t]}]]
      /\ heap' = Allocate(p, t, heap)
      /\ cache' = cache /\ holder' = holder
  BY Zenon DEF Build
<1> HIDE DEF x0
<1>5. Own(p) = {} /\ x0 \notin DOMAIN heap
  BY Zenon, <1>1, <1>3 DEF IInv, AgeInv, Own
<1>6. /\ DOMAIN heap' = DOMAIN heap \cup {x0}
      /\ heap'[x0] = [f \in Fields[t] |-> Nil]
      /\ \A y \in DOMAIN heap : heap'[y] = heap[y]
      /\ heap' = [y \in DOMAIN heap' |-> heap'[y]]
  <2>1. x0 = NewEntry(p, t)
    BY Zenon DEF x0
  <2> QED BY Zenon, <1>4, <1>5, <2>1 DEF Allocate, WithUpdates
<1>7. /\ call'[p].pc = "build" /\ call'[p].count = c.count
      /\ call'[p].type = t /\ call'[p].snapshot = c.snapshot
      /\ call'[p].updates = [u \in {t} |-> x0]
      /\ call'[p].pending = {<<x0, f>> : f \in Fields[t]}
      /\ \A q \in Proc \ {p} : call'[q] = call[q]
  BY Zenon, <1>1, <1>4 DEF IInv, TypeInv, OpenCall
<1>8. TypeInv'
  <2>1. {<<x0, f>> : f \in Fields[t]} \in SUBSET (Entry \X Type)
    BY <1>2, <1>3
  <2>2. [u \in {t} |-> x0] \in EntryMap
    BY Zenon, <1>2, <1>3, EntryMaps
  <2>3. call' \in [Proc -> IdleCall \cup DoneCall \cup OpenCall]
    BY Zenon, <1>1, <1>4, <2>1, <2>2 DEF IInv, TypeInv, OpenCall
  <2>4. \A y \in DOMAIN heap' : heap'[y] \in [Fields[y.type] -> Entry \cup {Nil}]
    BY <1>3, <1>6 DEF IInv, TypeInv
  <2>5. DOMAIN heap' \subseteq Entry
    BY Zenon, <1>3, <1>6 DEF IInv, TypeInv
  <2> QED BY Zenon, <1>4, <1>6, <2>3, <2>4, <2>5 DEF IInv, TypeInv
<1>9. \A x \in DOMAIN heap : x.by \in Proc
  BY Zenon DEF IInv, TypeInv, Entry
<1>10. AgeInv'
  BY <1>1, <1>2, <1>3, <1>6, <1>7, <1>9 DEF IInv, AgeInv
<1>11. Finished' = Finished
  <2>1. \A x \in DOMAIN heap : x \in Finished' <=> x \in Finished
    BY <1>1, <1>6, <1>7, <1>9 DEF Finished
  <2>2. x0 \notin Finished'
    BY Zenon, <1>3, <1>7 DEF Finished
  <2>3. Finished' \subseteq DOMAIN heap \cup {x0} /\ Finished \subseteq DOMAIN heap
    BY Zenon, <1>6 DEF Finished
  <2> QED BY Zenon, <2>1, <2>2, <2>3
<1>12. Own(p)' = {x0}
  BY <1>3, <1>5, <1>6, <1>7 DEF Own
<1>13. Frame(p)
  BY Zenon, <1>3, <1>6, <1>7, <1>11 DEF Frame
<1>14. ASSUME NEW q \in Proc PROVE CallInv(q)'
  <2>1. CASE q = p
    <3>1. AllFinished(call[p].snapshot)'
      BY <1>1, <1>7, <1>11 DEF IInv, CallInv, IsOpen, AllFinished
    <3>2. BuildInv(p)'
      BY <1>3, <1>7, <1>12 DEF BuildInv
    <3> QED BY Zenon, <2>1, <1>7, <3>1, <3>2 DEF CallInv
  <2>2. CASE q # p
    BY <2>2, <1>4, <1>7, <1>13, FrameKeeps DEF IInv, CallInv, IsOpen
  <2> QED BY Zenon, <2>1, <2>2
<1>15. NoHalfBuiltEntries'
  <2>1. \A x \in Finished : heap'[x] = heap[x]
    BY Zenon, <1>6 DEF Finished
  <2> QED BY <1>4, <1>7, <1>11, <2>1 DEF IInv, NoHalfBuiltEntries
<1>16. ReturnedIsCached'
  BY Zenon, <1>4, <1>7 DEF IInv, ReturnedIsCached
<1> QED BY Zenon, <1>8, <1>10, <1>14, <1>15, <1>16 DEF IInv

(* A pointer is set to an entry that is finished or the call's own. *)
LEMMA ResolveKnown ==
    ASSUME IInv, NEW p \in Proc, call[p].pc = "build",
           NEW x, NEW f, <<x, f>> \in call[p].pending,
           NEW v \in Finished \cup Own(p), v.type = f,
           heap' = [heap EXCEPT ![x][f] = v],
           call' = [call EXCEPT ![p].pending = @ \ {<<x, f>>}],
           UNCHANGED <<cache, holder>>
    PROVE  IInv'
<1> DEFINE c == call[p]
<1>1. c \in OpenCall /\ BuildInv(p) /\ AllFinished(c.snapshot)
  BY Zenon, Opened DEF IInv, IsOpen, CallInv
<1>2. x \in Own(p) /\ f \in Fields[x.type]
  BY Zenon, <1>1 DEF BuildInv
<1>3. x \in DOMAIN heap /\ x.by = p /\ x.call = c.count /\ x \notin Finished
  BY Zenon, <1>2 DEF Own, Finished
<1>4. v \in DOMAIN heap /\ v \in Entry
  BY Zenon DEF IInv, TypeInv, Finished, Own
<1>5. /\ DOMAIN heap' = DOMAIN heap
      /\ \A y \in DOMAIN heap \ {x} : heap'[y] = heap[y]
      /\ heap' = [y \in DOMAIN heap' |-> heap'[y]]
  BY Zenon DEF IInv, TypeInv
<1>6. /\ heap'[x] \in [Fields[x.type] -> Entry \cup {Nil}]
      /\ heap'[x][f] = v
      /\ \A g \in Fields[x.type] \ {f} : heap'[x][g] = heap[x][g]
  <2>1. heap[x] \in [Fields[x.type] -> Entry \cup {Nil}]
    BY Zenon, <1>3 DEF IInv, TypeInv
  <2>2. heap'[x] = [heap[x] EXCEPT ![f] = v]
    BY Zenon, <1>3 DEF IInv, TypeInv
  <2> QED BY <1>2, <1>4, <2>1, <2>2
<1>7. /\ call'[p].pc = "build" /\ call'[p].count = c.count
      /\ call'[p].type = c.type /\ call'[p].snapshot = c.snapshot
      /\ call'[p].updates = c.updates /\ call'[p].pending = c.pending \ {<<x, f>>}
      /\ \A q \in Proc \ {p} : call'[q] = call[q]
  BY Zenon, <1>1 DEF IInv, TypeInv, OpenCall
<1>8. TypeInv'
  <2>1. call' \in [Proc -> IdleCall \cup DoneCall \cup OpenCall]
    BY Zenon, <1>1 DEF IInv, TypeInv, OpenCall
  <2>2. \A y \in DOMAIN heap' : heap'[y] \in [Fields[y.type] -> Entry \cup {Nil}]
    BY Zenon, <1>5, <1>6 DEF IInv, TypeInv
  <2> QED BY Zenon, <1>5, <2>1, <2>2 DEF IInv, TypeInv
<1>9. \A y \in DOMAIN heap : y.by \in Proc
  BY Zenon DEF IInv, TypeInv, Entry
<1>10. AgeInv'
  BY <1>5, <1>7, <1>9 DEF IInv, AgeInv
<1>11. Finished' = Finished
  <2>1. \A y \in DOMAIN heap : y \in Finished' <=> y \in Finished
    BY <1>5, <1>7, <1>9 DEF Finished
  <2>2. Finished' \subseteq DOMAIN heap /\ Finished \subseteq DOMAIN heap
    BY Zenon, <1>5 DEF Finished
  <2> QED BY Zenon, <2>1, <2>2
<1>12. Own(p)' = Own(p)
  BY Zenon, <1>5, <1>7 DEF Own
<1>13. Frame(p)
  BY Zenon, <1>3, <1>5, <1>7, <1>11 DEF Frame
<1>14. ASSUME NEW q \in Proc PROVE CallInv(q)'
  <2>1. CASE q = p
    <3>1. AllFinished(call[p].snapshot)'
      BY <1>1, <1>7, <1>11 DEF AllFinished
    <3>2. ASSUME NEW y \in Own(p), NEW g \in Fields[y.type],
                 <<y, g>> \notin call'[p].pending
          PROVE  Resolved(p, y, g)'
      <4>1. CASE y = x /\ g = f
        BY Zenon, <4>1, <1>6, <1>11, <1>12 DEF Resolved
      <4>2. CASE ~ (y = x /\ g = f)
        <5>1. <<y, g>> \notin c.pending
          BY Zenon, <3>2, <4>2, <1>7
        <5>2. Resolved(p, y, g)
          BY Zenon, <5>1, <1>1 DEF BuildInv
        <5>3. heap'[y][g] = heap[y][g]
          BY Zenon, <4>2, <1>5, <1>6 DEF Own
        <5> QED BY Zenon, <5>2, <5>3, <1>11, <1>12 DEF Resolved
      <4> QED BY Zenon, <4>1, <4>2
    <3>3. BuildInv(p)'
      BY <1>1, <1>7, <1>12, <3>2 DEF BuildInv
    <3> QED BY Zenon, <2>1, <1>7, <3>1, <3>3 DEF CallInv
  <2>2. CASE q # p
    BY <2>2, <1>7, <1>13, FrameKeeps DEF IInv, CallInv, IsOpen
  <2> QED BY Zenon, <2>1, <2>2
<1>15. NoHalfBuiltEntries'
  <2>1. \A y \in Finished : heap'[y] = heap[y]
    BY Zenon, <1>3, <1>5 DEF Finished
  <2> QED BY <1>7, <1>11, <2>1 DEF IInv, NoHalfBuiltEntries
<1>16. ReturnedIsCached'
  BY Zenon, <1>7 DEF IInv, ReturnedIsCached
<1> QED BY Zenon, <1>8, <1>10, <1>14, <1>15, <1>16 DEF IInv

(* A pointer is set to a new entry, whose own pointers are pending. *)
PointsToNew(p, x, f, v) ==
    /\ heap' = Allocate(p, f, [heap EXCEPT ![x][f] = v])
    /\ call' = [call EXCEPT
                  ![p].updates = WithUpdates(@, [u \in {f} |-> v]),
                  ![p].pending = (@ \ {<<x, f>>}) \cup {<<v, g>> : g \in Fields[f]}]
    /\ UNCHANGED <<cache, holder>>

(* No other goroutine sees the new entry, nor that it is not finished. *)
LEMMA ResolveNew ==
    ASSUME IInv, NEW p \in Proc, call[p].pc = "build",
           NEW x, NEW f, <<x, f>> \in call[p].pending,
           f \notin DOMAIN call[p].updates,
           NEW v, v = NewEntry(p, f),
           PointsToNew(p, x, f, v)
    PROVE  IInv'
<1> DEFINE c == call[p]
           new == {<<v, g>> : g \in Fields[f]}
<1>1. c \in OpenCall /\ BuildInv(p) /\ AllFinished(c.snapshot)
  BY Zenon, Opened DEF IInv, IsOpen, CallInv
<1>2. x \in Own(p) /\ f \in Fields[x.type]
  BY Zenon, <1>1 DEF BuildInv
<1>3. x \in DOMAIN heap /\ x.by = p /\ x.call = c.count /\ x \notin Finished
  BY Zenon, <1>2 DEF Own, Finished
<1>4. f \in Type /\ Fields[f] \subseteq Type /\ c.count \in Nat
  BY Zenon, <1>1, CacheAssumption DEF OpenCall
<1>5. v \in Entry /\ v.by = p /\ v.call = c.count /\ v.type = f
  BY Zenon, <1>4 DEF NewEntry, Entry
<1>6. v \notin DOMAIN heap /\ v # x
  BY <1>1, <1>3, <1>5 DEF BuildInv, Own
<1>7. /\ DOMAIN heap' = DOMAIN heap \cup {v}
      /\ heap'[v] = [g \in Fields[f] |-> Nil]
      /\ heap'[x] = [heap[x] EXCEPT ![f] = v]
      /\ \A y \in DOMAIN heap \ {x} : heap'[y] = heap[y]
      /\ heap' = [y \in DOMAIN heap' |-> heap'[y]]
  <2>1. heap' = WithUpdates([heap EXCEPT ![x][f] = v],
                            [y \in {v} |-> [g \in Fields[f] |-> Nil]])
    BY Zenon DEF PointsToNew, Allocate
  <2> QED BY Zenon, <1>3, <1>6, <2>1 DEF WithUpdates
<1>8. /\ heap'[x] \in [Fields[x.type] -> Entry \cup {Nil}]
      /\ heap'[x][f] = v
      /\ \A g \in Fields[x.type] \ {f} : heap'[x][g] = heap[x][g]
  <2>1. heap[x] \in [Fields[x.type] -> Entry \cup {Nil}]
    BY Zenon, <1>3 DEF IInv, TypeInv
  <2>2. heap'[x] = [heap[x] EXCEPT ![f] = v]
    BY Zenon, <1>7
  <2> QED BY <1>2, <1>5, <2>1, <2>2
<1> HIDE DEF new
<1>9. /\ call'[p].pc = "build" /\ call'[p].count = c.count
      /\ call'[p].type = c.type /\ call'[p].snapshot = c.snapshot
      /\ \A q \in Proc \ {p} : call'[q] = call[q]
  BY Zenon, <1>1 DEF PointsToNew, IInv, TypeInv, OpenCall
<1>10. /\ call'[p].updates = WithUpdates(c.updates, [u \in {f} |-> v])
       /\ call'[p].pending = (c.pending \ {<<x, f>>}) \cup new
  BY Zenon, <1>1 DEF PointsToNew, IInv, TypeInv, OpenCall, new
<1>11. cache' = cache /\ holder' = holder
  BY Zenon DEF PointsToNew
<1>12. DOMAIN heap' = DOMAIN heap \cup {v}
  BY Zenon, <1>7
<1>13. /\ \A g \in Fields[f] : <<v, g>> \in new
       /\ \A y \in new : y[1] = v /\ y[2] \in Fields[f]
  BY DEF new
<1>14. TypeInv'
  <2>1. (c.pending \ {<<x, f>>}) \cup new \in SUBSET (Entry \X Type)
    BY <1>1, <1>4, <1>5 DEF OpenCall, new
  <2>2. WithUpdates(c.updates, [u \in {f} |-> v]) \in EntryMap
    <3>1. [u \in {f} |-> v] \in EntryMap /\ c.updates \in EntryMap
      BY Zenon, <1>1, <1>4, <1>5, EntryMaps DEF OpenCall
    <3> QED BY Zenon, <3>1, EntryMaps
  <2>3. call' \in [Proc -> IdleCall \cup DoneCall \cup OpenCall]
    BY Zenon, <1>1, <2>1, <2>2 DEF PointsToNew, IInv, TypeInv, OpenCall, new
  <2>4. \A y \in DOMAIN heap' : heap'[y] \in [Fields[y.type] -> Entry \cup {Nil}]
    <3>1. heap'[v] \in [Fields[v.type] -> Entry \cup {Nil}]
      BY Zenon, <1>5, <1>7
    <3>2. \A y \in DOMAIN heap \ {x} : heap'[y] = heap[y]
      BY Zenon, <1>7
    <3> QED BY Zenon, <1>8, <1>12, <3>1, <3>2 DEF IInv, TypeInv
  <2>5. DOMAIN heap' \subseteq Entry
    BY Zenon, <1>5, <1>7 DEF IInv, TypeInv
  <2> QED BY Zenon, <1>7, <1>11, <2>3, <2>4, <2>5 DEF IInv, TypeInv
<1>15. \A y \in DOMAIN heap : y.by \in Proc
  BY Zenon DEF IInv, TypeInv, Entry
<1>16. AgeInv'
  BY <1>4, <1>5, <1>9, <1>12, <1>15 DEF IInv, AgeInv
<1>17. Finished' = Finished
  <2>1. \A y \in DOMAIN heap : y \in Finished' <=> y \in Finished
    BY Zenon, <1>9, <1>12, <1>15 DEF Finished
  <2>2. v \notin Finished'
    BY Zenon, <1>5, <1>9 DEF Finished
  <2>3. Finished' \subseteq DOMAIN heap \cup {v} /\ Finished \subseteq DOMAIN heap
    BY Zenon, <1>7 DEF Finished
  <2> QED BY Zenon, <2>1, <2>2, <2>3
<1>18. Own(p)' = Own(p) \cup {v}
  BY Zenon, <1>5, <1>7, <1>9 DEF Own
<1>19. Frame(p)
  BY Zenon, <1>3, <1>5, <1>7, <1>9, <1>17 DEF Frame
<1>20. ASSUME NEW q \in Proc PROVE CallInv(q)'
  <2>1. CASE q = p
    <3>1. AllFinished(call[p].snapshot)'
      BY Zenon, <1>1, <1>9, <1>17 DEF AllFinished
    <3>2. ASSUME NEW y \in Own(p)', NEW g \in Fields[y.type],
                 <<y, g>> \notin call'[p].pending
          PROVE  Resolved(p, y, g)'
      <4>1. CASE y = x /\ g = f
        BY Zenon, <4>1, <1>5, <1>8, <1>18 DEF Resolved
      <4>2. CASE y # v /\ ~ (y = x /\ g = f)
        <5>1. <<y, g>> \notin c.pending /\ y \in Own(p)
          BY Zenon, <3>2, <4>2, <1>10, <1>18
        <5>2. Resolved(p, y, g)
          BY Zenon, <5>1, <1>1 DEF BuildInv
        <5>3. heap'[y][g] = heap[y][g]
          BY <4>2, <5>1, <1>7, <1>8 DEF Own
        <5> QED BY Zenon, <5>2, <5>3, <1>17, <1>18 DEF Resolved
      <4>3. y # v
        BY Zenon, <3>2, <1>5, <1>10, <1>13
      <4> QED BY Zenon, <4>1, <4>2, <4>3
    <3>3. /\ DOMAIN call'[p].updates = DOMAIN c.updates \cup {f}
          /\ call'[p].updates[f] = v
          /\ \A t \in DOMAIN c.updates : call'[p].updates[t] = c.updates[t]
      BY Zenon, <1>10 DEF WithUpdates
    <3>4. \A y \in call'[p].pending : y[1] \in Own(p)' /\ y[2] \in Fields[y[1].type]
      BY Zenon, <1>1, <1>5, <1>10, <1>13, <1>18 DEF BuildInv
    <3>5. BuildInv(p)'
      BY Zenon, <1>1, <1>5, <1>9, <1>18, <3>2, <3>3, <3>4 DEF BuildInv
    <3> QED BY Zenon, <2>1, <1>9, <3>1, <3>5 DEF CallInv
  <2>2. CASE q # p
    BY Zenon, <2>2, <1>9, <1>11, <1>19, FrameKeeps DEF IInv, CallInv, IsOpen
  <2> QED BY Zenon, <2>1, <2>2
<1>21. NoHalfBuiltEntries'
  <2>1. \A y \in Finished : heap'[y] = heap[y]
    BY Zenon, <1>3, <1>7 DEF Finished
  <2> QED BY <1>9, <1>11, <1>17, <2>1 DEF IInv, NoHalfBuiltEntries
<1>22. ReturnedIsCached'
  BY Zenon, <1>9, <1>11 DEF IInv, ReturnedIsCached
<1> QED BY Zenon, <1>14, <1>16, <1>20, <1>21, <1>22 DEF IInv

(* The three ways to resolve a pointer. *)
LEMMA ResolveKeeps ==
    ASSUME IInv, NEW p \in Proc, NEW x, NEW f, ResolvePointer(p, x, f)
    PROVE  IInv'
<1> DEFINE c == call[p]
<1>1. c.pc = "build" /\ <<x, f>> \in c.pending /\ UNCHANGED <<cache, holder>>
  BY Zenon DEF ResolvePointer
<1>2. BuildInv(p) /\ AllFinished(c.snapshot)
  BY Zenon, <1>1 DEF IInv, IsOpen, CallInv
<1>3. CASE /\ f \in DOMAIN c.snapshot
           /\ heap' = [heap EXCEPT ![x][f] = c.snapshot[f]]
           /\ call' = [call EXCEPT ![p].pending = @ \ {<<x, f>>}]
  <2>1. c.snapshot[f] \in Finished \cup Own(p) /\ c.snapshot[f].type = f
    BY Zenon, <1>2, <1>3 DEF AllFinished
  <2> QED BY Zenon, <1>1, <1>3, <2>1, ResolveKnown
<1>4. CASE /\ f \in DOMAIN c.updates
           /\ heap' = [heap EXCEPT ![x][f] = c.updates[f]]
           /\ call' = [call EXCEPT ![p].pending = @ \ {<<x, f>>}]
  <2>1. c.updates[f] \in Finished \cup Own(p) /\ c.updates[f].type = f
    BY Zenon, <1>2, <1>4 DEF BuildInv
  <2> QED BY Zenon, <1>1, <1>4, <2>1, ResolveKnown
<1>5. CASE f \notin DOMAIN c.updates /\ PointsToNew(p, x, f, NewEntry(p, f))
  BY Zenon, <1>1, <1>5, ResolveNew
<1> QED BY Zenon, <1>3, <1>4, <1>5 DEF ResolvePointer, PointsToNew

-----------------------------------------------------------------------------
(* Every step keeps the invariant. *)
LEMMA NextInv == IInv /\ [Next]_vars => IInv'
<1> SUFFICES ASSUME IInv, [Next]_vars PROVE IInv'
  BY Zenon
<1>1. ASSUME NEW p \in Proc, NEW t \in Type, TypeReflectEntryOf(p, t) PROVE IInv'
  BY Zenon, <1>1, CallBegins
<1>2. ASSUME NEW p \in Proc, Step(p) PROVE IInv'
  BY Zenon, <1>2, BuildKeeps, ResolveKeeps, LockKeeps, LoadKeeps, StoreKeeps DEF
     Step
<1>3. CASE UNCHANGED vars
  BY Zenon, <1>3, StutterKeeps
<1> QED BY Zenon, <1>1, <1>2, <1>3 DEF Next

(* No goroutine gets an entry under construction from TypeReflectEntryOf,  *)
(* nor reaches one through the pointers of its fields' entries.            *)
THEOREM EntriesAreFinished == Spec => []NoHalfBuiltEntries
<1>1. IInv => NoHalfBuiltEntries
  BY Zenon DEF IInv
<1> QED BY <1>1, InitInv, NextInv, PTL DEF Spec

(* The type of an entry that TypeReflectEntryOf returned is in the cache. *)
THEOREM ReturnedStaysCached == Spec => []ReturnedIsCached
<1>1. IInv => ReturnedIsCached
  BY Zenon DEF IInv
<1> QED BY <1>1, InitInv, NextInv, PTL DEF Spec

(* What NothingLost asks of a step. *)
Lossless ==
    /\ DOMAIN cache \subseteq DOMAIN cache'
    /\ \A x \in Finished : heap'[x] = heap[x]

(* A goroutine writes entries of its own only, and stores a map that has   *)
(* what the cache has, since it holds the mutex.                           *)
LEMMA StepLossless == IInv /\ [Next]_vars => Lossless
<1> SUFFICES ASSUME IInv, [Next]_vars PROVE Lossless
  BY Zenon
<1>1. CASE cache' = cache /\ heap' = heap
  BY Zenon, <1>1 DEF Lossless
<1>2. ASSUME NEW p \in Proc, StoreAndUnlock(p) PROVE Lossless
  <2>1. call[p].snapshot = cache
    BY Zenon, <1>2 DEF StoreAndUnlock, IInv, CallInv
  <2> QED BY Zenon, <1>2, <2>1 DEF StoreAndUnlock, WithUpdates, Lossless
<1>3. ASSUME NEW p \in Proc, Build(p) PROVE Lossless
  <2>1. call[p].pc = "start"
    BY Zenon, <1>3 DEF Build
  <2>2. NewEntry(p, call[p].type) \notin Finished
    BY Zenon, <2>1 DEF Finished, NewEntry
  <2>3. Finished \subseteq DOMAIN heap
    BY Zenon DEF Finished
  <2> QED BY Zenon, <1>3, <2>2, <2>3 DEF Build, Allocate, WithUpdates, Lossless
<1>4. ASSUME NEW p \in Proc, NEW x, NEW f, ResolvePointer(p, x, f) PROVE Lossless
  <2>1. call[p].pc = "build" /\ <<x, f>> \in call[p].pending
    BY Zenon, <1>4 DEF ResolvePointer
  <2>2. x \in Own(p)
    BY <2>1 DEF IInv, CallInv, IsOpen, BuildInv
  <2>3. x \notin Finished
    BY Zenon, <2>1, <2>2 DEF Own, Finished
  <2>4. NewEntry(p, f) \notin Finished
    BY Zenon, <2>1 DEF Finished, NewEntry
  <2>5. Finished \subseteq DOMAIN heap
    BY Zenon DEF Finished
  <2> QED BY Zenon, <1>4, <2>3, <2>4, <2>5 DEF ResolvePointer, Allocate, WithUpdates, Lossless
<1> QED BY Zenon, <1>1, <1>2, <1>3, <1>4
       DEF Next, Step, TypeReflectEntryOf, Lock, Load, vars

(* No update of the cache is lost to a concurrent one, and no entry that a *)
(* reader may hold is written.                                             *)
THEOREM UpdatesAreNotLost == Spec => NothingLost
<1>1. IInv /\ [Next]_vars => [Lossless]_vars
  BY Zenon, StepLossless
<1> QED BY <1>1, InitInv, NextInv, PTL DEF Spec, NothingLost, Lossless

-----------------------------------------------------------------------------
(* The lookups in a shared schema: its types and its indexes. *)

(* What the proofs assume of a schema. *)
Separate ==
    /\ Plain \cap Overridden \cap MapType = {}
    /\ MapType \cap ScalarType = {}
    /\ Unknown \notin MapType \cup ScalarType \cup Field

Lookup ==
    [pc : {"lock", "find", "fill", "copy", "returned"}, owner : Owner,
     type : Plain \cup Overridden, override : BOOLEAN,
     field : Field \cup {Unknown}, found : BOOLEAN]

SchemaTypeInv ==
    /\ once \in [Owner -> {"fresh", "running", "done"}]
    /\ ref \in [Owner -> Owner \cup {NoIndex}]
    /\ filled \in [Owner \cup {NoIndex} -> SUBSET (MapType \cup ScalarType \cup Field)]
    /\ lock \in SUBSET Goroutines
    /\ resolved \in SUBSET MapType
    /\ lookup \in [Goroutines -> Lookup \cup {Idle}]

(* Where the lookup of a goroutine is: whose index it uses and whether it  *)
(* has the lock.                                                           *)
AtSchema(c, p) ==
    /\ c.owner = Schema
    /\ c.pc \in {"lock", "find", "fill", "returned"}
    /\ c.pc = "lock" => c.override
    /\ c.override /\ c.pc \in {"find", "fill"} => lock = {p} /\ c.type \notin resolved

AtDefinition(c, p) ==
    /\ c.type \in MapType
    /\ c.owner = Def(c.type)
    /\ \/ ~ c.override /\ c.pc \in {"find", "fill", "returned"}
       \/ c.override /\ c.pc = "copy" /\ lock = {p} /\ c.type \notin resolved

AtCopy(c) ==
    /\ c.type \in resolved
    /\ c.owner = Copy(c.type)
    /\ c.override
    /\ c.pc \in {"find", "fill", "returned"}

LookupInv(c, p) ==
    /\ c.type \in (IF c.override THEN Overridden ELSE Plain)
    /\ AtSchema(c, p) \/ AtDefinition(c, p) \/ AtCopy(c)
    /\ c.pc = "fill" => once[c.owner] = "running"

(* Every index is used by its owner only, and complete when it is done. *)
IndexInv ==
    /\ \A o \in Owner : ref[o] = IF once[o] = "fresh" THEN NoIndex ELSE o
    /\ \A o \in Owner : once[o] = "done" => filled[o] = Names(o)
    /\ \A t \in MapType : once[Def(t)] # "fresh" => t \in Plain
    /\ \A t \in MapType \ resolved : once[Copy(t)] = "fresh"

OneBuilder ==
    \A p, q \in Goroutines :
        /\ lookup[p] # Idle /\ lookup[q] # Idle
        /\ lookup[p].pc = "fill" /\ lookup[q].pc = "fill" /\ lookup[p].owner = lookup[q].owner
        => p = q

SchemaInv ==
    /\ SchemaTypeInv
    /\ IndexInv
    /\ OneBuilder
    /\ \A p \in Goroutines : lookup[p] # Idle => LookupInv(lookup[p], p)
    /\ LookupsFindWhatExists

-----------------------------------------------------------------------------
(* The owners of indexes are distinct, and none is the missing index. *)
LEMMA Owners ==
    ASSUME NEW t \in MapType, NEW u \in MapType
    PROVE  /\ Def(t) # Copy(u) /\ Def(t) # Schema /\ Copy(t) # Schema
           /\ Def(t) # NoIndex /\ Copy(t) # NoIndex /\ Schema # NoIndex
           /\ Def(t) = Def(u) => t = u
           /\ Copy(t) = Copy(u) => t = u
           /\ Def(t) \in Owner /\ Copy(t) \in Owner /\ Schema \in Owner
<1>1. /\ Def(t) # Copy(u)
      /\ Def(t) = Def(u) => t = u
      /\ Copy(t) = Copy(u) => t = u
  BY Zenon DEF Def, Copy
<1>2. Len(Def(t)) = 2 /\ Len(Copy(t)) = 2 /\ Len(Schema) = 1 /\ Len(NoIndex) = 0
  BY Zenon DEF Def, Copy, Schema, NoIndex
<1> QED BY <1>1, <1>2 DEF Owner

(* A goroutine that is not idle makes a lookup. *)
LEMMA NotIdle ==
    ASSUME SchemaTypeInv, NEW p \in Goroutines, lookup[p].pc # "idle"
    PROVE  lookup[p] \in Lookup /\ lookup[p] # Idle
BY DEF SchemaTypeInv, Idle

(* No index is built yet, and nobody looks anything up. *)
LEMMA InitSchema == SchemaInit => SchemaInv
<1> SUFFICES ASSUME SchemaInit PROVE SchemaInv
  BY Zenon
<1>1. SchemaTypeInv
  BY Zenon DEF SchemaInit, SchemaTypeInv
<1>2. IndexInv
  BY Zenon, Owners DEF SchemaInit, IndexInv, Owner
<1>3. OneBuilder /\ LookupsFindWhatExists
  BY Zenon DEF SchemaInit, OneBuilder, LookupsFindWhatExists, Idle
<1> QED BY Zenon, <1>1, <1>2, <1>3 DEF SchemaInv, SchemaInit

(* A lookup begins, which changes nothing but the call of p. *)
LEMMA ResolveInv ==
    ASSUME Separate, SchemaInv, NEW p \in Goroutines, NEW t \in Plain \cup Overridden,
           NEW override \in BOOLEAN, t \in (IF override THEN Overridden ELSE Plain),
           NEW f \in Field \cup {Unknown}, Resolve(p, t, override, f)
    PROVE  SchemaInv'
<1> DEFINE c == [pc |-> IF override THEN "lock" ELSE "find", owner |-> Schema,
                 type |-> t, override |-> override, field |-> f, found |-> FALSE]
<1>1. lookup' = [lookup EXCEPT ![p] = c] /\ UNCHANGED <<once, ref, filled, lock, resolved>>
  BY Zenon DEF Resolve
<1>2. c \in Lookup
  BY Zenon DEF Lookup, Owner
<1>3. SchemaTypeInv'
  BY Zenon, <1>1, <1>2 DEF SchemaInv, SchemaTypeInv
<1>4. IndexInv'
  BY Zenon, <1>1 DEF SchemaInv, IndexInv
<1>5. OneBuilder'
  BY Zenon, <1>1 DEF SchemaInv, SchemaTypeInv, OneBuilder
<1>6. LookupsFindWhatExists'
  BY Zenon, <1>1 DEF SchemaInv, SchemaTypeInv, LookupsFindWhatExists
<1>7. ASSUME NEW q \in Goroutines, lookup'[q] # Idle PROVE LookupInv(lookup[q], q)'
  BY Zenon, <1>1, <1>7 DEF SchemaInv, SchemaTypeInv, LookupInv, AtSchema,
     AtDefinition, AtCopy
<1> QED BY Zenon, <1>3, <1>4, <1>5, <1>6, <1>7 DEF SchemaInv

(* Resolving an override waits for the schema's lock. *)
LEMMA LockSchemaInv ==
    ASSUME Separate, SchemaInv, NEW p \in Goroutines, LockSchema(p)
    PROVE  SchemaInv'
<1>1. lookup[p] \in Lookup /\ lookup[p] # Idle /\ LookupInv(lookup[p], p)
  BY Zenon, NotIdle DEF LockSchema, SchemaInv
<1>2. SchemaTypeInv'
  BY <1>1, Owners DEF LockSchema, SchemaInv, SchemaTypeInv, Lookup,
     LookupInv, AtSchema, AtDefinition, AtCopy, Owner
<1>3. IndexInv'
  BY Zenon, <1>1, Owners DEF LockSchema, SchemaInv, SchemaTypeInv, IndexInv,
     LookupInv, AtSchema, AtDefinition, AtCopy, Lookup, Separate
<1>4. OneBuilder'
  BY <1>1 DEF LockSchema, SchemaInv, SchemaTypeInv, OneBuilder, LookupInv, Lookup
<1>5. LookupsFindWhatExists'
  BY <1>1 DEF LockSchema, SchemaInv, SchemaTypeInv, LookupsFindWhatExists,
     Lookup
<1>6. ASSUME NEW q \in Goroutines, lookup'[q] # Idle PROVE LookupInv(lookup[q], q)'
  BY <1>1, <1>6, Owners DEF LockSchema, SchemaInv, SchemaTypeInv, OneBuilder,
     LookupInv, AtSchema, AtDefinition, AtCopy, Lookup
<1> QED BY Zenon, <1>2, <1>3, <1>4, <1>5, <1>6 DEF SchemaInv

(* sync.Once lets one goroutine build an index, which is its owner's. *)
LEMMA OnceBeginInv ==
    ASSUME Separate, SchemaInv, NEW p \in Goroutines, OnceBegin(p)
    PROVE  SchemaInv'
<1>1. lookup[p] \in Lookup /\ lookup[p] # Idle /\ LookupInv(lookup[p], p)
  BY Zenon, NotIdle DEF OnceBegin, SchemaInv
<1>2. SchemaTypeInv'
  BY Zenon, <1>1, Owners DEF OnceBegin, SchemaInv, SchemaTypeInv, Lookup, LookupInv,
     AtSchema, AtDefinition, AtCopy, Owner
<1>3. IndexInv'
  BY <1>1, Owners DEF OnceBegin, SchemaInv, SchemaTypeInv, IndexInv,
     LookupInv, AtSchema, AtDefinition, AtCopy, Lookup, Separate
<1>4. OneBuilder'
  BY <1>1 DEF OnceBegin, SchemaInv, SchemaTypeInv, OneBuilder, LookupInv, Lookup
<1>5. LookupsFindWhatExists'
  BY Zenon, <1>1 DEF OnceBegin, SchemaInv, SchemaTypeInv, LookupsFindWhatExists,
     Lookup
<1>6. ASSUME NEW q \in Goroutines, lookup'[q] # Idle PROVE LookupInv(lookup[q], q)'
  BY <1>1, <1>6, Owners DEF OnceBegin, SchemaInv, SchemaTypeInv, OneBuilder,
     LookupInv, AtSchema, AtDefinition, AtCopy, Lookup
<1> QED BY Zenon, <1>2, <1>3, <1>4, <1>5, <1>6 DEF SchemaInv

(* The builder adds a name to an index that nobody else may read. *)
LEMMA FillInv ==
    ASSUME Separate, SchemaInv, NEW p \in Goroutines, 
           NEW name \in MapType \cup ScalarType \cup Field, Fill(p, name)
    PROVE  SchemaInv'
<1>1. lookup[p] \in Lookup /\ lookup[p] # Idle /\ LookupInv(lookup[p], p)
  BY Zenon, NotIdle DEF Fill, SchemaInv
<1>2. SchemaTypeInv'
  <2>1. lookup[p].owner \in Owner
    BY Zenon, <1>1 DEF Lookup
  <2>2. /\ filled' = [filled EXCEPT ![lookup[p].owner] = @ \cup {name}]
        /\ UNCHANGED <<once, ref, lock, resolved, lookup>>
    BY Zenon DEF Fill
  <2> QED BY Zenon, <2>1, <2>2 DEF SchemaInv, SchemaTypeInv
<1>3. IndexInv'
  BY Zenon, <1>1, Owners DEF Fill, SchemaInv, SchemaTypeInv, IndexInv, LookupInv,
     AtSchema, AtDefinition, AtCopy, Lookup, Separate, Names
<1>4. OneBuilder'
  BY <1>1 DEF Fill, SchemaInv, SchemaTypeInv, OneBuilder, LookupInv, Lookup,
     Names
<1>5. LookupsFindWhatExists'
  BY Zenon, <1>1 DEF Fill, SchemaInv, SchemaTypeInv, LookupsFindWhatExists,
     Lookup, Names
<1>6. ASSUME NEW q \in Goroutines, lookup'[q] # Idle PROVE LookupInv(lookup[q], q)'
  BY Zenon, <1>1, <1>6, Owners DEF Fill, SchemaInv, SchemaTypeInv, OneBuilder,
     LookupInv, AtSchema, AtDefinition, AtCopy, Lookup, Names
<1> QED BY Zenon, <1>2, <1>3, <1>4, <1>5, <1>6 DEF SchemaInv

(* An index is done when it has all the names. *)
LEMMA OnceEndInv ==
    ASSUME Separate, SchemaInv, NEW p \in Goroutines, OnceEnd(p)
    PROVE  SchemaInv'
<1>1. lookup[p] \in Lookup /\ lookup[p] # Idle /\ LookupInv(lookup[p], p)
  BY Zenon, NotIdle DEF OnceEnd, SchemaInv
<1>2. SchemaTypeInv'
  BY Zenon, <1>1, Owners DEF OnceEnd, SchemaInv, SchemaTypeInv, Lookup, LookupInv,
     AtSchema, AtDefinition, AtCopy, Owner
<1>3. IndexInv'
  BY <1>1, Owners DEF OnceEnd, SchemaInv, SchemaTypeInv, IndexInv, LookupInv,
     AtSchema, AtDefinition, AtCopy, Lookup, Separate
<1>4. OneBuilder'
  BY <1>1 DEF OnceEnd, SchemaInv, SchemaTypeInv, OneBuilder, LookupInv, Lookup
<1>5. LookupsFindWhatExists'
  BY Zenon, <1>1 DEF OnceEnd, SchemaInv, SchemaTypeInv, LookupsFindWhatExists,
     Lookup
<1>6. ASSUME NEW q \in Goroutines, lookup'[q] # Idle PROVE LookupInv(lookup[q], q)'
  BY <1>1, <1>6, Owners DEF OnceEnd, SchemaInv, SchemaTypeInv, OneBuilder,
     LookupInv, AtSchema, AtDefinition, AtCopy, Lookup
<1> QED BY Zenon, <1>2, <1>3, <1>4, <1>5, <1>6 DEF SchemaInv

(* The schema's index is complete when a type is looked up in it. *)
LEMMA FindNamedTypeInv ==
    ASSUME Separate, SchemaInv, NEW p \in Goroutines, FindNamedType(p)
    PROVE  SchemaInv'
<1>1. lookup[p] \in Lookup /\ lookup[p] # Idle /\ LookupInv(lookup[p], p)
  BY Zenon, NotIdle DEF FindNamedType, SchemaInv
<1>2. SchemaTypeInv'
  BY <1>1, Owners DEF FindNamedType, SchemaInv, SchemaTypeInv, Lookup,
     LookupInv, AtSchema, AtDefinition, AtCopy, Owner, Unlock, IsFound,
     IndexInv, Names, Separate
<1>3. IndexInv'
  BY Zenon, <1>1, Owners DEF FindNamedType, SchemaInv, SchemaTypeInv, IndexInv,
     LookupInv, AtSchema, AtDefinition, AtCopy, Lookup, Separate, Unlock,
     IsFound, Names
<1>4. OneBuilder'
  BY <1>1 DEF FindNamedType, SchemaInv, SchemaTypeInv, OneBuilder, LookupInv,
     Lookup, Unlock, IsFound, IndexInv, Names, Separate
<1>5. LookupsFindWhatExists'
  BY <1>1 DEF FindNamedType, SchemaInv, SchemaTypeInv,
     LookupsFindWhatExists, Lookup, Unlock, IsFound, IndexInv,
     Names, Separate
<1>6. ASSUME NEW q \in Goroutines, lookup'[q] # Idle PROVE LookupInv(lookup[q], q)'
  BY <1>1, <1>6, Owners DEF FindNamedType, SchemaInv, SchemaTypeInv,
     OneBuilder, LookupInv, AtSchema, AtDefinition, AtCopy, Lookup, Unlock,
     IsFound, IndexInv, Names, Separate
<1> QED BY Zenon, <1>2, <1>3, <1>4, <1>5, <1>6 DEF SchemaInv

(* The definition copied was never used, so the copy has no index. *)
LEMMA CopyIntoInv ==
    ASSUME Separate, SchemaInv, NEW p \in Goroutines, CopyInto(p)
    PROVE  SchemaInv'
<1>1. lookup[p] \in Lookup /\ lookup[p] # Idle /\ LookupInv(lookup[p], p)
  BY Zenon, NotIdle DEF CopyInto, SchemaInv
<1>2. SchemaTypeInv'
  BY <1>1, Owners DEF CopyInto, SchemaInv, SchemaTypeInv, Lookup, LookupInv,
     AtSchema, AtDefinition, AtCopy, Owner, Unlock
<1>3. IndexInv'
  BY <1>1, Owners DEF CopyInto, SchemaInv, SchemaTypeInv, IndexInv,
     LookupInv, AtSchema, AtDefinition, AtCopy, Lookup, Separate, Unlock
<1>4. OneBuilder'
  BY <1>1 DEF CopyInto, SchemaInv, SchemaTypeInv, OneBuilder, LookupInv,
     Lookup, Unlock
<1>5. LookupsFindWhatExists'
  BY Zenon, <1>1 DEF CopyInto, SchemaInv, SchemaTypeInv, LookupsFindWhatExists,
     Lookup, Unlock
<1>6. ASSUME NEW q \in Goroutines, lookup'[q] # Idle PROVE LookupInv(lookup[q], q)'
  BY <1>1, <1>6, Owners DEF CopyInto, SchemaInv, SchemaTypeInv, OneBuilder,
     LookupInv, AtSchema, AtDefinition, AtCopy, Lookup, Unlock
<1> QED BY Zenon, <1>2, <1>3, <1>4, <1>5, <1>6 DEF SchemaInv

(* The index of the definition or copy is complete when it is read. *)
LEMMA FindFieldInv ==
    ASSUME Separate, SchemaInv, NEW p \in Goroutines, FindField(p)
    PROVE  SchemaInv'
<1>1. lookup[p] \in Lookup /\ lookup[p] # Idle /\ LookupInv(lookup[p], p)
  BY Zenon, NotIdle DEF FindField, SchemaInv
<1>2. SchemaTypeInv'
  <2>1. IsFound(p, lookup[p].field) \in BOOLEAN
    BY DEF IsFound
  <2> QED BY Zenon, <1>1, <2>1 DEF FindField, SchemaInv, SchemaTypeInv, Lookup
<1>3. IndexInv'
  BY Zenon, <1>1, Owners DEF FindField, SchemaInv, SchemaTypeInv, IndexInv,
     LookupInv, AtSchema, AtDefinition, AtCopy, Lookup, Separate, IsFound,
     Names
<1>4. OneBuilder'
  BY <1>1 DEF FindField, SchemaInv, SchemaTypeInv, OneBuilder, LookupInv,
     Lookup, IsFound, IndexInv, Names, AtSchema, AtDefinition, AtCopy,
     Separate
<1>5. LookupsFindWhatExists'
  BY <1>1 DEF FindField, SchemaInv, SchemaTypeInv, LookupsFindWhatExists,
     Lookup, IsFound, IndexInv, Names, LookupInv, AtSchema, AtDefinition,
     AtCopy, Separate
<1>6. ASSUME NEW q \in Goroutines, lookup'[q] # Idle PROVE LookupInv(lookup[q], q)'
  BY <1>1, <1>6, Owners DEF FindField, SchemaInv, SchemaTypeInv, OneBuilder,
     LookupInv, AtSchema, AtDefinition, AtCopy, Lookup, IsFound, IndexInv,
     Names, Separate
<1> QED BY Zenon, <1>2, <1>3, <1>4, <1>5, <1>6 DEF SchemaInv

(* A lookup ends. *)
LEMMA ReturnInv ==
    ASSUME Separate, SchemaInv, NEW p \in Goroutines, Return(p)
    PROVE  SchemaInv'
<1>1. lookup[p] \in Lookup /\ lookup[p] # Idle /\ LookupInv(lookup[p], p)
  BY Zenon, NotIdle DEF Return, SchemaInv
<1>2. SchemaTypeInv'
  BY Zenon, <1>1, Owners DEF Return, SchemaInv, SchemaTypeInv, Lookup, LookupInv,
     AtSchema, AtDefinition, AtCopy, Owner
<1>3. IndexInv'
  BY Zenon, <1>1, Owners DEF Return, SchemaInv, SchemaTypeInv, IndexInv, LookupInv,
     AtSchema, AtDefinition, AtCopy, Lookup, Separate
<1>4. OneBuilder'
  BY <1>1 DEF Return, SchemaInv, SchemaTypeInv, OneBuilder, LookupInv, Lookup
<1>5. LookupsFindWhatExists'
  BY Zenon, <1>1 DEF Return, SchemaInv, SchemaTypeInv, LookupsFindWhatExists, Idle
<1>6. ASSUME NEW q \in Goroutines, lookup'[q] # Idle PROVE LookupInv(lookup[q], q)'
  BY <1>1, <1>6, Owners DEF Return, SchemaInv, SchemaTypeInv, OneBuilder,
     LookupInv, AtSchema, AtDefinition, AtCopy, Lookup
<1> QED BY Zenon, <1>2, <1>3, <1>4, <1>5, <1>6 DEF SchemaInv

-----------------------------------------------------------------------------
(* Every step keeps the invariant. *)
LEMMA NextSchema == ASSUME Separate, SchemaInv, [SchemaNext]_schemaVars PROVE SchemaInv'
<1>1. ASSUME NEW p \in Goroutines, NEW t \in Plain, NEW f \in Field \cup {Unknown},
             Resolve(p, t, FALSE, f)
      PROVE  SchemaInv'
  BY Zenon, <1>1, ResolveInv
<1>2. ASSUME NEW p \in Goroutines, NEW t \in Overridden, NEW f \in Field \cup {Unknown},
             Resolve(p, t, TRUE, f)
      PROVE  SchemaInv'
  BY Zenon, <1>2, ResolveInv
<1>3. ASSUME NEW p \in Goroutines, LookupStep(p) PROVE SchemaInv'
  BY Zenon, <1>3, LockSchemaInv, OnceBeginInv, FillInv, OnceEndInv,
     FindNamedTypeInv, CopyIntoInv, FindFieldInv, ReturnInv DEF LookupStep
<1>4. CASE UNCHANGED schemaVars
  <2>1. UNCHANGED <<once, ref, filled, lock, resolved, lookup>>
    BY Zenon, <1>4 DEF schemaVars
  <2>2. SchemaTypeInv' /\ IndexInv' /\ OneBuilder' /\ LookupsFindWhatExists'
    BY Zenon, <2>1 DEF SchemaInv, SchemaTypeInv, IndexInv, OneBuilder,
       LookupsFindWhatExists
  <2>3. ASSUME NEW p \in Goroutines, lookup'[p] # Idle PROVE LookupInv(lookup[p], p)'
    BY Zenon, <2>1, <2>3 DEF SchemaInv, LookupInv, AtSchema, AtDefinition, AtCopy
  <2> QED BY Zenon, <2>2, <2>3 DEF SchemaInv
<1> QED BY Zenon, <1>1, <1>2, <1>3, <1>4 DEF SchemaNext

(* FindNamedType and FindField find what exists, and only that, for any    *)
(* number of goroutines, types and fields, if no map type is referred to   *)
(* both with and without an override.                                      *)
THEOREM LookupsAreRight ==
    ASSUME Separate
    PROVE  SchemaSpec => []LookupsFindWhatExists
<1>1. SchemaInv => LookupsFindWhatExists
  BY Zenon DEF SchemaInv
<1> QED BY <1>1, InitSchema, NextSchema, PTL DEF SchemaSpec

Fixed ==
    \A o \in Owner : once[o] = "done" =>
        /\ once'[o] = "done"
        /\ ref'[o] = ref[o]
        /\ filled'[ref[o]] = filled[ref[o]]

(* A step writes no index that is done: its builder is past it, and a copy
   that is made had no index. *)
LEMMA StepFixed == ASSUME SchemaInv, [SchemaNext]_schemaVars PROVE Fixed
<1> SUFFICES ASSUME NEW o \in Owner, once[o] = "done"
             PROVE  /\ once'[o] = "done"
                    /\ ref'[o] = ref[o]
                    /\ filled'[ref[o]] = filled[ref[o]]
  BY Zenon DEF Fixed
<1>1. ref[o] = o
  BY Zenon DEF SchemaInv, IndexInv
<1>2. CASE UNCHANGED <<once, ref, filled>>
  BY Zenon, <1>2
<1>3. ASSUME NEW p \in Goroutines, OnceBegin(p) \/ OnceEnd(p)
      PROVE  once'[o] = "done" /\ ref'[o] = ref[o] /\ filled' = filled
  BY Zenon, <1>3 DEF OnceBegin, OnceEnd, SchemaInv, SchemaTypeInv
<1>4. ASSUME NEW p \in Goroutines, NEW name \in MapType \cup ScalarType \cup Field, Fill(p, name)
      PROVE  once' = once /\ ref' = ref /\ filled'[o] = filled[o]
  <2>1. lookup[p] # Idle /\ LookupInv(lookup[p], p)
    BY Zenon, <1>4, NotIdle DEF Fill, SchemaInv
  <2>2. lookup[p].owner # o
    BY Zenon, <1>4, <2>1 DEF Fill, LookupInv
  <2> QED BY Zenon, <1>4, <2>2 DEF Fill, SchemaInv, SchemaTypeInv
<1>5. ASSUME NEW p \in Goroutines, CopyInto(p)
      PROVE  once'[o] = "done" /\ ref'[o] = ref[o] /\ filled' = filled
  <2>1. lookup[p] # Idle /\ LookupInv(lookup[p], p)
    BY Zenon, <1>5, NotIdle DEF CopyInto, SchemaInv
  <2>2. Copy(lookup[p].type) # o
    BY Zenon, <1>5, <2>1 DEF CopyInto, LookupInv, AtSchema, AtDefinition, AtCopy,
       SchemaInv, IndexInv
  <2> QED BY Zenon, <1>5, <2>2 DEF CopyInto, SchemaInv, SchemaTypeInv
<1> QED BY Zenon, <1>1, <1>2, <1>3, <1>4, <1>5
       DEF SchemaNext, LookupStep, Resolve, LockSchema, FindNamedType,
          FindField, Return, schemaVars

(* An index that may be read without waiting is never written and never    *)
(* exchanged, under the same condition.                                    *)
THEOREM IndexesStayFixed ==
    ASSUME Separate
    PROVE  SchemaSpec => IndexesInUseAreFixed
<1>1. SchemaInv /\ [SchemaNext]_schemaVars => [Fixed]_schemaVars
  BY Zenon, StepFixed
<1> QED BY <1>1, InitSchema, NextSchema, PTL DEF SchemaSpec, IndexesInUseAreFixed, Fixed
=============================================================================
