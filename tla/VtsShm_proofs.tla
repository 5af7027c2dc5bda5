--------------------------- MODULE VtsShm_proofs ---------------------------
(***************************************************************************)
(* Proofs about VtsShm for any number of workers, configurations, keys and *)
(* pages: the inductive invariant IInv, and what follows from it.          *)
(***************************************************************************)
EXTENDS VtsShm, FiniteSetTheorems, TLAPS

(* A fresh zone satisfies the invariant. *)
LEMMA InitInv == Init => IInv
<1> SUFFICES ASSUME Init PROVE IInv
  OBVIOUS
<1>1. TypeOK
  BY ConfAssumption DEF Init, TypeOK, PCs
<1>2. FilterNodes = {}
  BY DEF Init, FilterNodes
<1>3. FilterNodesBounded /\ RoomInv
  BY <1>2, FS_EmptySet, ConfAssumption
  DEF Init, FilterNodesBounded, RoomInv
<1>4. MutexInv /\ PagesInv /\ NodeKeysUnique /\ LocalsInv
  BY ConfAssumption
  DEF Init, MutexInv, PagesInv, NodeKeysUnique, LocalsInv
<1> QED
  BY <1>1, <1>3, <1>4 DEF IInv
-----------------------------------------------------------------------------
(* The filter nodes of the tree as a finite set *)

(* They are pages, of which there are finitely many. *)
LEMMA FilterNodesFinite ==
  ASSUME TypeOK
  PROVE  IsFiniteSet(FilterNodes) /\ Cardinality(FilterNodes) \in Nat
<1>1. FilterNodes \in SUBSET Slots
  BY DEF TypeOK, FilterNodes
<1> QED
  BY <1>1, ConfAssumption, FS_Subset, FS_CardinalityType

(* Unlinking nodes never adds filter nodes. *)
LEMMA FilterNodesShrink ==
  ASSUME TypeOK, rbtree' \subseteq rbtree, data' = data
  PROVE  /\ Cardinality(FilterNodes') \in Nat
         /\ Cardinality(FilterNodes') <= Cardinality(FilterNodes)
<1>1. FilterNodes' \in SUBSET FilterNodes
  BY DEF FilterNodes
<1> QED
  BY <1>1, FilterNodesFinite, FS_Subset, FS_CardinalityType

(* Hence the limit holds and room remains after any action that only       *)
(* unlinks, as long as no worker passes the eviction.                      *)
LEMMA LimitKept ==
  ASSUME IInv, rbtree' \subseteq rbtree, data' = data,
         \A v \in Workers : pc'[v] \in {"alloc", "insert"} =>
                              pc[v] \in {"alloc", "insert"}
  PROVE  FilterNodesBounded' /\ RoomInv'
<1>1. /\ Cardinality(FilterNodes') \in Nat
      /\ Cardinality(FilterNodes') <= Cardinality(FilterNodes)
  BY FilterNodesShrink DEF IInv
<1>2. Cardinality(FilterNodes) \in Nat
  BY FilterNodesFinite DEF IInv
<1> QED
  BY <1>1, <1>2, ConfAssumption DEF IInv, FilterNodesBounded, RoomInv
-----------------------------------------------------------------------------
(* Looking up *)

(* find_node returns a page or NULL, and NULL only if the tree has no node *)
(* for the key.                                                            *)
LEMMA FindNodeResult ==
  ASSUME TypeOK, NEW c \in Confs, NEW k \in Keys
  PROVE  /\ find_node(c, k) \in Slots \cup {Nil}
         /\ find_node(c, k) = Nil => \A s \in rbtree : data[s] # k
<1>1. TypeOf[k] \in Types
  BY ConfAssumption
<1>2. node_caches[c][TypeOf[k]] \in Slots \cup {Nil}
  BY <1>1 DEF TypeOK
<1>3. /\ node_lookup(k) \in Slots \cup {Nil}
      /\ node_lookup(k) = Nil => \A s \in rbtree : data[s] # k
  <2>1. CASE \E s \in rbtree : data[s] = k
    <3>1. node_lookup(k) \in rbtree
      BY <2>1 DEF node_lookup
    <3> QED
      BY <3>1, ConfAssumption DEF TypeOK
  <2>2. CASE ~\E s \in rbtree : data[s] = k
    BY <2>2 DEF node_lookup
  <2> QED
    BY <2>1, <2>2
<1> QED
  BY <1>2, <1>3 DEF find_node, CacheHit
-----------------------------------------------------------------------------
(* One lemma per action: it preserves the invariant *)

(* A request waits for the mutex. *)
LEMMA AddNodeInv ==
  ASSUME IInv, NEW w \in Workers, NEW c \in Confs, NEW k \in Keys,
         AddNode(w, c, k)
  PROVE  IInv'
<1>1. TypeOK'
  BY DEF IInv, TypeOK, PCs, AddNode, Lock, zone
<1>2. MutexInv'
  BY ConfAssumption DEF IInv, MutexInv, TypeOK, AddNode, Lock
<1>3. PagesInv' /\ NodeKeysUnique'
  BY DEF IInv, PagesInv, NodeKeysUnique, AddNode, zone
<1>4. LocalsInv'
  BY DEF IInv, LocalsInv, TypeOK, AddNode, Lock, zone
<1>5. FilterNodesBounded' /\ RoomInv'
  BY LimitKept DEF IInv, TypeOK, AddNode, Lock, zone
<1> QED
  BY <1>1, <1>2, <1>3, <1>4, <1>5 DEF IInv

(* find_node decides between eviction, allocation and counting. *)
LEMMA FindInv ==
  ASSUME IInv, NEW w \in Workers, Find(w)
  PROVE  IInv'
<1> DEFINE n == find_node(vtscf[w], want[w])
<1>1. vtscf[w] \in Confs /\ want[w] \in Keys
  BY DEF IInv, LocalsInv, Find
<1>2. /\ n \in Slots \cup {Nil}
      /\ n = Nil => \A s \in rbtree : data[s] # want[w]
  BY <1>1, FindNodeResult DEF IInv
<1> HIDE DEF n
<1>3. /\ node' = [node EXCEPT ![w] = n]
      /\ pc' = [pc EXCEPT ![w] = IF n = Nil THEN "evict" ELSE "set"]
  BY DEF Find, n
<1>4. TypeOK'
  BY <1>2, <1>3 DEF IInv, TypeOK, PCs, Find, zone
<1>5. MutexInv'
  BY <1>3 DEF IInv, MutexInv, TypeOK, Find
<1>6. PagesInv' /\ NodeKeysUnique'
  BY DEF IInv, PagesInv, NodeKeysUnique, Find, zone
<1>7. LocalsInv'
  BY <1>1, <1>2, <1>3 DEF IInv, LocalsInv, TypeOK, Find, zone
<1>8. FilterNodesBounded' /\ RoomInv'
  BY <1>3, LimitKept DEF IInv, TypeOK, Find, zone
<1> QED
  BY <1>4, <1>5, <1>6, <1>7, <1>8 DEF IInv

(* Evicting one of at least filter_max_node filter nodes leaves room.      *)
LEMMA EvictInv ==
  ASSUME IInv, NEW w \in Workers, Evict(w)
  PROVE  IInv'
<1>1. /\ mutex = w
      /\ pc' = [pc EXCEPT ![w] = "alloc"]
      /\ mutex' = mutex /\ data' = data
  BY DEF IInv, MutexInv, Evict, DeleteNode, zone
<1>2. IsFiniteSet(FilterNodes) /\ Cardinality(FilterNodes) \in Nat
  BY FilterNodesFinite DEF IInv
<1>3. CASE LimitReached /\ \E lrun \in find_lru : DeleteNode(lrun)
  <2>1. PICK lrun \in find_lru : DeleteNode(lrun)
    BY <1>3
  <2>2. lrun \in rbtree /\ lrun \in FilterNodes
    BY <2>1 DEF find_lru, FilterNodes
  <2>3. TypeOK'
    BY <2>1, <2>2 DEF IInv, TypeOK, PCs, Evict, DeleteNode, locals
  <2>4. MutexInv' /\ PagesInv' /\ NodeKeysUnique'
    BY <1>1, <2>1, <2>2
    DEF IInv, MutexInv, PagesInv, NodeKeysUnique, TypeOK, DeleteNode
  <2>5. LocalsInv'
    BY <1>1, <2>1, <2>2
    DEF IInv, MutexInv, LocalsInv, TypeOK, Evict, DeleteNode, locals
  <2>6. FilterNodes' = FilterNodes \ {lrun}
    BY <2>1, <2>2 DEF FilterNodes, DeleteNode
  <2>7. /\ Cardinality(FilterNodes') \in Nat
        /\ Cardinality(FilterNodes') = Cardinality(FilterNodes) - 1
    BY <1>2, <2>2, <2>6, FS_RemoveElement, FS_CardinalityType
  <2>8. FilterNodesBounded' /\ RoomInv'
    BY <1>2, <2>7, ConfAssumption DEF IInv, FilterNodesBounded, RoomInv
  <2> QED
    BY <2>3, <2>4, <2>5, <2>8 DEF IInv
<1>4. CASE (~LimitReached \/ PoolMayFail) /\ UNCHANGED zone
  <2>1. TypeOK'
    BY <1>4 DEF IInv, TypeOK, PCs, Evict, zone, locals
  <2>2. MutexInv' /\ PagesInv' /\ NodeKeysUnique'
    BY <1>1, <1>4 DEF IInv, MutexInv, PagesInv, NodeKeysUnique, TypeOK, zone
  <2>3. LocalsInv'
    BY <1>1, <1>4 DEF IInv, LocalsInv, TypeOK, Evict, zone, locals
  <2>4. FilterNodes' = FilterNodes
    BY <1>4 DEF FilterNodes, zone
  <2>5. FilterNodesBounded' /\ RoomInv'
    BY <1>2, <1>4, <2>4, ConfAssumption
    DEF IInv, FilterNodesBounded, RoomInv, LimitReached
  <2> QED
    BY <2>1, <2>2, <2>3, <2>5 DEF IInv
<1> QED
  BY <1>3, <1>4 DEF Evict

(* The page that was taken is linked nowhere. *)
LEMMA AllocInv ==
  ASSUME IInv, NEW w \in Workers, Alloc(w)
  PROVE  IInv'
<1>1. PICK s \in free : /\ node' = [node EXCEPT ![w] = s]
                        /\ free' = free \ {s}
  BY DEF Alloc
<1>2. s \in Slots /\ s \notin rbtree /\ mutex = w
  BY <1>1 DEF IInv, TypeOK, PagesInv, MutexInv, Alloc
<1>3. TypeOK'
  BY <1>1, <1>2 DEF IInv, TypeOK, PCs, Alloc
<1>4. MutexInv' /\ PagesInv' /\ NodeKeysUnique'
  BY <1>1 DEF IInv, MutexInv, PagesInv, NodeKeysUnique, TypeOK, Alloc
<1>5. LocalsInv'
  BY <1>1, <1>2 DEF IInv, MutexInv, LocalsInv, TypeOK, Alloc
<1>6. FilterNodesBounded' /\ RoomInv'
  BY LimitKept DEF IInv, TypeOK, Alloc
<1> QED
  BY <1>3, <1>4, <1>5, <1>6 DEF IInv

(* Leaving the critical section, from wherever. *)
LEMMA UnlockInv ==
  ASSUME IInv, NEW w \in Workers, mutex = w, Unlock(w),
         UNCHANGED <<zone, now, crashes>>,
         node_caches' \in [Confs -> [Types -> Slots \cup {Nil}]]
  PROVE  IInv'
<1>1. TypeOK'
  BY DEF IInv, TypeOK, PCs, Unlock, Forget, zone
<1>2. MutexInv'
  BY ConfAssumption DEF IInv, MutexInv, TypeOK, Unlock
<1>3. PagesInv' /\ NodeKeysUnique'
  BY DEF IInv, PagesInv, NodeKeysUnique, zone
<1>4. LocalsInv'
  BY DEF IInv, LocalsInv, TypeOK, Unlock, Forget, zone
<1>5. FilterNodesBounded' /\ RoomInv'
  BY LimitKept DEF IInv, TypeOK, Unlock, zone
<1> QED
  BY <1>1, <1>2, <1>3, <1>4, <1>5 DEF IInv

(* Both exits of a failed allocation unlock. *)
LEMMA AllocFailsInv ==
  ASSUME IInv, NEW w \in Workers, AllocFails(w)
  PROVE  IInv'
BY UnlockInv DEF IInv, TypeOK, MutexInv, AllocFails

(* The node that was counted becomes the cached pointer. *)
LEMMA CacheInv ==
  ASSUME IInv, NEW w \in Workers, Cache(w)
  PROVE  IInv'
<1>1. node[w] \in Slots /\ mutex = w
  BY DEF IInv, LocalsInv, MutexInv, Cache
<1>2. node_caches' \in [Confs -> [Types -> Slots \cup {Nil}]]
  BY <1>1 DEF IInv, TypeOK, Cache
<1> QED
  BY <1>1, <1>2, UnlockInv DEF Cache

(* A command ends. *)
LEMMA ControlDoneInv ==
  ASSUME IInv, NEW w \in Workers, ControlDone(w)
  PROVE  IInv'
BY UnlockInv DEF IInv, TypeOK, MutexInv, ControlDone

(* The new node is the only one of its key, and there was room for it.     *)
LEMMA InsertInv ==
  ASSUME IInv, NEW w \in Workers, Insert(w)
  PROVE  IInv'
<1> DEFINE n == node[w]
<1>1. /\ n \in Slots \ (rbtree \cup free)
      /\ want[w] \in Keys
      /\ \A s \in rbtree : data[s] # want[w]
      /\ mutex = w
  BY DEF IInv, LocalsInv, MutexInv, Insert
<1>2. Hash[want[w]] \in Nat
  BY <1>1, ConfAssumption
<1>3. /\ rbtree' = rbtree \cup {n}
      /\ data' = [data EXCEPT ![n] = want[w]]
      /\ key' = [key EXCEPT ![n] = Hash[want[w]]]
      /\ pc' = [pc EXCEPT ![w] = "cache"]
  BY DEF Insert
<1>4. TypeOK'
  BY <1>1, <1>2 DEF IInv, TypeOK, PCs, Insert, locals
<1>5. MutexInv'
  BY DEF IInv, MutexInv, TypeOK, Insert
<1>6. PagesInv'
  BY <1>1, <1>3 DEF IInv, PagesInv, TypeOK, Insert
<1>7. NodeKeysUnique'
  BY <1>1, <1>3 DEF IInv, NodeKeysUnique, TypeOK
<1>8. LocalsInv'
  BY <1>1, <1>3 DEF IInv, MutexInv, LocalsInv, TypeOK, Insert, locals
<1>9. FilterNodesBounded' /\ RoomInv'
  <2>1. IsFiniteSet(FilterNodes) /\ Cardinality(FilterNodes) \in Nat
    BY FilterNodesFinite DEF IInv
  <2>2. /\ IsFiniteSet(FilterNodes \cup {n})
        /\ Cardinality(FilterNodes \cup {n}) <= Cardinality(FilterNodes) + 1
        /\ Cardinality(FilterNodes \cup {n}) \in Nat
    <3>1. /\ IsFiniteSet(FilterNodes \cup {n})
          /\ Cardinality(FilterNodes \cup {n}) =
               IF n \in FilterNodes THEN Cardinality(FilterNodes)
                                    ELSE Cardinality(FilterNodes) + 1
      BY <2>1, FS_AddElement
    <3> QED
      BY <2>1, <3>1
  <2>3. FilterNodes' \in SUBSET (FilterNodes \cup {n})
    BY <1>1, <1>3 DEF IInv, TypeOK, FilterNodes
  <2>4. /\ Cardinality(FilterNodes') \in Nat
        /\ Cardinality(FilterNodes') <= Cardinality(FilterNodes) + 1
    BY <2>1, <2>2, <2>3, FS_Subset, FS_CardinalityType
  <2>5. pc[w] = "insert" /\ \A v \in Workers : v # w => pc[v] = "idle"
    BY <1>1, ConfAssumption DEF IInv, MutexInv, TypeOK, Insert
  <2>6. FilterNodesBounded'
    BY <2>1, <2>4, <2>5, ConfAssumption
    DEF IInv, RoomInv, FilterNodesBounded
  <2>7. RoomInv'
    BY <1>3, <2>5 DEF IInv, TypeOK, RoomInv
  <2> QED
    BY <2>6, <2>7
<1> QED
  BY <1>4, <1>5, <1>6, <1>7, <1>8, <1>9 DEF IInv

(* Counting in a linked node moves nothing. *)
LEMMA SetInv ==
  ASSUME IInv, NEW w \in Workers, Set(w)
  PROVE  IInv'
<1>1. node[w] \in Slots /\ reqs[node[w]] \in Nat
  BY DEF IInv, LocalsInv, TypeOK, Set
<1>2. TypeOK'
  BY <1>1 DEF IInv, TypeOK, PCs, Set, locals
<1>3. MutexInv' /\ PagesInv' /\ NodeKeysUnique'
  BY DEF IInv, MutexInv, PagesInv, NodeKeysUnique, TypeOK, Set
<1>4. LocalsInv'
  BY DEF IInv, LocalsInv, TypeOK, Set, locals
<1>5. FilterNodesBounded' /\ RoomInv'
  BY LimitKept DEF IInv, TypeOK, Set
<1> QED
  BY <1>2, <1>3, <1>4, <1>5 DEF IInv

(* Readers of the tree move a cached pointer and nothing else.             *)
LEMMA CachePointerInv ==
  ASSUME IInv, UNCHANGED <<mutex, zone, pc, locals, now, crashes>>,
         node_caches' \in [Confs -> [Types -> Slots \cup {Nil}]]
  PROVE  IInv'
<1>1. TypeOK'
  BY DEF IInv, TypeOK, zone, locals
<1>2. MutexInv' /\ PagesInv' /\ NodeKeysUnique' /\ LocalsInv'
  BY DEF IInv, MutexInv, PagesInv, NodeKeysUnique, LocalsInv, zone, locals
<1>3. FilterNodesBounded' /\ RoomInv'
  BY LimitKept DEF zone
<1> QED
  BY <1>1, <1>2, <1>3 DEF IInv

(* Variables and limits look nodes up. *)
LEMMA ReaderInv ==
  ASSUME IInv, NEW w \in Workers, NEW c \in Confs, NEW k \in Keys,
         NodeVariable(w, c, k) \/ LimitTraffic(w, c, k)
  PROVE  IInv'
<1>1. find_node(c, k) \in Slots \cup {Nil}
  BY FindNodeResult DEF IInv
<1>2. node_caches' =
        [node_caches EXCEPT ![c][TypeOf[k]] = find_node(c, k)]
  BY DEF NodeVariable, LimitTraffic
<1>3. node_caches' \in [Confs -> [Types -> Slots \cup {Nil}]]
  BY <1>1, <1>2 DEF IInv, TypeOK
<1> QED
  BY <1>3, CachePointerInv DEF NodeVariable, LimitTraffic

(* A command chooses its nodes under the mutex. *)
LEMMA ControlInv ==
  ASSUME IInv, NEW w \in Workers, NEW cmd \in {"delete", "reset"},
         Control(w, cmd)
  PROVE  IInv'
<1>1. PICK S \in ControlRanges : todo' = [todo EXCEPT ![w] = S]
  BY DEF Control
<1>2. S \subseteq rbtree
  BY DEF ControlRanges
<1>3. TypeOK'
  BY <1>1, <1>2 DEF IInv, TypeOK, PCs, Control, Lock, zone
<1>4. MutexInv'
  BY ConfAssumption DEF IInv, MutexInv, TypeOK, Control, Lock
<1>5. PagesInv' /\ NodeKeysUnique'
  BY DEF IInv, PagesInv, NodeKeysUnique, Control, zone
<1>6. LocalsInv'
  BY <1>1, <1>2 DEF IInv, LocalsInv, TypeOK, Control, Lock, zone
<1>7. FilterNodesBounded' /\ RoomInv'
  BY LimitKept DEF IInv, TypeOK, Control, Lock, zone
<1> QED
  BY <1>3, <1>4, <1>5, <1>6, <1>7 DEF IInv

(* No other worker holds a local variable the deletion could invalidate.   *)
LEMMA ControlDeleteInv ==
  ASSUME IInv, NEW w \in Workers, ControlDelete(w)
  PROVE  IInv'
<1>1. PICK s \in todo[w] : /\ DeleteNode(s)
                           /\ todo' = [todo EXCEPT ![w] = @ \ {s}]
  BY DEF ControlDelete
<1>2. s \in rbtree /\ s \in Slots
  BY DEF IInv, LocalsInv, TypeOK, ControlDelete
<1>3. pc[w] = "delete" /\ \A v \in Workers : v # w => pc[v] = "idle"
  BY ConfAssumption DEF IInv, MutexInv, TypeOK, ControlDelete
<1>4. TypeOK'
  BY <1>1, <1>2 DEF IInv, TypeOK, ControlDelete, DeleteNode
<1>5. MutexInv' /\ PagesInv' /\ NodeKeysUnique'
  BY <1>1, <1>2
  DEF IInv, MutexInv, PagesInv, NodeKeysUnique, TypeOK, ControlDelete,
      DeleteNode
<1>6. LocalsInv'
  BY <1>1, <1>2, <1>3 DEF IInv, LocalsInv, TypeOK, ControlDelete, DeleteNode
<1>7. FilterNodesBounded' /\ RoomInv'
  BY <1>1, LimitKept DEF ControlDelete, DeleteNode
<1> QED
  BY <1>4, <1>5, <1>6, <1>7 DEF IInv

(* A reset moves no node. *)
LEMMA ControlResetInv ==
  ASSUME IInv, NEW w \in Workers, ControlReset(w)
  PROVE  IInv'
<1>1. TypeOK'
  BY DEF IInv, TypeOK, ControlReset
<1>2. MutexInv' /\ PagesInv' /\ NodeKeysUnique'
  BY DEF IInv, MutexInv, PagesInv, NodeKeysUnique, ControlReset
<1>3. LocalsInv'
  BY DEF IInv, LocalsInv, TypeOK, ControlReset
<1>4. FilterNodesBounded' /\ RoomInv'
  BY LimitKept DEF ControlReset
<1> QED
  BY <1>1, <1>2, <1>3, <1>4 DEF IInv

(* A worker killed inside the critical section leaves a zone the next      *)
(* holder of the mutex can work with: at worst a page is lost.             *)
LEMMA CrashInv ==
  ASSUME IInv, NEW w \in Workers, Crash(w)
  PROVE  IInv'
<1>1. TypeOK'
  BY DEF IInv, TypeOK, PCs, Crash, Forget, zone
<1>2. MutexInv'
  BY ConfAssumption DEF IInv, MutexInv, TypeOK, Crash
<1>3. PagesInv' /\ NodeKeysUnique'
  BY DEF IInv, PagesInv, NodeKeysUnique, Crash, zone
<1>4. LocalsInv'
  BY DEF IInv, LocalsInv, TypeOK, Crash, Forget, zone
<1>5. FilterNodesBounded' /\ RoomInv'
  BY LimitKept DEF IInv, TypeOK, Crash, zone
<1> QED
  BY <1>1, <1>2, <1>3, <1>4, <1>5 DEF IInv

(* Time passes. *)
LEMMA TickInv ==
  ASSUME IInv, Tick
  PROVE  IInv'
<1>1. TypeOK'
  BY DEF IInv, TypeOK, Tick, zone, locals
<1>2. MutexInv' /\ PagesInv' /\ NodeKeysUnique' /\ LocalsInv'
  BY DEF IInv, MutexInv, PagesInv, NodeKeysUnique, LocalsInv, Tick, zone,
         locals
<1>3. FilterNodesBounded' /\ RoomInv'
  BY LimitKept DEF Tick, zone
<1> QED
  BY <1>1, <1>2, <1>3 DEF IInv
-----------------------------------------------------------------------------
(* The invariant *)

(* Every step of every worker. *)
LEMMA NextInv == IInv /\ [Next]_vars => IInv'
<1> SUFFICES ASSUME IInv, [Next]_vars PROVE IInv'
  OBVIOUS
<1>1. CASE UNCHANGED vars
  <2>1. TypeOK'
    BY <1>1 DEF IInv, TypeOK, vars, zone, locals
  <2>2. MutexInv' /\ PagesInv' /\ NodeKeysUnique' /\ LocalsInv'
    BY <1>1 DEF IInv, MutexInv, PagesInv, NodeKeysUnique, LocalsInv, vars,
                zone, locals
  <2>3. FilterNodesBounded' /\ RoomInv'
    BY <1>1, LimitKept DEF vars, zone
  <2> QED
    BY <2>1, <2>2, <2>3 DEF IInv
<1>2. CASE Tick
  BY <1>2, TickInv
<1>3. ASSUME NEW w \in Workers, NEW c \in Confs, NEW k \in Keys,
             \/ AddNode(w, c, k)
             \/ NodeVariable(w, c, k)
             \/ LimitTraffic(w, c, k)
      PROVE  IInv'
  BY <1>3, AddNodeInv, ReaderInv
<1>4. ASSUME NEW w \in Workers, Control(w, "delete") \/ Control(w, "reset")
      PROVE  IInv'
  BY <1>4, ControlInv
<1>5. ASSUME NEW w \in Workers, Step(w) PROVE IInv'
  BY <1>5, FindInv, EvictInv, AllocInv, AllocFailsInv, InsertInv, SetInv,
     CacheInv, ControlDeleteInv, ControlResetInv, ControlDoneInv DEF Step
<1>6. ASSUME NEW w \in Workers, Crash(w) PROVE IInv'
  BY <1>6, CrashInv
<1> QED
  BY <1>1, <1>2, <1>3, <1>4, <1>5, <1>6 DEF Next

(* The invariant holds in every reachable state, with or without colliding *)
(* hashes and however often workers are killed.                            *)
THEOREM Invariant == Spec => []IInv
  BY InitInv, NextInv, PTL DEF Spec

(* Every variable keeps its type. *)
THEOREM TypeCorrect == Spec => []TypeOK
<1>1. IInv => TypeOK
  BY DEF IInv
<1> QED
  BY <1>1, Invariant, PTL

(* Racing workers never link two nodes for one key. *)
THEOREM OneNodePerKey == Spec => []NodeKeysUnique
<1>1. IInv => NodeKeysUnique
  BY DEF IInv
<1> QED
  BY <1>1, Invariant, PTL

(* filter_max_node is never exceeded by live insertion. *)
THEOREM LimitRespected == Spec => []FilterNodesBounded
<1>1. IInv => FilterNodesBounded
  BY DEF IInv
<1> QED
  BY <1>1, Invariant, PTL

(* The short cut of find_node is right for every page, cached or stale, as *)
(* long as no two keys share a CRC32 and none hashes to 0: an unlinked     *)
(* page carries 0 and a linked one the hash of its own key.                *)
LEMMA CachedNodeLemma ==
  ASSUME HashesDistinct, IInv
  PROVE  CachedNodeServes
<1> SUFFICES ASSUME NEW c \in Confs, NEW k \in Keys, CacheHit(c, k)
             PROVE  /\ node_caches[c][TypeOf[k]] \in rbtree
                    /\ data[node_caches[c][TypeOf[k]]] = k
  BY DEF CachedNodeServes
<1> DEFINE s == node_caches[c][TypeOf[k]]
<1>1. s # Nil /\ key[s] = Hash[k]
  BY DEF CacheHit
<1>2. s \in Slots
  <2>1. TypeOf[k] \in Types
    BY ConfAssumption
  <2> QED
    BY <1>1, <2>1 DEF IInv, TypeOK
<1>3. s \in rbtree
  BY <1>1, <1>2 DEF HashesDistinct, IInv, PagesInv
<1>4. data[s] \in Keys /\ key[s] = Hash[data[s]]
  BY <1>3 DEF IInv, PagesInv
<1> QED
  BY <1>1, <1>3, <1>4 DEF HashesDistinct

(* Hence, in every reachable state, a cached pointer that passes the test   *)
(* of find_node is the linked node of the wanted key.                      *)
THEOREM CacheCoherent == HashesDistinct /\ Spec => []CachedNodeServes
<1> SUFFICES ASSUME HashesDistinct PROVE Spec => []CachedNodeServes
  OBVIOUS
<1>1. IInv => CachedNodeServes
  BY CachedNodeLemma
<1> QED
  BY <1>1, Invariant, PTL
-----------------------------------------------------------------------------
(* Counting *)

(* Whoever is inside holds the mutex. *)
LEMMA OnlyHolderInside ==
  ASSUME IInv, NEW w \in Workers, pc[w] # "idle"
  PROVE  \A v \in Workers : v # w => pc[v] = "idle"
BY DEF IInv, MutexInv

(* An open mutex has nobody inside. *)
LEMMA NobodyInside ==
  ASSUME IInv, mutex = Nil
  PROVE  \A v \in Workers : pc[v] = "idle"
BY ConfAssumption DEF IInv, MutexInv

(* find_node ends in the linked node of the key, or the worker goes on to  *)
(* create one.                                                             *)
LEMMA FindCounts ==
  ASSUME HashesDistinct, IInv, NEW w \in Workers, Find(w)
  PROVE  CountsOwnNode'
<1> DEFINE n == find_node(vtscf[w], want[w])
<1>1. vtscf[w] \in Confs /\ want[w] \in Keys
  BY DEF IInv, LocalsInv, Find
<1>2. n = Nil \/ (n \in rbtree /\ data[n] = want[w])
  <2>1. CASE CacheHit(vtscf[w], want[w])
    BY <1>1, <2>1, CachedNodeLemma DEF CachedNodeServes, find_node
  <2>2. CASE ~CacheHit(vtscf[w], want[w])
    BY <2>2 DEF find_node, node_lookup
  <2> QED
    BY <2>1, <2>2
<1> HIDE DEF n
<1>3. /\ node' = [node EXCEPT ![w] = n]
      /\ pc' = [pc EXCEPT ![w] = IF n = Nil THEN "evict" ELSE "set"]
      /\ UNCHANGED <<rbtree, data, want>>
  BY DEF Find, n, zone
<1>4. \A v \in Workers : v # w => pc[v] = "idle"
  BY OnlyHolderInside DEF Find
<1> QED
  BY <1>2, <1>3, <1>4 DEF CountsOwnNode, IInv, TypeOK

(* Every step keeps the chosen node that of the key. *)
LEMMA NextCounts ==
  ASSUME HashesDistinct, IInv, CountsOwnNode, [Next]_vars
  PROVE  CountsOwnNode'
<1>1. CASE UNCHANGED vars \/ Tick
  BY <1>1 DEF CountsOwnNode, vars, zone, locals, Tick
<1>2. ASSUME NEW w \in Workers, NEW c \in Confs, NEW k \in Keys,
             NodeVariable(w, c, k) \/ LimitTraffic(w, c, k)
      PROVE  CountsOwnNode'
  BY <1>2 DEF CountsOwnNode, zone, locals, NodeVariable, LimitTraffic
<1>3. ASSUME NEW w \in Workers, NEW c \in Confs, NEW k \in Keys,
             AddNode(w, c, k)
      PROVE  CountsOwnNode'
  BY <1>3, NobodyInside DEF CountsOwnNode, AddNode, Lock, IInv, TypeOK
<1>4. ASSUME NEW w \in Workers, Control(w, "delete") \/ Control(w, "reset")
      PROVE  CountsOwnNode'
  BY <1>4, NobodyInside DEF CountsOwnNode, Control, Lock, IInv, TypeOK
<1>5. ASSUME NEW w \in Workers, Step(w) PROVE CountsOwnNode'
  <2>1. CASE Find(w)
    BY <2>1, FindCounts
  <2>2. CASE Evict(w) \/ Alloc(w) \/ Insert(w) \/ Set(w)
    <3>1. \A v \in Workers : v # w => pc[v] = "idle"
      BY <2>2, OnlyHolderInside DEF Evict, Alloc, Insert, Set
    <3>2. \A v \in Workers : pc'[v] # "set"
      BY <2>2, <3>1 DEF Evict, Alloc, Insert, Set, IInv, TypeOK
    <3> QED
      BY <3>2 DEF CountsOwnNode
  <2>3. CASE AllocFails(w) \/ Cache(w) \/ ControlDone(w)
    <3>1. \A v \in Workers : v # w => pc[v] = "idle"
      BY <2>3, OnlyHolderInside DEF AllocFails, Cache, ControlDone
    <3>2. \A v \in Workers : pc'[v] # "set"
      BY <2>3, <3>1
      DEF AllocFails, Cache, ControlDone, Unlock, IInv, TypeOK
    <3> QED
      BY <3>2 DEF CountsOwnNode
  <2>4. CASE ControlDelete(w) \/ ControlReset(w)
    <3>1. \A v \in Workers : v # w => pc[v] = "idle"
      BY <2>4, OnlyHolderInside DEF ControlDelete, ControlReset
    <3>2. \A v \in Workers : pc'[v] # "set"
      BY <2>4, <3>1 DEF ControlDelete, ControlReset
    <3> QED
      BY <3>2 DEF CountsOwnNode
  <2> QED
    BY <1>5, <2>1, <2>2, <2>3, <2>4 DEF Step
<1>6. ASSUME NEW w \in Workers, Crash(w) PROVE CountsOwnNode'
  BY <1>6 DEF CountsOwnNode, Crash, Forget, zone, IInv, TypeOK
<1> QED
  BY <1>1, <1>2, <1>3, <1>4, <1>5, <1>6 DEF Next

(* node_set only ever counts a request in the linked node of its own key,  *)
(* under the same condition on the hashes.                                 *)
THEOREM OwnNodeCounted == HashesDistinct /\ Spec => []CountsOwnNode
<1> SUFFICES ASSUME HashesDistinct PROVE Spec => []CountsOwnNode
  OBVIOUS
<1>1. Init => CountsOwnNode
  BY DEF Init, CountsOwnNode
<1>2. IInv /\ CountsOwnNode /\ [Next]_vars => CountsOwnNode'
  BY NextCounts
<1> QED
  BY <1>1, <1>2, Invariant, PTL DEF Spec
-----------------------------------------------------------------------------
(* Pages *)

(* Pages that nobody can reach any more, or that a worker is about to link.*)
Adrift == Slots \ (rbtree \cup free)
Inserting == {w \in Workers : pc[w] = "insert"}

(* Pages can be counted. *)
LEMMA PagesFinite ==
  ASSUME NEW S \in SUBSET Slots
  PROVE  IsFiniteSet(S) /\ Cardinality(S) \in Nat
BY ConfAssumption, FS_Subset, FS_CardinalityType

(* A set of at most one worker h. *)
LEMMA OneAtMost ==
  ASSUME NEW h, NEW I \in SUBSET {h}
  PROVE  /\ Cardinality(I) \in {0, 1}
         /\ I = {} => Cardinality(I) = 0
         /\ h \in I => Cardinality(I) = 1
<1>1. I = {} \/ I = {h}
  OBVIOUS
<1> QED
  BY <1>1, FS_EmptySet, FS_Singleton

(* What counting them gives, before and after a step: only the holder of   *)
(* the mutex can be between allocation and insertion.                      *)
LEMMA Counted ==
  ASSUME IInv, IInv'
  PROVE  /\ IsFiniteSet(Adrift)
         /\ Cardinality(Adrift) \in Nat /\ Cardinality(Adrift') \in Nat
         /\ Cardinality(Inserting) \in {0, 1}
         /\ Cardinality(Inserting') \in {0, 1}
         /\ (\A w \in Workers : pc[w] # "insert") => Cardinality(Inserting) = 0
         /\ \A w \in Workers : pc[w] = "insert" => Cardinality(Inserting) = 1
         /\ \A w \in Workers : pc'[w] = "insert" => Cardinality(Inserting') = 1
<1>1. Adrift \in SUBSET Slots /\ Adrift' \in SUBSET Slots
  BY DEF Adrift
<1>2. Inserting \in SUBSET {mutex} /\ Inserting' \in SUBSET {mutex'}
  BY DEF IInv, MutexInv, Inserting
<1>3. \A w \in Workers : pc[w] = "insert" => mutex \in Inserting
  BY DEF IInv, MutexInv, Inserting
<1>4. \A w \in Workers : pc'[w] = "insert" => mutex' \in Inserting'
  BY DEF IInv, MutexInv, Inserting
<1>5. (\A w \in Workers : pc[w] # "insert") => Inserting = {}
  BY DEF Inserting
<1>6. /\ IsFiniteSet(Adrift)
      /\ Cardinality(Adrift) \in Nat /\ Cardinality(Adrift') \in Nat
  BY <1>1, PagesFinite
<1>7. /\ Cardinality(Inserting) \in {0, 1}
      /\ Inserting = {} => Cardinality(Inserting) = 0
      /\ mutex \in Inserting => Cardinality(Inserting) = 1
  BY <1>2, OneAtMost
<1>8. /\ Cardinality(Inserting') \in {0, 1}
      /\ mutex' \in Inserting' => Cardinality(Inserting') = 1
  BY <1>2, OneAtMost
<1> QED
  BY <1>3, <1>4, <1>5, <1>6, <1>7, <1>8

(* Nothing is lost by a step that gives back what it takes away. *)
LEMMA LeaksKept ==
  ASSUME IInv, IInv', SlabLeaksOnlyByCrash,
         Adrift' \subseteq Adrift, crashes' = crashes,
         (\E w \in Workers : pc[w] = "insert") =>
            \E w \in Workers : pc'[w] = "insert"
  PROVE  SlabLeaksOnlyByCrash'
<1>1. Cardinality(Adrift') <= Cardinality(Adrift)
  <2>1. IsFiniteSet(Adrift) /\ Adrift' \in SUBSET Adrift
    BY Counted
  <2> QED
    BY <2>1, FS_Subset
<1>2. Cardinality(Inserting) <= Cardinality(Inserting')
  BY Counted
<1>3. Cardinality(Adrift) <= crashes + Cardinality(Inserting)
  BY DEF SlabLeaksOnlyByCrash, Adrift, Inserting
<1>4. crashes \in Nat
  BY DEF IInv, TypeOK
<1>5. Cardinality(Adrift') <= crashes' + Cardinality(Inserting')
  BY <1>1, <1>2, <1>3, <1>4, Counted
<1> QED
  BY <1>5 DEF SlabLeaksOnlyByCrash, Adrift, Inserting

(* The page that is taken is adrift until it is linked. *)
LEMMA PageTaken ==
  ASSUME IInv, IInv', SlabLeaksOnlyByCrash, NEW w \in Workers, Alloc(w)
  PROVE  SlabLeaksOnlyByCrash'
<1>1. PICK s \in free : free' = free \ {s}
  BY DEF Alloc
<1>2. Adrift' = Adrift \cup {s}
  BY <1>1 DEF IInv, TypeOK, PagesInv, Alloc, Adrift
<1>3. Cardinality(Adrift') <= Cardinality(Adrift) + 1
  <2>1. Cardinality(Adrift \cup {s}) = IF s \in Adrift THEN Cardinality(Adrift)
                                                      ELSE Cardinality(Adrift) + 1
    BY Counted, FS_AddElement
  <2> QED
    BY <1>2, <2>1, Counted
<1>4. Cardinality(Inserting) = 0 /\ Cardinality(Inserting') = 1
  <2>1. pc[w] = "alloc" /\ pc'[w] = "insert"
    BY DEF Alloc, IInv, TypeOK
  <2>2. \A v \in Workers : pc[v] # "insert"
    BY <2>1, OnlyHolderInside
  <2> QED
    BY <2>1, <2>2, Counted
<1>5. Cardinality(Adrift) <= crashes + Cardinality(Inserting)
  BY DEF SlabLeaksOnlyByCrash, Adrift, Inserting
<1>6. crashes \in Nat /\ crashes' = crashes
  BY DEF IInv, TypeOK, Alloc
<1>7. Cardinality(Adrift') <= crashes' + Cardinality(Inserting')
  BY <1>3, <1>4, <1>5, <1>6, Counted
<1> QED
  BY <1>7 DEF SlabLeaksOnlyByCrash, Adrift, Inserting

(* The page that is linked was adrift. *)
LEMMA PageLinked ==
  ASSUME IInv, IInv', SlabLeaksOnlyByCrash, NEW w \in Workers, Insert(w)
  PROVE  SlabLeaksOnlyByCrash'
<1>1. node[w] \in Adrift
  BY DEF IInv, LocalsInv, Insert, Adrift
<1>2. Adrift' = Adrift \ {node[w]}
  BY DEF Insert, Adrift
<1>3. Cardinality(Adrift') = Cardinality(Adrift) - 1
  BY <1>1, <1>2, Counted, FS_RemoveElement
<1>4. Cardinality(Inserting) = 1
  BY Counted DEF Insert
<1>5. Cardinality(Adrift) <= crashes + Cardinality(Inserting)
  BY DEF SlabLeaksOnlyByCrash, Adrift, Inserting
<1>6. crashes \in Nat /\ crashes' = crashes
  BY DEF IInv, TypeOK, Insert
<1>7. Cardinality(Adrift') <= crashes' + Cardinality(Inserting')
  BY <1>3, <1>4, <1>5, <1>6, Counted
<1> QED
  BY <1>7 DEF SlabLeaksOnlyByCrash, Adrift, Inserting

(* A kill loses the page of the worker that was about to link one.         *)
LEMMA CrashLeaks ==
  ASSUME IInv, IInv', SlabLeaksOnlyByCrash, NEW w \in Workers, Crash(w)
  PROVE  SlabLeaksOnlyByCrash'
<1>1. Adrift' = Adrift
  BY DEF Crash, zone, Adrift
<1>2. Cardinality(Adrift) <= crashes + Cardinality(Inserting)
  BY DEF SlabLeaksOnlyByCrash, Adrift, Inserting
<1>3. crashes \in Nat /\ crashes' = crashes + 1
  BY DEF IInv, TypeOK, Crash
<1>4. Cardinality(Adrift') <= crashes' + Cardinality(Inserting')
  BY <1>1, <1>2, <1>3, Counted
<1> QED
  BY <1>4 DEF SlabLeaksOnlyByCrash, Adrift, Inserting

(* Adding, evicting, deleting and resetting lose no page, a kill at most   *)
(* the one that was to be inserted.                                        *)
LEMMA NextLeaks ==
  ASSUME IInv, IInv', SlabLeaksOnlyByCrash, [Next]_vars
  PROVE  SlabLeaksOnlyByCrash'
<1>1. CASE UNCHANGED vars \/ Tick
  BY <1>1, LeaksKept DEF vars, zone, locals, Tick, Adrift
<1>2. ASSUME NEW w \in Workers, NEW c \in Confs, NEW k \in Keys,
             NodeVariable(w, c, k) \/ LimitTraffic(w, c, k)
      PROVE  SlabLeaksOnlyByCrash'
  BY <1>2, LeaksKept DEF zone, NodeVariable, LimitTraffic, Adrift
<1>3. ASSUME NEW w \in Workers,
             \/ \E c \in Confs, k \in Keys : AddNode(w, c, k)
             \/ Control(w, "delete") \/ Control(w, "reset")
      PROVE  SlabLeaksOnlyByCrash'
  <2>1. UNCHANGED <<zone, crashes>>
    BY <1>3 DEF AddNode, Control
  <2>2. \A v \in Workers : pc[v] = "idle"
    BY <1>3, NobodyInside DEF AddNode, Control, Lock
  <2> QED
    BY <2>1, <2>2, LeaksKept DEF zone, Adrift
<1>4. ASSUME NEW w \in Workers, Step(w) PROVE SlabLeaksOnlyByCrash'
  <2>1. pc[w] # "idle" /\ \A v \in Workers : v # w => pc[v] = "idle"
    <3>1. pc[w] # "idle"
      BY <1>4 DEF Step, Find, Evict, Alloc, AllocFails, Insert, Set, Cache,
                  ControlDelete, ControlReset, ControlDone
    <3> QED
      BY <3>1, OnlyHolderInside
  <2>2. CASE Find(w) \/ Set(w) \/ ControlReset(w)
    BY <2>1, <2>2, LeaksKept DEF Find, Set, ControlReset, zone, Adrift
  <2>3. CASE AllocFails(w) \/ Cache(w) \/ ControlDone(w)
    BY <2>1, <2>3, LeaksKept DEF AllocFails, Cache, ControlDone, zone, Adrift
  <2>4. CASE Evict(w)
    BY <2>1, <2>4, LeaksKept DEF Evict, DeleteNode, zone, Adrift
  <2>5. CASE ControlDelete(w)
    BY <2>1, <2>5, LeaksKept DEF ControlDelete, DeleteNode, Adrift
  <2>6. CASE Alloc(w)
    BY <2>1, <2>6, PageTaken
  <2>7. CASE Insert(w)
    BY <2>1, <2>7, PageLinked
  <2> QED
    BY <1>4, <2>2, <2>3, <2>4, <2>5, <2>6, <2>7 DEF Step
<1>5. ASSUME NEW w \in Workers, Crash(w) PROVE SlabLeaksOnlyByCrash'
  BY <1>5, CrashLeaks
<1> QED
  BY <1>1, <1>2, <1>3, <1>4, <1>5 DEF Next

(* Whatever workers do, the slab has lost at most one page per kill.       *)
THEOREM LeaksBounded == Spec => []SlabLeaksOnlyByCrash
<1>1. Init => SlabLeaksOnlyByCrash
  <2> SUFFICES ASSUME Init PROVE SlabLeaksOnlyByCrash
    OBVIOUS
  <2>1. Slots \ (rbtree \cup free) = {} /\ {w \in Workers : pc[w] = "insert"} = {}
    BY DEF Init
  <2> QED
    BY <2>1, FS_EmptySet DEF Init, SlabLeaksOnlyByCrash
<1>2. IInv /\ IInv' /\ SlabLeaksOnlyByCrash /\ [Next]_vars => SlabLeaksOnlyByCrash'
  BY NextLeaks
<1> QED
  BY <1>1, <1>2, Invariant, PTL DEF Spec
-----------------------------------------------------------------------------
(* The zone implements VtsStats: every step of VtsShm is, seen through     *)
(* ShownStat and CommandInProgress, a step of VtsStats or none.            *)

(* Looking up a key finds its node, whatever CHOOSE would choose. *)
LEMMA ChooseNode ==
  ASSUME NEW T, NEW d, NEW k, NEW s \in T, d[s] = k,
         \A u, v \in T : d[u] = d[v] => u = v
  PROVE  (CHOOSE u \in T : d[u] = k) = s
OBVIOUS

(* What is shown of a key with a node, and of one without. *)
LEMMA ShownNodes ==
  ASSUME TypeOK, NodeKeysUnique, NEW k \in Keys
  PROVE  /\ \A s \in rbtree : data[s] = k => ShownStat[k] = Stats!Shown(reqs[s], last[s])
         /\ (\A s \in rbtree : data[s] # k) => ShownStat[k] = Stats!Absent
<1>1. ASSUME NEW s \in rbtree, data[s] = k
      PROVE  ShownStat[k] = Stats!Shown(reqs[s], last[s])
  <2>1. node_lookup(k) = s
    BY <1>1, ChooseNode DEF node_lookup, NodeKeysUnique
  <2>2. s # Nil
    BY ConfAssumption DEF TypeOK
  <2> QED
    BY <2>1, <2>2 DEF ShownStat, Stats!Shown
<1>2. ASSUME \A s \in rbtree : data[s] # k PROVE ShownStat[k] = Stats!Absent
  BY <1>2 DEF ShownStat, node_lookup, Stats!Absent
<1> QED
  BY <1>1, <1>2

(* The same after a step. *)
LEMMA ShownNodesNext ==
  ASSUME TypeOK', NodeKeysUnique', NEW k \in Keys
  PROVE  /\ \A s \in rbtree' : data'[s] = k =>
              ShownStat'[k] = Stats!Shown(reqs'[s], last'[s])
         /\ (\A s \in rbtree' : data'[s] # k) => ShownStat'[k] = Stats!Absent
<1>1. ASSUME NEW s \in rbtree', data'[s] = k
      PROVE  ShownStat'[k] = Stats!Shown(reqs'[s], last'[s])
  <2>1. node_lookup(k)' = s
    BY <1>1, ChooseNode DEF node_lookup, NodeKeysUnique
  <2>2. s # Nil
    BY ConfAssumption DEF TypeOK
  <2> QED
    BY <2>1, <2>2 DEF ShownStat, Stats!Shown
<1>2. ASSUME \A s \in rbtree' : data'[s] # k PROVE ShownStat'[k] = Stats!Absent
  BY <1>2 DEF ShownStat, node_lookup, Stats!Absent
<1> QED
  BY <1>1, <1>2

(* A command is in progress exactly while its worker is inside. *)
LEMMA CommandOf ==
  ASSUME IInv
  PROVE  /\ \A w \in Workers : mutex = w =>
              CommandInProgress = IF pc[w] \in {"delete", "reset"} THEN pc[w] ELSE "none"
         /\ mutex = Nil => CommandInProgress = "none"
<1>1. ASSUME NEW w \in Workers, mutex = w
      PROVE  CommandInProgress = IF pc[w] \in {"delete", "reset"} THEN pc[w] ELSE "none"
  <2>1. \A v \in Workers : v # w => pc[v] = "idle"
    BY <1>1 DEF IInv, MutexInv
  <2> QED
    BY <2>1 DEF CommandInProgress
<1>2. ASSUME mutex = Nil PROVE CommandInProgress = "none"
  BY <1>2, NobodyInside DEF CommandInProgress
<1> QED
  BY <1>1, <1>2

(* The same after a step. *)
LEMMA CommandOfNext ==
  ASSUME IInv'
  PROVE  /\ \A w \in Workers : mutex' = w =>
              CommandInProgress' = IF pc'[w] \in {"delete", "reset"} THEN pc'[w] ELSE "none"
         /\ mutex' = Nil => CommandInProgress' = "none"
<1>1. ASSUME NEW w \in Workers, mutex' = w
      PROVE  CommandInProgress' = IF pc'[w] \in {"delete", "reset"} THEN pc'[w] ELSE "none"
  <2>1. \A v \in Workers : v # w => pc'[v] = "idle"
    BY <1>1 DEF IInv, MutexInv
  <2> QED
    BY <2>1 DEF CommandInProgress
<1>2. ASSUME mutex' = Nil PROVE CommandInProgress' = "none"
  <2>1. \A v \in Workers : pc'[v] = "idle"
    BY <1>2, ConfAssumption DEF IInv, MutexInv
  <2> QED
    BY <2>1 DEF CommandInProgress
<1> QED
  BY <1>1, <1>2
-----------------------------------------------------------------------------
(* What a step leaves alone *)

(* Keys whose nodes a step does not touch. *)
LEMMA ShownKept ==
  ASSUME IInv, IInv', NEW j \in Keys,
         \A s \in Slots : s \in rbtree /\ data[s] = j <=> s \in rbtree' /\ data'[s] = j,
         \A s \in rbtree : data[s] = j => reqs'[s] = reqs[s] /\ last'[s] = last[s]
  PROVE  ShownStat'[j] = ShownStat[j]
<1>1. /\ TypeOK /\ NodeKeysUnique /\ TypeOK' /\ NodeKeysUnique'
      /\ rbtree \subseteq Slots /\ rbtree' \subseteq Slots
  BY DEF IInv, TypeOK
<1>2. CASE \E s \in rbtree : data[s] = j
  <2>1. PICK s \in rbtree : data[s] = j
    BY <1>2
  <2>2. s \in rbtree' /\ data'[s] = j
    BY <1>1, <2>1
  <2> QED
    BY <1>1, <2>1, <2>2, ShownNodes, ShownNodesNext
<1>3. CASE \A s \in rbtree : data[s] # j
  <2>1. \A s \in rbtree' : data'[s] # j
    BY <1>1, <1>3
  <2> QED
    BY <1>1, <1>3, <2>1, ShownNodes, ShownNodesNext
<1> QED
  BY <1>2, <1>3

(* Then the step changes one entry of what is shown. *)
LEMMA ShownChange ==
  ASSUME NEW k \in Keys, \A j \in Keys \ {k} : ShownStat'[j] = ShownStat[j]
  PROVE  ShownStat' = [ShownStat EXCEPT ![k] = ShownStat'[k]]
BY DEF ShownStat

(* A step that leaves the zone alone shows the same. *)
LEMMA ZoneKept ==
  ASSUME UNCHANGED <<rbtree, data, reqs, last>>
  PROVE  ShownStat' = ShownStat
BY DEF ShownStat, node_lookup

(* The keys that are shown are those of linked nodes.                      *)
LEMMA LiveKeys ==
  ASSUME IInv
  PROVE  Stats!Live = {data[s] : s \in rbtree}
<1>1. \A s \in rbtree : data[s] \in Keys
  BY DEF IInv, PagesInv
<1>2. ASSUME NEW k \in Keys
      PROVE  ShownStat[k].live <=> \E s \in rbtree : data[s] = k
  <2>1. CASE \E s \in rbtree : data[s] = k
    <3>1. PICK s \in rbtree : data[s] = k
      BY <2>1
    <3>2. ShownStat[k] = Stats!Shown(reqs[s], last[s])
      BY <3>1, ShownNodes DEF IInv
    <3> QED
      BY <2>1, <3>2 DEF Stats!Shown
  <2>2. CASE \A s \in rbtree : data[s] # k
    <3>1. ShownStat[k] = Stats!Absent
      BY <2>2, ShownNodes DEF IInv
    <3> QED
      BY <2>2, <3>1 DEF Stats!Absent
  <2> QED
    BY <2>1, <2>2
<1> QED
  BY <1>1, <1>2 DEF Stats!Live

(* As many limited keys are shown as there are filter nodes. *)
LEMMA LimitedKeys ==
  ASSUME IInv
  PROVE  /\ Stats!Live \cap Limited = {data[s] : s \in FilterNodes}
         /\ Cardinality(Stats!Live \cap Limited) = Cardinality(FilterNodes)
<1> DEFINE L == Stats!Live \cap Limited
           f == [s \in FilterNodes |-> data[s]]
<1>1. L = {data[s] : s \in FilterNodes}
  BY LiveKeys DEF FilterNodes
<1>2. IsFiniteSet(FilterNodes)
  BY FilterNodesFinite DEF IInv
<1>3. f \in Surjection(FilterNodes, L)
  BY <1>1 DEF Surjection
<1>4. f \in Injection(FilterNodes, L)
  BY <1>1 DEF Injection, IsInjective, FilterNodes, IInv, NodeKeysUnique
<1> QED
  BY <1>1, <1>2, <1>3, <1>4, FS_Surjection

(* VtsStats counts with the same Cardinality. *)
LEMMA SameCardinality ==
  ASSUME NEW S PROVE Stats!Cardinality(S) = Cardinality(S)
BY DEF Cardinality, Stats!Cardinality
-----------------------------------------------------------------------------
(* The steps *)

(* A first request shows its zone with one. *)
LEMMA InsertCreates ==
  ASSUME IInv, IInv', ~PoolMayFail, NEW w \in Workers, Insert(w)
  PROVE  Stats!Create(want[w])
<1> DEFINE k == want[w]
           n == node[w]
<1>1. /\ pc[w] = "insert" /\ mutex = w /\ mutex' = w /\ now' = now
      /\ pc' = [pc EXCEPT ![w] = "cache"]
      /\ data' = [data EXCEPT ![n] = k] /\ reqs' = [reqs EXCEPT ![n] = 1]
      /\ last' = [last EXCEPT ![n] = now] /\ rbtree' = rbtree \cup {n}
  BY DEF Insert, IInv, MutexInv
<1>2. k \in Keys /\ n \in Slots /\ n \notin rbtree /\ \A s \in rbtree : data[s] # k
  BY <1>1 DEF IInv, LocalsInv
<1>3. CommandInProgress = "none" /\ CommandInProgress' = "none"
  <2>1. pc'[w] = "cache"
    BY <1>1 DEF IInv, TypeOK
  <2> QED
    BY <1>1, <2>1, CommandOf, CommandOfNext
<1>4. ShownStat[k] = Stats!Absent
  BY <1>2, ShownNodes DEF IInv
<1>5. data'[n] = k /\ reqs'[n] = 1 /\ last'[n] = now
  BY <1>1, <1>2 DEF IInv, TypeOK
<1>6. ShownStat'[k] = Stats!Shown(1, now)
  BY <1>1, <1>2, <1>5, ShownNodesNext DEF IInv
<1>7. ASSUME NEW j \in Keys \ {k} PROVE ShownStat'[j] = ShownStat[j]
  <2>1. \A s \in Slots : s # n => data'[s] = data[s] /\ reqs'[s] = reqs[s] /\ last'[s] = last[s]
    BY <1>1 DEF IInv, TypeOK
  <2>2. rbtree \subseteq Slots
    BY DEF IInv, TypeOK
  <2> QED
    BY <1>1, <1>2, <1>5, <2>1, <2>2, ShownKept
<1>8. filter_max_node > 0 => Cardinality(Stats!Live \cap Limited) < filter_max_node
  BY <1>1, LimitedKeys DEF IInv, RoomInv
<1>9. ~ShownStat[k].live
  BY <1>4 DEF Stats!Absent
<1>10. ShownStat' = [ShownStat EXCEPT ![k] = Stats!Shown(1, now)]
  <2>1. ShownStat' = [ShownStat EXCEPT ![k] = ShownStat'[k]]
    BY <1>2, <1>7, ShownChange
  <2> QED
    BY <1>6, <2>1
<1>11. CommandInProgress' = CommandInProgress /\ now' = now
  BY <1>1, <1>3
<1> QED
  BY <1>3, <1>8, <1>9, <1>10, <1>11, SameCardinality DEF Stats!Create

(* Any further one adds exactly one. *)
LEMMA SetCounts ==
  ASSUME IInv, IInv', CountsOwnNode, NEW w \in Workers, Set(w)
  PROVE  want[w] \in Keys /\ Stats!Count(want[w])
<1> DEFINE k == want[w]
           n == node[w]
<1>1. /\ pc[w] = "set" /\ mutex = w /\ mutex' = w /\ now' = now
      /\ pc' = [pc EXCEPT ![w] = "cache"] /\ UNCHANGED <<rbtree, data>>
      /\ reqs' = [reqs EXCEPT ![n] = @ + 1] /\ last' = [last EXCEPT ![n] = now]
  BY DEF Set, IInv, MutexInv
<1>2. k \in Keys /\ n \in rbtree /\ data[n] = k /\ n \in Slots
  BY <1>1 DEF IInv, TypeOK, LocalsInv, CountsOwnNode
<1>3. CommandInProgress = "none" /\ CommandInProgress' = "none"
  <2>1. pc'[w] = "cache"
    BY <1>1 DEF IInv, TypeOK
  <2> QED
    BY <1>1, <2>1, CommandOf, CommandOfNext
<1>4. ShownStat[k] = Stats!Shown(reqs[n], last[n])
  BY <1>2, ShownNodes DEF IInv
<1>5. reqs'[n] = reqs[n] + 1 /\ last'[n] = now
  BY <1>1, <1>2 DEF IInv, TypeOK
<1>6. ShownStat'[k] = Stats!Shown(reqs[n] + 1, now)
  BY <1>1, <1>2, <1>5, ShownNodesNext DEF IInv
<1>7. ASSUME NEW j \in Keys \ {k} PROVE ShownStat'[j] = ShownStat[j]
  <2>1. \A s \in Slots : s # n => reqs'[s] = reqs[s] /\ last'[s] = last[s]
    BY <1>1 DEF IInv, TypeOK
  <2>2. rbtree \subseteq Slots
    BY DEF IInv, TypeOK
  <2> QED
    BY <1>1, <1>2, <2>1, <2>2, ShownKept
<1>8. ShownStat[k].live /\ ShownStat[k].reqs = reqs[n]
  BY <1>4 DEF Stats!Shown
<1> QED
  BY <1>1, <1>2, <1>3, <1>6, <1>7, <1>8, ShownChange DEF Stats!Count

(* Unlinking a node makes its key absent and no other.                     *)
LEMMA DeleteHides ==
  ASSUME IInv, IInv', NEW s \in rbtree, DeleteNode(s)
  PROVE  /\ data[s] \in Keys /\ ShownStat[data[s]].live
         /\ ShownStat' = [ShownStat EXCEPT ![data[s]] = Stats!Absent]
<1> DEFINE k == data[s]
<1>1. /\ rbtree' = rbtree \ {s} /\ UNCHANGED <<data, reqs, last>>
      /\ k \in Keys /\ \A u \in rbtree : data[u] = k => u = s
  BY DEF DeleteNode, IInv, PagesInv, NodeKeysUnique
<1>2. ShownStat[k].live
  <2>1. ShownStat[k] = Stats!Shown(reqs[s], last[s])
    BY <1>1, ShownNodes DEF IInv
  <2> QED
    BY <2>1 DEF Stats!Shown
<1>3. ShownStat'[k] = Stats!Absent
  BY <1>1, ShownNodesNext DEF IInv
<1>4. ASSUME NEW j \in Keys \ {k} PROVE ShownStat'[j] = ShownStat[j]
  BY <1>1, ShownKept
<1> QED
  BY <1>1, <1>2, <1>3, <1>4, ShownChange

(* The zone dropped at the limit is the one longest without a request. *)
LEMMA EvictDropsLru ==
  ASSUME IInv, IInv', NEW w \in Workers, pc[w] = "evict", mutex = w,
         LimitReached, NEW s \in find_lru, DeleteNode(s),
         pc' = [pc EXCEPT ![w] = "alloc"], mutex' = mutex, now' = now
  PROVE  data[s] \in Keys /\ Stats!EvictLru(data[s])
<1> DEFINE k == data[s]
<1>1. s \in rbtree /\ s \in FilterNodes /\ k \in Limited
  BY DEF find_lru, FilterNodes
<1>2. /\ k \in Keys /\ ShownStat[k].live
      /\ ShownStat' = [ShownStat EXCEPT ![k] = Stats!Absent]
  BY <1>1, DeleteHides
<1>3. CommandInProgress = "none" /\ CommandInProgress' = "none"
  <2>1. pc'[w] = "alloc"
    BY DEF IInv, TypeOK
  <2> QED
    BY <2>1, CommandOf, CommandOfNext
<1>4. k \in Stats!Live \cap Limited
  BY <1>1, LimitedKeys
<1>5. /\ filter_max_node > 0
      /\ Cardinality(Stats!Live \cap Limited) >= filter_max_node
  BY LimitedKeys DEF LimitReached
<1>6. ASSUME NEW j \in Stats!Live \cap Limited
      PROVE  ShownStat[k].last <= ShownStat[j].last
  <2>1. PICK u \in FilterNodes : data[u] = j
    BY LimitedKeys
  <2>2. u \in rbtree /\ j \in Keys /\ last[s] <= last[u]
    BY <2>1 DEF find_lru, FilterNodes, IInv, PagesInv
  <2>3. /\ ShownStat[k] = Stats!Shown(reqs[s], last[s])
        /\ ShownStat[j] = Stats!Shown(reqs[u], last[u])
    BY <1>1, <1>2, <2>1, <2>2, ShownNodes DEF IInv
  <2> QED
    BY <2>2, <2>3 DEF Stats!Shown
<1> QED
  BY <1>2, <1>3, <1>4, <1>5, <1>6, SameCardinality DEF Stats!EvictLru

(* A control command deletes the zones it visits, *)
LEMMA ControlDeletes ==
  ASSUME IInv, IInv', NEW w \in Workers, ControlDelete(w)
  PROVE  \E k \in Keys : Stats!Delete(k)
<1>1. PICK s \in todo[w] : DeleteNode(s)
  BY DEF ControlDelete
<1>2. /\ pc[w] = "delete" /\ mutex = w /\ mutex' = w /\ pc' = pc /\ now' = now
      /\ s \in rbtree
  BY <1>1 DEF ControlDelete, IInv, MutexInv, LocalsInv
<1>3. CommandInProgress = "delete" /\ CommandInProgress' = "delete"
  BY <1>2, CommandOf, CommandOfNext
<1>4. /\ data[s] \in Keys /\ ShownStat[data[s]].live
      /\ ShownStat' = [ShownStat EXCEPT ![data[s]] = Stats!Absent]
  BY <1>1, <1>2, DeleteHides
<1>5. Stats!Delete(data[s])
  BY <1>2, <1>3, <1>4 DEF Stats!Delete
<1> QED
  BY <1>4, <1>5

(* or sets their counters to zero and leaves their last request. *)
LEMMA ControlResets ==
  ASSUME IInv, IInv', NEW w \in Workers, ControlReset(w)
  PROVE  \E k \in Keys : Stats!Reset(k)
<1>1. PICK s \in todo[w] : reqs' = [reqs EXCEPT ![s] = 0]
  BY DEF ControlReset
<1> DEFINE k == data[s]
<1>2. /\ pc[w] = "reset" /\ mutex = w /\ mutex' = w /\ pc' = pc /\ now' = now
      /\ UNCHANGED <<rbtree, data, last>>
      /\ s \in rbtree
  BY <1>1 DEF ControlReset, IInv, MutexInv, LocalsInv
<1>3. /\ k \in Keys /\ rbtree \subseteq Slots
      /\ \A u \in rbtree : data[u] = k => u = s
  BY <1>2 DEF IInv, TypeOK, PagesInv, NodeKeysUnique
<1>4. CommandInProgress = "reset" /\ CommandInProgress' = "reset"
  BY <1>2, CommandOf, CommandOfNext
<1>5. reqs'[s] = 0 /\ last'[s] = last[s]
  BY <1>1, <1>2, <1>3 DEF IInv, TypeOK
<1>6. ShownStat[k] = Stats!Shown(reqs[s], last[s])
  BY <1>2, <1>3, ShownNodes DEF IInv
<1>7. ShownStat'[k] = Stats!Shown(0, last[s])
  BY <1>2, <1>3, <1>5, ShownNodesNext DEF IInv
<1>8. ASSUME NEW j \in Keys \ {k} PROVE ShownStat'[j] = ShownStat[j]
  <2>1. \A u \in Slots : u # s => reqs'[u] = reqs[u]
    BY <1>1 DEF IInv, TypeOK
  <2> QED
    BY <1>2, <1>3, <2>1, ShownKept
<1>9. ShownStat[k].live /\ ShownStat[k].last = last[s]
  BY <1>6 DEF Stats!Shown
<1>10. ShownStat' = [ShownStat EXCEPT ![k] = Stats!Shown(0, ShownStat[k].last)]
  <2>1. ShownStat' = [ShownStat EXCEPT ![k] = ShownStat'[k]]
    BY <1>3, <1>8, ShownChange
  <2> QED
    BY <1>7, <1>9, <2>1
<1>11. Stats!Reset(k)
  BY <1>2, <1>4, <1>9, <1>10 DEF Stats!Reset
<1> QED
  BY <1>3, <1>11

(* A command begins when its worker takes the mutex. *)
LEMMA ControlBegins ==
  ASSUME IInv, IInv', NEW w \in Workers, NEW cmd \in {"delete", "reset"},
         Control(w, cmd)
  PROVE  Stats!Begin(cmd)
<1>1. /\ mutex = Nil /\ mutex' = w /\ pc' = [pc EXCEPT ![w] = cmd] /\ now' = now
      /\ UNCHANGED <<rbtree, data, reqs, last>>
  BY DEF Control, Lock, zone
<1>2. pc'[w] = cmd
  BY <1>1 DEF IInv, TypeOK
<1>3. CommandInProgress = "none" /\ CommandInProgress' = cmd
  BY <1>1, <1>2, CommandOf, CommandOfNext
<1>4. ShownStat' = ShownStat
  BY <1>1, ZoneKept
<1> QED
  BY <1>1, <1>3, <1>4 DEF Stats!Begin

(* A step that leaves the nodes alone and no worker in a command. *)
LEMMA NothingSeen ==
  ASSUME UNCHANGED <<rbtree, data, reqs, last, now>>,
         CommandInProgress' = CommandInProgress
  PROVE  UNCHANGED Stats!statsVars
BY ZoneKept DEF Stats!statsVars

(* A step of shm_add_node that is neither an eviction, an insertion nor a  *)
(* count shows readers nothing.                                            *)
LEMMA InsideNothing ==
  ASSUME IInv, IInv', NEW w \in Workers, mutex = w, mutex' \in {w, Nil},
         pc[w] \notin {"delete", "reset"}, pc'[w] \notin {"delete", "reset"},
         UNCHANGED <<rbtree, data, reqs, last, now>>
  PROVE  UNCHANGED Stats!statsVars
<1>1. CommandInProgress = "none" /\ CommandInProgress' = "none"
  BY CommandOf, CommandOfNext
<1> QED
  BY <1>1, NothingSeen

(* Whatever its worker was doing, a kill ends the command or shows nothing. *)
LEMMA CrashEnds ==
  ASSUME IInv, IInv', NEW w \in Workers, Crash(w)
  PROVE  [Stats!StatsNext]_(Stats!statsVars)
<1>1. /\ UNCHANGED <<rbtree, data, reqs, last, now>>
      /\ pc' = [pc EXCEPT ![w] = "idle"]
      /\ mutex' = IF mutex = w THEN Nil ELSE mutex
  BY DEF Crash, zone
<1>2. ShownStat' = ShownStat
  BY <1>1, ZoneKept
<1>3. CASE mutex = w
  <2>1. CommandInProgress' = "none"
    BY <1>1, <1>3, CommandOfNext
  <2>2. Stats!End
    BY <1>1, <1>2, <2>1 DEF Stats!End
  <2> QED
    BY <2>2 DEF Stats!StatsNext
<1>4. CASE mutex # w
  <2>1. pc[w] = "idle"
    BY <1>4 DEF IInv, MutexInv
  <2>2. pc' = pc
    BY <1>1, <2>1 DEF IInv, TypeOK
  <2>3. CommandInProgress' = CommandInProgress
    BY <2>2 DEF CommandInProgress
  <2> QED
    BY <1>1, <2>3, NothingSeen
<1> QED
  BY <1>3, <1>4

(* What the holder of the mutex does. *)
LEMMA StepSeen ==
  ASSUME IInv, IInv', CountsOwnNode, ~PoolMayFail, NEW w \in Workers, Step(w)
  PROVE  [Stats!StatsNext]_(Stats!statsVars)
<1>1. CASE Find(w)
  <2>1. /\ pc[w] = "find" /\ mutex = w /\ mutex' = w
        /\ UNCHANGED <<rbtree, data, reqs, last, now>>
    BY <1>1 DEF Find, zone, IInv, MutexInv
  <2>2. pc'[w] \in {"evict", "set"}
    BY <1>1 DEF Find, IInv, TypeOK
  <2> QED
    BY <2>1, <2>2, InsideNothing
<1>2. CASE Evict(w)
  <2>1. /\ pc[w] = "evict" /\ mutex = w /\ mutex' = mutex /\ now' = now
        /\ pc' = [pc EXCEPT ![w] = "alloc"]
    BY <1>2 DEF Evict, IInv, MutexInv
  <2>2. CASE LimitReached /\ \E lrun \in find_lru : DeleteNode(lrun)
    <3>1. PICK lrun \in find_lru : DeleteNode(lrun)
      BY <2>2
    <3>2. data[lrun] \in Keys /\ Stats!EvictLru(data[lrun])
      BY <2>1, <2>2, <3>1, EvictDropsLru
    <3> QED
      BY <3>2 DEF Stats!StatsNext
  <2>3. CASE UNCHANGED zone
    <3>1. UNCHANGED <<rbtree, data, reqs, last, now>>
      BY <2>1, <2>3 DEF zone
    <3>2. pc'[w] = "alloc"
      BY <2>1 DEF IInv, TypeOK
    <3> QED
      BY <2>1, <3>1, <3>2, InsideNothing
  <2> QED
    BY <1>2, <2>2, <2>3 DEF Evict
<1>3. CASE Alloc(w)
  <2>1. /\ pc[w] = "alloc" /\ mutex = w /\ mutex' = w
        /\ UNCHANGED <<rbtree, data, reqs, last, now>>
    BY <1>3 DEF Alloc, IInv, MutexInv
  <2>2. pc'[w] = "insert"
    BY <1>3 DEF Alloc, IInv, TypeOK
  <2> QED
    BY <2>1, <2>2, InsideNothing
<1>4. CASE AllocFails(w)
  <2>1. /\ pc[w] = "alloc" /\ mutex = w /\ mutex' = Nil
        /\ UNCHANGED <<rbtree, data, reqs, last, now>>
    BY <1>4 DEF AllocFails, Unlock, zone, IInv, MutexInv
  <2>2. pc'[w] = "idle"
    BY <1>4 DEF AllocFails, Unlock, IInv, TypeOK
  <2> QED
    BY <2>1, <2>2, InsideNothing
<1>5. CASE Insert(w)
  <2>1. want[w] \in Keys
    BY <1>5 DEF Insert, IInv, LocalsInv
  <2>2. Stats!Create(want[w])
    BY <1>5, InsertCreates
  <2> QED
    BY <2>1, <2>2 DEF Stats!StatsNext
<1>6. CASE Set(w)
  <2>1. want[w] \in Keys /\ Stats!Count(want[w])
    BY <1>6, SetCounts
  <2> QED
    BY <2>1 DEF Stats!StatsNext
<1>7. CASE Cache(w)
  <2>1. /\ pc[w] = "cache" /\ mutex = w /\ mutex' = Nil
        /\ UNCHANGED <<rbtree, data, reqs, last, now>>
    BY <1>7 DEF Cache, Unlock, zone, IInv, MutexInv
  <2>2. pc'[w] = "idle"
    BY <1>7 DEF Cache, Unlock, IInv, TypeOK
  <2> QED
    BY <2>1, <2>2, InsideNothing
<1>8. CASE ControlDelete(w)
  BY <1>8, ControlDeletes DEF Stats!StatsNext
<1>9. CASE ControlReset(w)
  BY <1>9, ControlResets DEF Stats!StatsNext
<1>10. CASE ControlDone(w)
  <2>1. mutex' = Nil /\ UNCHANGED <<rbtree, data, reqs, last, now>>
    BY <1>10 DEF ControlDone, Unlock, zone
  <2>2. CommandInProgress' = "none"
    BY <2>1, CommandOfNext
  <2>3. ShownStat' = ShownStat
    BY <2>1, ZoneKept
  <2>4. Stats!End
    BY <2>1, <2>2, <2>3 DEF Stats!End
  <2> QED
    BY <2>4 DEF Stats!StatsNext
<1> QED
  BY <1>1, <1>2, <1>3, <1>4, <1>5, <1>6, <1>7, <1>8, <1>9, <1>10 DEF Step
-----------------------------------------------------------------------------
(* The refinement *)

(* Every step of the zone is a step of VtsStats or shows nothing. *)
LEMMA NextSeen ==
  ASSUME IInv, IInv', CountsOwnNode, ~PoolMayFail, [Next]_vars
  PROVE  [Stats!StatsNext]_(Stats!statsVars)
<1>1. ASSUME NEW w \in Workers, NEW c \in Confs, NEW k \in Keys, AddNode(w, c, k)
      PROVE  UNCHANGED Stats!statsVars
  <2>1. /\ mutex = Nil /\ mutex' = w
        /\ pc' = [pc EXCEPT ![w] = "find"]
        /\ UNCHANGED <<rbtree, data, reqs, last, now>>
    BY <1>1 DEF AddNode, Lock, zone
  <2>2. pc'[w] = "find"
    BY <2>1 DEF IInv, TypeOK
  <2>3. CommandInProgress = "none" /\ CommandInProgress' = "none"
    BY <2>1, <2>2, CommandOf, CommandOfNext
  <2> QED
    BY <2>1, <2>3, NothingSeen
<1>2. ASSUME pc' = pc, UNCHANGED <<rbtree, data, reqs, last, now>>
      PROVE  UNCHANGED Stats!statsVars
  <2>1. CommandInProgress' = CommandInProgress
    BY <1>2 DEF CommandInProgress
  <2> QED
    BY <1>2, <2>1, NothingSeen
<1>3. ASSUME NEW w \in Workers, NEW c \in Confs, NEW k \in Keys,
             NodeVariable(w, c, k) \/ LimitTraffic(w, c, k)
      PROVE  UNCHANGED Stats!statsVars
  BY <1>2, <1>3 DEF NodeVariable, LimitTraffic, zone
<1>4. ASSUME NEW w \in Workers, NEW cmd \in {"delete", "reset"}, Control(w, cmd)
      PROVE  Stats!StatsNext
  <2>1. Stats!Begin(cmd)
    BY <1>4, ControlBegins
  <2> QED
    BY <2>1 DEF Stats!StatsNext
<1>5. CASE Tick
  <2>1. /\ UNCHANGED <<rbtree, data, reqs, last>> /\ pc' = pc /\ now' = now + 1
    BY <1>5 DEF Tick, zone
  <2>2. ShownStat' = ShownStat /\ CommandInProgress' = CommandInProgress
    BY <2>1, ZoneKept DEF CommandInProgress
  <2>3. Stats!Tick
    BY <2>1, <2>2 DEF Stats!Tick
  <2> QED
    BY <2>3 DEF Stats!StatsNext
<1>6. CASE UNCHANGED vars
  BY <1>2, <1>6 DEF vars, zone
<1> QED
  BY <1>1, <1>3, <1>4, <1>5, <1>6, StepSeen, CrashEnds DEF Next

(* A fresh zone shows nothing. *)
LEMMA InitSeen ==
  ASSUME Init PROVE Stats!StatsInit
<1>1. rbtree = {} /\ now = 0 /\ \A w \in Workers : pc[w] = "idle"
  BY DEF Init
<1>2. \A k \in Keys : node_lookup(k) = Nil
  BY <1>1 DEF node_lookup
<1>3. ShownStat = [k \in Keys |-> Stats!Absent]
  BY <1>2 DEF ShownStat, Stats!Absent
<1>4. CommandInProgress = "none"
  BY <1>1 DEF CommandInProgress
<1> QED
  BY <1>1, <1>3, <1>4 DEF Stats!StatsInit

(* Whatever pages, cached pointers and kills do to the zone, a reader of   *)
(* the counters cannot tell it from VtsStats: shm_add_node counts each     *)
(* request once under its own key, an eviction takes the zone longest      *)
(* without a request, and cmd=delete and cmd=reset touch no other key.     *)
(* The CRC32 of the keys in use must be distinct, and find_lru must get    *)
(* the memory it asks for, or a filter node is created past the limit.     *)
THEOREM Refines ==
  ASSUME HashesDistinct, ~PoolMayFail
  PROVE  Spec => ImplementsStats
<1>1. Init => Stats!StatsInit
  BY InitSeen
<1>2. IInv /\ IInv' /\ CountsOwnNode /\ [Next]_vars => [Stats!StatsNext]_(Stats!statsVars)
  BY NextSeen
<1>3. Spec => []IInv
  BY Invariant
<1>4. Spec => []CountsOwnNode
  BY OwnNodeCounted
<1> QED
  BY <1>1, <1>2, <1>3, <1>4, PTL DEF Spec, ImplementsStats, Stats!StatsSpec
=============================================================================
