------------------------------- MODULE VtsShm -------------------------------
(***************************************************************************)
(* The shared-memory zone of nginx-module-vts: statistics nodes in slab    *)
(* pages, linked into one red-black tree that every worker process reaches *)
(* under shpool->mutex, and the node_caches[type] pointers that every      *)
(* location configuration of every worker keeps to the node it used last.  *)
(*                                                                         *)
(* A worker that logs a request runs shm_add_node in one critical section; *)
(* it is cut here at every change of shared state, because a worker can be *)
(* killed between two of them (the master then unlocks the mutex).  A node *)
(* fits one slab page.  The red-black tree itself is nginx's: rbtree is    *)
(* the set of pages linked into it, and ngx_rbtree_delete clears node->key.*)
(***************************************************************************)
EXTENDS Naturals, FiniteSets

CONSTANTS
  Workers,          (* worker processes                                     *)
  Confs,            (* vtscf: one per location and worker                   *)
  Owner,            (* Owner[c] is the worker whose memory holds c          *)
  Keys,             (* node keys, the group prefix included                 *)
  TypeOf,           (* TypeOf[k] is the group of k                          *)
  Hash,             (* Hash[k] is ngx_crc32_short(k)                        *)
  Limited,          (* FG keys that filter_max_node_match accepts           *)
  Slots,            (* slab pages of the zone                               *)
  Nil,              (* NULL                                                 *)
  filter_max_node,
  PoolMayFail,      (* whether ngx_pcalloc(r->pool) may return NULL         *)
  MaxReqs,          (* bound: requests counted in one node                  *)
  MaxTime,          (* bound: clock                                         *)
  MaxCrashes        (* bound: workers killed                                *)

(* stat_upstream.type, the index of node_caches. *)
Types == {"NO", "UA", "UG", "CC", "FG"}

ASSUME ConfAssumption ==
  /\ Owner \in [Confs -> Workers]
  /\ TypeOf \in [Keys -> Types]
  /\ Hash \in [Keys -> Nat]
  /\ Limited \subseteq {k \in Keys : TypeOf[k] = "FG"}
  /\ filter_max_node \in Nat /\ PoolMayFail \in BOOLEAN
  /\ Nil \notin Slots \cup Workers \cup Keys \cup Confs
  /\ IsFiniteSet(Slots) /\ IsFiniteSet(Keys)
  /\ MaxReqs \in Nat /\ MaxTime \in Nat /\ MaxCrashes \in Nat

VARIABLES
  mutex,            (* holder of shpool->mutex, or Nil                      *)
  rbtree,           (* pages whose node is linked into the tree             *)
  free,             (* pages the slab allocator can hand out                *)
  key,              (* key[s]: node->key, the hash; 0 once deleted          *)
  data,             (* data[s]: vtsn->data, the key itself                  *)
  reqs,             (* reqs[s]: vtsn->stat_request_counter                  *)
  last,             (* last[s]: time at the rear of stat_request_times      *)
  node_caches,      (* node_caches[c][t]: vtscf->node_caches[type]          *)
  pc,               (* where worker w is in its critical section            *)
  vtscf,            (* vtscf[w]: configuration of the request               *)
  want,             (* want[w]: key to count the request under              *)
  node,             (* node[w]: local variable node                         *)
  todo,             (* todo[w]: nodes a control command has still to visit  *)
  now,              (* ngx_http_vhost_traffic_status_current_msec           *)
  crashes           (* workers killed so far                                *)

zone   == <<rbtree, free, key, data, reqs, last>>
locals == <<vtscf, want, node, todo>>
vars   == <<mutex, zone, node_caches, pc, locals, now, crashes>>

PCs == {"idle", "find", "evict", "alloc", "insert", "set", "cache",
        "delete", "reset"}

(* Pages, tree, cached pointers and the locals of every worker. *)
TypeOK ==
  /\ mutex \in Workers \cup {Nil}
  /\ rbtree \in SUBSET Slots /\ free \in SUBSET Slots
  /\ key \in [Slots -> Nat]
  /\ data \in [Slots -> Keys \cup {Nil}]
  /\ reqs \in [Slots -> Nat] /\ last \in [Slots -> Nat]
  /\ node_caches \in [Confs -> [Types -> Slots \cup {Nil}]]
  /\ pc \in [Workers -> PCs]
  /\ vtscf \in [Workers -> Confs \cup {Nil}]
  /\ want \in [Workers -> Keys \cup {Nil}]
  /\ node \in [Workers -> Slots \cup {Nil}]
  /\ todo \in [Workers -> SUBSET Slots]
  /\ now \in Nat /\ crashes \in Nat

(* init_zone on a fresh zone, and workers that have just been forked. *)
Init ==
  /\ mutex = Nil
  /\ rbtree = {} /\ free = Slots
  /\ key = [s \in Slots |-> 0]
  /\ data = [s \in Slots |-> Nil]
  /\ reqs = [s \in Slots |-> 0] /\ last = [s \in Slots |-> 0]
  /\ node_caches = [c \in Confs |-> [t \in Types |-> Nil]]
  /\ pc = [w \in Workers |-> "idle"]
  /\ vtscf = [w \in Workers |-> Nil]
  /\ want = [w \in Workers |-> Nil]
  /\ node = [w \in Workers |-> Nil]
  /\ todo = [w \in Workers |-> {}]
  /\ now = 0 /\ crashes = 0
-----------------------------------------------------------------------------
(* Looking nodes up *)

(* Mutant: a failed search answers the sentinel instead of NULL. *)
node_lookup_Sentinel(k) ==
  IF \E s \in rbtree : data[s] = k
    THEN CHOOSE s \in rbtree : data[s] = k
    ELSE "sentinel"

node_lookup(k) ==
  IF \E s \in rbtree : data[s] = k
    THEN CHOOSE s \in rbtree : data[s] = k
    ELSE Nil

(* Mutant: the hash of the cached node is not compared. *)
CacheHit_NoCompare(c, k) == node_caches[c][TypeOf[k]] # Nil

CacheHit(c, k) ==
  /\ node_caches[c][TypeOf[k]] # Nil
  /\ key[node_caches[c][TypeOf[k]]] = Hash[k]

find_node(c, k) ==
  IF CacheHit(c, k) THEN node_caches[c][TypeOf[k]] ELSE node_lookup(k)

FilterNodes == {s \in rbtree : data[s] \in Limited}

(* Mutant: strictly more than filter_max_node. *)
LimitReached_Strict ==
  filter_max_node > 0 /\ Cardinality(FilterNodes) > filter_max_node

LimitReached ==
  filter_max_node > 0 /\ Cardinality(FilterNodes) >= filter_max_node

(* Mutant: the comparison is the wrong way round. *)
find_lru_Newest ==
  {s \in FilterNodes : \A u \in FilterNodes : last[s] >= last[u]}

(* What find_lru may return once the limit is reached: it compares the     *)
(* rear of the time queues, and the shape of the tree breaks ties.         *)
find_lru == {s \in FilterNodes : \A u \in FilterNodes : last[s] <= last[u]}
-----------------------------------------------------------------------------
(* The mutex *)

(* Mutant: the mutex is not waited for. *)
Lock_NoWait(w, at) ==
  /\ pc[w] = "idle"
  /\ mutex' = w
  /\ pc' = [pc EXCEPT ![w] = at]

Lock(w, at) ==
  /\ mutex = Nil /\ pc[w] = "idle"
  /\ mutex' = w
  /\ pc' = [pc EXCEPT ![w] = at]

Forget(w) ==
  /\ vtscf' = [vtscf EXCEPT ![w] = Nil]
  /\ want' = [want EXCEPT ![w] = Nil]
  /\ node' = [node EXCEPT ![w] = Nil]
  /\ todo' = [todo EXCEPT ![w] = {}]

Unlock(w) ==
  /\ mutex' = Nil
  /\ pc' = [pc EXCEPT ![w] = "idle"]
  /\ Forget(w)

(* Mutant: the unlinked node keeps its hash. *)
DeleteNode_KeepKey(s) ==
  /\ rbtree' = rbtree \ {s}
  /\ free' = free \cup {s}
  /\ UNCHANGED <<key, data, reqs, last>>

(* Mutant: the page is not given back. *)
DeleteNode_NoFree(s) ==
  /\ rbtree' = rbtree \ {s}
  /\ key' = [key EXCEPT ![s] = 0]
  /\ UNCHANGED <<free, data, reqs, last>>

(* ngx_rbtree_delete, then ngx_slab_free_locked. *)
DeleteNode(s) ==
  /\ rbtree' = rbtree \ {s}
  /\ free' = free \cup {s}
  /\ key' = [key EXCEPT ![s] = 0]
  /\ UNCHANGED <<data, reqs, last>>
-----------------------------------------------------------------------------
(* shm_add_node *)

AddNode(w, c, k) ==
  /\ Owner[c] = w
  /\ \A s \in rbtree : reqs[s] < MaxReqs
  /\ Lock(w, "find")
  /\ vtscf' = [vtscf EXCEPT ![w] = c]
  /\ want' = [want EXCEPT ![w] = k]
  /\ UNCHANGED <<zone, node_caches, node, todo, now, crashes>>

Find(w) ==
  LET n == find_node(vtscf[w], want[w]) IN
  /\ pc[w] = "find"
  /\ node' = [node EXCEPT ![w] = n]
  /\ pc' = [pc EXCEPT ![w] = IF n = Nil THEN "evict" ELSE "set"]
  /\ UNCHANGED <<mutex, zone, node_caches, vtscf, want, todo, now, crashes>>

(* find_lru also answers NULL when it cannot allocate its shm_info.        *)
Evict(w) ==
  /\ pc[w] = "evict"
  /\ \/ LimitReached /\ \E lrun \in find_lru : DeleteNode(lrun)
     \/ (~LimitReached \/ PoolMayFail) /\ UNCHANGED zone
  /\ pc' = [pc EXCEPT ![w] = "alloc"]
  /\ UNCHANGED <<mutex, node_caches, locals, now, crashes>>

Alloc(w) ==
  /\ pc[w] = "alloc"
  /\ \E s \in free :
       /\ node' = [node EXCEPT ![w] = s]
       /\ free' = free \ {s}
  /\ pc' = [pc EXCEPT ![w] = "insert"]
  /\ UNCHANGED <<mutex, rbtree, key, data, reqs, last, node_caches,
                 vtscf, want, todo, now, crashes>>

(* Both error paths: with or without memory for the log message.  As pages *)
(* are of one size, nothing has been evicted when the slab is exhausted.   *)
AllocFails(w) ==
  /\ pc[w] = "alloc" /\ free = {}
  /\ Unlock(w)
  /\ UNCHANGED <<zone, node_caches, now, crashes>>

(* node_init counts the first request; then the node is linked. *)
Insert(w) ==
  /\ pc[w] = "insert"
  /\ key' = [key EXCEPT ![node[w]] = Hash[want[w]]]
  /\ data' = [data EXCEPT ![node[w]] = want[w]]
  /\ reqs' = [reqs EXCEPT ![node[w]] = 1]
  /\ last' = [last EXCEPT ![node[w]] = now]
  /\ rbtree' = rbtree \cup {node[w]}
  /\ pc' = [pc EXCEPT ![w] = "cache"]
  /\ UNCHANGED <<mutex, free, node_caches, locals, now, crashes>>

(* node_set *)
Set(w) ==
  /\ pc[w] = "set"
  /\ reqs' = [reqs EXCEPT ![node[w]] = @ + 1]
  /\ last' = [last EXCEPT ![node[w]] = now]
  /\ pc' = [pc EXCEPT ![w] = "cache"]
  /\ UNCHANGED <<mutex, rbtree, free, key, data, node_caches, locals,
                 now, crashes>>

Cache(w) ==
  /\ pc[w] = "cache"
  /\ node_caches' =
       [node_caches EXCEPT ![vtscf[w]][TypeOf[want[w]]] = node[w]]
  /\ Unlock(w)
  /\ UNCHANGED <<zone, now, crashes>>
-----------------------------------------------------------------------------
(* Reads under the mutex that move the cached pointer *)

(* node_variable: $vts_* variables; a miss clears the pointer. *)
NodeVariable(w, c, k) ==
  /\ Owner[c] = w /\ pc[w] = "idle" /\ mutex = Nil
  /\ TypeOf[k] = "NO"
  /\ node_caches' =
       [node_caches EXCEPT ![c][TypeOf[k]] = find_node(c, k)]
  /\ UNCHANGED <<mutex, zone, pc, locals, now, crashes>>

(* limit_handler_traffic: a miss leaves the pointer as it was. *)
LimitTraffic(w, c, k) ==
  /\ Owner[c] = w /\ pc[w] = "idle" /\ mutex = Nil
  /\ find_node(c, k) # Nil
  /\ node_caches' =
       [node_caches EXCEPT ![c][TypeOf[k]] = find_node(c, k)]
  /\ UNCHANGED <<mutex, zone, pc, locals, now, crashes>>
-----------------------------------------------------------------------------
(* /status/control?cmd=delete and cmd=reset *)

(* group=*, group=g&zone=* and group=g&zone=z. *)
ControlRanges ==
  {rbtree}
    \cup {{s \in rbtree : TypeOf[data[s]] = t} : t \in Types}
    \cup {{s \in rbtree : data[s] = k} : k \in Keys}

Control(w, cmd) ==
  /\ Lock(w, cmd)
  /\ \E S \in ControlRanges : todo' = [todo EXCEPT ![w] = S]
  /\ UNCHANGED <<zone, node_caches, vtscf, want, node, now, crashes>>

(* Mutant: the loop does not advance. *)
ControlDelete_Stuck(w) ==
  /\ pc[w] = "delete"
  /\ \E s \in todo[w] : DeleteNode(s)
  /\ UNCHANGED <<mutex, node_caches, pc, locals, now, crashes>>

ControlDelete(w) ==
  /\ pc[w] = "delete"
  /\ \E s \in todo[w] :
       /\ DeleteNode(s)
       /\ todo' = [todo EXCEPT ![w] = @ \ {s}]
  /\ UNCHANGED <<mutex, node_caches, pc, vtscf, want, node, now, crashes>>

(* node_zero keeps the time queue, so the order of eviction is unchanged. *)
ControlReset(w) ==
  /\ pc[w] = "reset"
  /\ \E s \in todo[w] :
       /\ reqs' = [reqs EXCEPT ![s] = 0]
       /\ todo' = [todo EXCEPT ![w] = @ \ {s}]
  /\ UNCHANGED <<mutex, rbtree, free, key, data, last, node_caches, pc,
                 vtscf, want, node, now, crashes>>

ControlDone(w) ==
  /\ pc[w] \in {"delete", "reset"} /\ todo[w] = {}
  /\ Unlock(w)
  /\ UNCHANGED <<zone, node_caches, now, crashes>>
-----------------------------------------------------------------------------
(* The environment *)

(* A worker is killed.  The master forces the mutex open and forks another *)
(* worker, whose configuration caches nothing.                             *)
Crash(w) ==
  /\ crashes < MaxCrashes
  /\ crashes' = crashes + 1
  /\ mutex' = IF mutex = w THEN Nil ELSE mutex
  /\ pc' = [pc EXCEPT ![w] = "idle"]
  /\ Forget(w)
  /\ node_caches' = [c \in Confs |->
       IF Owner[c] = w THEN [t \in Types |-> Nil] ELSE node_caches[c]]
  /\ UNCHANGED <<zone, now>>

Tick ==
  /\ now < MaxTime
  /\ now' = now + 1
  /\ UNCHANGED <<mutex, zone, node_caches, pc, locals, crashes>>

(* What the holder of the mutex does next. *)
Step(w) ==
  \/ Find(w) \/ Evict(w) \/ Alloc(w) \/ AllocFails(w) \/ Insert(w)
  \/ Set(w) \/ Cache(w)
  \/ ControlDelete(w) \/ ControlReset(w) \/ ControlDone(w)

Next ==
  \/ \E w \in Workers :
       \/ \E c \in Confs, k \in Keys :
            \/ AddNode(w, c, k)
            \/ NodeVariable(w, c, k)
            \/ LimitTraffic(w, c, k)
       \/ Control(w, "delete") \/ Control(w, "reset")
       \/ Step(w)
       \/ Crash(w)
  \/ Tick

Spec == Init /\ [][Next]_vars

(* The kernel runs a worker that is inside its critical section; nothing   *)
(* in there waits for anything else.                                       *)
FairSpec == Spec /\ \A w \in Workers : WF_vars(Step(w))
-----------------------------------------------------------------------------
(* Properties *)

(* However workers race to create it, a key has one node: two would split  *)
(* its counters and show the zone twice (find_node and ngx_rbtree_insert   *)
(* of shm_add_node under one hold of the mutex).                           *)
NodeKeysUnique ==
  \A s, u \in rbtree : data[s] = data[u] => s = u

(* A cached pointer is never cleared when its node is deleted or evicted,  *)
(* by whichever worker, nor when the page is handed to another node; yet   *)
(* whenever find_node takes the short cut it lands on the linked node of   *)
(* the key that was asked for.                                             *)
CachedNodeServes ==
  \A c \in Confs, k \in Keys :
    CacheHit(c, k) => /\ node_caches[c][TypeOf[k]] \in rbtree
                      /\ data[node_caches[c][TypeOf[k]]] = k

(* node_set always counts a request in the linked node of its own key. *)
CountsOwnNode ==
  \A w \in Workers :
    pc[w] = "set" => node[w] \in rbtree /\ data[node[w]] = want[w]

(* filter_max_node holds at every moment, not only between requests. *)
FilterNodesBounded ==
  filter_max_node > 0 /\ ~PoolMayFail => Cardinality(FilterNodes) <= filter_max_node

(* Only a worker killed between allocation and insertion loses a page, and *)
(* it loses one; no path of add, evict and delete leaks.                   *)
SlabLeaksOnlyByCrash ==
  Cardinality(Slots \ (rbtree \cup free)) <=
    crashes + Cardinality({w \in Workers : pc[w] = "insert"})

(* A critical section ends: every loop and error path of shm_add_node and  *)
(* of the control commands reaches ngx_shmtx_unlock.                       *)
CriticalSectionEnds ==
  \A w \in Workers : mutex = w ~> mutex # w
-----------------------------------------------------------------------------
(* Why they hold: the inductive invariant *)

(* Exactly the holder of the mutex is inside the critical section. *)
MutexInv == \A w \in Workers : pc[w] # "idle" <=> mutex = w

(* A linked node carries the hash of its key; every other page, freed or   *)
(* never used, carries 0.                                                  *)
PagesInv ==
  /\ free \cap rbtree = {}
  /\ \A s \in rbtree : data[s] \in Keys /\ key[s] = Hash[data[s]]
  /\ \A s \in Slots \ rbtree : key[s] = 0

(* What the local variables of shm_add_node and of the control loop mean.  *)
LocalsInv ==
  \A w \in Workers :
    /\ pc[w] \in {"find", "evict", "alloc", "insert", "set", "cache"} =>
         vtscf[w] \in Confs /\ want[w] \in Keys
    /\ pc[w] \in {"evict", "alloc", "insert"} =>
         \A s \in rbtree : data[s] # want[w]
    /\ pc[w] = "insert" => node[w] \in Slots \ (rbtree \cup free)
    /\ pc[w] \in {"set", "cache"} => node[w] \in Slots
    /\ pc[w] \in {"delete", "reset"} => todo[w] \subseteq rbtree

(* Eviction made room before the new node is linked. *)
RoomInv ==
  filter_max_node > 0 /\ ~PoolMayFail =>
    \A w \in Workers :
      pc[w] \in {"alloc", "insert"} =>
        Cardinality(FilterNodes) < filter_max_node

IInv ==
  /\ TypeOK /\ MutexInv /\ PagesInv /\ NodeKeysUnique /\ LocalsInv
  /\ FilterNodesBounded /\ RoomInv

(* What the claims about cached pointers rest on: no two keys in use have  *)
(* the same CRC32, and none has 0.  The code checks neither.               *)
HashesDistinct ==
  /\ \A k \in Keys : Hash[k] # 0
  /\ \A j, k \in Keys : Hash[j] = Hash[k] => j = k
-----------------------------------------------------------------------------
(* What it implements *)

(* Whatever pages and cached pointers do, readers see the counters of      *)
(* VtsStats.                                                               *)
ShownStat ==
  [k \in Keys |->
     LET s == node_lookup(k) IN
     [live |-> s # Nil,
      reqs |-> IF s = Nil THEN 0 ELSE reqs[s],
      last |-> IF s = Nil THEN 0 ELSE last[s]]]

CommandInProgress ==
  IF \E w \in Workers : pc[w] = "delete" THEN "delete"
  ELSE IF \E w \in Workers : pc[w] = "reset" THEN "reset"
  ELSE "none"

Stats == INSTANCE VtsStats
           WITH stat <- ShownStat, command <- CommandInProgress, now <- now

(* With distinct hashes, every behaviour of the zone is one of VtsStats:   *)
(* add, find, evict, reset and delete lose and mix up no counter.          *)
ImplementsStats == Stats!StatsSpec
=============================================================================
