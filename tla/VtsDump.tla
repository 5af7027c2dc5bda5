------------------------------ MODULE VtsDump ------------------------------
(***************************************************************************)
(* vhost_traffic_status_dump: every worker restores the dump file into the *)
(* shared zone when it starts, rewrites the file from a timer when its     *)
(* header is older than dump_period, and rewrites it once more when it     *)
(* exits.                                                                  *)
(*                                                                         *)
(* The zone is what VtsStats shows of it, a count per key (0: no node).    *)
(* Opening truncates the file before the file lock is taken; every writer  *)
(* then writes from its own offset.  The tree is walked without            *)
(* shpool->mutex, while other workers insert and delete.                   *)
(***************************************************************************)
EXTENDS Naturals, Sequences, FiniteSets

CONSTANTS
  Workers, Keys,
  LongKeys,         (* keys longer than DUMP_DATA_BUF_SIZE                  *)
  Nil,
  Pages,            (* nodes the zone has room for                          *)
  filter_max_node,  (* 0: no limit; here every key is limited               *)
  dump_period,
  DiskMayFill,      (* whether writing the header may fail                  *)
  MaxReqs, MaxTime, (* bounds: requests per zone, clock                     *)
  MaxDeletes,       (* bound: zones deleted or evicted                      *)
  MaxKills,         (* bound: workers killed                                *)
  MaxStarts         (* bound: starts of nginx                               *)

ASSUME DumpAssumption ==
  /\ Workers # {}
  /\ LongKeys \subseteq Keys /\ Nil \notin Keys \cup Workers \cup Nat
  /\ Pages \in Nat /\ filter_max_node \in Nat /\ dump_period \in Nat
  /\ DiskMayFill \in BOOLEAN
  /\ MaxReqs \in Nat /\ MaxTime \in Nat
  /\ MaxDeletes \in Nat /\ MaxKills \in Nat /\ MaxStarts \in Nat

VARIABLES
  zone,             (* zone[k]: requests counted under k, 0 without a node  *)
  head,             (* time in the file's header, Nil if there is none      *)
  recs,             (* records of the file behind the header                *)
  lock,             (* holder of the lock on the file                       *)
  phase,            (* what worker w is doing                               *)
  exiting,          (* workers whose dump is the one of exit_worker         *)
  off,              (* off[w]: records of the file w has passed             *)
  seen,             (* seen[w]: nodes the walk of w has written             *)
  moved,            (* walkers under whose walk the tree changed            *)
  dangling,         (* walkers that have written a node freed since         *)
  running,          (* the master is up and has not been told to stop       *)
  now,
  owed,             (* history: zones in the file when nginx started, not   *)
                    (* deleted or evicted since                             *)
  kept,             (* history: zones of the last completed dump, ditto     *)
  deletes, kills, starts

file    == <<head, recs, lock>>
walk    == <<off, seen, moved, dangling>>
history == <<owed, kept>>
bounds  == <<deletes, kills, starts>>
vars == <<zone, file, phase, exiting, walk, running, now, history, bounds>>

Hole == [key |-> Nil, n |-> 0]
Rec(k) == [key |-> k, n |-> zone[k]]

Live == {k \in Keys : zone[k] > 0}
Walking == {w \in Workers : phase[w] = "walk"}
AllDown == \A w \in Workers : phase[w] = "down"

Phases == {"down", "forked", "restore", "up", "due", "open", "walk"}

DataOK ==
  /\ zone \in [Keys -> Nat]
  /\ head \in Nat \cup {Nil}
  /\ recs \in Seq([key : Keys \cup {Nil}, n : Nat])
  /\ lock \in Workers \cup {Nil}
  /\ phase \in [Workers -> Phases]
  /\ off \in [Workers -> Nat]
  /\ seen \in [Workers -> SUBSET Keys]
  /\ exiting \subseteq Workers /\ moved \subseteq Workers
  /\ dangling \subseteq Workers
  /\ owed \subseteq Keys /\ kept \subseteq Keys
  /\ now \in Nat /\ deletes \in Nat /\ kills \in Nat /\ starts \in Nat

(* The file, the zone and the state of every worker. *)
TypeOK == DataOK /\ running \in BOOLEAN

(* The machine is off and has never dumped. *)
Init ==
  /\ zone = [k \in Keys |-> 0]
  /\ head = Nil /\ recs = <<>> /\ lock = Nil
  /\ phase = [w \in Workers |-> "down"]
  /\ off = [w \in Workers |-> 0]
  /\ seen = [w \in Workers |-> {}]
  /\ exiting = {} /\ moved = {} /\ dangling = {}
  /\ running = FALSE
  /\ owed = {} /\ kept = {}
  /\ now = 0 /\ deletes = 0 /\ kills = 0 /\ starts = 0
-----------------------------------------------------------------------------
(* The file *)

(* Mutant: the node itself is not written, only its key. *)
Put_KeyOnly(s, i, r) ==
  [j \in 1..(IF i > Len(s) THEN i ELSE Len(s)) |->
     IF j = i THEN r.key ELSE IF j <= Len(s) THEN s[j] ELSE Hole]

(* What ngx_write_fd leaves behind at offset i: a hole before it if the    *)
(* file has been truncated since.                                          *)
Put(s, i, r) ==
  [j \in 1..(IF i > Len(s) THEN i ELSE Len(s)) |->
     IF j = i THEN r ELSE IF j <= Len(s) THEN s[j] ELSE Hole]

(* The restore loop stops at the end of the file, at a hole (no pad), and  *)
(* after a long key, where it forgets to skip the node and loses track.    *)
Readable(i) ==
  /\ i \in 1..Len(recs)
  /\ recs[i].key \in Keys \ LongKeys

(* What a restore into an empty zone would bring back. *)
OnFile ==
  LET stop == CHOOSE n \in 0..Len(recs) :
                /\ \A i \in 1..n : Readable(i)
                /\ ~Readable(n + 1)
      at(k) == {i \in 1..stop : recs[i].key = k}
  IN [k \in Keys |->
        IF head = Nil \/ at(k) = {} THEN 0
        ELSE recs[CHOOSE i \in at(k) : \A j \in at(k) : i <= j].n]

Saved == {k \in Keys : OnFile[k] > 0}
-----------------------------------------------------------------------------
(* Changes of the tree, seen by the walkers *)

Linked ==
  /\ moved' = moved \cup Walking
  /\ UNCHANGED <<seen, dangling>>

Unlinked(K) ==
  /\ moved' = moved \cup Walking
  /\ dangling' = dangling \cup {w \in Walking : seen[w] \cap K # {}}
  /\ seen' = [w \in Workers |-> seen[w] \ K]

(* The worker is gone: the kernel drops its lock and closes its file. *)
Die(w) ==
  /\ phase' = [phase EXCEPT ![w] = "down"]
  /\ exiting' = exiting \ {w}
  /\ lock' = IF lock = w THEN Nil ELSE lock
  /\ off' = [off EXCEPT ![w] = 0]
  /\ seen' = [seen EXCEPT ![w] = {}]
  /\ moved' = moved \ {w}
  /\ dangling' = dangling \ {w}
-----------------------------------------------------------------------------
(* Start, restore, stop *)

(* nginx starts with a fresh zone and forks its workers. *)
Start ==
  /\ ~running /\ AllDown /\ starts < MaxStarts
  /\ running' = TRUE /\ starts' = starts + 1
  /\ phase' = [w \in Workers |-> "forked"]
  /\ zone' = [k \in Keys |-> 0]
  /\ owed' = Saved
  /\ UNCHANGED <<file, exiting, walk, now, kept, deletes, kills>>

(* The master replaces a worker that was killed. *)
Respawn(w) ==
  /\ running /\ phase[w] = "down"
  /\ phase' = [phase EXCEPT ![w] = "forked"]
  /\ UNCHANGED <<zone, file, exiting, walk, running, now, history, bounds>>

(* init_worker runs before the worker looks at any signal. *)
InitWorker(w) ==
  /\ phase[w] = "forked"
  /\ phase' = [phase EXCEPT ![w] = IF head = Nil THEN "up" ELSE "restore"]
  /\ UNCHANGED <<zone, file, exiting, walk, running, now, history, bounds>>

(* Mutants: the node is overwritten when it exists; a record whose node    *)
(* exists ends the loop.                                                   *)
RestoreNode_Overwrite(w) ==
  LET r == recs[off[w] + 1] IN
  /\ phase[w] = "restore" /\ Readable(off[w] + 1)
  /\ zone' = [zone EXCEPT ![r.key] = r.n]
  /\ Linked
  /\ off' = [off EXCEPT ![w] = @ + 1]
  /\ UNCHANGED <<file, phase, exiting, running, now, history, bounds>>

RestoreNode_StopAtLive(w) ==
  LET r == recs[off[w] + 1] IN
  /\ phase[w] = "restore" /\ Readable(off[w] + 1)
  /\ IF zone[r.key] = 0
       THEN /\ zone' = [zone EXCEPT ![r.key] = r.n] /\ Linked
            /\ UNCHANGED phase
       ELSE /\ phase' = [phase EXCEPT ![w] = "up"]
            /\ UNCHANGED <<zone, seen, moved, dangling>>
  /\ off' = [off EXCEPT ![w] = @ + 1]
  /\ UNCHANGED <<file, exiting, running, now, history, bounds>>

(* dump_restore_add_node, one record per turn of the loop. *)
RestoreNode(w) ==
  LET r == recs[off[w] + 1] IN
  /\ phase[w] = "restore" /\ Readable(off[w] + 1)
  /\ zone[r.key] > 0 \/ Cardinality(Live) < Pages
  /\ IF zone[r.key] = 0
       THEN zone' = [zone EXCEPT ![r.key] = r.n] /\ Linked
       ELSE UNCHANGED <<zone, seen, moved, dangling>>
  /\ off' = [off EXCEPT ![w] = @ + 1]
  /\ UNCHANGED <<file, phase, exiting, running, now, history, bounds>>

RestoreEnd(w) ==
  /\ phase[w] = "restore"
  /\ Readable(off[w] + 1) =>
       zone[recs[off[w] + 1].key] = 0 /\ Cardinality(Live) >= Pages
  /\ phase' = [phase EXCEPT ![w] = "up"]
  /\ off' = [off EXCEPT ![w] = 0]
  /\ UNCHANGED <<zone, file, exiting, seen, moved, dangling, running, now,
                 history, bounds>>

(* QUIT or TERM. *)
Stop ==
  /\ running
  /\ running' = FALSE
  /\ UNCHANGED <<zone, file, phase, exiting, walk, now, history, bounds>>

(* Mutant: the exit dump asks, as the timer does. *)
ExitWorker_WhenDue(w) ==
  /\ ~running /\ phase[w] = "up"
  /\ IF head # Nil /\ now <= head + dump_period
       THEN phase' = [phase EXCEPT ![w] = "down"] /\ UNCHANGED exiting
       ELSE /\ phase' = [phase EXCEPT ![w] = "due"]
            /\ exiting' = exiting \cup {w}
  /\ UNCHANGED <<zone, file, walk, running, now, history, bounds>>

(* exit_worker dumps without asking how old the file is. *)
ExitWorker(w) ==
  /\ ~running /\ phase[w] = "up"
  /\ phase' = [phase EXCEPT ![w] = "due"]
  /\ exiting' = exiting \cup {w}
  /\ UNCHANGED <<zone, file, walk, running, now, history, bounds>>

(* SIGKILL, or a fault of the worker elsewhere. *)
Kill(w) ==
  /\ phase[w] # "down" /\ kills < MaxKills
  /\ kills' = kills + 1
  /\ Die(w)
  /\ UNCHANGED <<zone, head, recs, running, now, history, deletes, starts>>
-----------------------------------------------------------------------------
(* Serving *)

(* A request: shm_add_node, with the eviction a new key may cause. *)
Request(w, k) ==
  /\ phase[w] = "up" /\ zone[k] < MaxReqs
  /\ \E K \in SUBSET (Live \ {k}) :
       /\ Cardinality(K) =
            IF /\ zone[k] = 0 /\ filter_max_node > 0
               /\ Cardinality(Live) >= filter_max_node
              THEN 1 ELSE 0
       /\ zone[k] > 0 \/ Cardinality(Live \ K) < Pages
       /\ deletes + Cardinality(K) <= MaxDeletes
       /\ deletes' = deletes + Cardinality(K)
       /\ zone' = [j \in Keys |-> IF j = k THEN zone[k] + 1
                                  ELSE IF j \in K THEN 0 ELSE zone[j]]
       /\ IF zone[k] = 0 THEN Unlinked(K)
                         ELSE UNCHANGED <<seen, moved, dangling>>
       /\ owed' = owed \ K /\ kept' = kept \ K
  /\ UNCHANGED <<file, phase, exiting, off, running, now, kills, starts>>

(* cmd=delete of a zone. *)
Delete(w, k) ==
  /\ phase[w] = "up" /\ k \in Live /\ deletes < MaxDeletes
  /\ zone' = [zone EXCEPT ![k] = 0]
  /\ Unlinked({k})
  /\ owed' = owed \ {k} /\ kept' = kept \ {k}
  /\ deletes' = deletes + 1
  /\ UNCHANGED <<file, phase, exiting, off, running, now, kills, starts>>
-----------------------------------------------------------------------------
(* dump_execute *)

(* dump_handler: the file is due when it has no header or an old one. *)
DumpHandler(w) ==
  /\ running /\ phase[w] = "up"
  /\ head # Nil => now > head + dump_period
  /\ phase' = [phase EXCEPT ![w] = "due"]
  /\ UNCHANGED <<zone, file, exiting, walk, running, now, history, bounds>>

(* ngx_open_file(NGX_FILE_TRUNCATE), before the lock. *)
Open(w) ==
  /\ phase[w] = "due"
  /\ head' = Nil /\ recs' = <<>>
  /\ phase' = [phase EXCEPT ![w] = "open"]
  /\ UNCHANGED <<zone, lock, exiting, walk, running, now, history, bounds>>

(* The lock is granted and the header written. *)
LockFile(w) ==
  /\ phase[w] = "open" /\ lock = Nil
  /\ lock' = w
  /\ head' = now
  /\ phase' = [phase EXCEPT ![w] = "walk"]
  /\ UNCHANGED <<zone, recs, exiting, walk, running, now, history, bounds>>

(* Back from dump_execute: to the timer, or out of the worker. *)
Return(w) ==
  /\ phase' = [phase EXCEPT ![w] = IF w \in exiting THEN "down" ELSE "up"]
  /\ exiting' = exiting \ {w}
  /\ lock' = Nil
  /\ off' = [off EXCEPT ![w] = 0]
  /\ seen' = [seen EXCEPT ![w] = {}]
  /\ moved' = moved \ {w}
  /\ dangling' = dangling \ {w}

(* Mutant: the error path keeps the lock. *)
HeaderFails_KeepLock(w) ==
  /\ DiskMayFill
  /\ phase[w] = "open" /\ lock = Nil
  /\ lock' = w
  /\ phase' = [phase EXCEPT ![w] = IF w \in exiting THEN "down" ELSE "up"]
  /\ exiting' = exiting \ {w}
  /\ UNCHANGED <<zone, head, recs, walk, running, now, history, bounds>>

HeaderFails(w) ==
  /\ DiskMayFill
  /\ phase[w] = "open" /\ lock = Nil
  /\ Return(w)
  /\ UNCHANGED <<zone, head, recs, running, now, history, bounds>>

(* dump_node_write of one node, wherever the walk finds it. *)
WriteNode(w) ==
  /\ phase[w] = "walk"
  /\ \E k \in Live \ seen[w] :
       /\ recs' = Put(recs, off[w] + 1, Rec(k))
       /\ seen' = [seen EXCEPT ![w] = @ \cup {k}]
  /\ off' = [off EXCEPT ![w] = @ + 1]
  /\ UNCHANGED <<zone, head, lock, phase, exiting, moved, dangling, running,
                 now, history, bounds>>

(* The walk ends when every node is written; rotations under way can hide  *)
(* nodes from it.                                                          *)
WalkEnd(w) ==
  /\ phase[w] = "walk"
  /\ Live \subseteq seen[w] \/ w \in moved
  /\ Return(w)
  /\ kept' = IF Live \subseteq seen[w] THEN Live ELSE kept
  /\ UNCHANGED <<zone, head, recs, running, now, owed, bounds>>

(* A node on the stack of the walk has been freed: its links are NULL, and *)
(* the worker faults on the next one.                                      *)
WalkFaults(w) ==
  /\ phase[w] = "walk" /\ w \in dangling
  /\ kills < MaxKills /\ kills' = kills + 1
  /\ Die(w)
  /\ UNCHANGED <<zone, head, recs, running, now, history, deletes, starts>>

Tick ==
  /\ now < MaxTime
  /\ now' = now + 1
  /\ UNCHANGED <<zone, file, phase, exiting, walk, running, history, bounds>>

(* What a worker does by itself once it is asked to stop. *)
Progress(w) ==
  \/ InitWorker(w) \/ RestoreNode(w) \/ RestoreEnd(w) \/ ExitWorker(w)
  \/ Open(w) \/ LockFile(w) \/ HeaderFails(w) \/ WriteNode(w) \/ WalkEnd(w)

Next ==
  \/ Start \/ Stop \/ Tick
  \/ \E w \in Workers :
       \/ Respawn(w) \/ DumpHandler(w) \/ Progress(w)
       \/ Kill(w) \/ WalkFaults(w)
       \/ \E k \in Keys : Request(w, k) \/ Delete(w, k)

Spec == Init /\ [][Next]_vars

FairSpec == Spec /\ \A w \in Workers : WF_vars(Progress(w))
-----------------------------------------------------------------------------
(* Properties *)

(* However the exit dumps of the workers overlap with each other, with     *)
(* timers and with the last requests, once every worker has exited the     *)
(* file restores exactly what was in the zone (exit_worker).               *)
StopSavesAll ==
  AllDown /\ ~running /\ starts > 0 /\ kills = 0 /\ ~DiskMayFill =>
    OnFile = zone

(* As soon as one worker serves, every zone of the file is back, although  *)
(* a worker that is done restoring may truncate the file under another     *)
(* that is still reading it.                                               *)
RestoreComplete ==
  (\E w \in Workers : phase[w] \notin {"down", "forked", "restore"}) => owed \subseteq Live

(* A restore never sets back the counters of a zone that is live.          *)
LiveCountersKept ==
  [][\A k \in Keys :
       zone[k] > 0 /\ zone'[k] > 0 => zone'[k] >= zone[k]]_vars

(* Asked to stop, nginx stops: dumps queue for the file lock but none      *)
(* waits for ever, whoever is killed.                                      *)
StopEnds == ~running ~> AllDown \/ running

(* What has once been dumped is there to restore whenever nginx is down.   *)
DumpSurvives == AllDown => kept \subseteq Saved
-----------------------------------------------------------------------------
(* Why StopSavesAll holds: the inductive invariant *)

(* Workers that have still to open the file before they are down. *)
Pending ==
  {w \in Workers : \/ phase[w] \in {"forked", "restore", "up", "due"}
                   \/ phase[w] \in {"open", "walk"} /\ w \notin exiting}

(* One worker at a time writes; the others have no place in the file yet;  *)
(* only a stop sets exiting or takes a worker down.                        *)
WorkersInv ==
  /\ \A w \in Workers :
       /\ phase[w] = "walk" <=> lock = w
       /\ phase[w] # "walk" => seen[w] = {} /\ w \notin moved
       /\ phase[w] \notin {"walk", "restore"} => off[w] = 0
       /\ w \in exiting => phase[w] \in {"due", "open", "walk"}
  /\ running /\ kills = 0 => \A w \in Workers : phase[w] # "down" /\ w \notin exiting

(* Records say what is in the zone; before the n-th there is no hole. *)
RecordsTrue == \A i \in DOMAIN recs : recs[i] # Hole => \E k \in Live : recs[i] = Rec(k)
Written(k, n) == recs[n] = Rec(k) /\ \A i \in 1..n : recs[i] # Hole

(* A walk that began behind the last truncation and the last change of the *)
(* zone, and what it leaves behind.                                        *)
CleanWalk(w) ==
  /\ phase[w] = "walk" /\ head # Nil /\ w \notin moved
  /\ off[w] <= Len(recs) /\ \A i \in 1..off[w] : recs[i] # Hole
  /\ \A k \in seen[w] : \E n \in 1..off[w] : recs[n] = Rec(k)
Complete ==
  /\ lock = Nil /\ head # Nil
  /\ \A k \in Live : \E n \in DOMAIN recs : Written(k, n)

(* Once nobody is left to open the file, it is complete or a walk that     *)
(* will make it so is under way or to come.                                *)
SavedInv ==
  Pending = {} /\ ~running /\ starts > 0 /\ kills = 0 /\ ~DiskMayFill =>
    /\ RecordsTrue
    /\ (\E w \in Workers : phase[w] = "open" \/ CleanWalk(w)) \/ Complete

IInv == TypeOK /\ WorkersInv /\ SavedInv
-----------------------------------------------------------------------------
(* Why RestoreComplete holds: the inductive invariant *)

(* What has been written has been counted. *)
RecordsCount == \A i \in DOMAIN recs : recs[i].key \in Keys => recs[i].n > 0

(* What w has read of the file is in the zone. *)
Restored(w) == \A i \in 1..off[w] : Readable(i) /\ recs[i].key \in Live

(* All is back, or nobody has served yet, the file is still what it was at *)
(* the start, and every worker has restored what it has read.              *)
RestoreInv ==
  /\ RecordsCount
  /\ \/ owed \subseteq Live
     \/ /\ owed \subseteq Saved
        /\ \A w \in Workers : phase[w] \in {"down", "forked", "restore"}
        /\ \A w \in Workers : phase[w] = "restore" => Restored(w)
=============================================================================
