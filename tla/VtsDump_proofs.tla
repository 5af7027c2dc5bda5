--------------------------- MODULE VtsDump_proofs ---------------------------
(***************************************************************************)
(* Proofs about VtsDump for any number of workers and zones and any length *)
(* of behaviours: types, that a restore sets no counter back, that a stop  *)
(* leaves a file behind that restores exactly the zone, and that nobody    *)
(* serves before the zones of the file are back.                           *)
(***************************************************************************)
EXTENDS VtsDump, WellFoundedInduction, NaturalsInduction, FiniteSetTheorems, TLAPS

Records == [key : Keys \cup {Nil}, n : Nat]

(* Writing a record leaves a sequence of records. *)
LEMMA PutTyped ==
  ASSUME NEW s \in Seq(Records), NEW i \in Nat \ {0}, NEW r \in Records,
         NEW l, l = IF i > Len(s) THEN i ELSE Len(s)
  PROVE  /\ Put(s, i, r) \in Seq(Records)
         /\ DOMAIN Put(s, i, r) = 1..l /\ Len(Put(s, i, r)) = l
         /\ \A j \in 1..l : Put(s, i, r)[j] = IF j = i THEN r
                                           ELSE IF j <= Len(s) THEN s[j] ELSE Hole
<1>1. Hole \in Records
  BY DEF Hole, Records
<1>2. l \in Nat
  OBVIOUS
<1>3. \A j \in 1..Len(s) : s[j] \in Records
  OBVIOUS
<1>4. Put(s, i, r) \in [1..l -> Records]
  BY <1>1, <1>2, <1>3 DEF Put
<1> QED
  BY <1>2, <1>4 DEF Put

(* A record of a node. *)
LEMMA RecTyped ==
  ASSUME DataOK, NEW k \in Keys
  PROVE  Rec(k) \in Records
BY DEF DataOK, Rec, Records

(* The empty machine. *)
LEMMA InitInv == Init => IInv
<1> SUFFICES ASSUME Init PROVE IInv
  OBVIOUS
<1>1. TypeOK
  <2>1. DataOK
    BY DumpAssumption DEF Init, DataOK, Phases
  <2>2. running \in BOOLEAN
    BY Zenon DEF Init
  <2> QED
    BY <2>1, <2>2 DEF TypeOK
<1>2. WorkersInv
  BY DumpAssumption DEF Init, WorkersInv
<1>3. SavedInv
  BY DEF Init, SavedInv
<1> QED
  BY <1>1, <1>2, <1>3 DEF IInv
-----------------------------------------------------------------------------
(* Types *)

(* A death and a return keep the types. *)
LEMMA DieTyped ==
  ASSUME DataOK, NEW w \in Workers, Die(w) \/ Return(w),
         UNCHANGED <<zone, head, recs, now>>,
         owed' \subseteq Keys, kept' \subseteq Keys,
         deletes' \in Nat, kills' \in Nat, starts' \in Nat
  PROVE  DataOK'
<1>1. CASE Die(w)
  <2>1. lock' \in Workers \cup {Nil}
    BY <1>1 DEF DataOK, Die
  <2> QED
    BY <1>1, <2>1 DEF DataOK, Die, Phases
<1>2. CASE Return(w)
  BY <1>2 DEF DataOK, Return, Phases
<1> QED
  BY <1>1, <1>2

(* Only the zone, and what walkers know of it, changes. *)
LEMMA ServeTyped ==
  ASSUME DataOK, NEW w \in Workers, NEW k \in Keys, Request(w, k) \/ Delete(w, k)
  PROVE  DataOK'
<1>1. CASE Request(w, k)
  <2>1. PICK K \in SUBSET (Live \ {k}) :
          /\ deletes' = deletes + Cardinality(K)
          /\ Cardinality(K) \in {0, 1}
          /\ zone' = [j \in Keys |-> IF j = k THEN zone[k] + 1
                                     ELSE IF j \in K THEN 0 ELSE zone[j]]
          /\ IF zone[k] = 0 THEN Unlinked(K)
                            ELSE UNCHANGED <<seen, moved, dangling>>
          /\ owed' = owed \ K /\ kept' = kept \ K
    BY <1>1 DEF Request
  <2>2. UNCHANGED <<file, phase, exiting, off, running, now, kills, starts>>
    BY <1>1 DEF Request
  <2>3. /\ seen' \in [Workers -> SUBSET Keys]
        /\ moved' \subseteq Workers /\ dangling' \subseteq Workers
    BY <2>1 DEF DataOK, Unlinked, Walking
  <2> QED
    BY <2>1, <2>2, <2>3 DEF DataOK, file
<1>2. CASE Delete(w, k)
  BY <1>2 DEF DataOK, Delete, Unlinked, Walking, file
<1> QED
  BY <1>1, <1>2

(* What a worker does by itself keeps the types. *)
LEMMA ProgressTyped ==
  ASSUME DataOK, NEW w \in Workers, Progress(w)
  PROVE  DataOK'
<1> USE DEF DataOK, Phases
<1>1. CASE InitWorker(w)
  BY <1>1 DEF InitWorker, file, walk, history, bounds
<1>2. CASE RestoreEnd(w)
  BY <1>2 DEF RestoreEnd, file, history, bounds
<1>3. CASE ExitWorker(w)
  BY <1>3 DEF ExitWorker, file, walk, history, bounds
<1>4. CASE Open(w)
  BY <1>4 DEF Open, file, walk, history, bounds
<1>5. CASE LockFile(w)
  BY <1>5 DEF LockFile, walk, history, bounds
<1>6. CASE RestoreNode(w)
  <2>1. recs[off[w] + 1] \in Records
    <3>1. recs \in Seq(Records)
      BY DEF Records
    <3>2. off[w] + 1 \in 1..Len(recs)
      BY <1>6 DEF RestoreNode, Readable
    <3> QED
      BY <3>1, <3>2
  <2>2. recs[off[w] + 1].key \in Keys /\ recs[off[w] + 1].n \in Nat
    BY <1>6, <2>1 DEF RestoreNode, Readable, Records
  <2> QED
    BY <1>6, <2>2 DEF RestoreNode, Linked, Walking, file, history, bounds
<1>7. CASE HeaderFails(w)
  BY <1>7, DieTyped DEF HeaderFails, history, bounds
<1>8. CASE WriteNode(w)
  <2>1. PICK k \in Live \ seen[w] :
          /\ recs' = Put(recs, off[w] + 1, Rec(k))
          /\ seen' = [seen EXCEPT ![w] = @ \cup {k}]
    BY <1>8 DEF WriteNode
  <2>2. k \in Keys /\ Rec(k) \in Records
    BY <2>1 DEF Live, Rec, Records
  <2>3. recs \in Seq(Records) /\ off[w] + 1 \in Nat \ {0}
    BY DEF Records
  <2>4. recs' \in Seq(Records)
    BY <2>1, <2>2, <2>3, PutTyped
  <2> QED
    BY <1>8, <2>1, <2>2, <2>4 DEF WriteNode, history, bounds, Records
<1>9. CASE WalkEnd(w)
  <2>1. kept' \in SUBSET Keys
    BY <1>9 DEF WalkEnd, Live
  <2> QED
    BY <1>9, <2>1, DieTyped DEF WalkEnd, bounds
<1> QED
  BY <1>1, <1>2, <1>3, <1>4, <1>5, <1>6, <1>7, <1>8, <1>9 DEF Progress

(* Every action keeps the types. *)
LEMMA TypeNext ==
  ASSUME TypeOK, [Next]_vars
  PROVE  TypeOK'
<1>1. running' \in BOOLEAN
  <2>1. CASE Start \/ Stop
    BY <2>1, Zenon DEF Start, Stop
  <2>2. CASE UNCHANGED running
    BY <2>2, Zenon DEF TypeOK
  <2>3. [Next]_vars => Start \/ Stop \/ UNCHANGED running
    BY DEF Next, vars, Tick, Respawn, DumpHandler, Progress, Kill, WalkFaults,
           Request, Delete, InitWorker, RestoreNode, RestoreEnd, ExitWorker,
           Open, LockFile, HeaderFails, WriteNode, WalkEnd
  <2> QED
    BY <2>1, <2>2, <2>3
<1>2. DataOK'
  <2> USE DEF TypeOK
  <2>1. CASE UNCHANGED vars
    BY <2>1 DEF DataOK, vars, file, walk, history, bounds
  <2>2. CASE Start
    <3>1. Saved \in SUBSET Keys
      BY DEF Saved
    <3> QED
      BY <2>2, <3>1 DEF DataOK, Phases, Start, file, walk
  <2>3. CASE Stop
    BY <2>3 DEF DataOK, Stop, file, walk, history, bounds
  <2>4. CASE Tick
    BY <2>4 DEF DataOK, Tick, file, walk, history, bounds
  <2>5. ASSUME NEW w \in Workers, Respawn(w) \/ DumpHandler(w) PROVE DataOK'
    BY <2>5 DEF DataOK, Phases, Respawn, DumpHandler, file, walk, history, bounds
  <2>6. ASSUME NEW w \in Workers, Kill(w) \/ WalkFaults(w) PROVE DataOK'
    <3>1. /\ Die(w) /\ kills' = kills + 1
          /\ UNCHANGED <<zone, head, recs, now, history, deletes, starts>>
      BY <2>6 DEF Kill, WalkFaults
    <3> QED
      BY <3>1, DieTyped DEF DataOK, history
  <2> QED
    BY <2>1, <2>2, <2>3, <2>4, <2>5, <2>6, ServeTyped, ProgressTyped DEF Next
<1> QED
  BY <1>1, <1>2 DEF TypeOK

(* A restore never sets back the counters of a zone that is live. *)
THEOREM LiveKept == Spec => LiveCountersKept
<1> DEFINE Kept == \A k \in Keys : zone[k] > 0 /\ zone'[k] > 0 => zone'[k] >= zone[k]
<1>1. ASSUME TypeOK, [Next]_vars PROVE Kept \/ UNCHANGED vars
  <2> USE DEF TypeOK, DataOK
  <2>1. ASSUME NEW w \in Workers, NEW k \in Keys, Request(w, k) PROVE Kept
    BY <1>1, <2>1 DEF Request
  <2>2. ASSUME NEW w \in Workers, NEW k \in Keys, Delete(w, k) PROVE Kept
    BY <1>1, <2>2 DEF Delete
  <2>3. ASSUME NEW w \in Workers, RestoreNode(w) PROVE Kept
    <3>1. CASE zone' = zone
      BY <1>1, <3>1
    <3>2. ASSUME NEW j, NEW n, zone[j] = 0, zone' = [zone EXCEPT ![j] = n]
          PROVE  Kept
      BY <1>1, <3>2
    <3> QED
      BY <2>3, <3>1, <3>2 DEF RestoreNode
  <2>4. CASE Start
    BY <1>1, <2>4 DEF Start
  <2>5. CASE UNCHANGED zone
    BY <1>1, <2>5
  <2>6. \/ Start \/ UNCHANGED zone
        \/ \E w \in Workers : \/ RestoreNode(w)
                              \/ \E k \in Keys : Request(w, k) \/ Delete(w, k)
    BY <1>1 DEF Next, vars, Stop, Tick, Respawn, DumpHandler, Progress, Kill,
           WalkFaults, InitWorker, RestoreEnd, ExitWorker, Open, LockFile,
           HeaderFails, WriteNode, WalkEnd
  <2> QED
    BY <2>1, <2>2, <2>3, <2>4, <2>5, <2>6
<1>2. TypeOK /\ [Next]_vars => [Kept]_vars
  BY <1>1
<1>3. Init => TypeOK
  BY InitInv DEF IInv
<1>4. TypeOK /\ [Next]_vars => TypeOK'
  BY TypeNext
<1> QED
  BY <1>2, <1>3, <1>4, PTL DEF Spec, LiveCountersKept
-----------------------------------------------------------------------------
(* The workers *)

(* Every action leaves the workers in order. *)
LEMMA WorkersNext ==
  ASSUME TypeOK, TypeOK', WorkersInv, [Next]_vars
  PROVE  WorkersInv'
<1>0. DataOK /\ DataOK' /\ Nil \notin Workers
  BY DumpAssumption DEF TypeOK
<1> USE DEF WorkersInv, DataOK, Phases
<1>1. CASE UNCHANGED vars \/ Tick
  BY <1>1 DEF vars, Tick, file, walk, history, bounds
<1>2. CASE Start
  BY <1>0, <1>2 DEF Start, AllDown, file, walk
<1>3. CASE Stop
  BY <1>3 DEF Stop, file, walk, history, bounds
<1>4. ASSUME NEW w \in Workers, Respawn(w) \/ DumpHandler(w) PROVE WorkersInv'
  BY <1>0, <1>4 DEF Respawn, DumpHandler, file, walk, history, bounds
<1>5. ASSUME NEW w \in Workers, Kill(w) \/ WalkFaults(w) PROVE WorkersInv'
  BY <1>0, <1>5 DEF Kill, WalkFaults, Die, history
<1>6. ASSUME NEW w \in Workers, NEW k \in Keys, Request(w, k) \/ Delete(w, k)
      PROVE  WorkersInv'
  <2>1. UNCHANGED <<lock, phase, exiting, off, running, kills>>
    BY <1>6 DEF Request, Delete, file
  <2>2. (UNCHANGED <<seen, moved>>) \/ \E K : Unlinked(K)
    BY <1>6 DEF Request, Delete
  <2>3. \A v \in Workers : phase[v] # "walk" => seen'[v] = {} /\ v \notin moved'
    BY <1>0, <2>2 DEF Unlinked, Walking
  <2> QED
    BY <2>1, <2>3
<1>7. ASSUME NEW w \in Workers, Progress(w) PROVE WorkersInv'
  <2>1. CASE InitWorker(w)
    BY <1>0, <2>1 DEF InitWorker, file, walk, history, bounds
  <2>2. CASE RestoreNode(w)
    BY <1>0, <2>2 DEF RestoreNode, Linked, Walking, file, history, bounds
  <2>3. CASE RestoreEnd(w)
    BY <1>0, <2>3 DEF RestoreEnd, file, history, bounds
  <2>4. CASE ExitWorker(w)
    BY <1>0, <2>4 DEF ExitWorker, file, walk, history, bounds
  <2>5. CASE Open(w)
    BY <1>0, <2>5 DEF Open, walk, history, bounds
  <2>6. CASE LockFile(w)
    BY <1>0, <2>6 DEF LockFile, walk, history, bounds
  <2>7. CASE HeaderFails(w)
    BY <1>0, <2>7 DEF HeaderFails, Return, history, bounds
  <2>8. CASE WriteNode(w)
    BY <1>0, <2>8 DEF WriteNode, history, bounds
  <2>9. CASE WalkEnd(w)
    BY <1>0, <2>9 DEF WalkEnd, Return, bounds
  <2> QED
    BY <1>7, <2>1, <2>2, <2>3, <2>4, <2>5, <2>6, <2>7, <2>8, <2>9 DEF Progress
<1> QED
  BY <1>1, <1>2, <1>3, <1>4, <1>5, <1>6, <1>7 DEF Next
-----------------------------------------------------------------------------
(* The file *)

(* The last truncation by a worker that exits empties the file for good:   *)
(* nobody serves any more, and the walk of this worker is still to come.   *)
LEMMA OpenSaves ==
  ASSUME IInv, WorkersInv', NEW w \in Workers, Open(w)
  PROVE  SavedInv'
<1>1. recs' = <<>> /\ phase'[w] = "open"
  BY DEF Open, IInv, TypeOK, DataOK
<1>2. RecordsTrue'
  BY <1>1 DEF RecordsTrue
<1> QED
  BY <1>1, <1>2 DEF SavedInv

(* Who holds the lock begins a clean walk. *)
LEMMA LockSaves ==
  ASSUME IInv, TypeOK', NEW w \in Workers, LockFile(w)
  PROVE  SavedInv'
<1> USE DEF IInv, TypeOK, DataOK
<1>1. /\ phase[w] = "open" /\ phase' = [phase EXCEPT ![w] = "walk"]
      /\ head' = now
      /\ UNCHANGED <<zone, recs, exiting, off, seen, moved, running, starts, kills>>
  BY DEF LockFile, walk, bounds
<1>2. Pending' = {} => Pending = {}
  BY <1>1 DEF Pending
<1>3. CleanWalk(w)'
  <2>1. off'[w] = 0 /\ seen'[w] = {} /\ w \notin moved'
    BY <1>1 DEF WorkersInv
  <2>2. head' # Nil
    BY <1>1, DumpAssumption
  <2>3. phase'[w] = "walk" /\ Len(recs') \in Nat
    BY <1>1
  <2> QED
    BY <2>1, <2>2, <2>3 DEF CleanWalk
<1>4. RecordsTrue => RecordsTrue'
  BY <1>1 DEF RecordsTrue, Live, Rec
<1> QED
  BY <1>1, <1>2, <1>3, <1>4 DEF SavedInv

(* Writing a node keeps a clean walk clean, and what it writes is true: no *)
(* zone changes any more.                                                  *)
LEMMA WriteSaves ==
  ASSUME IInv, NEW w \in Workers, WriteNode(w)
  PROVE  SavedInv'
<1> SUFFICES ASSUME Pending' = {}, ~running', starts' > 0, kills' = 0, ~DiskMayFill
             PROVE  /\ RecordsTrue'
                    /\ \E v \in Workers : phase'[v] = "open" \/ CleanWalk(v)'
  BY DEF SavedInv
<1> USE DEF IInv, TypeOK, DataOK
<1>1. PICK k \in Live \ seen[w] :
        /\ recs' = Put(recs, off[w] + 1, Rec(k))
        /\ seen' = [seen EXCEPT ![w] = @ \cup {k}]
  BY DEF WriteNode
<1>2. /\ off' = [off EXCEPT ![w] = @ + 1]
      /\ UNCHANGED <<zone, head, lock, phase, exiting, moved, running, starts, kills>>
      /\ phase[w] = "walk"
  BY DEF WriteNode, bounds
<1>3. k \in Keys /\ Rec(k) \in Records /\ Rec(k) # Hole
  BY <1>1, DumpAssumption DEF Live, Rec, Records, Hole
<1> DEFINE i == off[w] + 1
           l == IF i > Len(recs) THEN i ELSE Len(recs)
<1>4. /\ DOMAIN recs' = 1..l /\ Len(recs') = l /\ i \in Nat /\ Len(recs) \in Nat
      /\ \A j \in 1..l : recs'[j] = IF j = i THEN Rec(k)
                                    ELSE IF j <= Len(recs) THEN recs[j] ELSE Hole
  <2>1. recs \in Seq(Records) /\ i \in Nat \ {0}
    BY DEF Records
  <2>2. /\ DOMAIN Put(recs, i, Rec(k)) = 1..l
        /\ Len(Put(recs, i, Rec(k))) = l
        /\ \A j \in 1..l : Put(recs, i, Rec(k))[j] =
             IF j = i THEN Rec(k) ELSE IF j <= Len(recs) THEN recs[j] ELSE Hole
    <3>1. l = IF i > Len(recs) THEN i ELSE Len(recs)
      OBVIOUS
    <3> HIDE DEF i, l, IInv, TypeOK, DataOK
    <3>2. \A r \in Records : DOMAIN Put(recs, i, r) = 1..l
      BY <2>1, <3>1, PutTyped
    <3>3. \A r \in Records : Len(Put(recs, i, r)) = l
      BY <2>1, <3>1, PutTyped
    <3>4. \A r \in Records : \A j \in 1..l : Put(recs, i, r)[j] =
             IF j = i THEN r ELSE IF j <= Len(recs) THEN recs[j] ELSE Hole
      BY <2>1, <3>1, PutTyped
    <3> QED
      BY <1>3, <3>2, <3>3, <3>4
  <2>3. recs' = Put(recs, i, Rec(k))
    BY <1>1
  <2> QED
    BY <2>1, <2>2, <2>3
<1>5. Live' = Live /\ \A j : Rec(j)' = Rec(j)
  BY <1>2 DEF Live, Rec
<1>6. /\ RecordsTrue
      /\ (\E v \in Workers : phase[v] = "open" \/ CleanWalk(v)) \/ Complete
  <2>1. Pending = {}
    BY <1>2 DEF Pending
  <2> QED
    BY <1>2, <2>1 DEF SavedInv
<1>7. RecordsTrue'
  <2> SUFFICES ASSUME NEW j \in 1..l, recs'[j] # Hole
               PROVE  \E m \in Live : recs'[j] = Rec(m)
    BY <1>4, <1>5 DEF RecordsTrue
  <2>1. CASE j = i
    BY <1>1, <1>4, <2>1
  <2>2. CASE j # i
    <3>1. j \in DOMAIN recs /\ recs'[j] = recs[j]
      BY <1>4, <2>2
    <3> QED
      BY <1>6, <3>1 DEF RecordsTrue
  <2> QED
    BY <2>1, <2>2
<1>8. ASSUME CleanWalk(w) PROVE CleanWalk(w)'
  <2>1. /\ head # Nil /\ w \notin moved /\ off[w] <= Len(recs)
        /\ \A j \in 1..off[w] : recs[j] # Hole
        /\ \A m \in seen[w] : \E n \in 1..off[w] : recs[n] = Rec(m)
    BY <1>8 DEF CleanWalk
  <2>2. off'[w] = i /\ seen'[w] = seen[w] \cup {k} /\ i <= l
    BY <1>1, <1>2
  <2>3. ASSUME NEW j \in 1..off[w] PROVE recs'[j] = recs[j]
    <3>1. j # i /\ j <= Len(recs) /\ j \in 1..l
      BY <1>4, <2>1
    <3> QED
      BY <1>4, <3>1
  <2>4. recs'[i] = Rec(k) /\ \A j \in 1..i : j = i \/ j \in 1..off[w]
    BY <1>4
  <2>5. \A j \in 1..i : recs'[j] # Hole
    BY <1>3, <2>1, <2>3, <2>4
  <2>6. ASSUME NEW m \in seen'[w] PROVE \E n \in 1..i : recs'[n] = Rec(m)'
    <3>1. CASE m = k
      BY <1>4, <1>5, <2>4, <3>1
    <3>2. CASE m \in seen[w]
      <4>1. PICK n \in 1..off[w] : recs[n] = Rec(m)
        BY <2>1, <3>2
      <4>2. n \in 1..i
        BY <1>4
      <4> QED
        BY <1>5, <2>3, <4>1, <4>2
    <3> QED
      BY <2>2, <2>6, <3>1, <3>2
  <2> QED
    BY <1>2, <1>4, <2>1, <2>2, <2>5, <2>6 DEF CleanWalk
<1>9. \A v \in Workers : CleanWalk(v) => v = w
  BY <1>2 DEF CleanWalk, WorkersInv
<1>10. ~Complete
  BY <1>2, DumpAssumption DEF Complete, WorkersInv
<1> QED
  BY <1>2, <1>6, <1>7, <1>8, <1>9, <1>10

(* A clean walk ends when every node is written. *)
LEMMA WalkEndSaves ==
  ASSUME IInv, NEW w \in Workers, WalkEnd(w)
  PROVE  SavedInv'
<1> SUFFICES ASSUME Pending' = {}, ~running', starts' > 0, kills' = 0, ~DiskMayFill
             PROVE  /\ RecordsTrue'
                    /\ \/ \E v \in Workers : phase'[v] = "open"
                       \/ Complete'
  BY DEF SavedInv
<1> USE DEF IInv, TypeOK, DataOK
<1>1. /\ phase[w] = "walk" /\ lock' = Nil
      /\ Live \subseteq seen[w] \/ w \in moved
      /\ phase' = [phase EXCEPT ![w] = IF w \in exiting THEN "down" ELSE "up"]
      /\ exiting' = exiting \ {w}
      /\ UNCHANGED <<zone, head, recs, running, starts, kills>>
  BY DEF WalkEnd, Return, bounds
<1>2. Live' = Live /\ \A j : Rec(j)' = Rec(j)
  BY <1>1 DEF Live, Rec
<1>3. w \in exiting
  BY <1>1 DEF Pending
<1>4. /\ RecordsTrue
      /\ (\E v \in Workers : phase[v] = "open" \/ CleanWalk(v)) \/ Complete
  <2>1. Pending = {}
    BY <1>1, <1>3 DEF Pending
  <2> QED
    BY <1>1, <2>1 DEF SavedInv
<1>5. RecordsTrue'
  BY <1>1, <1>2, <1>4 DEF RecordsTrue
<1>6. ASSUME CleanWalk(w) PROVE Complete'
  <2>1. /\ head # Nil /\ Live \subseteq seen[w] /\ off[w] <= Len(recs)
        /\ \A j \in 1..off[w] : recs[j] # Hole
        /\ \A m \in seen[w] : \E n \in 1..off[w] : recs[n] = Rec(m)
    BY <1>1, <1>6 DEF CleanWalk
  <2>2. ASSUME NEW m \in Live PROVE \E n \in DOMAIN recs : Written(m, n)
    <3>1. PICK n \in 1..off[w] : recs[n] = Rec(m)
      BY <2>1, <2>2
    <3>2. n \in DOMAIN recs /\ \A j \in 1..n : j \in 1..off[w]
      BY <2>1
    <3> QED
      BY <2>1, <3>1, <3>2 DEF Written
  <2> QED
    BY <1>1, <1>2, <2>1, <2>2 DEF Complete, Written
<1>7. \A v \in Workers : CleanWalk(v) => v = w
  BY <1>1 DEF CleanWalk, WorkersInv
<1>8. ~Complete
  BY <1>1, DumpAssumption DEF Complete, WorkersInv
<1> QED
  BY <1>1, <1>4, <1>5, <1>6, <1>7, <1>8

(* Every action leaves the file saved or to be saved. *)
LEMMA SavedNext ==
  ASSUME IInv, TypeOK', WorkersInv', [Next]_vars
  PROVE  SavedInv'
<1> USE DEF IInv, TypeOK, DataOK, Phases
<1>1. CASE UNCHANGED vars \/ Tick
  <2>1. UNCHANGED <<zone, head, recs, lock, phase, exiting, off, seen, moved,
                    running, kills, starts>>
    BY <1>1 DEF vars, Tick, file, walk, history, bounds
  <2>2. Pending' = Pending
    BY <2>1 DEF Pending
  <2>3. Live' = Live /\ \A k : Rec(k)' = Rec(k)
    BY <2>1 DEF Live, Rec
  <2>4. RecordsTrue' <=> RecordsTrue
    BY <2>1, <2>3 DEF RecordsTrue
  <2>5. \A w \in Workers : CleanWalk(w)' <=> CleanWalk(w)
    BY <2>1, <2>3 DEF CleanWalk
  <2>6. Complete' <=> Complete
    BY <2>1, <2>3 DEF Complete, Written
  <2> QED
    BY <2>1, <2>2, <2>4, <2>5, <2>6 DEF SavedInv
<1>2. CASE Start
  BY <1>2, Zenon DEF Start, SavedInv
<1>3. CASE Stop
  <2>1. running /\ UNCHANGED <<phase, exiting, kills>>
    BY <1>3 DEF Stop, walk, bounds
  <2>2. ASSUME kills = 0 PROVE Pending' # {}
    <3>1. PICK w \in Workers : TRUE
      BY DumpAssumption
    <3>2. phase[w] # "down" /\ w \notin exiting
      BY <2>1, <2>2 DEF WorkersInv
    <3> QED
      BY <2>1, <3>2 DEF Pending
  <2> QED
    BY <2>1, <2>2 DEF SavedInv
<1>4. ASSUME NEW w \in Workers, Respawn(w) \/ DumpHandler(w) PROVE SavedInv'
  BY <1>4 DEF SavedInv, Respawn, DumpHandler
<1>5. ASSUME NEW w \in Workers, Kill(w) \/ WalkFaults(w) PROVE SavedInv'
  BY <1>5 DEF SavedInv, Kill, WalkFaults
<1>6. ASSUME NEW w \in Workers, NEW k \in Keys, Request(w, k) \/ Delete(w, k)
      PROVE  SavedInv'
  BY <1>6 DEF SavedInv, Pending, Request, Delete
<1>7. ASSUME NEW w \in Workers, Progress(w) PROVE SavedInv'
  <2>1. CASE InitWorker(w) \/ RestoreNode(w) \/ RestoreEnd(w) \/ ExitWorker(w)
    <3>1. phase'[w] \in {"restore", "up", "due"}
      BY <2>1 DEF InitWorker, RestoreNode, RestoreEnd, ExitWorker
    <3> QED
      BY <3>1 DEF SavedInv, Pending
  <2>2. CASE HeaderFails(w)
    BY <2>2 DEF SavedInv, HeaderFails
  <2> QED
    BY <1>7, <2>1, <2>2, OpenSaves, LockSaves, WriteSaves, WalkEndSaves
    DEF Progress
<1> QED
  BY <1>1, <1>2, <1>3, <1>4, <1>5, <1>6, <1>7 DEF Next

(* Hence the invariant, for any number of workers and zones. *)
THEOREM Invariant == Spec => []IInv
<1>1. IInv /\ [Next]_vars => IInv'
  <2> SUFFICES ASSUME IInv, [Next]_vars PROVE IInv'
    OBVIOUS
  <2>1. TypeOK'
    BY TypeNext DEF IInv
  <2>2. WorkersInv'
    BY <2>1, WorkersNext DEF IInv
  <2> QED
    BY <2>1, <2>2, SavedNext DEF IInv
<1> QED
  BY <1>1, InitInv, PTL DEF Spec

(* The state of the workers and the file is what it should be. *)
THEOREM TypeCorrect == Spec => []TypeOK
<1>1. IInv => TypeOK
  BY DEF IInv
<1> QED
  BY <1>1, Invariant, PTL
-----------------------------------------------------------------------------
(* The restore *)

(* A set of naturals that is not empty has a least element. *)
LEMMA LeastNat ==
  ASSUME NEW S \in SUBSET Nat, S # {}
  PROVE  \E n \in S : \A m \in S : n <= m
<1>1. PICK x \in S : \A y \in S : ~(<<y, x>> \in OpToRel(<, Nat))
  BY NatLessThanWellFounded, WFMin, Zenon
<1>2. ASSUME NEW y \in S PROVE x <= y
  <2>1. <<y, x>> \notin OpToRel(<, Nat)
    BY <1>1
  <2>2. x \in Nat /\ y \in Nat /\ <<y, x>> \in Nat \X Nat
    OBVIOUS
  <2>3. ~(<<y, x>>[1] < <<y, x>>[2])
    BY <2>1, <2>2 DEF OpToRel
  <2> QED
    BY <2>2, <2>3
<1> QED
  BY <1>2

(* While no key is long the restore reads every record before the first    *)
(* hole, and each of them is true.                                         *)
LEMMA ReadableTrue ==
  ASSUME LongKeys = {}, TypeOK, RecordsTrue, NEW i \in Nat
  PROVE  /\ Readable(i) <=> i \in 1..Len(recs) /\ recs[i] # Hole
         /\ Readable(i) => \E k \in Live : recs[i] = Rec(k)
<1>1. DOMAIN recs = 1..Len(recs) /\ Nil \notin Keys
  BY DumpAssumption DEF TypeOK, DataOK
<1>2. Readable(i) => recs[i] # Hole
  BY <1>1 DEF Readable, Hole
<1>3. ASSUME i \in 1..Len(recs), recs[i] # Hole
      PROVE  Readable(i) /\ \E k \in Live : recs[i] = Rec(k)
  <2>1. PICK k \in Live : recs[i] = Rec(k)
    BY <1>1, <1>3 DEF RecordsTrue
  <2>2. recs[i].key = k /\ k \in Keys
    BY <2>1 DEF Rec, Live
  <2> QED
    BY <1>3, <2>1, <2>2 DEF Readable
<1> QED
  BY <1>2, <1>3 DEF Readable

(* The restore stops somewhere. *)
LEMMA StopExists ==
  ASSUME TypeOK
  PROVE  \E n \in 0..Len(recs) : (\A i \in 1..n : Readable(i)) /\ ~Readable(n + 1)
<1> DEFINE S == {m \in Nat \ {0} : ~Readable(m)}
<1>1. Len(recs) \in Nat
  BY DEF TypeOK, DataOK
<1>2. Len(recs) + 1 \in S
  BY <1>1 DEF Readable
<1>3. PICK m \in S : \A j \in S : m <= j
  <2>1. S \in SUBSET Nat /\ S # {}
    BY <1>2
  <2> HIDE DEF S
  <2> QED
    BY <2>1, LeastNat
<1>4. m <= Len(recs) + 1 /\ m \in Nat \ {0} /\ ~Readable(m)
  BY <1>2, <1>3
<1>5. \A i \in 1..(m - 1) : Readable(i)
  BY <1>3, <1>4
<1>6. m - 1 \in 0..Len(recs) /\ (m - 1) + 1 = m
  BY <1>1, <1>4
<1> QED
  BY <1>4, <1>5, <1>6

(* A complete file restores exactly the zone. *)
LEMMA CompleteRestores ==
  ASSUME LongKeys = {}, TypeOK, RecordsTrue, Complete
  PROVE  OnFile = zone
<1> DEFINE stop == CHOOSE n \in 0..Len(recs) :
                     /\ \A i \in 1..n : Readable(i)
                     /\ ~Readable(n + 1)
           at(k) == {i \in 1..stop : recs[i].key = k}
           first(k) == CHOOSE i \in at(k) : \A j \in at(k) : i <= j
<1>1. /\ stop \in 0..Len(recs) /\ ~Readable(stop + 1)
      /\ \A i \in 1..stop : Readable(i)
  BY StopExists
<1>2. Len(recs) \in Nat /\ DOMAIN recs = 1..Len(recs) /\ zone \in [Keys -> Nat]
  BY DEF TypeOK, DataOK
<1>3. OnFile = [k \in Keys |-> IF head = Nil \/ at(k) = {} THEN 0
                               ELSE recs[first(k)].n]
  BY DEF OnFile
<1> HIDE DEF stop
<1>4. ASSUME NEW i \in 1..stop
      PROVE  /\ recs[i].key \in Live
             /\ recs[i].n = zone[recs[i].key]
  <2>1. i \in Nat /\ Readable(i)
    BY <1>1
  <2>2. PICK k \in Live : recs[i] = Rec(k)
    BY <2>1, ReadableTrue
  <2> QED
    BY <2>2 DEF Rec
<1>5. ASSUME NEW k \in Live PROVE at(k) # {}
  <2>1. PICK n \in DOMAIN recs : Written(k, n)
    BY DEF Complete
  <2>2. n <= stop
    <3> SUFFICES ASSUME stop < n PROVE FALSE
      BY <1>1, <1>2
    <3>1. stop + 1 \in 1..n /\ stop + 1 \in 1..Len(recs) /\ stop + 1 \in Nat
      BY <1>1, <1>2
    <3>2. recs[stop + 1] # Hole
      BY <2>1, <3>1 DEF Written
    <3> QED
      BY <1>1, <3>1, <3>2, ReadableTrue
  <2>3. n \in 1..stop /\ recs[n].key = k
    BY <1>1, <1>2, <2>1, <2>2 DEF Written, Rec
  <2> QED
    BY <2>3
<1>6. ASSUME NEW k \in Keys, at(k) # {} PROVE first(k) \in at(k)
  <2>1. at(k) \in SUBSET Nat
    BY <1>1
  <2>2. \E i \in at(k) : \A j \in at(k) : i <= j
    <3> HIDE DEF at
    <3> QED
      BY <1>6, <2>1, LeastNat
  <2> QED
    BY <2>2
<1>7. ASSUME NEW k \in Keys PROVE OnFile[k] = zone[k]
  <2>1. CASE at(k) = {}
    <3>1. k \notin Live
      BY <1>5, <2>1
    <3>2. zone[k] = 0
      BY <1>2, <3>1 DEF Live
    <3> QED
      BY <1>3, <2>1, <3>2
  <2>2. CASE at(k) # {}
    <3>1. first(k) \in 1..stop /\ recs[first(k)].key = k
      BY <1>6, <2>2
    <3>2. head # Nil
      BY DEF Complete
    <3>3. recs[first(k)].n = zone[k]
      BY <1>4, <3>1
    <3> HIDE DEF first, at
    <3> QED
      BY <1>3, <2>2, <3>2, <3>3
  <2> QED
    BY <2>1, <2>2
<1>8. OnFile \in [Keys -> {OnFile[k] : k \in Keys}]
  BY <1>3
<1> QED
  BY <1>2, <1>7, <1>8

(* Once every worker has exited the file restores exactly what was in the  *)
(* zone, however the dumps overlapped (exit_worker), for keys that fit the *)
(* buffer of the restore.                                                  *)
THEOREM StopSaves ==
  ASSUME LongKeys = {}
  PROVE  Spec => []StopSavesAll
<1>1. IInv => StopSavesAll
  <2> SUFFICES ASSUME IInv, AllDown, ~running, starts > 0, kills = 0,
                      ~DiskMayFill
               PROVE  OnFile = zone
    BY DEF StopSavesAll
  <2>1. Pending = {}
    BY DEF Pending, AllDown
  <2>2. \A w \in Workers : phase[w] # "open" /\ ~CleanWalk(w)
    BY DEF AllDown, CleanWalk
  <2>3. RecordsTrue /\ Complete
    BY <2>1, <2>2 DEF IInv, SavedInv
  <2> QED
    BY <2>3, CompleteRestores DEF IInv
<1> QED
  BY <1>1, Invariant, PTL
-----------------------------------------------------------------------------
(* The restore is complete *)

(* A worker that has restored up to the end has restored all. *)
LEMMA SavedRead ==
  ASSUME TypeOK, NEW n \in Nat, ~Readable(n + 1),
         \A i \in 1..n : recs[i].key \in Live
  PROVE  Saved \subseteq Live
<1> SUFFICES ASSUME NEW k \in Saved PROVE k \in Live
  OBVIOUS
<1> DEFINE stop == CHOOSE m \in 0..Len(recs) :
                     /\ \A i \in 1..m : Readable(i)
                     /\ ~Readable(m + 1)
           at(j) == {i \in 1..stop : recs[i].key = j}
<1>1. stop \in 0..Len(recs) /\ (\A i \in 1..stop : Readable(i)) /\ ~Readable(stop + 1)
  BY StopExists
<1>2. Len(recs) \in Nat
  BY DEF TypeOK, DataOK
<1>3. stop <= n
  <2> HIDE DEF stop
  <2> QED
    BY <1>1, <1>2
<1>4. OnFile[k] > 0 /\ k \in Keys
  BY DEF Saved
<1>5. OnFile = [j \in Keys |->
        IF head = Nil \/ at(j) = {} THEN 0
        ELSE recs[CHOOSE i \in at(j) : \A h \in at(j) : i <= h].n]
  BY DEF OnFile
<1> HIDE DEF stop
<1>6. at(k) # {}
  BY <1>4, <1>5
<1>7. PICK i \in 1..stop : recs[i].key = k
  BY <1>6
<1> QED
  BY <1>1, <1>2, <1>3, <1>7

(* Writing a node writes what it has counted; nobody else writes. *)
LEMMA RecordsCountNext ==
  ASSUME TypeOK, RecordsCount, [Next]_vars
  PROVE  RecordsCount'
<1> USE DEF TypeOK, DataOK
<1>1. CASE UNCHANGED recs
  BY <1>1 DEF RecordsCount
<1>2. ASSUME NEW w \in Workers, Open(w) PROVE RecordsCount'
  BY <1>2 DEF Open, RecordsCount
<1>3. ASSUME NEW w \in Workers, WriteNode(w) PROVE RecordsCount'
  <2>1. PICK k \in Live \ seen[w] : recs' = Put(recs, off[w] + 1, Rec(k))
    BY <1>3 DEF WriteNode
  <2>2. Rec(k) \in Records /\ k \in Keys /\ Rec(k).n > 0
    BY <2>1, RecTyped DEF Live, Rec
  <2> DEFINE i == off[w] + 1
             l == IF i > Len(recs) THEN i ELSE Len(recs)
             r == Rec(k)
  <2>3. i \in Nat \ {0} /\ recs \in Seq(Records) /\ Len(recs) \in Nat
        /\ DOMAIN recs = 1..Len(recs)
    BY DEF Records
  <2> HIDE DEF i
  <2>4. /\ DOMAIN recs' = 1..l
        /\ \A j \in 1..l : recs'[j] = IF j = i THEN Rec(k)
                             ELSE IF j <= Len(recs) THEN recs[j] ELSE Hole
    <3>1. /\ DOMAIN Put(recs, i, r) = 1..l
          /\ \A j \in 1..l : Put(recs, i, r)[j] =
               IF j = i THEN r ELSE IF j <= Len(recs) THEN recs[j] ELSE Hole
      <4>1. r \in Records
        BY <2>2
      <4>2. l = IF i > Len(recs) THEN i ELSE Len(recs)
        OBVIOUS
      <4>3. recs \in Seq(Records) /\ i \in Nat \ {0}
        BY <2>3
      <4> HIDE DEF r, l, TypeOK, DataOK
      <4>4. \A q \in Records : DOMAIN Put(recs, i, q) = 1..l
        BY <4>2, <4>3, PutTyped
      <4>5. \A q \in Records : \A j \in 1..l : Put(recs, i, q)[j] =
               IF j = i THEN q ELSE IF j <= Len(recs) THEN recs[j] ELSE Hole
        BY <4>2, <4>3, PutTyped
      <4> QED
        BY <4>1, <4>4, <4>5
    <3> QED
      BY <2>1, <3>1 DEF i
  <2>5. Hole.key \notin Keys
    BY DumpAssumption DEF Hole
  <2>6. ASSUME NEW j \in 1..l, recs'[j].key \in Keys PROVE recs'[j].n > 0
    <3>1. CASE j = i
      BY <2>2, <2>4, <3>1
    <3>2. CASE j # i
      <4>1. j <= Len(recs) /\ recs'[j] = recs[j]
        BY <2>4, <2>5, <2>6, <3>2
      <4>2. j \in DOMAIN recs
        BY <2>3, <4>1
      <4> QED
        BY <2>6, <4>1, <4>2 DEF RecordsCount
    <3> QED
      BY <3>1, <3>2
  <2> QED
    BY <2>4, <2>6 DEF RecordsCount
<1>4. ASSUME NEW w \in Workers,
             \/ Respawn(w) \/ DumpHandler(w) \/ Kill(w) \/ WalkFaults(w)
             \/ InitWorker(w) \/ RestoreNode(w) \/ RestoreEnd(w) \/ ExitWorker(w)
             \/ LockFile(w) \/ HeaderFails(w) \/ WalkEnd(w)
             \/ \E k \in Keys : Request(w, k) \/ Delete(w, k)
      PROVE  UNCHANGED recs
  BY <1>4 DEF Respawn, DumpHandler, Kill, WalkFaults, InitWorker, RestoreNode,
       RestoreEnd, ExitWorker, LockFile, HeaderFails, WalkEnd, Request, Delete, file
<1>5. CASE Start \/ Stop \/ Tick \/ UNCHANGED vars
  BY <1>1, <1>5 DEF Start, Stop, Tick, vars, file
<1> QED
  BY <1>1, <1>2, <1>3, <1>4, <1>5 DEF Next, Progress

(* Nothing that was in the file is lost from the zone but by a delete or   *)
(* an eviction, which take it out of both.                                 *)
LEMMA OwedKept ==
  ASSUME TypeOK, owed \subseteq Live, [Next]_vars, ~Start
  PROVE  (owed \subseteq Live)'
<1> USE DEF TypeOK, DataOK
<1>1. CASE UNCHANGED <<zone, owed>>
  BY <1>1 DEF Live
<1>2. ASSUME NEW w \in Workers, NEW k \in Keys, Request(w, k)
      PROVE  (owed \subseteq Live)'
  <2>1. PICK K \in SUBSET (Live \ {k}) :
          /\ zone' = [j \in Keys |-> IF j = k THEN zone[k] + 1
                                     ELSE IF j \in K THEN 0 ELSE zone[j]]
          /\ owed' = owed \ K
    BY <1>2 DEF Request
  <2> SUFFICES ASSUME NEW j \in owed' PROVE j \in Live'
    OBVIOUS
  <2>2. j \in Keys /\ j \notin K /\ zone[j] > 0 /\ zone[j] \in Nat /\ zone[k] \in Nat
    BY <2>1 DEF Live
  <2> QED
    BY <2>1, <2>2 DEF Live
<1>3. ASSUME NEW w \in Workers, NEW k \in Keys, Delete(w, k)
      PROVE  (owed \subseteq Live)'
  BY <1>3 DEF Delete, Live
<1>4. ASSUME NEW w \in Workers, RestoreNode(w)
      PROVE  (owed \subseteq Live)'
  <2>1. \/ UNCHANGED zone
        \/ LET r == recs[off[w] + 1] IN
           zone[r.key] = 0 /\ zone' = [zone EXCEPT ![r.key] = r.n]
    BY <1>4 DEF RestoreNode
  <2>2. owed' = owed
    BY <1>4 DEF RestoreNode, history
  <2>3. \A k \in Live : zone'[k] = zone[k]
    BY <2>1 DEF Live
  <2> QED
    BY <2>2, <2>3 DEF Live
<1>5. ASSUME NEW w \in Workers,
             \/ Respawn(w) \/ DumpHandler(w) \/ Kill(w) \/ WalkFaults(w)
             \/ InitWorker(w) \/ RestoreEnd(w) \/ ExitWorker(w) \/ Open(w)
             \/ LockFile(w) \/ HeaderFails(w) \/ WriteNode(w) \/ WalkEnd(w)
      PROVE  UNCHANGED <<zone, owed>>
  BY <1>5 DEF Respawn, DumpHandler, Kill, WalkFaults, InitWorker,
       RestoreEnd, ExitWorker, Open, LockFile, HeaderFails, WriteNode, WalkEnd, history
<1>6. CASE Stop \/ Tick \/ UNCHANGED vars
  BY <1>1, <1>6 DEF Stop, Tick, vars, history
<1> QED
  BY <1>1, <1>2, <1>3, <1>4, <1>5, <1>6 DEF Next, Progress

(* Nobody has served yet: the file stays, workers die or go on restoring.  *)
Restoring ==
  /\ owed \subseteq Saved
  /\ \A w \in Workers : phase[w] \in {"down", "forked", "restore"}
  /\ \A w \in Workers : phase[w] = "restore" => Restored(w)

(* A fresh start owes what is in the file. *)
LEMMA StartRestores ==
  ASSUME TypeOK, Start
  PROVE  Restoring'
<1>1. /\ owed' = Saved /\ UNCHANGED <<head, recs>>
      /\ \A w \in Workers : phase'[w] = "forked"
  BY DEF Start, file
<1>2. Saved' = Saved
  BY <1>1 DEF Saved, OnFile, Readable
<1> QED
  BY <1>1, <1>2 DEF Restoring

(* What a worker reads it puts into the zone. *)
LEMMA ReadRestores ==
  ASSUME TypeOK, TypeOK', RecordsCount, Restoring, NEW w \in Workers, RestoreNode(w)
  PROVE  Restoring'
<1> USE DEF TypeOK, DataOK
<1> DEFINE i == off[w] + 1
           r == recs[i]
<1>1. /\ phase[w] = "restore" /\ Readable(i) /\ off' = [off EXCEPT ![w] = i]
      /\ UNCHANGED <<head, recs, phase, owed>>
      /\ IF zone[r.key] = 0 THEN zone' = [zone EXCEPT ![r.key] = r.n] ELSE zone' = zone
  BY DEF RestoreNode, file, history
<1>2. r.key \in Keys /\ r.n > 0 /\ r.n \in Nat /\ DOMAIN recs = 1..Len(recs)
  <2>1. i \in 1..Len(recs) /\ r.key \in Keys /\ DOMAIN recs = 1..Len(recs)
    BY <1>1 DEF Readable
  <2> HIDE DEF i
  <2>2. recs[i] \in [key : Keys \cup {Nil}, n : Nat]
    <3>1. recs \in Seq([key : Keys \cup {Nil}, n : Nat])
      OBVIOUS
    <3> DEFINE R == [key : Keys \cup {Nil}, n : Nat]
    <3>2. recs \in Seq(R)
      BY <3>1
    <3> HIDE DEF R
    <3>3. recs[i] \in R
      BY <2>1, <3>2
    <3> QED
      BY <3>3 DEF R
  <2>3. r.n > 0 /\ r.n \in Nat
    BY <2>1, <2>2 DEF RecordsCount
  <2> QED
    BY <2>1, <2>3
<1>3. \A k \in Live : k \in Live'
  BY <1>1, <1>2 DEF Live
<1>4. r.key \in Live'
  BY <1>1, <1>2 DEF Live
<1>5. Saved' = Saved
  BY <1>1 DEF Saved, OnFile, Readable
<1>6. ASSUME NEW v \in Workers, phase'[v] = "restore" PROVE Restored(v)'
  <2>1. \A j \in 1..off[v] : Readable(j) /\ recs[j].key \in Live
    BY <1>1, <1>6 DEF Restoring, Restored
  <2>2. off[v] \in Nat /\ off'[v] = IF v = w THEN off[v] + 1 ELSE off[v]
    BY <1>1
  <2>3. \A j \in Nat : Readable(j)' = Readable(j)
    BY <1>1 DEF Readable
  <2> SUFFICES ASSUME NEW j \in 1..off'[v]
               PROVE  Readable(j) /\ recs[j].key \in Live'
    BY <1>1, <2>2, <2>3 DEF Restored
  <2>4. CASE j \in 1..off[v]
    BY <1>3, <2>1, <2>4
  <2>5. CASE j \notin 1..off[v]
    <3>1. v = w /\ j = i
      BY <2>2, <2>5
    <3> QED
      BY <1>1, <1>4, <3>1
  <2> QED
    BY <2>4, <2>5
<1> HIDE DEF i, r
<1> QED
  BY <1>1, <1>5, <1>6 DEF Restoring

(* The first worker that is done has brought all back. *)
LEMMA DoneRestored ==
  ASSUME IsFiniteSet(Keys), Cardinality(Keys) <= Pages, TypeOK, WorkersInv,
         Restoring, NEW w \in Workers, InitWorker(w) \/ RestoreEnd(w)
  PROVE  (owed \subseteq Live)' \/ Restoring'
<1> USE DEF TypeOK, DataOK
<1>1. CASE InitWorker(w)
  <2>1. /\ phase' = [phase EXCEPT ![w] = IF head = Nil THEN "up" ELSE "restore"]
        /\ phase[w] = "forked" /\ UNCHANGED <<zone, head, recs, off, owed>>
    BY <1>1 DEF InitWorker, file, walk, history
  <2>2. CASE head = Nil
    <3>1. Saved = {}
      BY <2>2 DEF Saved, OnFile
    <3> QED
      BY <2>1, <3>1 DEF Restoring
  <2>3. CASE head # Nil
    <3>1. off[w] = 0
      BY <2>1 DEF WorkersInv
    <3>2. Saved' = Saved /\ Live' = Live /\ \A j \in Nat : Readable(j)' = Readable(j)
      BY <2>1 DEF Saved, OnFile, Readable, Live
    <3>3. ASSUME NEW v \in Workers, phase'[v] = "restore" PROVE Restored(v)'
      <4>1. off'[v] = off[v] /\ off[v] \in Nat
        BY <2>1
      <4>2. CASE v = w
        BY <3>1, <4>1, <4>2 DEF Restored
      <4>3. CASE v # w
        <5>1. Restored(v)
          BY <2>1, <3>3, <4>3 DEF Restoring
        <5> QED
          BY <2>1, <3>2, <4>1, <5>1 DEF Restored
      <4> QED
        BY <4>2, <4>3
    <3>4. \A v \in Workers : phase'[v] \in {"down", "forked", "restore"}
      BY <2>1, <2>3 DEF Restoring
    <3> QED
      BY <2>1, <3>2, <3>3, <3>4 DEF Restoring
  <2> QED
    BY <2>2, <2>3
<1>2. CASE RestoreEnd(w)
  <2>1. /\ phase[w] = "restore" /\ UNCHANGED <<zone, owed>>
        /\ Readable(off[w] + 1) =>
             zone[recs[off[w] + 1].key] = 0 /\ Cardinality(Live) >= Pages
    BY <1>2 DEF RestoreEnd, history
  <2>2. ~Readable(off[w] + 1)
    <3> SUFFICES ASSUME Readable(off[w] + 1) PROVE FALSE
      OBVIOUS
    <3>1. Cardinality(Live) >= Pages /\ recs[off[w] + 1].key \in Keys \ Live
      BY <2>1 DEF Readable, Live
    <3>2. Live \in SUBSET Keys
      BY DEF Live
    <3>3. /\ Cardinality(Live) \in Nat /\ Cardinality(Keys) \in Nat /\ Pages \in Nat
          /\ Cardinality(Live) <= Cardinality(Keys)
          /\ Cardinality(Keys) = Cardinality(Live) => Keys = Live
      BY <3>2, FS_Subset, FS_CardinalityType, DumpAssumption
    <3> QED
      BY <3>1, <3>3
  <2>3. \A i \in 1..off[w] : recs[i].key \in Live
    BY <2>1 DEF Restoring, Restored
  <2>4. off[w] \in Nat
    OBVIOUS
  <2>5. Saved \subseteq Live
    BY <2>2, <2>3, <2>4, SavedRead
  <2> QED
    BY <2>1, <2>5 DEF Restoring, Live
<1> QED
  BY <1>1, <1>2

(* Until then nothing else can happen than kills and forks. *)
LEMMA StillRestoring ==
  ASSUME IsFiniteSet(Keys), Cardinality(Keys) <= Pages, TypeOK, TypeOK', WorkersInv,
         RecordsCount, Restoring, [Next]_vars
  PROVE  (owed \subseteq Live)' \/ Restoring'
<1> USE DEF TypeOK, DataOK
<1>1. CASE Start
  BY <1>1, StartRestores
<1>2. ASSUME NEW w \in Workers, RestoreNode(w) PROVE Restoring'
  BY <1>2, ReadRestores
<1>3. ASSUME NEW w \in Workers, InitWorker(w) \/ RestoreEnd(w)
      PROVE  (owed \subseteq Live)' \/ Restoring'
  BY <1>3, DoneRestored
<1>4. ASSUME UNCHANGED <<head, recs, zone, owed>>,
             \A v \in Workers :
               \/ phase'[v] \in {"down", "forked"}
               \/ phase'[v] = phase[v] /\ off'[v] = off[v]
      PROVE  Restoring'
  <2>1. Saved' = Saved /\ Live' = Live /\ \A j \in Nat : Readable(j)' = Readable(j)
    BY <1>4 DEF Saved, OnFile, Readable, Live
  <2>2. ASSUME NEW v \in Workers, phase'[v] = "restore" PROVE Restored(v)'
    <3>1. Restored(v) /\ off'[v] = off[v] /\ off[v] \in Nat
      BY <1>4, <2>2 DEF Restoring
    <3> QED
      BY <1>4, <2>1, <3>1 DEF Restored
  <2> QED
    BY <1>4, <2>1, <2>2 DEF Restoring
<1>5. ASSUME NEW w \in Workers, Kill(w) \/ Respawn(w) PROVE Restoring'
  <2>1. /\ UNCHANGED <<head, recs, zone, owed>>
        /\ \A v \in Workers :
             \/ phase'[v] \in {"down", "forked"}
             \/ phase'[v] = phase[v] /\ off'[v] = off[v]
    BY <1>5 DEF Kill, Die, Respawn, file, walk, history
  <2> QED
    BY <1>4, <2>1
<1>6. CASE Stop \/ Tick \/ UNCHANGED vars
  <2>1. UNCHANGED <<head, recs, zone, owed, phase, off>>
    BY <1>6 DEF Stop, Tick, vars, file, walk, history
  <2> QED
    BY <1>4, <2>1
<1>7. ASSUME NEW w \in Workers,
             \/ DumpHandler(w) \/ WalkFaults(w) \/ ExitWorker(w) \/ Open(w)
             \/ LockFile(w) \/ HeaderFails(w) \/ WriteNode(w) \/ WalkEnd(w)
             \/ \E k \in Keys : Request(w, k) \/ Delete(w, k)
      PROVE  FALSE
  <2>1. phase[w] \in {"up", "due", "open", "walk"}
    BY <1>7 DEF DumpHandler, WalkFaults, ExitWorker, Open, LockFile, HeaderFails,
         WriteNode, WalkEnd, Request, Delete
  <2> QED
    BY <2>1 DEF Restoring
<1> QED
  BY <1>1, <1>2, <1>3, <1>5, <1>6, <1>7 DEF Next, Progress

(* Every step. *)
LEMMA RestoreNext ==
  ASSUME IsFiniteSet(Keys), Cardinality(Keys) <= Pages, TypeOK, TypeOK', WorkersInv,
         RestoreInv, [Next]_vars
  PROVE  RestoreInv'
<1>1. RestoreInv <=> RecordsCount /\ (owed \subseteq Live \/ Restoring)
  BY DEF RestoreInv, Restoring
<1>2. RestoreInv' <=> RecordsCount' /\ ((owed \subseteq Live)' \/ Restoring')
  BY DEF RestoreInv, Restoring
<1>3. RecordsCount'
  BY <1>1, RecordsCountNext
<1>4. CASE Restoring
  BY <1>1, <1>2, <1>3, <1>4, StillRestoring
<1>5. CASE owed \subseteq Live
  BY <1>2, <1>3, <1>5, OwedKept, StartRestores
<1> QED
  BY <1>1, <1>4, <1>5

(* In a zone with room for every key, whoever serves finds every zone of   *)
(* the file restored, but for those deleted or evicted since: for any      *)
(* number of workers, kills, restarts and lengths of keys, also when the   *)
(* file is truncated under a worker that still reads it (dump_restore).    *)
THEOREM Restores ==
  ASSUME IsFiniteSet(Keys), Cardinality(Keys) <= Pages
  PROVE  Spec => []RestoreComplete
<1>1. Init => RestoreInv
  BY DEF Init, RestoreInv, RecordsCount
<1>2. RestoreInv /\ IInv /\ IInv' /\ [Next]_vars => RestoreInv'
  BY RestoreNext DEF IInv
<1>3. RestoreInv => RestoreComplete
  BY DEF RestoreInv, RestoreComplete
<1> QED
  BY <1>1, <1>2, <1>3, Invariant, PTL DEF Spec
=============================================================================
