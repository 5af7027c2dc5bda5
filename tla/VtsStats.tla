------------------------------ MODULE VtsStats ------------------------------
(***************************************************************************)
(* What the traffic-status zone of nginx-module-vts promises its readers:  *)
(* one counter per key, whatever worker logged the request and through     *)
(* whatever cached pointer.  There are no slab pages, no tree, no mutex    *)
(* and no caches here; VtsShm is shown to implement this module.           *)
(***************************************************************************)
EXTENDS Naturals, FiniteSets

CONSTANTS
  Keys,             (* node keys: group prefix and zone name                *)
  Limited,          (* filter keys that filter_max_node counts              *)
  filter_max_node   (* bound on them, 0 when the directive is absent        *)

VARIABLES
  stat,             (* stat[k] is Absent or what is shown for zone k        *)
  command,          (* the operator's command in progress, or "none"        *)
  now               (* wall clock, only compared                            *)

statsVars == <<stat, command, now>>

(* A zone nobody has requested since the last delete or eviction. *)
Absent == [live |-> FALSE, reqs |-> 0, last |-> 0]

Shown(n, t) == [live |-> TRUE, reqs |-> n, last |-> t]

Live == {k \in Keys : stat[k].live}

StatsTypeOK ==
  /\ stat \in [Keys -> [live : BOOLEAN, reqs : Nat, last : Nat]]
  /\ command \in {"none", "delete", "reset"}
  /\ now \in Nat

StatsInit ==
  /\ stat = [k \in Keys |-> Absent]
  /\ command = "none"
  /\ now = 0

(* A request to a zone that is shown adds exactly one to that zone alone,  *)
(* and never in the middle of a command.                                   *)
Count(k) ==
  /\ command = "none" /\ stat[k].live
  /\ stat' = [stat EXCEPT ![k] = Shown(@.reqs + 1, now)]
  /\ UNCHANGED <<command, now>>

(* The first request since the zone was last deleted shows it with one. *)
Create(k) ==
  /\ command = "none" /\ ~stat[k].live
  /\ filter_max_node > 0 /\ k \in Limited =>
       Cardinality(Live \cap Limited) < filter_max_node
  /\ stat' = [stat EXCEPT ![k] = Shown(1, now)]
  /\ UNCHANGED <<command, now>>

(* Only when the limit is reached is a zone dropped, and only the limited  *)
(* zone that has gone without a request for longest.                       *)
EvictLru(k) ==
  /\ command = "none" /\ filter_max_node > 0
  /\ k \in Live \cap Limited
  /\ Cardinality(Live \cap Limited) >= filter_max_node
  /\ \A j \in Live \cap Limited : stat[k].last <= stat[j].last
  /\ stat' = [stat EXCEPT ![k] = Absent]
  /\ UNCHANGED <<command, now>>

(* An operator's command: it deletes or resets zones one by one, or stops  *)
(* short when its worker is killed.                                        *)
Begin(cmd) ==
  /\ command = "none"
  /\ command' = cmd
  /\ UNCHANGED <<stat, now>>

Delete(k) ==
  /\ command = "delete" /\ stat[k].live
  /\ stat' = [stat EXCEPT ![k] = Absent]
  /\ UNCHANGED <<command, now>>

Reset(k) ==
  /\ command = "reset" /\ stat[k].live
  /\ stat' = [stat EXCEPT ![k] = Shown(0, @.last)]
  /\ UNCHANGED <<command, now>>

End ==
  /\ command' = "none"
  /\ UNCHANGED <<stat, now>>

Tick == now' = now + 1 /\ UNCHANGED <<stat, command>>

StatsNext ==
  \/ \E k \in Keys :
       Count(k) \/ Create(k) \/ EvictLru(k) \/ Delete(k) \/ Reset(k)
  \/ Begin("delete") \/ Begin("reset") \/ End \/ Tick

StatsSpec == StatsInit /\ [][StatsNext]_statsVars
=============================================================================
