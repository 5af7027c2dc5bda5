------------------------------ MODULE VtsRequest ------------------------------
(***************************************************************************)
(* A request on its way through nginx-module-vts: limit_handler in the     *)
(* preaccess phase compares the counters of the shared zone with the       *)
(* limits in force, and handler in the log phase counts the request, also  *)
(* a refused one, in the nodes of its server, upstream, filters and cache. *)
(* Requests of all workers interleave between these critical sections, and *)
(* with the control commands; a worker can be killed between any two.      *)
(*                                                                         *)
(* The zone is the one VtsStats shows: a counter per key, no pages and no  *)
(* cached pointers.  An eviction is a delete by somebody else.  Keys are   *)
(* sequences of characters, with "US" for the separator (VtsName).         *)
(***************************************************************************)
EXTENDS VtsConf, FiniteSetsExt

CONSTANTS
  Conns,            (* requests in flight, over all workers                 *)
  Requests,         (* what can be asked: [block, host, vars, upstream,     *)
                    (* cache, status]                                       *)
  Keys,             (* keys of nodes                                        *)
  server_name,      (* of the server, <<>> for ""                           *)
  Options,          (* Options[b]: flags that are on in block b             *)
  Ranges,           (* arguments <<group, zone>> of control commands, the   *)
                    (* zone as it is written                                *)
  Restored,         (* sets of keys a dump can restore, each counted once   *)
  MaxRequests,      (* bound: requests taken                                *)
  MaxCommands       (* bound: control commands                              *)

Types == {"NO", "UA", "UG", "CC", "FG"}

(* ngx_http_complex_value: constants stand for themselves. *)
Value(e, r) ==
  FlattenSeq([i \in DOMAIN e |->
    IF e[i] \in DOMAIN r.vars THEN r.vars[e[i]] ELSE <<e[i]>>])

(* The arrays of limits. *)
Limits == {"limit_traffics", "limit_filter_traffics"}

(* A limit has a size and a code; no variable is called "request".         *)
ASSUME RequestAssumption ==
  /\ IsFiniteSet(Conns)
  /\ \A f \in Files :
       /\ \A a \in Limits : \A d \in Directives(f, a) :
            d.size \in Nat /\ d.code \in Nat \ {0}
       /\ \A d \in Directives(f, "limit_traffics") : d.key = <<>>
  /\ \A r \in Requests :
       /\ r.block \in {"server", "location"}
       /\ Value(<<"request">>, r) = <<"request">>

VARIABLES
  pc,               (* where request c is                                   *)
  req,              (* req[c]: the request                                  *)
  gate,             (* gate[c]: arrays of limits it has passed              *)
  code,             (* code[c]: the code it was refused with, or 0          *)
  todo,             (* todo[c]: nodes still to count it in                  *)
  live,             (* keys that have a node                                *)
  stat_request_counter, stat_5xx_counter,
  taken, commands,  (* requests taken and commands run so far               *)
  due,              (* history, due[k]: counts owed to the node of k since  *)
                    (* it was restored, deleted or reset                    *)
  served            (* history, served[b][k]: requests of block b counted   *)
                    (* in server zone k and not refused, since then         *)

flight == <<pc, req, gate, code, todo>>
counters == <<live, stat_request_counter, stat_5xx_counter>>
vars == <<confVars, flight, counters, taken, commands, due, served>>
-----------------------------------------------------------------------------
(* Keys *)

node_generate_key(type, dst) == <<type, "US">> \o dst

find_name(r) ==
  IF {"filter", "filter_host"} \subseteq Options[r.block] /\ r.host # <<>>
    THEN r.host
    ELSE IF server_name = <<>> THEN <<"_">> ELSE server_name

ServerKey(r) == node_generate_key("NO", find_name(r))

(* shm_add_filter_node: the key filter d counts the request under, or <<>>.*)
filter_node(d, r) ==
  LET key == Value(d.key, r)
      name == Value(d.name, r)
  IN  CASE key = <<>> -> <<>>
        [] key # <<>> /\ name = <<>> -> node_generate_key("NO", key)
        [] key # <<>> /\ name # <<>> ->
             node_generate_key("FG", name \o <<"US">> \o key)

(* Mutant: the name of the filter is left out of its key. *)
shm_add_filter_node_NoName(filters, r) ==
  LET index == InOrder({i \in DOMAIN filters : Value(filters[i].key, r) # <<>>},
                       Len(filters))
  IN  [j \in DOMAIN index |->
         node_generate_key("FG", Value(filters[index[j]].key, r))]

shm_add_filter_node(filters, r) ==
  LET index == InOrder({i \in DOMAIN filters : filter_node(filters[i], r) # <<>>},
                       Len(filters))
  IN  [j \in DOMAIN index |-> filter_node(filters[index[j]], r)]

(* shm_add_upstream: a refused request has reached no peer.  r.upstream is *)
(* [host, peer], with an empty host when the peer belongs to no upstream   *)
(* block (uscf->port), or <<>>.                                            *)
shm_add_upstream(r, refused) ==
  CASE refused \/ r.upstream = <<>> -> <<>>
    [] ~refused /\ r.upstream # <<>> /\ r.upstream[1] = <<>> ->
         <<node_generate_key("UA", r.upstream[2])>>
    [] OTHER ->
         <<node_generate_key("UG", r.upstream[1] \o <<"US">> \o r.upstream[2])>>

shm_add_cache(r, refused) ==
  IF refused \/ r.cache = <<>> THEN <<>>
                               ELSE <<node_generate_key("CC", r.cache)>>

(* Keys has all that a request can be counted under and a dump, which is   *)
(* finite, restore.                                                        *)
ASSUME KeyAssumption ==
  /\ <<>> \notin Keys
  /\ \A S \in Restored : S \subseteq Keys /\ IsFiniteSet(S)
  /\ \A r \in Requests :
       /\ ServerKey(r) \in Keys
       /\ Range(shm_add_upstream(r, FALSE)) \subseteq Keys
       /\ Range(shm_add_cache(r, FALSE)) \subseteq Keys
       /\ \A f \in Files : \A d \in Directives(f, "filter_keys") :
            filter_node(d, r) \in Keys \cup {<<>>}

(* Whether handler counts anything in block b. *)
Counting(b) == "enable" \in Options[b] /\ "bypass_stats" \notin Options[b]

(* Mutant: the filters of the http block are not counted. *)
handler_NoHttp(r, refused) ==
  shm_add_upstream(r, refused)
  \o (IF "filter" \notin Options[r.block] THEN <<>>
      ELSE shm_add_filter_node(conf[r.block]["filter_keys"], r))
  \o shm_add_cache(r, refused)

(* The nodes after that of the server in which handler counts a request.   *)
handler(r, refused) ==
  shm_add_upstream(r, refused)
  \o (IF "filter" \notin Options[r.block] THEN <<>>
      ELSE shm_add_filter_node(conf["http"]["filter_keys"], r)
           \o shm_add_filter_node(conf[r.block]["filter_keys"], r))
  \o shm_add_cache(r, refused)
-----------------------------------------------------------------------------
(* Limits *)

(* A member that is not known counts 0. *)
node_member(k, member) ==
  CASE member = <<"request">> -> stat_request_counter[k]
    [] member = <<"5xx">> -> stat_5xx_counter[k]
    [] OTHER -> 0

LimitKey(d, r) == IF d.key = <<>> THEN ServerKey(r) ELSE Value(d.key, r)

(* Mutant: one more than the limit is let through. *)
Exceeded_Late(d, r) ==
  LET member == Value(d.variable, r)
      k == LimitKey(d, r)
  IN  member # <<>> /\ k \in live /\ node_member(k, member) > d.size + 1

Exceeded(d, r) ==
  LET member == Value(d.variable, r)
      k == LimitKey(d, r)
  IN  member # <<>> /\ k \in live /\ node_member(k, member) > d.size

(* The code of the first limit that is exceeded, 0 (NGX_DECLINED) if none. *)
limit_handler_traffic(limits, r) ==
  LET over == {i \in DOMAIN limits : Exceeded(limits[i], r)}
  IN  IF over = {} THEN 0 ELSE limits[Min(over)].code

limit_handler(b) ==
  <<conf["http"]["limit_traffics"], conf[b]["limit_traffics"],
    conf["http"]["limit_filter_traffics"], conf[b]["limit_filter_traffics"]>>

(* Whether limit_handler looks at any limit. *)
Limiting(b) == "limit" \in Options[b] /\ "bypass_limit" \notin Options[b]
-----------------------------------------------------------------------------
Init ==
  /\ ConfInit
  /\ pc = [c \in Conns |-> "idle"]
  /\ req = [c \in Conns |-> <<>>]
  /\ gate = [c \in Conns |-> 0]
  /\ code = [c \in Conns |-> 0]
  /\ todo = [c \in Conns |-> <<>>]
  /\ live \in Restored
  /\ stat_request_counter = [k \in Keys |-> IF k \in live THEN 1 ELSE 0]
  /\ stat_5xx_counter = [k \in Keys |-> 0]
  /\ taken = 0 /\ commands = 0
  /\ due = stat_request_counter
  /\ served = [b \in Blocks |-> [k \in Keys |-> 0]]

Configure == ConfNext /\ UNCHANGED <<flight, counters, taken, commands, due, served>>

Take(c, r) ==
  /\ stage = "serve" /\ pc[c] = "idle" /\ taken < MaxRequests
  /\ taken' = taken + 1
  /\ pc' = [pc EXCEPT ![c] = IF Limiting(r.block) THEN "limit" ELSE "serve"]
  /\ req' = [req EXCEPT ![c] = r]
  /\ UNCHANGED <<confVars, gate, code, todo, counters, commands, due, served>>

(* limit_handler_traffic on the next of the four arrays, under the mutex. *)
LimitHandler(c) ==
  LET limits == limit_handler(req[c].block)[gate[c] + 1]
      rc == limit_handler_traffic(limits, req[c])
  IN
  /\ pc[c] = "limit"
  /\ gate' = [gate EXCEPT ![c] = @ + 1]
  /\ code' = [code EXCEPT ![c] = rc]
  /\ pc' = [pc EXCEPT ![c] = IF rc = 0 /\ gate'[c] < 4 THEN "limit"
                                                       ELSE "serve"]
  /\ UNCHANGED <<confVars, req, todo, counters, taken, commands, due, served>>

(* The filters that the file puts in force in block b, of equal ones the   *)
(* first, and the nodes they count request r in.                           *)
FiltersOwed(b, r) ==
  LET w == Intended(b, "filter_keys")
      first(n) == \A j \in 1 .. n - 1 : Text(w[j]) # Text(w[n])
      counts == {n \in DOMAIN w : Dropping(b, "filter_keys") => first(n)}
  IN  {<<<<b, n>>, filter_node(w[n], r)>> : n \in counts}

(* What a request owes by the configuration file alone: what for, to whom. *)
Owed(r, refused) ==
  IF ~Counting(r.block) THEN {}
  ELSE {<<<<"server", 0>>, ServerKey(r)>>}
    \cup {<<<<"upstream", 0>>, k>> : k \in Range(shm_add_upstream(r, refused))}
    \cup {<<<<"cache", 0>>, k>> : k \in Range(shm_add_cache(r, refused))}
    \cup IF "filter" \notin Options[r.block] THEN {}
         ELSE FiltersOwed("http", r) \cup FiltersOwed(r.block, r)

(* The request is served, or its refusal is sent; the log phase begins.    *)
Handler(c) ==
  /\ pc[c] = "serve"
  /\ pc' = [pc EXCEPT ![c] = IF Counting(req[c].block) THEN "log" ELSE "done"]
  /\ todo' = [todo EXCEPT ![c] =
       IF Counting(req[c].block) THEN handler(req[c], code[c] # 0) ELSE <<>>]
  /\ LET owed == Owed(req[c], code[c] # 0)
     IN  due' = [k \in Keys |-> due[k] + Cardinality({x \in owed : x[2] = k})]
  /\ UNCHANGED <<confVars, req, gate, code, counters, taken, commands, served>>

(* shm_add_node: node_init of a new node counts the request too. *)
shm_add_node(k, error) ==
  LET n == IF k \in live THEN stat_request_counter[k] ELSE 0
      e == IF k \in live THEN stat_5xx_counter[k] ELSE 0
  IN  /\ live' = live \cup {k}
      /\ stat_request_counter' = [stat_request_counter EXCEPT ![k] = n + 1]
      /\ stat_5xx_counter' =
           [stat_5xx_counter EXCEPT ![k] = IF error THEN e + 1 ELSE e]

IsError(c) == IF code[c] # 0 THEN code[c] >= 500 ELSE req[c].status >= 500

(* shm_add_server *)
AddServer(c) ==
  LET k == ServerKey(req[c]) IN
  /\ pc[c] = "log"
  /\ shm_add_node(k, IsError(c))
  /\ pc' = [pc EXCEPT ![c] = "done"]
  /\ served' = [served EXCEPT ![req[c].block][k] =
                  IF code[c] = 0 THEN @ + 1 ELSE @]
  /\ UNCHANGED <<confVars, req, gate, code, todo, taken, commands, due>>

(* shm_add_upstream, shm_add_filter, shm_add_cache: the next node. *)
AddNode(c) ==
  /\ pc[c] = "done" /\ todo[c] # <<>>
  /\ shm_add_node(Head(todo[c]), IsError(c))
  /\ todo' = [todo EXCEPT ![c] = Tail(@)]
  /\ UNCHANGED <<confVars, pc, req, gate, code, taken, commands, due, served>>

Forget(c) ==
  /\ pc' = [pc EXCEPT ![c] = "idle"]
  /\ req' = [req EXCEPT ![c] = <<>>]
  /\ gate' = [gate EXCEPT ![c] = 0]
  /\ code' = [code EXCEPT ![c] = 0]
  /\ todo' = [todo EXCEPT ![c] = <<>>]

End(c) ==
  /\ pc[c] = "done" /\ todo[c] = <<>>
  /\ Forget(c)
  /\ UNCHANGED <<confVars, counters, taken, commands, due, served>>

(* The times a request has still to count itself in the node of k. *)
Still(c, k) ==
  {i \in {0} : pc[c] = "log" /\ ServerKey(req[c]) = k}
    \cup {i \in DOMAIN todo[c] : todo[c][i] = k}
Outstanding(k) == Cardinality(UNION {{c} \X Still(c, k) : c \in Conns})

(* The worker is killed: what its request has not counted is lost. *)
Crash(c) ==
  /\ pc[c] # "idle"
  /\ Forget(c)
  /\ due' = [k \in Keys |-> due[k] - Cardinality(Still(c, k))]
  /\ UNCHANGED <<confVars, counters, taken, commands, served>>
-----------------------------------------------------------------------------
(* Control commands *)

(* Mutant: zone=* is taken for the name of a zone. *)
range_set_NoGroup(group, zone) ==
  CASE group = "*" -> "all"
    [] group # "*" /\ zone = <<>> -> "none"
    [] OTHER -> "zone"

range_set(group, zone) ==
  CASE group = "*" -> "all"
    [] group # "*" /\ zone = <<>> -> "none"
    [] group # "*" /\ zone = <<"*">> -> "group"
    [] OTHER -> "zone"

(* node_delete_get_nodes, node_lookup: the nodes of a range. *)
Nodes(group, zone) ==
  LET range == range_set(group, zone) IN
  CASE range = "all" -> live
    [] range = "none" -> {}
    [] range = "group" -> {k \in live : k[1] = group}
    [] range = "zone" -> live \cap {node_generate_key(group, zone)}

Zeroed(S) ==
  /\ stat_request_counter' =
       [k \in Keys |-> IF k \in S THEN 0 ELSE stat_request_counter[k]]
  /\ stat_5xx_counter' =
       [k \in Keys |-> IF k \in S THEN 0 ELSE stat_5xx_counter[k]]
  /\ due' = [k \in Keys |-> IF k \in S THEN Outstanding(k) ELSE due[k]]
  /\ served' = [b \in Blocks |->
       [k \in Keys |-> IF k \in S THEN 0 ELSE served[b][k]]]

node_delete(group, zone) ==
  /\ stage = "serve" /\ commands < MaxCommands
  /\ Nodes(group, zone) # {}
  /\ commands' = commands + 1
  /\ live' = live \ Nodes(group, zone)
  /\ Zeroed(Nodes(group, zone))
  /\ UNCHANGED <<confVars, flight, taken>>

node_reset(group, zone) ==
  /\ stage = "serve" /\ commands < MaxCommands
  /\ Nodes(group, zone) # {}
  /\ commands' = commands + 1
  /\ Zeroed(Nodes(group, zone))
  /\ UNCHANGED <<confVars, flight, taken, live>>

(* display_handler_control: the arguments as they are read. *)
Commands == {<<range[1], control_zone(range[2])>> : range \in Ranges}

Next ==
  \/ Configure
  \/ \E c \in Conns :
       \/ \E r \in Requests : Take(c, r)
       \/ LimitHandler(c) \/ Handler(c)
       \/ AddServer(c) \/ AddNode(c) \/ End(c)
       \/ Crash(c)
  \/ \E range \in Commands :
       node_delete(range[1], range[2]) \/ node_reset(range[1], range[2])

Spec == Init /\ [][Next]_vars
-----------------------------------------------------------------------------
(* Properties *)

(* Counts are never negative, and keys are those of configured nodes. *)
TypeOK ==
  /\ pc \in [Conns -> {"idle", "limit", "serve", "log", "done"}]
  /\ req \in [Conns -> Requests \cup {<<>>}]
  /\ gate \in [Conns -> 0 .. 4] /\ code \in [Conns -> Nat]
  /\ todo \in [Conns -> Seq(Keys)]
  /\ live \subseteq Keys
  /\ stat_request_counter \in [Keys -> Nat]
  /\ stat_5xx_counter \in [Keys -> Nat]
  /\ taken \in Nat /\ commands \in Nat
  /\ due \in [Keys -> Nat]
  /\ served \in [Blocks -> [Keys -> Nat]]

(* Every request is counted once for its server, once for its peer, once   *)
(* for its cache and once for each different filter that the file puts in  *)
(* force for it, whether it was refused or not and however requests,       *)
(* deletes, resets and kills interleave; nothing else is counted.          *)
CountsOwed ==
  \A k \in Keys : stat_request_counter[k] + Outstanding(k) = due[k]

(* How far a limit on the requests of a server can be passed: the request  *)
(* that reaches the limit is let through, and so are those that other      *)
(* connections had taken past limit_handler before they were counted.      *)
LimitOvershoot ==
  \A b \in {"server", "location"} :
    Limiting(b) /\ stage = "serve" =>
      \A l \in Range(conf["http"]["limit_traffics"])
               \cup Range(conf[b]["limit_traffics"]) :
        l.variable = <<"request">> =>
          \A k \in Keys : served[b][k] <= l.size + Cardinality(Conns)
-----------------------------------------------------------------------------
(* The inductive invariant behind LimitOvershoot *)

(* Requests of block b and server zone k that are past array j of limits   *)
(* and not counted yet.                                                    *)
Past(b, k, j) ==
  {c \in Conns : /\ pc[c] \in {"limit", "serve", "log"}
                 /\ gate[c] >= j /\ code[c] = 0
                 /\ req[c].block = b /\ ServerKey(req[c]) = k}

PathInv ==
  /\ DOMAIN pc = Conns /\ DOMAIN req = Conns /\ DOMAIN code = Conns
  /\ gate \in [Conns -> Nat]
  /\ \A c \in Conns :
       /\ pc[c] = "idle" => gate[c] = 0 /\ code[c] = 0
       /\ pc[c] # "idle" => req[c] \in Requests /\ stage = "serve"
       /\ pc[c] \in {"serve", "log"} /\ code[c] = 0 /\ Limiting(req[c].block)
            => gate[c] = 4
       /\ pc[c] = "limit" => gate[c] < 4 /\ code[c] = 0

CountInv ==
  /\ stat_request_counter \in [Keys -> Nat]
  /\ served \in [Blocks -> [Keys -> Nat]]
  /\ \A k \in Keys :
       /\ k \notin live => stat_request_counter[k] = 0
       /\ \A b \in Blocks :
            /\ served[b][k] <= stat_request_counter[k]
            /\ stage # "serve" => served[b][k] = 0

(* What has been served and what may still be. *)
RoomInv ==
  \A b \in {"server", "location"}, j \in {1, 2}, k \in Keys :
    Limiting(b) /\ stage = "serve" =>
      \A l \in Range(limit_handler(b)[j]) :
        l.variable = <<"request">> =>
          served[b][k] + Cardinality(Past(b, k, j)) <= l.size + Cardinality(Conns)

IInv == PathInv /\ CountInv /\ RoomInv

(* The inductive invariant behind CountsOwed: besides the counts, that a   *)
(* request has nothing to be counted in before its log phase.              *)
TodoInv == \A c \in Conns : pc[c] \notin {"log", "done"} => todo[c] = <<>>

OwedInv == TypeOK /\ CountsOwed /\ TodoInv
=============================================================================
