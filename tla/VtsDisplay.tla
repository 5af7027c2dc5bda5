------------------------------ MODULE VtsDisplay ------------------------------
(***************************************************************************)
(* What the nodes of the zone are shown as: the JSON of the status page,   *)
(* which walks the tree for servers, filters and caches but the upstreams  *)
(* of the configuration for their peers; the Prometheus page, which walks  *)
(* the tree for all of them; control?cmd=status of a group or a zone; and  *)
(* the variables of vhost_traffic_status_set_by_filter.  They look the     *)
(* same node up on different ways and ought to agree.                      *)
(*                                                                         *)
(* A page is the sequence of its entries [zone, group, name, node], with   *)
(* <<>> for the group of zones without one and for the node of a peer      *)
(* that has none (it is shown with zeros).                                 *)
(***************************************************************************)
EXTENDS VtsRequest

CONSTANT
  Upstreams         (* umcf->upstreams: [host, port, zone, peers, servers]  *)
                    (* with port and zone (shm_zone) as Booleans, peers the *)
                    (* primary peers in the zone, a server [addrs, backup]  *)

(* The name of an upstream is its own; a server has an address; and nginx  *)
(* refuses an upstream block without servers, the only one with a zone.    *)
ASSUME UpstreamAssumption ==
  /\ Upstreams \in Seq([host : Seq(Chars), port : BOOLEAN, zone : BOOLEAN,
                        peers : Seq(Seq(Chars)),
                        servers : Seq([addrs : Seq(Seq(Chars)), backup : BOOLEAN])])
  /\ \A i \in DOMAIN Upstreams :
       /\ Upstreams[i].zone => Upstreams[i].servers # <<>>
       /\ \A j \in DOMAIN Upstreams[i].servers : Upstreams[i].servers[j].addrs # <<>>
  /\ \A i, j \in DOMAIN Upstreams :
       Upstreams[i].host = Upstreams[j].host => i = j

(* The entries of s at the positions in S. *)
Chosen(s, S) ==
  LET index == InOrder(S, Len(s)) IN [j \in DOMAIN index |-> s[index[j]]]

(* Part pos of a key, counted from 0; <<>> if there is none. *)
node_position_key(key, pos) ==
  LET seps == {i \in DOMAIN key : key[i] = "US"}
      before(i) == Cardinality({j \in seps : j < i})
  IN  Chosen(key, {i \in DOMAIN key \ seps : before(i) = pos})

Entry(zone, group, name, node) ==
  [zone |-> zone, group |-> group, name |-> name, node |-> node]

(* The nodes of some types in the order of a walk through the tree. *)
OfType(walk, types) == Chosen(walk, {i \in DOMAIN walk : walk[i][1] \in types})

Shown(walk, types, E(_)) ==
  LET nodes == OfType(walk, types)
  IN  [i \in DOMAIN nodes |-> E(nodes[i])]
-----------------------------------------------------------------------------
(* JSON *)

display_set_server_node(k) == Entry("server", <<>>, node_position_key(k, 1), k)
display_set_filter_node(k) ==
  Entry("filter", node_position_key(k, 1), node_position_key(k, 2), k)
display_set_cache_node(k) == Entry("cache", <<>>, node_position_key(k, 1), k)

display_set_server(walk) == Shown(walk, {"NO"}, display_set_server_node)
display_set_cache(walk) == Shown(walk, {"CC"}, display_set_cache_node)

(* Mutant: the names are not sorted. *)
filter_get_keys_Unsorted(walk) ==
  LET nodes == OfType(walk, {"FG"})
  IN  [i \in DOMAIN nodes |-> node_position_key(nodes[i], 1)]

(* The names of the filters, sorted by strcmp: equal ones are adjacent. *)
filter_get_keys(walk) ==
  LET nodes == OfType(walk, {"FG"})
      names == [i \in DOMAIN nodes |-> node_position_key(nodes[i], 1)]
      order == SetToSeq(Range(names))
      same(n) == {i \in DOMAIN names : names[i] = n}
  IN  FlattenSeq([i \in DOMAIN order |-> Chosen(names, same(order[i]))])

filter_get_nodes(walk, name) ==
  LET nodes == OfType(walk, {"FG"})
  IN  Chosen(nodes, {i \in DOMAIN nodes : node_position_key(nodes[i], 1) = name})

(* Each name that differs from the one before opens an object. *)
display_set_filter(walk) ==
  LET keys == filter_get_keys(walk)
      object(i) ==
        IF i > 1 /\ keys[i] = keys[i - 1] THEN <<>>
        ELSE LET nodes == filter_get_nodes(walk, keys[i])
             IN  [j \in DOMAIN nodes |-> display_set_filter_node(nodes[j])]
  IN  FlattenSeq([i \in DOMAIN keys |-> object(i)])

display_set_upstream_alone(walk) ==
  Shown(walk, {"UA"}, LAMBDA k :
    Entry("upstream", <<"::nogroups">>, node_position_key(k, 1), k))

(* The peers of a group: those in its zone and its backup servers, or all  *)
(* addresses of all its servers.                                           *)
PeersShown(u) ==
  (IF u.zone THEN u.peers ELSE <<>>)
  \o FlattenSeq([i \in DOMAIN u.servers |->
       IF u.zone /\ ~u.servers[i].backup THEN <<>> ELSE u.servers[i].addrs])

display_set_upstream_node(host, name) ==
  LET k == node_generate_key("UG", host \o <<"US">> \o name)
  IN  Entry("upstream", host, name, IF k \in live THEN k ELSE <<>>)

display_set_upstream_group(walk) ==
  LET group(u) ==
        IF u.port \/ u.servers = <<>> THEN <<>>
        ELSE LET names == PeersShown(u)
             IN  [i \in DOMAIN names |-> display_set_upstream_node(u.host, names[i])]
  IN  FlattenSeq([i \in DOMAIN Upstreams |-> group(Upstreams[i])])
      \o display_set_upstream_alone(walk)

display_set(walk) ==
  display_set_server(walk) \o display_set_filter(walk)
  \o display_set_upstream_group(walk) \o display_set_cache(walk)
-----------------------------------------------------------------------------
(* Prometheus *)

display_prometheus_set_upstream_node(k) ==
  IF k[1] = "UG"
    THEN Entry("upstream", node_position_key(k, 1), node_position_key(k, 2), k)
    ELSE Entry("upstream", <<"::nogroups">>, node_position_key(k, 1), k)

display_prometheus_set_server(walk) == Shown(walk, {"NO"}, LAMBDA k :
  Entry("server", <<>>, node_position_key(k, 1), k))
display_prometheus_set_filter(walk) == Shown(walk, {"FG"}, LAMBDA k :
  Entry("filter", node_position_key(k, 1), node_position_key(k, 2), k))
display_prometheus_set_cache(walk) == Shown(walk, {"CC"}, LAMBDA k :
  Entry("cache", <<>>, node_position_key(k, 1), k))
display_prometheus_set_upstream(walk) ==
  Shown(walk, {"UG", "UA"}, display_prometheus_set_upstream_node)

display_prometheus_set(walk) ==
  display_prometheus_set_server(walk) \o display_prometheus_set_filter(walk)
  \o display_prometheus_set_upstream(walk) \o display_prometheus_set_cache(walk)
-----------------------------------------------------------------------------
(* The page: path is the URI in its parts, default the format of the       *)
(* location.  The HTML page has no data, it asks for the JSON.             *)

Formats == {"json", "jsonp", "html", "prometheus"}

display_format(path, default) ==
  LET at == {i \in 1 .. Len(path) - 1 :
               path[i] = "format" /\ path[i + 1] \in Formats}
  IN  IF at = {} THEN default ELSE path[Min(at) + 1]

display_handler_default(walk, path, default) ==
  LET format == display_format(path, default) IN
  CASE format \in {"json", "jsonp"} -> display_set(walk)
    [] format = "prometheus" -> display_prometheus_set(walk)
    [] format = "html" -> <<>>

(* Mutant: of an upstream with a zone only the peers are counted. *)
display_get_upstream_nelts_Peers ==
  LET addrs(u) == SumFunction([j \in DOMAIN u.servers |-> Len(u.servers[j].addrs)])
      nelts(u) == IF u.port \/ u.servers = <<>> THEN 0
                  ELSE IF u.zone THEN Len(u.peers) ELSE addrs(u)
  IN  SumFunction([i \in DOMAIN Upstreams |-> nelts(Upstreams[i])])

display_get_upstream_nelts ==
  LET addrs(u) == SumFunction([j \in DOMAIN u.servers |-> Len(u.servers[j].addrs)])
      nelts(u) == IF u.port \/ u.servers = <<>> THEN 0
                  ELSE (IF u.zone THEN Len(u.peers) ELSE 0) + addrs(u)
  IN  SumFunction([i \in DOMAIN Upstreams |-> nelts(Upstreams[i])])

(* How many entries the memory for a page is allocated for. *)
display_get_size == Cardinality(live) + display_get_upstream_nelts
-----------------------------------------------------------------------------
(* cmd=status *)

node_status_group(walk, group) ==
  CASE group = "NO" -> display_set_server(walk)
    [] group = "UA" -> display_set_upstream_alone(walk)
    [] group = "UG" -> display_set_upstream_group(walk)
    [] group = "CC" -> display_set_cache(walk)
    [] group = "FG" -> display_set_filter(walk)

(* Whether control->count says found: of a server only the first address   *)
(* is compared.                                                            *)
node_upstream_lookup(group, zone) ==
  \/ group = "UA"
  \/ \E i \in DOMAIN Upstreams :
       /\ Upstreams[i].host = node_position_key(zone, 0)
       /\ \E j \in DOMAIN Upstreams[i].servers :
            Upstreams[i].servers[j].addrs[1] = node_position_key(zone, 1)

node_status_zone(group, zone) ==
  LET k == node_generate_key(group, zone) IN
  CASE k \notin live -> <<>>
    [] k \in live /\ group = "NO" -> <<display_set_server_node(k)>>
    [] k \in live /\ group = "CC" -> <<display_set_cache_node(k)>>
    [] k \in live /\ group = "FG" -> <<display_set_filter_node(k)>>
    [] k \in live /\ group \in {"UA", "UG"} ->
         IF node_upstream_lookup(group, zone)
           THEN <<display_prometheus_set_upstream_node(k)>> ELSE <<>>

node_status(walk, group, zone) ==
  LET range == range_set(group, zone) IN
  CASE range = "all" -> display_set(walk)
    [] range = "group" -> node_status_group(walk, group)
    [] range = "zone" -> node_status_zone(group, zone)
    [] range = "none" -> <<>>

(* The value of member of the node of k: its counters, of which the model  *)
(* has two, and 0 for a name that is not known.                            *)
set_by_filter_node_member(k, member) ==
  CASE member = <<"requestCounter">> -> stat_request_counter[k]
    [] member = <<"5xx">> -> stat_5xx_counter[k]
    [] OTHER -> 0

(* The variable of a zone, with that many peers found before; <<>> if it   *)
(* is not found.                                                           *)
set_by_filter_node(group, zone, member, count) ==
  LET k == node_generate_key(group, zone) IN
  IF /\ k \in live
     /\ group \in {"UA", "UG"} => count > 0 \/ node_upstream_lookup(group, zone)
    THEN <<set_by_filter_node_member(k, member)>> ELSE <<>>

(* The variables of a location, one after the other, in one control, whose *)
(* count is never set back.  args[i] is what set_by_filter_init has read.  *)
set_by_filter_variables(args) ==
  LET value(i, count) ==
        IF args[i] = <<>> THEN <<>>
        ELSE set_by_filter_node(args[i][1][1], args[i][2], args[i][3], count)
      counted(i) == args[i][1][1] \in {"UA", "UG"} /\ value(i, 0) # <<>>
  IN  [i \in DOMAIN args |-> value(i, Cardinality({j \in 1 .. i - 1 : counted(j)}))]

(* In the access phase of a request of block b. *)
set_handler(b, args) ==
  IF "enable" \in Options[b] /\ "filter" \in Options[b]
    THEN set_by_filter_variables(args) ELSE [i \in DOMAIN args |-> <<>>]
-----------------------------------------------------------------------------
(* Properties.  A page is made under the mutex and depends on the nodes    *)
(* alone, so it is enough to look when no request is in flight; where the  *)
(* order of the tree does not matter, one walk is enough.                  *)

WalkOf(nodes) == FoldSet(LAMBDA k, walk : Append(walk, k), <<>>, nodes)

Walks ==
  {w \o WalkOf({k \in live : k[1] # "FG"}) :
     w \in SetToSeqs({k \in live : k[1] = "FG"})}

Quiet == \A c \in Conns : pc[c] = "idle"

(* The peers that the status page asks for. *)
Configured(k) ==
  \E i \in DOMAIN Upstreams :
    /\ ~Upstreams[i].port /\ Upstreams[i].host = node_position_key(k, 1)
    /\ \/ \E n \in DOMAIN Upstreams[i].peers :
            Upstreams[i].zone /\ Upstreams[i].peers[n] = node_position_key(k, 2)
       \/ \E j \in DOMAIN Upstreams[i].servers :
            /\ Upstreams[i].servers[j].backup \/ ~Upstreams[i].zone
            /\ \E n \in DOMAIN Upstreams[i].servers[j].addrs :
                 Upstreams[i].servers[j].addrs[n] = node_position_key(k, 2)

(* What is read of the zone of a key, as people write it in a control      *)
(* command, and with its group and a member in set_by_filter.              *)
Told ==
  LET text(zone) == FlattenSeq([i \in DOMAIN zone |->
        CASE zone[i] = "US" -> <<"@">> [] zone[i] = "@" -> alpha
          [] OTHER -> <<zone[i]>>])
  IN  [k \in Keys |-> control_zone(text(SubSeq(k, 3, Len(k))))]
Asked ==
  [k \in Keys |-> set_by_filter_init(
     <<k[1], "/">> \o Spelled(SubSeq(k, 3, Len(k))) \o <<"/", "requestCounter">>)]

(* What ShownOnce needs: no part of a key has a separator in it, and an    *)
(* upstream has no peer twice and is not called like the peers of none.    *)
KeysParted ==
  /\ Keys \subseteq Seq(Chars \cup Types)
  /\ \A k \in Keys :
       /\ Len(k) >= 2 /\ k[1] \in Types /\ k[2] = "US"
       /\ Cardinality({i \in DOMAIN k : k[i] = "US"}) =
            IF k[1] \in {"FG", "UG"} THEN 2 ELSE 1

PeersParted ==
  \A i \in DOMAIN Upstreams :
    LET names == PeersShown(Upstreams[i]) IN
    /\ "US" \notin Range(Upstreams[i].host) /\ Upstreams[i].host # <<"::nogroups">>
    /\ \A m, n \in DOMAIN names :
         "US" \notin Range(names[n]) /\ (names[m] = names[n] => m = n)

(* Whatever the shape of the tree, the JSON page shows every node once,    *)
(* and under the zone, group and name the Prometheus page shows it under,  *)
(* except the nodes of peers that are no longer configured; no two entries *)
(* have the same place in the page.                                        *)
ShownOnce ==
  Quiet => \A walk \in Walks :
    LET page == display_handler_default(walk, <<"status", "format", "json">>, "html")
        prometheus == display_handler_default(walk, <<"status">>, "prometheus") IN
    /\ Cardinality({<<e.zone, e.group, e.name>> : e \in Range(page)}) = Len(page)
    /\ {e \in Range(page) : e.node # <<>>} =
         {e \in Range(prometheus) :
            e.node[1] = "UG" => Configured(e.node)}

(* The memory measured for a page has room for every entry of it, whatever *)
(* upstreams are configured and whichever of their peers have nodes, as    *)
(* long as no node is added between measuring and showing.                 *)
RoomForPage ==
  Quiet =>
    LET walk == WalkOf(live) IN
    /\ Len(display_set(walk)) <= display_get_size
    /\ Len(display_prometheus_set(walk)) <= display_get_size

(* A status command for a group shows what the page shows of it (and the   *)
(* peers without a group next to the groups); one for a zone shows it as   *)
(* the page does, unless it is a peer at another than the first address of *)
(* its server.  A variable is the counter of the zone if the status        *)
(* command finds it, whatever the variables of the location before it are, *)
(* but for such a peer behind another peer, which it finds, and a zone     *)
(* with both @ and /, whose second escape is not read (set_by_filter_init).*)
StatusAgrees ==
  Quiet =>
    LET walk == WalkOf(live)
        page == display_set(walk)
        part(group) ==
          SelectSeq(page, LAMBDA e :
            \/ e.zone = "server" /\ group = "NO"
            \/ e.zone = "cache" /\ group = "CC"
            \/ e.zone = "filter" /\ group = "FG"
            \/ e.zone = "upstream" /\ group = "UG"
            \/ e.zone = "upstream" /\ e.group = <<"::nogroups">> /\ group = "UA")
        status == [k \in Keys |-> node_status(walk, k[1], Told[k])]
        second(k) == \E i \in DOMAIN Upstreams :
                       \E j \in DOMAIN Upstreams[i].servers :
                         node_position_key(k, 2) \in
                           Range(Tail(Upstreams[i].servers[j].addrs))
        Found == {k \in Keys : status[k] # <<>>}
        Set == {k \in Keys : ~({"@", "/"} \subseteq Range(k))}
        peers == {k \in Set : k[1] \in {"UA", "UG"}}
        shown(k, found) ==
          IF k \in Set /\ found THEN <<stat_request_counter[k]>> ELSE <<>>
    IN
    /\ \A group \in Types : node_status(walk, group, <<"*">>) = part(group)
    /\ \A k \in Keys :
         /\ status[k] = IF k[1] = "UG" /\ second(k) THEN <<>>
                        ELSE SelectSeq(page, LAMBDA e : e.node = k)
         /\ \A b \in {"server", "location"} :
              {"enable", "filter"} \subseteq Options[b] =>
                set_handler(b, <<Asked[k]>>)[1] = shown(k, k \in Found)
         /\ \A l \in peers :
              set_by_filter_variables(<<Asked[l], Asked[k]>>)[2] =
                shown(k, k \in Found \/ (k \in live /\ l \in Found))
=============================================================================
